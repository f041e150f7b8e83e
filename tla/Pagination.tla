----------------------------- MODULE Pagination -----------------------------
(***************************************************************************)
(* A client walks over a listing, page by page, while rows are created and *)
(* deleted: GET /connections, GET /connections/{id}/history and GET        *)
(* /skills (src/app/routers/connections.py, src/app/routers/skills.py).    *)
(*                                                                         *)
(* A page is one SELECT: the newest rows whose id is below the cursor.     *)
(* The cursor of the next page is the id of the last row of this one, but  *)
(* rows are ordered by created_at and ids are random.  A row is stamped    *)
(* before its transaction commits, and stamps may be equal.                *)
(***************************************************************************)
EXTENDS Naturals, FiniteSets

CONSTANTS
  Ids,       \* the ids of rows, as numbers: the order is that of the strings
  PageSize,  \* limit
  MaxTime    \* bound: the clock stops there

ASSUME PageConstants ==
  Ids \subseteq Nat \ {0} /\ PageSize \in Nat \ {0} /\ MaxTime \in Nat \ {0}

VARIABLES
  row,       \* id -> the state of its row
  created,   \* id -> its created_at, 0 if it has none
  now,       \* the clock
  walk,      \* how far the client is
  cursor,    \* the cursor of the next request, 0 if none
  page,      \* the rows of the last page
  handed,    \* the cursors handed out so far
  from,      \* the rows that were there when the walk began (history)
  shown,     \* the rows on some page so far (history)
  repeated   \* the rows on more than one page (history)

vars == <<row, created, now, walk, cursor, page, handed, from, shown, repeated>>
rowVars == <<row, created, now>>
walkVars == <<walk, cursor, page, handed, from, shown, repeated>>

TypeOK ==
  /\ row \in [Ids -> {"absent", "stamped", "live", "deleted"}]
  /\ created \in [Ids -> 0..MaxTime]
  /\ now \in 1..MaxTime
  /\ walk \in {"begin", "walking", "done"}
  /\ cursor \in Ids \cup {0}
  /\ page \subseteq Ids /\ Cardinality(page) <= PageSize
  /\ handed \subseteq Ids
  /\ from \subseteq Ids /\ shown \subseteq Ids /\ repeated \subseteq Ids

Init ==
  /\ row = [i \in Ids |-> "absent"]
  /\ created = [i \in Ids |-> 0]
  /\ now = 1
  /\ walk = "begin" /\ cursor = 0 /\ page = {}
  /\ handed = {} /\ from = {} /\ shown = {} /\ repeated = {}

Live == {i \in Ids : row[i] = "live"}

(***************************************************************************)
(* The SELECT.  An operator called X_Slip is a variant of X with a         *)
(* plausible slip: no run uses it as it stands; put in the place of X, it  *)
(* makes a property fail that holds of X.                                  *)
(***************************************************************************)

\* The row at the cursor is selected again.
Below_Inclusive(i) == cursor # 0 => i <= cursor

Below(i) == cursor # 0 => i < cursor

Selected == {i \in Live : Below(i)}

\* ORDER BY created_at ASC.
Pages_OldestFirst(S) ==
  {P \in SUBSET S :
     /\ Cardinality(P) <= PageSize
     /\ P # S => Cardinality(P) = PageSize
     /\ \A p \in P, s \in S \ P : created[s] >= created[p]}

\* The first page of the rows S: ORDER BY created_at DESC leaves the order of
\* rows with equal stamps open.
Pages(S) ==
  {P \in SUBSET S :
     /\ Cardinality(P) <= PageSize
     /\ P # S => Cardinality(P) = PageSize
     /\ \A p \in P, s \in S \ P : created[s] <= created[p]}

\* The first row of the page is taken for its cursor.
Lasts_First(P) == {l \in P : \A p \in P : created[p] <= created[l]}

\* items[-1]
Lasts(P) == {l \in P : \A p \in P : created[l] <= created[p]}

(***************************************************************************)
(* Rows.                                                                   *)
(***************************************************************************)

\* A handler or a job makes a row, with the clock's time, in its transaction.
Stamp(i) ==
  /\ row[i] = "absent"
  /\ row' = [row EXCEPT ![i] = "stamped"]
  /\ created' = [created EXCEPT ![i] = now]
  /\ UNCHANGED <<now, walkVars>>

\* The transaction commits.
Commit(i) ==
  /\ row[i] = "stamped"
  /\ row' = [row EXCEPT ![i] = "live"]
  /\ UNCHANGED <<created, now, walkVars>>

\* A row is deleted.
Delete(i) ==
  /\ row[i] = "live"
  /\ row' = [row EXCEPT ![i] = "deleted"]
  /\ UNCHANGED <<created, now, walkVars>>

Tick ==
  /\ now < MaxTime
  /\ now' = now + 1
  /\ UNCHANGED <<row, created, walkVars>>

(***************************************************************************)
(* The walk.                                                               *)
(***************************************************************************)

Show(P) ==
  /\ page' = P
  /\ from' = IF walk = "begin" THEN Live ELSE from
  /\ repeated' = repeated \cup (shown \cap P)
  /\ shown' = shown \cup P
  /\ UNCHANGED rowVars

\* There are more rows: the answer has a cursor.
NextPage ==
  /\ walk # "done"
  /\ \E P \in Pages(Selected) \ {Selected} :
       /\ Show(P)
       /\ \E l \in Lasts(P) : cursor' = l /\ handed' = handed \cup {l}
  /\ walk' = "walking"

\* There are none.
LastPage ==
  /\ walk # "done"
  /\ Selected \in Pages(Selected)
  /\ Show(Selected)
  /\ walk' = "done"
  /\ UNCHANGED <<cursor, handed>>

Fetch == NextPage \/ LastPage

Next ==
  \/ \E i \in Ids : Stamp(i) \/ Commit(i) \/ Delete(i)
  \/ Tick
  \/ Fetch

\* A client that has begun a walk goes on with it.
Spec == Init /\ [][Next]_vars /\ WF_vars(Fetch)

(***************************************************************************)
(* Properties                                                              *)
(***************************************************************************)

\* The only reason to see a row twice is an older row, with a greater id,
\* whose id was handed out as the cursor.
RepeatsExplained ==
  \A i \in repeated : \E j \in handed : i < j /\ created[j] <= created[i]

\* The only reason to miss a row that was there from the beginning to the end
\* is a newer row, with a smaller id, whose id was handed out as the cursor.
SkipsExplained ==
  walk = "done" =>
    \A i \in (from \cap Live) \ shown :
      \E j \in handed : j < i /\ created[i] <= created[j]

\* A walk ends, however many rows are created meanwhile.
WalkEnds == walk = "walking" ~> walk = "done"

(***************************************************************************)
(* The inductive invariant behind them.                                    *)
(***************************************************************************)

\* What the client knows has been committed.
KnownRows ==
  \A i \in handed \cup from \cup shown \cup repeated : row[i] \in {"live", "deleted"}

WalkInPlace ==
  /\ walk = "begin" => handed = {} /\ shown = {} /\ cursor = 0
  /\ walk = "walking" => cursor # 0

\* A row that has been shown and will be selected again precedes a cursor that
\* is not newer.
ShownAgain ==
  walk = "walking" =>
    \A i \in shown : i < cursor => \E j \in handed : i < j /\ created[j] <= created[i]

\* A row that was there is shown, or still to come, or has been jumped over.
StillToCome ==
  \A i \in (from \cap Live) \ shown :
    \/ walk = "walking" /\ i < cursor
    \/ \E j \in handed : j < i /\ created[i] <= created[j]

PageInv ==
  /\ TypeOK /\ KnownRows /\ WalkInPlace /\ ShownAgain /\ StillToCome
  /\ RepeatsExplained
=============================================================================
