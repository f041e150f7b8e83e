----------------------------- MODULE Connections -----------------------------
(***************************************************************************)
(* The writing requests of src/app/routers/connections.py: create, sync,   *)
(* status change, delete.  A handler reads the connection's row (or counts *)
(* rows), decides on what it has read, and writes constants computed from  *)
(* it: an UPDATE waits for the row's lock and then overwrites.  An UPDATE  *)
(* of a row that is gone raises StaleDataError; a DELETE of one only warns.*)
(*                                                                         *)
(* A sync leaves a skill and a transfer behind: a pair, numbered in the    *)
(* order of the commits.  A deletion detaches or deletes the pairs of its  *)
(* connection, row by row, before and after it deletes the connection.     *)
(***************************************************************************)
EXTENDS Requests

CONSTANTS
  Conns,    \* connection ids (random: never used twice)
  MaxLive,  \* the plan's number of connections that are not archived, 0: any
  Given,    \* the connections there are at the start: active, synced once
  Falling   \* the tables, of skills and transfers, whose later rows happened
            \* to draw smaller ids; in the others they drew greater ones

ASSUME ConnectionConstants ==
  /\ IsFiniteSet(Conns) /\ IsFiniteSet(Requests) /\ Requests # {}
  /\ MaxLive \in Nat
  /\ Given \subseteq Conns /\ (MaxLive > 0 => Cardinality(Given) <= MaxLive)
  /\ Falling \subseteq {"skill", "transfer"}

VARIABLES
  conn,      \* connection -> its row as last committed
  op,        \* request -> what it asks for
  seen,      \* request -> the row it has read
  synced,    \* connection -> pairs its syncs have committed
  found,     \* deletion -> the pairs its SELECTs have found
  wrote      \* request -> the rows its flush is done with: locked, or gone

vars == <<stage, key, conn, op, seen, synced, found, wrote>>

Absent == [status |-> "absent", count |-> 0]
New == [status |-> "active", count |-> 0]
Present == {"active", "paused", "archived"}
Once == [status |-> "active", count |-> 1]

NoOp == [kind |-> "none"]
Creates == [kind : {"create"}, conn : Conns]
Syncs == [kind : {"sync"}, conn : Conns, dry : BOOLEAN]
Changes == [kind : {"status"}, conn : Conns, to : Present]
Deletes == [kind : {"delete"}, conn : Conns, skills : BOOLEAN, logs : BOOLEAN]
Ops == Creates \cup Syncs \cup Changes \cup Deletes

Rows == [status : Present \cup {"absent", "deleted"}, count : Nat]

\* How many pairs a deletion has to delete the skill of, the transfer of, and
\* how many it knows the skill of, the transfer of; before its SELECTs, how many
\* there were when it read the connection.  breaks: its flush would set
\* skill_id, which is NOT NULL, to NULL in a transfer it does not delete.
Finds ==
  [skills : Nat, logs : Nat, allSkills : Nat, allLogs : Nat,
   ready : BOOLEAN, breaks : BOOLEAN]
Known(n) ==
  [skills |-> n, logs |-> n, allSkills |-> n, allLogs |-> n,
   ready |-> FALSE, breaks |-> FALSE]

\* Rows as locks know them: a connection's own, and those of its pairs.
Row(c) == <<"connection", c, 0>>
SkillRow(c, i) == <<"skill", c, i>>
TransferRow(c, i) == <<"transfer", c, i>>
AllRows == {"connection", "skill", "transfer"} \X Conns \X Nat
RowsOf(c) ==
  {Row(c)} \cup {SkillRow(c, i) : i \in 1 .. synced[c]}
           \cup {TransferRow(c, i) : i \in 1 .. synced[c]}

TypeOK ==
  /\ RequestsOK
  /\ conn \in [Conns -> Rows]
  /\ op \in [Requests -> Ops \cup {NoOp}]
  /\ \A r \in Requests : IF stage[r] = "new" THEN op[r] = NoOp ELSE op[r] \in Ops
  /\ seen \in [Requests -> Rows]
  /\ synced \in [Conns -> Nat]
  /\ found \in [Requests -> Finds]
  /\ wrote \in [Requests -> SUBSET AllRows]

Init ==
  /\ RequestsInit
  /\ conn = [c \in Conns |-> IF c \in Given THEN Once ELSE Absent]
  /\ op = [r \in Requests |-> NoOp]
  /\ seen = [r \in Requests |-> Absent]
  /\ synced = [c \in Conns |-> IF c \in Given THEN 1 ELSE 0]
  /\ found = [r \in Requests |-> Known(0)]
  /\ wrote = [r \in Requests |-> {}]

(***************************************************************************)
(* What the handlers compute.  An operator called X_Slip is a variant of X *)
(* with a plausible slip: no run uses it as it stands; put in the place of *)
(* X, it makes a property fail that holds of X.                            *)
(***************************************************************************)

Live == {c \in Conns : conn[c].status \in {"active", "paused"}}

\* A sync leaves nothing behind if it is a dry run that reaches the threshold,
\* which dry stands for: one below it is rejected, or partial, and recorded like
\* any other sync.
Persists(o) == o.kind = "sync" /\ ~o.dry

\* The limit is compared with <= instead of <.
Admitted_OffByOne(o) ==
  CASE o.kind = "create" -> MaxLive > 0 => Cardinality(Live) <= MaxLive
    [] o.kind = "sync" -> conn[o.conn].status = "active"
    [] o.kind = "status" -> conn[o.conn].status \in {"active", "paused"} \ {o.to}
    [] o.kind = "delete" -> conn[o.conn].status \in Present

\* Any connection there is may be synced.
Admitted_SyncsPaused(o) ==
  CASE o.kind = "create" -> MaxLive > 0 => Cardinality(Live) < MaxLive
    [] o.kind = "sync" -> conn[o.conn].status \in Present
    [] o.kind = "status" -> conn[o.conn].status \in {"active", "paused"} \ {o.to}
    [] o.kind = "delete" -> conn[o.conn].status \in Present

\* The checks a handler makes on what it reads.
Admitted(o) ==
  CASE o.kind = "create" -> MaxLive > 0 => Cardinality(Live) < MaxLive
    [] o.kind = "sync" -> conn[o.conn].status = "active"
    [] o.kind = "status" -> conn[o.conn].status \in {"active", "paused"} \ {o.to}
    [] o.kind = "delete" -> conn[o.conn].status \in Present

\* The flush writes the connection's row.
WritesRow(o) == o.kind \in {"status", "delete"} \/ Persists(o)

\* The statements of a deletion's flush, each row being in one of them:
\* 1 UPDATE skills, 2 UPDATE transfers, 3 DELETE transfers, 4 DELETE skills,
\* 5 DELETE connection, and for the rows that were committed since its SELECTs
\* the ON DELETE SET NULL of 6 skills, 7 transfers.
Statement(r, x) ==
  LET f == found[r] IN
  CASE x[1] = "skill" ->
         IF x[3] <= f.skills THEN 4 ELSE IF x[3] <= f.allSkills THEN 1 ELSE 6
    [] x[1] = "transfer" ->
         IF x[3] <= f.logs THEN 3 ELSE IF x[3] <= f.allLogs THEN 2 ELSE 7
    [] OTHER -> 5

\* Within a statement of the ORM rows go by id, in the others as they come.
Before(r, x, y) ==
  \/ Statement(r, x) < Statement(r, y)
  \/ /\ Statement(r, x) = Statement(r, y)
     /\ IF x[1] \in Falling /\ Statement(r, x) < 5 THEN x[3] > y[3] ELSE x[3] < y[3]

\* A committed deletion has deleted the row.
Gone(x) ==
  \E q \in Requests :
    /\ stage[q] = "done" /\ op[q].kind = "delete" /\ op[q].conn = x[2]
    /\ Statement(q, x) \in {3, 4, 5}

\* The rows the flush of a deletion still has to write, and the next of them.
\* Nothing refers to a connection that is gone; the statement that breaks the
\* constraint is the last one.
Left(r) ==
  {x \in RowsOf(op[r].conn) \ wrote[r] :
     /\ Statement(r, x) > 5 => ~Gone(Row(op[r].conn))
     /\ found[r].breaks => Statement(r, x) <= 2}
Upcoming(r) == {x \in Left(r) : \A y \in Left(r) \ {x} : Before(r, x, y)}

Flushing(r) == stage[r] = "read" /\ op[r].kind = "delete" /\ found[r].ready

\* The transaction of q holds the row, from its statement to its end.
HoldsRow(q, x) == x \in wrote[q] /\ ~Gone(x)

\* No other transaction holds that row.
RowFree(r, x) == \A q \in Requests \ {r} : ~HoldsRow(q, x)

\* The row the next statement of r needs.
Needs(r) ==
  IF Flushing(r) THEN Upcoming(r)
  ELSE IF stage[r] = "read" /\ op[r].kind # "delete" /\ WritesRow(op[r])
       THEN {Row(op[r].conn)} ELSE {}

\* r cannot go on before q has ended: it needs the row of its key, or a row of
\* its connection, and q holds it.
WaitsFor(r, q) ==
  /\ q # r
  /\ \/ stage[r] = "new" /\ InTransaction(q) /\ key[q] = key[r]
     \/ \E x \in Needs(r) : HoldsRow(q, x)

\* What the SELECTs of a deletion may have found by now, in their order: the
\* skills and the transfers to purge, then, in the flush, the skills and the
\* transfers of the connection.  Each finds what was committed before it;
\* once the connection is deleted, no row refers to it.
Answers(r) ==
  LET c == op[r].conn IN
  {v \in [1 .. 4 -> {0} \cup found[r].skills .. synced[c]] :
     \E n \in 0 .. 4 :
       /\ n = 4 \/ conn[c].status = "deleted"
       /\ \A i \in 1 .. n : v[i] >= found[r].skills /\ \A j \in i .. n : v[i] <= v[j]
       /\ \A i \in n + 1 .. 4 : v[i] = 0}

Greater(m, n) == IF m > n THEN m ELSE n

(***************************************************************************)
(* The requests.                                                           *)
(***************************************************************************)

\* A request arrives and is authenticated.  The id of a new connection is
\* one that nobody else has drawn.
Begin(r, o) ==
  /\ Authenticated(r)
  /\ o.kind = "create" => o.conn \notin Given /\ \A q \in Requests : op[q] # o
  /\ op' = [op EXCEPT ![r] = o]
  /\ UNCHANGED <<conn, seen, synced, found, wrote>>

\* The handler reads and goes on.
Read(r) ==
  /\ stage[r] = "open"
  /\ Admitted(op[r])
  /\ Reach(r, "read")
  /\ seen' = [seen EXCEPT ![r] = conn[op[r].conn]]
  /\ found' = IF op[r].kind = "delete"
              THEN [found EXCEPT ![r] = Known(synced[op[r].conn])] ELSE found
  /\ UNCHANGED <<conn, op, synced, wrote>>

\* It refuses: what it has read does not allow the request, or its data does
\* not (an unknown domain, too many episodes).
Refuse(r) ==
  /\ Refused(r)
  /\ UNCHANGED <<conn, op, seen, synced, found, wrote>>

\* A deletion has run its SELECTs.  The last ones, of the transfers of each
\* skill it deletes, show whether its flush will break the constraint: POST
\* /skills/{id}/transfer may have made one under another connection, or none.
Prepare(r) ==
  /\ stage[r] = "read" /\ op[r].kind = "delete" /\ ~found[r].ready
  /\ \E v \in Answers(r), elsewhere \in BOOLEAN :
       LET c == op[r].conn
           skills == IF op[r].skills THEN v[1] ELSE 0
           logs == IF op[r].logs THEN v[2] ELSE 0
       IN found' = [found EXCEPT ![r] =
            [skills |-> skills, logs |-> logs,
             allSkills |-> Greater(skills, v[3]), allLogs |-> Greater(logs, v[4]),
             ready |-> TRUE,
             breaks |-> \E i \in 1 .. skills :
               /\ ~Gone(SkillRow(c, i))
               /\ elsewhere \/ (i > logs /\ ~Gone(TransferRow(c, i)))]]
  /\ UNCHANGED <<requestVars, conn, op, seen, synced, wrote>>

\* The flush of a deletion gets to its next row: it locks it, or passes over
\* it because it is gone.
Write(r) ==
  /\ Flushing(r)
  /\ \E x \in Upcoming(r) :
       RowFree(r, x) /\ wrote' = [wrote EXCEPT ![r] = @ \cup {x}]
  /\ UNCHANGED <<requestVars, conn, op, seen, synced, found>>

\* The row of an UPDATE is written whether it is there or not.
Flush_Upserts(r) ==
  LET o == op[r] IN
  /\ stage[r] = "read"
  /\ o.kind = "delete" => found[r].ready /\ ~found[r].breaks /\ Left(r) = {}
  /\ o.kind # "delete" /\ WritesRow(o) => RowFree(r, Row(o.conn))
  /\ Reach(r, "written")
  /\ wrote' = IF o.kind # "delete" /\ WritesRow(o)
              THEN [wrote EXCEPT ![r] = {Row(o.conn)}] ELSE wrote
  /\ UNCHANGED <<conn, op, seen, synced, found>>

\* The flush succeeds: a deletion has written all its rows, another request
\* writes that of the connection.
Flush(r) ==
  LET o == op[r] IN
  /\ stage[r] = "read"
  /\ o.kind = "delete" => found[r].ready /\ ~found[r].breaks /\ Left(r) = {}
  /\ o.kind # "delete" /\ WritesRow(o) =>
       RowFree(r, Row(o.conn)) /\ conn[o.conn].status # "deleted"
  /\ Reach(r, "written")
  /\ wrote' = IF o.kind # "delete" /\ WritesRow(o)
              THEN [wrote EXCEPT ![r] = {Row(o.conn)}] ELSE wrote
  /\ UNCHANGED <<conn, op, seen, synced, found>>

\* The locks of a transaction that fails are left behind.
Release_Never(r) == found' = [found EXCEPT ![r] = Known(0)] /\ UNCHANGED wrote

\* The transaction of r is rolled back, and its locks with it.
Release(r) ==
  /\ found' = [found EXCEPT ![r] = Known(0)]
  /\ wrote' = [wrote EXCEPT ![r] = {}]

\* The flush raises: StaleDataError, when the row of an UPDATE is gone (the
\* driver may not tell when the statement is about several), or the violation
\* of NOT NULL among the UPDATEs of transfers.
FlushRaises(r) ==
  /\ \/ /\ stage[r] = "read" /\ op[r].kind # "delete" /\ WritesRow(op[r])
        /\ RowFree(r, Row(op[r].conn)) /\ conn[op[r].conn].status = "deleted"
     \/ /\ Flushing(r)
        /\ \/ \E x \in Upcoming(r) : Statement(r, x) <= 2 /\ Gone(x)
           \/ found[r].breaks /\ \A x \in Left(r) : Statement(r, x) # 1
  /\ Reach(r, "failed")
  /\ Release(r)
  /\ UNCHANGED <<conn, op, seen, synced>>

\* A dry run is counted.
Written_CountsDryRuns(r) ==
  LET o == op[r]
      row == conn[o.conn]
  IN CASE o.kind = "create" -> New
       [] o.kind = "sync" -> [row EXCEPT !.count = seen[r].count + 1]
       [] o.kind = "status" -> [row EXCEPT !.status = o.to]
       [] o.kind = "delete" -> [row EXCEPT !.status = "deleted"]

\* The row the transaction of r leaves behind.
Written(r) ==
  LET o == op[r]
      row == conn[o.conn]
  IN CASE o.kind = "create" -> New
       [] o.kind = "sync" ->
            IF Persists(o) THEN [row EXCEPT !.count = seen[r].count + 1] ELSE row
       [] o.kind = "status" -> [row EXCEPT !.status = o.to]
       [] o.kind = "delete" -> [row EXCEPT !.status = "deleted"]

\* get_db commits.
Commit(r) ==
  /\ Committed(r)
  /\ conn' = [conn EXCEPT ![op[r].conn] = Written(r)]
  /\ synced' = IF Persists(op[r]) THEN [synced EXCEPT ![op[r].conn] = @ + 1] ELSE synced
  /\ wrote' = [wrote EXCEPT ![r] = {}]
  /\ UNCHANGED <<op, seen, found>>

\* The process dies, the client goes away, the database ends a deadlock, the
\* commit fails.
Abort(r) ==
  /\ RolledBack(r)
  /\ Release(r)
  /\ UNCHANGED <<conn, op, seen, synced>>

Proceed(r) ==
  \/ Read(r) \/ Refuse(r) \/ Prepare(r) \/ Write(r) \/ Flush(r) \/ FlushRaises(r)
  \/ Commit(r)

Next ==
  \E r \in Requests : (\E o \in Ops : Begin(r, o)) \/ Proceed(r) \/ Abort(r)

\* A handler that can go on goes on, and the database hands a lock to a
\* request that waits for it.
Fairness == \A r \in Requests : WF_vars(Proceed(r))

Spec == Init /\ [][Next]_vars /\ Fairness

(***************************************************************************)
(* Properties of any number of keys                                        *)
(***************************************************************************)

\* However requests interleave, transfer_count never claims a transfer that
\* was not committed: updates can get lost, none is counted twice.
CountNeverOverstates == \A c \in Conns : conn[c].count <= synced[c]

\* A deleted connection is not brought back, or synced any more, by a request
\* that read it before the deletion.
DeletedStays ==
  [][\A c \in Conns : conn[c].status = "deleted" =>
       conn'[c] = conn[c] /\ synced'[c] = synced[c]]_vars

\* Requests that wait for each other, which only the database's detection of
\* deadlocks can end: among them are two deletions of one connection, with
\* different keys, that write some row in different statements, because only
\* one of them purges it or was in time to find it.  Any other set of requests
\* has one that waits neither for another of the set nor for one that is over.
DeadlocksExplained ==
  \A S \in SUBSET {r \in Requests : \E q \in Requests : WaitsFor(r, q)} :
    /\ S # {}
    /\ \A r \in S : \E q \in Requests : WaitsFor(r, q) /\ (q \in S \/ ~InTransaction(q))
    => \E p, q \in S :
         /\ key[p] # key[q] /\ op[p].conn = op[q].conn
         /\ op[p].kind = "delete" /\ op[q].kind = "delete"
         /\ \E x \in RowsOf(op[p].conn) : Statement(p, x) # Statement(q, x)

\* "Your plan allows N active connections" (connections.py line 91; the plan
\* table in README.md, lines 389-393): each further key an organisation uses
\* can take it one past the limit, by racing the count of a creation or by a
\* status change decided on a row that has been archived since; never more.
PlanLimit ==
  MaxLive > 0 => Cardinality(Live) <= MaxLive + Cardinality(KeysUsed) - 1

(***************************************************************************)
(* Promises that hold as long as the requests use a single key             *)
(***************************************************************************)

\* transfer_count is the number of transfers the syncs of a connection made.
CountExact ==
  SameKey => \A c \in Conns : conn[c].count = synced[c]

\* Each request acts on the table in one step, as its documentation has it:
\* among other things, an archived connection "cannot be un-archived via API"
\* and a paused one is not synced (connections.py lines 447-449).
Atomic == INSTANCE ConnectionsAtomic
ActsAtomically == Atomic!Init /\ [][SameKey => Atomic!Next]_conn

(***************************************************************************)
(* The inductive invariant behind them.                                    *)
(***************************************************************************)

\* A request creates a connection that nobody else creates and that does not
\* exist until it commits.
CreatesFresh ==
  \A r \in Requests : op[r].kind = "create" =>
    /\ op[r].conn \notin Given
    /\ \A q \in Requests : op[q] = op[r] => q = r
    /\ stage[r] # "done" => conn[op[r].conn] = Absent

\* A row that was ever there was given, or created by a request.
CreatedOnce ==
  \A c \in Conns : conn[c] # Absent =>
    c \in Given \/ \E q \in Requests : op[q].kind = "create" /\ op[q].conn = c

\* What a request has read may be out of date, but it was true once: the
\* connection exists, and its counter has not been ahead of the transfers.
SeenWasTrue ==
  \A r \in Requests : stage[r] \in {"read", "written"} /\ op[r].kind # "create" =>
    /\ conn[op[r].conn].status # "absent"
    /\ seen[r].count <= synced[op[r].conn]

\* What a deletion has found was there.
FoundWasThere ==
  \A r \in Requests : op[r].kind = "delete" /\ stage[r] \in {"read", "written", "done"} =>
    LET f == found[r] IN
    /\ {f.skills, f.logs, f.allSkills, f.allLogs} \subseteq 0 .. synced[op[r].conn]
    /\ stage[r] # "read" => f.ready /\ ~f.breaks

\* A request writes rows of its connection and holds them to its end; a flush
\* that is over has written the connection's own, one that is not is a
\* deletion's.  The row that an UPDATE has written is there.
WritersHoldRow ==
  \A r \in Requests :
    /\ wrote[r] # {} =>
         /\ stage[r] = "written" \/ Flushing(r)
         /\ wrote[r] \subseteq RowsOf(op[r].conn)
    /\ stage[r] = "written" /\ WritesRow(op[r]) =>
         /\ Row(op[r].conn) \in wrote[r]
         /\ op[r].kind # "delete" => conn[op[r].conn].status # "deleted"

\* No two transactions hold a row.
HeldByOne ==
  \A q, r \in Requests : q # r => \A x \in wrote[q] \cap wrote[r] : Gone(x)

\* A deletion writes the rows it has found in the order of its statements; it
\* goes on to those it has not while the connection's row is its own.
InOrder ==
  \A r \in Requests : op[r].kind = "delete" =>
    \A x \in wrote[r] :
      /\ \A y \in RowsOf(op[r].conn) :
           Before(r, y, x) /\ Statement(r, y) <= 5 => y \in wrote[r]
      /\ Statement(r, x) > 5 => ~Gone(Row(op[r].conn))

\* The row of a connection is gone exactly when it was deleted.
GoneIsDeleted == \A c \in Conns : Gone(Row(c)) <=> conn[c].status = "deleted"

\* The invariant as a whole.
ConnInv ==
  /\ TypeOK /\ KeysInTurn /\ CreatesFresh /\ CreatedOnce /\ SeenWasTrue
  /\ FoundWasThere /\ WritersHoldRow /\ HeldByOne /\ InOrder /\ GoneIsDeleted
  /\ CountNeverOverstates

\* The connections that are live or that a request has decided to make so:
\* no more than the limit and a request in hand per further key.
Reviving ==
  {r \in Requests : stage[r] \in {"read", "written"} /\
     (op[r].kind = "create" \/ (op[r].kind = "status" /\ op[r].to # "archived"))}
Pending == {op[r].conn : r \in Reviving}
Potential == Live \cup Pending
PotentialLimit ==
  MaxLive > 0 => Cardinality(Potential) <= MaxLive + Cardinality(KeysUsed) - 1

\* With a single key a request in hand has seen the rows as they are.
SeenIsCurrent ==
  \A r \in Requests : stage[r] \in {"read", "written"} =>
    /\ seen[r] = conn[op[r].conn]
    /\ Admitted(op[r])

\* What a single key adds to the invariant.
SerialInv == SameKey => SeenIsCurrent /\ CountExact
=============================================================================
