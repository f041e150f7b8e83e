------------------------- MODULE Pagination_proofs -------------------------
(***************************************************************************)
(* Theorems about Pagination, for any set of ids, page size and clock: a   *)
(* walk repeats or misses a row only because of a cursor whose row is out  *)
(* of order, and is exact where the ids follow the order of creation.      *)
(***************************************************************************)
EXTENDS Pagination, FiniteSetTheorems, TLAPS

\* A step that leaves the client alone: the rows it knows keep their stamps,
\* and none of them comes back to life.
LEMMA RowsKeep ==
  ASSUME TypeOK, KnownRows,
         Tick \/ \E i \in Ids : Stamp(i) \/ Commit(i) \/ Delete(i)
  PROVE  /\ TypeOK' /\ KnownRows' /\ UNCHANGED walkVars
         /\ \A i \in handed \cup from \cup shown \cup repeated : created'[i] = created[i]
         /\ from \cap Live' \subseteq Live
<1> USE PageConstants DEF TypeOK, KnownRows, walkVars, Live
<1>1. CASE Tick
  BY <1>1 DEF Tick
<1>2. ASSUME NEW i \in Ids, Stamp(i)
      PROVE  /\ TypeOK' /\ KnownRows' /\ UNCHANGED walkVars
             /\ \A j \in handed \cup from \cup shown \cup repeated : created'[j] = created[j]
             /\ from \cap Live' \subseteq Live
  BY <1>2 DEF Stamp
<1>3. ASSUME NEW i \in Ids, Commit(i)
      PROVE  /\ TypeOK' /\ KnownRows' /\ UNCHANGED walkVars
             /\ created' = created
             /\ from \cap Live' \subseteq Live
  BY <1>3 DEF Commit
<1>4. ASSUME NEW i \in Ids, Delete(i)
      PROVE  /\ TypeOK' /\ KnownRows' /\ UNCHANGED walkVars
             /\ created' = created
             /\ from \cap Live' \subseteq Live
  BY <1>4 DEF Delete
<1>5. QED
  BY <1>1, <1>2, <1>3, <1>4

\* What an answer with a cursor is: the newest rows below the old cursor, the
\* oldest of them the new one.
LEMMA NextPageFacts ==
  ASSUME TypeOK, NextPage
  PROVE  \E P \in SUBSET Selected, l \in Ids :
           /\ Cardinality(P) <= PageSize
           /\ l \in P
           /\ \A p \in P : created[l] <= created[p]
           /\ \A s \in Selected \ P : created[s] <= created[l]
           /\ Show(P) /\ cursor' = l /\ handed' = handed \cup {l} /\ walk' = "walking"
  BY DEF TypeOK, NextPage, Pages, Lasts, Selected, Live

\* The inductive invariant holds at first and is kept.
THEOREM InvHolds == Spec => []PageInv
<1> USE PageConstants
<1>1. Init => PageInv
  <2>1. ASSUME Init PROVE TypeOK
    BY <2>1, FS_EmptySet DEF Init, TypeOK
  <2>2. QED
    BY <2>1 DEF Init, PageInv, KnownRows, WalkInPlace, ShownAgain, StillToCome,
                RepeatsExplained
<1>2. PageInv /\ [Next]_vars => PageInv'
  <2> SUFFICES ASSUME PageInv, [Next]_vars PROVE PageInv'
    OBVIOUS
  <2> USE DEF PageInv
  <2>1. CASE Tick \/ \E i \in Ids : Stamp(i) \/ Commit(i) \/ Delete(i)
    <3>1. /\ TypeOK' /\ KnownRows' /\ UNCHANGED walkVars
          /\ \A i \in handed \cup from \cup shown \cup repeated : created'[i] = created[i]
          /\ from \cap Live' \subseteq Live
      BY <2>1, RowsKeep
    <3>2. WalkInPlace'
      BY <3>1 DEF WalkInPlace, walkVars
    <3>3. ShownAgain'
      BY <3>1 DEF ShownAgain, walkVars
    <3>4. StillToCome'
      BY <3>1 DEF StillToCome, walkVars
    <3>5. RepeatsExplained'
      BY <3>1 DEF RepeatsExplained, walkVars
    <3>6. QED
      BY <3>1, <3>2, <3>3, <3>4, <3>5
  <2>2. CASE NextPage
    <3>1. PICK P \in SUBSET Selected, l \in Ids :
            /\ Cardinality(P) <= PageSize
            /\ l \in P
            /\ \A p \in P : created[l] <= created[p]
            /\ \A s \in Selected \ P : created[s] <= created[l]
            /\ Show(P) /\ cursor' = l /\ handed' = handed \cup {l} /\ walk' = "walking"
      BY <2>2, NextPageFacts
    <3>2. Selected \subseteq Live /\ Live \subseteq Ids /\ 0 \notin Ids
      BY DEF Selected, Live
    <3>3. TypeOK'
      BY <3>1, <3>2 DEF TypeOK, Show, rowVars
    <3>4. KnownRows'
      BY <3>1, <3>2 DEF KnownRows, Show, rowVars, Live
    <3>5. WalkInPlace'
      BY <3>1, <3>2 DEF WalkInPlace
    <3>6. \A s \in Selected : walk = "walking" => s < cursor
      BY DEF Selected, Below, WalkInPlace
    <3>7. ShownAgain'
      <4> SUFFICES ASSUME NEW i \in shown \cup P, i < l
                   PROVE  \E j \in handed \cup {l} : i < j /\ created[j] <= created[i]
        BY <3>1 DEF ShownAgain, Show, rowVars
      <4>1. CASE i \in P
        BY <4>1, <3>1
      <4>2. CASE i \in shown
        <5>1. walk = "walking"
          BY <4>2, <2>2 DEF WalkInPlace, NextPage, TypeOK
        <5>2. l < cursor /\ i < cursor
          BY <5>1, <3>1, <3>6, <4>2 DEF TypeOK
        <5>3. QED
          BY <5>1, <5>2, <4>2 DEF ShownAgain
      <4>3. QED
        BY <4>1, <4>2
    <3>8. StillToCome'
      <4> SUFFICES ASSUME NEW i \in from' \cap Live, i \notin shown, i \notin P
                   PROVE  i < l \/ \E j \in handed \cup {l} : j < i /\ created[i] <= created[j]
        BY <3>1 DEF StillToCome, Show, rowVars, Live
      <4>1. CASE i \in Selected
        BY <4>1, <3>1 DEF TypeOK
      <4>2. CASE i \notin Selected
        <5>1. walk = "walking"
          BY <4>2, <2>2 DEF WalkInPlace, NextPage, TypeOK, Selected, Below
        <5>2. i \in from /\ ~(i < cursor)
          BY <4>2, <5>1, <3>1 DEF Selected, Below, Show
        <5>3. QED
          BY <5>1, <5>2 DEF StillToCome
      <4>3. QED
        BY <4>1, <4>2
    <3>9. RepeatsExplained'
      <4> SUFFICES ASSUME NEW i \in repeated \cup (shown \cap P)
                   PROVE  \E j \in handed : i < j /\ created[j] <= created[i]
        BY <3>1 DEF RepeatsExplained, Show, rowVars
      <4>1. CASE i \in shown \cap P
        BY <4>1, <3>1, <3>6, <2>2 DEF ShownAgain, WalkInPlace, NextPage, TypeOK
      <4>2. QED
        BY <4>1 DEF RepeatsExplained
    <3>10. QED
      BY <3>3, <3>4, <3>5, <3>7, <3>8, <3>9
  <2>3. CASE LastPage
    <3>1. /\ Show(Selected) /\ walk' = "done" /\ cursor' = cursor /\ handed' = handed
          /\ Cardinality(Selected) <= PageSize
      BY <2>3 DEF LastPage, Pages
    <3>2. Selected \subseteq Live /\ Live \subseteq Ids
      BY DEF Selected, Live
    <3>3. TypeOK'
      BY <3>1, <3>2 DEF TypeOK, Show, rowVars
    <3>4. KnownRows' /\ WalkInPlace' /\ ShownAgain'
      BY <3>1, <3>2 DEF KnownRows, WalkInPlace, ShownAgain, Show, rowVars, Live
    <3>5. StillToCome'
      <4> SUFFICES ASSUME NEW i \in from' \cap Live, i \notin shown, i \notin Selected
                   PROVE  \E j \in handed : j < i /\ created[i] <= created[j]
        BY <3>1 DEF StillToCome, Show, rowVars, Live
      <4>1. walk = "walking"
        BY <2>3 DEF WalkInPlace, LastPage, TypeOK, Selected, Below
      <4>2. i \in from /\ ~(i < cursor)
        BY <4>1, <3>1 DEF Selected, Below, Show
      <4>3. QED
        BY <4>1, <4>2 DEF StillToCome
    <3>6. RepeatsExplained'
      <4> SUFFICES ASSUME NEW i \in repeated \cup (shown \cap Selected)
                   PROVE  \E j \in handed : i < j /\ created[j] <= created[i]
        BY <3>1 DEF RepeatsExplained, Show, rowVars
      <4>1. CASE i \in shown \cap Selected
        BY <4>1, <2>3 DEF ShownAgain, WalkInPlace, LastPage, TypeOK, Selected, Below
      <4>2. QED
        BY <4>1 DEF RepeatsExplained
    <3>7. QED
      BY <3>3, <3>4, <3>5, <3>6
  <2>4. CASE UNCHANGED vars
    BY <2>4 DEF vars, TypeOK, KnownRows, WalkInPlace, ShownAgain, StillToCome,
                RepeatsExplained, Live
  <2>5. QED
    BY <2>1, <2>2, <2>3, <2>4 DEF Next, Fetch
<1>3. QED
  BY <1>1, <1>2, PTL DEF Spec

\* The types of the variables hold: a page has at most PageSize rows.
THEOREM TypeCorrect == Spec => []TypeOK
<1>1. PageInv => TypeOK
  BY DEF PageInv
<1>2. QED
  BY <1>1, InvHolds, PTL

\* A walk shows a row twice only because of a cursor that is out of order.
THEOREM NoOtherRepeats == Spec => []RepeatsExplained
<1>1. PageInv => RepeatsExplained
  BY DEF PageInv
<1>2. QED
  BY <1>1, InvHolds, PTL

\* A walk misses a row that was always there only because of a cursor that is
\* out of order.
THEOREM NoOtherSkips == Spec => []SkipsExplained
<1>1. PageInv => SkipsExplained
  BY DEF PageInv, StillToCome, SkipsExplained
<1>2. QED
  BY <1>1, InvHolds, PTL

\* Ids that follow the stamps.
InOrder == \A i, j \in Ids : i < j /\ row[j] # "absent" => created[i] < created[j]

\* Where ids follow the order of creation, a walk shows what was always there,
\* and nothing twice.
THEOREM ExactInOrder ==
  Spec => [](InOrder => /\ repeated = {}
                        /\ walk = "done" => from \cap Live \subseteq shown)
<1>1. ASSUME PageInv, SkipsExplained, InOrder
      PROVE  repeated = {} /\ (walk = "done" => from \cap Live \subseteq shown)
  <2> USE <1>1, PageConstants DEF PageInv, TypeOK, KnownRows
  <2>1. ASSUME NEW i \in repeated PROVE FALSE
    <3>1. PICK j \in handed : i < j /\ created[j] <= created[i]
      BY DEF RepeatsExplained
    <3>2. i \in Ids /\ j \in Ids /\ row[j] # "absent"
      OBVIOUS
    <3>3. created[i] < created[j]
      BY <3>1, <3>2 DEF InOrder
    <3>4. QED
      BY <3>1, <3>2, <3>3
  <2>2. ASSUME walk = "done", NEW i \in from \cap Live, i \notin shown PROVE FALSE
    <3>1. PICK j \in handed : j < i /\ created[i] <= created[j]
      BY <2>2 DEF SkipsExplained
    <3>2. i \in Ids /\ j \in Ids /\ row[i] # "absent"
      BY <2>2
    <3>3. created[j] < created[i]
      BY <3>1, <3>2 DEF InOrder
    <3>4. QED
      BY <3>1, <3>2, <3>3
  <2>3. QED
    BY <2>1, <2>2
<1>2. QED
  BY <1>1, InvHolds, NoOtherSkips, PTL
=============================================================================
