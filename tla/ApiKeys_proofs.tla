--------------------------- MODULE ApiKeys_proofs ---------------------------
(***************************************************************************)
(* Proofs about ApiKeys for any number of requests and keys: a valid key   *)
(* stays valid for the request that uses it, rotations and revocations     *)
(* neither multiply the keys of an organisation nor take the last one, and *)
(* every deadlock is a circle of revocations that the database finds.      *)
(***************************************************************************)
EXTENDS ApiKeys, FiniteSetTheorems, TLAPS

USE DEF requestVars

\* What an operation is made of.
LEMMA OpFacts ==
  ASSUME NEW o \in Ops
  PROVE  /\ o # NoOp /\ o # Matched
         /\ o.kind \in {"use", "rotate", "revoke"}
         /\ o.kind = "rotate" => o.new \in Keys
         /\ o.kind = "revoke" => o.target \in Keys
<1>1. o.kind \in {"use", "rotate", "revoke"}
  BY DEF Ops, Uses, Rotates, Revokes
<1>2. NoOp.kind = "none" /\ Matched.kind = "matched"
  BY DEF NoOp, Matched
<1>3. QED
  BY <1>1, <1>2 DEF Ops, Uses, Rotates, Revokes

\* A step that only moves a request on, or ends it without a commit; it takes
\* no lock.
Quiet ==
  /\ op' = op /\ row' = row /\ stale' = stale /\ key' = key
  /\ stage' \in [Requests -> Stages]
  /\ \A q \in Requests :
       \/ stage'[q] = stage[q]
       \/ stage[q] = "new" /\ stage'[q] = "refused"
       \/ InTransaction(q) /\ stage'[q] \in {"refused", "failed"}

\* The steps that do more are five.
LEMMA Steps ==
  ASSUME TypeOK, [Next]_vars
  PROVE  \/ \E r \in Requests : Match(r) \/ Touch(r) \/ Flush(r) \/ Commit(r)
         \/ \E r \in Requests, o \in Ops : Read(r, o)
         \/ Quiet
<1> USE DEF TypeOK, RequestsOK, Reach, Quiet, InTransaction, Stages
<1>1. ASSUME NEW r \in Requests,
             Unauthorized(r) \/ Refuse(r) \/ Abort(r) \/ Victim(r)
      PROVE  Quiet
  <2>1. CASE Unauthorized(r)
    BY <2>1 DEF Unauthorized
  <2>2. CASE Refuse(r)
    BY <2>2 DEF Refuse, Refused
  <2>3. CASE Abort(r)
    BY <2>3 DEF Abort, RolledBack
  <2>4. CASE Victim(r)
    <3>1. stage[r] = "read"
      BY <2>4 DEF Victim, Deadlocked, WaitsFor
    <3>2. QED
      BY <2>4, <3>1 DEF Victim
  <2>5. QED
    BY <1>1, <2>1, <2>2, <2>3, <2>4
<1>2. CASE UNCHANGED vars
  BY <1>2 DEF vars
<1>3. QED
  BY <1>1, <1>2 DEF Next, Proceed

(***************************************************************************)
(* Types.                                                                  *)
(***************************************************************************)

\* A commit leaves well-formed rows behind.
LEMMA CommitTypes ==
  ASSUME TypeOK, NEW r \in Requests, op[r] \in Ops
  PROVE  RowsAfter(r) \in [Keys -> States]
<1>1. key[r] \in Keys /\ row \in [Keys -> States]
  BY DEF TypeOK, RequestsOK
<1>2. QED
  BY <1>1, OpFacts DEF RowsAfter, States

\* Every step keeps the types.
LEMMA TypeStep ==
  ASSUME TypeOK, AskedOnce, [Next]_vars
  PROVE  TypeOK'
<1> USE DEF TypeOK, RequestsOK, Reach, Stages
<1>1. ASSUME NEW r \in Requests, Match(r) PROVE TypeOK'
  BY <1>1 DEF Match
<1>2. ASSUME NEW r \in Requests,
             Touch(r) \/ Flush(r) \/ \E o \in Ops : Read(r, o)
      PROVE  TypeOK'
  BY <1>2 DEF Touch, Authenticated, Read, Flush
<1>3. ASSUME NEW r \in Requests, Commit(r) PROVE TypeOK'
  <2>1. op[r] \in Ops
    BY <1>3 DEF AskedOnce, Commit, Committed
  <2>2. QED
    BY <1>3, <2>1, CommitTypes DEF Commit, Committed
<1>4. CASE Quiet
  BY <1>4 DEF Quiet
<1>5. QED
  BY <1>1, <1>2, <1>3, <1>4, Steps

(***************************************************************************)
(* Locks and what requests have seen.                                      *)
(***************************************************************************)

\* A row is taken only while nobody holds it.
LEMMA HolderStep ==
  ASSUME TypeOK, AskedOnce, OneHolder, [Next]_vars
  PROVE  OneHolder'
<1> USE DEF TypeOK, RequestsOK, Reach, InTransaction, OneHolder, Holds
<1>1. ASSUME NEW r \in Requests, Match(r) PROVE OneHolder'
  BY <1>1 DEF Match
<1>2. ASSUME NEW r \in Requests, Touch(r) PROVE OneHolder'
  <2>1. /\ stage' = [stage EXCEPT ![r] = "open"] /\ key' = key /\ op' = op
        /\ RowFree(r, key[r])
    BY <1>2 DEF Touch, Authenticated
  <2>2. ASSUME NEW q \in Requests, NEW k \in Keys, Holds(q, k)'
        PROVE  Holds(q, k) \/ (q = r /\ k = key[r])
    BY <2>1, <2>2
  <2>3. \A q \in Requests \ {r} : ~Holds(q, key[r])
    BY <2>1 DEF RowFree
  <2>4. QED
    BY <2>2, <2>3
<1>3. ASSUME NEW r \in Requests, NEW o \in Ops, Read(r, o) PROVE OneHolder'
  <2>1. /\ stage[r] = "open" /\ stage' = [stage EXCEPT ![r] = "read"]
        /\ key' = key /\ op' = [op EXCEPT ![r] = o]
    BY <1>3 DEF Read
  <2>2. ASSUME NEW q \in Requests, NEW k \in Keys, Holds(q, k)'
        PROVE  Holds(q, k)
    BY <2>1, <2>2
  <2>3. QED
    BY <2>2
<1>4. ASSUME NEW r \in Requests, Flush(r) PROVE OneHolder'
  <2>1. /\ stage[r] = "read" /\ stage' = [stage EXCEPT ![r] = "written"]
        /\ key' = key /\ op' = op
        /\ op[r].kind = "revoke" => RowFree(r, op[r].target)
    BY <1>4 DEF Flush
  <2>2. ASSUME NEW q \in Requests, NEW k \in Keys, Holds(q, k)'
        PROVE  Holds(q, k) \/ (q = r /\ op[r].kind = "revoke" /\ k = op[r].target)
    BY <2>1, <2>2
  <2>3. op[r].kind = "revoke" => \A q \in Requests \ {r} : ~Holds(q, op[r].target)
    BY <2>1 DEF RowFree
  <2>4. QED
    BY <2>2, <2>3
<1>5. ASSUME NEW r \in Requests, Commit(r) PROVE OneHolder'
  <2>1. stage' = [stage EXCEPT ![r] = "done"] /\ key' = key /\ op' = op
    BY <1>5 DEF Commit, Committed
  <2>2. ASSUME NEW q \in Requests, NEW k \in Keys, Holds(q, k)'
        PROVE  Holds(q, k)
    BY <2>1, <2>2
  <2>3. QED
    BY <2>2
<1>6. CASE Quiet
  <2>1. ASSUME NEW q \in Requests, NEW k \in Keys, Holds(q, k)'
        PROVE  Holds(q, k)
    BY <1>6, <2>1 DEF Quiet
  <2>2. QED
    BY <2>1
<1>7. QED
  BY <1>1, <1>2, <1>3, <1>4, <1>5, <1>6, Steps

\* A request comes past get_auth only with an operation.
LEMMA AskedStep ==
  ASSUME TypeOK, AskedOnce, [Next]_vars
  PROVE  AskedOnce'
<1> USE DEF TypeOK, RequestsOK, Reach, InTransaction, AskedOnce
<1>1. ASSUME NEW r \in Requests, Match(r) PROVE AskedOnce'
  BY <1>1 DEF Match, NoOp, Matched
<1>2. ASSUME NEW r \in Requests,
             Touch(r) \/ Flush(r) \/ \E o \in Ops : Read(r, o)
      PROVE  AskedOnce'
  <2>1. CASE Touch(r) \/ Flush(r)
    BY <2>1 DEF Touch, Authenticated, Flush, NoOp, Matched
  <2>2. ASSUME NEW o \in Ops, Read(r, o) PROVE AskedOnce'
    BY <2>2, OpFacts DEF Read
  <2>3. QED
    BY <1>2, <2>1, <2>2
<1>3. ASSUME NEW r \in Requests, Commit(r) PROVE AskedOnce'
  BY <1>3 DEF Commit, Committed
<1>4. CASE Quiet
  BY <1>4 DEF Quiet
<1>5. QED
  BY <1>1, <1>2, <1>3, <1>4, Steps

\* The rows a commit changes: the key it makes, and the one it revokes.
LEMMA CommitRows ==
  ASSUME TypeOK, AskedOnce, NewIsFresh, KeysExist, NEW r \in Requests, Commit(r)
  PROVE  /\ InTransaction(r) /\ op[r] \in Ops /\ key[r] \in Keys
         /\ row' \in [Keys -> States]
         /\ op[r].kind = "use" => row' = row
         /\ op[r].kind = "rotate" =>
              /\ op[r].new \in Keys /\ row[op[r].new] = "absent"
              /\ op[r].new # key[r]
              /\ row'[op[r].new] = "active"
              /\ row'[key[r]] = "revoked"
              /\ \A k \in Keys \ {op[r].new, key[r]} : row'[k] = row[k]
         /\ op[r].kind = "revoke" =>
              /\ op[r].target \in Keys \ {key[r]} /\ row[op[r].target] # "absent"
              /\ row'[op[r].target] = "revoked"
              /\ \A k \in Keys \ {op[r].target} : row'[k] = row[k]
<1> USE DEF TypeOK, RequestsOK
<1>1. stage[r] = "written" /\ row' = RowsAfter(r) /\ op[r] \in Ops /\ key[r] \in Keys
  BY DEF Commit, Committed, AskedOnce
<1>2. row' \in [Keys -> States]
  BY <1>1, CommitTypes
<1>3. CASE op[r].kind = "use"
  BY <1>1, <1>2, <1>3 DEF RowsAfter, InTransaction
<1>4. CASE op[r].kind = "rotate"
  <2>1. op[r].new \in Keys /\ row[op[r].new] = "absent" /\ op[r].new # key[r]
    BY <1>1, <1>4, OpFacts DEF NewIsFresh, KeysExist
  <2>2. row' = [row EXCEPT ![op[r].new] = "active", ![key[r]] = "revoked"]
    BY <1>1, <1>4 DEF RowsAfter
  <2>3. QED
    BY <1>1, <1>2, <1>4, <2>1, <2>2 DEF InTransaction
<1>5. CASE op[r].kind = "revoke"
  <2>1. op[r].target \in Keys \ {key[r]} /\ row[op[r].target] # "absent"
    BY <1>1, <1>5, OpFacts DEF KeysExist
  <2>2. row' = [row EXCEPT ![op[r].target] = "revoked"]
    BY <1>1, <1>5 DEF RowsAfter
  <2>3. QED
    BY <1>1, <1>2, <1>5, <2>1, <2>2 DEF InTransaction
<1>6. QED
  BY <1>1, <1>3, <1>4, <1>5, OpFacts

\* The ids of new keys stay unused until their rotation commits.
LEMMA FreshStep ==
  ASSUME TypeOK, AskedOnce, NewIsFresh, KeysExist, [Next]_vars
  PROVE  NewIsFresh'
<1> USE DEF TypeOK, RequestsOK, Reach
<1>1. ASSUME NEW r \in Requests, Match(r) PROVE NewIsFresh'
  BY <1>1 DEF Match, NewIsFresh, Matched
<1>2. ASSUME NEW r \in Requests,
             Touch(r) \/ Flush(r) \/ \E o \in Ops : Read(r, o)
      PROVE  NewIsFresh'
  <2>1. CASE Touch(r) \/ Flush(r)
    BY <2>1 DEF Touch, Authenticated, Flush, NewIsFresh
  <2>2. ASSUME NEW o \in Ops, Read(r, o) PROVE NewIsFresh'
    BY <2>2, OpFacts DEF Read, Admitted, NewIsFresh
  <2>3. QED
    BY <1>2, <2>1, <2>2
<1>3. ASSUME NEW r \in Requests, Commit(r) PROVE NewIsFresh'
  <2>1. stage[r] = "written" /\ stage' = [stage EXCEPT ![r] = "done"] /\ op' = op
    BY <1>3 DEF Commit, Committed
  <2>2. ASSUME NEW q \in Requests, op[q].kind = "rotate", stage'[q] # "done"
        PROVE  row'[op[q].new] = "absent"
    <3>1. q # r /\ op[q] \in Ops /\ op[q].new \in Keys /\ row[op[q].new] = "absent"
      BY <2>1, <2>2, OpFacts DEF NewIsFresh, NoOp, Matched
    <3>2. op[r].kind = "rotate" => op[q].new # op[r].new /\ op[q].new # key[r]
      BY <2>1, <2>2, <3>1, OpFacts DEF NewIsFresh, KeysExist, AskedOnce
    <3>3. op[r].kind = "revoke" => op[q].new # op[r].target
      BY <1>3, <3>1, CommitRows
    <3>4. QED
      BY <1>3, <3>1, <3>2, <3>3, CommitRows, OpFacts
  <2>3. QED
    BY <2>1, <2>2 DEF NewIsFresh
<1>4. CASE Quiet
  BY <1>4 DEF Quiet, NewIsFresh, InTransaction
<1>5. QED
  BY <1>1, <1>2, <1>3, <1>4, Steps

\* No row disappears.
LEMMA ExistStep ==
  ASSUME TypeOK, AskedOnce, NewIsFresh, KeysExist, [Next]_vars
  PROVE  KeysExist'
<1> USE DEF TypeOK, RequestsOK, Reach
<1>1. ASSUME NEW r \in Requests, Match(r) PROVE KeysExist'
  BY <1>1 DEF Match, KeysExist
<1>2. ASSUME NEW r \in Requests, Touch(r) \/ Flush(r) PROVE KeysExist'
  BY <1>2 DEF Touch, Authenticated, Flush, KeysExist
<1>3. ASSUME NEW r \in Requests, NEW o \in Ops, Read(r, o) PROVE KeysExist'
  BY <1>3, OpFacts DEF Read, Admitted, KeysExist, AskedOnce
<1>4. ASSUME NEW r \in Requests, Commit(r) PROVE KeysExist'
  <2>1. \A k \in Keys : row[k] # "absent" => row'[k] # "absent"
    BY <1>4, CommitRows, OpFacts
  <2>2. stage' = [stage EXCEPT ![r] = "done"] /\ op' = op /\ key' = key
    BY <1>4 DEF Commit, Committed
  <2>3. ASSUME NEW q \in Requests
        PROVE  /\ op[q] # NoOp => row'[key[q]] # "absent"
               /\ op[q].kind = "revoke" /\ stage'[q] \in {"read", "written"} =>
                    op[q].target # key[q] /\ row'[op[q].target] # "absent"
    <3>1. op[q].kind = "revoke" => op[q].target \in Keys
      BY OpFacts DEF NoOp, Matched
    <3>2. QED
      BY <2>1, <2>2, <3>1 DEF KeysExist
  <2>4. QED
    BY <2>2, <2>3 DEF KeysExist
<1>5. CASE Quiet
  BY <1>5 DEF Quiet, KeysExist, InTransaction
<1>6. QED
  BY <1>1, <1>2, <1>3, <1>4, <1>5, Steps

(***************************************************************************)
(* Validity and number of the keys.                                        *)
(***************************************************************************)

\* A row that a commit revokes is held by the request that commits alone.
LEMMA ValidStep ==
  ASSUME TypeOK, AskedOnce, NewIsFresh, KeysExist, OneHolder, FreshStaysValid, [Next]_vars
  PROVE  FreshStaysValid'
<1> USE DEF TypeOK, RequestsOK, Reach, InTransaction, FreshStaysValid
<1>1. ASSUME NEW r \in Requests, Match(r) PROVE FreshStaysValid'
  BY <1>1 DEF Match
<1>2. ASSUME NEW r \in Requests, Touch(r) PROVE FreshStaysValid'
  BY <1>2 DEF Touch, Authenticated
<1>3. ASSUME NEW r \in Requests, Flush(r) \/ \E o \in Ops : Read(r, o)
      PROVE FreshStaysValid'
  BY <1>3 DEF Read, Flush
<1>4. ASSUME NEW r \in Requests, Commit(r) PROVE FreshStaysValid'
  <2>1. /\ stage[r] = "written" /\ stage' = [stage EXCEPT ![r] = "done"]
        /\ op' = op /\ key' = key /\ stale' = stale
    BY <1>4 DEF Commit, Committed
  <2>2. ASSUME NEW q \in Requests, InTransaction(q)', q \notin stale'
        PROVE  row'[key[q]] = "active"
    <3>1. q # r /\ InTransaction(q) /\ key[q] \in Keys /\ row[key[q]] = "active"
      BY <2>1, <2>2
    <3>2. Holds(q, key[q]) /\ Holds(r, key[r])
          /\ (op[r].kind = "revoke" => Holds(r, op[r].target))
      BY <2>1, <3>1 DEF Holds
    <3>3. op[r].kind = "rotate" => key[q] # key[r] /\ key[q] # op[r].new
      BY <1>4, <3>1, <3>2, CommitRows DEF OneHolder
    <3>4. op[r].kind = "revoke" => key[q] # op[r].target
      BY <1>4, <3>1, <3>2, CommitRows DEF OneHolder
    <3>5. QED
      BY <1>4, <3>1, <3>3, <3>4, CommitRows, OpFacts
  <2>3. QED
    BY <2>1, <2>2
<1>5. CASE Quiet
  BY <1>5 DEF Quiet
<1>6. QED
  BY <1>1, <1>2, <1>3, <1>4, <1>5, Steps

\* The active keys are finitely many.
LEMMA ActiveFinite ==
  ASSUME TRUE
  PROVE  /\ IsFiniteSet(ActiveKeys) /\ Cardinality(ActiveKeys) \in Nat
         /\ IsFiniteSet(Seeded) /\ Cardinality(Seeded) \in Nat
<1>1. ActiveKeys \subseteq Keys /\ Seeded \subseteq Keys /\ IsFiniteSet(Keys)
  BY KeyConstants DEF ActiveKeys
<1>2. IsFiniteSet(ActiveKeys) /\ IsFiniteSet(Seeded)
  BY <1>1, FS_Subset
<1>3. QED
  BY <1>2, FS_CardinalityType

\* A rotation replaces a key, and a revocation is never of the last one.
LEMMA ConservedStep ==
  ASSUME TypeOK, AskedOnce, NewIsFresh, KeysExist, FreshStaysValid, KeysConserved,
         [Next]_vars
  PROVE  KeysConserved'
<1>1. CASE row' = row /\ (stale' = {} => stale = {})
  BY <1>1 DEF KeysConserved, ActiveKeys
<1>2. ASSUME NEW r \in Requests, Commit(r), stale' = {}
      PROVE  ActiveKeys' # {} /\ Cardinality(ActiveKeys') <= Cardinality(Seeded)
  <2>1. stale = {}
    BY <1>2 DEF Commit
  <2>2. ActiveKeys # {} /\ Cardinality(ActiveKeys) <= Cardinality(Seeded)
    BY <2>1 DEF KeysConserved
  <2>3. key[r] \in ActiveKeys
    BY <1>2, <2>1, CommitRows DEF FreshStaysValid, ActiveKeys
  <2>4. CASE op[r].kind = "use"
    BY <1>2, <2>2, <2>4, CommitRows DEF ActiveKeys
  <2>5. CASE op[r].kind = "rotate"
    <3>1. op[r].new \notin ActiveKeys /\ op[r].new # key[r]
      BY <1>2, <2>5, CommitRows DEF ActiveKeys
    <3>2. ActiveKeys' = (ActiveKeys \ {key[r]}) \cup {op[r].new}
      BY <1>2, <2>5, <3>1, CommitRows DEF ActiveKeys
    <3>3. Cardinality(ActiveKeys \ {key[r]}) = Cardinality(ActiveKeys) - 1
          /\ IsFiniteSet(ActiveKeys \ {key[r]})
      BY <2>3, ActiveFinite, FS_RemoveElement
    <3>4. Cardinality((ActiveKeys \ {key[r]}) \cup {op[r].new})
            = Cardinality(ActiveKeys \ {key[r]}) + 1
      BY <3>1, <3>3, FS_AddElement
    <3>5. QED
      BY <2>2, <3>2, <3>3, <3>4, ActiveFinite
  <2>6. CASE op[r].kind = "revoke"
    <3>1. ActiveKeys' = ActiveKeys \ {op[r].target} /\ op[r].target # key[r]
      BY <1>2, <2>6, CommitRows DEF ActiveKeys
    <3>2. Cardinality(ActiveKeys \ {op[r].target}) <= Cardinality(ActiveKeys)
          /\ Cardinality(ActiveKeys \ {op[r].target}) \in Nat
      <4>1. ActiveKeys \ {op[r].target} \subseteq ActiveKeys
        OBVIOUS
      <4>2. QED
        BY <4>1, ActiveFinite, FS_Subset, FS_CardinalityType
    <3>3. QED
      BY <2>2, <2>3, <3>1, <3>2, ActiveFinite
  <2>7. QED
    BY <1>2, <2>4, <2>5, <2>6, CommitRows, OpFacts
<1>3. ASSUME NEW r \in Requests, Match(r) PROVE KeysConserved'
  BY <1>1, <1>3 DEF Match
<1>4. ASSUME NEW r \in Requests,
             Touch(r) \/ Flush(r) \/ \E o \in Ops : Read(r, o)
      PROVE KeysConserved'
  BY <1>1, <1>4 DEF Touch, Read, Flush
<1>5. CASE Quiet
  BY <1>1, <1>5 DEF Quiet
<1>6. QED
  BY <1>2, <1>3, <1>4, <1>5, Steps DEF KeysConserved

(***************************************************************************)
(* The theorems.                                                           *)
(***************************************************************************)

\* The seeded keys and no request: the invariant holds.
LEMMA InitInv ==
  ASSUME Init
  PROVE  KeyInv
<1>1. TypeOK
  BY KeyConstants DEF Init, RequestsInit, TypeOK, RequestsOK, Stages, States, NoOp
<1>2. OneHolder /\ AskedOnce /\ NewIsFresh /\ KeysExist /\ FreshStaysValid
  BY DEF Init, RequestsInit, OneHolder, Holds, AskedOnce, NewIsFresh, KeysExist,
         FreshStaysValid, InTransaction, NoOp
<1>3. KeysConserved
  <2>1. ActiveKeys = Seeded
    BY KeyConstants DEF Init, ActiveKeys
  <2>2. QED
    BY <2>1, KeyConstants, ActiveFinite DEF KeysConserved
<1>4. QED
  BY <1>1, <1>2, <1>3 DEF KeyInv

\* The inductive invariant of authentication, rotation and revocation
\* (src/app/auth.py, src/app/routers/api_keys.py) for any number of keys.
THEOREM InvHolds == Spec => []KeyInv
<1>1. Init => KeyInv
  BY InitInv
<1>2. KeyInv /\ [Next]_vars => KeyInv'
  BY TypeStep, HolderStep, AskedStep, FreshStep, ExistStep, ValidStep, ConservedStep
     DEF KeyInv
<1>3. QED
  BY <1>1, <1>2, PTL DEF Spec

\* Types.
THEOREM TypeCorrect == Spec => []TypeOK
<1>1. KeyInv => TypeOK
  BY DEF KeyInv
<1>2. QED
  BY <1>1, InvHolds, PTL

\* The key a request has authenticated with is not revoked under it: whoever
\* wants to revoke it waits for the row that get_auth has updated.
THEOREM ValidToTheEnd == Spec => []FreshStaysValid
<1>1. KeyInv => FreshStaysValid
  BY DEF KeyInv
<1>2. QED
  BY <1>1, InvHolds, PTL

\* As long as no request has gone on with a revoked key, rotations and
\* revocations leave the organisation at least one key and at most as many as
\* it had.
THEOREM Conservation == Spec => []KeysConserved
<1>1. KeyInv => KeysConserved
  BY DEF KeyInv
<1>2. QED
  BY <1>1, InvHolds, PTL
(***************************************************************************)
(* Deadlocks.                                                              *)
(***************************************************************************)

\* r waits for a row that q holds: that of its own key, in get_auth, or that of
\* the key it revokes.
WaitsForRow(r, q) ==
  \/ q # r /\ stage[r] = "new" /\ op[r] = Matched /\ Holds(q, key[r])
  \/ WaitsFor(r, q)

\* Whenever a set of requests each wait for another of them, or for one that is
\* over, there is among them a circle that Victim ends: requests that revoke
\* the key another one uses.
CirclesFound ==
  \A S \in SUBSET Requests :
    /\ S # {}
    /\ \A r \in S : \E q \in Requests : WaitsForRow(r, q) /\ (q \in S \/ ~InTransaction(q))
    => \E r, q \in S :
         /\ Deadlocked(r) /\ Deadlocked(q)
         /\ op[r].kind = "revoke" /\ op[r].target = key[q] /\ key[q] # key[r]

\* The circles of revocations are all the deadlocks there are, for any number of
\* requests and keys: who waits in get_auth holds nothing, and nobody waits for
\* a request that is over.
THEOREM EveryDeadlockFound == Spec => []CirclesFound
<1>1. KeyInv => CirclesFound
  <2>1. SUFFICES ASSUME KeyInv, NEW S \in SUBSET Requests, S # {},
                        \A r \in S : \E q \in Requests :
                          WaitsForRow(r, q) /\ (q \in S \/ ~InTransaction(q))
                 PROVE  \E r, q \in S :
                          /\ Deadlocked(r) /\ Deadlocked(q)
                          /\ op[r].kind = "revoke" /\ op[r].target = key[q] /\ key[q] # key[r]
    BY DEF CirclesFound
  <2> DEFINE W == {r \in S : stage[r] = "read"}
  <2>2. \A q \in Requests : \A k : Holds(q, k) => InTransaction(q)
    BY DEF Holds, InTransaction
  <2>3. \A r \in S : \E q \in S : WaitsForRow(r, q) /\ InTransaction(q)
    BY <2>1, <2>2 DEF WaitsForRow, WaitsFor
  <2>4. \A q \in S : InTransaction(q) => stage[q] = "read"
    BY <2>3 DEF WaitsForRow, WaitsFor, InTransaction
  <2>5. \A r \in W : \E q \in W : WaitsFor(r, q)
    BY <2>3, <2>4 DEF WaitsForRow
  <2>6. W \in SUBSET Requests /\ W # {}
    BY <2>1, <2>3, <2>4
  <2>7. \A r \in W : Deadlocked(r)
    BY <2>5, <2>6 DEF Deadlocked
  <2>8. PICK r \in W : TRUE
    BY <2>6
  <2>9. PICK q \in W : WaitsFor(r, q)
    BY <2>5, <2>8
  <2>10. q # r /\ op[r].kind = "revoke" /\ op[r].target = key[q]
    BY <2>9 DEF WaitsFor, Holds
  <2>11. Holds(q, key[q]) /\ Holds(r, key[r])
    BY <2>8, <2>9 DEF Holds, InTransaction
  <2>12. key[r] \in Keys /\ key[q] \in Keys /\ r \in Requests /\ q \in Requests
    BY <2>1, <2>6 DEF KeyInv, TypeOK, RequestsOK
  <2>13. key[q] # key[r]
    BY <2>1, <2>10, <2>11, <2>12 DEF KeyInv, OneHolder
  <2>14. QED
    BY <2>7, <2>10, <2>13
<1>2. QED
  BY <1>1, InvHolds, PTL
=============================================================================
