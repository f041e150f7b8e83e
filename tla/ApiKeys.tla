------------------------------ MODULE ApiKeys ------------------------------
(***************************************************************************)
(* The keys of an organisation: authentication (src/app/auth.py) against   *)
(* rotation and revocation (src/app/routers/api_keys.py).                  *)
(*                                                                         *)
(* get_auth first SELECTs the active key that matches and then UPDATEs its *)
(* row by id: the UPDATE waits for the row's lock, and does not look at    *)
(* is_active again.  The row stays locked until the request has ended.  A  *)
(* revocation is an UPDATE of the row of another key.                      *)
(***************************************************************************)
EXTENDS Requests

CONSTANTS
  Seeded,   \* the keys scripts/seed_api_key.py has made for the organisation
  ReadOnly  \* the keys that begin with usk_ro_

ASSUME KeyConstants ==
  Seeded \subseteq Keys /\ Seeded # {} /\ ReadOnly \subseteq Keys /\ IsFiniteSet(Keys)

VARIABLES
  row,    \* key -> its row as last committed
  op,     \* request -> that its key has matched, then what its handler does
  stale   \* requests that got the lock on a key revoked meanwhile (history)

vars == <<stage, key, row, op, stale>>

NoOp == [kind |-> "none"]
Matched == [kind |-> "matched"]
Uses == [kind : {"use"}]
Rotates == [kind : {"rotate"}, new : Keys]
Revokes == [kind : {"revoke"}, target : Keys]
Ops == Uses \cup Rotates \cup Revokes

States == {"absent", "active", "revoked"}

TypeOK ==
  /\ RequestsOK
  /\ row \in [Keys -> States]
  /\ op \in [Requests -> Ops \cup {NoOp, Matched}]
  /\ stale \subseteq Requests

Init ==
  /\ RequestsInit
  /\ row = [k \in Keys |-> IF k \in Seeded THEN "active" ELSE "absent"]
  /\ op = [r \in Requests |-> NoOp]
  /\ stale = {}

(***************************************************************************)
(* What the handlers see and compute.  An operator called X_Slip is a      *)
(* variant of X with a plausible slip: no run uses it as it stands; put in *)
(* the place of X, it makes a property fail that holds of X.               *)
(***************************************************************************)

ActiveKeys == {k \in Keys : row[k] = "active"}

\* A request that is over still holds the row it has revoked.
Holds_Leaked(q, k) ==
  \/ InTransaction(q) /\ key[q] = k
  \/ stage[q] \in {"written", "done"} /\ op[q].kind = "revoke" /\ op[q].target = k

\* Transaction q holds the row of k: it authenticated with k, or revokes it.
Holds(q, k) ==
  \/ InTransaction(q) /\ key[q] = k
  \/ stage[q] = "written" /\ op[q].kind = "revoke" /\ op[q].target = k

\* The revocation does not wait for the requests that use the key.
RowFree_Revokers(r, k) ==
  \A q \in Requests \ {r} :
    ~(stage[q] = "written" /\ op[q].kind = "revoke" /\ op[q].target = k)

RowFree(r, k) == \A q \in Requests \ {r} : ~Holds(q, k)

\* A key may revoke itself.
Admitted_Self(r, o) ==
  /\ o.kind \in {"rotate", "revoke"} => key[r] \notin ReadOnly
  /\ o.kind = "revoke" => row[o.target] = "active"
  /\ o.kind = "rotate" =>
       /\ row[o.new] = "absent"
       /\ \A q \in Requests : op[q].kind = "rotate" => op[q].new # o.new

\* The checks of the handlers: a read-only key manages no keys, no key
\* revokes itself, and only an active key is revoked.  The id of a key to be
\* made is one that nobody else has drawn.
Admitted(r, o) ==
  /\ o.kind \in {"rotate", "revoke"} => key[r] \notin ReadOnly
  /\ o.kind = "revoke" => o.target # key[r] /\ row[o.target] = "active"
  /\ o.kind = "rotate" =>
       /\ row[o.new] = "absent"
       /\ \A q \in Requests : op[q].kind = "rotate" => op[q].new # o.new

\* r has something to lose and waits for a row that q holds.  (A request that
\* waits in get_auth holds nothing yet.)
WaitsFor(r, q) ==
  /\ q # r
  /\ stage[r] = "read" /\ op[r].kind = "revoke" /\ Holds(q, op[r].target)

\* r is part of a circle of transactions that wait for each other.
Deadlocked(r) ==
  \E W \in SUBSET Requests :
    /\ r \in W
    /\ \A w \in W : \E q \in W : WaitsFor(w, q)

(***************************************************************************)
(* The requests.                                                           *)
(***************************************************************************)

\* get_auth SELECTs the active keys with the prefix and finds the one.
Match(r) ==
  /\ stage[r] = "new" /\ op[r] = NoOp
  /\ row[key[r]] = "active"
  /\ op' = [op EXCEPT ![r] = Matched]
  /\ UNCHANGED <<requestVars, row, stale>>

\* No active key matches: 401.
Unauthorized(r) ==
  /\ stage[r] = "new" /\ op[r] = NoOp
  /\ row[key[r]] # "active"
  /\ Reach(r, "refused")
  /\ UNCHANGED <<row, op, stale>>

\* It UPDATEs last_used_at, once the row of the key is free.
Touch(r) ==
  /\ op[r] = Matched
  /\ Authenticated(r) /\ RowFree(r, key[r])
  /\ stale' = IF row[key[r]] = "active" THEN stale ELSE stale \cup {r}
  /\ UNCHANGED <<row, op>>

\* The handler makes its checks; a rotation SELECTs the calling key, a
\* revocation the other one.
Read(r, o) ==
  /\ stage[r] = "open"
  /\ Admitted(r, o)
  /\ op' = [op EXCEPT ![r] = o]
  /\ Reach(r, "read")
  /\ UNCHANGED <<row, stale>>

\* 403, 404 or 409, or another handler's refusal.
Refuse(r) ==
  /\ Refused(r)
  /\ UNCHANGED <<row, op, stale>>

\* The flush: a revocation waits for the row it writes.
Flush(r) ==
  /\ stage[r] = "read"
  /\ op[r].kind = "revoke" => RowFree(r, op[r].target)
  /\ Reach(r, "written")
  /\ UNCHANGED <<row, op, stale>>

\* The keys after a commit.  A rotation makes the new key and revokes the
\* calling one in the same transaction.
RowsAfter(r) ==
  LET o == op[r] IN
  CASE o.kind = "rotate" ->
         [row EXCEPT ![o.new] = "active", ![key[r]] = "revoked"]
    [] o.kind = "revoke" -> [row EXCEPT ![o.target] = "revoked"]
    [] OTHER -> row

\* get_db commits.
Commit(r) ==
  /\ Committed(r)
  /\ row' = RowsAfter(r)
  /\ UNCHANGED <<op, stale>>

\* The process dies, the client goes away, the commit fails.
Abort(r) ==
  /\ RolledBack(r)
  /\ UNCHANGED <<row, op, stale>>

\* PostgreSQL finds a deadlock and fails one of the transactions in it.
Victim(r) ==
  /\ Deadlocked(r)
  /\ Reach(r, "failed")
  /\ UNCHANGED <<row, op, stale>>

Proceed(r) ==
  \/ Touch(r) \/ Refuse(r) \/ Flush(r) \/ Commit(r) \/ Victim(r)
  \/ \E o \in Ops : Read(r, o)

Next == \E r \in Requests : Match(r) \/ Unauthorized(r) \/ Proceed(r) \/ Abort(r)

\* A handler that can go on goes on, the database hands a lock to a request
\* that waits for it, and looks for deadlocks.
Fairness == \A r \in Requests : WF_vars(Proceed(r))

Spec == Init /\ [][Next]_vars /\ Fairness

(***************************************************************************)
(* Properties                                                              *)
(***************************************************************************)

\* A request that authenticated with a valid key keeps it valid to its end:
\* a revocation, or another rotation, waits for it.
FreshStaysValid ==
  \A r \in Requests :
    InTransaction(r) /\ r \notin stale => row[key[r]] = "active"

\* Unless a revoked key was used, rotations and revocations always leave the
\* organisation a key, and never more keys than it had.
KeysConserved ==
  stale = {} =>
    ActiveKeys # {} /\ Cardinality(ActiveKeys) <= Cardinality(Seeded)

\* No row is written by two transactions at a time.
OneHolder ==
  \A q, r \in Requests, k \in Keys : Holds(q, k) /\ Holds(r, k) => q = r

\* A request that has matched a key ends, also when two requests revoke each
\* other's keys.
RequestsEnd ==
  \A r \in Requests :
    (stage[r] = "new" /\ op[r] = Matched) ~> stage[r] \in {"done", "refused", "failed"}

(***************************************************************************)
(* The inductive invariant behind them.                                    *)
(***************************************************************************)

\* A request has an operation from the checks of its handler on.
AskedOnce ==
  \A r \in Requests :
    /\ stage[r] = "open" => op[r] # NoOp
    /\ stage[r] \in {"read", "written", "done"} => op[r] \in Ops

\* The key a rotation is about to make is not there yet, and is its own.
NewIsFresh ==
  \A r \in Requests : op[r].kind = "rotate" =>
    /\ stage[r] # "done" => row[op[r].new] = "absent"
    /\ \A q \in Requests : op[q].kind = "rotate" /\ op[q].new = op[r].new => q = r

\* Requests have matched a key that exists, and so are those they revoke.
KeysExist ==
  \A r \in Requests :
    /\ op[r] # NoOp => row[key[r]] # "absent"
    /\ op[r].kind = "revoke" /\ stage[r] \in {"read", "written"} =>
         op[r].target # key[r] /\ row[op[r].target] # "absent"

\* The invariant as a whole.
KeyInv ==
  /\ TypeOK /\ OneHolder /\ AskedOnce /\ NewIsFresh /\ KeysExist
  /\ FreshStaysValid /\ KeysConserved
=============================================================================
