------------------------------ MODULE Requests ------------------------------
(***************************************************************************)
(* An API request as a database transaction.  get_auth (src/app/auth.py)   *)
(* updates last_used_at in the api_keys row of the caller, on the session  *)
(* the handler goes on to use, and get_db (src/app/database.py) ends that  *)
(* transaction only after the handler has returned.  So a request holds    *)
(* the row of its key from its authentication to its end: requests with    *)
(* the same key run one after the other, requests with different keys      *)
(* interleave at every statement (READ COMMITTED).                         *)
(*                                                                         *)
(* A handler reads what it needs, flushes its writes, which locks the rows *)
(* it writes, and returns; the commit follows.  What a stage reads and     *)
(* writes is up to the modules that extend this one.                       *)
(***************************************************************************)
EXTENDS Naturals, FiniteSets

CONSTANTS
  Requests,  \* the requests clients send
  Keys       \* the API keys they carry: of one organisation, but for Domains

VARIABLES
  stage,  \* request -> how far its handler is
  key     \* request -> the key it carries

requestVars == <<stage, key>>

Stages == {"new", "open", "read", "written", "done", "refused", "failed"}

RequestsOK == stage \in [Requests -> Stages] /\ key \in [Requests -> Keys]

RequestsInit ==
  /\ stage = [r \in Requests |-> "new"]
  /\ key \in [Requests -> Keys]

InTransaction(r) == stage[r] \in {"open", "read", "written"}

\* get_auth runs in a session of its own and commits there.
KeyFree_OwnSession(k) == TRUE

\* No transaction holds the api_keys row of k.
KeyFree(k) == \A r \in Requests : InTransaction(r) => key[r] # k

Reach(r, s) == stage' = [stage EXCEPT ![r] = s] /\ UNCHANGED key

\* get_auth has matched the key and updated its row.
Authenticated(r) == stage[r] = "new" /\ KeyFree(key[r]) /\ Reach(r, "open")

\* The handler raises an HTTPException: nothing has been written.
Refused(r) == stage[r] = "open" /\ Reach(r, "refused")

\* get_db commits, or an error rolls everything back.
Committed(r) == stage[r] = "written" /\ Reach(r, "done")
RolledBack(r) == InTransaction(r) /\ Reach(r, "failed")

\* The keys that are in use, and the case that it is but one.
KeysUsed == {key[r] : r \in Requests}
SameKey == \A q, r \in Requests : key[q] = key[r]

\* Requests with the same key do not overlap.
KeysInTurn ==
  \A q, r \in Requests :
    InTransaction(q) /\ InTransaction(r) /\ key[q] = key[r] => q = r
=============================================================================
