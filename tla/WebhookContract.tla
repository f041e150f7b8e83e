--------------------------- MODULE WebhookContract ---------------------------
(***************************************************************************)
(* What the transactional outbox promises (src/app/models/                 *)
(* webhook_outbox.py, lines 2-14), without workers, batches or locks.      *)
(*                                                                         *)
(* Committing a business transaction makes its event "owed".  An owed      *)
(* event is attempted, at least once and possibly more often.  It is       *)
(* closed as "kept" only if its receiver took it, and as "dropped" only    *)
(* after MaxAttempts attempts; a closed event is never touched again,      *)
(* unless it was owed when a flush took it without its lock: then it may   *)
(* be attempted again, and the slower flush has the last word between      *)
(* "kept" and "dropped".  Nothing is ever owed again.                      *)
(***************************************************************************)
EXTENDS Naturals

CONSTANTS
  Events,       \* the webhooks the callers may schedule
  MaxAttempts,  \* settings.webhook_outbox_max_attempts
  Cap           \* bound of the counters, which saturate there

VARIABLES
  promise,  \* event -> what the service owes its receiver
  tries,    \* event -> POSTs made so far (saturating)
  got,      \* events the receiver has taken at least once
  loose     \* events that a flush has taken without their locks

vars == <<promise, tries, got, loose>>

Promises == {"none", "owed", "kept", "dropped"}

Init ==
  /\ promise = [e \in Events |-> "none"]
  /\ tries = [e \in Events |-> 0]
  /\ got = {}
  /\ loose = {}

Bump(n) == IF n < Cap THEN n + 1 ELSE n

\* The caller's transaction commits, event included.
Owe(e) ==
  /\ promise[e] = "none"
  /\ promise' = [promise EXCEPT ![e] = "owed"]
  /\ UNCHANGED <<tries, got, loose>>

\* Owed events are taken without their locks.
Loosen(es) ==
  /\ \A e \in es : promise[e] = "owed"
  /\ loose' = loose \cup es
  /\ UNCHANGED <<promise, tries, got>>

\* What may still be worked on.
Open(e) == promise[e] = "owed" \/ (e \in loose /\ promise[e] # "none")

\* One POST, of which the receiver learns or does not.
Attempt(e) ==
  /\ Open(e)
  /\ tries' = [tries EXCEPT ![e] = Bump(@)]
  /\ got' \in {got, got \cup {e}}
  /\ UNCHANGED <<promise, loose>>

\* A batch of events is closed in one commit.
Close(kept, dropped) ==
  /\ \A e \in kept : Open(e) /\ e \in got
  /\ \A e \in dropped : Open(e) /\ tries[e] >= MaxAttempts
  /\ promise' = [e \in Events |-> IF e \in kept THEN "kept"
                                  ELSE IF e \in dropped THEN "dropped"
                                  ELSE promise[e]]
  /\ UNCHANGED <<tries, got, loose>>

Next ==
  \/ \E e \in Events : Owe(e) \/ Attempt(e)
  \/ \E es \in SUBSET Events : Loosen(es)
  \/ \E kept, dropped \in SUBSET Events : Close(kept, dropped)

Spec == Init /\ [][Next]_vars
=============================================================================
