------------------------------- MODULE Outbox -------------------------------
(***************************************************************************)
(* The transactional outbox of src/app/services/webhook.py: business       *)
(* transactions stage webhook rows (schedule_webhook), worker processes    *)
(* select pending rows with FOR UPDATE SKIP LOCKED, POST them one after    *)
(* another and commit the whole batch once (deliver_pending_webhooks).     *)
(* When that SELECT raises, whatever the reason, it is repeated without    *)
(* FOR UPDATE: then the flush has rows in hand that it has not locked, and *)
(* that another flush may have in hand too.                                *)
(*                                                                         *)
(* The database is PostgreSQL: a row lock lasts until the transaction that *)
(* took it ends, an uncommitted row is invisible to the others, and an     *)
(* UPDATE waits for the lock of its row.  The session writes the columns   *)
(* that the loop has changed, with values computed from those it has read. *)
(* A URL is an unvalidated string, so any of the events may be malformed:  *)
(* client.post then raises something other than httpx.RequestError.        *)
(***************************************************************************)
EXTENDS Naturals, FiniteSets

CONSTANTS
  Events,       \* the webhooks that callers may schedule, one row each
  Workers,      \* worker processes
  MaxAttempts,  \* settings.webhook_outbox_max_attempts
  BatchSize,    \* the LIMIT of the SELECT
  MaxFaults,    \* bound: crashes, failed commits and failed SELECTs
  Cap           \* bound: posts and aborts count no further than this

ASSUME ConstantsOK ==
  /\ MaxAttempts \in Nat \ {0}
  /\ BatchSize \in Nat \ {0}
  /\ MaxFaults \in Nat
  /\ Cap \in Nat /\ Cap >= MaxAttempts

VARIABLES
  malformed, \* events whose URL httpx refuses with InvalidURL
  caller,   \* event -> state of the transaction that schedules it
  row,      \* event -> its row: status and attempts, as last committed
  created,  \* event -> created_at
  clock,    \* the next created_at
  batch,    \* worker -> rows it has selected
  lockless, \* workers whose SELECT was the one without locks
  seen,     \* worker -> the attempts it has read of a row of its batch
  todo,     \* worker -> rows of its batch not POSTed yet
  acked,    \* worker -> rows of its batch answered with a 2xx
  received, \* events whose receiver has taken a POST
  posts,    \* event -> POSTs that reached the network (history)
  aborts,   \* flushes that ended without a commit (history)
  raced,    \* events that a flush has selected without locks (history)
  faults    \* crashes, failed commits and failed SELECTs so far

callerVars == <<caller, created, clock>>
flushVars == <<batch, lockless, seen, todo, acked>>
pastVars == <<posts, aborts, raced>>
vars == <<malformed, callerVars, row, flushVars, received, pastVars, faults>>

CallerStates == {"idle", "open", "committed", "rolledback"}
Statuses == {"absent", "pending", "delivered", "failed"}
Rows == [status : Statuses, attempts : 0..MaxAttempts]

NoRow == [status |-> "absent", attempts |-> 0]
NewRow == [status |-> "pending", attempts |-> 0]

Bump(n) == IF n < Cap THEN n + 1 ELSE n

TypeOK ==
  /\ malformed \subseteq Events
  /\ caller \in [Events -> CallerStates]
  /\ row \in [Events -> Rows]
  /\ created \in [Events -> Nat]
  /\ clock \in Nat
  /\ batch \in [Workers -> SUBSET Events]
  /\ lockless \subseteq {w \in Workers : batch[w] # {}}
  /\ seen \in [Workers -> [Events -> 0..MaxAttempts]]
  /\ todo \in [Workers -> SUBSET Events]
  /\ acked \in [Workers -> SUBSET Events]
  /\ \A w \in Workers : todo[w] \subseteq batch[w] /\ acked[w] \subseteq batch[w]
  /\ received \subseteq Events
  /\ posts \in [Events -> 0..Cap]
  /\ aborts \in 0..Cap
  /\ raced \subseteq Events
  /\ faults \in 0..MaxFaults

Nothing == [e \in Events |-> 0]

Init ==
  /\ malformed \in SUBSET Events
  /\ caller = [e \in Events |-> "idle"]
  /\ row = [e \in Events |-> NoRow]
  /\ created = [e \in Events |-> 0]
  /\ clock = 1
  /\ batch = [w \in Workers |-> {}]
  /\ lockless = {}
  /\ seen = [w \in Workers |-> Nothing]
  /\ todo = [w \in Workers |-> {}]
  /\ acked = [w \in Workers |-> {}]
  /\ received = {}
  /\ posts = [e \in Events |-> 0]
  /\ aborts = 0
  /\ raced = {}
  /\ faults = 0

(***************************************************************************)
(* The caller: a router or a job handler that owns a transaction.          *)
(***************************************************************************)

\* schedule_webhook adds a pending row to the caller's open transaction.
Schedule(e) ==
  /\ caller[e] = "idle"
  /\ caller' = [caller EXCEPT ![e] = "open"]
  /\ row' = [row EXCEPT ![e] = NewRow]
  /\ created' = [created EXCEPT ![e] = clock]
  /\ clock' = clock + 1
  /\ UNCHANGED <<malformed, flushVars, received, pastVars, faults>>

\* The caller's transaction commits; only now is the row visible.
CallerCommit(e) ==
  /\ caller[e] = "open"
  /\ caller' = [caller EXCEPT ![e] = "committed"]
  /\ UNCHANGED <<malformed, row, created, clock, flushVars, received, pastVars, faults>>

\* It fails instead, and the row goes with the business record.
CallerRollback(e) ==
  /\ caller[e] = "open"
  /\ caller' = [caller EXCEPT ![e] = "rolledback"]
  /\ row' = [row EXCEPT ![e] = NoRow]
  /\ UNCHANGED <<malformed, created, clock, flushVars, received, pastVars, faults>>

(***************************************************************************)
(* The worker: flush_webhook_outbox -> deliver_pending_webhooks.  An       *)
(* operator called X_Slip is a variant of X with a plausible slip: no run  *)
(* uses it as it stands; put in the place of X, it makes a property fail   *)
(* that holds of X.                                                        *)
(***************************************************************************)

\* The SELECT reads uncommitted rows, or schedule_webhook commits itself.
Visible_Dirty(e) == caller[e] \in {"open", "committed"}

\* No row lock is taken.
Locked_Nothing == {}

\* attempts is not incremented.
Settled_NotCounted(r, n, ok) ==
  [status |-> IF ok THEN "delivered"
              ELSE IF n + 1 >= MaxAttempts THEN "failed" ELSE r.status,
   attempts |-> n]


\* The last attempt is not made.
Settled_GivesUpEarly(r, n, ok) ==
  [status |-> IF ok THEN "delivered"
              ELSE IF n + 2 >= MaxAttempts THEN "failed" ELSE r.status,
   attempts |-> n + 1]

\* The loop writes "pending" for an event it will try again.
Settled_WritesPending(r, n, ok) ==
  [status |-> IF ok THEN "delivered"
              ELSE IF n + 1 >= MaxAttempts THEN "failed" ELSE "pending",
   attempts |-> n + 1]

\* Rows other transactions can see.
Visible(e) == caller[e] = "committed"

\* The rows whose lock w has: all of its batch, or none.
LockedBy(w) == IF w \in lockless THEN {} ELSE batch[w]

\* Rows a flush holds locked; SKIP LOCKED passes over them.
Locked == UNION {LockedBy(w) : w \in Workers}

\* The WHERE clause of both SELECTs.
Due(e) == Visible(e) /\ row[e].status = "pending" /\ row[e].attempts < MaxAttempts

\* The rows each SELECT chooses from.
Pending == {e \in Events : Due(e)}
Eligible == Pending \ Locked

\* A SELECT ... ORDER BY created_at LIMIT batch_size over rows of S.
\* Without a row to deliver the flush returns at once and changes nothing.
Take(w, S) ==
  /\ batch[w] = {}
  /\ \E B \in SUBSET S :
       /\ B # {}
       /\ Cardinality(B) <= BatchSize
       /\ B = S \/ Cardinality(B) = BatchSize
       /\ \A e \in B, f \in S \ B : created[e] <= created[f]
       /\ batch' = [batch EXCEPT ![w] = B]
       /\ seen' = [seen EXCEPT ![w] = [e \in Events |-> IF e \in B THEN row[e].attempts ELSE 0]]
       /\ todo' = [todo EXCEPT ![w] = B]
       /\ acked' = [acked EXCEPT ![w] = {}]
  /\ UNCHANGED <<malformed, callerVars, row, received, posts, aborts>>

\* The SELECT with FOR UPDATE SKIP LOCKED.
SelectBatch(w) ==
  /\ Take(w, Eligible)
  /\ UNCHANGED <<lockless, raced, faults>>

\* It raises (no connection to the database, say) and is answered by the
\* SELECT without locks, which succeeds.
SelectLockless(w) ==
  /\ faults < MaxFaults
  /\ faults' = faults + 1
  /\ Take(w, Pending)
  /\ lockless' = lockless \cup {w}
  /\ raced' = raced \cup batch'[w]

\* The row the for loop has reached.
IsNext(w, e) ==
  /\ e \in todo[w]
  /\ \A f \in todo[w] : created[e] <= created[f]

\* One POST.  Answered 2xx; or refused or unreachable; or taken by the
\* receiver while the answer is lost (a read timeout), which the worker
\* cannot tell from a refusal.
Post(w, e) ==
  /\ IsNext(w, e)
  /\ e \notin malformed
  /\ todo' = [todo EXCEPT ![w] = @ \ {e}]
  /\ posts' = [posts EXCEPT ![e] = Bump(@)]
  /\ \/ /\ acked' = [acked EXCEPT ![w] = @ \cup {e}]
        /\ received' = received \cup {e}
     \/ /\ received' \in {received, received \cup {e}}
        /\ UNCHANGED acked
  /\ UNCHANGED <<malformed, callerVars, row, batch, lockless, seen, aborts, raced, faults>>

\* What the commit leaves in a row r of which n attempts were read.  The
\* status is written only if the loop has set it.
Settled(r, n, ok) ==
  [status |-> IF ok THEN "delivered"
              ELSE IF n + 1 >= MaxAttempts THEN "failed"
              ELSE r.status,
   attempts |-> n + 1]

\* The flush is over: its session forgets the rows and gives up the locks.
Drop(w) ==
  /\ batch' = [batch EXCEPT ![w] = {}]
  /\ lockless' = lockless \ {w}
  /\ seen' = [seen EXCEPT ![w] = Nothing]
  /\ todo' = [todo EXCEPT ![w] = {}]
  /\ acked' = [acked EXCEPT ![w] = {}]

\* The single commit after the loop.  Its UPDATEs wait until no other flush
\* has one of the rows locked; they go by primary key, so that flushes do not
\* wait for each other in a circle, and are one step with the commit.
CommitBatch(w) ==
  /\ batch[w] # {}
  /\ todo[w] = {}
  /\ \A v \in Workers \ {w} : LockedBy(v) \cap batch[w] = {}
  /\ row' = [e \in Events |-> IF e \in batch[w]
                              THEN Settled(row[e], seen[w][e], e \in acked[w])
                              ELSE row[e]]
  /\ Drop(w)
  /\ UNCHANGED <<malformed, callerVars, received, pastVars, faults>>

\* The session closes without a commit: every change of the flush is gone
\* and its locks are released.
AbandonBatch(w) ==
  /\ Drop(w)
  /\ aborts' = Bump(aborts)
  /\ UNCHANGED <<malformed, callerVars, row, received, posts, raced>>

\* client.post raises InvalidURL: no handler catches it inside the flush,
\* and the main loop only logs outbox_flush_error.
PostRaises(w, e) ==
  /\ IsNext(w, e)
  /\ e \in malformed
  /\ AbandonBatch(w)
  /\ UNCHANGED faults

\* The process dies, or the commit fails, somewhere after the SELECT.  (A
\* commit that takes effect while its answer is lost is CommitBatch: the flush
\* is over either way.)
Fault(w) ==
  /\ batch[w] # {}
  /\ faults < MaxFaults
  /\ faults' = faults + 1
  /\ AbandonBatch(w)

Flush(w) ==
  \/ SelectBatch(w)
  \/ \E e \in Events : Post(w, e) \/ PostRaises(w, e)
  \/ CommitBatch(w)

Next ==
  \/ \E e \in Events : Schedule(e) \/ CallerCommit(e) \/ CallerRollback(e)
  \/ \E w \in Workers : Flush(w) \/ SelectLockless(w) \/ Fault(w)

\* Every worker comes back to its flush (run_worker calls it every fifth
\* turn and swallows what it raises), and a POST ends within its timeout.
Fairness == \A w \in Workers : WF_vars(Flush(w))

Spec == Init /\ [][Next]_vars /\ Fairness

(***************************************************************************)
(* Properties                                                              *)
(***************************************************************************)

\* A receiver hears of a business record only if the transaction that wrote
\* the record has committed: "either both persist or neither does".
PostedOnlyIfCommitted ==
  \A e \in Events : posts[e] > 0 => caller[e] = "committed"

\* A POST that reached the network and is not in hand is in the committed
\* attempts.
InHand(e) == \E w \in Workers : e \in batch[w] \ todo[w]

\* An event is POSTed more often than its row says only if flushes were
\* lost, and at most once more for each of them, or if a flush has taken that
\* very event without its lock: at-least-once delivery without unexplained
\* duplicates.
ResendsExplained ==
  \A e \in Events \ raced :
    posts[e] <= row[e].attempts + (IF InHand(e) THEN 1 ELSE 0) + aborts

\* An event whose URL httpx refuses is waiting.
Blocked == \E m \in malformed : row[m].status = "pending" /\ Visible(m)


\* Every committed event is settled in the end: the worker "marks the row as
\* 'delivered' or 'failed'" (webhook_outbox.py, lines 6-7).
EventuallySettled ==
  \A e \in Events :
    row[e].status = "pending" /\ Visible(e) ~> row[e].status \in {"delivered", "failed"}

(***************************************************************************)
(* The inductive invariant behind them.                                    *)
(***************************************************************************)

\* A row in hand twice was once selected without its lock, and at most one of
\* the two has it locked.
NoDoubleHolding ==
  \A v, w \in Workers : v # w =>
    /\ batch[v] \cap batch[w] \subseteq raced
    /\ LockedBy(v) \cap LockedBy(w) = {}

\* A row in hand is committed, and was pending and below its limit of attempts
\* when it was read; a locked one still is as it was read.
HeldArePending ==
  \A w \in Workers : \A e \in batch[w] :
    /\ caller[e] = "committed"
    /\ seen[w][e] < MaxAttempts
    /\ w \in lockless => e \in raced
    /\ w \notin lockless => row[e].status = "pending" /\ row[e].attempts = seen[w][e]

\* What a flush takes for delivered has been POSTed and received.
AckedAreReceived ==
  \A w \in Workers : acked[w] \subseteq received \cap (batch[w] \ todo[w])

\* The row of a transaction that has not committed is as schedule_webhook
\* wrote it, or absent, and nobody has heard of it.
UncommittedUntouched ==
  \A e \in Events : caller[e] # "committed" =>
    /\ row[e] = IF caller[e] = "open" THEN NewRow ELSE NoRow
    /\ posts[e] = 0
    /\ e \notin received \cup raced

\* A committed row is present; it is delivered only if it was received, and
\* failed only when its attempts were made: they are used up in the row, too,
\* unless a flush without locks has overwritten their number.
SettledHonestly ==
  \A e \in Events : caller[e] = "committed" =>
    /\ row[e].status # "absent"
    /\ row[e].status = "delivered" => e \in received
    /\ row[e].status = "failed" => /\ posts[e] >= MaxAttempts
                                   /\ e \notin raced => row[e].attempts = MaxAttempts

\* Every attempt a row counts was a POST, and so is every one it will count.
AttemptsWerePosts ==
  \A e \in Events :
    /\ row[e].attempts <= posts[e]
    /\ \A w \in Workers : e \in batch[w] =>
         seen[w][e] + (IF e \notin todo[w] THEN 1 ELSE 0) <= posts[e]

\* The invariant as a whole: a flush works only on committed rows that were
\* pending when it read them, which no other flush holds unless the locks were
\* not taken, and the attempts it records are POSTs.
OutboxInv ==
  /\ TypeOK
  /\ NoDoubleHolding
  /\ HeldArePending
  /\ AckedAreReceived
  /\ UncommittedUntouched
  /\ SettledHonestly
  /\ AttemptsWerePosts
  /\ ResendsExplained

(***************************************************************************)
(* The promise behind the table, with the machinery hidden.                *)
(***************************************************************************)

PromiseOf(e) ==
  IF ~Visible(e) THEN "none"
  ELSE CASE row[e].status = "delivered" -> "kept"
         [] row[e].status = "failed" -> "dropped"
         [] OTHER -> "owed"

Contract == INSTANCE WebhookContract
  WITH promise <- [e \in Events |-> PromiseOf(e)], tries <- posts, got <- received,
       loose <- raced

\* The outbox implements the contract: nothing is POSTed before its commit,
\* closed as delivered without having been received, given up before
\* max_attempts POSTs, or reopened; and what is closed is left alone, but for
\* the events that a flush has selected without locks.
KeepsContract == Contract!Spec
=============================================================================
