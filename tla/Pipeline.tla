------------------------------ MODULE Pipeline ------------------------------
(***************************************************************************)
(* Jobs and the webhook outbox in the one loop that serves both            *)
(* (src/scripts/worker.py, run_worker): a turn pops a job and runs its     *)
(* handler, and every FlushEvery-th turn then delivers webhooks, inline.   *)
(*                                                                         *)
(* The actions are those of Jobs and of Outbox.  A commit of a handler     *)
(* that adds to the events of a copy adds the webhook's row; a flush       *)
(* happens at the place where Jobs has its maintenance; both meet the same *)
(* faults.  What happens to a job days later (AgeOut, Forget, and a purge  *)
(* that fails) is left to Jobs.                                            *)
(***************************************************************************)
EXTENDS Jobs

CONSTANTS
  FlushEvery,   \* turns from one flush to the next
  Malformed,    \* jobs whose webhook_url httpx refuses
  MaxAttempts,  \* settings.webhook_outbox_max_attempts
  BatchSize,    \* the LIMIT of the flush
  Cap           \* bound: posts and aborts count no further than this

ASSUME PipelineConstants ==
  /\ FlushEvery \in Nat \ {0} /\ Malformed \subseteq Hooked
  /\ MaxAttempts \in Nat \ {0} /\ BatchSize \in Nat \ {0}
  /\ Cap \in Nat /\ Cap >= MaxAttempts

VARIABLES
  hook,      \* copy -> its webhook_outbox row
  created,   \* copy -> created_at of that row
  clock,     \* the next created_at
  batch,     \* worker -> rows its flush has selected
  lockless,  \* workers whose flush has selected them without locks
  seen,      \* worker -> the attempts it has read in each
  todo,      \* worker -> those not POSTed yet
  acked,     \* worker -> those answered with a 2xx
  received,  \* copies whose receiver has taken a POST
  posts,     \* copy -> POSTs (history)
  aborts,    \* flushes without a commit (history)
  raced,     \* copies selected without locks (history)
  turns      \* worker -> outbox_counter

outboxVars == <<hook, created, clock, batch, lockless, seen, todo, acked,
                received, posts, aborts, raced>>
allVars == <<vars, outboxVars, turns>>

\* The copies of jobs that schedule a webhook.
Hooks == {c \in Copies : JobOf(c) \in Hooked}

Outbox == INSTANCE Outbox WITH
  Events <- Hooks,
  malformed <- {c \in Hooks : JobOf(c) \in Malformed},
  caller <- [c \in Hooks |-> IF events[c] > 0 THEN "committed" ELSE "idle"],
  row <- hook

PipelineInit ==
  /\ Init
  /\ hook = [c \in Hooks |-> Outbox!NoRow]
  /\ created = Outbox!Nothing
  /\ clock = 1
  /\ batch = [w \in Workers |-> {}]
  /\ lockless = {}
  /\ seen = [w \in Workers |-> Outbox!Nothing]
  /\ todo = [w \in Workers |-> {}]
  /\ acked = [w \in Workers |-> {}]
  /\ received = {}
  /\ posts = Outbox!Nothing
  /\ aborts = 0
  /\ raced = {}
  /\ turns = [w \in Workers |-> 0]

\* schedule_webhook, in a transaction that commits.
Staged ==
  LET new == {c \in Hooks : events'[c] > events[c]} IN
  /\ hook' = [c \in Hooks |-> IF c \in new THEN Outbox!NewRow ELSE hook[c]]
  /\ created' = [c \in Hooks |-> IF c \in new THEN clock ELSE created[c]]
  /\ clock' = IF new = {} THEN clock ELSE clock + 1
  /\ UNCHANGED <<batch, lockless, seen, todo, acked, received, posts, aborts, raced>>

\* The turn of w ends with a flush.
Due(w) == turns[w] + 1 >= FlushEvery

\* The turn ends; the flush, if any, is over.
EndTurn(w) ==
  /\ Maintain(w)
  /\ turns' = [turns EXCEPT ![w] = IF Due(w) THEN 0 ELSE @ + 1]

NoFlush(w) == ~Due(w) /\ EndTurn(w) /\ UNCHANGED outboxVars

Flushing(w) == pc[w] = "maint" /\ Due(w) /\ UNCHANGED <<vars, turns>>

\* The flush selects rows, or finds none.
FlushBegins(w) == Flushing(w) /\ Outbox!SelectBatch(w)
FlushFindsNothing(w) ==
  /\ Due(w) /\ batch[w] = {} /\ Outbox!Eligible = {}
  /\ EndTurn(w) /\ UNCHANGED outboxVars

\* Its SELECT raises and is repeated without locks.
FlushBeginsLockless(w) ==
  /\ Due(w) /\ MaintainRecovers(w) /\ UNCHANGED turns
  /\ Outbox!SelectLockless(w)

\* It POSTs, and commits.
FlushPosts(w) == Flushing(w) /\ \E c \in Hooks : Outbox!Post(w, c)
FlushCommits(w) == EndTurn(w) /\ Outbox!CommitBatch(w)

\* A POST raises; outbox_flush_error is logged and the loop goes on.
FlushRaises(w) == EndTurn(w) /\ \E c \in Hooks : Outbox!PostRaises(w, c)

\* Its commit fails: the same.
FlushFails(w) ==
  /\ MaintainFails(w) /\ Outbox!Fault(w)
  /\ turns' = [turns EXCEPT ![w] = 0]

\* The process dies, and the flush it is in with it.
Dies(w) ==
  /\ Crash(w)
  /\ IF batch[w] # {} THEN Outbox!AbandonBatch(w) ELSE UNCHANGED outboxVars
  /\ turns' = [turns EXCEPT ![w] = 0]

\* A new process counts its turns anew.
Starts(w) == Start(w) /\ turns' = [turns EXCEPT ![w] = 0] /\ UNCHANGED outboxVars

\* What w does of its own accord.
Works(w) ==
  \/ Starts(w)
  \/ (LoopTop(w) \/ Pop(w) \/ PopNothing(w) \/ Handle(w)) /\ Staged /\ UNCHANGED turns
  \/ NoFlush(w) \/ FlushBegins(w) \/ FlushFindsNothing(w)
  \/ FlushPosts(w) \/ FlushCommits(w) \/ FlushRaises(w)

PipelineNext ==
  \/ (LoseQueue \/ \E j \in Jobs : Submit(j)) /\ UNCHANGED <<outboxVars, turns>>
  \/ \E w \in Workers :
       \/ Works(w) \/ FlushBeginsLockless(w) \/ FlushFails(w) \/ Dies(w)
       \/ AckLost(w) /\ Staged /\ UNCHANGED turns
       \/ (Signal(w) \/ PopFails(w) \/ ReportFails(w) \/ DbError(w))
            /\ UNCHANGED <<outboxVars, turns>>

\* As in Jobs: a worker that can take a step takes it.
PipelineSpec ==
  /\ PipelineInit /\ [][PipelineNext]_allVars
  /\ \A w \in Workers : WF_allVars(Works(w))

(***************************************************************************)
(* Properties                                                              *)
(***************************************************************************)

\* A receiver hears of a job only when its results are committed, and then
\* the client that polls is told "complete", unless the handler is just about
\* to say so, or a fault has kept it from saying so, or the request that
\* submitted the job has not committed the row.
HeardIsDone ==
  \A c \in Hooks : posts[c] > 0 =>
    /\ BackedBy(c)
    /\ \/ row[JobOf(c)].status \in {"complete", "absent", "queued"}
       \/ \E w \in Workers : cur[w] = c /\ pc[w] = "finish"
       \/ faults > 0

\* Without faults every job in the queue is executed and its outcome cached,
\* behind whatever jobs and webhooks it waits, jobs whose failure cannot be
\* recorded and a webhook that raises in every flush among them.
JobsDrain ==
  \A j \in Jobs : Queued(<<j, 1>>) ~>
    \/ ~InCare(j) /\ (cache[j] # "none" \/ j \in Orphaned)
    \/ faults > 0


\* The webhooks of the jobs keep the contract of the outbox: a handler and the
\* flush that share a loop, its faults and its deaths POST nothing before its
\* commit, close nothing as delivered that was not received, give nothing up
\* early and owe nothing again.
LoopKeepsContract == Outbox!KeepsContract
=============================================================================
