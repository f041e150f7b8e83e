-------------------------------- MODULE Jobs --------------------------------
(***************************************************************************)
(* Asynchronous jobs: POST /skills/extract (above the async threshold) and *)
(* POST /skills/batch insert a jobs row, push the job on a Redis list and  *)
(* commit afterwards (src/app/routers/skills.py); worker processes pop     *)
(* jobs, report progress in the row, write their results and cache the     *)
(* outcome in Redis (src/scripts/worker.py); GET /jobs/{id} reads the      *)
(* cache first and the row after it (src/app/routers/jobs.py).             *)
(*                                                                         *)
(* One action is one database commit, one Redis call or one decision of    *)
(* the loop between them.  A row is visible to the worker only once the    *)
(* request that inserted it has committed: an UPDATE before that matches   *)
(* no row and succeeds.                                                    *)
(*                                                                         *)
(* The Redis client sends a call again when its answer does not come in    *)
(* time (retry_on_timeout), so that a job may be pushed twice; the list    *)
(* and the workers have copies <<job, 1>> and <<job, 2>> in hand, which    *)
(* are equal to the program.                                               *)
(*                                                                         *)
(* A database error either leaves the SQLAlchemy session usable (the       *)
(* connection could not be opened) or poisons it (the transaction had      *)
(* begun), and then every later statement raises.  A commit that raises    *)
(* poisons it whether or not the server has committed: the session of      *)
(* SQLAlchemy 2.0 stays in its "prepared" state, in which no statement is  *)
(* admitted until it is rolled back, and no handler rolls back.            *)
(***************************************************************************)
EXTENDS Naturals, Sequences

CONSTANTS
  Jobs,       \* job ids the API may hand out
  NoJob,      \* no job in hand
  Batches,    \* the jobs of type "batch"; the others are of type "extract"
  Hooked,     \* the jobs submitted with a webhook_url
  Orphaned,   \* the extract jobs whose connection_id may name no connection
  Workers,    \* worker processes
  Stoppable,  \* the workers that may be sent SIGTERM
  Aging,      \* bound: the jobs that live to see a purge delete their rows
  Steps,      \* progress commits of a job: pipeline steps, or batch items
  MaxFaults   \* bound: crashes, database errors and Redis errors

\* A job as it is pushed, the first time and the second.
Copies == Jobs \X {1, 2}
JobOf(c) == c[1]
CopiesOf(j) == {<<j, 1>>, <<j, 2>>}

ASSUME JobConstants ==
  /\ NoJob \notin Copies
  /\ Batches \subseteq Jobs /\ Hooked \subseteq Jobs
  /\ Orphaned \subseteq Jobs \ Batches
  /\ Stoppable \subseteq Workers
  /\ Steps \in Nat \ {0}
  /\ MaxFaults \in Nat

VARIABLES
  api,       \* job -> progress of the request that submits it
  pushed,    \* job -> how often Redis has taken its LPUSH
  row,       \* job -> its jobs row as last committed: status and step
  old,       \* jobs whose expires_at lies behind the purge's cutoff
  queue,     \* the Redis list, next copy to pop first
  cache,     \* job -> cached outcome in Redis
  pc,        \* worker -> where run_worker and its handler are
  cur,       \* worker -> the copy in hand
  step,      \* worker -> progress commits made for it
  poisoned,  \* worker -> its session refuses every statement
  verdict,   \* worker -> the outcome it has just committed
  running,   \* worker -> _running
  skills,    \* copy -> skills rows its extraction has committed
  events,    \* copy -> webhook_outbox rows it has committed
  faults     \* faults so far

apiVars == <<api, pushed>>
redisVars == <<queue, cache>>
workVars == <<pc, cur, step, poisoned, verdict>>
resultVars == <<skills, events>>
vars == <<apiVars, row, old, queue, cache, pc, cur, step, poisoned, verdict,
          running, skills, events, faults>>

Final == {"complete", "failed"}
NoRow == [status |-> "absent", step |-> 0]
RowStates == [status : {"absent", "queued", "running"} \cup Final, step : 0..Steps]
BusyAt == {"step", "write", "finish", "fail", "report"}
Places == {"down", "top", "pop", "maint"} \cup BusyAt

TypeOK ==
  /\ api \in [Jobs -> {"idle", "inserted", "pushed", "accepted", "rejected"}]
  /\ pushed \in [Jobs -> 0..2]
  /\ row \in [Jobs -> RowStates]
  /\ old \subseteq Jobs
  /\ queue \in Seq(Copies)
  /\ cache \in [Jobs -> {"none"} \cup Final]
  /\ pc \in [Workers -> Places]
  /\ cur \in [Workers -> Copies \cup {NoJob}]
  /\ step \in [Workers -> 0..Steps]
  /\ \A w \in Workers : pc[w] = "step" => step[w] < Steps
  /\ poisoned \in [Workers -> BOOLEAN]
  /\ verdict \in [Workers -> Final]
  /\ running \in [Workers -> BOOLEAN]
  /\ skills \in [Copies -> Nat]
  /\ events \in [Copies -> Nat]
  /\ faults \in 0..MaxFaults

Init ==
  /\ api = [j \in Jobs |-> "idle"]
  /\ pushed = [j \in Jobs |-> 0]
  /\ row = [j \in Jobs |-> NoRow]
  /\ old = {}
  /\ queue = <<>>
  /\ cache = [j \in Jobs |-> "none"]
  /\ pc = [w \in Workers |-> "down"]
  /\ cur = [w \in Workers |-> NoJob]
  /\ step = [w \in Workers |-> 0]
  /\ poisoned = [w \in Workers |-> FALSE]
  /\ verdict = [w \in Workers |-> "complete"]
  /\ running = [w \in Workers |-> FALSE]
  /\ skills = [c \in Copies |-> 0]
  /\ events = [c \in Copies |-> 0]
  /\ faults = 0

AFault == faults < MaxFaults /\ faults' = faults + 1

(***************************************************************************)
(* Parts of the worker's steps.  An operator called X_Slip is a variant of *)
(* X with a plausible slip: no run uses it as it stands; put in the place  *)
(* of X, it makes a property fail that holds of X.                         *)
(***************************************************************************)

\* UPDATE jobs SET ... WHERE id = j: no effect on a row that is not there.
UpdateRow(j, r) ==
  row' = IF row[j].status = "absent" THEN row ELSE [row EXCEPT ![j] = r]

\* The webhook_outbox rows a commit on behalf of j adds.
EventsOf(j) == IF j \in Hooked THEN 1 ELSE 0

\* The skill is not written.
AfterStep_SkipsWrite(j, n) == IF n < Steps THEN "step" ELSE "finish"

\* Where the handler of j goes after n progress commits.
AfterStep(j, n) ==
  IF n < Steps THEN "step" ELSE IF j \in Batches THEN "finish" ELSE "write"

\* The job is read and stays on the list.
Remaining_Peek == queue

\* The list after a BRPOP.
Remaining == Tail(queue)

\* BRPOP answers; the worker goes on at a place with a job or none.
Take(w, place, c) ==
  /\ pc[w] = "pop"
  /\ queue' = Remaining
  /\ pc' = [pc EXCEPT ![w] = place]
  /\ cur' = [cur EXCEPT ![w] = c]
  /\ step' = [step EXCEPT ![w] = 0]
  /\ poisoned' = [poisoned EXCEPT ![w] = FALSE]
  /\ UNCHANGED <<apiVars, row, old, cache, verdict, running, resultVars, faults>>

\* The handler is left and the loop goes on to its maintenance.
Leave(w) ==
  /\ pc' = [pc EXCEPT ![w] = "maint"]
  /\ cur' = [cur EXCEPT ![w] = NoJob]

(***************************************************************************)
(* The submitting request.                                                 *)
(***************************************************************************)

\* db.add(job); await db.flush(): the row exists in the open transaction.
Insert(j) ==
  /\ api[j] = "idle"
  /\ api' = [api EXCEPT ![j] = "inserted"]
  /\ UNCHANGED <<pushed, row, old, redisVars, workVars, running, resultVars, faults>>

\* enqueue_job: LPUSH, before the transaction commits.
Enqueue(j) ==
  /\ api[j] = "inserted"
  /\ api' = [api EXCEPT ![j] = "pushed"]
  /\ pushed' = [pushed EXCEPT ![j] = 1]
  /\ queue' = Append(queue, <<j, 1>>)
  /\ UNCHANGED <<row, old, cache, workVars, running, resultVars, faults>>

\* The LPUSH is answered too late: the client has sent it again, and Redis
\* takes the other one as well, perhaps long after the request has ended.
EnqueueAgain(j) ==
  /\ pushed[j] = 1
  /\ AFault
  /\ pushed' = [pushed EXCEPT ![j] = 2]
  /\ queue' = Append(queue, <<j, 2>>)
  /\ UNCHANGED <<api, row, old, cache, workVars, running, resultVars>>

\* Redis is unavailable; the exception is swallowed and the request goes on.
EnqueueFails(j) ==
  /\ api[j] = "inserted"
  /\ AFault
  /\ api' = [api EXCEPT ![j] = "pushed"]
  /\ UNCHANGED <<pushed, row, old, redisVars, workVars, running, resultVars>>

\* get_db commits after the handler has returned; the client gets its 202, or
\* an error when the answer to the commit is lost.
Accept(j) ==
  /\ api[j] = "pushed"
  /\ api' = [api EXCEPT ![j] = "accepted"]
  /\ row' = [row EXCEPT ![j] = [status |-> "queued", step |-> 0]]
  /\ UNCHANGED <<pushed, old, redisVars, workVars, running, resultVars, faults>>

\* The transaction fails instead: no row, whatever was pushed.
Reject(j) ==
  /\ api[j] \in {"inserted", "pushed"}
  /\ AFault
  /\ api' = [api EXCEPT ![j] = "rejected"]
  /\ UNCHANGED <<pushed, row, old, redisVars, workVars, running, resultVars>>

(***************************************************************************)
(* Redis and the clock.                                                    *)
(***************************************************************************)

\* A cached outcome expires (SETEX, seven days) or is evicted (allkeys-lru).
Forget(j) ==
  /\ cache[j] # "none"
  /\ cache' = [cache EXCEPT ![j] = "none"]
  /\ UNCHANGED <<apiVars, row, old, queue, workVars, running, resultVars, faults>>

\* The list key is evicted or its server restarts empty.
LoseQueue ==
  /\ queue # <<>>
  /\ AFault
  /\ queue' = <<>>
  /\ UNCHANGED <<apiVars, row, old, cache, workVars, running, resultVars>>

\* expires_at, set at the insert, falls behind the cutoff of the purge.
AgeOut(j) ==
  /\ row[j].status # "absent"
  /\ j \in Aging \ old
  /\ old' = old \cup {j}
  /\ UNCHANGED <<apiVars, row, redisVars, workVars, running, resultVars, faults>>

(***************************************************************************)
(* The worker's loop.                                                      *)
(***************************************************************************)

\* The process starts: wait_for_db has succeeded, _running is True.
Start(w) ==
  /\ pc[w] = "down"
  /\ pc' = [pc EXCEPT ![w] = "top"]
  /\ running' = [running EXCEPT ![w] = TRUE]
  /\ UNCHANGED <<apiVars, row, old, redisVars, cur, step, poisoned, verdict, resultVars, faults>>

\* _handle_shutdown: only the flag changes, whatever the loop is doing.
Signal(w) ==
  /\ w \in Stoppable
  /\ pc[w] # "down"
  /\ running[w]
  /\ running' = [running EXCEPT ![w] = FALSE]
  /\ UNCHANGED <<apiVars, row, old, redisVars, workVars, resultVars, faults>>

\* while _running: into the BRPOP, or out of the loop.
LoopTop(w) ==
  /\ pc[w] = "top"
  /\ pc' = [pc EXCEPT ![w] = IF running[w] THEN "pop" ELSE "down"]
  /\ UNCHANGED <<apiVars, row, old, redisVars, cur, step, poisoned, verdict,
                 running, resultVars, faults>>

\* _running is looked at again after the BRPOP.
Pop_DroppedOnStop(w) ==
  /\ queue # <<>>
  /\ IF running[w] THEN Take(w, "step", Head(queue)) ELSE Take(w, "top", NoJob)

\* JOB_HANDLERS has no entry for batch jobs: unknown_job_type.
Pop_UnknownType(w) ==
  /\ queue # <<>>
  /\ IF JobOf(Head(queue)) \in Batches THEN Take(w, "maint", NoJob)
                                        ELSE Take(w, "step", Head(queue))

\* BRPOP takes a job off the list and opens its handler.
Pop(w) == queue # <<>> /\ Take(w, "step", Head(queue))

\* BRPOP times out after two seconds.
PopNothing(w) ==
  /\ pc[w] = "pop"
  /\ queue = <<>>
  /\ pc' = [pc EXCEPT ![w] = "maint"]
  /\ UNCHANGED <<apiVars, row, old, redisVars, cur, step, poisoned, verdict,
                 running, resultVars, faults>>

\* The Redis call raises: nothing was popped, or the server had popped a job
\* and its answer was lost.  If the client has sent the BRPOP again after a
\* lost answer, the worker gets the answer to the second one.
PopFails(w) ==
  /\ pc[w] = "pop"
  /\ AFault
  /\ \/ queue' = queue /\ pc' = [pc EXCEPT ![w] = "maint"]
     \/ /\ queue # <<>>
        /\ queue' = Tail(queue)
        /\ pc' \in {pc, [pc EXCEPT ![w] = "maint"]}
  /\ UNCHANGED <<apiVars, row, old, cache, cur, step, poisoned, verdict, running, resultVars>>

\* Every turn ends here; every 720th deletes the rows that are old enough,
\* whatever their status.
Maintain(w) ==
  /\ pc[w] = "maint"
  /\ pc' = [pc EXCEPT ![w] = "top"]
  /\ \/ UNCHANGED <<row, old>>
     \/ /\ row' = [j \in Jobs |-> IF j \in old THEN NoRow ELSE row[j]]
        /\ old' = {}
  /\ UNCHANGED <<apiVars, redisVars, cur, step, poisoned, verdict, running, resultVars, faults>>

\* The maintenance raises: the error is logged, nothing is deleted.
MaintainFails(w) ==
  /\ pc[w] = "maint"
  /\ AFault
  /\ pc' = [pc EXCEPT ![w] = "top"]
  /\ UNCHANGED <<apiVars, row, old, redisVars, cur, step, poisoned, verdict, running, resultVars>>

\* An error that the maintenance answers itself (the flush repeats a SELECT
\* that raised): the turn goes on.
MaintainRecovers(w) ==
  /\ pc[w] = "maint"
  /\ AFault
  /\ UNCHANGED <<apiVars, row, old, redisVars, workVars, running, resultVars>>

(***************************************************************************)
(* The handlers.                                                           *)
(***************************************************************************)

\* The webhook is scheduled at the start: the progress commit publishes it.
ProgressCommit_Stages(w) ==
  /\ UpdateRow(JobOf(cur[w]), [status |-> "running", step |-> step[w]])
  /\ events' = [events EXCEPT ![cur[w]] = @ + EventsOf(JobOf(cur[w]))]
  /\ UNCHANGED skills

\* What the commit of each step leaves in the database.
ProgressCommit(w) ==
  /\ UpdateRow(JobOf(cur[w]), [status |-> "running", step |-> step[w]])
  /\ UNCHANGED resultVars

SkillCommit(w) ==
  LET c == cur[w] IN
  /\ skills' = [skills EXCEPT ![c] = @ + 1]
  /\ events' = [events EXCEPT ![c] = @ + EventsOf(JobOf(c))]
  /\ UNCHANGED row

CompleteCommit(w) ==
  LET c == cur[w] IN
  /\ UpdateRow(JobOf(c), [row[JobOf(c)] EXCEPT !.status = "complete"])
  /\ events' = [events EXCEPT ![c] = IF JobOf(c) \in Batches THEN @ + EventsOf(JobOf(c)) ELSE @]
  /\ UNCHANGED skills

FailedCommit(w) ==
  LET j == JobOf(cur[w]) IN
  /\ UpdateRow(j, [row[j] EXCEPT !.status = "failed"])
  /\ UNCHANGED resultVars

\* _update_progress commits status and step; after the last one an extract
\* job goes on to write its skill, a batch job to its summary.
Progress(w) ==
  /\ pc[w] = "step"
  /\ ProgressCommit(w)
  /\ step' = [step EXCEPT ![w] = @ + 1]
  /\ pc' = [pc EXCEPT ![w] = AfterStep(JobOf(cur[w]), step[w] + 1)]
  /\ UNCHANGED <<apiVars, old, redisVars, cur, poisoned, verdict, running, faults>>

\* The skill and its webhook row, in one commit.
WriteSkill(w) ==
  /\ pc[w] = "write"
  /\ SkillCommit(w)
  /\ pc' = [pc EXCEPT ![w] = "finish"]
  /\ UNCHANGED <<apiVars, old, redisVars, cur, step, poisoned, verdict, running, faults>>

\* The flush violates the foreign key of connection_id, which nobody has
\* checked, or whose connection has been deleted since: the session is in a
\* failed transaction when the except branch gets it.
WriteViolatesKey(w) ==
  /\ pc[w] = "write"
  /\ JobOf(cur[w]) \in Orphaned
  /\ poisoned' = [poisoned EXCEPT ![w] = TRUE]
  /\ pc' = [pc EXCEPT ![w] = "fail"]
  /\ UNCHANGED <<apiVars, row, old, redisVars, cur, step, verdict, running, resultVars, faults>>

\* _finish_job(result) commits the outcome, with the webhook row of a batch.
Finish(w) ==
  /\ pc[w] = "finish"
  /\ CompleteCommit(w)
  /\ verdict' = [verdict EXCEPT ![w] = "complete"]
  /\ pc' = [pc EXCEPT ![w] = "report"]
  /\ UNCHANGED <<apiVars, old, redisVars, cur, step, poisoned, running, faults>>

\* The except branch of handle_extract: _finish_job(error) on the same session.
Fail(w) ==
  /\ pc[w] = "fail"
  /\ ~poisoned[w]
  /\ FailedCommit(w)
  /\ verdict' = [verdict EXCEPT ![w] = "failed"]
  /\ pc' = [pc EXCEPT ![w] = "report"]
  /\ UNCHANGED <<apiVars, old, redisVars, cur, step, poisoned, running, faults>>

\* The session refuses the UPDATE; run_worker logs handler_error and goes on.
FailRaises(w) ==
  /\ pc[w] = "fail"
  /\ poisoned[w]
  /\ Leave(w)
  /\ UNCHANGED <<apiVars, row, old, redisVars, step, poisoned, verdict, running, resultVars, faults>>

\* set_job_result caches the outcome for the poll endpoint.
Report(w) ==
  /\ pc[w] = "report"
  /\ cache' = [cache EXCEPT ![JobOf(cur[w])] = verdict[w]]
  /\ Leave(w)
  /\ UNCHANGED <<apiVars, row, old, queue, step, poisoned, verdict, running, resultVars, faults>>

\* An error of set_job_result reaches the except branch of the handler.
ReportFails_Escapes(w) ==
  /\ pc[w] = "report"
  /\ AFault
  /\ pc' = [pc EXCEPT ![w] = "fail"]
  /\ UNCHANGED <<apiVars, row, old, redisVars, cur, step, poisoned, verdict, running, resultVars>>

\* The Redis call fails; the exception is swallowed.
ReportFails(w) ==
  /\ pc[w] = "report"
  /\ AFault
  /\ Leave(w)
  /\ UNCHANGED <<apiVars, row, old, redisVars, step, poisoned, verdict, running, resultVars>>

\* A statement or commit of w raises, and leaves the session refusing or not.
\* handle_extract catches it, until its except branch raises itself;
\* handle_batch has no handler around its commits.
Raises(w, refuses) ==
  IF JobOf(cur[w]) \in Batches \/ pc[w] = "fail"
  THEN Leave(w) /\ UNCHANGED poisoned
  ELSE /\ poisoned' = [poisoned EXCEPT ![w] = refuses]
       /\ pc' = [pc EXCEPT ![w] = "fail"]
       /\ UNCHANGED cur

\* A database error, in the transaction of a step that then does not commit.
DbError(w) ==
  /\ pc[w] \in {"step", "write", "finish", "fail"}
  /\ AFault
  /\ \E refuses \in BOOLEAN : Raises(w, refuses)
  /\ UNCHANGED <<apiVars, row, old, redisVars, step, verdict, running, resultVars>>

\* The handler takes a lost answer for a failure it can record.
AckLost_Recorded(w) ==
  /\ AFault
  /\ pc[w] = "finish" /\ CompleteCommit(w)
  /\ Raises(w, FALSE)
  /\ UNCHANGED <<apiVars, old, redisVars, step, verdict, running>>

\* The commit of a step takes effect, but the connection breaks before its
\* answer: it raises, and the session refuses from there.
AckLost(w) ==
  /\ AFault
  /\ \/ pc[w] = "step" /\ ProgressCommit(w)
     \/ pc[w] = "write" /\ SkillCommit(w)
     \/ pc[w] = "finish" /\ CompleteCommit(w)
     \/ pc[w] = "fail" /\ ~poisoned[w] /\ FailedCommit(w)
  /\ Raises(w, TRUE)
  /\ UNCHANGED <<apiVars, old, redisVars, step, verdict, running>>

\* The process dies; what it had committed stays, the job in hand is gone.
Crash(w) ==
  /\ pc[w] # "down"
  /\ AFault
  /\ pc' = [pc EXCEPT ![w] = "down"]
  /\ cur' = [cur EXCEPT ![w] = NoJob]
  /\ running' = [running EXCEPT ![w] = FALSE]
  /\ UNCHANGED <<apiVars, row, old, redisVars, step, poisoned, verdict, resultVars>>

Submit(j) ==
  \/ Insert(j) \/ Enqueue(j) \/ EnqueueAgain(j) \/ EnqueueFails(j)
  \/ Accept(j) \/ Reject(j)

Handle(w) ==
  \/ Progress(w) \/ WriteSkill(w) \/ WriteViolatesKey(w) \/ Finish(w)
  \/ Fail(w) \/ FailRaises(w) \/ Report(w)

Loop(w) == Start(w) \/ LoopTop(w) \/ Pop(w) \/ PopNothing(w) \/ Maintain(w)

Upset(w) ==
  \/ PopFails(w) \/ MaintainFails(w) \/ MaintainRecovers(w) \/ ReportFails(w)
  \/ DbError(w) \/ AckLost(w) \/ Crash(w)

Next ==
  \/ \E j \in Jobs : Submit(j) \/ Forget(j) \/ AgeOut(j)
  \/ LoseQueue
  \/ \E w \in Workers : Loop(w) \/ Handle(w) \/ Signal(w) \/ Upset(w)

\* A worker that can take a step takes it: every await in the loop returns
\* within a timeout, and docker restarts a process that died ("restart:
\* unless-stopped").  Nothing is assumed of requests, signals and faults.
Fairness == \A w \in Workers : WF_vars(Loop(w) \/ Handle(w))

Spec == Init /\ [][Next]_vars /\ Fairness

(***************************************************************************)
(* Properties                                                              *)
(***************************************************************************)

Held(c) == \E w \in Workers : cur[w] = c
Queued(c) == \E i \in 1..Len(queue) : queue[i] = c

\* Redis has not taken the job twice.
Single(j) == pushed[j] < 2

\* What GET /jobs/{id} answers.
Polled(j) == IF cache[j] # "none" THEN cache[j] ELSE row[j].status

\* Everything a job of its type commits has been committed, by a copy of it.
BackedBy(c) ==
  /\ JobOf(c) \notin Batches => skills[c] = 1
  /\ JobOf(c) \in Hooked => events[c] = 1
Backed(j) == \E c \in CopiesOf(j) : BackedBy(c)

\* However the workers race, crash and fail, a job writes a skill at most as
\* often as Redis has taken it, and schedules its webhook no more often: once,
\* unless the client has repeated the LPUSH.
RunsOncePerPush ==
  \A j \in Jobs :
    /\ skills[<<j, 1>>] + skills[<<j, 2>>] <= pushed[j]
    /\ events[<<j, 1>>] + events[<<j, 2>>] <= pushed[j]

\* An extraction's skill and its webhook are committed together or not at
\* all ("either both persist or neither does", webhook_outbox.py line 11).
SkillWithEvent ==
  \A c \in Copies : JobOf(c) \in Hooked \ Batches => events[c] = skills[c]

\* An outcome "complete", in the row or in the cache, is never announced
\* before the skill and the webhook behind it are committed.
CompleteIsBacked ==
  \A j \in Jobs : (row[j].status = "complete" \/ cache[j] = "complete") => Backed(j)

\* The cached outcome and the row never tell a client opposite stories: a
\* job the cache calls finished is not running in the table, unless it was
\* pushed twice.
CacheAgrees ==
  \A j \in Jobs : cache[j] # "none" /\ Single(j) =>
    row[j].status \in {cache[j], "absent", "queued"}

\* Without faults, a job that was pushed is waiting, in hand, or done:
\* popping, stopping on SIGTERM ("finish the in-flight job, then exit
\* cleanly", worker.py line 16) and restarting lose none.
NoJobVanishes ==
  faults = 0 => \A j \in Jobs \ Orphaned :
    api[j] \in {"pushed", "accepted"} =>
      Queued(<<j, 1>>) \/ Held(<<j, 1>>) \/ Backed(j)

\* A finished job stays as it finished, until the purge deletes its row:
\* neither a late error, nor a commit whose answer is lost, nor a second worker
\* turns the outcome over.  (A job pushed twice runs twice, and is "running"
\* again.)
FinalStays ==
  [][\A j \in Jobs : row[j].status \in Final /\ Single(j) =>
       row'[j].status \in {row[j].status, "absent"}]_vars

\* A job somebody is still to do something about: the request that has
\* inserted it, the worker that will pop it, or the one that has it in hand.
InCare(j) == api[j] = "inserted" \/ \E c \in CopiesOf(j) : Queued(c) \/ Held(c)

\* A step after which nobody cares for the job, and no outcome is cached.
Dropped(j) == InCare(j) /\ ~InCare(j)' /\ cache'[j] = "none"

\* From the insert to the outcome a job is handed on and never dropped, but by
\* a fault in that very step (the enqueue error the request swallows, skills.py
\* line 138, a crash, ...) or for want of a session that could record its
\* failure; and a fault costs one job, unless it takes the list itself.
DroppedByFault ==
  [][\A j \in Jobs : Dropped(j) =>
       /\ \/ faults' > faults
          \/ \E w \in Workers : cur[w] \in CopiesOf(j) /\ poisoned[w]
       /\ \A i \in Jobs \ {j} : Dropped(i) =>
            queue' = <<>> /\ \A k \in {i, j} : \E c \in CopiesOf(k) : Queued(c)]_vars

\* "Poll GET /v2/jobs/job_a1b2c3d4 until status is complete" (README.md line
\* 314): without faults an accepted job is answered "complete" or "failed"
\* some day.
AcceptedEnds ==
  \A j \in Jobs : api[j] = "accepted" ~> Polled(j) \in Final \cup {"absent"}

(***************************************************************************)
(* The inductive invariant behind the safety properties.                   *)
(***************************************************************************)

\* A worker has a job in hand exactly while it is in a handler.
CurMatches == \A w \in Workers : cur[w] # NoJob <=> pc[w] \in BusyAt

\* A copy has one owner: one place in the queue or one worker.
OneOwner ==
  /\ \A a, b \in 1..Len(queue) : queue[a] = queue[b] => a = b
  /\ \A v, w \in Workers : cur[v] = cur[w] /\ cur[v] # NoJob => v = w
  /\ \A c \in Copies : Held(c) => ~Queued(c)

\* Redis has taken this copy.
Exists(c) == c[2] <= pushed[JobOf(c)]

\* What has not been pushed is nowhere; what is not accepted has no row.
SubmitOrder ==
  /\ \A j \in Jobs :
       /\ api[j] \in {"idle", "inserted"} => pushed[j] = 0
       /\ api[j] # "accepted" => row[j].status = "absent"
  /\ \A c \in Copies : ~Exists(c) => ~Queued(c) /\ ~Held(c)

\* No worker has left a trace of a copy that is still to be popped, nor of a
\* job of which there is no other.
Untouched(c) == skills[c] = 0 /\ events[c] = 0

FreshUntouched ==
  /\ \A c \in Copies : ~Exists(c) \/ Queued(c) => Untouched(c)
  /\ \A j \in Jobs : pushed[j] = 0 \/ (Single(j) /\ Queued(<<j, 1>>)) =>
       cache[j] = "none" /\ row[j].status \in {"absent", "queued"}

\* The results a copy may have.
Results ==
  \A c \in Copies :
    /\ skills[c] <= 1 /\ events[c] <= 1
    /\ JobOf(c) \in Batches => skills[c] = 0
    /\ JobOf(c) \in Hooked \ Batches => events[c] = skills[c]
    /\ JobOf(c) \notin Hooked => events[c] = 0

\* What a handler has done to its copy by the time it is where it is.
CopyInHand(w) ==
  LET c == cur[w]
      j == JobOf(c) IN
  /\ pc[w] \in {"step", "write"} => Untouched(c)
  /\ pc[w] = "write" => j \notin Batches
  /\ pc[w] = "finish" => IF j \in Batches THEN events[c] = 0 ELSE BackedBy(c)
  /\ pc[w] = "fail" => j \notin Batches /\ (faults > 0 \/ j \in Orphaned)
  /\ pc[w] = "report" => IF verdict[w] = "complete" THEN BackedBy(c)
                         ELSE faults > 0 \/ j \in Orphaned

\* And what it has made of the row and the cache, if it is the only copy.
RowInHand(w) ==
  LET j == JobOf(cur[w]) IN
  Single(j) =>
    /\ cache[j] = "none"
    /\ row[j].status \in Final =>
         \/ pc[w] = "report" /\ row[j].status = verdict[w]
         \/ pc[w] = "fail" /\ poisoned[w]
    /\ pc[w] = "report" => row[j].status # "running"

HandlersInOrder == \A w \in Workers : cur[w] # NoJob => CopyInHand(w) /\ RowInHand(w)

\* The invariant as a whole: a copy has one owner at a time, its results are
\* those of the handler's last step, and so are the row and the cached outcome
\* of a job that has one copy only.
JobInv ==
  /\ TypeOK /\ CurMatches /\ OneOwner /\ SubmitOrder /\ FreshUntouched
  /\ Results /\ HandlersInOrder
  /\ CompleteIsBacked /\ CacheAgrees /\ NoJobVanishes
=============================================================================
