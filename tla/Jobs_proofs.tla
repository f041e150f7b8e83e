----------------------------- MODULE Jobs_proofs -----------------------------
(***************************************************************************)
(* Proofs about Jobs for any number of jobs, workers, steps and faults:    *)
(* the type invariant, that a job runs once for each time it was pushed,   *)
(* the atomicity of a skill and its webhook, the honesty of "complete",    *)
(* that no job vanishes while nothing fails, what drops one when something *)
(* does, and that an outcome stays.  About Pipeline: that its loop runs    *)
(* the jobs as Jobs says and keeps the outbox's contract, and what a       *)
(* receiver may rely on.                                                   *)
(***************************************************************************)
EXTENDS Pipeline, TLAPS

(***************************************************************************)
(* Copies and the queue.                                                   *)
(***************************************************************************)

\* A job has two copies, and they are its own.
LEMMA CopyFacts ==
  /\ \A c \in Copies : JobOf(c) \in Jobs /\ c[2] \in {1, 2} /\ c \in CopiesOf(JobOf(c))
  /\ \A j \in Jobs : /\ CopiesOf(j) \subseteq Copies
                     /\ \A c \in CopiesOf(j) : JobOf(c) = j
                     /\ <<j, 1>> \in CopiesOf(j) /\ <<j, 2>> \in CopiesOf(j)
                     /\ <<j, 1>>[2] = 1 /\ <<j, 2>>[2] = 2
  /\ \A c, d \in Copies : JobOf(c) = JobOf(d) /\ c # d =>
       \/ c[2] = 1 /\ d[2] = 2
       \/ c[2] = 2 /\ d[2] = 1
BY DEF Copies, JobOf, CopiesOf

LEMMA FirstCopy ==
  ASSUME NEW c \in Copies, c[2] = 1
  PROVE  c = <<JobOf(c), 1>>
BY DEF Copies, JobOf

\* Two copies of a job are there only if it was pushed twice.
LEMMA TwoCopies ==
  ASSUME TypeOK, NEW c \in Copies, NEW d \in Copies, c # d, JobOf(c) = JobOf(d),
         Exists(c), Exists(d)
  PROVE  ~Single(JobOf(c))
<1>1. pushed[JobOf(c)] \in 0..2 /\ (c[2] = 2 \/ d[2] = 2)
  BY CopyFacts DEF TypeOK
<1>2. QED
  BY <1>1 DEF Exists, Single

\* No copy is in the queue twice.
Distinct == \A a, b \in 1..Len(queue) : queue[a] = queue[b] => a = b

\* BRPOP takes the head off the queue, and nothing else.
LEMMA TailFacts ==
  ASSUME queue \in Seq(Copies), queue # <<>>, Distinct, queue' = Tail(queue),
         NEW h, h = Head(queue)
  PROVE  /\ h \in Copies
         /\ Queued(h)
         /\ ~Queued(h)'
         /\ \A c \in Copies \ {h} : Queued(c)' = Queued(c)
         /\ Distinct'
         /\ queue' \in Seq(Copies)
<1>1. /\ Len(queue) \in Nat /\ Len(queue) > 0
      /\ h = queue[1] /\ h \in Copies
      /\ Len(queue') = Len(queue) - 1
      /\ \A i \in 1..Len(queue') : queue'[i] = queue[i + 1]
      /\ queue' \in Seq(Copies)
  OBVIOUS
<1>2. Queued(h)
  BY <1>1 DEF Queued
<1>3. \A c : Queued(c)' <=> \E i \in 1..Len(queue') : queue[i + 1] = c
  BY <1>1 DEF Queued
<1>4. ~Queued(h)'
  <2> SUFFICES ASSUME NEW i \in 1..Len(queue'), queue[i + 1] = queue[1]
               PROVE  FALSE
    BY <1>1, <1>3
  <2>1. i + 1 \in 1..Len(queue) /\ 1 \in 1..Len(queue) /\ i + 1 # 1
    BY <1>1
  <2>2. QED
    BY <2>1 DEF Distinct
<1>5. ASSUME NEW c \in Copies \ {h} PROVE Queued(c)' = Queued(c)
  <2>1. ASSUME Queued(c) PROVE Queued(c)'
    <3>1. PICK i \in 1..Len(queue) : queue[i] = c
      BY <2>1 DEF Queued
    <3>2. i # 1
      BY <1>1, <3>1, <1>5
    <3>3. i - 1 \in 1..Len(queue') /\ (i - 1) + 1 = i
      BY <1>1, <3>2
    <3>4. QED
      BY <1>3, <3>1, <3>3
  <2>2. ASSUME Queued(c)' PROVE Queued(c)
    <3>1. PICK i \in 1..Len(queue') : queue[i + 1] = c
      BY <1>3, <2>2
    <3>2. i + 1 \in 1..Len(queue)
      BY <1>1
    <3>3. QED
      BY <3>1, <3>2 DEF Queued
  <2>3. Queued(c)' \in BOOLEAN /\ Queued(c) \in BOOLEAN
    BY DEF Queued
  <2>4. QED
    BY <2>1, <2>2, <2>3
<1>6. Distinct'
  <2> SUFFICES ASSUME NEW a \in 1..Len(queue'), NEW b \in 1..Len(queue'),
                      queue'[a] = queue'[b]
               PROVE  a = b
    BY DEF Distinct
  <2>1. a + 1 \in 1..Len(queue) /\ b + 1 \in 1..Len(queue)
        /\ queue[a + 1] = queue[b + 1]
    BY <1>1
  <2>2. a + 1 = b + 1
    BY <2>1 DEF Distinct
  <2>3. QED
    BY <2>2
<1>7. QED
  BY <1>1, <1>2, <1>4, <1>5, <1>6

\* LPUSH adds one copy, and nothing else.
LEMMA AppendFacts ==
  ASSUME queue \in Seq(Copies), Distinct, NEW c \in Copies, ~Queued(c),
         queue' = Append(queue, c)
  PROVE  /\ Queued(c)'
         /\ \A d \in Copies \ {c} : Queued(d)' = Queued(d)
         /\ Distinct'
         /\ queue' \in Seq(Copies)
<1>1. /\ Len(queue) \in Nat
      /\ Len(queue') = Len(queue) + 1
      /\ \A i \in 1..Len(queue) : queue'[i] = queue[i]
      /\ queue'[Len(queue) + 1] = c
      /\ queue' \in Seq(Copies)
  OBVIOUS
<1>2. Queued(c)'
  BY <1>1 DEF Queued
<1>3. ASSUME NEW d \in Copies \ {c} PROVE Queued(d)' = Queued(d)
  <2>1. \A k \in 1..Len(queue') : k \in 1..Len(queue) \/ k = Len(queue) + 1
    BY <1>1
  <2>2. QED
    BY <1>1, <2>1 DEF Queued
<1>4. Distinct'
  <2> SUFFICES ASSUME NEW a \in 1..Len(queue'), NEW b \in 1..Len(queue'),
                      queue'[a] = queue'[b]
               PROVE  a = b
    BY DEF Distinct
  <2>1. \A k \in 1..Len(queue') : k \in 1..Len(queue) \/ k = Len(queue) + 1
    BY <1>1
  <2>2. \A k \in 1..Len(queue) : queue[k] # c
    BY DEF Queued
  <2>3. QED
    BY <1>1, <2>1, <2>2 DEF Distinct
<1>5. QED
  BY <1>1, <1>2, <1>3, <1>4

\* An unchanged or emptied queue.
LEMMA QueueFrame ==
  /\ queue' = queue => Distinct' = Distinct /\ \A c : Queued(c)' = Queued(c)
  /\ queue' = <<>> => Distinct' /\ \A c : ~Queued(c)'
BY DEF Distinct, Queued

(***************************************************************************)
(* The initial states.                                                     *)
(***************************************************************************)

LEMMA InitInv == Init => JobInv
<1> SUFFICES ASSUME Init PROVE JobInv
  OBVIOUS
<1> USE JobConstants DEF Init
<1>1. TypeOK
  BY DEF TypeOK, RowStates, NoRow, Final, Places, BusyAt
<1>2. \A c \in Copies : ~Held(c) /\ ~Queued(c)
  <2>1. \A c \in Copies : ~Held(c)
    BY DEF Held
  <2>2. 1..Len(queue) = {}
    OBVIOUS
  <2>3. \A c \in Copies : ~Queued(c)
    BY <2>2 DEF Queued
  <2>4. QED
    BY <2>1, <2>3
<1>3. CurMatches /\ HandlersInOrder
  BY DEF CurMatches, HandlersInOrder, BusyAt
<1>4. OneOwner
  BY <1>2 DEF OneOwner
<1>5. SubmitOrder
  BY <1>2 DEF SubmitOrder, NoRow
<1>6. FreshUntouched
  BY DEF FreshUntouched, Untouched, NoRow
<1>7. Results
  <2>1. ASSUME NEW c \in Copies
        PROVE  /\ skills[c] <= 1 /\ events[c] <= 1
               /\ skills[c] = 0 /\ events[c] = 0
    <3>1. skills[c] = 0 /\ events[c] = 0
      OBVIOUS
    <3>2. QED
      BY <3>1
  <2>2. QED
    BY <2>1 DEF Results
<1>8. CompleteIsBacked /\ CacheAgrees /\ NoJobVanishes
  BY DEF CompleteIsBacked, CacheAgrees, NoJobVanishes, NoRow
<1>9. QED
  BY <1>1, <1>3, <1>4, <1>5, <1>6, <1>7, <1>8 DEF JobInv

(***************************************************************************)
(* What every step of a handler has in common.                             *)
(***************************************************************************)

\* The results one copy may have.
ResultsOf(c) ==
  /\ skills[c] <= 1 /\ events[c] <= 1
  /\ JobOf(c) \in Batches => skills[c] = 0
  /\ JobOf(c) \in Hooked \ Batches => events[c] = skills[c]
  /\ JobOf(c) \notin Hooked => events[c] = 0

\* What a handler with copy c in hand may do to the database: write the row of
\* its job, if it is there, and results of c; and it makes the row complete
\* with all results behind it.
Wrote(c) ==
  LET j == JobOf(c) IN
  /\ \A i \in Jobs \ {j} : row'[i] = row[i]
  /\ row[j].status = "absent" => row'[j].status = "absent"
  /\ row'[j].status = "complete" => row[j].status = "complete" \/ BackedBy(c)'
  /\ \A d \in Copies \ {c} : skills'[d] = skills[d] /\ events'[d] = events[d]
  /\ ResultsOf(c)'
  /\ BackedBy(c) => BackedBy(c)'

\* Writing nothing is allowed.
LEMMA WroteNothing ==
  ASSUME JobInv, NEW c \in Copies, UNCHANGED <<row, skills, events>>
  PROVE  Wrote(c)
BY DEF Wrote, ResultsOf, BackedBy, JobInv, Results

\* What a job has committed stays committed.
LEMMA StillBacked ==
  ASSUME NEW c \in Copies, Wrote(c)
  PROVE  /\ \A i \in Jobs : Backed(i) => Backed(i)'
         /\ \A i \in Jobs \ {JobOf(c)} : Backed(i)' = Backed(i)
         /\ \A d \in Copies \ {c} : /\ BackedBy(d)' = BackedBy(d)
                                    /\ Untouched(d)' = Untouched(d)
<1>1. \A d \in Copies \ {c} : BackedBy(d)' = BackedBy(d) /\ Untouched(d)' = Untouched(d)
  BY DEF Wrote, BackedBy, Untouched
<1>2. \A d \in Copies : BackedBy(d) => BackedBy(d)'
  BY <1>1 DEF Wrote
<1>3. \A i \in Jobs : Backed(i) => Backed(i)'
  BY <1>2, CopyFacts DEF Backed
<1>4. ASSUME NEW i \in Jobs \ {JobOf(c)}, Backed(i)' PROVE Backed(i)
  <2>1. PICK d \in CopiesOf(i) : BackedBy(d)'
    BY <1>4 DEF Backed
  <2>2. d \in Copies \ {c}
    BY <1>4, CopyFacts
  <2>3. QED
    BY <1>1, <2>1, <2>2 DEF Backed
<1>5. \A i \in Jobs : Backed(i) \in BOOLEAN /\ Backed(i)' \in BOOLEAN
  BY DEF Backed
<1>6. QED
  BY <1>1, <1>3, <1>4, <1>5

\* A step of worker w on its copy c of job j, which nobody else owns: whatever
\* it does to the row, the cache and the results, the invariant holds again if
\* the facts about j and w that it claims do.
LEMMA HandlerStep ==
  ASSUME JobInv, TypeOK',
         NEW w \in Workers, NEW c \in Copies, c = cur[w], NEW j, j = JobOf(c),
         UNCHANGED <<api, pushed, queue>>, faults <= faults', Wrote(c),
         \A v \in Workers \ {w} :
           /\ pc'[v] = pc[v] /\ cur'[v] = cur[v]
           /\ verdict'[v] = verdict[v] /\ poisoned'[v] = poisoned[v],
         cur'[w] \in {c, NoJob}, cur'[w] # NoJob <=> pc'[w] \in BusyAt,
         \A i \in Jobs \ {j} : cache'[i] = cache[i],
         cache'[j] # cache[j] => (cache'[j] = "complete" => BackedBy(c)'),
         cur'[w] # NoJob => CopyInHand(w)' /\ RowInHand(w)',
         cache'[j] # "none" /\ Single(j) => row'[j].status \in {cache'[j], "absent", "queued"},
         cur'[w] = NoJob => faults' > 0 \/ j \in Orphaned \/ BackedBy(c)'
  PROVE  JobInv'
<1> USE DEF JobInv
<1>0. j \in Jobs /\ c # NoJob /\ TypeOK
  BY CopyFacts, JobConstants
<1>1. \A d \in Copies : Queued(d)' = Queued(d) /\ Exists(d)' = Exists(d)
  BY QueueFrame DEF Exists
<1>2. \A v \in Workers \ {w} : cur[v] # c
  BY <1>0 DEF OneOwner
<1>3. Held(c) /\ ~Queued(c) /\ Exists(c)
  BY DEF OneOwner, SubmitOrder, Held
<1>4. \A d \in Copies : Held(d)' => Held(d)
  BY JobConstants DEF Held
<1>5. \A d \in Copies \ {c} : Held(d) => Held(d)'
  BY JobConstants DEF Held
<1>6. CurMatches'
  BY DEF CurMatches
<1>7. OneOwner'
  <2>1. \A a, b \in 1..Len(queue') : queue'[a] = queue'[b] => a = b
    BY DEF OneOwner
  <2>2. \A u, v \in Workers : cur'[u] = cur'[v] /\ cur'[u] # NoJob => u = v
    BY <1>2 DEF OneOwner
  <2>3. \A d \in Copies : Held(d)' => ~Queued(d)'
    BY <1>1, <1>4 DEF OneOwner
  <2>4. QED
    BY <2>1, <2>2, <2>3 DEF OneOwner
<1>8. SubmitOrder'
  <2>1. \A i \in Jobs : row[i].status = "absent" => row'[i].status = "absent"
    BY DEF Wrote
  <2>2. QED
    BY <1>1, <1>4, <2>1 DEF SubmitOrder
<1>9. FreshUntouched'
  <2>1. \A d \in Copies : ~Exists(d)' \/ Queued(d)' => Untouched(d)'
    BY <1>1, <1>3, StillBacked DEF FreshUntouched
  <2>2. ASSUME NEW i \in Jobs, pushed[i] = 0 \/ (Single(i) /\ Queued(<<i, 1>>))
        PROVE  i # j
    <3> SUFFICES ASSUME i = j PROVE FALSE
      OBVIOUS
    <3>1. pushed[j] \in 0..2 /\ c[2] \in {1, 2} /\ c[2] <= pushed[j]
      BY <1>0, <1>3, CopyFacts DEF TypeOK, Exists
    <3>2. pushed[j] = 1 /\ Queued(<<j, 1>>)
      BY <2>2, <3>1 DEF Single
    <3>3. c = <<j, 1>>
      BY <3>1, <3>2 DEF Copies, JobOf
    <3>4. QED
      BY <1>3, <3>2, <3>3
  <2>3. \A i \in Jobs : <<i, 1>> \in Copies
    BY CopyFacts
  <2>4. \A i \in Jobs : Queued(<<i, 1>>)' = Queued(<<i, 1>>) /\ Single(i)' = Single(i)
    BY <1>1, <2>3 DEF Single
  <2>5. \A i \in Jobs : pushed'[i] = 0 \/ (Single(i)' /\ Queued(<<i, 1>>)') =>
          cache'[i] = "none" /\ row'[i].status \in {"absent", "queued"}
    BY <2>2, <2>4 DEF FreshUntouched, Wrote
  <2>6. QED
    BY <2>1, <2>5 DEF FreshUntouched
<1>10. Results'
  BY DEF Results, Wrote, ResultsOf
<1>11. HandlersInOrder'
  <2> SUFFICES ASSUME NEW v \in Workers, cur'[v] # NoJob
               PROVE  CopyInHand(v)' /\ RowInHand(v)'
    BY DEF HandlersInOrder
  <2>1. CASE v = w
    BY <2>1
  <2>2. CASE v # w
    <3> DEFINE d == cur[v]
    <3>1. d \in Copies \ {c} /\ cur'[v] = d /\ CopyInHand(v) /\ RowInHand(v)
      BY <2>2, <1>2 DEF TypeOK, HandlersInOrder
    <3>2. BackedBy(d)' = BackedBy(d) /\ Untouched(d)' = Untouched(d) /\ events'[d] = events[d]
      BY <3>1, StillBacked DEF Wrote
    <3>3. faults > 0 => faults' > 0
      BY DEF TypeOK
    <3>4. CopyInHand(v)'
      BY <2>2, <3>1, <3>2, <3>3 DEF CopyInHand
    <3>5. CASE JobOf(d) = j
      <4>1. Exists(d)
        BY <3>1 DEF Held, SubmitOrder
      <4>2. ~Single(j)
        BY <1>0, <1>3, <3>1, <3>5, <4>1, TwoCopies
      <4>3. QED
        BY <3>1, <3>4, <3>5, <4>2 DEF RowInHand, Single
    <3>6. CASE JobOf(d) # j
      <4>1. row'[JobOf(d)] = row[JobOf(d)] /\ cache'[JobOf(d)] = cache[JobOf(d)]
        BY <3>1, <3>6, CopyFacts DEF Wrote
      <4>2. QED
        BY <2>2, <3>1, <3>4, <4>1 DEF RowInHand, Single
    <3>7. QED
      BY <3>5, <3>6
  <2>3. QED
    BY <2>1, <2>2
<1>12. CompleteIsBacked'
  <2>1. \A i \in Jobs : Backed(i) => Backed(i)'
    BY StillBacked
  <2>2. BackedBy(c)' => Backed(j)'
    BY <1>0, CopyFacts DEF Backed
  <2>3. ASSUME NEW i \in Jobs, row'[i].status = "complete" \/ cache'[i] = "complete"
        PROVE  Backed(i)'
    <3>1. CASE i = j
      BY <2>1, <2>2, <2>3, <3>1 DEF CompleteIsBacked, Wrote
    <3>2. CASE i # j
      BY <2>1, <2>3, <3>2 DEF CompleteIsBacked, Wrote
    <3>3. QED
      BY <3>1, <3>2
  <2>4. QED
    BY <2>3 DEF CompleteIsBacked
<1>13. CacheAgrees'
  BY DEF CacheAgrees, Wrote, Single
<1>14. NoJobVanishes'
  <2> SUFFICES ASSUME faults' = 0, NEW i \in Jobs \ Orphaned,
                      api'[i] \in {"pushed", "accepted"}
               PROVE  Queued(<<i, 1>>)' \/ Held(<<i, 1>>)' \/ Backed(i)'
    BY DEF NoJobVanishes
  <2>0. <<i, 1>> \in Copies
    BY CopyFacts
  <2>1. faults = 0 /\ <<i, 1>> \in Copies
    BY <1>0, <2>0, JobConstants DEF TypeOK
  <2>2. Queued(<<i, 1>>) \/ Held(<<i, 1>>) \/ Backed(i)
    BY <2>1 DEF NoJobVanishes
  <2>3. CASE c = <<i, 1>>
    <3>1. i = j
      BY <2>3 DEF JobOf
    <3>2. cur'[w] = NoJob => Backed(j)'
      BY <1>0, <3>1, CopyFacts DEF Backed
    <3>3. cur'[w] = c => Held(c)'
      BY DEF Held
    <3>4. QED
      BY <2>3, <3>1, <3>2, <3>3
  <2>4. CASE c # <<i, 1>>
    BY <2>1, <2>2, <2>4, <1>1, <1>5, StillBacked
  <2>5. QED
    BY <2>3, <2>4
<1>15. QED
  BY <1>6, <1>7, <1>8, <1>9, <1>10, <1>11, <1>12, <1>13, <1>14

(***************************************************************************)
(* The type invariant.                                                     *)
(***************************************************************************)

\* An UPDATE keeps the table typed and touches no other row.
LEMMA UpdateRowFacts ==
  ASSUME row \in [Jobs -> RowStates], NEW j \in Jobs, NEW r \in RowStates,
         UpdateRow(j, r)
  PROVE  /\ row' \in [Jobs -> RowStates]
         /\ \A i \in Jobs \ {j} : row'[i] = row[i]
         /\ row[j].status = "absent" => row'[j] = row[j]
         /\ row[j].status # "absent" => row'[j] = r
BY DEF UpdateRow

\* Finishing a row changes its status only.
LEMMA StatusFacts ==
  ASSUME NEW r \in RowStates, NEW s \in Final
  PROVE  /\ [r EXCEPT !.status = s] \in RowStates
         /\ [r EXCEPT !.status = s].status = s
BY DEF RowStates

\* The commits of a handler, in the places where it makes them.
Commits(w) ==
  \/ pc[w] = "step" /\ ProgressCommit(w)
  \/ pc[w] = "write" /\ SkillCommit(w)
  \/ pc[w] = "finish" /\ CompleteCommit(w)
  \/ pc[w] = "fail" /\ ~poisoned[w] /\ FailedCommit(w)

\* They keep the tables typed, and leave in the row what they write.
LEMMA CommitFacts ==
  ASSUME TypeOK, NEW w \in Workers, cur[w] \in Copies, Commits(w),
         NEW j, j = JobOf(cur[w])
  PROVE  /\ row' \in [Jobs -> RowStates]
         /\ skills' \in [Copies -> Nat] /\ events' \in [Copies -> Nat]
         /\ \A i \in Jobs \ {j} : row'[i] = row[i]
         /\ row[j].status = "absent" => row'[j] = row[j]
         /\ pc[w] = "step" => row'[j].status \in {"absent", "running"}
         /\ pc[w] = "write" => row' = row
         /\ pc[w] = "finish" => row'[j].status \in {"absent", "complete"}
         /\ pc[w] = "fail" => row'[j].status \in {"absent", "failed"}
<1> DEFINE c == cur[w]
<1>0. j \in Jobs /\ row[j] \in RowStates /\ row \in [Jobs -> RowStates]
  BY CopyFacts DEF TypeOK
<1>1. events[c] + EventsOf(j) \in Nat /\ skills[c] + 1 \in Nat
  BY DEF EventsOf, TypeOK
<1>2. CASE pc[w] = "step" /\ ProgressCommit(w)
  <2>1. [status |-> "running", step |-> step[w]] \in RowStates
    BY DEF TypeOK, RowStates
  <2>2. UpdateRow(j, [status |-> "running", step |-> step[w]]) /\ UNCHANGED <<skills, events>>
    BY <1>2 DEF ProgressCommit, resultVars
  <2>3. QED
    BY <1>0, <1>2, <2>1, <2>2, UpdateRowFacts DEF TypeOK
<1>3. CASE pc[w] = "write" /\ SkillCommit(w)
  BY <1>0, <1>1, <1>3 DEF SkillCommit, TypeOK
<1>4. CASE pc[w] = "finish" /\ CompleteCommit(w)
  <2> DEFINE r == [row[j] EXCEPT !.status = "complete"]
  <2>1. r \in RowStates /\ r.status = "complete"
    BY <1>0, StatusFacts DEF Final
  <2>2. UpdateRow(j, r) /\ UNCHANGED skills
        /\ events' = [events EXCEPT ![c] = IF j \in Batches THEN @ + EventsOf(j) ELSE @]
    BY <1>4 DEF CompleteCommit
  <2> HIDE DEF r
  <2>3. events' \in [Copies -> Nat] /\ skills' \in [Copies -> Nat]
    BY <1>1, <2>2 DEF TypeOK
  <2>4. QED
    BY <1>0, <1>4, <2>1, <2>2, <2>3, UpdateRowFacts
<1>5. CASE pc[w] = "fail" /\ ~poisoned[w] /\ FailedCommit(w)
  <2> DEFINE r == [row[j] EXCEPT !.status = "failed"]
  <2>1. r \in RowStates /\ r.status = "failed"
    BY <1>0, StatusFacts DEF Final
  <2>2. UpdateRow(j, r) /\ UNCHANGED <<skills, events>>
    BY <1>5 DEF FailedCommit, resultVars
  <2> HIDE DEF r
  <2>3. QED
    BY <1>0, <1>5, <2>1, <2>2, UpdateRowFacts DEF TypeOK
<1>6. QED
  BY <1>2, <1>3, <1>4, <1>5 DEF Commits

LEMMA TypeSubmit ==
  ASSUME TypeOK, NEW j \in Jobs, Submit(j) \/ Forget(j) \/ AgeOut(j) \/ LoseQueue
  PROVE  TypeOK'
<1> USE JobConstants DEF TypeOK, apiVars, redisVars, workVars, resultVars
<1>1. CASE Insert(j)
  BY <1>1 DEF Insert
<1>2. CASE Enqueue(j)
  <2>0. <<j, 1>> \in Copies
    BY CopyFacts
  <2>1. queue' \in Seq(Copies)
    BY <1>2, <2>0 DEF Enqueue
  <2>2. QED
    BY <1>2, <2>1 DEF Enqueue
<1>3. CASE EnqueueAgain(j)
  <2>0. <<j, 2>> \in Copies
    BY CopyFacts
  <2>1. queue' \in Seq(Copies)
    BY <1>3, <2>0 DEF EnqueueAgain
  <2>2. QED
    BY <1>3, <2>1 DEF EnqueueAgain, AFault
<1>4. CASE EnqueueFails(j)
  BY <1>4 DEF EnqueueFails, AFault
<1>5. CASE Accept(j)
  BY <1>5 DEF Accept, RowStates
<1>6. CASE Reject(j)
  BY <1>6 DEF Reject, AFault
<1>7. CASE Forget(j)
  BY <1>7 DEF Forget
<1>8. CASE AgeOut(j)
  BY <1>8 DEF AgeOut
<1>9. CASE LoseQueue
  BY <1>9 DEF LoseQueue, AFault
<1>10. QED
  BY <1>1, <1>2, <1>3, <1>4, <1>5, <1>6, <1>7, <1>8, <1>9 DEF Submit

LEMMA TypeLoop ==
  ASSUME TypeOK, NEW w \in Workers,
         Loop(w) \/ Signal(w) \/ PopFails(w) \/ MaintainFails(w) \/ MaintainRecovers(w)
           \/ Crash(w)
  PROVE  TypeOK'
<1> USE JobConstants DEF TypeOK, apiVars, redisVars, workVars, resultVars, Places, BusyAt
<1>1. CASE Start(w)
  BY <1>1 DEF Start
<1>2. CASE LoopTop(w)
  BY <1>2 DEF LoopTop
<1>3. CASE Pop(w)
  BY <1>3 DEF Pop, Take, Remaining
<1>4. CASE PopNothing(w)
  BY <1>4 DEF PopNothing
<1>5. CASE Maintain(w)
  <2>1. NoRow \in RowStates
    BY DEF RowStates, NoRow
  <2>2. row' \in [Jobs -> RowStates] /\ old' \subseteq Jobs
    <3>1. CASE UNCHANGED <<row, old>>
      BY <3>1
    <3>2. CASE /\ row' = [j \in Jobs |-> IF j \in old THEN NoRow ELSE row[j]]
               /\ old' = {}
      BY <2>1, <3>2
    <3>3. QED
      BY ONLY <1>5, <3>1, <3>2 DEF Maintain
  <2>3. QED
    BY <1>5, <2>2 DEF Maintain
<1>6. CASE Signal(w)
  BY <1>6 DEF Signal
<1>7. CASE PopFails(w)
  <2>1. queue' = queue \/ (queue # <<>> /\ queue' = Tail(queue))
    BY <1>7 DEF PopFails
  <2>2. queue \in Seq(Copies)
    OBVIOUS
  <2>3. queue # <<>> => Tail(queue) \in Seq(Copies)
    BY ONLY <2>2
  <2>4. queue' \in Seq(Copies)
    BY ONLY <2>1, <2>2, <2>3
  <2>5. pc' = pc \/ pc' = [pc EXCEPT ![w] = "maint"]
    BY <1>7 DEF PopFails
  <2>6. pc' \in [Workers -> Places] /\ \A v \in Workers : pc'[v] = "step" => pc[v] = "step"
    BY ONLY <2>5, pc \in [Workers -> Places] DEF Places
  <2>7. faults' \in 0..MaxFaults
    BY <1>7 DEF PopFails, AFault
  <2>8. UNCHANGED <<api, pushed, row, old, cache, cur, step, poisoned, verdict, running,
                    skills, events>>
    BY <1>7 DEF PopFails
  <2>9. QED
    BY <2>4, <2>6, <2>7, <2>8
<1>8. CASE Crash(w)
  BY <1>8 DEF Crash, AFault
<1>9. CASE MaintainFails(w)
  BY <1>9 DEF MaintainFails, AFault
<1>10. CASE MaintainRecovers(w)
  BY <1>10 DEF MaintainRecovers, AFault
<1>11. QED
  BY <1>1, <1>2, <1>3, <1>4, <1>5, <1>6, <1>7, <1>8, <1>9, <1>10 DEF Loop

\* An error sends the handler to its except branch or out.
LEMMA TypeRaises ==
  ASSUME TypeOK, NEW w \in Workers, NEW refuses \in BOOLEAN, Raises(w, refuses)
  PROVE  /\ pc' \in [Workers -> Places] /\ cur' \in [Workers -> Copies \cup {NoJob}]
         /\ poisoned' \in [Workers -> BOOLEAN]
         /\ pc'[w] \in {"maint", "fail"} /\ \A v \in Workers \ {w} : pc'[v] = pc[v]
<1>1. \/ pc' = [pc EXCEPT ![w] = "maint"] /\ cur' = [cur EXCEPT ![w] = NoJob]
         /\ UNCHANGED poisoned
      \/ pc' = [pc EXCEPT ![w] = "fail"] /\ UNCHANGED cur
         /\ poisoned' = [poisoned EXCEPT ![w] = refuses]
  BY DEF Raises, Leave
<1>2. QED
  BY <1>1 DEF TypeOK, Places, BusyAt

LEMMA TypeHandler ==
  ASSUME TypeOK, CurMatches, NEW w \in Workers,
         Handle(w) \/ ReportFails(w) \/ DbError(w) \/ AckLost(w)
  PROVE  TypeOK' /\ cur[w] \in Copies /\ pc[w] \in BusyAt
<1>0. pc[w] \in BusyAt
  BY DEF Handle, Progress, WriteSkill, WriteViolatesKey, Finish, Fail, FailRaises,
     Report, ReportFails, DbError, AckLost, BusyAt
<1>1. cur[w] \in Copies
  BY <1>0 DEF CurMatches, TypeOK
<1> USE JobConstants, <1>1 DEF TypeOK, apiVars, redisVars, workVars, resultVars, Places, BusyAt
<1>c. Commits(w) => /\ row' \in [Jobs -> RowStates]
                    /\ skills' \in [Copies -> Nat] /\ events' \in [Copies -> Nat]
  BY CommitFacts
<1>2. ASSUME Progress(w) PROVE TypeOK'
  <2>1. pc[w] = "step" /\ step[w] \in 0..Steps /\ step[w] < Steps /\ Commits(w)
    BY <1>2 DEF Progress, Commits
  <2>2. /\ pc' = [pc EXCEPT ![w] = AfterStep(JobOf(cur[w]), step[w] + 1)]
        /\ step' = [step EXCEPT ![w] = @ + 1]
        /\ UNCHANGED <<api, pushed, old, queue, cache, cur, poisoned, verdict, running, faults>>
    BY <1>2 DEF Progress
  <2>3. /\ AfterStep(JobOf(cur[w]), step[w] + 1) \in Places
        /\ AfterStep(JobOf(cur[w]), step[w] + 1) = "step" => step[w] + 1 < Steps
    BY DEF AfterStep
  <2>4. step[w] + 1 \in 0..Steps
    BY <2>1
  <2>5. /\ pc' \in [Workers -> Places] /\ step' \in [Workers -> 0..Steps]
        /\ \A v \in Workers : pc'[v] = "step" => step'[v] < Steps
    BY <2>2, <2>3, <2>4
  <2>6. QED
    BY <1>c, <2>1, <2>2, <2>5
<1>3. ASSUME WriteSkill(w) PROVE TypeOK'
  <2>1. Commits(w)
    BY <1>3 DEF WriteSkill, Commits
  <2>2. QED
    BY <1>3, <1>c, <2>1 DEF WriteSkill
<1>4. ASSUME WriteViolatesKey(w) PROVE TypeOK'
  BY <1>4 DEF WriteViolatesKey
<1>5. ASSUME Finish(w) PROVE TypeOK'
  <2>1. Commits(w) /\ verdict' \in [Workers -> Final] /\ pc' = [pc EXCEPT ![w] = "report"]
    BY <1>5 DEF Finish, Commits, Final
  <2>2. QED
    BY <1>5, <1>c, <2>1 DEF Finish
<1>6. ASSUME Fail(w) PROVE TypeOK'
  <2>1. Commits(w) /\ verdict' \in [Workers -> Final]
    BY <1>6 DEF Fail, Commits, Final
  <2>2. QED
    BY <1>6, <1>c, <2>1 DEF Fail
<1>7. ASSUME FailRaises(w) \/ Report(w) \/ ReportFails(w) PROVE TypeOK'
  <2>1. cache' \in [Jobs -> {"none"} \cup Final]
    BY <1>7, CopyFacts DEF FailRaises, Report, ReportFails
  <2>2. pc' = [pc EXCEPT ![w] = "maint"] /\ cur' = [cur EXCEPT ![w] = NoJob]
        /\ faults' \in 0..MaxFaults
    BY <1>7 DEF FailRaises, Report, ReportFails, AFault, Leave
  <2>3. QED
    BY <1>7, <2>1, <2>2 DEF FailRaises, Report, ReportFails
<1>8. ASSUME DbError(w) PROVE TypeOK'
  <2>1. faults' \in 0..MaxFaults
    BY <1>8 DEF DbError, AFault
  <2>2. PICK refuses \in BOOLEAN : Raises(w, refuses)
    BY <1>8 DEF DbError
  <2>3. QED
    BY <1>8, <2>1, <2>2, TypeRaises DEF DbError
<1>9. ASSUME AckLost(w) PROVE TypeOK'
  <2>1. faults' \in 0..MaxFaults
    BY <1>9 DEF AckLost, AFault
  <2>2. Commits(w) /\ Raises(w, TRUE)
    BY <1>9, Zenon DEF AckLost, Commits
  <2>3. QED
    BY <1>9, <1>c, <2>1, <2>2, TypeRaises DEF AckLost
<1>10. TypeOK'
  BY <1>2, <1>3, <1>4, <1>5, <1>6, <1>7, <1>8, <1>9 DEF Handle
<1>11. QED
  BY <1>0, <1>1, <1>10

(***************************************************************************)
(* The handlers keep the invariant.                                        *)
(***************************************************************************)

\* The facts every handler step starts from.
LEMMA HandlerFacts ==
  ASSUME JobInv, NEW w \in Workers,
         Handle(w) \/ ReportFails(w) \/ DbError(w) \/ AckLost(w)
  PROVE  /\ TypeOK' /\ TypeOK /\ faults \in Nat
         /\ cur[w] \in Copies /\ cur[w] # NoJob /\ JobOf(cur[w]) \in Jobs
         /\ CopyInHand(w) /\ RowInHand(w)
<1>1. TypeOK /\ TypeOK' /\ cur[w] \in Copies
  BY TypeHandler DEF JobInv
<1>2. cur[w] # NoJob /\ JobOf(cur[w]) \in Jobs /\ CopyInHand(w) /\ RowInHand(w)
  BY <1>1, CopyFacts, JobConstants DEF JobInv, HandlersInOrder
<1>3. faults \in Nat
  BY <1>1, JobConstants DEF TypeOK
<1>4. QED
  BY <1>1, <1>2, <1>3

\* A commit writes what it may, and the last ones all there is to write.
LEMMA CommitWrote ==
  ASSUME JobInv, NEW w \in Workers, NEW c \in Copies, c = cur[w], CopyInHand(w), Commits(w)
  PROVE  /\ Wrote(c)
         /\ pc[w] \in {"write", "finish"} => BackedBy(c)'
         /\ pc[w] \in {"step", "fail"} => UNCHANGED <<skills, events>>
<1> DEFINE j == JobOf(c)
<1>0. TypeOK /\ j \in Jobs /\ skills \in [Copies -> Nat] /\ events \in [Copies -> Nat]
  BY CopyFacts DEF JobInv, TypeOK
<1>1. /\ \A i \in Jobs \ {j} : row'[i] = row[i]
      /\ row[j].status = "absent" => row'[j] = row[j]
      /\ pc[w] = "step" => row'[j].status \in {"absent", "running"}
      /\ pc[w] = "write" => row' = row
      /\ pc[w] = "finish" => row'[j].status \in {"absent", "complete"}
      /\ pc[w] = "fail" => row'[j].status \in {"absent", "failed"}
  BY <1>0, CommitFacts
<1>2. ResultsOf(c)
  BY DEF JobInv, Results, ResultsOf
<1>3. CASE pc[w] \in {"step", "fail"}
  <2>1. UNCHANGED <<skills, events>>
    BY <1>3 DEF Commits, ProgressCommit, FailedCommit, resultVars
  <2>2. ResultsOf(c)' /\ (BackedBy(c) => BackedBy(c)')
    BY <1>2, <2>1 DEF ResultsOf, BackedBy
  <2>3. QED
    BY <1>1, <1>3, <2>1, <2>2 DEF Wrote
<1>4. CASE pc[w] = "write"
  <2>1. /\ skills' = [skills EXCEPT ![c] = @ + 1]
        /\ events' = [events EXCEPT ![c] = @ + EventsOf(j)]
    BY <1>4 DEF Commits, SkillCommit
  <2>2. skills[c] = 0 /\ events[c] = 0 /\ j \notin Batches
    BY <1>4 DEF CopyInHand, Untouched
  <2>3. /\ skills'[c] = 1 /\ events'[c] = EventsOf(j)
        /\ \A d \in Copies \ {c} : skills'[d] = skills[d] /\ events'[d] = events[d]
    BY <1>0, <2>1, <2>2 DEF EventsOf
  <2>4. ResultsOf(c)' /\ BackedBy(c)'
    BY <2>2, <2>3 DEF ResultsOf, BackedBy, EventsOf
  <2>5. QED
    BY <1>1, <1>4, <2>3, <2>4 DEF Wrote
<1>5. CASE pc[w] = "finish"
  <2>1. /\ UNCHANGED skills
        /\ events' = [events EXCEPT ![c] = IF j \in Batches THEN @ + EventsOf(j) ELSE @]
    BY <1>5 DEF Commits, CompleteCommit
  <2>2. IF j \in Batches THEN events[c] = 0 ELSE BackedBy(c)
    BY <1>5 DEF CopyInHand
  <2>3. /\ events'[c] = IF j \in Batches THEN EventsOf(j) ELSE events[c]
        /\ \A d \in Copies \ {c} : events'[d] = events[d]
    BY <1>0, <2>1, <2>2 DEF EventsOf
  <2>4. ResultsOf(c)' /\ BackedBy(c)'
    BY <1>2, <2>1, <2>2, <2>3 DEF ResultsOf, BackedBy, EventsOf
  <2>5. QED
    BY <1>1, <1>5, <2>1, <2>3, <2>4 DEF Wrote
<1>6. QED
  BY <1>3, <1>4, <1>5 DEF Commits

LEMMA ProgressInv ==
  ASSUME JobInv, NEW w \in Workers, Progress(w)
  PROVE  JobInv'
<1>0. PICK c, j : c = cur[w] /\ j = JobOf(c)
  OBVIOUS
<1>1. /\ TypeOK' /\ TypeOK /\ faults \in Nat /\ c \in Copies /\ j \in Jobs
      /\ CopyInHand(w) /\ RowInHand(w)
  BY <1>0, HandlerFacts DEF Handle
<1>2. pc[w] = "step" /\ Commits(w)
  BY DEF Progress, Commits
<1>3. /\ Wrote(c) /\ UNCHANGED <<skills, events>>
      /\ row'[j].status \in {"absent", "running"}
  BY <1>0, <1>1, <1>2, CommitWrote, CommitFacts
<1>4. /\ pc' = [pc EXCEPT ![w] = AfterStep(j, step[w] + 1)]
      /\ UNCHANGED <<api, pushed, queue, cache, cur, poisoned, verdict, faults>>
  BY <1>0 DEF Progress, apiVars, redisVars
<1>5. /\ pc'[w] \in {"step", "write", "finish"}
      /\ pc'[w] = "write" => j \notin Batches
      /\ pc'[w] = "finish" => j \in Batches
      /\ \A v \in Workers \ {w} : pc'[v] = pc[v]
  BY <1>1, <1>4 DEF TypeOK, AfterStep
<1>6. Untouched(c)'
  BY <1>0, <1>1, <1>2, <1>3 DEF CopyInHand, Untouched
<1>7. CopyInHand(w)'
  BY <1>0, <1>4, <1>5, <1>6 DEF CopyInHand, Untouched
<1>8. RowInHand(w)'
  BY <1>0, <1>1, <1>3, <1>4, <1>5 DEF RowInHand, Single, Final
<1>9. cache[j] # "none" => ~Single(j)
  BY <1>0, <1>1 DEF RowInHand
<1>10. QED
  BY <1>0, <1>1, <1>3, <1>4, <1>5, <1>7, <1>8, <1>9, JobConstants, HandlerStep DEF BusyAt

LEMMA WriteInv ==
  ASSUME JobInv, NEW w \in Workers, WriteSkill(w)
  PROVE  JobInv'
<1>0. PICK c, j : c = cur[w] /\ j = JobOf(c)
  OBVIOUS
<1>1. /\ TypeOK' /\ TypeOK /\ faults \in Nat /\ c \in Copies /\ j \in Jobs
      /\ CopyInHand(w) /\ RowInHand(w)
  BY <1>0, HandlerFacts DEF Handle
<1>2. pc[w] = "write" /\ Commits(w)
  BY DEF WriteSkill, Commits
<1>3. Wrote(c) /\ BackedBy(c)' /\ row' = row /\ j \notin Batches
  BY <1>0, <1>1, <1>2, CommitWrote, CommitFacts DEF CopyInHand
<1>4. /\ pc' = [pc EXCEPT ![w] = "finish"]
      /\ UNCHANGED <<api, pushed, queue, cache, cur, poisoned, verdict, faults>>
  BY DEF WriteSkill, apiVars, redisVars
<1>5. pc'[w] = "finish" /\ \A v \in Workers \ {w} : pc'[v] = pc[v]
  BY <1>1, <1>4 DEF TypeOK
<1>6. CopyInHand(w)'
  BY <1>0, <1>3, <1>4, <1>5 DEF CopyInHand
<1>7. RowInHand(w)'
  BY <1>0, <1>1, <1>2, <1>3, <1>4, <1>5 DEF RowInHand, Single
<1>8. cache[j] # "none" => ~Single(j)
  BY <1>0, <1>1 DEF RowInHand
<1>9. QED
  BY <1>0, <1>1, <1>3, <1>4, <1>5, <1>6, <1>7, <1>8, JobConstants, HandlerStep DEF BusyAt

LEMMA WriteViolatesInv ==
  ASSUME JobInv, NEW w \in Workers, WriteViolatesKey(w)
  PROVE  JobInv'
<1>0. PICK c, j : c = cur[w] /\ j = JobOf(c)
  OBVIOUS
<1>1. /\ TypeOK' /\ TypeOK /\ faults \in Nat /\ c \in Copies /\ j \in Jobs
      /\ CopyInHand(w) /\ RowInHand(w)
  BY <1>0, HandlerFacts DEF Handle
<1>2. /\ pc[w] = "write" /\ j \in Orphaned /\ j \notin Batches
      /\ pc' = [pc EXCEPT ![w] = "fail"] /\ poisoned' = [poisoned EXCEPT ![w] = TRUE]
      /\ UNCHANGED <<api, pushed, row, queue, cache, cur, verdict, skills, events, faults>>
  BY <1>0, JobConstants DEF WriteViolatesKey, apiVars, redisVars, resultVars
<1>3. Wrote(c)
  BY <1>1, <1>2, WroteNothing
<1>4. /\ pc'[w] = "fail"
      /\ \A v \in Workers \ {w} : pc'[v] = pc[v] /\ poisoned'[v] = poisoned[v]
  BY <1>1, <1>2 DEF TypeOK
<1>5. CopyInHand(w)'
  BY <1>0, <1>2, <1>4 DEF CopyInHand
<1>6. RowInHand(w)'
  BY <1>0, <1>1, <1>2, <1>4 DEF RowInHand, Single
<1>7. cache[j] # "none" => ~Single(j)
  BY <1>0, <1>1 DEF RowInHand
<1>8. UNCHANGED <<api, pushed, queue, cache, cur, verdict, faults>> /\ cur[w] = c /\ c # NoJob
  BY <1>0, <1>1, <1>2, JobConstants
<1>9. pc'[w] \in BusyAt
  BY <1>4 DEF BusyAt
<1>10. QED
  BY <1>0, <1>1, <1>3, <1>4, <1>5, <1>6, <1>7, <1>8, <1>9, HandlerStep

LEMMA FinishInv ==
  ASSUME JobInv, NEW w \in Workers, Finish(w)
  PROVE  JobInv'
<1>0. PICK c, j : c = cur[w] /\ j = JobOf(c)
  OBVIOUS
<1>1. /\ TypeOK' /\ TypeOK /\ faults \in Nat /\ c \in Copies /\ j \in Jobs
      /\ CopyInHand(w) /\ RowInHand(w)
  BY <1>0, HandlerFacts DEF Handle
<1>2. pc[w] = "finish" /\ Commits(w)
  BY DEF Finish, Commits
<1>3. Wrote(c) /\ BackedBy(c)' /\ row'[j].status \in {"absent", "complete"}
  BY <1>0, <1>1, <1>2, CommitWrote, CommitFacts
<1>4. /\ pc' = [pc EXCEPT ![w] = "report"] /\ verdict' = [verdict EXCEPT ![w] = "complete"]
      /\ UNCHANGED <<api, pushed, queue, cache, cur, poisoned, faults>>
  BY DEF Finish, apiVars, redisVars
<1>5. /\ pc'[w] = "report" /\ verdict'[w] = "complete"
      /\ \A v \in Workers \ {w} : pc'[v] = pc[v] /\ verdict'[v] = verdict[v]
  BY <1>1, <1>4 DEF TypeOK
<1>6. CopyInHand(w)'
  BY <1>0, <1>3, <1>4, <1>5 DEF CopyInHand
<1>7. RowInHand(w)'
  BY <1>0, <1>1, <1>3, <1>4, <1>5 DEF RowInHand, Single, Final
<1>8. cache[j] # "none" => ~Single(j)
  BY <1>0, <1>1 DEF RowInHand
<1>9. QED
  BY <1>0, <1>1, <1>3, <1>4, <1>5, <1>6, <1>7, <1>8, JobConstants, HandlerStep DEF BusyAt

LEMMA FailInv ==
  ASSUME JobInv, NEW w \in Workers, Fail(w)
  PROVE  JobInv'
<1>0. PICK c, j : c = cur[w] /\ j = JobOf(c)
  OBVIOUS
<1>1. /\ TypeOK' /\ TypeOK /\ faults \in Nat /\ c \in Copies /\ j \in Jobs
      /\ CopyInHand(w) /\ RowInHand(w)
  BY <1>0, HandlerFacts DEF Handle
<1>2. pc[w] = "fail" /\ Commits(w)
  BY DEF Fail, Commits
<1>3. Wrote(c) /\ row'[j].status \in {"absent", "failed"}
  BY <1>0, <1>1, <1>2, CommitWrote, CommitFacts
<1>4. /\ pc' = [pc EXCEPT ![w] = "report"] /\ verdict' = [verdict EXCEPT ![w] = "failed"]
      /\ UNCHANGED <<api, pushed, queue, cache, cur, poisoned, faults>>
  BY DEF Fail, apiVars, redisVars
<1>5. /\ pc'[w] = "report" /\ verdict'[w] = "failed"
      /\ \A v \in Workers \ {w} : pc'[v] = pc[v] /\ verdict'[v] = verdict[v]
  BY <1>1, <1>4 DEF TypeOK
<1>6. CopyInHand(w)'
  BY <1>0, <1>1, <1>2, <1>4, <1>5 DEF CopyInHand
<1>7. RowInHand(w)'
  BY <1>0, <1>1, <1>3, <1>4, <1>5 DEF RowInHand, Single, Final
<1>8. cache[j] # "none" => ~Single(j)
  BY <1>0, <1>1 DEF RowInHand
<1>9. QED
  BY <1>0, <1>1, <1>3, <1>4, <1>5, <1>6, <1>7, <1>8, JobConstants, HandlerStep DEF BusyAt

\* The handler is left with its outcome reported, unreported or unreached.
LEMMA LeaveInv ==
  ASSUME JobInv, NEW w \in Workers, FailRaises(w) \/ Report(w) \/ ReportFails(w)
  PROVE  JobInv'
<1>0. PICK c, j : c = cur[w] /\ j = JobOf(c)
  OBVIOUS
<1>1. /\ TypeOK' /\ TypeOK /\ faults \in Nat /\ c \in Copies /\ j \in Jobs
      /\ CopyInHand(w) /\ RowInHand(w)
  BY <1>0, HandlerFacts DEF Handle
<1>2. /\ pc[w] \in {"fail", "report"} /\ (Report(w) => pc[w] = "report")
      /\ pc' = [pc EXCEPT ![w] = "maint"] /\ cur' = [cur EXCEPT ![w] = NoJob]
      /\ UNCHANGED <<api, pushed, row, queue, poisoned, verdict, skills, events>>
  BY DEF FailRaises, Report, ReportFails, Leave, apiVars, redisVars, resultVars
<1>3. Wrote(c)
  BY <1>1, <1>2, WroteNothing
<1>4. /\ \A i \in Jobs \ {j} : cache'[i] = cache[i]
      /\ cache'[j] = cache[j] \/ (Report(w) /\ cache'[j] = verdict[w])
  BY <1>0, <1>1 DEF FailRaises, Report, ReportFails, redisVars, TypeOK
<1>5. /\ pc'[w] = "maint" /\ cur'[w] = NoJob
      /\ \A v \in Workers \ {w} : pc'[v] = pc[v] /\ cur'[v] = cur[v]
  BY <1>1, <1>2 DEF TypeOK
<1>6. faults <= faults' /\ (faults > 0 => faults' > 0)
  BY <1>1 DEF FailRaises, Report, ReportFails, AFault
<1>7. BackedBy(c)' = BackedBy(c)
  BY <1>2 DEF BackedBy
<1>8. pc[w] = "report" /\ verdict[w] = "complete" => BackedBy(c)'
  BY <1>0, <1>1, <1>7 DEF CopyInHand
<1>9. faults' > 0 \/ j \in Orphaned \/ BackedBy(c)'
  BY <1>0, <1>1, <1>2, <1>6, <1>8 DEF CopyInHand
<1>10. cache'[j] # "none" /\ Single(j) => row'[j].status \in {cache'[j], "absent", "queued"}
  <2> SUFFICES ASSUME cache'[j] # "none", Single(j)
               PROVE  row[j].status \in {cache'[j], "absent", "queued"}
    BY <1>2
  <2>1. cache[j] = "none"
    BY <1>0, <1>1 DEF RowInHand
  <2>2. pc[w] = "report" /\ cache'[j] = verdict[w]
    BY <1>2, <1>4, <2>1
  <2>3. row[j] \in RowStates /\ row[j].status # "running"
    BY <1>0, <1>1, <2>2 DEF RowInHand, TypeOK
  <2>4. row[j].status \in Final => row[j].status = verdict[w]
    BY <1>0, <1>1, <2>2 DEF RowInHand
  <2>5. QED
    BY <2>2, <2>3, <2>4 DEF RowStates
<1>11. cache'[j] # cache[j] => (cache'[j] = "complete" => BackedBy(c)')
  BY <1>2, <1>4, <1>8
<1>12. QED
  BY <1>0, <1>1, <1>2, <1>3, <1>4, <1>5, <1>6, <1>9, <1>10, <1>11, JobConstants, HandlerStep
     DEF BusyAt

\* A statement or commit raises, by a fault; whatever it has written, the row
\* it leaves final is in the care of a session that refuses.
LEMMA RaisesInv ==
  ASSUME JobInv, NEW w \in Workers, DbError(w) \/ AckLost(w),
         NEW refuses \in BOOLEAN, Raises(w, refuses),
         NEW c \in Copies, c = cur[w], Wrote(c), refuses \/ row' = row
  PROVE  JobInv'
<1>0. PICK j : j = JobOf(c)
  OBVIOUS
<1>1. /\ TypeOK' /\ TypeOK /\ faults \in Nat /\ c \in Copies /\ j \in Jobs
      /\ CopyInHand(w) /\ RowInHand(w)
  BY <1>0, HandlerFacts
<1>2. /\ pc[w] \in {"step", "write", "finish", "fail"}
      /\ faults' = faults + 1
      /\ UNCHANGED <<api, pushed, queue, cache, verdict>>
  BY DEF DbError, AckLost, AFault, apiVars, redisVars
<1>3. /\ \A v \in Workers \ {w} :
           pc'[v] = pc[v] /\ cur'[v] = cur[v] /\ poisoned'[v] = poisoned[v]
      /\ \/ pc'[w] = "maint" /\ cur'[w] = NoJob
         \/ /\ pc'[w] = "fail" /\ cur'[w] = c /\ j \notin Batches /\ pc[w] # "fail"
            /\ poisoned'[w] = refuses
  BY <1>0, <1>1 DEF Raises, Leave, TypeOK
<1>4. CopyInHand(w)' \/ cur'[w] = NoJob
  BY <1>0, <1>1, <1>2, <1>3 DEF CopyInHand
<1>5. cache[j] # "none" => ~Single(j)
  BY <1>0, <1>1 DEF RowInHand
<1>6. RowInHand(w)' \/ cur'[w] = NoJob
  <2> SUFFICES ASSUME pc'[w] = "fail", cur'[w] = c, pc[w] # "fail", poisoned'[w] = refuses
               PROVE  RowInHand(w)'
    BY <1>3
  <2>1. Single(j) /\ row'[j].status \in Final => refuses
    BY <1>0, <1>1, <1>2 DEF RowInHand
  <2>2. QED
    BY <1>0, <1>2, <1>5, <2>1 DEF RowInHand, Single
<1>7. QED
  BY <1>0, <1>1, <1>2, <1>3, <1>4, <1>5, <1>6, JobConstants, HandlerStep DEF BusyAt

LEMMA ErrorInv ==
  ASSUME JobInv, NEW w \in Workers, DbError(w) \/ AckLost(w)
  PROVE  JobInv'
<1>0. PICK c : c = cur[w]
  OBVIOUS
<1>1. c \in Copies /\ CopyInHand(w)
  BY <1>0, HandlerFacts
<1>2. CASE DbError(w)
  <2>1. PICK refuses \in BOOLEAN : Raises(w, refuses)
    BY <1>2 DEF DbError
  <2>2. UNCHANGED <<row, skills, events>>
    BY <1>2 DEF DbError, resultVars
  <2>3. Wrote(c)
    BY <1>1, <2>2, WroteNothing
  <2>4. QED
    BY <1>0, <1>1, <1>2, <2>1, <2>2, <2>3, RaisesInv
<1>3. CASE AckLost(w)
  <2>1. Commits(w) /\ Raises(w, TRUE)
    BY <1>3, Zenon DEF AckLost, Commits
  <2>2. Wrote(c)
    BY <1>0, <1>1, <2>1, CommitWrote
  <2>3. QED
    BY <1>0, <1>1, <1>3, <2>1, <2>2, RaisesInv
<1>4. QED
  BY <1>2, <1>3

(***************************************************************************)
(* The loop, the requests, Redis and the clock keep the invariant.         *)
(***************************************************************************)

\* Results that do not change back what they backed.
LEMMA SameResults ==
  ASSUME UNCHANGED <<skills, events>>
  PROVE  /\ \A c : BackedBy(c)' = BackedBy(c) /\ Untouched(c)' = Untouched(c)
         /\ \A j : Backed(j)' = Backed(j)
BY DEF BackedBy, Untouched, Backed

\* Steps that give no job to a worker and push none: rows may be purged, cached
\* outcomes forgotten, queue entries lost (by a fault), requests begun or failed.
LEMMA Frame ==
  ASSUME JobInv, TypeOK', faults <= faults',
         UNCHANGED <<pushed, cur, verdict, poisoned, skills, events>>,
         \A w \in Workers : cur[w] # NoJob => pc'[w] = pc[w],
         \A w \in Workers : cur[w] = NoJob => pc'[w] \notin BusyAt,
         \A j \in Jobs : row'[j] = row[j] \/ row'[j].status = "absent",
         \A j \in Jobs : cache'[j] = cache[j] \/ cache'[j] = "none",
         Distinct', \A c \in Copies : Queued(c)' => Queued(c),
         faults' = 0 => \A c \in Copies : Queued(c) => Queued(c)',
         \A j \in Jobs :
           /\ api'[j] \in {"idle", "inserted"} => api[j] \in {"idle", "inserted"}
           /\ api[j] = "accepted" => api'[j] = "accepted"
           /\ faults' = 0 /\ api'[j] \in {"pushed", "accepted"} =>
                api[j] \in {"pushed", "accepted"}
  PROVE  JobInv'
<1> USE DEF JobInv
<1>1. \A c \in Copies : Held(c)' = Held(c) /\ Exists(c)' = Exists(c)
  BY DEF Held, Exists
<1>2. CurMatches'
  BY DEF CurMatches
<1>3. OneOwner'
  <2>1. \A a, b \in 1..Len(queue') : queue'[a] = queue'[b] => a = b
    BY DEF Distinct
  <2>2. \A u, v \in Workers : cur'[u] = cur'[v] /\ cur'[u] # NoJob => u = v
    BY DEF OneOwner
  <2>3. \A c \in Copies : Held(c)' => ~Queued(c)'
    BY <1>1 DEF OneOwner
  <2>4. QED
    BY <2>1, <2>2, <2>3 DEF OneOwner
<1>4. SubmitOrder'
  BY <1>1 DEF SubmitOrder
<1>5. FreshUntouched'
  <2>1. \A j \in Jobs : Queued(<<j, 1>>)' => Queued(<<j, 1>>)
    BY CopyFacts
  <2>2. QED
    BY <1>1, <2>1, SameResults DEF FreshUntouched, Single
<1>6. Results'
  BY DEF Results
<1>7. HandlersInOrder'
  <2> SUFFICES ASSUME NEW w \in Workers, cur[w] # NoJob
               PROVE  CopyInHand(w)' /\ RowInHand(w)'
    BY DEF HandlersInOrder
  <2>0. PICK c, j : c = cur[w] /\ j = JobOf(c)
    OBVIOUS
  <2>1. c \in Copies /\ j \in Jobs /\ CopyInHand(w) /\ RowInHand(w) /\ pc'[w] = pc[w]
    BY <2>0, CopyFacts DEF TypeOK, HandlersInOrder
  <2>2. faults > 0 => faults' > 0
    BY DEF TypeOK
  <2>3. CopyInHand(w)'
    BY <2>0, <2>1, <2>2, SameResults DEF CopyInHand
  <2>4. row'[j] = row[j] \/ row'[j].status = "absent"
    BY <2>1
  <2>5. cache[j] = "none" => cache'[j] = "none"
    BY <2>1
  <2>6. RowInHand(w)'
    BY <2>0, <2>1, <2>4, <2>5 DEF RowInHand, Single, Final
  <2>7. QED
    BY <2>3, <2>6
<1>8. CompleteIsBacked'
  BY SameResults DEF CompleteIsBacked
<1>9. CacheAgrees'
  BY DEF CacheAgrees, Single
<1>10. NoJobVanishes'
  <2>1. faults' = 0 => faults = 0
    BY JobConstants DEF TypeOK
  <2>2. \A j \in Jobs : <<j, 1>> \in Copies
    BY CopyFacts
  <2>3. QED
    BY <1>1, <2>1, <2>2, SameResults DEF NoJobVanishes
<1>11. QED
  BY <1>2, <1>3, <1>4, <1>5, <1>6, <1>7, <1>8, <1>9, <1>10

LEMMA LoopInv ==
  ASSUME JobInv, NEW w \in Workers,
         Start(w) \/ LoopTop(w) \/ PopNothing(w) \/ Maintain(w) \/ Signal(w)
  PROVE  JobInv'
<1> USE DEF apiVars, redisVars, workVars, resultVars
<1>1. TypeOK' /\ pc \in [Workers -> Places] /\ faults \in Nat
  <2>1. TypeOK
    BY DEF JobInv
  <2>2. TypeOK'
    BY <2>1, TypeLoop DEF Loop
  <2>3. QED
    BY <2>1, <2>2, JobConstants DEF TypeOK
<1>2. UNCHANGED <<api, pushed, queue, cache, cur, verdict, poisoned, skills, events, faults>>
  BY DEF Start, LoopTop, PopNothing, Maintain, Signal
<1>3. pc' = pc \/ (/\ pc[w] \notin BusyAt
                   /\ \E p \in Places \ BusyAt : pc' = [pc EXCEPT ![w] = p])
  BY DEF Start, LoopTop, PopNothing, Maintain, Signal, BusyAt, Places
<1>4. \A v \in Workers : cur[v] # NoJob <=> pc[v] \in BusyAt
  BY DEF JobInv, CurMatches
<1>5. \A v \in Workers : /\ cur[v] # NoJob => pc'[v] = pc[v]
                         /\ cur[v] = NoJob => pc'[v] \notin BusyAt
  BY <1>1, <1>3, <1>4
<1>6. \A j \in Jobs : row'[j] = row[j] \/ row'[j].status = "absent"
  BY DEF Start, LoopTop, PopNothing, Maintain, Signal, NoRow
<1>7. Distinct' /\ \A c \in Copies : Queued(c)' = Queued(c)
  BY <1>2, QueueFrame DEF JobInv, OneOwner, Distinct
<1>8. QED
  BY <1>1, <1>2, <1>5, <1>6, <1>7, Frame

LEMMA RedisInv ==
  ASSUME JobInv, LoseQueue \/
         \E w \in Workers : PopFails(w) \/ MaintainFails(w) \/ MaintainRecovers(w)
  PROVE  JobInv'
<1> USE DEF apiVars, redisVars, workVars, resultVars
<1>1. TypeOK' /\ pc \in [Workers -> Places] /\ faults \in Nat
  <2>0. pc \in [Workers -> Places] /\ faults \in Nat /\ TypeOK
    BY JobConstants DEF JobInv, TypeOK
  <2>1. CASE \E w \in Workers : PopFails(w) \/ MaintainFails(w) \/ MaintainRecovers(w)
    BY <2>0, <2>1, TypeLoop
  <2>2. CASE LoseQueue
    BY <2>0, <2>2, JobConstants DEF TypeOK, LoseQueue, AFault
  <2>3. QED
    BY <2>0, <2>1, <2>2
<1>2. UNCHANGED <<api, pushed, row, cache, cur, verdict, poisoned, skills, events>>
  BY DEF PopFails, MaintainFails, MaintainRecovers, LoseQueue
<1>3. faults <= faults' /\ faults' # 0
  BY <1>1 DEF PopFails, MaintainFails, MaintainRecovers, LoseQueue, AFault
<1>4. pc' = pc \/ \E w \in Workers : /\ pc[w] \notin BusyAt
                                     /\ \E p \in {"maint", "top"} : pc' = [pc EXCEPT ![w] = p]
  BY DEF PopFails, MaintainFails, MaintainRecovers, LoseQueue, BusyAt
<1>5. \A v \in Workers : cur[v] # NoJob <=> pc[v] \in BusyAt
  BY DEF JobInv, CurMatches
<1>6. \A v \in Workers : /\ cur[v] # NoJob => pc'[v] = pc[v]
                         /\ cur[v] = NoJob => pc'[v] \notin BusyAt
  BY <1>1, <1>4, <1>5 DEF BusyAt
<1>7. queue' = queue \/ queue' = <<>> \/ (queue # <<>> /\ queue' = Tail(queue))
  BY DEF PopFails, MaintainFails, MaintainRecovers, LoseQueue
<1>8. Distinct /\ queue \in Seq(Copies)
  BY DEF JobInv, OneOwner, Distinct, TypeOK
<1>9. Distinct' /\ \A c \in Copies : Queued(c)' => Queued(c)
  <2>1. CASE queue' = queue \/ queue' = <<>>
    BY <2>1, <1>8, QueueFrame
  <2>2. CASE queue # <<>> /\ queue' = Tail(queue)
    <3>1. PICK h : h = Head(queue)
      OBVIOUS
    <3>2. QED
      BY <2>2, <3>1, <1>8, TailFacts
  <2>3. QED
    BY <1>7, <2>1, <2>2
<1>10. QED
  BY <1>1, <1>2, <1>3, <1>6, <1>9, Frame

LEMMA RequestInv ==
  ASSUME JobInv, NEW j \in Jobs,
         Insert(j) \/ EnqueueFails(j) \/ Reject(j) \/ Forget(j) \/ AgeOut(j)
  PROVE  JobInv'
<1> USE DEF apiVars, redisVars, workVars, resultVars
<1>0. TypeOK'
  BY TypeSubmit DEF JobInv, Submit
<1>1. TypeOK' /\ faults \in Nat /\ api \in [Jobs -> {"idle", "inserted", "pushed", "accepted", "rejected"}]
      /\ cache \in [Jobs -> {"none"} \cup Final]
  <2>1. faults \in 0..MaxFaults /\ api \in [Jobs -> {"idle", "inserted", "pushed", "accepted", "rejected"}]
        /\ cache \in [Jobs -> {"none"} \cup Final]
    BY DEF JobInv, TypeOK
  <2>2. QED
    BY <1>0, <2>1, JobConstants
<1>2. UNCHANGED <<pushed, row, queue, cur, pc, verdict, poisoned, skills, events>>
  BY DEF Insert, EnqueueFails, Reject, Forget, AgeOut
<1>3. faults <= faults'
  BY <1>1 DEF Insert, EnqueueFails, Reject, Forget, AgeOut, AFault
<1>4. \A i \in Jobs : cache'[i] = cache[i] \/ cache'[i] = "none"
  BY <1>1 DEF Insert, EnqueueFails, Reject, Forget, AgeOut
<1>5. \A i \in Jobs :
        /\ api'[i] \in {"idle", "inserted"} => api[i] \in {"idle", "inserted"}
        /\ api[i] = "accepted" => api'[i] = "accepted"
        /\ faults' = 0 /\ api'[i] \in {"pushed", "accepted"} =>
             api[i] \in {"pushed", "accepted"}
  BY <1>1 DEF Insert, EnqueueFails, Reject, Forget, AgeOut, AFault
<1>6. Distinct' /\ \A c \in Copies : Queued(c)' = Queued(c)
  BY <1>2, QueueFrame DEF JobInv, OneOwner, Distinct
<1>7. \A w \in Workers : cur[w] = NoJob => pc[w] \notin BusyAt
  BY DEF JobInv, CurMatches
<1>8. QED
  BY <1>1, <1>2, <1>3, <1>4, <1>5, <1>6, <1>7, Frame

LEMMA PopInv ==
  ASSUME JobInv, NEW w \in Workers, Pop(w)
  PROVE  JobInv'
<1> USE DEF redisVars, resultVars
<1>1. TypeOK' /\ TypeOK /\ pc \in [Workers -> Places] /\ cur \in [Workers -> Copies \cup {NoJob}]
      /\ queue \in Seq(Copies) /\ Distinct
  <2>1. TypeOK /\ Distinct
    BY DEF JobInv, OneOwner, Distinct
  <2>2. TypeOK'
    BY <2>1, TypeLoop DEF Loop
  <2>3. QED
    BY <2>1, <2>2 DEF TypeOK
<1>2. PICK h, j : h = Head(queue) /\ j = JobOf(h)
  OBVIOUS
<1>3. /\ pc[w] = "pop" /\ queue # <<>> /\ queue' = Tail(queue)
      /\ pc' = [pc EXCEPT ![w] = "step"] /\ cur' = [cur EXCEPT ![w] = h]
      /\ poisoned' = [poisoned EXCEPT ![w] = FALSE]
      /\ UNCHANGED <<api, pushed, row, cache, verdict, skills, events, faults>>
  BY <1>2 DEF Pop, Take, Remaining, apiVars
<1>4. /\ h \in Copies /\ j \in Jobs /\ Queued(h) /\ ~Queued(h)'
      /\ \A c \in Copies \ {h} : Queued(c)' = Queued(c)
      /\ Distinct'
  BY <1>1, <1>2, <1>3, TailFacts, CopyFacts
<1>5. cur[w] = NoJob /\ h # NoJob
  BY <1>3, <1>4, JobConstants DEF JobInv, CurMatches, BusyAt
<1>6. ~Held(h) /\ Held(h)' /\ \A c \in Copies \ {h} : Held(c)' = Held(c)
  BY <1>1, <1>3, <1>4, <1>5, JobConstants DEF JobInv, OneOwner, Held
<1>7. /\ \A c : BackedBy(c)' = BackedBy(c) /\ Untouched(c)' = Untouched(c)
      /\ \A i : Backed(i)' = Backed(i)
      /\ \A c : Exists(c)' = Exists(c)
      /\ \A i \in Jobs : <<i, 1>> \in Copies
  BY <1>3, SameResults, CopyFacts DEF Exists
<1>8. CurMatches'
  BY <1>1, <1>3, <1>4, <1>5 DEF JobInv, CurMatches, BusyAt
<1>9. OneOwner'
  <2>1. \A u, v \in Workers : cur'[u] = cur'[v] /\ cur'[u] # NoJob => u = v
    BY <1>1, <1>3, <1>6 DEF JobInv, OneOwner, Held
  <2>2. \A c \in Copies : Held(c)' => ~Queued(c)'
    BY <1>4, <1>6 DEF JobInv, OneOwner
  <2>3. QED
    BY <1>4, <2>1, <2>2 DEF OneOwner, Distinct
<1>10. SubmitOrder'
  BY <1>3, <1>4, <1>6, <1>7 DEF JobInv, SubmitOrder
<1>11. FreshUntouched'
  <2>1. \A c \in Copies : Queued(c)' => Queued(c)
    BY <1>4
  <2>2. \A i \in Jobs : Queued(<<i, 1>>)' => Queued(<<i, 1>>)
    BY <1>7, <2>1
  <2>3. QED
    BY <1>3, <1>7, <2>1, <2>2 DEF JobInv, FreshUntouched, Single
<1>12. Results' /\ CompleteIsBacked' /\ CacheAgrees'
  BY <1>3, <1>7 DEF JobInv, Results, CompleteIsBacked, CacheAgrees, Single
<1>13. HandlersInOrder'
  <2> SUFFICES ASSUME NEW v \in Workers, cur'[v] # NoJob
               PROVE  CopyInHand(v)' /\ RowInHand(v)'
    BY DEF HandlersInOrder
  <2>1. CASE v = w
    <3>1. pc'[v] = "step" /\ cur'[v] = h
      BY <2>1, <1>1, <1>3
    <3>2. Untouched(h)'
      BY <1>4, <1>7 DEF JobInv, FreshUntouched
    <3>3. CopyInHand(v)'
      BY <3>1, <3>2 DEF CopyInHand
    <3>4. Single(j) => cache[j] = "none" /\ row[j].status \notin Final
      <4> SUFFICES ASSUME Single(j)
                   PROVE  cache[j] = "none" /\ row[j].status \notin Final
        OBVIOUS
      <4>1. Exists(h)
        BY <1>4 DEF JobInv, SubmitOrder
      <4>2. pushed[j] \in 0..2 /\ h[2] \in {1, 2} /\ h[2] <= pushed[j] /\ pushed[j] < 2
        BY <1>1, <1>2, <1>4, <4>1, CopyFacts DEF Exists, Single, TypeOK
      <4>3. h = <<j, 1>>
        BY <1>2, <1>4, <4>2, FirstCopy
      <4>4. QED
        BY <1>4, <4>3 DEF JobInv, FreshUntouched, Final
    <3>5. RowInHand(v)'
      BY <1>2, <1>3, <3>1, <3>4 DEF RowInHand, Single
    <3>6. QED
      BY <3>3, <3>5
  <2>2. CASE v # w
    <3>1. cur'[v] = cur[v] /\ pc'[v] = pc[v] /\ verdict'[v] = verdict[v]
          /\ poisoned'[v] = poisoned[v]
          /\ CopyInHand(v) /\ RowInHand(v) /\ cur[v] \in Copies
      BY <2>2, <1>1, <1>3 DEF JobInv, HandlersInOrder, TypeOK
    <3>2. CopyInHand(v)'
      BY <3>1, <1>3, <1>7 DEF CopyInHand
    <3>3. RowInHand(v)'
      BY <3>1, <1>3 DEF RowInHand, Single
    <3>4. QED
      BY <3>2, <3>3
  <2>3. QED
    BY <2>1, <2>2
<1>14. NoJobVanishes'
  BY <1>3, <1>4, <1>6, <1>7 DEF JobInv, NoJobVanishes
<1>15. QED
  BY <1>1, <1>8, <1>9, <1>10, <1>11, <1>12, <1>13, <1>14 DEF JobInv

LEMMA CrashInv ==
  ASSUME JobInv, NEW w \in Workers, Crash(w)
  PROVE  JobInv'
<1> USE DEF redisVars, resultVars
<1>1. TypeOK' /\ TypeOK
  BY TypeLoop DEF JobInv
<1>2. /\ pc' = [pc EXCEPT ![w] = "down"] /\ cur' = [cur EXCEPT ![w] = NoJob]
      /\ UNCHANGED <<api, pushed, row, queue, cache, verdict, poisoned, skills, events>>
      /\ faults' # 0 /\ faults' > 0
  BY <1>1, JobConstants DEF Crash, AFault, TypeOK, apiVars
<1>3. \A v \in Workers \ {w} : cur'[v] = cur[v] /\ pc'[v] = pc[v]
  BY <1>1, <1>2 DEF TypeOK
<1>4. cur'[w] = NoJob /\ pc'[w] = "down"
  BY <1>1, <1>2 DEF TypeOK
<1>5. /\ \A c \in Copies : /\ Held(c)' => Held(c)
                           /\ Queued(c)' = Queued(c) /\ Exists(c)' = Exists(c)
      /\ \A i \in Jobs : Queued(<<i, 1>>)' = Queued(<<i, 1>>) /\ Single(i)' = Single(i)
  BY <1>2, <1>3, <1>4, QueueFrame, JobConstants DEF Held, Exists, Single
<1>6. CurMatches'
  BY <1>3, <1>4 DEF JobInv, CurMatches, BusyAt
<1>7. OneOwner'
  BY <1>2, <1>3, <1>4, <1>5 DEF JobInv, OneOwner
<1>8. SubmitOrder' /\ FreshUntouched' /\ Results' /\ CompleteIsBacked' /\ CacheAgrees'
  BY <1>2, <1>5, SameResults DEF JobInv, SubmitOrder, FreshUntouched, Results,
     CompleteIsBacked, CacheAgrees
<1>9. HandlersInOrder'
  <2> SUFFICES ASSUME NEW v \in Workers, cur'[v] # NoJob
               PROVE  CopyInHand(v)' /\ RowInHand(v)'
    BY DEF HandlersInOrder
  <2>1. /\ v # w /\ cur'[v] = cur[v] /\ pc'[v] = pc[v]
        /\ CopyInHand(v) /\ RowInHand(v) /\ cur[v] \in Copies
    BY <1>1, <1>3, <1>4 DEF JobInv, HandlersInOrder, TypeOK
  <2>2. CopyInHand(v)'
    BY <2>1, <1>2, SameResults DEF CopyInHand
  <2>3. RowInHand(v)'
    BY <2>1, <1>2 DEF RowInHand, Single
  <2>4. QED
    BY <2>2, <2>3
<1>10. NoJobVanishes'
  BY <1>2 DEF NoJobVanishes
<1>11. QED
  BY <1>1, <1>6, <1>7, <1>8, <1>9, <1>10 DEF JobInv

\* An LPUSH of copy c, the first or the second of job j.
Pushes(c, j) ==
  /\ c[2] = pushed[j] + 1
  /\ pushed' = [pushed EXCEPT ![j] = c[2]]
  /\ queue' = Append(queue, c)
  /\ \A i \in Jobs \ {j} : api'[i] = api[i]
  /\ api'[j] \notin {"idle", "inserted"} /\ (api'[j] = "accepted" <=> api[j] = "accepted")
  /\ faults <= faults' /\ (c[2] = 2 => faults' > 0)
  /\ UNCHANGED <<row, cache, cur, pc, verdict, poisoned, skills, events>>

LEMMA PushInv ==
  ASSUME JobInv, TypeOK', NEW c \in Copies, NEW j, j = JobOf(c), Pushes(c, j)
  PROVE  JobInv'
<1> USE DEF Pushes
<1>1. TypeOK /\ Distinct /\ j \in Jobs /\ pushed \in [Jobs -> 0..2] /\ c[2] \in {1, 2}
  BY CopyFacts DEF JobInv, OneOwner, Distinct, TypeOK
<1>2. pushed[j] < c[2] /\ pushed'[j] = c[2] /\ \A i \in Jobs \ {j} : pushed'[i] = pushed[i]
  BY <1>1
<1>3. ~Exists(c) /\ ~Queued(c) /\ ~Held(c) /\ Untouched(c)
  BY <1>1, <1>2 DEF JobInv, SubmitOrder, FreshUntouched, Exists
<1>4. /\ Queued(c)' /\ Distinct'
      /\ \A d \in Copies \ {c} : Queued(d)' = Queued(d)
  BY <1>1, <1>3, AppendFacts DEF TypeOK
<1>5. /\ \A d \in Copies : Held(d)' = Held(d)
      /\ \A i \in Jobs : Single(i)' => Single(i)
      /\ \A i \in Jobs \ {j} : Single(i)' = Single(i)
  BY <1>1, <1>2 DEF Held, Single
<1>6. \A d \in Copies \ {c} : Exists(d) => Exists(d)'
  BY <1>1, <1>2, CopyFacts DEF Exists
<1>7. Exists(c)'
  BY <1>1, <1>2 DEF Exists
<1>8. /\ \A d : BackedBy(d)' = BackedBy(d) /\ Untouched(d)' = Untouched(d)
      /\ \A i : Backed(i)' = Backed(i)
  BY SameResults
<1>9. CurMatches' /\ Results' /\ CompleteIsBacked'
  BY <1>8 DEF JobInv, CurMatches, Results, CompleteIsBacked
<1>10. CacheAgrees'
  BY <1>5 DEF JobInv, CacheAgrees
<1>11. OneOwner'
  <2>1. \A u, v \in Workers : cur'[u] = cur'[v] /\ cur'[u] # NoJob => u = v
    BY DEF JobInv, OneOwner
  <2>2. \A d \in Copies : Held(d)' => ~Queued(d)'
    BY <1>3, <1>4, <1>5 DEF JobInv, OneOwner
  <2>3. QED
    BY <1>4, <2>1, <2>2 DEF OneOwner, Distinct
<1>12. SubmitOrder'
  <2>1. ASSUME NEW i \in Jobs
        PROVE  /\ api'[i] \in {"idle", "inserted"} => pushed'[i] = 0
               /\ api'[i] # "accepted" => row'[i].status = "absent"
    BY <1>2 DEF JobInv, SubmitOrder
  <2>2. ASSUME NEW d \in Copies, ~Exists(d)' PROVE ~Queued(d)' /\ ~Held(d)'
    BY <2>2, <1>4, <1>5, <1>6, <1>7 DEF JobInv, SubmitOrder
  <2>3. QED
    BY <2>1, <2>2 DEF SubmitOrder
<1>13. FreshUntouched'
  <2>1. ASSUME NEW d \in Copies, ~Exists(d)' \/ Queued(d)' PROVE Untouched(d)'
    BY <2>1, <1>3, <1>4, <1>6, <1>8 DEF JobInv, FreshUntouched
  <2>2. ASSUME NEW i \in Jobs, pushed'[i] = 0 \/ (Single(i)' /\ Queued(<<i, 1>>)')
        PROVE  cache'[i] = "none" /\ row'[i].status \in {"absent", "queued"}
    <3>1. CASE i = j
      <4>1. pushed[j] = 0
        BY <1>1, <1>2, <2>2, <3>1 DEF Single
      <4>2. QED
        BY <3>1, <4>1 DEF JobInv, FreshUntouched
    <3>2. CASE i # j
      <4>1. <<i, 1>> \in Copies /\ JobOf(<<i, 1>>) = i
        BY CopyFacts
      <4>2. QED
        BY <1>2, <1>4, <1>5, <2>2, <3>2, <4>1 DEF JobInv, FreshUntouched
    <3>3. QED
      BY <3>1, <3>2
  <2>3. QED
    BY <2>1, <2>2 DEF FreshUntouched
<1>14. HandlersInOrder'
  <2> SUFFICES ASSUME NEW v \in Workers, cur[v] # NoJob
               PROVE  CopyInHand(v)' /\ RowInHand(v)'
    BY DEF HandlersInOrder
  <2>1. CopyInHand(v) /\ RowInHand(v) /\ JobOf(cur[v]) \in Jobs
    BY <1>1, CopyFacts DEF JobInv, HandlersInOrder, TypeOK
  <2>2. faults > 0 => faults' > 0
    BY <1>1 DEF TypeOK
  <2>3. CopyInHand(v)'
    BY <2>1, <2>2, <1>8 DEF CopyInHand
  <2>4. PICK i \in Jobs : i = JobOf(cur[v])
    BY <2>1
  <2>5. RowInHand(v)'
    BY <2>1, <2>4, <1>5 DEF RowInHand
  <2>6. QED
    BY <2>3, <2>5
<1>15. NoJobVanishes'
  <2> SUFFICES ASSUME faults' = 0, NEW i \in Jobs \ Orphaned,
                      api'[i] \in {"pushed", "accepted"}
               PROVE  Queued(<<i, 1>>)' \/ Held(<<i, 1>>)' \/ Backed(i)'
    BY DEF NoJobVanishes
  <2>1. faults = 0 /\ c[2] = 1
    BY <1>1, JobConstants DEF TypeOK
  <2>2. c = <<j, 1>>
    BY <2>1 DEF Copies, JobOf
  <2>3. CASE i = j
    BY <2>2, <2>3, <1>4
  <2>4. CASE i # j
    <3>1. <<i, 1>> \in Copies /\ JobOf(<<i, 1>>) = i
      BY CopyFacts
    <3>2. Queued(<<i, 1>>) \/ Held(<<i, 1>>) \/ Backed(i)
      BY <2>1, <2>4 DEF JobInv, NoJobVanishes
    <3>3. QED
      BY <2>4, <3>1, <3>2, <1>4, <1>5, <1>8
  <2>5. QED
    BY <2>3, <2>4
<1>16. QED
  BY <1>9, <1>10, <1>11, <1>12, <1>13, <1>14, <1>15 DEF JobInv

LEMMA EnqueueInv ==
  ASSUME JobInv, NEW j \in Jobs, Enqueue(j) \/ EnqueueAgain(j)
  PROVE  JobInv'
<1>1. TypeOK' /\ TypeOK
  BY TypeSubmit DEF JobInv, Submit
<1>2. CASE Enqueue(j)
  <2>0. PICK c : c = <<j, 1>>
    OBVIOUS
  <2>1. c \in Copies /\ j = JobOf(c) /\ c[2] = 1 /\ pushed[j] = 0 /\ faults \in Nat
    BY <1>1, <1>2, <2>0, CopyFacts, JobConstants DEF Enqueue, JobInv, SubmitOrder, TypeOK, JobOf
  <2>2. Pushes(c, j)
    BY <1>1, <1>2, <2>0, <2>1 DEF Enqueue, Pushes, TypeOK, workVars, resultVars
  <2>3. QED
    BY <1>1, <2>1, <2>2, PushInv
<1>3. CASE EnqueueAgain(j)
  <2>0. PICK c : c = <<j, 2>>
    OBVIOUS
  <2>1. c \in Copies /\ j = JobOf(c) /\ c[2] = 2 /\ pushed[j] = 1 /\ faults \in Nat
    BY <1>1, <1>3, <2>0, CopyFacts, JobConstants DEF EnqueueAgain, TypeOK, JobOf
  <2>2. api[j] \notin {"idle", "inserted"}
    BY <2>1 DEF JobInv, SubmitOrder
  <2>3. Pushes(c, j)
    BY <1>1, <1>3, <2>0, <2>1, <2>2 DEF EnqueueAgain, AFault, Pushes, workVars, resultVars
  <2>4. QED
    BY <1>1, <2>1, <2>3, PushInv
<1>4. QED
  BY <1>2, <1>3

LEMMA AcceptInv ==
  ASSUME JobInv, NEW j \in Jobs, Accept(j)
  PROVE  JobInv'
<1> USE DEF workVars, redisVars, resultVars
<1>1. TypeOK' /\ TypeOK
  BY TypeSubmit DEF JobInv, Submit
<1>2. /\ api[j] = "pushed" /\ api' = [api EXCEPT ![j] = "accepted"]
      /\ row' = [row EXCEPT ![j] = [status |-> "queued", step |-> 0]]
      /\ UNCHANGED <<pushed, queue, cache, cur, pc, verdict, poisoned, skills, events, faults>>
  BY DEF Accept
<1>3. row[j].status = "absent"
  BY <1>2 DEF JobInv, SubmitOrder
<1>4. /\ api'[j] = "accepted" /\ row'[j].status = "queued"
      /\ \A i \in Jobs \ {j} : api'[i] = api[i] /\ row'[i] = row[i]
  BY <1>1, <1>2 DEF TypeOK
<1>5. /\ \A c : /\ Held(c)' = Held(c) /\ BackedBy(c)' = BackedBy(c) /\ Exists(c)' = Exists(c)
                /\ Untouched(c)' = Untouched(c) /\ Queued(c)' = Queued(c)
      /\ \A i : Backed(i)' = Backed(i) /\ Single(i)' = Single(i)
  BY <1>2, QueueFrame, SameResults DEF Held, Single, Exists
<1>6. CurMatches' /\ Results' /\ CompleteIsBacked' /\ CacheAgrees'
  BY <1>2, <1>3, <1>4, <1>5 DEF JobInv, CurMatches, Results, CompleteIsBacked, CacheAgrees
<1>7. OneOwner'
  BY <1>2, <1>5 DEF JobInv, OneOwner
<1>8. SubmitOrder' /\ FreshUntouched'
  BY <1>2, <1>4, <1>5 DEF JobInv, SubmitOrder, FreshUntouched
<1>9. HandlersInOrder'
  <2> SUFFICES ASSUME NEW v \in Workers, cur[v] # NoJob
               PROVE  CopyInHand(v)' /\ RowInHand(v)'
    BY <1>2 DEF HandlersInOrder
  <2>1. CopyInHand(v) /\ RowInHand(v) /\ JobOf(cur[v]) \in Jobs
    BY <1>1, CopyFacts DEF JobInv, HandlersInOrder, TypeOK
  <2>2. CopyInHand(v)'
    BY <2>1, <1>2, <1>5 DEF CopyInHand
  <2>3. \A i \in Jobs : row'[i] = row[i] \/ row'[i].status = "queued"
    BY <1>4
  <2>4. RowInHand(v)'
    BY <2>1, <2>3, <1>2, <1>5 DEF RowInHand, Final
  <2>5. QED
    BY <2>2, <2>4
<1>10. NoJobVanishes'
  BY <1>2, <1>4, <1>5 DEF JobInv, NoJobVanishes
<1>11. QED
  BY <1>1, <1>6, <1>7, <1>8, <1>9, <1>10 DEF JobInv

(***************************************************************************)
(* The theorems.                                                           *)
(***************************************************************************)

\* Every step keeps the invariant.
LEMMA NextInv == JobInv /\ [Next]_vars => JobInv'
<1> SUFFICES ASSUME JobInv, [Next]_vars PROVE JobInv'
  OBVIOUS
<1>1. ASSUME NEW j \in Jobs, Submit(j) \/ Forget(j) \/ AgeOut(j) PROVE JobInv'
  BY <1>1, RequestInv, EnqueueInv, AcceptInv DEF Submit
<1>2. ASSUME LoseQueue PROVE JobInv'
  BY <1>2, RedisInv
<1>3. ASSUME NEW w \in Workers, Loop(w) \/ Signal(w) PROVE JobInv'
  BY <1>3, LoopInv, PopInv DEF Loop
<1>4. ASSUME NEW w \in Workers, Handle(w) PROVE JobInv'
  BY <1>4, ProgressInv, WriteInv, WriteViolatesInv, FinishInv, FailInv, LeaveInv
     DEF Handle
<1>5. ASSUME NEW w \in Workers, Upset(w) PROVE JobInv'
  BY <1>5, RedisInv, LeaveInv, ErrorInv, CrashInv DEF Upset
<1>6. CASE UNCHANGED vars
  <2>1. UNCHANGED <<api, pushed, row, old, queue, cache, pc, cur, step, poisoned, verdict,
                    running, skills, events, faults>>
    BY <1>6 DEF vars, apiVars
  <2>2. TypeOK' /\ Distinct' /\ \A c : Queued(c)' = Queued(c)
    BY <2>1, QueueFrame DEF JobInv, TypeOK, OneOwner, Distinct
  <2>3. faults <= faults' /\ \A w \in Workers : cur[w] = NoJob => pc'[w] \notin BusyAt
    BY <2>1, JobConstants DEF JobInv, TypeOK, CurMatches
  <2>4. QED
    BY <2>1, <2>2, <2>3, Frame
<1>7. QED
  BY <1>1, <1>2, <1>3, <1>4, <1>5, <1>6 DEF Next

\* The inductive invariant holds of every reachable state, whatever the
\* number of jobs, workers and faults.
THEOREM InvHolds == Spec => []JobInv
BY InitInv, NextInv, PTL DEF Spec

\* The type invariant, a part of the inductive one.
THEOREM TypeCorrect == Spec => []TypeOK
BY InvHolds, PTL DEF JobInv

\* A job writes its skill and schedules its webhook at most as often as it
\* was pushed: once, unless the client has repeated the LPUSH.
THEOREM AtMostOnce == Spec => []RunsOncePerPush
<1>1. JobInv => RunsOncePerPush
  <2> SUFFICES ASSUME JobInv, NEW j \in Jobs
               PROVE  /\ skills[<<j, 1>>] + skills[<<j, 2>>] <= pushed[j]
                      /\ events[<<j, 1>>] + events[<<j, 2>>] <= pushed[j]
    BY DEF RunsOncePerPush
  <2>1. pushed[j] \in 0..2
    BY DEF JobInv, TypeOK
  <2>2. PICK c, d : c = <<j, 1>> /\ d = <<j, 2>>
    OBVIOUS
  <2>3. /\ c \in Copies /\ c[2] = 1 /\ JobOf(c) = j
        /\ d \in Copies /\ d[2] = 2 /\ JobOf(d) = j
    BY <2>2, CopyFacts
  <2>4. skills[c] \in 0..1 /\ events[c] \in 0..1 /\ skills[d] \in 0..1 /\ events[d] \in 0..1
    BY <2>3 DEF JobInv, TypeOK, Results
  <2>5. /\ pushed[j] < 1 => skills[c] = 0 /\ events[c] = 0
        /\ pushed[j] < 2 => skills[d] = 0 /\ events[d] = 0
    BY <2>1, <2>3 DEF JobInv, FreshUntouched, Exists, Untouched
  <2>6. QED
    BY <2>1, <2>2, <2>4, <2>5
<1>2. QED
  BY <1>1, InvHolds, PTL

\* The skill of an extraction and its webhook are committed together.
THEOREM Atomicity == Spec => []SkillWithEvent
<1>1. JobInv => SkillWithEvent
  BY DEF JobInv, Results, SkillWithEvent
<1>2. QED
  BY <1>1, InvHolds, PTL

\* "complete" is announced only when all the job commits is committed.
THEOREM HonestComplete == Spec => []CompleteIsBacked
BY InvHolds, PTL DEF JobInv

\* While nothing fails no job is lost between the queue and its end.
THEOREM Conservation == Spec => []NoJobVanishes
BY InvHolds, PTL DEF JobInv

\* A commit never meets the final row of a job that was pushed once.
LEMMA CommitOpen ==
  ASSUME JobInv, NEW w \in Workers, Handle(w) \/ AckLost(w), Commits(w),
         NEW j \in Jobs, row[j].status \in Final, Single(j)
  PROVE  row'[j] = row[j]
<1>1. cur[w] \in Copies /\ TypeOK /\ RowInHand(w)
  BY HandlerFacts
<1>2. pc[w] # "report" /\ ~(pc[w] = "fail" /\ poisoned[w])
  BY DEF Commits
<1>3. JobOf(cur[w]) # j
  BY <1>1, <1>2 DEF RowInHand
<1>4. QED
  BY <1>1, <1>3, CommitFacts

\* A step that changes a row which is already final deletes it.
LEMMA FinalStep ==
  ASSUME JobInv, Next, NEW j \in Jobs, row[j].status \in Final, Single(j)
  PROVE  row'[j].status \in {row[j].status, "absent"}
<1> USE DEF redisVars, workVars, resultVars
<1>1. row \in [Jobs -> RowStates]
  BY DEF JobInv, TypeOK
<1>2. ASSUME NEW i \in Jobs, Accept(i) PROVE row'[j] = row[j]
  <2>1. row[i].status = "absent"
    BY <1>2 DEF Accept, JobInv, SubmitOrder
  <2>2. i # j
    BY <2>1 DEF Final
  <2>3. QED
    BY <1>1, <1>2, <2>2 DEF Accept
<1>3. ASSUME NEW w \in Workers, Progress(w) \/ Finish(w) \/ Fail(w) \/ AckLost(w)
      PROVE  row'[j] = row[j]
  <2>1. Commits(w)
    BY <1>3, Zenon DEF Progress, Finish, Fail, AckLost, Commits
  <2>2. Handle(w) \/ AckLost(w)
    BY <1>3 DEF Handle
  <2>3. QED
    BY <2>1, <2>2, CommitOpen
<1>4. ASSUME NEW w \in Workers, Maintain(w)
      PROVE  row'[j] = row[j] \/ row'[j].status = "absent"
  BY <1>4 DEF Maintain, NoRow
<1>5. ASSUME NEW i \in Jobs, Submit(i) \/ Forget(i) \/ AgeOut(i)
      PROVE  row' = row \/ Accept(i)
  BY <1>5 DEF Submit, Insert, Enqueue, EnqueueAgain, EnqueueFails, Reject, Forget, AgeOut
<1>6. ASSUME NEW w \in Workers, Loop(w) \/ Signal(w) PROVE row' = row \/ Maintain(w)
  BY <1>6 DEF Loop, Start, LoopTop, Pop, Take, PopNothing, Signal
<1>7. ASSUME NEW w \in Workers, Handle(w) PROVE row' = row \/ Progress(w) \/ Finish(w) \/ Fail(w)
  BY <1>7 DEF Handle, WriteSkill, SkillCommit, WriteViolatesKey, FailRaises, Report
<1>8. ASSUME NEW w \in Workers, Upset(w) PROVE row' = row \/ AckLost(w)
  BY <1>8 DEF Upset, PopFails, MaintainFails, MaintainRecovers, ReportFails, DbError, Crash
<1>9. LoseQueue => row' = row
  BY DEF LoseQueue
<1>10. QED
  BY <1>2, <1>3, <1>4, <1>5, <1>6, <1>7, <1>8, <1>9 DEF Next

\* A finished job that was pushed once keeps its outcome until the purge deletes
\* its row, though commits raise whose effect stays.
THEOREM OutcomeStays == Spec => FinalStays
<1>1. JobInv /\ [Next]_vars =>
        [\A j \in Jobs : row[j].status \in Final /\ Single(j) =>
           row'[j].status \in {row[j].status, "absent"}]_vars
  BY FinalStep
<1>2. QED
  BY <1>1, InvHolds, PTL DEF Spec, FinalStays

\* A step that leaves every copy in the list or in a hand drops no job, if the
\* request does not either.
LEMMA CareFrame ==
  ASSUME \A c \in Copies : Queued(c) \/ Held(c) => Queued(c)' \/ Held(c)',
         NEW j \in Jobs, api[j] = "inserted" => api'[j] = "inserted" \/ Queued(<<j, 1>>)'
  PROVE  ~Dropped(j)
BY CopyFacts DEF Dropped, InCare

\* A job is dropped with its last copy.
LEMMA LastCopy ==
  ASSUME NEW j \in Jobs, Dropped(j), api'[j] = api[j]
  PROVE  \E c \in CopiesOf(j) : (Queued(c) \/ Held(c)) /\ ~Queued(c)' /\ ~Held(c)'
BY DEF Dropped, InCare

\* A step of one worker with the list unchanged drops at most the job in hand.
LEMMA HandFrame ==
  ASSUME TypeOK, NEW w \in Workers, queue' = queue, api' = api,
         cur' = cur \/ cur' = [cur EXCEPT ![w] = NoJob],
         NEW j \in Jobs, Dropped(j)
  PROVE  cur[w] \in CopiesOf(j)
<1>1. PICK c \in CopiesOf(j) : (Queued(c) \/ Held(c)) /\ ~Queued(c)' /\ ~Held(c)'
  BY LastCopy
<1>2. Held(c) /\ ~Held(c)'
  BY <1>1 DEF Queued
<1>3. PICK v \in Workers : cur[v] = c
  BY <1>2 DEF Held
<1>4. cur' = cur => cur'[v] = c
  BY <1>3
<1>5. v # w => cur'[v] = c
  BY <1>3, <1>4 DEF TypeOK
<1>6. QED
  BY <1>2, <1>3, <1>4, <1>5 DEF Held

\* What a step drops: nothing; or one job, by a fault or for want of a session;
\* or the list.
LEMMA DroppedStep ==
  ASSUME JobInv, Next
  PROVE  \/ \A j \in Jobs : ~Dropped(j)
         \/ \E k \in Jobs :
              /\ \A j \in Jobs : Dropped(j) => j = k
              /\ \/ faults' > faults
                 \/ \E w \in Workers : cur[w] \in CopiesOf(k) /\ poisoned[w]
         \/ /\ queue' = <<>> /\ faults' > faults
            /\ \A j \in Jobs : Dropped(j) => \E c \in CopiesOf(j) : Queued(c)
<1> USE DEF apiVars, redisVars, workVars, resultVars
<1>0. TypeOK /\ faults \in Nat /\ Distinct /\ queue \in Seq(Copies)
  BY JobConstants DEF JobInv, OneOwner, Distinct, TypeOK
<1>f. queue' = queue /\ cur' = cur => \A c \in Copies : Queued(c) \/ Held(c) => Queued(c)' \/ Held(c)'
  BY DEF Queued, Held
<1>1. ASSUME NEW i \in Jobs, Insert(i) \/ Accept(i) \/ Forget(i) \/ AgeOut(i)
      PROVE  \A j \in Jobs : ~Dropped(j)
  <2>1. queue' = queue /\ cur' = cur
    BY <1>1 DEF Insert, Accept, Forget, AgeOut
  <2>2. \A j \in Jobs : api[j] = "inserted" => api'[j] = "inserted"
    BY <1>0, <1>1 DEF TypeOK, Insert, Accept, Forget, AgeOut
  <2>3. QED
    BY <1>f, <2>1, <2>2, CareFrame
<1>2. ASSUME NEW i \in Jobs, Enqueue(i) \/ EnqueueAgain(i)
      PROVE  \A j \in Jobs : ~Dropped(j)
  <2>1. PICK c : /\ c \in {<<i, 1>>, <<i, 2>>} /\ queue' = Append(queue, c)
                 /\ c = <<i, 1>> \/ api' = api
                 /\ c[2] = pushed[i] + 1
    <3>1. CASE Enqueue(i)
      <4>1. pushed[i] = 0 /\ queue' = Append(queue, <<i, 1>>)
        BY <3>1 DEF Enqueue, JobInv, SubmitOrder
      <4>2. <<i, 1>>[2] = pushed[i] + 1
        BY <4>1
      <4>3. QED
        BY <4>1, <4>2
    <3>2. CASE EnqueueAgain(i)
      <4>1. pushed[i] = 1 /\ queue' = Append(queue, <<i, 2>>) /\ api' = api
        BY <3>2 DEF EnqueueAgain
      <4>2. <<i, 2>>[2] = pushed[i] + 1
        BY <4>1
      <4>3. QED
        BY <4>1, <4>2
    <3>3. QED
      BY <1>2, <3>1, <3>2
  <2>2. c \in Copies /\ JobOf(c) = i /\ cur' = cur
    <3>1. c \in CopiesOf(i)
      BY <2>1 DEF CopiesOf
    <3>2. c \in Copies /\ JobOf(c) = i
      BY <3>1, CopyFacts
    <3>3. cur' = cur
      BY <1>2 DEF Enqueue, EnqueueAgain
    <3>4. QED
      BY <3>2, <3>3
  <2>3. ~Queued(c)
    <3>1. pushed[i] \in 0..2
      BY <1>0 DEF TypeOK
    <3>2. ~Exists(c)
      BY <2>1, <2>2, <3>1 DEF Exists
    <3>3. QED
      BY <2>2, <3>2 DEF JobInv, SubmitOrder
  <2>4. Queued(c)' /\ \A d \in Copies \ {c} : Queued(d)' = Queued(d)
    BY <1>0, <2>1, <2>2, <2>3, AppendFacts
  <2>5. \A d \in Copies : Queued(d) \/ Held(d) => Queued(d)' \/ Held(d)'
    BY <2>2, <2>4 DEF Held
  <2>6. \A j \in Jobs \ {i} : api'[j] = api[j]
    BY <1>0, <1>2 DEF TypeOK, Enqueue, EnqueueAgain
  <2>7. \A j \in Jobs : api[j] = "inserted" => api'[j] = "inserted" \/ Queued(<<j, 1>>)'
    BY <2>1, <2>4, <2>6
  <2>8. QED
    BY <2>5, <2>7, CareFrame
<1>3. ASSUME NEW i \in Jobs, EnqueueFails(i) \/ Reject(i)
      PROVE  (\A j \in Jobs : Dropped(j) => j = i) /\ faults' > faults
  <2>1. queue' = queue /\ cur' = cur /\ faults' = faults + 1
    BY <1>3 DEF EnqueueFails, Reject, AFault
  <2>2. \A j \in Jobs \ {i} : api'[j] = api[j]
    BY <1>0, <1>3 DEF TypeOK, EnqueueFails, Reject
  <2>3. \A j \in Jobs \ {i} : ~Dropped(j)
    BY <1>f, <2>1, <2>2, CareFrame
  <2>4. QED
    BY <1>0, <2>1, <2>3
<1>4. ASSUME LoseQueue
      PROVE  /\ queue' = <<>> /\ faults' > faults
             /\ \A j \in Jobs : Dropped(j) => \E c \in CopiesOf(j) : Queued(c)
  BY <1>0, <1>4, LastCopy DEF LoseQueue, AFault, Held
<1>5. ASSUME NEW w \in Workers,
             \/ Start(w) \/ LoopTop(w) \/ PopNothing(w) \/ Maintain(w) \/ Signal(w)
             \/ Progress(w) \/ WriteSkill(w) \/ WriteViolatesKey(w) \/ Finish(w) \/ Fail(w)
             \/ MaintainFails(w) \/ MaintainRecovers(w)
      PROVE  \A j \in Jobs : ~Dropped(j)
  <2>1. queue' = queue /\ cur' = cur /\ api' = api
    BY <1>5 DEF Start, LoopTop, PopNothing, Maintain, Signal, Progress, WriteSkill,
       WriteViolatesKey, Finish, Fail, MaintainFails, MaintainRecovers
  <2>2. QED
    BY <1>f, <2>1, CareFrame
<1>6. ASSUME NEW w \in Workers, Pop(w)
      PROVE  \A j \in Jobs : ~Dropped(j)
  <2>0. PICK h : h = Head(queue)
    OBVIOUS
  <2>1. /\ queue # <<>> /\ queue' = Tail(queue) /\ api' = api
        /\ cur' = [cur EXCEPT ![w] = h] /\ pc[w] = "pop"
    BY <1>6, <2>0 DEF Pop, Take, Remaining
  <2>2. \A c \in Copies \ {h} : Queued(c)' = Queued(c)
    BY <1>0, <2>0, <2>1, TailFacts
  <2>3. cur[w] = NoJob
    BY <2>1 DEF JobInv, CurMatches, BusyAt
  <2>4. Held(h)'
    BY <1>0, <2>1 DEF TypeOK, Held
  <2>5. \A c \in Copies : Held(c) => Held(c)'
    <3>1. SUFFICES ASSUME NEW c \in Copies, NEW v \in Workers, cur[v] = c
                   PROVE  Held(c)'
      BY DEF Held
    <3>2. v # w
      BY <2>3, <3>1, JobConstants
    <3>3. cur'[v] = c
      BY <1>0, <2>1, <3>1, <3>2 DEF TypeOK
    <3>4. QED
      BY <3>3 DEF Held
  <2>6. \A c \in Copies : Queued(c) \/ Held(c) => Queued(c)' \/ Held(c)'
    BY <2>2, <2>4, <2>5
  <2>7. QED
    BY <2>1, <2>6, CareFrame
<1>7. ASSUME NEW w \in Workers, PopFails(w)
      PROVE  \/ \A j \in Jobs : ~Dropped(j)
             \/ \E k \in Jobs : (\A j \in Jobs : Dropped(j) => j = k) /\ faults' > faults
  <2>1. /\ api' = api /\ cur' = cur /\ faults' = faults + 1
        /\ queue' = queue \/ (queue # <<>> /\ queue' = Tail(queue))
    BY <1>7 DEF PopFails, AFault
  <2>2. CASE queue' = queue
    BY <1>f, <2>1, <2>2, CareFrame
  <2>3. CASE queue # <<>> /\ queue' = Tail(queue)
    <3>1. PICK h : h = Head(queue)
      OBVIOUS
    <3>2. h \in Copies /\ \A c \in Copies \ {h} : Queued(c)' = Queued(c)
      BY <1>0, <2>3, <3>1, TailFacts
    <3>3. ASSUME NEW j \in Jobs, Dropped(j) PROVE j = JobOf(h)
      <4>1. PICK c \in CopiesOf(j) : (Queued(c) \/ Held(c)) /\ ~Queued(c)' /\ ~Held(c)'
        BY <2>1, <3>3, LastCopy
      <4>2. c = h
        BY <2>1, <3>2, <4>1, CopyFacts DEF Held
      <4>3. QED
        BY <4>2, CopyFacts
    <3>4. JobOf(h) \in Jobs /\ faults' > faults
      BY <1>0, <2>1, <3>2, CopyFacts
    <3>5. QED
      BY <3>3, <3>4
  <2>4. QED
    BY <2>1, <2>2, <2>3
<1>8. ASSUME NEW w \in Workers,
             \/ FailRaises(w) \/ Report(w) \/ ReportFails(w)
             \/ DbError(w) \/ AckLost(w) \/ Crash(w)
      PROVE  \/ \A j \in Jobs : ~Dropped(j)
             \/ \E k \in Jobs :
                  /\ \A j \in Jobs : Dropped(j) => j = k
                  /\ faults' > faults \/ (cur[w] \in CopiesOf(k) /\ poisoned[w])
  <2>1. queue' = queue /\ api' = api /\ (cur' = cur \/ cur' = [cur EXCEPT ![w] = NoJob])
    BY <1>8 DEF FailRaises, Report, ReportFails, DbError, AckLost, Raises, Crash, Leave
  <2>2. \A j \in Jobs : Dropped(j) => cur[w] \in CopiesOf(j) /\ j = JobOf(cur[w])
    BY <1>0, <2>1, HandFrame, CopyFacts
  <2>3. CASE Report(w)
    <3>1. cur[w] \in Copies /\ JobOf(cur[w]) \in Jobs
      BY <1>0, <2>3, CopyFacts DEF Report, JobInv, CurMatches, BusyAt, TypeOK
    <3>2. cache'[JobOf(cur[w])] = verdict[w] /\ verdict[w] \in Final
      BY <1>0, <2>3, <3>1 DEF Report, TypeOK
    <3>3. \A j \in Jobs : Dropped(j) => cache'[j] = "none"
      BY DEF Dropped
    <3>4. QED
      BY <2>2, <3>2, <3>3 DEF Final
  <2>4. CASE ~Report(w)
    <3>1. FailRaises(w) => poisoned[w]
      BY DEF FailRaises
    <3>2. ReportFails(w) \/ DbError(w) \/ AckLost(w) \/ Crash(w) => AFault
      BY DEF ReportFails, DbError, AckLost, Crash
    <3>3. AFault => faults' > faults
      BY <1>0 DEF AFault
    <3>4. QED
      BY <1>8, <2>2, <2>4, <3>1, <3>2, <3>3
  <2>5. QED
    BY <2>3, <2>4
<1>9. ASSUME NEW w \in Workers, Loop(w) \/ Signal(w) \/ Handle(w) \/ Upset(w)
      PROVE  \/ \A j \in Jobs : ~Dropped(j)
             \/ \E k \in Jobs :
                  /\ \A j \in Jobs : Dropped(j) => j = k
                  /\ faults' > faults \/ (cur[w] \in CopiesOf(k) /\ poisoned[w])
  BY <1>5, <1>6, <1>7, <1>8, <1>9 DEF Loop, Handle, Upset
<1>10. QED
  BY <1>1, <1>2, <1>3, <1>4, <1>9 DEF Next, Submit

\* A job is handed on from its request to the list, to a worker and to its
\* outcome, and only a fault or a refusing session drops it, one at a time.
THEOREM NothingSlips == Spec => DroppedByFault
<1>1. JobInv /\ [Next]_vars =>
        [\A j \in Jobs : Dropped(j) =>
           /\ \/ faults' > faults
              \/ \E w \in Workers : cur[w] \in CopiesOf(j) /\ poisoned[w]
           /\ \A i \in Jobs \ {j} : Dropped(i) =>
                queue' = <<>> /\ \A k \in {i, j} : \E c \in CopiesOf(k) : Queued(c)]_vars
  BY DroppedStep
<1>2. QED
  BY <1>1, InvHolds, PTL DEF Spec, DroppedByFault

(***************************************************************************)
(* The worker's loop as a whole (Pipeline).                                *)
(***************************************************************************)

\* A copy that has committed its webhook has committed the row of its job, or
\* is about to, or the request has not.
Told(c) ==
  events[c] > 0 =>
    \/ row[JobOf(c)].status \in {"complete", "absent", "queued"}
    \/ \E w \in Workers : cur[w] = c /\ pc[w] = "finish"

\* While nothing fails no job is pushed twice, a handler that fails has committed
\* no webhook, and the jobs that have committed theirs are told of.
Announced ==
  faults = 0 =>
    /\ \A j \in Jobs : Single(j)
    /\ \A w \in Workers : pc[w] = "fail" => events[cur[w]] = 0
    /\ \A c \in Copies : Told(c)

\* While nothing fails, steps of workers that commit nothing keep it.
LEMMA AnnouncedIdle ==
  ASSUME JobInv, Announced, faults = 0, NEW w \in Workers,
         \/ Start(w) \/ LoopTop(w) \/ PopNothing(w) \/ Maintain(w) \/ Signal(w)
         \/ Report(w) \/ FailRaises(w) \/ WriteViolatesKey(w) \/ Pop(w)
  PROVE  Announced'
<1> USE DEF apiVars, redisVars, workVars, resultVars
<1>1. TypeOK
  BY DEF JobInv
<1>2. UNCHANGED <<pushed, skills, events>>
  BY DEF Start, LoopTop, PopNothing, Maintain, Signal, Report, FailRaises, WriteViolatesKey,
     Pop, Take
<1>3. /\ pc[w] # "finish" \/ (pc'[w] = pc[w] /\ cur'[w] = cur[w])
      /\ \A v \in Workers \ {w} : pc'[v] = pc[v] /\ cur'[v] = cur[v]
      /\ pc'[w] = "fail" => cur'[w] = cur[w] /\ (pc[w] = "fail" \/ pc[w] = "write")
  <2>1. CASE Start(w) \/ LoopTop(w) \/ PopNothing(w) \/ Maintain(w) \/ WriteViolatesKey(w)
    BY <1>1, <2>1 DEF Start, LoopTop, PopNothing, Maintain, WriteViolatesKey, TypeOK
  <2>2. CASE Report(w) \/ FailRaises(w)
    BY <1>1, <2>2 DEF Report, FailRaises, Leave, TypeOK
  <2>3. CASE Pop(w)
    BY <1>1, <2>3 DEF Pop, Take, TypeOK
  <2>4. CASE Signal(w)
    BY <2>4 DEF Signal
  <2>5. QED
    BY <2>1, <2>2, <2>3, <2>4
<1>4. \A i \in Jobs : row'[i] = row[i] \/ row'[i].status = "absent"
  BY DEF Start, LoopTop, PopNothing, Maintain, Signal, Report, FailRaises, WriteViolatesKey,
     Pop, Take, NoRow
<1>5. \A j \in Jobs : Single(j)'
  BY <1>2 DEF Announced, Single
<1>6. ASSUME NEW v \in Workers, pc'[v] = "fail" PROVE events'[cur'[v]] = 0
  <2>1. PICK d : d = cur[v]
    OBVIOUS
  <2>2. cur'[v] = d /\ (pc[v] = "fail" \/ pc[v] = "write")
    BY <1>3, <1>6, <2>1
  <2>3. cur[v] # NoJob
    BY <2>2 DEF JobInv, CurMatches, BusyAt
  <2>4. CopyInHand(v)
    BY <2>3 DEF JobInv, HandlersInOrder
  <2>5. events[d] = 0
    BY <2>1, <2>2, <2>4 DEF Announced, CopyInHand, Untouched
  <2>6. QED
    BY <1>2, <2>2, <2>5
<1>7. ASSUME NEW c \in Copies PROVE Told(c)'
  <2>1. Told(c) /\ JobOf(c) \in Jobs
    BY CopyFacts DEF Announced
  <2>2. PICK j \in Jobs : j = JobOf(c)
    BY <2>1
  <2>3. (\E v \in Workers : cur[v] = c /\ pc[v] = "finish")
          => \E v \in Workers : cur'[v] = c /\ pc'[v] = "finish"
    BY <1>3
  <2>4. QED
    BY <1>2, <1>4, <2>1, <2>2, <2>3 DEF Told
<1>8. QED
  BY <1>5, <1>6, <1>7 DEF Announced

\* And so do its commits.
LEMMA AnnouncedCommit ==
  ASSUME JobInv, Announced, faults = 0, NEW w \in Workers,
         Progress(w) \/ WriteSkill(w) \/ Finish(w) \/ Fail(w)
  PROVE  Announced'
<1>1. PICK c, j : c = cur[w] /\ j = JobOf(c)
  OBVIOUS
<1>2. /\ TypeOK /\ c \in Copies /\ c # NoJob /\ j \in Jobs /\ CopyInHand(w)
  BY <1>1, HandlerFacts DEF Handle
<1>3. Commits(w) /\ UNCHANGED <<pushed, cur>>
  BY Zenon DEF Progress, WriteSkill, Finish, Fail, Commits, apiVars
<1>4. /\ \A i \in Jobs \ {j} : row'[i] = row[i]
      /\ \A d \in Copies \ {c} : events'[d] = events[d]
      /\ pc[w] \in {"step", "fail"} => events'[c] = events[c]
      /\ pc[w] = "finish" => row'[j].status \in {"absent", "complete"}
  BY <1>1, <1>2, <1>3, CommitFacts, CommitWrote DEF Wrote
<1>5. /\ \A v \in Workers \ {w} : pc'[v] = pc[v]
      /\ pc'[w] # "fail"
      /\ pc[w] = "write" => pc'[w] = "finish"
      /\ pc[w] \in {"step", "write", "finish", "fail"}
  <2>1. CASE Progress(w)
    BY <1>2, <2>1 DEF Progress, AfterStep, TypeOK
  <2>2. CASE WriteSkill(w) \/ Finish(w) \/ Fail(w)
    BY <1>2, <2>2 DEF WriteSkill, Finish, Fail, TypeOK
  <2>3. QED
    BY <2>1, <2>2
<1>6. \A i \in Jobs : Single(i) /\ Single(i)'
  BY <1>3 DEF Announced, Single
<1>7. ASSUME NEW d \in Copies \ {c}, JobOf(d) = j PROVE events[d] = 0
  <2>1. Exists(c)
    BY <1>1, <1>2 DEF JobInv, SubmitOrder, Held
  <2>2. ~Exists(d)
    BY <1>1, <1>2, <1>6, <1>7, <2>1, TwoCopies
  <2>3. QED
    BY <2>2 DEF JobInv, FreshUntouched, Untouched
<1>8. ASSUME NEW v \in Workers, pc'[v] = "fail" PROVE events'[cur'[v]] = 0
  <2>1. PICK d : d = cur[v]
    OBVIOUS
  <2>2. v # w /\ pc[v] = "fail" /\ events[d] = 0
    BY <1>5, <1>8, <2>1 DEF Announced
  <2>3. d \in Copies \ {c}
    <3>1. d # NoJob
      BY <2>1, <2>2 DEF JobInv, CurMatches, BusyAt
    <3>2. QED
      BY <1>1, <1>2, <2>1, <2>2, <3>1 DEF JobInv, OneOwner, TypeOK
  <2>4. QED
    BY <1>3, <1>4, <2>1, <2>2, <2>3
<1>9. ASSUME NEW d \in Copies PROVE Told(d)'
  <2>1. CASE d = c
    <3>1. pc[w] = "step" => events'[c] = 0
      BY <1>1, <1>4 , <1>2 DEF CopyInHand, Untouched
    <3>2. pc[w] = "fail" => events'[c] = 0
      BY <1>1, <1>4 DEF Announced
    <3>3. pc[w] = "write" => cur'[w] = c /\ pc'[w] = "finish"
      BY <1>1, <1>3, <1>5
    <3>4. QED
      BY <1>1, <1>4, <1>5, <2>1, <3>1, <3>2, <3>3 DEF Told
  <2>2. CASE d # c /\ JobOf(d) = j
    BY <1>4, <1>7, <2>2 DEF Told
  <2>3. CASE d # c /\ JobOf(d) # j
    <3>1. row'[JobOf(d)] = row[JobOf(d)] /\ events'[d] = events[d]
      BY <1>4, <2>3, CopyFacts
    <3>2. (\E v \in Workers : cur[v] = d /\ pc[v] = "finish")
            => \E v \in Workers : cur'[v] = d /\ pc'[v] = "finish"
      BY <1>1, <1>3, <1>5, <2>3
    <3>3. QED
      BY <3>1, <3>2 DEF Announced, Told
  <2>4. QED
    BY <2>1, <2>2, <2>3
<1>10. QED
  BY <1>6, <1>8, <1>9 DEF Announced

\* Every step of Jobs keeps it.
LEMMA AnnouncedStep ==
  ASSUME JobInv, Announced, Next
  PROVE  Announced'
<1> USE DEF apiVars, redisVars, workVars, resultVars
<1>1. TypeOK /\ faults \in Nat
  BY JobConstants DEF JobInv, TypeOK
<1>2. AFault => Announced'
  BY <1>1 DEF AFault, Announced
<1>3. ASSUME NEW i \in Jobs,
             Insert(i) \/ Enqueue(i) \/ Accept(i) \/ Forget(i) \/ AgeOut(i), faults = 0
      PROVE  Announced'
  <2>1. /\ UNCHANGED <<cur, pc, skills, events, faults>>
        /\ \A k \in Jobs : row'[k] = row[k] \/ row'[k].status = "queued"
        /\ \A k \in Jobs : pushed'[k] = pushed[k] \/ pushed'[k] = 1
    BY <1>1, <1>3 DEF Insert, Enqueue, Accept, Forget, AgeOut, TypeOK
  <2>2. \A c \in Copies : JobOf(c) \in Jobs
    BY CopyFacts
  <2>3. QED
    BY <1>3, <2>1, <2>2 DEF Announced, Told, Single
<1>4. ASSUME faults # 0, ~AFault PROVE faults' # 0
  <2>1. faults' = faults
    BY <1>4 DEF Next, Submit, Loop, Handle, Upset, Insert, Enqueue, EnqueueAgain, EnqueueFails,
       Accept, Reject, Forget, AgeOut, LoseQueue, Start, LoopTop, Pop, Take, PopNothing,
       Signal, Maintain, Progress, WriteSkill, WriteViolatesKey, Finish, Fail, FailRaises,
       Report, PopFails, MaintainFails, MaintainRecovers, ReportFails, DbError, AckLost, Crash
  <2>2. QED
    BY <1>4, <2>1
<1>5. ASSUME NEW i \in Jobs, EnqueueAgain(i) \/ EnqueueFails(i) \/ Reject(i) PROVE AFault
  BY <1>5 DEF EnqueueAgain, EnqueueFails, Reject
<1>6. ASSUME NEW w \in Workers, Upset(w) PROVE AFault
  BY <1>6 DEF Upset, PopFails, MaintainFails, MaintainRecovers, ReportFails, DbError, AckLost, Crash
<1>7. LoseQueue => AFault
  BY DEF LoseQueue
<1>8. CASE faults = 0 /\ ~AFault
  BY <1>3, <1>5, <1>6, <1>7, <1>8, AnnouncedIdle, AnnouncedCommit
     DEF Next, Submit, Loop, Handle
<1>9. CASE faults # 0 /\ ~AFault
  BY <1>4, <1>9 DEF Announced
<1>10. QED
  BY <1>2, <1>8, <1>9

\* Every step of the loop is a step of Jobs, or leaves the jobs alone.
LEMMA LoopSteps == [PipelineNext]_allVars => [Next]_vars
<1> SUFFICES ASSUME PipelineNext, vars' # vars PROVE Next
  BY DEF allVars
<1>1. ASSUME NEW w \in Workers, Works(w) PROVE Loop(w) \/ Handle(w)
  BY <1>1 DEF Works, Starts, NoFlush, EndTurn, FlushBegins, FlushFindsNothing, FlushPosts,
     FlushCommits, FlushRaises, Flushing, Loop
<1>2. ASSUME NEW w \in Workers, FlushBeginsLockless(w) \/ FlushFails(w) \/ Dies(w)
      PROVE  Upset(w)
  BY <1>2 DEF FlushBeginsLockless, FlushFails, Dies, Upset
<1>3. QED
  BY <1>1, <1>2 DEF PipelineNext, Next, Upset

\* The proofs about the outbox, for the outbox of the loop.
P == INSTANCE Outbox_proofs WITH
  Events <- Hooks,
  malformed <- {c \in Hooks : JobOf(c) \in Malformed},
  caller <- [c \in Hooks |-> IF events[c] > 0 THEN "committed" ELSE "idle"],
  row <- hook

\* The outbox of the loop has constants as the outbox wants them.
LEMMA OutboxConstants == P!ConstantsOK
BY JobConstants, PipelineConstants DEF P!ConstantsOK

\* The SELECTs of Pipeline are those of the outbox.
LEMMA SameSelects ==
  ASSUME NEW w \in Workers
  PROVE  /\ Outbox!SelectBatch(w) => P!SelectBatch(w)
         /\ Outbox!SelectLockless(w) => P!SelectLockless(w)
<1>1. \A e \in Hooks : Outbox!Due(e) <=> P!Due(e)
  BY DEF Outbox!Due, P!Due, Outbox!Visible, P!Visible
<1>2. Outbox!Pending = P!Pending
  BY <1>1 DEF Outbox!Pending, P!Pending
<1>3. Outbox!Locked = P!Locked
  BY DEF Outbox!Locked, P!Locked, Outbox!LockedBy, P!LockedBy
<1>4. Outbox!Eligible = P!Eligible
  BY <1>2, <1>3 DEF Outbox!Eligible, P!Eligible
<1>5. ASSUME NEW S PROVE Outbox!Take(w, S) => P!Take(w, S)
  BY Zenon DEF Outbox!Take, P!Take, Outbox!callerVars, P!callerVars, Outbox!Cardinality,
     P!Cardinality
<1>6. QED
  BY <1>2, <1>4, <1>5
     DEF Outbox!SelectBatch, P!SelectBatch, Outbox!SelectLockless, P!SelectLockless

\* And so are its other actions.
LEMMA SameActions ==
  ASSUME NEW w \in Workers
  PROVE  /\ Outbox!CommitBatch(w) => P!CommitBatch(w)
         /\ Outbox!AbandonBatch(w) => P!AbandonBatch(w)
         /\ Outbox!Fault(w) => P!Fault(w)
         /\ \A c \in Hooks : Outbox!Post(w, c) => P!Post(w, c)
         /\ \A c \in Hooks : Outbox!PostRaises(w, c) => P!PostRaises(w, c)
<1>1. Outbox!Drop(w) => P!Drop(w)
  BY DEF Outbox!Drop, P!Drop, Outbox!Nothing, P!Nothing
<1>2. Outbox!CommitBatch(w) => P!CommitBatch(w)
  BY <1>1 DEF Outbox!CommitBatch, P!CommitBatch, Outbox!Settled, P!Settled, Outbox!callerVars,
     P!callerVars, Outbox!pastVars, P!pastVars, Outbox!LockedBy, P!LockedBy
<1>3. Outbox!AbandonBatch(w) => P!AbandonBatch(w)
  BY <1>1 DEF Outbox!AbandonBatch, P!AbandonBatch, Outbox!Bump, P!Bump, Outbox!callerVars,
     P!callerVars
<1>4. Outbox!Fault(w) => P!Fault(w)
  BY <1>3 DEF Outbox!Fault, P!Fault
<1>5. \A c \in Hooks : Outbox!Post(w, c) => P!Post(w, c)
  BY DEF Outbox!Post, P!Post, Outbox!IsNext, P!IsNext, Outbox!Bump, P!Bump,
     Outbox!callerVars, P!callerVars
<1>6. \A c \in Hooks : Outbox!PostRaises(w, c) => P!PostRaises(w, c)
  BY <1>3 DEF Outbox!PostRaises, P!PostRaises, Outbox!IsNext, P!IsNext
<1>7. QED
  BY <1>2, <1>3, <1>4, <1>5, <1>6

\* What the outbox of the loop does in terms of the contract is what Pipeline
\* says it does.
LEMMA SameContract ==
  [P!Contract!Next]_P!Contract!vars => [Outbox!Contract!Next]_Outbox!Contract!vars
BY Zenon DEF P!Contract!Next, P!Contract!vars, P!Contract!Owe, P!Contract!Loosen,
   P!Contract!Attempt, P!Contract!Close, P!Contract!Open, P!Contract!Bump, P!PromiseOf,
   P!Visible, Outbox!Contract!Next, Outbox!Contract!vars, Outbox!Contract!Owe,
   Outbox!Contract!Loosen, Outbox!Contract!Attempt, Outbox!Contract!Close,
   Outbox!Contract!Open, Outbox!Contract!Bump, Outbox!PromiseOf, Outbox!Visible

\* Only the commits of handlers schedule a webhook, each for its own copy.
LEMMA EventsOnce ==
  ASSUME JobInv, JobInv', Next, events' # events
  PROVE  \E c \in Hooks : /\ events[c] = 0 /\ events'[c] = 1
                          /\ \A d \in Copies \ {c} : events'[d] = events[d]
<1>1. PICK w \in Workers :
        Progress(w) \/ WriteSkill(w) \/ Finish(w) \/ Fail(w) \/ AckLost(w)
  BY DEF resultVars, Next, Submit, Loop, Handle, Upset, Insert, Enqueue, EnqueueAgain,
     EnqueueFails, Accept, Reject, Forget, AgeOut, LoseQueue, Start, LoopTop, Pop, Take,
     PopNothing, Signal, Maintain, WriteViolatesKey, FailRaises, Report, PopFails,
     MaintainFails, MaintainRecovers, ReportFails, DbError, Crash
<1>2. (Handle(w) \/ AckLost(w)) /\ Commits(w)
  BY <1>1, Zenon DEF Handle, Progress, WriteSkill, Finish, Fail, AckLost, Commits
<1>3. PICK c : c = cur[w]
  OBVIOUS
<1>4. TypeOK /\ TypeOK' /\ c \in Copies /\ CopyInHand(w)
  BY <1>2, <1>3, HandlerFacts
<1>5. /\ \A d \in Copies \ {c} : events'[d] = events[d]
      /\ pc[w] \in {"step", "fail"} => UNCHANGED events
  BY <1>2, <1>3, <1>4, CommitWrote DEF Wrote
<1>6. events \in [Copies -> Nat] /\ events' \in [Copies -> Nat]
  BY <1>4 DEF TypeOK
<1>7. events[c] = 0
  <2>1. pc[w] = "write" => events[c] = 0
    BY <1>3, <1>4 DEF CopyInHand, Untouched
  <2>2. pc[w] = "finish" /\ JobOf(c) \in Batches => events[c] = 0
    BY <1>3, <1>4 DEF CopyInHand
  <2>3. pc[w] = "finish" /\ JobOf(c) \notin Batches => events' = events
    BY <1>2, <1>3, <1>4, <1>6 DEF Commits, CompleteCommit
  <2>4. QED
    BY <1>2, <1>5, <2>1, <2>2, <2>3 DEF Commits
<1>8. events'[c] # 0
  <2>1. events'[c] = 0 => \A d \in Copies : events'[d] = events[d]
    BY <1>4, <1>5, <1>7
  <2>2. QED
    BY <1>6, <2>1
<1>9. events'[c] = 1 /\ c \in Hooks
  <2>1. /\ events'[c] <= 1
        /\ JobOf(c) \notin Hooked => events'[c] = 0
    BY <1>4 DEF JobInv, Results
  <2>2. QED
    BY <1>4, <1>6, <1>8, <2>1 DEF Hooks
<1>10. QED
  BY <1>5, <1>7, <1>9

\* A step that does not flush and commits no webhook is hidden from the outbox.
LEMMA ElsewhereStep ==
  ASSUME P!OutboxInv, JobInv', UNCHANGED <<outboxVars, events>>
  PROVE  P!OutboxInv' /\ UNCHANGED P!Contract!vars
<1>1. faults' \in 0..MaxFaults
  BY DEF JobInv, TypeOK
<1>2. QED
  BY <1>1, OutboxConstants, P!FaultElsewhere
     DEF outboxVars, P!callerVars, P!flushVars, P!pastVars

\* Nothing new is staged where no handler has added to events.
LEMMA NothingStaged ==
  ASSUME P!OutboxInv, JobInv, Staged, UNCHANGED events
  PROVE  UNCHANGED outboxVars
<1>1. hook \in [Hooks -> P!Rows] /\ created \in [Hooks -> Nat]
  BY DEF P!OutboxInv, P!TypeOK
<1>2. {c \in Hooks : events'[c] > events[c]} = {}
  BY DEF JobInv, TypeOK, Hooks
<1>3. hook' = [c \in Hooks |-> hook[c]] /\ created' = [c \in Hooks |-> created[c]]
  BY <1>2 DEF Staged
<1>4. hook' = hook /\ created' = created
  BY <1>1, <1>3
<1>5. QED
  BY <1>2, <1>4 DEF Staged, outboxVars

\* Staging a webhook is publishing it.
LEMMA StagedPublishes ==
  ASSUME P!OutboxInv, JobInv, JobInv', Staged,
         NEW c \in Hooks, events[c] = 0, events'[c] = 1,
         \A d \in Copies \ {c} : events'[d] = events[d]
  PROVE  P!Publish(c)
<1>1. events \in [Copies -> Nat] /\ faults' \in 0..MaxFaults
  BY DEF JobInv, TypeOK
<1>2. hook \in [Hooks -> P!Rows] /\ created \in [Hooks -> Nat]
  BY DEF P!OutboxInv, P!TypeOK
<1>3. {d \in Hooks : events'[d] > events[d]} = {c}
  BY <1>1 DEF Hooks
<1>4. /\ hook' = [hook EXCEPT ![c] = Outbox!NewRow]
      /\ created' = [created EXCEPT ![c] = clock]
      /\ clock' = clock + 1
      /\ UNCHANGED <<batch, lockless, seen, todo, acked, received, posts, aborts, raced>>
  BY <1>2, <1>3 DEF Staged
<1>5. [d \in Hooks |-> IF events'[d] > 0 THEN "committed" ELSE "idle"]
        = [[d \in Hooks |-> IF events[d] > 0 THEN "committed" ELSE "idle"]
             EXCEPT ![c] = "committed"]
  <2> DEFINE before == [d \in Hooks |-> IF events[d] > 0 THEN "committed" ELSE "idle"]
             after == [d \in Hooks |-> IF events'[d] > 0 THEN "committed" ELSE "idle"]
  <2>1. ASSUME NEW d \in Hooks PROVE after[d] = [before EXCEPT ![c] = "committed"][d]
    BY <1>1, <2>1 DEF Hooks
  <2>2. QED
    BY <2>1
<1>6. QED
  BY <1>1, <1>4, <1>5 DEF P!Publish, P!flushVars, P!pastVars, P!NewRow, Outbox!NewRow

\* Every step of the loop keeps the outbox's invariant and its contract.
LEMMA OutboxStep ==
  ASSUME P!OutboxInv, JobInv, JobInv', [PipelineNext]_allVars
  PROVE  P!OutboxInv' /\ [P!Contract!Next]_P!Contract!vars
<1> USE OutboxConstants
<1>1. CASE UNCHANGED <<outboxVars, events>>
  BY <1>1, ElsewhereStep
<1>2. ASSUME [P!Next]_P!vars
      PROVE  P!OutboxInv' /\ [P!Contract!Next]_P!Contract!vars
  BY <1>2, P!NextInv, P!ContractNext
<1>3. ASSUME Staged, [Next]_vars
      PROVE  P!OutboxInv' /\ [P!Contract!Next]_P!Contract!vars
  <2>1. CASE UNCHANGED events
    BY <1>1, <1>3, <2>1, NothingStaged
  <2>2. CASE events' # events
    <3>1. PICK c \in Hooks : /\ events[c] = 0 /\ events'[c] = 1
                             /\ \A d \in Copies \ {c} : events'[d] = events[d]
      BY <1>3, <2>2, EventsOnce DEF vars
    <3>2. P!Publish(c)
      BY <1>3, <3>1, StagedPublishes
    <3>3. QED
      BY <3>1, <3>2, P!PublishInv DEF P!Contract!Next
  <2>3. QED
    BY <2>1, <2>2
<1>4. ASSUME NEW w \in Workers, FlushBegins(w) \/ FlushPosts(w) PROVE [P!Next]_P!vars
  <2>1. Outbox!SelectBatch(w) \/ \E c \in Hooks : Outbox!Post(w, c)
    BY <1>4 DEF FlushBegins, FlushPosts
  <2>2. P!Flush(w)
    BY <2>1, SameSelects, SameActions DEF P!Flush
  <2>3. QED
    BY <2>2 DEF P!Next
<1>5. ASSUME NEW w \in Workers, FlushCommits(w) \/ FlushRaises(w) PROVE [P!Next]_P!vars
  <2>1. Outbox!CommitBatch(w) \/ \E c \in Hooks : Outbox!PostRaises(w, c)
    BY <1>5 DEF FlushCommits, FlushRaises
  <2>2. P!Flush(w)
    BY <2>1, SameActions DEF P!Flush
  <2>3. QED
    BY <2>2 DEF P!Next
<1>6. ASSUME NEW w \in Workers, FlushFails(w) \/ FlushBeginsLockless(w) PROVE [P!Next]_P!vars
  BY <1>6, SameActions, SameSelects DEF FlushFails, FlushBeginsLockless, P!Next
<1>7. ASSUME NEW w \in Workers, Dies(w)
      PROVE  P!OutboxInv' /\ [P!Contract!Next]_P!Contract!vars
  <2>1. UNCHANGED events /\ AFault
    BY <1>7 DEF Dies, Crash, resultVars
  <2>2. CASE batch[w] = {}
    BY <1>1, <1>7, <2>1, <2>2 DEF Dies
  <2>3. CASE batch[w] # {}
    <3>1. P!Fault(w)
      BY <1>7, <2>1, <2>3, SameActions DEF Dies, AFault, P!Fault
    <3>2. QED
      BY <1>2, <3>1 DEF P!Next
  <2>4. QED
    BY <2>2, <2>3
<1>8. ASSUME NEW w \in Workers, Starts(w) \/ NoFlush(w) \/ FlushFindsNothing(w)
      PROVE  UNCHANGED <<outboxVars, events>>
  BY <1>8 DEF Starts, Start, NoFlush, FlushFindsNothing, EndTurn, Maintain, resultVars
<1>9. ASSUME NEW w \in Workers,
             Signal(w) \/ PopFails(w) \/ ReportFails(w) \/ DbError(w), UNCHANGED outboxVars
      PROVE  UNCHANGED <<outboxVars, events>>
  BY <1>9 DEF Signal, PopFails, ReportFails, DbError, resultVars
<1>10. ASSUME LoseQueue \/ \E j \in Jobs : Submit(j), UNCHANGED outboxVars
       PROVE  UNCHANGED <<outboxVars, events>>
  BY <1>10 DEF LoseQueue, Submit, Insert, Enqueue, EnqueueAgain, EnqueueFails, Accept,
     Reject, resultVars
<1>11. CASE UNCHANGED allVars
  BY <1>1, <1>11 DEF allVars, vars, resultVars
<1>12. QED
  BY <1>1, <1>2, <1>3, <1>4, <1>5, <1>6, <1>7, <1>8, <1>9, <1>10, <1>11, LoopSteps
     DEF PipelineNext, Works

\* Jobs and outbox keep their invariants in the loop they share.
LEMMA LoopInvariants == PipelineSpec => [](JobInv /\ Announced /\ P!OutboxInv)
<1> DEFINE PipeInv == JobInv /\ Announced /\ P!OutboxInv
<1>1. PipelineInit => PipeInv
  <2> SUFFICES ASSUME PipelineInit PROVE PipeInv
    OBVIOUS
  <2>1. JobInv
    BY InitInv DEF PipelineInit
  <2>2. Announced
    BY JobConstants DEF PipelineInit, Init, Announced, Told, Single
  <2>3. [c \in Hooks |-> IF events[c] > 0 THEN "committed" ELSE "idle"] = [c \in Hooks |-> "idle"]
    BY DEF PipelineInit, Init, Hooks
  <2>4. /\ hook = [c \in Hooks |-> P!NoRow]
        /\ created = [c \in Hooks |-> 0] /\ posts = [c \in Hooks |-> 0]
        /\ seen = [w \in Workers |-> P!Nothing]
    BY DEF PipelineInit, Outbox!NoRow, P!NoRow, Outbox!Nothing, P!Nothing
  <2>5. P!Init
    BY <2>3, <2>4 DEF PipelineInit, Init, P!Init
  <2>6. QED
    BY <2>1, <2>2, <2>5, OutboxConstants, P!InitInv
<1>2. PipeInv /\ [PipelineNext]_allVars => PipeInv'
  <2> SUFFICES ASSUME PipeInv, [PipelineNext]_allVars PROVE PipeInv'
    OBVIOUS
  <2>1. [Next]_vars
    BY LoopSteps
  <2>2. JobInv'
    BY <2>1, NextInv
  <2>3. Announced'
    <3>1. CASE Next
      BY <3>1, AnnouncedStep
    <3>2. CASE UNCHANGED vars
      BY <3>2 DEF Announced, Told, Single, vars, apiVars
    <3>3. QED
      BY <2>1, <3>1, <3>2
  <2>4. QED
    BY <2>2, <2>3, OutboxStep
<1>3. QED
  BY <1>1, <1>2, PTL DEF PipelineSpec

\* A receiver hears of a job only when its results are committed, and the
\* client that polls is told "complete" as soon as the handler, if no fault
\* hits it, has said so.
THEOREM HeardWhenDone == PipelineSpec => []HeardIsDone
<1>1. JobInv /\ Announced /\ P!OutboxInv => HeardIsDone
  <2> SUFFICES ASSUME JobInv, Announced, P!OutboxInv, NEW c \in Hooks, posts[c] > 0
               PROVE  /\ BackedBy(c)
                      /\ \/ row[JobOf(c)].status \in {"complete", "absent", "queued"}
                         \/ \E w \in Workers : cur[w] = c /\ pc[w] = "finish"
                         \/ faults > 0
    BY DEF HeardIsDone
  <2>1. c \in Copies /\ JobOf(c) \in Hooked /\ events[c] > 0
    BY DEF P!OutboxInv, P!UncommittedUntouched, Hooks
  <2>2. skills[c] \in Nat /\ events[c] \in Nat /\ faults \in Nat
    BY <2>1, JobConstants DEF JobInv, TypeOK
  <2>3. BackedBy(c)
    BY <2>1, <2>2 DEF JobInv, Results, BackedBy
  <2>4. QED
    BY <2>1, <2>2, <2>3 DEF Announced, Told
<1>2. QED
  BY <1>1, LoopInvariants, PTL

\* The loop runs its jobs as Jobs says, whatever its flushes do: what is proved
\* of Jobs holds of it (worker.py, run_worker).
THEOREM LoopRunsJobs == PipelineSpec => Init /\ [][Next]_vars
<1>1. PipelineInit => Init
  BY DEF PipelineInit
<1>2. QED
  BY <1>1, LoopSteps, PTL DEF PipelineSpec

\* The loop keeps the contract of the outbox for the webhooks of its jobs,
\* though handlers and flushes share the loop and die together, and flushes of
\* several workers take rows without their locks.
THEOREM LoopDelivers == PipelineSpec => LoopKeepsContract
<1>1. PipelineInit => Outbox!Contract!Init
  <2> SUFFICES ASSUME PipelineInit PROVE Outbox!Contract!Init
    OBVIOUS
  <2>1. \A c \in Hooks : Outbox!PromiseOf(c) = "none"
    BY DEF PipelineInit, Init, Outbox!PromiseOf, Outbox!Visible, Hooks
  <2>2. QED
    BY <2>1 DEF PipelineInit, Outbox!Nothing, Outbox!Contract!Init
<1>2. JobInv /\ P!OutboxInv /\ JobInv' /\ [PipelineNext]_allVars
        => [Outbox!Contract!Next]_Outbox!Contract!vars
  BY OutboxStep, SameContract
<1>3. QED
  BY <1>1, <1>2, LoopInvariants, PTL
     DEF PipelineSpec, LoopKeepsContract, Outbox!KeepsContract, Outbox!Contract!Spec
=============================================================================
