---------------------------- MODULE Outbox_proofs ----------------------------
(***************************************************************************)
(* Proofs about Outbox for any number of events and workers, any batch     *)
(* size, any limit of attempts and any number of crashes: the type         *)
(* invariant, the absence of unexplained duplicates, and the               *)
(* implementation of WebhookContract.                                      *)
(***************************************************************************)
EXTENDS Outbox, TLAPS

\* The facts about counters and rows that several steps need.
LEMMA BumpFacts ==
  ASSUME NEW n \in 0..Cap
  PROVE  /\ Bump(n) \in 0..Cap
         /\ Bump(n) = IF n < Cap THEN n + 1 ELSE Cap
BY ConstantsOK DEF Bump

\* The record an attempt leaves behind, field by field.
LEMMA SettledFacts ==
  ASSUME NEW r \in Rows, NEW n \in 0..MaxAttempts, n < MaxAttempts,
         r.status # "absent", NEW ok \in BOOLEAN
  PROVE  /\ Settled(r, n, ok) \in Rows
         /\ Settled(r, n, ok).attempts = n + 1
         /\ Settled(r, n, ok).status # "absent"
         /\ ok => Settled(r, n, ok).status = "delivered"
         /\ ~ok /\ n + 1 = MaxAttempts => Settled(r, n, ok).status = "failed"
         /\ ~ok /\ n + 1 # MaxAttempts => Settled(r, n, ok).status = r.status
BY ConstantsOK DEF Settled, Rows, Statuses

\* Initially nothing is scheduled and the invariant holds trivially.
LEMMA InitInv == Init => OutboxInv
<1> SUFFICES ASSUME Init PROVE OutboxInv
  OBVIOUS
<1> USE ConstantsOK DEF Init
<1>1. TypeOK
  <2>1. NoRow \in Rows /\ Nothing \in [Events -> 0..MaxAttempts]
    BY DEF Rows, Statuses, NoRow, Nothing
  <2>2. QED
    BY <2>1 DEF TypeOK, CallerStates
<1>2. \A e \in Events : ~InHand(e)
  BY DEF InHand
<1>3. NoDoubleHolding /\ HeldArePending /\ AckedAreReceived
  BY DEF NoDoubleHolding, HeldArePending, AckedAreReceived, LockedBy
<1>4. UncommittedUntouched /\ SettledHonestly
  BY DEF UncommittedUntouched, SettledHonestly
<1>5. AttemptsWerePosts /\ ResendsExplained
  BY <1>2 DEF AttemptsWerePosts, ResendsExplained, NoRow
<1>6. QED
  BY <1>1, <1>3, <1>4, <1>5 DEF OutboxInv

\* The three steps of the caller's transaction touch a row nobody holds.
LEMMA CallerInv ==
  ASSUME OutboxInv, NEW e \in Events,
         Schedule(e) \/ CallerCommit(e) \/ CallerRollback(e)
  PROVE  OutboxInv'
<1> USE DEF OutboxInv
<1>0. /\ batch' = batch /\ todo' = todo /\ acked' = acked
      /\ lockless' = lockless /\ seen' = seen /\ malformed' = malformed
      /\ posts' = posts /\ received' = received /\ aborts' = aborts
      /\ raced' = raced /\ faults' = faults
      /\ caller[e] \in {"idle", "open"}
  BY DEF Schedule, CallerCommit, CallerRollback, flushVars, pastVars
<1>1. TypeOK'
  <2>1. NewRow \in Rows /\ NoRow \in Rows
    BY ConstantsOK DEF NewRow, NoRow, Rows, Statuses
  <2>2. /\ caller \in [Events -> CallerStates] /\ row \in [Events -> Rows]
        /\ created \in [Events -> Nat] /\ clock \in Nat
    BY DEF TypeOK
  <2>3. caller' \in [Events -> CallerStates]
    BY <2>2 DEF Schedule, CallerCommit, CallerRollback, CallerStates
  <2>4. row' \in [Events -> Rows]
    BY <2>1, <2>2 DEF Schedule, CallerCommit, CallerRollback
  <2>5. created' \in [Events -> Nat] /\ clock' \in Nat
    BY <2>2 DEF Schedule, CallerCommit, CallerRollback
  <2>6. QED
    BY <1>0, <2>3, <2>4, <2>5 DEF TypeOK
<1>2. \A f \in Events \ {e} : caller'[f] = caller[f] /\ row'[f] = row[f]
  BY DEF TypeOK, Schedule, CallerCommit, CallerRollback
<1>3. \A w \in Workers : e \notin batch[w]
  BY <1>0 DEF HeldArePending
<1>4. NoDoubleHolding' /\ AckedAreReceived'
  BY <1>0 DEF NoDoubleHolding, AckedAreReceived, LockedBy
<1>5. HeldArePending'
  BY <1>0, <1>2, <1>3 DEF HeldArePending, TypeOK
<1>6. row'[e].attempts = 0 /\ row[e].attempts = 0
  BY <1>0 DEF UncommittedUntouched, TypeOK, Schedule, CallerCommit,
     CallerRollback, NewRow, NoRow
<1>7. /\ caller'[e] # "committed" =>
           row'[e] = IF caller'[e] = "open" THEN NewRow ELSE NoRow
      /\ caller'[e] = "committed" => row'[e] = NewRow
  BY <1>0 DEF UncommittedUntouched, TypeOK, Schedule, CallerCommit, CallerRollback
<1>8. UncommittedUntouched'
  BY <1>0, <1>2, <1>7 DEF UncommittedUntouched
<1>9. SettledHonestly'
  BY <1>0, <1>2, <1>7 DEF SettledHonestly, NewRow
<1>10. \A f \in Events : row'[f].attempts = row[f].attempts /\ InHand(f)' = InHand(f)
  BY <1>0, <1>2, <1>6 DEF InHand
<1>11. AttemptsWerePosts' /\ ResendsExplained'
  BY <1>0, <1>10 DEF AttemptsWerePosts, ResendsExplained
<1>12. QED
  BY <1>1, <1>4, <1>5, <1>8, <1>9, <1>11

\* What both SELECTs do to the flush of w, on rows that were due.
LEMMA TakeInv ==
  ASSUME OutboxInv, NEW w \in Workers, NEW S \in SUBSET Pending, Take(w, S),
         faults' \in 0..MaxFaults,
         \/ /\ lockless' = lockless /\ raced' = raced
            /\ w \notin lockless
            /\ S \cap Locked = {}
         \/ lockless' = lockless \cup {w} /\ raced' = raced \cup batch'[w]
  PROVE  OutboxInv'
<1> USE DEF OutboxInv
<1>1. PICK B \in SUBSET S :
        /\ batch' = [batch EXCEPT ![w] = B]
        /\ seen' = [seen EXCEPT ![w] = [e \in Events |-> IF e \in B THEN row[e].attempts ELSE 0]]
        /\ todo' = [todo EXCEPT ![w] = B]
        /\ acked' = [acked EXCEPT ![w] = {}]
        /\ B # {}
  BY DEF Take
<1>2. UNCHANGED <<malformed, caller, created, clock, row, received, posts, aborts>>
  BY DEF Take, callerVars
<1>3. B \subseteq Events
  BY DEF Pending
<1>4. \A e \in B : /\ caller[e] = "committed" /\ row[e].status = "pending"
                   /\ row[e].attempts < MaxAttempts
  BY DEF Pending, Due, Visible
<1>5. /\ raced \subseteq raced' /\ raced' \subseteq raced \cup B
      /\ w \in lockless' => B \subseteq raced'
      /\ \A v \in Workers \ {w} : v \in lockless' <=> v \in lockless
      /\ lockless' \subseteq Workers
  BY <1>1 DEF TypeOK
<1>6. batch[w] = {} /\ todo[w] = {}
  BY DEF Take, TypeOK
<1>7. /\ batch'[w] = B /\ todo'[w] = B /\ acked'[w] = {}
      /\ \A e \in B : seen'[w][e] = row[e].attempts
      /\ \A v \in Workers \ {w} : /\ batch'[v] = batch[v] /\ todo'[v] = todo[v]
                                  /\ acked'[v] = acked[v] /\ seen'[v] = seen[v]
  BY <1>1, <1>3 DEF TypeOK
<1>8. TypeOK'
  <2>1. [e \in Events |-> IF e \in B THEN row[e].attempts ELSE 0] \in [Events -> 0..MaxAttempts]
    BY ConstantsOK DEF TypeOK, Rows
  <2>2. raced' \subseteq Events
    BY <1>3, <1>5 DEF TypeOK
  <2>3. seen' \in [Workers -> [Events -> 0..MaxAttempts]]
    BY <1>1, <2>1 DEF TypeOK
  <2>4. /\ batch' \in [Workers -> SUBSET Events] /\ todo' \in [Workers -> SUBSET Events]
        /\ acked' \in [Workers -> SUBSET Events]
    BY <1>1, <1>3 DEF TypeOK
  <2>5. \A v \in Workers : todo'[v] \subseteq batch'[v] /\ acked'[v] \subseteq batch'[v]
    BY <1>7 DEF TypeOK
  <2>6. lockless' \subseteq {v \in Workers : batch'[v] # {}}
    BY <1>1, <1>5, <1>7 DEF TypeOK
  <2>7. QED
    BY <1>2, <2>2, <2>3, <2>4, <2>5, <2>6 DEF TypeOK
<1>9. NoDoubleHolding'
  <2>1. \A v \in Workers \ {w} : LockedBy(v)' = LockedBy(v)
    BY <1>5, <1>7 DEF LockedBy
  <2>2. \A v \in Workers \ {w} :
          /\ batch[v] \cap B \subseteq raced'
          /\ LockedBy(v) \cap LockedBy(w)' = {}
    <3> TAKE v \in Workers \ {w}
    <3>1. CASE w \in lockless'
      BY <3>1, <1>5 DEF LockedBy
    <3>2. CASE w \notin lockless'
      <4>1. B \cap LockedBy(v) = {} /\ LockedBy(w)' = B
        BY <3>2, <1>7 DEF Locked, LockedBy
      <4>2. v \in lockless => batch[v] \subseteq raced
        BY DEF HeldArePending
      <4>3. QED
        BY <4>1, <4>2, <1>5 DEF LockedBy
    <3>3. QED
      BY <3>1, <3>2
  <2>3. QED
    BY <1>5, <1>7, <2>1, <2>2 DEF NoDoubleHolding
<1>10. HeldArePending'
  <2> SUFFICES ASSUME NEW v \in Workers, NEW e \in batch'[v]
               PROVE  /\ caller'[e] = "committed"
                      /\ seen'[v][e] < MaxAttempts
                      /\ v \in lockless' => e \in raced'
                      /\ v \notin lockless' => row'[e].status = "pending"
                                               /\ row'[e].attempts = seen'[v][e]
    BY DEF HeldArePending
  <2>1. CASE v = w
    BY <2>1, <1>2, <1>4, <1>5, <1>7
  <2>2. CASE v # w
    BY <2>2, <1>2, <1>5, <1>7 DEF HeldArePending
  <2>3. QED
    BY <2>1, <2>2
<1>11. AckedAreReceived'
  BY <1>2, <1>7 DEF AckedAreReceived
<1>12. UncommittedUntouched'
  BY <1>2, <1>4, <1>5 DEF UncommittedUntouched
<1>13. SettledHonestly'
  BY <1>2, <1>5 DEF SettledHonestly
<1>14. AttemptsWerePosts'
  <2>1. \A e \in B : seen'[w][e] <= posts[e] /\ seen'[w][e] \in Nat
    BY <1>3, <1>7 DEF AttemptsWerePosts, TypeOK, Rows
  <2>2. \A e \in B : seen'[w][e] + (IF e \notin todo'[w] THEN 1 ELSE 0) <= posts[e]
    BY <1>7, <2>1
  <2>3. \A e \in Events : row[e].attempts <= posts[e]
    BY DEF AttemptsWerePosts
  <2>4. \A e \in Events, v \in Workers \ {w} : e \in batch'[v] =>
          seen'[v][e] + (IF e \notin todo'[v] THEN 1 ELSE 0) <= posts[e]
    BY <1>7 DEF AttemptsWerePosts
  <2>5. \A e \in Events, v \in Workers : e \in batch'[v] =>
          seen'[v][e] + (IF e \notin todo'[v] THEN 1 ELSE 0) <= posts[e]
    BY <1>7, <2>2, <2>4
  <2>6. QED
    BY <1>2, <2>3, <2>5 DEF AttemptsWerePosts
<1>15. \A e \in Events : InHand(e)' = InHand(e)
  BY <1>6, <1>7 DEF InHand
<1>16. ResendsExplained'
  BY <1>2, <1>5, <1>15 DEF ResendsExplained
<1>17. QED
  BY <1>8, <1>9, <1>10, <1>11, <1>12, <1>13, <1>14, <1>16

\* A worker with an empty batch has no business with locks.
LEMMA SelectInv ==
  ASSUME OutboxInv, NEW w \in Workers, SelectBatch(w) \/ SelectLockless(w)
  PROVE  OutboxInv'
<1>1. CASE SelectBatch(w)
  <2>1. Eligible \in SUBSET Pending /\ Eligible \cap Locked = {}
    BY DEF Eligible
  <2>2. faults' \in 0..MaxFaults /\ lockless' = lockless /\ raced' = raced
    BY <1>1 DEF SelectBatch, OutboxInv, TypeOK
  <2>3. w \notin lockless
    BY <1>1 DEF SelectBatch, Take, OutboxInv, TypeOK
  <2>4. QED
    BY <1>1, <2>1, <2>2, <2>3, TakeInv DEF SelectBatch
<1>2. CASE SelectLockless(w)
  <2>1. faults' \in 0..MaxFaults
    BY <1>2, ConstantsOK DEF SelectLockless, OutboxInv, TypeOK
  <2>2. QED
    BY <1>2, <2>1, TakeInv DEF SelectLockless
<1>3. QED
  BY <1>1, <1>2

\* A POST moves one row from "to do" to "in hand" and counts once.
LEMMA PostInv ==
  ASSUME OutboxInv, NEW w \in Workers, NEW e \in Events, Post(w, e)
  PROVE  OutboxInv'
<1> USE DEF OutboxInv
<1>1. /\ e \in todo[w] /\ e \in batch[w]
      /\ todo' = [todo EXCEPT ![w] = @ \ {e}]
      /\ posts' = [posts EXCEPT ![e] = Bump(@)]
      /\ UNCHANGED <<malformed, caller, created, clock, row, batch, lockless, seen,
                     aborts, raced, faults>>
      /\ received \subseteq received' /\ received' \subseteq received \cup {e}
  BY DEF Post, IsNext, callerVars, TypeOK
<1>2. \/ acked' = [acked EXCEPT ![w] = @ \cup {e}] /\ e \in received'
      \/ acked' = acked
  BY DEF Post
<1>3. TypeOK'
  <2>1. posts' \in [Events -> 0..Cap]
    BY <1>1, BumpFacts DEF TypeOK
  <2>2. acked' \in [Workers -> SUBSET Events] /\ received' \subseteq Events
    BY <1>1, <1>2 DEF TypeOK
  <2>3. todo' \in [Workers -> SUBSET Events]
    BY <1>1 DEF TypeOK
  <2>4. \A v \in Workers : todo'[v] \subseteq batch[v] /\ acked'[v] \subseteq batch[v]
    BY <1>1, <1>2 DEF TypeOK
  <2>5. QED
    BY <1>1, <2>1, <2>2, <2>3, <2>4 DEF TypeOK
<1>4. NoDoubleHolding' /\ HeldArePending'
  BY <1>1 DEF NoDoubleHolding, HeldArePending, LockedBy
<1>5. AckedAreReceived'
  BY <1>1, <1>2 DEF AckedAreReceived, TypeOK
<1>6. caller[e] = "committed"
  BY <1>1 DEF HeldArePending
<1>7. UncommittedUntouched'
  BY <1>1, <1>6 DEF UncommittedUntouched, TypeOK
<1>8. /\ e \notin raced => ~InHand(e)
      /\ InHand(e)'
  BY <1>1 DEF InHand, TypeOK, NoDoubleHolding
<1>9. \A f \in Events \ {e} : InHand(f)' = InHand(f) /\ posts'[f] = posts[f]
  BY <1>1 DEF InHand, TypeOK
<1>10. /\ posts'[e] = IF posts[e] < Cap THEN posts[e] + 1 ELSE Cap
       /\ seen[w][e] < MaxAttempts /\ seen[w][e] \in Nat
       /\ posts[e] \in 0..Cap /\ aborts \in Nat
       /\ \A f \in Events : row[f].attempts \in 0..MaxAttempts
       /\ \A f \in Events, v \in Workers : seen[v][f] \in 0..MaxAttempts
  BY <1>1, BumpFacts, ConstantsOK DEF TypeOK, HeldArePending, Rows
<1>11. posts[e] <= posts'[e] /\ posts'[e] \in 0..Cap
  BY <1>10, ConstantsOK
<1>12. SettledHonestly'
  BY <1>1, <1>9, <1>10, <1>11, ConstantsOK DEF SettledHonestly
<1>13. AttemptsWerePosts'
  <2> SUFFICES ASSUME NEW f \in Events
               PROVE  /\ row[f].attempts <= posts'[f]
                      /\ \A v \in Workers : f \in batch[v] =>
                           seen[v][f] + (IF f \notin todo'[v] THEN 1 ELSE 0) <= posts'[f]
    BY <1>1 DEF AttemptsWerePosts
  <2>1. row[f].attempts <= posts'[f]
    BY <1>9, <1>10, <1>11, ConstantsOK DEF AttemptsWerePosts
  <2>2. ASSUME NEW v \in Workers, f \in batch[v], <<v, f>> # <<w, e>>
        PROVE  seen[v][f] + (IF f \notin todo'[v] THEN 1 ELSE 0) <= posts'[f]
    <3>1. f \in todo'[v] <=> f \in todo[v]
      BY <1>1, <2>2 DEF TypeOK
    <3>2. seen[v][f] + (IF f \notin todo[v] THEN 1 ELSE 0) <= posts[f]
      BY <2>2 DEF AttemptsWerePosts
    <3>3. posts[f] <= posts'[f] /\ posts[f] \in Nat /\ posts'[f] \in Nat
      <4>1. posts[f] \in Nat
        BY DEF TypeOK
      <4>2. CASE f = e
        BY <4>2, <1>11, <4>1
      <4>3. CASE f # e
        BY <4>3, <1>9, <4>1
      <4>4. QED
        BY <4>2, <4>3
    <3>4. QED
      BY <1>10, <3>1, <3>2, <3>3
  <2>3. seen[w][e] + 1 <= posts'[e]
    <3>1. seen[w][e] + (IF e \notin todo[w] THEN 1 ELSE 0) <= posts[e]
      BY <1>1 DEF AttemptsWerePosts
    <3>2. QED
      BY <1>1, <3>1, <1>10, ConstantsOK
  <2>4. e \notin todo'[w]
    BY <1>1 DEF TypeOK
  <2>5. QED
    BY <2>1, <2>2, <2>3, <2>4
<1>14. ResendsExplained'
  BY <1>1, <1>8, <1>9, <1>10, <1>11, ConstantsOK DEF ResendsExplained, TypeOK
<1>15. QED
  BY <1>3, <1>4, <1>5, <1>7, <1>12, <1>13, <1>14

\* What the end of a flush does to its variables.
LEMMA DropFacts ==
  ASSUME OutboxInv, NEW w \in Workers, Drop(w)
  PROVE  /\ batch'[w] = {} /\ todo'[w] = {} /\ acked'[w] = {} /\ w \notin lockless'
         /\ \A v \in Workers \ {w} :
              /\ batch'[v] = batch[v] /\ todo'[v] = todo[v] /\ acked'[v] = acked[v]
              /\ seen'[v] = seen[v] /\ (v \in lockless' <=> v \in lockless)
              /\ LockedBy(v)' = LockedBy(v)
         /\ batch' \in [Workers -> SUBSET Events]
         /\ lockless' \subseteq {v \in Workers : batch'[v] # {}}
         /\ seen' \in [Workers -> [Events -> 0..MaxAttempts]]
         /\ todo' \in [Workers -> SUBSET Events]
         /\ acked' \in [Workers -> SUBSET Events]
         /\ \A v \in Workers : todo'[v] \subseteq batch'[v] /\ acked'[v] \subseteq batch'[v]
<1> USE DEF OutboxInv
<1>1. Nothing \in [Events -> 0..MaxAttempts]
  BY ConstantsOK DEF Nothing
<1>2. /\ batch'[w] = {} /\ todo'[w] = {} /\ acked'[w] = {} /\ w \notin lockless'
      /\ \A v \in Workers \ {w} :
           /\ batch'[v] = batch[v] /\ todo'[v] = todo[v] /\ acked'[v] = acked[v]
           /\ seen'[v] = seen[v] /\ (v \in lockless' <=> v \in lockless)
  BY DEF Drop, TypeOK
<1>3. /\ batch' \in [Workers -> SUBSET Events]
      /\ todo' \in [Workers -> SUBSET Events]
      /\ acked' \in [Workers -> SUBSET Events]
      /\ lockless' \subseteq Workers
  BY DEF Drop, TypeOK
<1>4. seen' \in [Workers -> [Events -> 0..MaxAttempts]]
  BY <1>1 DEF Drop, TypeOK
<1>5. lockless' \subseteq {v \in Workers : batch'[v] # {}}
  BY <1>2, <1>3 DEF TypeOK
<1>6. \A v \in Workers : todo'[v] \subseteq batch'[v] /\ acked'[v] \subseteq batch'[v]
  BY <1>2 DEF TypeOK
<1>7. \A v \in Workers \ {w} : LockedBy(v)' = LockedBy(v)
  BY <1>2 DEF LockedBy
<1>8. QED
  BY <1>2, <1>3, <1>4, <1>5, <1>6, <1>7

\* The commit turns every row in hand into one more recorded attempt.
LEMMA CommitBatchInv ==
  ASSUME OutboxInv, NEW w \in Workers, CommitBatch(w)
  PROVE  OutboxInv'
<1> USE DEF OutboxInv
<1>1. /\ todo[w] = {} /\ Drop(w)
      /\ UNCHANGED <<malformed, caller, created, clock, received, posts, aborts, raced, faults>>
      /\ \A e \in batch[w] : row'[e] = Settled(row[e], seen[w][e], e \in acked[w])
      /\ \A e \in Events : e \notin batch[w] => row'[e] = row[e]
      /\ \A v \in Workers \ {w} : LockedBy(v) \cap batch[w] = {}
      /\ batch[w] \subseteq Events
  BY DEF CommitBatch, callerVars, pastVars, TypeOK
<1>2. \A e \in batch[w] : /\ row[e] \in Rows /\ row[e].status # "absent"
                          /\ seen[w][e] \in 0..MaxAttempts /\ seen[w][e] < MaxAttempts
                          /\ caller[e] = "committed"
  BY <1>1 DEF TypeOK, HeldArePending, SettledHonestly
<1>3. \A e \in batch[w] :
         /\ row'[e] \in Rows
         /\ row'[e].attempts = seen[w][e] + 1
         /\ row'[e].status # "absent"
         /\ e \in acked[w] => row'[e].status = "delivered"
         /\ e \notin acked[w] /\ seen[w][e] + 1 = MaxAttempts => row'[e].status = "failed"
         /\ e \notin acked[w] /\ seen[w][e] + 1 # MaxAttempts => row'[e].status = row[e].status
  <2> TAKE e \in batch[w]
  <2> DEFINE ok == e \in acked[w]
             n == seen[w][e]
             s == Settled(row[e], n, ok)
  <2>1. /\ row[e] \in Rows /\ row[e].status # "absent"
        /\ n \in 0..MaxAttempts /\ n < MaxAttempts /\ ok \in BOOLEAN
    BY <1>2
  <2>2. row'[e] = s
    BY <1>1
  <2> HIDE DEF ok, n
  <2>3. /\ s \in Rows /\ s.attempts = n + 1 /\ s.status # "absent"
        /\ ok => s.status = "delivered"
        /\ ~ok /\ n + 1 = MaxAttempts => s.status = "failed"
        /\ ~ok /\ n + 1 # MaxAttempts => s.status = row[e].status
    BY <2>1, SettledFacts
  <2> HIDE DEF s
  <2>4. QED
    BY <2>2, <2>3 DEF ok, n
<1>4. TypeOK'
  <2>1. row' \in [Events -> Rows]
    BY <1>1, <1>3 DEF CommitBatch, TypeOK
  <2>2. QED
    BY <1>1, <2>1, DropFacts DEF TypeOK
<1>5. NoDoubleHolding' /\ AckedAreReceived'
  <2>1. LockedBy(w)' = {}
    BY <1>1, DropFacts DEF LockedBy
  <2>2. NoDoubleHolding'
    <3>1. \A v \in Workers \ {w} : batch'[v] = batch[v] /\ LockedBy(v)' = LockedBy(v)
      BY <1>1, DropFacts
    <3>2. batch'[w] = {} /\ raced' = raced
      BY <1>1, DropFacts
    <3>3. QED
      BY <2>1, <3>1, <3>2 DEF NoDoubleHolding
  <2>3. AckedAreReceived'
    <3>1. \A v \in Workers : acked'[v] = {} \/
            (acked'[v] = acked[v] /\ batch'[v] = batch[v] /\ todo'[v] = todo[v])
      BY <1>1, DropFacts
    <3>2. QED
      BY <1>1, <3>1 DEF AckedAreReceived
  <2>4. QED
    BY <2>2, <2>3
<1>6. HeldArePending'
  <2> SUFFICES ASSUME NEW v \in Workers, NEW e \in batch'[v]
               PROVE  /\ caller'[e] = "committed"
                      /\ seen'[v][e] < MaxAttempts
                      /\ v \in lockless' => e \in raced'
                      /\ v \notin lockless' => row'[e].status = "pending"
                                               /\ row'[e].attempts = seen'[v][e]
    BY DEF HeldArePending
  <2>1. v # w /\ e \in batch[v] /\ e \in Events
        /\ seen'[v] = seen[v] /\ (v \in lockless' <=> v \in lockless)
    BY <1>1, DropFacts DEF TypeOK
  <2>2. v \notin lockless => e \notin batch[w]
    BY <1>1, <2>1 DEF LockedBy
  <2>3. QED
    BY <1>1, <2>1, <2>2 DEF HeldArePending
<1>7. UncommittedUntouched'
  BY <1>1, <1>2 DEF UncommittedUntouched
<1>8. \A e \in batch[w] : seen[w][e] + 1 <= posts[e]
  BY <1>1 DEF AttemptsWerePosts
<1>9. \A e \in batch[w] \ raced : row[e].status = "pending" /\ row[e].attempts = seen[w][e]
  BY DEF HeldArePending
<1>10. SettledHonestly'
  <2> SUFFICES ASSUME NEW e \in Events, caller[e] = "committed"
               PROVE  /\ row'[e].status # "absent"
                      /\ row'[e].status = "delivered" => e \in received
                      /\ row'[e].status = "failed" =>
                           /\ posts[e] >= MaxAttempts
                           /\ e \notin raced => row'[e].attempts = MaxAttempts
    BY <1>1 DEF SettledHonestly
  <2>1. CASE e \notin batch[w]
    BY <2>1, <1>1 DEF SettledHonestly
  <2>2. CASE e \in acked[w] /\ e \in batch[w]
    BY <2>2, <1>3 DEF AckedAreReceived
  <2>3. CASE e \in batch[w] \ acked[w] /\ seen[w][e] + 1 = MaxAttempts
    BY <2>3, <1>3, <1>8
  <2>4. CASE e \in batch[w] \ acked[w] /\ seen[w][e] + 1 # MaxAttempts
    BY <2>4, <1>3, <1>9 DEF SettledHonestly
  <2>5. QED
    BY <2>1, <2>2, <2>3, <2>4
<1>11. AttemptsWerePosts'
  <2> SUFFICES ASSUME NEW e \in Events
               PROVE  /\ row'[e].attempts <= posts[e]
                      /\ \A v \in Workers : e \in batch'[v] =>
                           seen'[v][e] + (IF e \notin todo'[v] THEN 1 ELSE 0) <= posts[e]
    BY <1>1 DEF AttemptsWerePosts
  <2>1. row'[e].attempts <= posts[e]
    BY <1>1, <1>3, <1>8 DEF AttemptsWerePosts
  <2>2. \A v \in Workers : e \in batch'[v] =>
          v # w /\ e \in batch[v] /\ seen'[v] = seen[v] /\ todo'[v] = todo[v]
    BY <1>1, DropFacts
  <2>3. QED
    BY <2>1, <2>2 DEF AttemptsWerePosts
<1>12. ResendsExplained'
  <2> SUFFICES ASSUME NEW e \in Events \ raced
               PROVE  posts[e] <= row'[e].attempts + (IF InHand(e)' THEN 1 ELSE 0) + aborts
    BY <1>1 DEF ResendsExplained
  <2>0. /\ posts[e] <= row[e].attempts + (IF InHand(e) THEN 1 ELSE 0) + aborts
        /\ posts[e] \in Nat /\ aborts \in Nat
    BY DEF ResendsExplained, TypeOK
  <2>1. CASE e \in batch[w]
    <3>1. row'[e].attempts = row[e].attempts + 1 /\ row[e].attempts \in Nat
      BY <2>1, <1>3, <1>9 DEF TypeOK, Rows
    <3>2. QED
      BY <2>0, <3>1
  <2>2. CASE e \notin batch[w]
    <3>1. row'[e] = row[e] /\ row[e].attempts \in Nat
      BY <2>2, <1>1 DEF TypeOK, Rows
    <3>2. InHand(e) => InHand(e)'
      BY <1>1, <2>2, DropFacts DEF InHand
    <3>3. QED
      BY <2>0, <3>1, <3>2
  <2>3. QED
    BY <2>1, <2>2
<1>13. QED
  BY <1>4, <1>5, <1>6, <1>7, <1>10, <1>11, <1>12

\* A lost flush forgets its POSTs and counts as one abort.
LEMMA AbandonInv ==
  ASSUME OutboxInv, NEW w \in Workers, AbandonBatch(w),
         faults' \in 0..MaxFaults
  PROVE  OutboxInv'
<1> USE DEF OutboxInv
<1>1. /\ Drop(w)
      /\ aborts' = Bump(aborts)
      /\ UNCHANGED <<malformed, caller, created, clock, row, received, posts, raced>>
  BY DEF AbandonBatch, callerVars
<1>2. aborts' = (IF aborts < Cap THEN aborts + 1 ELSE Cap) /\ aborts' \in 0..Cap
  BY <1>1, BumpFacts DEF TypeOK
<1>3. TypeOK'
  BY <1>1, <1>2, DropFacts DEF TypeOK
<1>4. NoDoubleHolding' /\ AckedAreReceived' /\ HeldArePending'
  <2>1. LockedBy(w)' = {}
    BY <1>1, DropFacts DEF LockedBy
  <2>2. NoDoubleHolding'
    <3>1. \A v \in Workers \ {w} : batch'[v] = batch[v] /\ LockedBy(v)' = LockedBy(v)
      BY <1>1, DropFacts
    <3>2. batch'[w] = {} /\ raced' = raced
      BY <1>1, DropFacts
    <3>3. QED
      BY <2>1, <3>1, <3>2 DEF NoDoubleHolding
  <2>3. AckedAreReceived'
    <3>1. \A v \in Workers : acked'[v] = {} \/
            (acked'[v] = acked[v] /\ batch'[v] = batch[v] /\ todo'[v] = todo[v])
      BY <1>1, DropFacts
    <3>2. QED
      BY <1>1, <3>1 DEF AckedAreReceived
  <2>4. HeldArePending'
    BY <1>1, DropFacts DEF HeldArePending
  <2>5. QED
    BY <2>2, <2>3, <2>4
<1>5. UncommittedUntouched' /\ SettledHonestly'
  BY <1>1 DEF UncommittedUntouched, SettledHonestly
<1>6. \A e \in Events, v \in Workers : e \in batch'[v] =>
        e \in batch[v] /\ todo'[v] = todo[v] /\ seen'[v] = seen[v]
  BY <1>1, DropFacts
<1>7. \A e \in Events : row[e].attempts \in Nat /\ posts[e] \in 0..Cap
  BY DEF TypeOK, Rows
<1>8. AttemptsWerePosts'
  BY <1>1, <1>6 DEF AttemptsWerePosts
<1>9. ResendsExplained'
  BY <1>1, <1>2, <1>7, ConstantsOK DEF ResendsExplained, TypeOK
<1>10. QED
  BY <1>3, <1>4, <1>5, <1>8, <1>9

\* Every step keeps the invariant.
LEMMA NextInv == OutboxInv /\ [Next]_vars => OutboxInv'
<1> SUFFICES ASSUME OutboxInv, [Next]_vars PROVE OutboxInv'
  OBVIOUS
<1>1. ASSUME NEW e \in Events, Schedule(e) \/ CallerCommit(e) \/ CallerRollback(e)
      PROVE  OutboxInv'
  BY <1>1, CallerInv
<1>2. ASSUME NEW w \in Workers, SelectBatch(w) \/ SelectLockless(w) PROVE OutboxInv'
  BY <1>2, SelectInv
<1>3. ASSUME NEW w \in Workers, NEW e \in Events, Post(w, e) PROVE OutboxInv'
  BY <1>3, PostInv
<1>4. ASSUME NEW w \in Workers, CommitBatch(w) PROVE OutboxInv'
  BY <1>4, CommitBatchInv
<1>5. ASSUME NEW w \in Workers, NEW e \in Events, PostRaises(w, e) PROVE OutboxInv'
  <2>1. faults' \in 0..MaxFaults
    BY <1>5 DEF PostRaises, OutboxInv, TypeOK
  <2>2. QED
    BY <1>5, <2>1, AbandonInv DEF PostRaises
<1>6. ASSUME NEW w \in Workers, Fault(w) PROVE OutboxInv'
  <2>1. faults' \in 0..MaxFaults
    BY <1>6, ConstantsOK DEF Fault, OutboxInv, TypeOK
  <2>2. QED
    BY <1>6, <2>1, AbandonInv DEF Fault
<1>7. CASE UNCHANGED vars
  BY <1>7 DEF vars, callerVars, flushVars, pastVars, OutboxInv, TypeOK, NoDoubleHolding,
     LockedBy, HeldArePending, AckedAreReceived, UncommittedUntouched, SettledHonestly,
     AttemptsWerePosts, ResendsExplained, InHand
<1>8. QED
  BY <1>1, <1>2, <1>3, <1>4, <1>5, <1>6, <1>7 DEF Next, Flush

\* The inductive invariant holds of every reachable state, whatever the
\* number of events, workers, attempts and faults.
THEOREM InvHolds == Spec => []OutboxInv
<1>1. QED
  BY InitInv, NextInv, PTL DEF Spec

\* The type invariant, a part of the inductive one.
THEOREM TypeCorrect == Spec => []TypeOK
BY InvHolds, PTL DEF OutboxInv

\* No receiver hears of a transaction that has not committed.
THEOREM NoEarlyPost == Spec => []PostedOnlyIfCommitted
<1>1. OutboxInv => PostedOnlyIfCommitted
  BY DEF OutboxInv, UncommittedUntouched, PostedOnlyIfCommitted
<1>2. QED
  BY <1>1, InvHolds, PTL

\* Every POST beyond the recorded attempts is owed to one lost flush, or to a
\* flush that has taken the very event without its lock.
THEOREM ResendSafe == Spec => []ResendsExplained
BY InvHolds, PTL DEF OutboxInv

(***************************************************************************)
(* The outbox implements WebhookContract.                                  *)
(***************************************************************************)

\* Initially nothing is promised.
LEMMA ContractInit == Init => Contract!Init
BY DEF Init, Contract!Init, PromiseOf, Visible

\* A committing caller owes its event; nothing else the caller does shows.
LEMMA ContractCaller ==
  ASSUME OutboxInv, NEW e \in Events,
         Schedule(e) \/ CallerCommit(e) \/ CallerRollback(e)
  PROVE  [Contract!Next]_Contract!vars
<1>1. UNCHANGED <<posts, received, raced>>
  BY DEF Schedule, CallerCommit, CallerRollback, pastVars
<1>2. caller \in [Events -> CallerStates]
  BY DEF OutboxInv, TypeOK
<1>3. ASSUME Schedule(e) \/ CallerRollback(e)
      PROVE  [f \in Events |-> PromiseOf(f)]' = [f \in Events |-> PromiseOf(f)]
  <2>1. ~Visible(e) /\ ~Visible(e)'
    BY <1>2, <1>3 DEF Schedule, CallerRollback, Visible
  <2>2. \A f \in Events \ {e} : Visible(f)' = Visible(f) /\ row'[f] = row[f]
    BY <1>2, <1>3 DEF Schedule, CallerRollback, Visible, OutboxInv, TypeOK
  <2>3. \A f \in Events : PromiseOf(f)' = PromiseOf(f)
    BY <2>1, <2>2 DEF PromiseOf
  <2>4. QED
    BY <2>3
<1>4. ASSUME CallerCommit(e)
      PROVE  Contract!Owe(e)
  <2>1. ~Visible(e) /\ Visible(e)' /\ row' = row
    BY <1>2, <1>4 DEF CallerCommit, Visible
  <2>2. row[e] = NewRow
    BY <1>4 DEF CallerCommit, OutboxInv, UncommittedUntouched
  <2>3. PromiseOf(e) = "none" /\ PromiseOf(e)' = "owed"
    BY <2>1, <2>2 DEF PromiseOf, NewRow
  <2>4. \A f \in Events \ {e} : PromiseOf(f)' = PromiseOf(f)
    BY <1>2, <1>4, <2>1 DEF CallerCommit, PromiseOf, Visible
  <2>5. QED
    BY <1>1, <2>3, <2>4 DEF Contract!Owe
<1>5. QED
  BY <1>1, <1>3, <1>4 DEF Contract!Next, Contract!vars

\* What a flush has in hand is committed, and still owed unless the event was
\* once taken without its lock.
LEMMA HeldIsOpen ==
  ASSUME OutboxInv, NEW w \in Workers, NEW e \in batch[w]
  PROVE  /\ e \in Events
         /\ Visible(e)
         /\ PromiseOf(e) # "none"
         /\ PromiseOf(e) = "owed" \/ e \in raced
         /\ Contract!Open(e)
<1>1. e \in Events /\ Visible(e)
  BY DEF OutboxInv, TypeOK, HeldArePending, Visible
<1>2. PromiseOf(e) # "none"
  BY <1>1 DEF PromiseOf
<1>3. PromiseOf(e) = "owed" \/ e \in raced
  BY <1>1 DEF OutboxInv, HeldArePending, PromiseOf
<1>4. QED
  BY <1>1, <1>2, <1>3 DEF Contract!Open

\* A POST is an attempt at an event that is owed, or was taken without its lock.
LEMMA ContractPost ==
  ASSUME OutboxInv, NEW w \in Workers, NEW e \in Events, Post(w, e)
  PROVE  Contract!Attempt(e)
<1>1. e \in batch[w]
  BY DEF Post, IsNext, OutboxInv, TypeOK
<1>2. Contract!Open(e)
  BY <1>1, HeldIsOpen
<1>3. \A f \in Events : PromiseOf(f)' = PromiseOf(f)
  BY DEF Post, callerVars, PromiseOf, Visible
<1>4. posts' = [posts EXCEPT ![e] = Contract!Bump(@)]
  BY DEF Post, Bump, Contract!Bump
<1>5. received' \in {received, received \cup {e}} /\ raced' = raced
  BY DEF Post
<1>6. QED
  BY <1>2, <1>3, <1>4, <1>5 DEF Contract!Attempt

\* The SELECT without locks loosens what it takes, all of it owed.
LEMMA ContractLockless ==
  ASSUME OutboxInv, NEW w \in Workers, SelectLockless(w)
  PROVE  \E es \in SUBSET Events : Contract!Loosen(es)
<1>1. batch'[w] \subseteq Pending
  BY DEF SelectLockless, Take, OutboxInv, TypeOK
<1>2. \A e \in batch'[w] : e \in Events /\ PromiseOf(e) = "owed"
  BY <1>1 DEF Pending, Due, PromiseOf
<1>3. UNCHANGED <<caller, row, posts, received>> /\ raced' = raced \cup batch'[w]
  BY DEF SelectLockless, Take, callerVars
<1>4. \A f \in Events : PromiseOf(f)' = PromiseOf(f)
  BY <1>3 DEF PromiseOf, Visible
<1>5. Contract!Loosen(batch'[w])
  BY <1>2, <1>3, <1>4 DEF Contract!Loosen
<1>6. QED
  BY <1>2, <1>5

\* A commit closes the delivered rows and those whose attempts are used up.
LEMMA ContractCommit ==
  ASSUME OutboxInv, NEW w \in Workers, CommitBatch(w)
  PROVE  \E kept, dropped \in SUBSET Events : Contract!Close(kept, dropped)
<1> DEFINE kept == batch[w] \cap acked[w]
           dropped == {e \in batch[w] \ acked[w] : seen[w][e] + 1 >= MaxAttempts}
<1>1. batch[w] \subseteq Events
  BY DEF OutboxInv, TypeOK
<1>2. \A e \in batch[w] : Contract!Open(e) /\ Visible(e)
  BY HeldIsOpen
<1>3. \A e \in kept : e \in received
  BY DEF OutboxInv, AckedAreReceived
<1>4. \A e \in dropped : posts[e] >= MaxAttempts
  <2> TAKE e \in dropped
  <2>1. e \notin todo[w]
    BY DEF CommitBatch
  <2>2. seen[w][e] + 1 <= posts[e]
    BY <1>1, <2>1 DEF OutboxInv, AttemptsWerePosts
  <2>3. seen[w][e] \in Nat /\ posts[e] \in Nat
    BY <1>1 DEF OutboxInv, TypeOK
  <2>4. QED
    BY <2>2, <2>3, ConstantsOK
<1>5. UNCHANGED <<caller, posts, received, raced>>
  BY DEF CommitBatch, callerVars, pastVars
<1>6. \A e \in Events : PromiseOf(e)' = IF e \in kept THEN "kept"
                                        ELSE IF e \in dropped THEN "dropped"
                                        ELSE PromiseOf(e)
  <2> TAKE e \in Events
  <2>1. CASE e \notin batch[w]
    BY <2>1, <1>5 DEF CommitBatch, PromiseOf, Visible
  <2>2. CASE e \in batch[w]
    <3>1. row'[e] = Settled(row[e], seen[w][e], e \in acked[w]) /\ Visible(e)' /\ Visible(e)
      BY <2>2, <1>2, <1>5 DEF CommitBatch, Visible
    <3>2. CASE e \in acked[w]
      BY <2>2, <3>1, <3>2 DEF PromiseOf, Settled
    <3>3. CASE e \notin acked[w]
      BY <2>2, <3>1, <3>3 DEF PromiseOf, Settled
    <3>4. QED
      BY <3>2, <3>3
  <2>3. QED
    BY <2>1, <2>2
<1>7. [e \in Events |-> PromiseOf(e)]'
        = [e \in Events |-> IF e \in kept THEN "kept"
                            ELSE IF e \in dropped THEN "dropped"
                            ELSE [f \in Events |-> PromiseOf(f)][e]]
  BY <1>6
<1>8. kept \in SUBSET Events /\ dropped \in SUBSET Events
  BY <1>1
<1>9. Contract!Close(kept, dropped)
  <2>1. (\A e \in kept : Contract!Open(e)) /\ (\A e \in dropped : Contract!Open(e))
    BY <1>2
  <2> HIDE DEF kept, dropped
  <2>2. QED
    BY <1>3, <1>4, <1>5, <1>7, <2>1 DEF Contract!Close
<1>10. QED
  BY <1>8, <1>9

\* Selecting with locks, abandoning and stuttering do not show.
LEMMA ContractStutter ==
  ASSUME UNCHANGED <<caller, row, posts, received, raced>>
  PROVE  UNCHANGED Contract!vars
BY DEF Contract!vars, PromiseOf, Visible

\* Every step of the outbox is a step of the contract or hidden.
LEMMA ContractNext == OutboxInv /\ [Next]_vars => [Contract!Next]_Contract!vars
<1> SUFFICES ASSUME OutboxInv, [Next]_vars PROVE [Contract!Next]_Contract!vars
  OBVIOUS
<1>1. ASSUME NEW e \in Events, Schedule(e) \/ CallerCommit(e) \/ CallerRollback(e)
      PROVE  [Contract!Next]_Contract!vars
  BY <1>1, ContractCaller
<1>2. ASSUME NEW w \in Workers, NEW e \in Events, Post(w, e)
      PROVE  [Contract!Next]_Contract!vars
  BY <1>2, ContractPost DEF Contract!Next
<1>3. ASSUME NEW w \in Workers, CommitBatch(w)
      PROVE  [Contract!Next]_Contract!vars
  BY <1>3, ContractCommit DEF Contract!Next
<1>4. ASSUME NEW w \in Workers,
             SelectBatch(w) \/ Fault(w) \/ \E e \in Events : PostRaises(w, e)
      PROVE  [Contract!Next]_Contract!vars
  <2>1. UNCHANGED <<caller, row, posts, received, raced>>
    BY <1>4 DEF SelectBatch, Take, Fault, PostRaises, AbandonBatch, callerVars
  <2>2. QED
    BY <2>1, ContractStutter
<1>5. ASSUME NEW w \in Workers, SelectLockless(w)
      PROVE  [Contract!Next]_Contract!vars
  BY <1>5, ContractLockless DEF Contract!Next
<1>6. CASE UNCHANGED vars
  <2>1. UNCHANGED <<caller, row, posts, received, raced>>
    BY <1>6 DEF vars, callerVars, pastVars
  <2>2. QED
    BY <2>1, ContractStutter
<1>7. QED
  BY <1>1, <1>2, <1>3, <1>4, <1>5, <1>6 DEF Next, Flush

\* The outbox keeps the promise its table documents: at-least-once, honest
\* and final.
THEOREM Implements == Spec => KeepsContract
<1>1. QED
  BY ContractInit, ContractNext, InvHolds, PTL DEF Spec, KeepsContract, Contract!Spec

(***************************************************************************)
(* For modules that have an outbox as a part, and callers whose            *)
(* transactions are one step (Pipeline).                                   *)
(***************************************************************************)

\* Faults that do not concern the outbox leave it as it is.
LEMMA FaultElsewhere ==
  ASSUME OutboxInv, faults' \in 0..MaxFaults,
         UNCHANGED <<malformed, callerVars, row, flushVars, received, pastVars>>
  PROVE  OutboxInv' /\ UNCHANGED Contract!vars
<1>1. UNCHANGED <<malformed, caller, row, created, clock, batch, lockless, seen, todo, acked,
                  received, posts, aborts, raced>>
  BY DEF callerVars, flushVars, pastVars
<1>2. OutboxInv'
  BY <1>1 DEF OutboxInv, TypeOK, NoDoubleHolding, LockedBy, HeldArePending, AckedAreReceived,
     UncommittedUntouched, SettledHonestly, AttemptsWerePosts, ResendsExplained, InHand
<1>3. QED
  BY <1>1, <1>2, ContractStutter

\* schedule_webhook and the commit of the caller's transaction in one step,
\* which a fault may hit elsewhere.
Publish(e) ==
  /\ caller[e] = "idle"
  /\ caller' = [caller EXCEPT ![e] = "committed"]
  /\ row' = [row EXCEPT ![e] = NewRow]
  /\ created' = [created EXCEPT ![e] = clock]
  /\ clock' = clock + 1
  /\ faults' \in 0..MaxFaults
  /\ UNCHANGED <<malformed, flushVars, received, pastVars>>

\* It keeps the invariant, and the event is owed.
LEMMA PublishInv ==
  ASSUME OutboxInv, NEW e \in Events, Publish(e)
  PROVE  OutboxInv' /\ Contract!Owe(e)
<1> USE DEF OutboxInv
<1>1. /\ batch' = batch /\ lockless' = lockless /\ seen' = seen
      /\ todo' = todo /\ acked' = acked /\ malformed' = malformed
      /\ posts' = posts /\ received' = received /\ aborts' = aborts
      /\ raced' = raced
      /\ caller[e] = "idle" /\ caller'[e] = "committed" /\ row'[e] = NewRow
      /\ row[e] = NoRow
      /\ \A f \in Events \ {e} : caller'[f] = caller[f] /\ row'[f] = row[f]
  BY DEF Publish, flushVars, pastVars, TypeOK, UncommittedUntouched
<1>2. TypeOK'
  BY <1>1, ConstantsOK DEF TypeOK, Publish, CallerStates, Rows, Statuses, NewRow
<1>3. \A w \in Workers : e \notin batch[w]
  BY <1>1 DEF HeldArePending
<1>4. NoDoubleHolding' /\ AckedAreReceived'
  BY <1>1 DEF NoDoubleHolding, LockedBy, AckedAreReceived
<1>5. HeldArePending'
  BY <1>1, <1>3 DEF HeldArePending, TypeOK
<1>6. UncommittedUntouched' /\ SettledHonestly'
  BY <1>1 DEF UncommittedUntouched, SettledHonestly, NewRow
<1>7. \A f \in Events : row'[f].attempts = row[f].attempts /\ InHand(f)' = InHand(f)
  BY <1>1, <1>3 DEF InHand, NewRow, NoRow
<1>8. AttemptsWerePosts' /\ ResendsExplained'
  BY <1>1, <1>7 DEF AttemptsWerePosts, ResendsExplained
<1>9. PromiseOf(e) = "none" /\ PromiseOf(e)' = "owed"
  BY <1>1 DEF PromiseOf, Visible, NewRow
<1>10. \A f \in Events \ {e} : PromiseOf(f)' = PromiseOf(f)
  BY <1>1 DEF PromiseOf, Visible
<1>11. Contract!Owe(e)
  BY <1>1, <1>9, <1>10 DEF Contract!Owe
<1>12. QED
  BY <1>2, <1>4, <1>5, <1>6, <1>8, <1>11
=============================================================================
