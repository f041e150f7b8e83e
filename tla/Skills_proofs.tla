---------------------------- MODULE Skills_proofs ----------------------------
(***************************************************************************)
(* Proofs about Skills for any number of requests, keys and skills: types, *)
(* the integrity of transfers under racing deletions, how often a rollback *)
(* token can be redeemed and what its redemptions mark; and, for requests  *)
(* that share a key, that no injection is lost, that a rollback hits the   *)
(* latest transfer, and that Skills implements SkillsAtomic.               *)
(***************************************************************************)
EXTENDS Skills, FiniteSetTheorems, TLAPS

USE DEF requestVars, handlerVars

\* What an operation is made of.
LEMMA OpFacts ==
  ASSUME NEW o \in Ops
  PROVE  /\ o.kind \in News \cup Abouts
         /\ o.kind \in News => o.new \in Skills
         /\ o.kind \in Abouts => o.skill \in Skills
         /\ StatusOf(o) \in Statuses \cup {"none"}
         /\ Inserts(o) => o.kind \in {"sync", "transfer"}
         /\ Touches(o) => o.kind \in Abouts
BY DEF Ops, Extracts, Syncs, Transfers, Rollbacks, Refines, Deletes, News, Abouts, Statuses,
   StatusOf, Inserts, Touches

\* A request that has begun asks for something.
LEMMA Begun ==
  ASSUME TypeOK, NEW r \in Requests, stage[r] # "new"
  PROVE  op[r] \in Ops
BY DEF TypeOK

\* A step that only moves a handler on, or ends it without a commit.
Quiet ==
  /\ op' = op /\ skill' = skill /\ xfer' = xfer /\ redeemed' = redeemed /\ key' = key
  /\ clock' = clock
  /\ \A q \in Requests : \/ stage'[q] = stage[q]
                         \/ stage[q] \in {"open", "read"} /\ stage'[q] = "refused"
                         \/ InTransaction(q) /\ stage'[q] = "failed"

\* The steps that do more are four.
LEMMA Steps ==
  ASSUME TypeOK, [Next]_vars
  PROVE  \/ \E r \in Requests, o \in Ops : Begin(r, o)
         \/ \E r \in Requests : Read(r) \/ Flush(r) \/ Commit(r)
         \/ Quiet
<1> USE DEF TypeOK, RequestsOK, Reach, Quiet, InTransaction
<1>1. ASSUME NEW r \in Requests,
             Refuse(r) \/ SelectLatest(r) \/ CheckActive(r) \/ SelectLogs(r)
             \/ Load(r) \/ Lock(r) \/ FlushRaises(r) \/ Abort(r)
      PROVE  Quiet
  <2>1. CASE Refuse(r)
    BY <2>1 DEF Refuse, Refused
  <2>2. CASE SelectLatest(r) \/ SelectLogs(r) \/ Lock(r)
    BY <2>2 DEF SelectLatest, SelectLogs, Lock
  <2>3. CASE CheckActive(r)
    BY <2>3 DEF CheckActive
  <2>4. CASE Load(r)
    BY <2>4 DEF Load
  <2>5. CASE FlushRaises(r) \/ Abort(r)
    BY <2>5 DEF FlushRaises, Abort, RolledBack
  <2>6. QED
    BY <1>1, <2>1, <2>2, <2>3, <2>4, <2>5
<1>2. CASE UNCHANGED vars
  BY <1>2 DEF vars
<1>3. QED
  BY <1>1, <1>2 DEF Next, Proceed, Sent

(***************************************************************************)
(* Types and keys.                                                         *)
(***************************************************************************)

Rows == [state : {"absent", "live", "deleted"}, used : BOOLEAN, prev : Skills \cup {NoSkill}]
XferRows == [skill : Skills \cup {NoSkill}, status : Statuses \cup {"none"}, at : Nat]

\* A commit leaves well-formed tables behind.
LEMMA CommitTypes ==
  ASSUME TypeOK, NEW r \in Requests, Commit(r)
  PROVE  /\ skill' \in [Skills -> Rows]
         /\ xfer' \in [Requests -> XferRows]
         /\ redeemed' \in [Skills -> Nat]
<1>1. op[r] \in Ops
  BY Begun DEF Commit, Committed
<1>2. skill \in [Skills -> Rows] /\ xfer \in [Requests -> XferRows] /\ redeemed \in [Skills -> Nat]
  BY DEF TypeOK, Rows, XferRows
<1>3. SkillsAfter(op[r]) \in [Skills -> Rows]
  <2>1. CASE op[r].kind \in News
    <3>1. NewSkill(op[r]) \in Rows
      BY <1>1, OpFacts DEF NewSkill, Rows, News, Abouts
    <3>2. QED
      BY <1>1, <1>2, <2>1, <3>1, OpFacts DEF SkillsAfter, News
  <2>2. CASE op[r].kind = "rollback"
    <3>1. op[r].skill \in Skills
      BY <1>1, <2>2, OpFacts DEF Abouts
    <3>2. [skill[op[r].skill] EXCEPT !.used = TRUE] \in Rows
      BY <1>2, <3>1 DEF Rows
    <3>3. SkillsAfter(op[r]) = [skill EXCEPT ![op[r].skill] = [@ EXCEPT !.used = TRUE]]
      BY <2>2 DEF SkillsAfter, News
    <3>4. QED
      BY <1>2, <3>2, <3>3
  <2>3. CASE op[r].kind = "delete"
    <3>1. \A s \in Skills : /\ [skill[s] EXCEPT !.state = "deleted"] \in Rows
                            /\ [skill[s] EXCEPT !.prev = NoSkill] \in Rows
                            /\ skill[s] \in Rows
      BY <1>2 DEF Rows
    <3>2. QED
      BY <2>3, <3>1 DEF SkillsAfter, News
  <2>4. CASE op[r].kind = "transfer"
    BY <1>2, <2>4 DEF SkillsAfter, News
  <2>5. QED
    BY <1>1, <2>1, <2>2, <2>3, <2>4, OpFacts DEF News, Abouts
<1>4. TransfersAfter(r) \in [Requests -> XferRows]
  <2>1. NoXfer \in XferRows /\ \A t \in Requests : xfer[t] \in XferRows
    BY <1>2 DEF NoXfer, XferRows
  <2>2. \A t \in Requests : [xfer[t] EXCEPT !.status = "ROLLED_BACK"] \in XferRows
    BY <1>2 DEF XferRows, Statuses
  <2>3. QED
    BY <1>2, <2>1, <2>2 DEF TransfersAfter
<1>5. (IF op[r].kind = "rollback" THEN [redeemed EXCEPT ![op[r].skill] = @ + 1] ELSE redeemed)
        \in [Skills -> Nat]
  BY <1>1, <1>2, OpFacts DEF Abouts
<1>6. QED
  BY <1>3, <1>4, <1>5 DEF Commit

\* A handler that moves on, or ends, without touching the tables.
LEMMA MoveTypes ==
  ASSUME TypeOK, NEW r \in Requests, stage[r] = "read",
         stage' \in {stage, [stage EXCEPT ![r] = "refused"], [stage EXCEPT ![r] = "failed"]},
         at' \in [Requests -> {"skill", "latest", "active", "logs", "load", "flush", "error"}],
         key' = key, UNCHANGED <<skill, xfer, clock, op, latest, logs, locks, redeemed>>
  PROVE  TypeOK'
<1>0. stage \in [Requests -> Stages]
  BY DEF TypeOK, RequestsOK
<1>1. stage' \in [Requests -> Stages] /\ \A q \in Requests : stage'[q] = "new" <=> stage[q] = "new"
  BY <1>0 DEF Stages
<1>2. QED
  BY <1>1 DEF TypeOK, RequestsOK

\* The rows a flush locks are skills and transfers.
LEMMA NeedsType ==
  ASSUME TypeOK, NEW r \in Requests, stage[r] # "new"
  PROVE  /\ Needs(r) \in SUBSET (Skills \cup Requests)
         /\ NextRows(r) \subseteq Needs(r) \ locks[r]
<1>1. Touches(op[r]) => op[r].skill \in Skills
  BY Begun, OpFacts
<1>2. latest[r] \subseteq Requests /\ TransfersOf(op[r].skill) \subseteq Requests
  BY DEF TypeOK, TransfersOf
<1>3. QED
  BY <1>1, <1>2 DEF Needs, NextRows

\* Every step keeps the types.
LEMMA TypeStep ==
  ASSUME TypeOK, [Next]_vars
  PROVE  TypeOK'
<1> USE DEF TypeOK, RequestsOK, Reach, Stages
<1>1. ASSUME NEW r \in Requests, NEW o \in Ops, Begin(r, o) PROVE TypeOK'
  BY <1>1 DEF Begin, Authenticated
<1>2. ASSUME NEW r \in Requests, Read(r) PROVE TypeOK'
  BY <1>2 DEF Read, AfterSkill
<1>3. ASSUME NEW r \in Requests, Refuse(r) \/ Abort(r) PROVE TypeOK'
  <2>1. CASE Refuse(r)
    BY <2>1 DEF Refuse, Refused
  <2>2. CASE Abort(r)
    <3>1. locks' \in [Requests -> SUBSET (Skills \cup Requests)]
      BY <2>2 DEF Abort, Released
    <3>2. QED
      BY <2>2, <3>1 DEF Abort, RolledBack, InTransaction
  <2>3. QED
    BY <1>3, <2>1, <2>2
<1>4. ASSUME NEW r \in Requests, SelectLatest(r) \/ SelectLogs(r) PROVE TypeOK'
  <2>1. TransfersOf(op[r].skill) \in SUBSET Requests
        /\ Last(TransfersOf(op[r].skill)) \in SUBSET Requests
    BY DEF TransfersOf, Last
  <2>2. CASE SelectLatest(r)
    BY <2>1, <2>2 DEF SelectLatest
  <2>3. CASE SelectLogs(r)
    BY <2>1, <2>3 DEF SelectLogs
  <2>4. QED
    BY <1>4, <2>2, <2>3
<1>5. ASSUME NEW r \in Requests, CheckActive(r) PROVE TypeOK'
  <2>1. stage[r] = "read" /\ key' = key /\ UNCHANGED <<skill, xfer, clock, op, latest, logs, locks, redeemed>>
    BY <1>5 DEF CheckActive
  <2>2. stage' \in {stage, [stage EXCEPT ![r] = "refused"]}
    BY <1>5 DEF CheckActive
  <2>3. at' \in [Requests -> {"skill", "latest", "active", "logs", "load", "flush", "error"}]
    BY <1>5 DEF CheckActive
  <2>4. QED
    BY <2>1, <2>2, <2>3, MoveTypes
<1>6. ASSUME NEW r \in Requests, Load(r) \/ FlushRaises(r) PROVE TypeOK'
  <2>1. stage[r] = "read" /\ key' = key /\ UNCHANGED <<skill, xfer, clock, op, latest, logs, locks, redeemed>>
    BY <1>6 DEF Load, FlushRaises
  <2>2. CASE Load(r)
    BY <2>1, <2>2, MoveTypes DEF Load
  <2>3. CASE FlushRaises(r)
    <3>1. stage' = [stage EXCEPT ![r] = "failed"]
      BY <2>3 DEF FlushRaises
    <3>2. at' = [at EXCEPT ![r] = "error"]
      BY <2>3 DEF FlushRaises
    <3>3. QED
      BY <2>1, <3>1, <3>2, MoveTypes
  <2>4. QED
    BY <1>6, <2>2, <2>3
<1>7. ASSUME NEW r \in Requests, Flush(r) PROVE TypeOK'
  <2>1. op[r] \in Ops
    BY <1>7, Begun DEF Flush
  <2>2. xfer' \in [Requests -> XferRows] /\ clock' \in Nat
    <3>1. CASE Inserts(op[r])
      <4>1. (IF op[r].kind = "sync" THEN op[r].new ELSE op[r].skill) \in Skills
        BY <2>1, <3>1, OpFacts DEF News, Abouts
      <4>2. [skill |-> IF op[r].kind = "sync" THEN op[r].new ELSE op[r].skill,
             status |-> StatusOf(op[r]), at |-> clock] \in XferRows
        BY <2>1, <4>1, OpFacts DEF XferRows
      <4>3. QED
        BY <1>7, <3>1, <4>2 DEF Flush, XferRows
    <3>2. CASE ~Inserts(op[r])
      BY <1>7, <3>2 DEF Flush, XferRows
    <3>3. QED
      BY <3>1, <3>2
  <2>3. locks' \in [Requests -> SUBSET (Skills \cup Requests)]
    BY <1>7, NeedsType DEF Flush
  <2>4. QED
    BY <1>7, <2>2, <2>3 DEF Flush, XferRows
<1>8. ASSUME NEW r \in Requests, Commit(r) PROVE TypeOK'
  BY <1>8, CommitTypes DEF Commit, Committed, Rows, XferRows, Released
<1>9. ASSUME NEW r \in Requests, Lock(r) PROVE TypeOK'
  <2>1. PICK x \in NextRows(r) : locks' = [locks EXCEPT ![r] = @ \cup {x}]
    BY <1>9 DEF Lock
  <2>2. x \in Skills \cup Requests
    BY <1>9, NeedsType DEF Lock
  <2>3. locks' \in [Requests -> SUBSET (Skills \cup Requests)]
    BY <2>1, <2>2
  <2>4. QED
    BY <1>9, <2>3 DEF Lock
<1>10. CASE UNCHANGED vars
  BY <1>10 DEF vars
<1>11. QED
  BY <1>1, <1>2, <1>3, <1>4, <1>5, <1>6, <1>7, <1>8, <1>9, <1>10 DEF Next, Proceed, Sent

\* A request takes its key only while nobody holds it.
LEMMA KeysStep ==
  ASSUME TypeOK, KeysInTurn, [Next]_vars
  PROVE  KeysInTurn'
<1> USE DEF TypeOK, RequestsOK, Reach, InTransaction, KeysInTurn
<1>1. ASSUME NEW r \in Requests, NEW o \in Ops, Begin(r, o) PROVE KeysInTurn'
  BY <1>1 DEF Begin, Authenticated, KeyFree
<1>2. ASSUME NEW r \in Requests, Read(r) \/ Flush(r) \/ Commit(r) PROVE KeysInTurn'
  <2>1. /\ key' = key /\ InTransaction(r)
        /\ \A q \in Requests \ {r} : stage'[q] = stage[q]
    BY <1>2 DEF Read, Flush, Commit, Committed
  <2>2. QED
    BY <2>1
<1>3. CASE Quiet
  BY <1>3 DEF Quiet
<1>4. QED
  BY <1>1, <1>2, <1>3, Steps

(***************************************************************************)
(* What a commit does.                                                     *)
(***************************************************************************)

\* The skills after a commit.
LEMMA CommitSkill ==
  ASSUME SkillInv, NEW r \in Requests, Commit(r), NEW s \in Skills
  PROVE  /\ op[r] \in Ops /\ stage[r] = "written"
         /\ op[r].kind \in News /\ s = op[r].new =>
              skill'[s].state = "live" /\ ~skill'[s].used /\ skill[s] = Absent
         /\ op[r].kind = "rollback" /\ s = op[r].skill =>
              skill'[s].state = skill[s].state /\ skill'[s].used
         /\ op[r].kind = "delete" /\ s = op[r].skill =>
              /\ skill'[s].state = "deleted" /\ skill'[s].used = skill[s].used
              /\ skill[s].state # "absent"
         /\ ~(op[r].kind \in News /\ s = op[r].new)
            /\ ~(op[r].kind \in {"rollback", "delete"} /\ s = op[r].skill) =>
              /\ skill'[s].state = skill[s].state /\ skill'[s].used = skill[s].used
              /\ skill[s] = Absent => skill'[s] = Absent
<1>1. op[r] \in Ops /\ stage[r] = "written" /\ skill' = SkillsAfter(op[r])
  BY Begun DEF Commit, Committed, SkillInv
<1>2. skill \in [Skills -> Rows] /\ skill[s] \in Rows
  BY DEF SkillInv, TypeOK, Rows
<1>3. CASE op[r].kind \in News
  <2>1. skill' = [skill EXCEPT ![op[r].new] = NewSkill(op[r])] /\ op[r].new \in Skills
    BY <1>1, <1>3, OpFacts DEF SkillsAfter, News
  <2>2. skill[op[r].new] = Absent
    BY <1>1, <1>3 DEF SkillInv, NewFresh
  <2>3. op[r].kind \notin {"rollback", "delete"}
    BY <1>3 DEF News
  <2>4. QED
    <3>1. CASE s = op[r].new
      <4>1. skill'[s] = NewSkill(op[r])
        BY <1>2, <2>1, <3>1
      <4>2. skill'[s].state = "live" /\ skill'[s].used = FALSE
        BY <4>1 DEF NewSkill
      <4>3. QED
        BY <1>1, <1>3, <2>2, <2>3, <3>1, <4>2
    <3>2. CASE s # op[r].new
      BY <1>1, <1>2, <2>1, <2>3, <3>2
    <3>3. QED
      BY <3>1, <3>2
<1>4. CASE op[r].kind = "rollback"
  <2>1. skill' = [skill EXCEPT ![op[r].skill].used = TRUE] /\ op[r].skill \in Skills
    BY <1>1, <1>4, OpFacts DEF SkillsAfter, News, Abouts
  <2>2. op[r].kind \notin News
    BY <1>4 DEF News
  <2>3. QED
    <3>1. CASE s = op[r].skill
      <4>1. skill'[s] = [skill[s] EXCEPT !.used = TRUE]
        BY <1>2, <2>1, <3>1
      <4>2. skill'[s].used /\ skill'[s].state = skill[s].state
        BY <1>2, <4>1 DEF Rows
      <4>3. QED
        BY <1>1, <1>4, <2>2, <3>1, <4>2
    <3>2. CASE s # op[r].skill
      <4>1. skill'[s] = skill[s]
        BY <1>2, <2>1, <3>2
      <4>2. QED
        BY <1>1, <1>4, <2>2, <3>2, <4>1
    <3>3. QED
      BY <3>1, <3>2
<1>5. CASE op[r].kind = "delete"
  <2>1. /\ skill'[s] = IF s = op[r].skill THEN [skill[s] EXCEPT !.state = "deleted"]
                       ELSE IF skill[s].prev = op[r].skill THEN [skill[s] EXCEPT !.prev = NoSkill]
                       ELSE skill[s]
        /\ op[r].skill \in Skills /\ op[r].kind \notin News
    BY <1>1, <1>5, OpFacts DEF SkillsAfter, News, Abouts
  <2>2. skill[op[r].skill].state # "absent"
    BY <1>1, <1>5 DEF SkillInv, AboutExists, Abouts
  <2>3. skill[s] = Absent => skill[s].prev # op[r].skill
    BY <2>1, SkillConstants DEF Absent
  <2>4. QED
    BY <1>1, <1>2, <1>5, <2>1, <2>2, <2>3 DEF Rows
<1>6. CASE op[r].kind = "transfer"
  <2>1. skill' = skill /\ op[r].kind \notin News /\ op[r].kind \notin {"rollback", "delete"}
    BY <1>1, <1>6 DEF SkillsAfter, News
  <2>2. QED
    BY <1>1, <2>1
<1>7. QED
  BY <1>1, <1>3, <1>4, <1>5, <1>6, OpFacts DEF News, Abouts

\* Where a transfer is after a commit, and whose it is.
LEMMA CommitXfer ==
  ASSUME SkillInv, NEW r \in Requests, Commit(r), NEW t \in Requests
  PROVE  /\ stage' = [stage EXCEPT ![r] = "done"] /\ op' = op
         /\ \/ xfer'[t] = NoXfer
            \/ xfer'[t].skill = xfer[t].skill /\ (xfer'[t].status = "none" <=> xfer[t].status = "none")
         /\ op[r].kind # "delete" =>
              xfer'[t].skill = xfer[t].skill /\ (xfer'[t].status = "none" <=> xfer[t].status = "none")
         /\ op[r].kind = "delete" =>
              xfer'[t] = IF t \in TransfersOf(op[r].skill) THEN NoXfer ELSE xfer[t]
<1>1. /\ stage' = [stage EXCEPT ![r] = "done"] /\ op' = op
      /\ stage[r] = "written" /\ xfer' = TransfersAfter(r)
  BY DEF Commit, Committed, Reach
<1>2. xfer \in [Requests -> XferRows] /\ xfer[t] \in XferRows
  BY DEF SkillInv, TypeOK, XferRows
<1>3. CASE op[r].kind = "rollback"
  <2>1. skill[op[r].skill].state = "live"
    BY <1>1, <1>3 DEF SkillInv, TouchedIsLive, RowThere, Touches
  <2>2. latest[r] \subseteq TransfersOf(op[r].skill)
    BY <1>1, <1>3, <2>1 DEF SkillInv, LatestIsVisible, HandlersInPlace
  <2>3. xfer'[t] = IF t \in latest[r] THEN [xfer[t] EXCEPT !.status = "ROLLED_BACK"] ELSE xfer[t]
    BY <1>1, <1>3 DEF TransfersAfter
  <2>4. t \in latest[r] => xfer[t].status # "none"
    BY <2>2 DEF TransfersOf
  <2>5. QED
    BY <1>1, <1>2, <1>3, <2>3, <2>4 DEF XferRows
<1>4. CASE op[r].kind = "delete"
  BY <1>1, <1>4 DEF TransfersAfter
<1>5. CASE op[r].kind \notin {"rollback", "delete"}
  BY <1>1, <1>5 DEF TransfersAfter
<1>6. QED
  BY <1>3, <1>4, <1>5

\* Reading, flushing and ending without a commit leave the tables as they are.
LEMMA TransfersUnchanged ==
  ASSUME TypeOK, NEW s,
         \/ \E r \in Requests, o \in Ops : Begin(r, o)
         \/ \E r \in Requests : Read(r) \/ Flush(r)
         \/ Quiet
  PROVE  TransfersOf(s)' = TransfersOf(s) /\ skill' = skill /\ redeemed' = redeemed
<1> USE DEF TypeOK, RequestsOK, Reach, TransfersOf
<1>1. ASSUME NEW r \in Requests, NEW o \in Ops, Begin(r, o)
      PROVE  TransfersOf(s)' = TransfersOf(s) /\ skill' = skill /\ redeemed' = redeemed
  BY <1>1 DEF Begin, Authenticated
<1>2. ASSUME NEW r \in Requests, Read(r)
      PROVE  TransfersOf(s)' = TransfersOf(s) /\ skill' = skill /\ redeemed' = redeemed
  BY <1>2 DEF Read
<1>3. ASSUME NEW r \in Requests, Flush(r)
      PROVE  TransfersOf(s)' = TransfersOf(s) /\ skill' = skill /\ redeemed' = redeemed
  <2>1. /\ stage' = [stage EXCEPT ![r] = "written"] /\ stage[r] = "read"
        /\ skill' = skill /\ redeemed' = redeemed
        /\ \A t \in Requests \ {r} : xfer'[t] = xfer[t]
    BY <1>3 DEF Flush
  <2>2. QED
    BY <2>1
<1>4. CASE Quiet
  BY <1>4 DEF Quiet, InTransaction
<1>5. QED
  BY <1>1, <1>2, <1>3, <1>4

(***************************************************************************)
(* Each part of the invariant is kept by the steps that may disturb it.    *)
(***************************************************************************)

\* Ids of new skills stay fresh until their commit.
LEMMA FreshStep ==
  ASSUME SkillInv, [Next]_vars
  PROVE  NewFresh' /\ InsertedOnce'
<1> USE DEF SkillInv, TypeOK, RequestsOK, Reach, InTransaction
<1>0. SkillInv /\ TypeOK
  BY DEF SkillInv
<1>1. ASSUME NEW r \in Requests, NEW o \in Ops, Begin(r, o)
      PROVE  NewFresh' /\ InsertedOnce'
  <2>1. /\ op' = [op EXCEPT ![r] = o] /\ skill' = skill
        /\ op[r] = NoOp /\ stage[r] = "new" /\ stage' = [stage EXCEPT ![r] = "open"]
        /\ o.kind \in News => \A q \in Requests : op[q].kind \in News => op[q].new # o.new
    BY <1>1 DEF Begin, Authenticated
  <2>2. op[r].kind \notin News
    BY <2>1 DEF NoOp, News
  <2>3. InsertedOnce'
    BY <2>1, <2>2 DEF InsertedOnce
  <2>4. o.kind \in News => skill[o.new] = Absent
    BY <2>1, OpFacts DEF InsertedOnce
  <2>5. NewFresh'
    BY <2>1, <2>2, <2>4 DEF NewFresh
  <2>6. QED
    BY <2>3, <2>5
<1>2. ASSUME NEW r \in Requests, Read(r) \/ Flush(r)
      PROVE  NewFresh' /\ InsertedOnce'
  <2>1. /\ op' = op /\ skill' = skill
        /\ stage[r] # "done" /\ \A q \in Requests \ {r} : stage'[q] = stage[q]
    BY <1>2 DEF Read, Flush
  <2>2. QED
    BY <2>1 DEF NewFresh, InsertedOnce
<1>3. ASSUME NEW r \in Requests, Commit(r)
      PROVE  NewFresh' /\ InsertedOnce'
  <2>1. op' = op /\ stage' = [stage EXCEPT ![r] = "done"] /\ stage[r] = "written"
    BY <1>3 DEF Commit, Committed
  <2>2. \A s \in Skills : skill[s] = Absent =>
          skill'[s] = Absent \/ (op[r].kind \in News /\ s = op[r].new)
    <3>1. SUFFICES ASSUME NEW s \in Skills, skill[s] = Absent,
                          ~(op[r].kind \in News /\ s = op[r].new)
                   PROVE  skill'[s] = Absent
      OBVIOUS
    <3>2. skill[s].state = "absent"
      BY <3>1 DEF Absent
    <3>3. ~(op[r].kind \in {"rollback", "delete"} /\ s = op[r].skill)
      BY <2>1, <3>2 DEF AboutExists, Abouts
    <3>4. QED
      BY <1>0, <1>3, <3>1, <3>3, CommitSkill
  <2>3. InsertedOnce'
    BY <2>1, <2>2 DEF InsertedOnce
  <2>4. NewFresh'
    <3>1. SUFFICES ASSUME NEW q \in Requests, op[q].kind \in News, stage'[q] # "done"
                   PROVE  skill'[op[q].new] = Absent
      BY <2>1 DEF NewFresh
    <3>2. q # r /\ stage[q] # "done"
      BY <2>1, <3>1
    <3>3. op[q] \in Ops
      BY <3>1 DEF NoOp, News
    <3>4. op[q].new \in Skills /\ skill[op[q].new] = Absent
      BY <3>1, <3>2, <3>3, OpFacts DEF NewFresh
    <3>5. ~(op[r].kind \in News /\ op[q].new = op[r].new)
      BY <3>1, <3>2 DEF NewFresh
    <3>6. QED
      BY <2>2, <3>4, <3>5
  <2>5. QED
    BY <2>3, <2>4
<1>4. CASE Quiet
  BY <1>4 DEF Quiet, NewFresh, InsertedOnce
<1>5. QED
  BY <1>0, <1>1, <1>2, <1>3, <1>4, Steps

\* A transfer stays where its request put it.
LEMMA PlaceStep ==
  ASSUME SkillInv, [Next]_vars
  PROVE  TransferInPlace'
<1> USE DEF SkillInv, TypeOK, RequestsOK, Reach, InTransaction, TransferInPlace
<1>0. SkillInv /\ TypeOK
  BY DEF SkillInv
<1>1. ASSUME NEW r \in Requests, NEW o \in Ops, Begin(r, o) PROVE TransferInPlace'
  <2>1. /\ op' = [op EXCEPT ![r] = o] /\ xfer' = xfer
        /\ stage[r] = "new" /\ stage' = [stage EXCEPT ![r] = "open"]
    BY <1>1 DEF Begin, Authenticated
  <2>2. xfer[r].status = "none"
    BY <2>1
  <2>3. QED
    BY <2>1, <2>2
<1>2. ASSUME NEW r \in Requests, Read(r) PROVE TransferInPlace'
  BY <1>2 DEF Read
<1>3. ASSUME NEW r \in Requests, Flush(r) PROVE TransferInPlace'
  <2>1. /\ op' = op /\ stage[r] = "read" /\ stage' = [stage EXCEPT ![r] = "written"]
        /\ xfer[r].status = "none"
    BY <1>3 DEF Flush
  <2>2. \A q \in Requests \ {r} : xfer'[q] = xfer[q]
    BY <1>3 DEF Flush
  <2>3. CASE Inserts(op[r])
    <3>1. xfer'[r] = [skill |-> IF op[r].kind = "sync" THEN op[r].new ELSE op[r].skill,
                      status |-> StatusOf(op[r]), at |-> clock]
      BY <1>3, <2>3 DEF Flush
    <3>2. xfer'[r].skill = IF op[r].kind = "sync" THEN op[r].new ELSE op[r].skill
      BY <3>1
    <3>3. QED
      BY <2>1, <2>2, <2>3, <3>2
  <2>4. CASE ~Inserts(op[r])
    BY <1>3, <2>1, <2>4 DEF Flush
  <2>5. QED
    BY <2>3, <2>4
<1>4. ASSUME NEW r \in Requests, Commit(r) PROVE TransferInPlace'
  <2>1. SUFFICES ASSUME NEW t \in Requests, xfer'[t].status # "none"
                 PROVE  /\ stage'[t] \in {"written", "done", "failed"}
                        /\ Inserts(op'[t])
                        /\ xfer'[t].skill = IF op'[t].kind = "sync" THEN op'[t].new ELSE op'[t].skill
    BY DEF Inserts, StatusOf
  <2>2. NoXfer.status = "none"
    BY DEF NoXfer
  <2>3. /\ stage' = [stage EXCEPT ![r] = "done"] /\ op' = op
        /\ xfer'[t].skill = xfer[t].skill /\ xfer[t].status # "none"
    BY <1>0, <1>4, <2>1, <2>2, CommitXfer
  <2>4. QED
    BY <2>3
<1>5. CASE Quiet
  BY <1>5 DEF Quiet
<1>6. QED
  BY <1>0, <1>1, <1>2, <1>3, <1>4, <1>5, Steps

\* A transfer is ready when the transaction that makes it has been flushed, and
\* no other transaction touches it before its commit.
LEMMA StagedStep ==
  ASSUME SkillInv, [Next]_vars
  PROVE  FlushedIsStaged'
<1> USE DEF TypeOK, RequestsOK, Reach
<1>0. TypeOK /\ FlushedIsStaged
  BY DEF SkillInv
<1>1. ASSUME NEW r \in Requests, (\E o \in Ops : Begin(r, o)) \/ Read(r)
      PROVE  FlushedIsStaged'
  <2>1. /\ xfer' = xfer /\ \A q \in Requests \ {r} : op'[q] = op[q] /\ stage'[q] = stage[q]
        /\ stage'[r] \in {"open", "read"}
    BY <1>0, <1>1 DEF Begin, Authenticated, Read
  <2>2. QED
    BY <1>0, <2>1 DEF FlushedIsStaged, Inserts, StatusOf
<1>2. ASSUME NEW r \in Requests, Flush(r)
      PROVE  FlushedIsStaged'
  <2>1. /\ op' = op /\ stage' = [stage EXCEPT ![r] = "written"]
        /\ \A q \in Requests \ {r} : xfer'[q] = xfer[q]
    BY <1>0, <1>2 DEF Flush
  <2>2. Inserts(op[r]) => xfer'[r].status = StatusOf(op[r])
    <3>1. ASSUME Inserts(op[r])
          PROVE  xfer'[r] = [skill |-> IF op[r].kind = "sync" THEN op[r].new ELSE op[r].skill,
                             status |-> StatusOf(op[r]), at |-> clock]
      BY <1>0, <1>2, <3>1 DEF Flush
    <3>2. QED
      BY <3>1
  <2>3. QED
    BY <1>0, <2>1, <2>2 DEF FlushedIsStaged, Inserts, StatusOf
<1>3. ASSUME NEW r \in Requests, Commit(r)
      PROVE  FlushedIsStaged'
  <2>1. SUFFICES ASSUME NEW q \in Requests, stage'[q] = "written", Inserts(op'[q])
                 PROVE  xfer'[q].status = StatusOf(op'[q])
    BY DEF FlushedIsStaged, Inserts, StatusOf
  <2>2. q # r /\ stage[q] = "written" /\ op' = op
    BY <1>0, <1>3, <2>1 DEF Commit, Committed
  <2>3. xfer[q].status = StatusOf(op[q])
    BY <1>0, <2>1, <2>2 DEF FlushedIsStaged
  <2>4. \A s : q \notin TransfersOf(s)
    BY <2>2 DEF TransfersOf
  <2>5. xfer'[q] = xfer[q]
    <3>1. CASE op[r].kind = "rollback"
      <4>1. stage[r] = "written" /\ xfer' = TransfersAfter(r)
        BY <1>3 DEF Commit, Committed
      <4>2. skill[op[r].skill].state = "live"
        BY <3>1, <4>1 DEF SkillInv, TouchedIsLive, RowThere, Touches
      <4>3. latest[r] \subseteq TransfersOf(op[r].skill)
        BY <3>1, <4>1, <4>2 DEF SkillInv, LatestIsVisible, HandlersInPlace
      <4>4. QED
        BY <2>4, <3>1, <4>1, <4>3 DEF TransfersAfter
    <3>2. CASE op[r].kind # "rollback"
      BY <1>3, <2>4, <3>2 DEF Commit, TransfersAfter
    <3>3. QED
      BY <3>1, <3>2
  <2>6. QED
    BY <2>2, <2>3, <2>5
<1>4. CASE Quiet
  BY <1>0, <1>4 DEF Quiet, FlushedIsStaged, Inserts, StatusOf
<1>5. QED
  BY <1>0, <1>1, <1>2, <1>3, <1>4, Steps

\* A flushed deletion is the only transaction to have a lock of its skill.
LEMMA DeleteAlone ==
  ASSUME SkillInv, NEW q \in Requests, NEW r \in Requests, stage[q] = "written",
         op[q].kind = "delete", locks[r] # {}, op[r].skill = op[q].skill
  PROVE  q = r
<1>1. /\ skill[op[q].skill].state = "live"
      /\ locks[r] \subseteq {op[q].skill} \cup TransfersOf(op[q].skill)
  BY DEF SkillInv, HoldsOwn
<1>2. {op[q].skill} \cup TransfersOf(op[q].skill) \subseteq locks[q]
  BY <1>1 DEF SkillInv, FlushedHolds, Touches
<1>3. locks[q] \cap locks[r] # {} /\ Clash(op[q].kind, op[r].kind)
  BY <1>1, <1>2 DEF Clash
<1>4. QED
  BY <1>3 DEF SkillInv, LocksExclude

\* The row a flushed transaction refers to, and the skill a handler has read,
\* do not vanish under it.
LEMMA LiveStep ==
  ASSUME SkillInv, [Next]_vars
  PROVE  TouchedIsLive' /\ AboutExists'
<1> USE DEF SkillInv, TypeOK, RequestsOK, Reach, InTransaction
<1>0. SkillInv /\ TypeOK
  BY DEF SkillInv
<1>1. ASSUME NEW r \in Requests, NEW o \in Ops, Begin(r, o)
      PROVE  TouchedIsLive' /\ AboutExists'
  <2>1. /\ op' = [op EXCEPT ![r] = o] /\ skill' = skill
        /\ stage[r] = "new" /\ stage' = [stage EXCEPT ![r] = "open"]
    BY <1>1 DEF Begin, Authenticated
  <2>2. QED
    BY <2>1 DEF TouchedIsLive, AboutExists, RowThere
<1>2. ASSUME NEW r \in Requests, Read(r)
      PROVE  TouchedIsLive' /\ AboutExists'
  <2>1. /\ op' = op /\ skill' = skill
        /\ stage[r] = "open" /\ stage' = [stage EXCEPT ![r] = "read"]
        /\ op[r].kind \in Abouts => skill[op[r].skill].state = "live"
    BY <1>2 DEF Read, Admitted
  <2>2. QED
    BY <2>1 DEF TouchedIsLive, AboutExists, RowThere
<1>3. ASSUME NEW r \in Requests, Flush(r)
      PROVE  TouchedIsLive' /\ AboutExists'
  <2>1. /\ op' = op /\ skill' = skill
        /\ stage[r] = "read" /\ stage' = [stage EXCEPT ![r] = "written"]
        /\ RowThere(op[r])
    BY <1>3 DEF Flush
  <2>2. QED
    BY <2>1 DEF TouchedIsLive, AboutExists, RowThere
<1>4. ASSUME NEW r \in Requests, Commit(r)
      PROVE  TouchedIsLive' /\ AboutExists'
  <2>1. op' = op /\ stage' = [stage EXCEPT ![r] = "done"] /\ stage[r] = "written"
    BY <1>4 DEF Commit, Committed
  <2>2. AboutExists'
    <3>1. SUFFICES ASSUME NEW q \in Requests, stage[q] \in {"read", "written"},
                          op[q].kind \in Abouts
                   PROVE  skill'[op[q].skill].state # "absent"
      BY <2>1 DEF AboutExists
    <3>2. op[q].skill \in Skills /\ skill[op[q].skill].state # "absent"
      BY <1>0, <3>1, Begun, OpFacts DEF AboutExists
    <3>3. QED
      BY <1>0, <1>4, <3>2, CommitSkill DEF Absent
  <2>3. TouchedIsLive'
    <3>1. SUFFICES ASSUME NEW q \in Requests \ {r}, stage[q] = "written",
                          Touches(op[q]), op[q].kind # "delete"
                   PROVE  skill'[op[q].skill].state = "live"
      BY <2>1 DEF TouchedIsLive, RowThere
    <3> DEFINE s == op[q].skill
    <3>2. s \in Skills /\ skill[s].state = "live"
      BY <1>0, <3>1, Begun, OpFacts DEF TouchedIsLive, RowThere
    <3>3. ~(op[r].kind = "delete" /\ s = op[r].skill)
      <4>1. locks[q] # {}
        BY <3>1, <3>2 DEF FlushedHolds
      <4>2. QED
        BY <1>0, <2>1, <3>1, <4>1, DeleteAlone
    <3>4. skill[s] # Absent
      BY <3>2 DEF Absent
    <3> HIDE DEF s
    <3>5. skill'[s].state = "live"
      <4>1. CASE op[r].kind \in News /\ s = op[r].new
        BY <1>0, <1>4, <3>2, <4>1, CommitSkill
      <4>2. CASE op[r].kind = "rollback" /\ s = op[r].skill
        BY <1>0, <1>4, <3>2, <4>2, CommitSkill
      <4>3. CASE ~(op[r].kind \in News /\ s = op[r].new) /\ ~(op[r].kind = "rollback" /\ s = op[r].skill)
        <5>1. skill'[s].state = skill[s].state
          BY <1>0, <1>4, <3>2, <3>3, <4>3, CommitSkill
        <5>2. QED
          BY <3>2, <5>1
      <4>4. QED
        BY <4>1, <4>2, <4>3
    <3>6. QED
      BY <3>5 DEF s
  <2>4. QED
    BY <2>2, <2>3
<1>5. CASE Quiet
  BY <1>5 DEF Quiet, TouchedIsLive, AboutExists, RowThere
<1>6. QED
  BY <1>0, <1>1, <1>2, <1>3, <1>4, <1>5, Steps

\* Handlers make their statements in order.
LEMMA OrderStep ==
  ASSUME TypeOK, HandlersInPlace, [Next]_vars
  PROVE  HandlersInPlace'
<1> USE DEF TypeOK, RequestsOK, Reach, InTransaction, HandlersInPlace
<1>1. ASSUME NEW r \in Requests, NEW o \in Ops, Begin(r, o) PROVE HandlersInPlace'
  <2>1. /\ op' = [op EXCEPT ![r] = o] /\ at' = at /\ logs' = logs /\ op[r].kind = "none"
        /\ stage' = [stage EXCEPT ![r] = "open"]
    BY <1>1 DEF Begin, Authenticated, NoOp
  <2>2. QED
    BY <2>1
<1>2. ASSUME NEW r \in Requests, Read(r) PROVE HandlersInPlace'
  BY <1>2 DEF Read, AfterSkill
<1>3. ASSUME NEW r \in Requests, Refuse(r) \/ Abort(r) \/ Commit(r) PROVE HandlersInPlace'
  BY <1>3 DEF Refuse, Refused, Abort, RolledBack, Commit, Committed
<1>4. ASSUME NEW r \in Requests, SelectLatest(r) \/ SelectLogs(r) \/ Lock(r) PROVE HandlersInPlace'
  BY <1>4 DEF SelectLatest, SelectLogs, Lock
<1>5. ASSUME NEW r \in Requests, CheckActive(r) PROVE HandlersInPlace'
  BY <1>5 DEF CheckActive
<1>6. ASSUME NEW r \in Requests, Load(r) PROVE HandlersInPlace'
  BY <1>6 DEF Load
<1>7. ASSUME NEW r \in Requests, FlushRaises(r) PROVE HandlersInPlace'
  BY <1>7 DEF FlushRaises
<1>8. ASSUME NEW r \in Requests, Flush(r) PROVE HandlersInPlace'
  BY <1>8 DEF Flush
<1>9. CASE UNCHANGED vars
  BY <1>9 DEF vars
<1>10. QED
  BY <1>1, <1>2, <1>3, <1>4, <1>5, <1>6, <1>7, <1>8, <1>9 DEF Next, Proceed, Sent

\* What a rollback has selected: only SelectLatest takes it to its flush.
LEMMA LatestMoves ==
  ASSUME TypeOK, HandlersInPlace, [Next]_vars, NEW q \in Requests,
         stage'[q] \in {"read", "written"}, at'[q] = "flush", op'[q].kind = "rollback"
  PROVE  /\ stage[q] \in {"read", "written"} /\ op'[q] = op[q]
         /\ \/ at[q] = "flush" /\ latest'[q] = latest[q]
            \/ /\ latest'[q] \subseteq TransfersOf(op[q].skill)
               /\ \A s : TransfersOf(s)' = TransfersOf(s)
               /\ skill' = skill
<1> USE DEF TypeOK, RequestsOK, Reach, InTransaction, HandlersInPlace
<1> DEFINE Moved ==
      /\ stage[q] \in {"read", "written"} /\ op'[q] = op[q]
      /\ \/ at[q] = "flush" /\ latest'[q] = latest[q]
         \/ /\ latest'[q] \subseteq TransfersOf(op[q].skill)
            /\ \A s : TransfersOf(s)' = TransfersOf(s)
            /\ skill' = skill
<1>1. ASSUME NEW r \in Requests, NEW o \in Ops, Begin(r, o) PROVE Moved
  BY <1>1 DEF Begin, Authenticated
<1>2. ASSUME NEW r \in Requests, Read(r) PROVE Moved
  BY <1>2 DEF Read, AfterSkill
<1>3. ASSUME NEW r \in Requests, Refuse(r) \/ Abort(r) \/ Commit(r) PROVE Moved
  BY <1>3 DEF Refuse, Refused, Abort, RolledBack, Commit, Committed
<1>4. ASSUME NEW r \in Requests, SelectLatest(r) PROVE Moved
  <2>1. /\ stage' = stage /\ skill' = skill /\ xfer' = xfer /\ op' = op
        /\ latest' = [latest EXCEPT ![r] = Last(TransfersOf(op[r].skill))]
        /\ at' = [at EXCEPT ![r] = "flush"]
    BY <1>4 DEF SelectLatest
  <2>2. \A s : TransfersOf(s)' = TransfersOf(s)
    BY <2>1 DEF TransfersOf
  <2>3. Last(TransfersOf(op[r].skill)) \subseteq TransfersOf(op[r].skill)
    BY DEF Last
  <2>4. CASE q = r
    BY <2>1, <2>2, <2>3, <2>4
  <2>5. CASE q # r
    BY <2>1, <2>5
  <2>6. QED
    BY <2>4, <2>5
<1>5. ASSUME NEW r \in Requests, SelectLogs(r) PROVE Moved
  BY <1>5 DEF SelectLogs
<1>6. ASSUME NEW r \in Requests, CheckActive(r) PROVE Moved
  BY <1>6 DEF CheckActive
<1>7. ASSUME NEW r \in Requests, Load(r) PROVE Moved
  BY <1>7 DEF Load
<1>8. ASSUME NEW r \in Requests, FlushRaises(r) \/ Flush(r) \/ Lock(r) PROVE Moved
  BY <1>8 DEF FlushRaises, Flush, Lock
<1>9. CASE UNCHANGED vars
  BY <1>9 DEF vars
<1>10. QED
  BY <1>1, <1>2, <1>3, <1>4, <1>5, <1>6, <1>7, <1>8, <1>9 DEF Next, Proceed, Sent

\* A step takes a transfer away from a skill only by deleting the skill, and
\* gives no life to a skill that somebody has read.
LEMMA TransfersStay ==
  ASSUME SkillInv, [Next]_vars, NEW s \in Skills, skill[s].state # "absent",
         skill'[s].state = "live"
  PROVE  skill[s].state = "live" /\ TransfersOf(s) \subseteq TransfersOf(s)'
<1>0. TypeOK
  BY DEF SkillInv
<1>1. ASSUME NEW r \in Requests, Commit(r)
      PROVE  skill[s].state = "live" /\ TransfersOf(s) \subseteq TransfersOf(s)'
  <2>1. skill[s].state = "live" /\ ~(op[r].kind = "delete" /\ s = op[r].skill)
    BY <1>1, CommitSkill DEF Absent
  <2>2. ASSUME NEW t \in TransfersOf(s)
        PROVE  t \in TransfersOf(s)'
    <3>1. t \in Requests /\ stage[t] = "done" /\ xfer[t].status # "none" /\ xfer[t].skill = s
      BY DEF TransfersOf
    <3>2. ~(op[r].kind = "delete" /\ t \in TransfersOf(op[r].skill))
      BY <2>1, <3>1 DEF TransfersOf
    <3>3. /\ stage' = [stage EXCEPT ![r] = "done"]
          /\ xfer'[t].skill = s /\ xfer'[t].status # "none"
      BY <1>1, <3>1, <3>2, CommitXfer
    <3>4. stage'[t] = "done"
      BY <3>1, <3>3, <1>0 DEF TypeOK, RequestsOK
    <3>5. QED
      BY <3>1, <3>3, <3>4 DEF TransfersOf
  <2>3. QED
    BY <2>1, <2>2
<1>2. CASE (\E r \in Requests, o \in Ops : Begin(r, o))
           \/ (\E r \in Requests : Read(r) \/ Flush(r)) \/ Quiet
  <2>1. TransfersOf(s)' = TransfersOf(s) /\ skill' = skill
    BY <1>0, <1>2, TransfersUnchanged
  <2>2. QED
    BY <2>1
<1>3. QED
  BY <1>0, <1>1, <1>2, Steps

\* The transfer a rollback has selected stays there as long as its skill.
LEMMA LatestStep ==
  ASSUME SkillInv, [Next]_vars
  PROVE  LatestIsVisible'
<1>0. TypeOK /\ HandlersInPlace
  BY DEF SkillInv
<1>1. SUFFICES ASSUME NEW q \in Requests,
                      (/\ stage[q] \in {"read", "written"} /\ at[q] = "flush"
                       /\ op[q].kind = "rollback" /\ skill[op[q].skill].state = "live")'
               PROVE  (latest[q] \subseteq TransfersOf(op[q].skill))'
  BY DEF LatestIsVisible
<1>2. /\ stage[q] \in {"read", "written"} /\ op'[q] = op[q]
      /\ \/ at[q] = "flush" /\ latest'[q] = latest[q]
         \/ /\ latest'[q] \subseteq TransfersOf(op[q].skill)
            /\ \A s : TransfersOf(s)' = TransfersOf(s)
            /\ skill' = skill
  BY <1>0, <1>1, LatestMoves
<1>3. op[q].skill \in Skills /\ skill[op[q].skill].state # "absent" /\ op[q].kind = "rollback"
  <2>1. op[q] \in Ops /\ op[q].kind \in Abouts
    BY <1>0, <1>1, <1>2, Begun DEF Abouts
  <2>2. QED
    BY <1>1, <1>2, <2>1, OpFacts DEF SkillInv, AboutExists
<1>4. PICK s \in Skills : s = op[q].skill /\ s = op'[q].skill
  BY <1>2, <1>3
<1>5. latest'[q] \subseteq TransfersOf(s)'
  <2>1. CASE at[q] = "flush" /\ latest'[q] = latest[q]
    <3>1. skill'[s].state = "live" /\ skill[s].state # "absent"
      BY <1>1, <1>3, <1>4
    <3>2. skill[s].state = "live" /\ TransfersOf(s) \subseteq TransfersOf(s)'
      BY <3>1, TransfersStay
    <3>3. latest[q] \subseteq TransfersOf(s)
      BY <1>2, <1>3, <1>4, <2>1, <3>2 DEF SkillInv, LatestIsVisible
    <3>4. QED
      BY <2>1, <3>2, <3>3
  <2>2. CASE /\ latest'[q] \subseteq TransfersOf(op[q].skill)
             /\ \A u : TransfersOf(u)' = TransfersOf(u)
    BY <1>4, <2>2
  <2>3. QED
    BY <1>2, <2>1, <2>2
<1>6. QED
  BY <1>4, <1>5 DEF TransfersOf

\* Who holds a lock after a step held it before, or has just taken it.
LEMMA Holders ==
  ASSUME SkillInv, [Next]_vars, NEW q \in Requests, locks'[q] # {}
  PROVE  /\ stage[q] \in {"read", "written"} /\ at[q] = "flush"
         /\ stage'[q] \in {"read", "written"} /\ at'[q] = "flush" /\ op'[q] = op[q]
         /\ (locks'[q] = locks[q] /\ stage'[q] = stage[q]) \/ Lock(q) \/ Flush(q)
<1> DEFINE Held ==
      /\ stage[q] \in {"read", "written"} /\ at[q] = "flush"
      /\ stage'[q] \in {"read", "written"} /\ at'[q] = "flush" /\ op'[q] = op[q]
      /\ (locks'[q] = locks[q] /\ stage'[q] = stage[q]) \/ Lock(q) \/ Flush(q)
<1> USE DEF TypeOK, RequestsOK, Reach, InTransaction
<1>0. /\ TypeOK
      /\ locks[q] # {} => /\ stage[q] \in {"read", "written"} /\ at[q] = "flush"
                          /\ RowThere(op[q])
  BY DEF SkillInv, HoldsOwn, RowThere
<1>1. ASSUME NEW r \in Requests, NEW o \in Ops, Begin(r, o) PROVE Held
  BY <1>0, <1>1 DEF Begin, Authenticated
<1>2. ASSUME NEW r \in Requests, Read(r) \/ Refuse(r) PROVE Held
  BY <1>0, <1>2 DEF Read, Refuse, Refused
<1>3. ASSUME NEW r \in Requests, Abort(r) \/ Commit(r) PROVE Held
  BY <1>0, <1>3 DEF Abort, RolledBack, Commit, Committed, Released
<1>4. ASSUME NEW r \in Requests, SelectLatest(r) \/ SelectLogs(r) PROVE Held
  BY <1>0, <1>4 DEF SelectLatest, SelectLogs
<1>5. ASSUME NEW r \in Requests, CheckActive(r) PROVE Held
  BY <1>0, <1>5 DEF CheckActive
<1>6. ASSUME NEW r \in Requests, Load(r) PROVE Held
  BY <1>0, <1>6 DEF Load
<1>7. ASSUME NEW r \in Requests, FlushRaises(r) PROVE Held
  BY <1>0, <1>7 DEF FlushRaises
<1>8. ASSUME NEW r \in Requests, Flush(r) PROVE Held
  <2>1. CASE q = r
    BY <1>0, <1>8, <2>1 DEF Flush
  <2>2. CASE q # r
    BY <1>0, <1>8, <2>2 DEF Flush
  <2>3. QED
    BY <2>1, <2>2
<1>9. ASSUME NEW r \in Requests, Lock(r) PROVE Held
  <2>1. CASE q = r
    BY <1>0, <1>9, <2>1 DEF Lock
  <2>2. CASE q # r
    BY <1>0, <1>9, <2>2 DEF Lock
  <2>3. QED
    BY <2>1, <2>2
<1>10. CASE UNCHANGED vars
  BY <1>0, <1>10 DEF vars
<1>11. QED
  BY <1>1, <1>2, <1>3, <1>4, <1>5, <1>6, <1>7, <1>8, <1>9, <1>10 DEF Next, Proceed, Sent

\* What a flush needs is about a skill that is there; the row of the skill comes
\* first but for transfers to purge.
LEMMA NeedsOwn ==
  ASSUME SkillInv, NEW q \in Requests, stage[q] \in {"read", "written"}, at[q] = "flush",
         Needs(q) # {}
  PROVE  /\ Touches(op[q]) /\ skill[op[q].skill].state = "live" /\ op[q].skill \in Skills
         /\ op[q].skill \in Needs(q)
         /\ Needs(q) \subseteq {op[q].skill} \cup TransfersOf(op[q].skill)
         /\ op[q].skill \notin locks[q] =>
              NextRows(q) = {op[q].skill} \/ (op[q].kind = "delete" /\ op[q].logs)
<1> DEFINE s == op[q].skill
<1>1. Touches(op[q]) /\ skill[s].state = "live" /\ s \in Needs(q)
  BY DEF Needs
<1>2. s \in Skills
  BY <1>1, Begun, OpFacts DEF SkillInv
<1>3. Needs(q) \subseteq {s} \cup TransfersOf(s)
  BY <1>1 DEF Needs, SkillInv, LatestIsVisible
<1>4. ASSUME s \notin locks[q], logs[q] = {}
      PROVE  NextRows(q) = {s}
  <2>1. TransfersOf(s) \subseteq Requests
    BY DEF TransfersOf
  <2>2. (Needs(q) \ locks[q]) \cap Skills = {s}
    BY <1>1, <1>2, <1>3, <1>4, <2>1, SkillConstants
  <2>3. QED
    BY <1>4, <2>2 DEF NextRows
<1>5. logs[q] # {} => op[q].kind = "delete" /\ op[q].logs
  BY DEF SkillInv, HandlersInPlace
<1>6. QED
  BY <1>1, <1>2, <1>3, <1>4, <1>5

\* No commit takes away the skill somebody holds a lock of.
LEMMA HeldStays ==
  ASSUME SkillInv, [Next]_vars, NEW q \in Requests, locks[q] # {}, locks'[q] # {},
         NEW s \in Skills, s = op[q].skill
  PROVE  skill'[s].state = "live" /\ TransfersOf(s) \subseteq TransfersOf(s)'
<1>1. /\ stage[q] \in {"read", "written"} /\ skill[s].state = "live" /\ Touches(op[q])
      /\ stage'[q] \in {"read", "written"}
  BY Holders DEF SkillInv, HoldsOwn
<1>2. TypeOK
  BY DEF SkillInv
<1>3. skill'[s].state = "live"
  <2>1. ASSUME NEW r \in Requests, Commit(r) PROVE skill'[s].state = "live"
    <3>1. r # q /\ stage[r] = "written"
      BY <1>1, <1>2, <2>1 DEF Commit, Committed, Reach, TypeOK, RequestsOK
    <3>2. ~(op[r].kind = "delete" /\ s = op[r].skill)
      BY <3>1, DeleteAlone
    <3>3. QED
      BY <1>1, <1>2, <2>1, <3>2, CommitSkill DEF Absent
  <2>2. CASE (\E r \in Requests, o \in Ops : Begin(r, o))
             \/ (\E r \in Requests : Read(r) \/ Flush(r)) \/ Quiet
    BY <1>1, <1>2, <2>2, TransfersUnchanged
  <2>3. QED
    BY <1>2, <2>1, <2>2, Steps
<1>4. QED
  BY <1>1, <1>3, TransfersStay

\* A transaction that has flushed had flushed before, or does so now.
LEMMA FlushedBefore ==
  ASSUME TypeOK, [Next]_vars, NEW q \in Requests, stage'[q] = "written"
  PROVE  op'[q] = op[q] /\ (Flush(q) \/ (stage[q] = "written" /\ locks'[q] = locks[q]))
<1> DEFINE Before ==
      op'[q] = op[q] /\ (Flush(q) \/ (stage[q] = "written" /\ locks'[q] = locks[q]))
<1> USE DEF TypeOK, RequestsOK, Reach, InTransaction
<1>1. ASSUME NEW r \in Requests, NEW o \in Ops, Begin(r, o) PROVE Before
  BY <1>1 DEF Begin, Authenticated
<1>2. ASSUME NEW r \in Requests, Read(r) \/ Refuse(r) PROVE Before
  BY <1>2 DEF Read, Refuse, Refused
<1>3. ASSUME NEW r \in Requests, Abort(r) \/ Commit(r) PROVE Before
  BY <1>3 DEF Abort, RolledBack, Commit, Committed, Released
<1>4. ASSUME NEW r \in Requests, SelectLatest(r) \/ SelectLogs(r) PROVE Before
  BY <1>4 DEF SelectLatest, SelectLogs
<1>5. ASSUME NEW r \in Requests, CheckActive(r) PROVE Before
  BY <1>5 DEF CheckActive
<1>6. ASSUME NEW r \in Requests, Load(r) \/ FlushRaises(r) PROVE Before
  BY <1>6 DEF Load, FlushRaises
<1>7. ASSUME NEW r \in Requests, Flush(r) PROVE Before
  <2>1. CASE q = r
    BY <1>7, <2>1 DEF Flush
  <2>2. CASE q # r
    BY <1>7, <2>2 DEF Flush
  <2>3. QED
    BY <2>1, <2>2
<1>8. ASSUME NEW r \in Requests, Lock(r) PROVE Before
  <2>1. stage' = stage /\ op' = op /\ stage[r] = "read"
        /\ \A u \in Requests \ {r} : locks'[u] = locks[u]
    BY <1>8 DEF Lock
  <2>2. QED
    BY <2>1
<1>9. CASE UNCHANGED vars
  BY <1>9 DEF vars
<1>10. QED
  BY <1>1, <1>2, <1>3, <1>4, <1>5, <1>6, <1>7, <1>8, <1>9 DEF Next, Proceed, Sent

\* What a request holds is of its skill, and the skill is there.
LEMMA HoldsStep ==
  ASSUME SkillInv, [Next]_vars
  PROVE  HoldsOwn'
<1>0. TypeOK
  BY DEF SkillInv
<1>1. SUFFICES ASSUME NEW q \in Requests, (locks[q] # {})'
               PROVE  (/\ stage[q] \in {"read", "written"} /\ at[q] = "flush"
                       /\ Touches(op[q]) /\ skill[op[q].skill].state = "live"
                       /\ locks[q] \subseteq {op[q].skill} \cup TransfersOf(op[q].skill)
                       /\ op[q].skill \in locks[q] \/ (op[q].kind = "delete" /\ op[q].logs))'
  BY DEF HoldsOwn
<1>2. /\ stage[q] \in {"read", "written"} /\ at[q] = "flush"
      /\ stage'[q] \in {"read", "written"} /\ at'[q] = "flush" /\ op'[q] = op[q]
      /\ (locks'[q] = locks[q] /\ stage'[q] = stage[q]) \/ Lock(q) \/ Flush(q)
  BY <1>1, Holders
<1>3. /\ Touches(op[q]) /\ op[q].skill \in Skills
      /\ locks[q] # {} =>
           /\ locks[q] \subseteq {op[q].skill} \cup TransfersOf(op[q].skill)
           /\ op[q].skill \in locks[q] \/ (op[q].kind = "delete" /\ op[q].logs)
  <2>1. locks[q] # {} \/ Needs(q) # {}
    BY <1>0, <1>1, <1>2 DEF Lock, Flush, TypeOK, NextRows
  <2>2. CASE locks[q] # {}
    <3>1. Touches(op[q])
      BY <2>2 DEF SkillInv, HoldsOwn
    <3>2. op[q].skill \in Skills
      BY <1>0, <1>2, <3>1, Begun, OpFacts
    <3>3. QED
      BY <2>2, <3>1, <3>2 DEF SkillInv, HoldsOwn
  <2>3. CASE locks[q] = {}
    BY <1>2, <2>1, <2>3, NeedsOwn
  <2>4. QED
    BY <2>2, <2>3
<1>4. PICK s \in Skills : s = op[q].skill
  BY <1>3
<1>5. /\ skill'[s].state = "live"
      /\ locks'[q] \subseteq {s} \cup TransfersOf(s)'
      /\ s \in locks'[q] \/ (op[q].kind = "delete" /\ op[q].logs)
  <2>1. CASE locks'[q] = locks[q]
    BY <1>1, <1>3, <1>4, <2>1, HeldStays
  <2>2. CASE Lock(q)
    <3>1. PICK x \in NextRows(q) : locks' = [locks EXCEPT ![q] = @ \cup {x}]
      BY <2>2 DEF Lock
    <3>2. locks'[q] = locks[q] \cup {x} /\ x \in Needs(q)
      BY <1>0, <1>2, <3>1, NeedsType DEF TypeOK
    <3>3. /\ skill[s].state = "live" /\ Needs(q) \subseteq {s} \cup TransfersOf(s)
          /\ s \notin locks[q] => x = s \/ (op[q].kind = "delete" /\ op[q].logs)
      BY <1>2, <1>4, <3>1, <3>2, NeedsOwn
    <3>4. skill' = skill /\ TransfersOf(s)' = TransfersOf(s)
      BY <2>2 DEF Lock, TransfersOf
    <3>5. QED
      BY <1>3, <1>4, <3>2, <3>3, <3>4
  <2>3. CASE Flush(q)
    <3>1. locks'[q] = Needs(q)
      BY <1>0, <2>3 DEF Flush, TypeOK
    <3>2. skill' = skill /\ TransfersOf(s)' = TransfersOf(s)
      BY <1>0, <2>3, TransfersUnchanged
    <3>3. QED
      BY <1>1, <1>2, <1>4, <3>1, <3>2, NeedsOwn
  <2>4. QED
    BY <1>2, <2>1, <2>2, <2>3
<1>6. Touches(op[q])' /\ s = op'[q].skill
  BY <1>2, <1>3, <1>4 DEF Touches, Inserts, StatusOf
<1>7. QED
  BY <1>2, <1>4, <1>5, <1>6 DEF TransfersOf

\* A transaction that has flushed holds all it needs, also while others commit.
LEMMA FlushedStep ==
  ASSUME SkillInv, [Next]_vars
  PROVE  FlushedHolds'
<1>0. TypeOK
  BY DEF SkillInv
<1>1. SUFFICES ASSUME NEW q \in Requests,
                      (/\ stage[q] = "written" /\ Touches(op[q])
                       /\ skill[op[q].skill].state = "live")'
               PROVE  (/\ op[q].skill \in locks[q]
                       /\ op[q].kind = "delete" => TransfersOf(op[q].skill) \subseteq locks[q])'
  BY DEF FlushedHolds
<1>2. op'[q] = op[q] /\ (Flush(q) \/ (stage[q] = "written" /\ locks'[q] = locks[q]))
  BY <1>0, <1>1, FlushedBefore
<1>3. Touches(op[q]) /\ op[q].skill \in Skills /\ stage[q] \in {"read", "written"}
  <2>1. Touches(op[q])
    BY <1>1, <1>2 DEF Touches, Inserts, StatusOf
  <2>2. stage[q] \in {"read", "written"}
    BY <1>2 DEF Flush
  <2>3. QED
    BY <1>0, <2>1, <2>2, Begun, OpFacts
<1>4. PICK s \in Skills : s = op[q].skill
  BY <1>3
<1>5. s \in locks'[q] /\ (op[q].kind = "delete" => TransfersOf(s)' \subseteq locks'[q])
  <2>1. CASE Flush(q)
    <3>1. locks'[q] = Needs(q)
      BY <1>0, <2>1 DEF Flush, TypeOK
    <3>2. skill' = skill /\ TransfersOf(s)' = TransfersOf(s)
      BY <1>0, <2>1, TransfersUnchanged
    <3>3. QED
      BY <1>1, <1>2, <1>3, <1>4, <3>1, <3>2 DEF Needs
  <2>2. CASE stage[q] = "written" /\ locks'[q] = locks[q]
    <3>1. skill[s].state = "live" /\ skill[s] # Absent
      <4>1. skill[s].state # "absent" /\ skill'[s].state = "live"
        BY <1>1, <1>2, <1>3, <1>4, <2>2, OpFacts, Begun DEF SkillInv, AboutExists
      <4>2. QED
        BY <4>1, TransfersStay DEF Absent
    <3>2. s \in locks[q] /\ (op[q].kind = "delete" => TransfersOf(s) \subseteq locks[q])
      BY <1>3, <1>4, <2>2, <3>1 DEF SkillInv, FlushedHolds
    <3>3. ASSUME op[q].kind = "delete"
          PROVE  TransfersOf(s)' \subseteq TransfersOf(s)
      <4>1. ASSUME NEW r \in Requests, Commit(r), NEW t \in TransfersOf(s)'
            PROVE  t \in TransfersOf(s)
        <5>1. /\ t \in Requests /\ stage'[t] = "done" /\ xfer'[t].status # "none"
              /\ xfer'[t].skill = s
          BY DEF TransfersOf
        <5>2. /\ stage' = [stage EXCEPT ![r] = "done"] /\ NoXfer.status = "none"
              /\ xfer[t].status # "none" /\ xfer[t].skill = s /\ stage[r] = "written"
          BY <4>1, <5>1, CommitXfer DEF NoXfer, Commit, Committed
        <5>3. t # r
          <6>1. SUFFICES ASSUME t = r PROVE FALSE
            OBVIOUS
          <6>2. /\ Inserts(op[r]) /\ op[r].kind \in {"sync", "transfer"}
                /\ s = IF op[r].kind = "sync" THEN op[r].new ELSE op[r].skill
            BY <1>0, <5>1, <5>2, <6>1, Begun, OpFacts DEF SkillInv, TransferInPlace
          <6>3. CASE op[r].kind = "sync"
            BY <3>1, <5>2, <6>2, <6>3 DEF SkillInv, NewFresh, News
          <6>4. CASE op[r].kind = "transfer"
            <7>1. locks[r] # {} /\ op[r].skill = s
              BY <3>1, <5>2, <6>2, <6>4 DEF SkillInv, FlushedHolds, Touches
            <7>2. QED
              BY <1>4, <2>2, <3>3, <6>4, <7>1, DeleteAlone
          <6>5. QED
            BY <6>2, <6>3, <6>4
        <5>4. stage[t] = "done"
          BY <1>0, <5>1, <5>2, <5>3 DEF TypeOK, RequestsOK
        <5>5. QED
          BY <5>1, <5>2, <5>4 DEF TransfersOf
      <4>2. CASE (\E r \in Requests, o \in Ops : Begin(r, o))
                 \/ (\E r \in Requests : Read(r) \/ Flush(r)) \/ Quiet
        BY <1>0, <4>2, TransfersUnchanged
      <4>3. QED
        BY <1>0, <4>1, <4>2, Steps
    <3>4. QED
      BY <2>2, <3>2, <3>3
  <2>3. QED
    BY <1>2, <2>1, <2>2
<1>6. QED
  BY <1>2, <1>4, <1>5 DEF TransfersOf

\* A lock is taken only where it goes together with those there are.
LEMMA ExcludeStep ==
  ASSUME SkillInv, [Next]_vars
  PROVE  LocksExclude'
<1>0. TypeOK
  BY DEF SkillInv
<1>1. SUFFICES ASSUME NEW q \in Requests, NEW r \in Requests, q # r,
                      NEW x \in locks'[q] \cap locks'[r],
                      Clash(op'[q].kind, op'[r].kind)
               PROVE  FALSE
  BY DEF LocksExclude, Clash
<1>2. /\ op'[q] = op[q] /\ (locks'[q] = locks[q] \/ Lock(q) \/ Flush(q))
      /\ op'[r] = op[r] /\ (locks'[r] = locks[r] \/ Lock(r) \/ Flush(r))
  BY <1>1, Holders
<1>3. ASSUME NEW p \in Requests, Lock(p) \/ Flush(p)
      PROVE  /\ \A u \in Requests \ {p} : locks'[u] = locks[u]
             /\ \A y \in locks'[p] \ locks[p] : RowFree(p, y)
  <2>1. CASE Lock(p)
    BY <1>0, <2>1 DEF Lock, TypeOK
  <2>2. CASE Flush(p)
    BY <1>0, <2>2 DEF Flush, LockFree, TypeOK
  <2>3. QED
    BY <1>3, <2>1, <2>2
<1>4. CASE Lock(q) \/ Flush(q)
  <2>1. x \in locks[r] /\ (x \in locks[q] \/ RowFree(q, x))
    BY <1>1, <1>3, <1>4
  <2>2. Clash(op[r].kind, op[q].kind)
    BY <1>1, <1>2 DEF Clash
  <2>3. QED
    BY <1>1, <2>1, <2>2 DEF RowFree, SkillInv, LocksExclude
<1>5. CASE Lock(r) \/ Flush(r)
  <2>1. x \in locks[q] /\ (x \in locks[r] \/ RowFree(r, x))
    BY <1>1, <1>3, <1>5
  <2>2. QED
    BY <1>1, <1>2, <2>1 DEF RowFree, SkillInv, LocksExclude
<1>6. CASE locks'[q] = locks[q] /\ locks'[r] = locks[r]
  BY <1>1, <1>2, <1>6 DEF SkillInv, LocksExclude
<1>7. QED
  BY <1>2, <1>4, <1>5, <1>6

\* A committed transfer keeps its skill.
LEMMA OrphanStep ==
  ASSUME SkillInv, [Next]_vars
  PROVE  NoOrphans'
<1>0. TypeOK
  BY DEF SkillInv
<1>1. ASSUME NEW r \in Requests, Commit(r), NEW s \in Skills, NEW t \in TransfersOf(s)'
      PROVE  skill'[s].state = "live"
  <2>1. /\ t \in Requests /\ stage'[t] = "done" /\ xfer'[t].status # "none"
        /\ xfer'[t].skill = s
    BY DEF TransfersOf
  <2>2. /\ stage' = [stage EXCEPT ![r] = "done"] /\ NoXfer.status = "none"
        /\ xfer[t].status # "none" /\ xfer[t].skill = s
        /\ ~(op[r].kind = "delete" /\ t \in TransfersOf(op[r].skill))
    BY <1>1, <2>1, CommitXfer DEF NoXfer
  <2>3. stage[r] = "written" /\ op[r] \in Ops
    BY <1>1, CommitSkill
  <2>4. CASE t # r
    <3>1. stage[t] = "done"
      BY <1>0, <2>1, <2>2, <2>4 DEF TypeOK, RequestsOK
    <3>2. t \in TransfersOf(s)
      BY <2>1, <2>2, <3>1 DEF TransfersOf
    <3>3. skill[s].state = "live"
      BY <3>2 DEF SkillInv, NoOrphans
    <3>4. ~(op[r].kind = "delete" /\ s = op[r].skill)
      BY <2>2, <3>2
    <3>5. QED
      BY <1>1, <3>3, <3>4, CommitSkill DEF Absent
  <2>5. CASE t = r
    <3>1. /\ Inserts(op[r]) /\ op[r].kind \in {"sync", "transfer"}
          /\ s = IF op[r].kind = "sync" THEN op[r].new ELSE op[r].skill
      BY <2>1, <2>2, <2>3, <2>5, OpFacts DEF SkillInv, TransferInPlace
    <3>2. CASE op[r].kind = "sync"
      BY <1>1, <3>1, <3>2, CommitSkill DEF News
    <3>3. CASE op[r].kind = "transfer"
      <4>1. skill[s].state = "live"
        BY <2>3, <3>1, <3>3 DEF SkillInv, TouchedIsLive, RowThere, Touches
      <4>2. QED
        BY <1>1, <3>3, <4>1, CommitSkill DEF News
    <3>4. QED
      BY <3>1, <3>2, <3>3
  <2>6. QED
    BY <2>4, <2>5
<1>2. CASE (\E r \in Requests, o \in Ops : Begin(r, o))
           \/ (\E r \in Requests : Read(r) \/ Flush(r)) \/ Quiet
  <2>1. ASSUME NEW s \in Skills
        PROVE  TransfersOf(s)' = TransfersOf(s) /\ skill' = skill
    BY <1>0, <1>2, TransfersUnchanged
  <2>2. QED
    BY <2>1 DEF SkillInv, NoOrphans
<1>3. SUFFICES ASSUME NEW r \in Requests, Commit(r)
               PROVE  NoOrphans'
  BY <1>0, <1>2, Steps
<1>4. \A s \in Skills : \A t \in TransfersOf(s)' : skill'[s].state = "live"
  BY <1>1, <1>3
<1>5. QED
  BY <1>4 DEF NoOrphans

\* Only a redemption makes a token used, and only a used token is redeemed.
LEMMA UnusedStep ==
  ASSUME SkillInv, [Next]_vars
  PROVE  UnusedIsUnredeemed'
<1>0. TypeOK
  BY DEF SkillInv
<1>1. ASSUME NEW r \in Requests, Commit(r), NEW s \in Skills, ~skill'[s].used
      PROVE  redeemed'[s] = 0
  <2>1. ~(op[r].kind = "rollback" /\ s = op[r].skill)
    BY <1>1, CommitSkill
  <2>2. ~skill[s].used
    BY <1>1, <2>1, CommitSkill DEF Absent
  <2>3. redeemed'[s] = redeemed[s]
    BY <1>0, <1>1, <2>1 DEF Commit, TypeOK
  <2>4. QED
    BY <2>2, <2>3 DEF SkillInv, UnusedIsUnredeemed
<1>2. CASE (\E r \in Requests, o \in Ops : Begin(r, o))
           \/ (\E r \in Requests : Read(r) \/ Flush(r)) \/ Quiet
  <2>1. skill' = skill /\ redeemed' = redeemed
    BY <1>0, <1>2, TransfersUnchanged
  <2>2. QED
    BY <2>1 DEF SkillInv, UnusedIsUnredeemed
<1>3. QED
  BY <1>0, <1>1, <1>2, Steps DEF UnusedIsUnredeemed

(***************************************************************************)
(* How many rollbacks of one token there can be.                           *)
(***************************************************************************)

\* Rollbacks in flight carry different keys, so there are no more than keys.
LEMMA FlightPerKey ==
  ASSUME TypeOK, KeysInTurn, NEW s
  PROVE  /\ IsFiniteSet(InFlight(s))
         /\ Cardinality(InFlight(s)) \in Nat /\ Cardinality(KeysUsed) \in Nat
         /\ Cardinality(InFlight(s)) <= Cardinality(KeysUsed)
<1>1. IsFiniteSet(InFlight(s)) /\ IsFiniteSet(KeysUsed)
  <2>1. KeysUsed \subseteq Keys /\ InFlight(s) \subseteq Requests
    BY DEF KeysUsed, InFlight, TypeOK, RequestsOK
  <2>2. QED
    BY <2>1, SkillConstants, FS_Subset
<1>2. [r \in InFlight(s) |-> key[r]] \in Injection(InFlight(s), KeysUsed)
  <2>1. \A r \in InFlight(s) : r \in Requests /\ InTransaction(r) /\ key[r] \in KeysUsed
    BY DEF InFlight, InTransaction, KeysUsed
  <2>2. \A q, r \in InFlight(s) : key[q] = key[r] => q = r
    BY <2>1 DEF KeysInTurn
  <2>3. QED
    BY <2>1, <2>2 DEF Injection, IsInjective
<1>3. Cardinality(InFlight(s)) <= Cardinality(KeysUsed)
  BY <1>1, <1>2, FS_Injection DEF ExistsInjection
<1>4. QED
  BY <1>1, <1>3, FS_CardinalityType

\* No step changes the key of a request.
LEMMA KeyFixed ==
  ASSUME TypeOK, [Next]_vars
  PROVE  key' = key
<1>1. ASSUME NEW r \in Requests, NEW o \in Ops, Begin(r, o) PROVE key' = key
  BY <1>1 DEF Begin, Authenticated, Reach
<1>2. ASSUME NEW r \in Requests, Read(r) \/ Flush(r) \/ Commit(r) PROVE key' = key
  BY <1>2 DEF Read, Flush, Commit, Committed, Reach
<1>3. QED
  BY <1>1, <1>2, Steps DEF Quiet

\* Nor does it change the number of keys in use.
LEMMA KeysFixed ==
  ASSUME TypeOK, [Next]_vars
  PROVE  KeysUsed' = KeysUsed
BY KeyFixed DEF KeysUsed

\* Nobody joins the rollbacks of a token that has been redeemed, and the one
\* that redeems it leaves them.
LEMMA StaleStep ==
  ASSUME SkillInv, [Next]_vars
  PROVE  StaleRollbacks'
<1> USE DEF TypeOK, RequestsOK, Reach, InTransaction
<1>0. TypeOK /\ KeysInTurn /\ StaleRollbacks /\ UnusedIsUnredeemed
  BY DEF SkillInv
<1>1. SUFFICES ASSUME NEW s \in Skills, redeemed'[s] > 0
               PROVE  redeemed'[s] + Cardinality(InFlight(s)') <= Cardinality(KeysUsed)
  BY <1>0, KeysFixed DEF StaleRollbacks
<1> DEFINE F == InFlight(s)
<1>2. /\ IsFiniteSet(F) /\ Cardinality(F) \in Nat /\ Cardinality(KeysUsed) \in Nat
      /\ Cardinality(F) <= Cardinality(KeysUsed) /\ redeemed[s] \in Nat
  BY <1>0, FlightPerKey
<1>3. ASSUME redeemed'[s] = redeemed[s], InFlight(s)' \subseteq F
      PROVE  redeemed'[s] + Cardinality(InFlight(s)') <= Cardinality(KeysUsed)
  <2>1. /\ Cardinality(InFlight(s)') <= Cardinality(F)
        /\ Cardinality(InFlight(s)') \in Nat
    BY <1>2, <1>3, FS_Subset, FS_CardinalityType
  <2>2. redeemed[s] + Cardinality(F) <= Cardinality(KeysUsed)
    BY <1>0, <1>1, <1>3 DEF StaleRollbacks
  <2>3. QED
    BY <1>2, <1>3, <2>1, <2>2
<1>4. ASSUME NEW r \in Requests, NEW o \in Ops, Begin(r, o)
      PROVE  redeemed'[s] = redeemed[s] /\ InFlight(s)' \subseteq F
  BY <1>0, <1>4 DEF Begin, Authenticated, InFlight
<1>5. ASSUME NEW r \in Requests, Read(r)
      PROVE  redeemed'[s] = redeemed[s] /\ InFlight(s)' \subseteq F
  <2>1. /\ redeemed' = redeemed /\ op' = op /\ stage' = [stage EXCEPT ![r] = "read"]
        /\ op[r].kind = "rollback" => ~skill[op[r].skill].used
    BY <1>5 DEF Read, Admitted, Abouts
  <2>2. ~(op[r].kind = "rollback" /\ op[r].skill = s)
    BY <1>0, <1>1, <1>2, <2>1 DEF UnusedIsUnredeemed
  <2>3. QED
    BY <1>0, <2>1, <2>2 DEF InFlight
<1>6. ASSUME NEW r \in Requests, Flush(r)
      PROVE  redeemed'[s] = redeemed[s] /\ InFlight(s)' \subseteq F
  BY <1>0, <1>6 DEF Flush, InFlight
<1>7. CASE Quiet
  BY <1>0, <1>3, <1>7 DEF Quiet, InFlight
<1>8. ASSUME NEW r \in Requests, Commit(r)
      PROVE  redeemed'[s] + Cardinality(InFlight(s)') <= Cardinality(KeysUsed)
  <2>1. /\ op' = op /\ stage' = [stage EXCEPT ![r] = "done"] /\ stage[r] = "written"
        /\ op[r] \in Ops
    BY <1>0, <1>8, Begun DEF Commit, Committed
  <2>2. InFlight(s)' = F \ {r}
    BY <1>0, <2>1 DEF InFlight
  <2>3. CASE op[r].kind = "rollback" /\ op[r].skill = s
    <3>1. redeemed'[s] = redeemed[s] + 1
      BY <1>0, <1>8, <2>3 DEF Commit
    <3>2. r \in F
      BY <2>1, <2>3 DEF InFlight
    <3>3. Cardinality(InFlight(s)') = Cardinality(F) - 1
      BY <1>2, <2>2, <3>2, FS_RemoveElement
    <3>4. redeemed[s] > 0 => redeemed[s] + Cardinality(F) <= Cardinality(KeysUsed)
      BY <1>0 DEF StaleRollbacks
    <3>5. QED
      BY <1>2, <3>1, <3>3, <3>4
  <2>4. CASE ~(op[r].kind = "rollback" /\ op[r].skill = s)
    <3>1. redeemed'[s] = redeemed[s]
      BY <1>0, <1>8, <2>4 DEF Commit
    <3>2. QED
      BY <1>3, <2>2, <3>1
  <2>5. QED
    BY <2>3, <2>4
<1>9. QED
  BY <1>0, <1>3, <1>4, <1>5, <1>6, <1>7, <1>8, Steps

(***************************************************************************)
(* Rolled back transfers.                                                  *)
(***************************************************************************)

\* Only a flush makes a transfer, and stamps it.
LEMMA FlushXfer ==
  ASSUME TypeOK, TransferInPlace, NEW r \in Requests, Flush(r)
  PROVE  /\ op[r] \in Ops /\ op' = op /\ latest' = latest
         /\ stage[r] = "read" /\ stage' = [stage EXCEPT ![r] = "written"]
         /\ xfer[r].status = "none" /\ xfer'[r].status # "ROLLED_BACK"
         /\ \A q \in Requests \ {r} : xfer'[q] = xfer[q]
         /\ \/ xfer' = xfer /\ clock' = clock
            \/ xfer'[r].at = clock /\ clock' = clock + 1
<1> USE DEF TypeOK, RequestsOK, Reach
<1>1. /\ op[r] \in Ops /\ op' = op /\ latest' = latest
      /\ stage[r] = "read" /\ stage' = [stage EXCEPT ![r] = "written"]
  BY Begun DEF Flush
<1>2. xfer[r].status = "none"
  BY <1>1 DEF TransferInPlace
<1>3. CASE Inserts(op[r])
  <2>1. /\ xfer' = [xfer EXCEPT ![r] =
             [skill |-> IF op[r].kind = "sync" THEN op[r].new ELSE op[r].skill,
              status |-> StatusOf(op[r]), at |-> clock]]
        /\ clock' = clock + 1
    BY <1>3 DEF Flush
  <2>2. xfer'[r].at = clock /\ xfer'[r].status = StatusOf(op[r])
    BY <2>1
  <2>3. StatusOf(op[r]) # "ROLLED_BACK"
    BY DEF StatusOf
  <2>4. QED
    BY <1>1, <1>2, <2>1, <2>2, <2>3
<1>4. CASE ~Inserts(op[r])
  BY <1>1, <1>2, <1>4 DEF Flush
<1>5. QED
  BY <1>3, <1>4

\* A commit changes no stamp, and turns only transfers that a rollback has
\* selected into rolled back ones.
LEMMA CommitStatus ==
  ASSUME SkillInv, NEW r \in Requests, Commit(r), NEW t \in Requests, xfer'[t].status # "none"
  PROVE  /\ xfer[t].status # "none" /\ xfer'[t].at = xfer[t].at
         /\ xfer'[t].status = "ROLLED_BACK" =>
              \/ xfer[t].status = "ROLLED_BACK"
              \/ op[r].kind = "rollback" /\ t \in latest[r] /\ t \in TransfersOf(op[r].skill)
<1>1. xfer' = TransfersAfter(r) /\ stage[r] = "written" /\ xfer[t] \in XferRows
  BY DEF Commit, Committed, SkillInv, TypeOK, XferRows
<1>2. CASE op[r].kind = "rollback"
  <2>1. xfer'[t] = IF t \in latest[r] THEN [xfer[t] EXCEPT !.status = "ROLLED_BACK"] ELSE xfer[t]
    BY <1>1, <1>2 DEF TransfersAfter
  <2>2. latest[r] \subseteq TransfersOf(op[r].skill)
    <3>1. skill[op[r].skill].state = "live"
      BY <1>1, <1>2 DEF SkillInv, TouchedIsLive, RowThere, Touches
    <3>2. QED
      BY <1>1, <1>2, <3>1 DEF SkillInv, LatestIsVisible, HandlersInPlace
  <2>3. t \in latest[r] => xfer[t].status # "none"
    BY <2>2 DEF TransfersOf
  <2>4. QED
    BY <1>1, <1>2, <2>1, <2>2, <2>3 DEF XferRows
<1>3. CASE op[r].kind = "delete"
  BY <1>1, <1>3 DEF TransfersAfter, NoXfer
<1>4. CASE op[r].kind \notin {"rollback", "delete"}
  BY <1>1, <1>4 DEF TransfersAfter
<1>5. QED
  BY <1>2, <1>3, <1>4

\* What a rollback has selected is there only after SelectLatest.
LEMMA LatestChanges ==
  ASSUME TypeOK, [Next]_vars, NEW q \in Requests
  PROVE  \/ latest'[q] = latest[q]
         \/ latest'[q] = Last(TransfersOf(op[q].skill))
<1> USE DEF TypeOK, RequestsOK
<1>1. ASSUME NEW r \in Requests, SelectLatest(r)
      PROVE  latest'[q] = latest[q] \/ latest'[q] = Last(TransfersOf(op[q].skill))
  BY <1>1 DEF SelectLatest
<1>2. ASSUME NEW r \in Requests,
             \/ \E o \in Ops : Begin(r, o)
             \/ Read(r) \/ Refuse(r) \/ CheckActive(r) \/ SelectLogs(r) \/ Load(r)
             \/ Lock(r) \/ Flush(r) \/ FlushRaises(r) \/ Commit(r) \/ Abort(r)
      PROVE  latest' = latest
  BY <1>2 DEF Begin, Read, Refuse, CheckActive, SelectLogs, Load, Lock, Flush, FlushRaises, Commit, Abort
<1>3. CASE UNCHANGED vars
  BY <1>3 DEF vars
<1>4. QED
  BY <1>1, <1>2, <1>3 DEF Next, Proceed, Sent

\* Stamps stay distinct, and there is one most recent transfer.
LEMMA StampsStep ==
  ASSUME SkillInv, [Next]_vars
  PROVE  StampsDistinct' /\ LatestIsOne'
<1> USE DEF TypeOK, RequestsOK
<1>0. TypeOK /\ StampsDistinct /\ TransferInPlace
  BY DEF SkillInv
<1>1. LatestIsOne'
  <2>1. SUFFICES ASSUME NEW q \in Requests, NEW t \in latest'[q], NEW u \in latest'[q]
                 PROVE  t = u
    BY DEF LatestIsOne
  <2>2. CASE latest'[q] = latest[q]
    BY <2>1, <2>2 DEF SkillInv, LatestIsOne
  <2>3. CASE latest'[q] = Last(TransfersOf(op[q].skill))
    <3>1. /\ t \in Requests /\ u \in Requests
          /\ xfer[t].status # "none" /\ xfer[u].status # "none"
          /\ xfer[t].at <= xfer[u].at /\ xfer[u].at <= xfer[t].at
      BY <2>1, <2>3 DEF Last, TransfersOf
    <3>2. xfer[t].at = xfer[u].at
      <4>1. xfer[t].at \in Nat /\ xfer[u].at \in Nat
        BY <1>0, <3>1
      <4>2. QED
        BY <3>1, <4>1
    <3>3. QED
      BY <1>0, <3>1, <3>2 DEF StampsDistinct
  <2>4. QED
    BY <1>0, <2>2, <2>3, LatestChanges
<1>2. ASSUME xfer' = xfer, clock' = clock
      PROVE  StampsDistinct'
  BY <1>0, <1>2 DEF StampsDistinct
<1>3. ASSUME NEW r \in Requests, Flush(r)
      PROVE  StampsDistinct'
  <2>1. /\ \A q \in Requests \ {r} : xfer'[q] = xfer[q]
        /\ \/ xfer' = xfer /\ clock' = clock
           \/ xfer'[r].at = clock /\ clock' = clock + 1
    BY <1>0, <1>3, FlushXfer
  <2>2. \A t \in Requests : xfer[t].at \in Nat
    BY <1>0
  <2>3. CASE xfer'[r].at = clock /\ clock' = clock + 1
    <3>1. \A t \in Requests : xfer'[t].status # "none" =>
            \/ t = r /\ xfer'[t].at = clock
            \/ t # r /\ xfer'[t] = xfer[t] /\ xfer'[t].at < clock
      BY <1>0, <2>1, <2>3 DEF StampsDistinct
    <3>2. clock \in Nat
      BY <1>0
    <3>3. ASSUME NEW t \in Requests, xfer'[t].status # "none"
          PROVE  xfer'[t].at < clock'
      BY <2>2, <2>3, <3>1, <3>2, <3>3
    <3>4. ASSUME NEW t \in Requests, NEW u \in Requests, xfer'[t].status # "none",
                 xfer'[u].status # "none", xfer'[t].at = xfer'[u].at
          PROVE  t = u
      BY <1>0, <2>2, <3>1, <3>2, <3>4 DEF StampsDistinct
    <3>5. QED
      BY <3>3, <3>4 DEF StampsDistinct
  <2>4. QED
    BY <1>2, <2>1, <2>3
<1>4. ASSUME NEW r \in Requests, Commit(r)
      PROVE  StampsDistinct'
  <2>1. clock' = clock
    BY <1>4 DEF Commit
  <2>2. \A t \in Requests : xfer'[t].status # "none" =>
          xfer[t].status # "none" /\ xfer'[t].at = xfer[t].at
    BY <1>4, CommitStatus
  <2>3. QED
    BY <1>0, <2>1, <2>2 DEF StampsDistinct
<1>5. ASSUME NEW r \in Requests, (\E o \in Ops : Begin(r, o)) \/ Read(r)
      PROVE  xfer' = xfer /\ clock' = clock
  BY <1>5 DEF Begin, Read
<1>6. ASSUME Quiet
      PROVE  xfer' = xfer /\ clock' = clock
  BY <1>6 DEF Quiet
<1>7. QED
  BY <1>0, <1>1, <1>2, <1>3, <1>4, <1>5, <1>6, Steps

(***************************************************************************)
(* Rolled back transfers of a skill are counted against its redemptions.   *)
(***************************************************************************)

RolledBackOf(s) == {t \in TransfersOf(s) : xfer[t].status = "ROLLED_BACK"}

\* Requests are finitely many, and so are transfers.
LEMMA RolledBackFinite ==
  ASSUME NEW s
  PROVE  IsFiniteSet(RolledBackOf(s)) /\ Cardinality(RolledBackOf(s)) \in Nat
<1>1. RolledBackOf(s) \subseteq Requests
  BY DEF RolledBackOf, TransfersOf
<1>2. QED
  BY <1>1, SkillConstants, FS_Subset, FS_CardinalityType

\* A commit adds to the rolled back transfers of a skill what its rollback has
\* selected, and nothing else does.
LEMMA RolledBackGrow ==
  ASSUME SkillInv, NEW r \in Requests, Commit(r), NEW s
  PROVE  /\ op[r].kind = "rollback" /\ op[r].skill = s =>
              RolledBackOf(s)' \subseteq RolledBackOf(s) \cup latest[r]
         /\ ~(op[r].kind = "rollback" /\ op[r].skill = s) =>
              RolledBackOf(s)' \subseteq RolledBackOf(s)
<1>1. SUFFICES ASSUME NEW t \in RolledBackOf(s)'
               PROVE  \/ t \in RolledBackOf(s)
                      \/ op[r].kind = "rollback" /\ op[r].skill = s /\ t \in latest[r]
  OBVIOUS
<1>2. /\ t \in Requests /\ stage'[t] = "done" /\ xfer'[t].skill = s
      /\ xfer'[t].status = "ROLLED_BACK" /\ xfer'[t].status # "none"
  BY <1>1 DEF RolledBackOf, TransfersOf
<1>3. xfer[t].skill = s /\ xfer[t].status # "none"
  BY <1>2, CommitXfer DEF NoXfer
<1>4. CASE xfer[t].status = "ROLLED_BACK"
  <2>1. stage[t] = "done"
    BY <1>2, <1>4 DEF SkillInv, RolledBackIsDone
  <2>2. QED
    BY <1>2, <1>3, <1>4, <2>1 DEF RolledBackOf, TransfersOf
<1>5. CASE /\ op[r].kind = "rollback" /\ t \in latest[r] /\ t \in TransfersOf(op[r].skill)
  BY <1>3, <1>5 DEF TransfersOf
<1>6. QED
  BY <1>2, <1>4, <1>5, CommitStatus

\* Other steps leave the rolled back transfers as they are.
LEMMA RolledBackUnchanged ==
  ASSUME TypeOK, TransferInPlace, NEW s,
         \/ \E r \in Requests, o \in Ops : Begin(r, o)
         \/ \E r \in Requests : Read(r) \/ Flush(r)
         \/ Quiet
  PROVE  RolledBackOf(s)' = RolledBackOf(s)
<1>1. TransfersOf(s)' = TransfersOf(s)
  BY TransfersUnchanged
<1>2. \A t \in TransfersOf(s) : xfer'[t] = xfer[t]
  <2>1. ASSUME NEW r \in Requests, Flush(r), NEW t \in TransfersOf(s)
        PROVE  xfer'[t] = xfer[t]
    BY <2>1, FlushXfer DEF TransfersOf
  <2>2. ASSUME NEW r \in Requests, (\E o \in Ops : Begin(r, o)) \/ Read(r)
        PROVE  xfer' = xfer
    BY <2>2 DEF Begin, Read
  <2>3. QED
    BY <2>1, <2>2 DEF Quiet
<1>3. QED
  BY <1>1, <1>2 DEF RolledBackOf

\* A transfer is rolled back by a commit, which finds it committed and counts
\* as a redemption.
LEMMA RolledBackStep ==
  ASSUME SkillInv, [Next]_vars
  PROVE  RolledBackIsDone' /\ RolledBackByToken'
<1> USE DEF TypeOK, RequestsOK
<1>0. TypeOK /\ TransferInPlace /\ RolledBackIsDone /\ RolledBackByToken /\ LatestIsOne
  BY DEF SkillInv
<1>1. ASSUME NEW r \in Requests, Commit(r)
      PROVE  RolledBackIsDone'
  <2>1. SUFFICES ASSUME NEW t \in Requests, xfer'[t].status = "ROLLED_BACK"
                 PROVE  stage'[t] = "done"
    BY DEF RolledBackIsDone
  <2>2. xfer[t].status = "ROLLED_BACK" \/ t \in TransfersOf(op[r].skill)
    BY <1>1, <2>1, CommitStatus
  <2>3. stage[t] = "done"
    BY <1>0, <2>2 DEF RolledBackIsDone, TransfersOf
  <2>4. QED
    BY <1>0, <1>1, <2>3, CommitXfer
<1>2. ASSUME NEW r \in Requests, Flush(r)
      PROVE  RolledBackIsDone'
  <2>1. /\ stage[r] = "read" /\ stage' = [stage EXCEPT ![r] = "written"]
        /\ xfer'[r].status # "ROLLED_BACK" /\ \A q \in Requests \ {r} : xfer'[q] = xfer[q]
    BY <1>0, <1>2, FlushXfer
  <2>2. QED
    BY <1>0, <2>1 DEF RolledBackIsDone
<1>3. ASSUME NEW r \in Requests, (\E o \in Ops : Begin(r, o)) \/ Read(r)
      PROVE  RolledBackIsDone'
  BY <1>0, <1>3 DEF Begin, Authenticated, Read, Reach, RolledBackIsDone
<1>4. ASSUME Quiet
      PROVE  RolledBackIsDone'
  BY <1>0, <1>4 DEF Quiet, InTransaction, RolledBackIsDone
<1>5. ASSUME NEW s \in Skills
      PROVE  Cardinality(RolledBackOf(s)') <= redeemed'[s]
  <2>1. /\ Cardinality(RolledBackOf(s)) <= redeemed[s] /\ redeemed[s] \in Nat
        /\ IsFiniteSet(RolledBackOf(s)) /\ Cardinality(RolledBackOf(s)) \in Nat
    BY <1>0, RolledBackFinite DEF RolledBackByToken, RolledBackOf
  <2>2. ASSUME NEW r \in Requests, Commit(r)
        PROVE  Cardinality(RolledBackOf(s)') <= redeemed'[s]
    <3>1. CASE op[r].kind = "rollback" /\ op[r].skill = s
      <4>1. RolledBackOf(s)' \subseteq RolledBackOf(s) \cup latest[r]
        BY <2>2, <3>1, RolledBackGrow
      <4>2. redeemed'[s] = redeemed[s] + 1
        BY <1>0, <2>2, <3>1 DEF Commit
      <4>3. CASE latest[r] = {}
        <5>1. RolledBackOf(s)' \subseteq RolledBackOf(s)
          BY <4>1, <4>3
        <5>2. /\ Cardinality(RolledBackOf(s)') <= Cardinality(RolledBackOf(s))
              /\ Cardinality(RolledBackOf(s)') \in Nat
          BY <2>1, <5>1, FS_Subset, FS_CardinalityType
        <5>3. QED
          BY <2>1, <4>2, <5>2
      <4>4. ASSUME NEW t \in latest[r]
            PROVE  Cardinality(RolledBackOf(s)') <= redeemed'[s]
        <5>1. RolledBackOf(s)' \subseteq RolledBackOf(s) \cup {t}
          BY <1>0, <4>1, <4>4 DEF LatestIsOne
        <5>2. /\ IsFiniteSet(RolledBackOf(s) \cup {t})
              /\ \/ Cardinality(RolledBackOf(s) \cup {t}) = Cardinality(RolledBackOf(s))
                 \/ Cardinality(RolledBackOf(s) \cup {t}) = Cardinality(RolledBackOf(s)) + 1
          BY <2>1, FS_AddElement
        <5>3. /\ Cardinality(RolledBackOf(s)') <= Cardinality(RolledBackOf(s) \cup {t})
              /\ Cardinality(RolledBackOf(s)') \in Nat
          BY <5>1, <5>2, FS_Subset, FS_CardinalityType
        <5>4. QED
          BY <2>1, <4>2, <5>2, <5>3
      <4>5. QED
        BY <4>3, <4>4
    <3>2. CASE ~(op[r].kind = "rollback" /\ op[r].skill = s)
      <4>1. RolledBackOf(s)' \subseteq RolledBackOf(s)
        BY <2>2, <3>2, RolledBackGrow
      <4>2. redeemed'[s] = redeemed[s]
        BY <1>0, <2>2, <3>2 DEF Commit
      <4>3. /\ Cardinality(RolledBackOf(s)') <= Cardinality(RolledBackOf(s))
            /\ Cardinality(RolledBackOf(s)') \in Nat
        BY <2>1, <4>1, FS_Subset, FS_CardinalityType
      <4>4. QED
        BY <2>1, <4>2, <4>3
    <3>3. QED
      BY <3>1, <3>2
  <2>3. CASE \/ \E r \in Requests, o \in Ops : Begin(r, o)
             \/ \E r \in Requests : Read(r) \/ Flush(r)
             \/ Quiet
    <3>1. RolledBackOf(s)' = RolledBackOf(s) /\ redeemed' = redeemed
      BY <1>0, <2>3, RolledBackUnchanged, TransfersUnchanged
    <3>2. QED
      BY <2>1, <3>1
  <2>4. QED
    BY <1>0, <2>2, <2>3, Steps
<1>6. RolledBackByToken'
  BY <1>5 DEF RolledBackByToken, RolledBackOf
<1>7. QED
  BY <1>0, <1>1, <1>2, <1>3, <1>4, <1>6, Steps

(***************************************************************************)
(* Requests that share a key.                                              *)
(***************************************************************************)

\* While a request is in its transaction nobody else with its key moves.
LEMMA NobodyElse ==
  ASSUME TypeOK, KeysInTurn, SameKey, [Next]_vars, NEW r \in Requests, InTransaction(r)
  PROVE  Proceed(r) \/ Abort(r) \/ UNCHANGED vars
<1>1. ASSUME NEW q \in Requests, NEW o \in Ops, Begin(q, o)
      PROVE  FALSE
  BY <1>1 DEF Begin, Authenticated, KeyFree, SameKey
<1>2. ASSUME NEW q \in Requests, Proceed(q) \/ Abort(q)
      PROVE  q = r
  <2>1. InTransaction(q)
    BY <1>2 DEF Proceed, Read, Refuse, Refused, SelectLatest, CheckActive, SelectLogs, Load, Lock, Flush,
       FlushRaises, Commit, Committed, Abort, RolledBack, InTransaction
  <2>2. QED
    BY <2>1 DEF KeysInTurn, SameKey
<1>3. QED
  BY <1>1, <1>2 DEF Next, Sent

\* What a handler has checked stays as it was.
LEMMA CurrentStep ==
  ASSUME SkillInv, SameKey, [Next]_vars
  PROVE  CheckedIsCurrent'
<1> USE DEF TypeOK, RequestsOK, Reach
<1>0. /\ TypeOK /\ KeysInTurn /\ TransferInPlace /\ CheckedIsCurrent /\ HandlersInPlace
      /\ StampsDistinct
  BY DEF SkillInv
<1> DEFINE Selected(q) == op[q].kind = "rollback" /\ at[q] = "flush"
           Checked(q) == op[q].kind = "delete" /\ ~op[q].force /\ at[q] \in {"logs", "load", "flush"}
           Purges(q) == op[q].kind = "delete" /\ at[q] = "flush"
           Current(q) == /\ Selected(q) => latest[q] = Last(TransfersOf(op[q].skill))
                         /\ Checked(q) => ~ActiveInjection(op[q].skill)
                         /\ Purges(q) => TransfersOf(op[q].skill) \subseteq logs[q]
           Stamped(q) == stage[q] = "written" /\ Inserts(op[q]) =>
                           \A t \in Requests : stage[t] = "done" /\ xfer[t].status # "none" =>
                             xfer[t].at < xfer[q].at
<1>1. SUFFICES ASSUME NEW q \in Requests, stage'[q] \in {"read", "written"}
               PROVE  Current(q)' /\ Admitted(op[q])' /\ Stamped(q)'
  BY DEF CheckedIsCurrent
<1>2. stage[q] \in {"read", "written"} => Current(q) /\ Admitted(op[q]) /\ Stamped(q)
  BY <1>0 DEF CheckedIsCurrent
<1>3. InTransaction(q)
  <2>1. ASSUME NEW r \in Requests, NEW o \in Ops, Begin(r, o) PROVE InTransaction(q)
    BY <1>0, <1>1, <2>1 DEF Begin, Authenticated, InTransaction
  <2>2. ASSUME NEW r \in Requests, Read(r) \/ Flush(r) \/ Commit(r) PROVE InTransaction(q)
    BY <1>0, <1>1, <2>2 DEF Read, Flush, Commit, Committed, InTransaction
  <2>3. CASE Quiet
    BY <1>1, <2>3 DEF Quiet, InTransaction
  <2>4. QED
    BY <1>0, <2>1, <2>2, <2>3, Steps
<1>4. ASSUME xfer' = xfer, \A t \in Requests : stage'[t] = "done" <=> stage[t] = "done", NEW s
      PROVE  /\ TransfersOf(s)' = TransfersOf(s)
             /\ Last(TransfersOf(s))' = Last(TransfersOf(s))
             /\ ActiveInjection(s)' = ActiveInjection(s)
  BY <1>4 DEF TransfersOf, Last, ActiveInjection
<1>5. ASSUME skill' = skill, op' = op, Admitted(op[q])
      PROVE  Admitted(op[q])'
  BY <1>5 DEF Admitted
<1>6. stage'[q] = "read" => Stamped(q)'
  OBVIOUS
<1>7. CASE Read(q)
  <2>1. /\ skill' = skill /\ op' = op /\ Admitted(op[q]) /\ stage'[q] = "read"
        /\ at'[q] = AfterSkill(op[q])
    BY <1>0, <1>7 DEF Read
  <2>2. Current(q)'
    BY <2>1 DEF AfterSkill
  <2>3. QED
    BY <1>5, <1>6, <2>1, <2>2
<1>8. CASE SelectLatest(q)
  <2>1. /\ xfer' = xfer /\ stage' = stage /\ op' = op /\ op[q].kind = "rollback"
        /\ skill' = skill /\ stage[q] = "read"
        /\ latest'[q] = Last(TransfersOf(op[q].skill))
    BY <1>0, <1>8 DEF SelectLatest, HandlersInPlace
  <2>2. Current(q)'
    BY <1>4, <2>1
  <2>3. QED
    BY <1>2, <1>5, <1>6, <2>1, <2>2
<1>9. CASE CheckActive(q)
  <2>1. /\ xfer' = xfer /\ stage' = stage /\ op' = op /\ op[q].kind = "delete"
        /\ skill' = skill /\ stage[q] = "read" /\ at'[q] \in {"logs", "load"}
        /\ ~ActiveInjection(op[q].skill)
    BY <1>0, <1>1, <1>9 DEF CheckActive, HandlersInPlace
  <2>2. Current(q)'
    BY <1>4, <2>1
  <2>3. QED
    BY <1>2, <1>5, <1>6, <2>1, <2>2
<1>10. CASE SelectLogs(q) \/ Load(q)
  <2>1. /\ xfer' = xfer /\ stage' = stage /\ op' = op /\ op[q].kind = "delete"
        /\ skill' = skill /\ stage[q] = "read" /\ at[q] \in {"logs", "load"}
        /\ at'[q] = "flush" => TransfersOf(op[q].skill) \subseteq logs[q] /\ logs' = logs
    BY <1>0, <1>1, <1>10 DEF SelectLogs, Load, HandlersInPlace
  <2>2. Current(q)'
    BY <1>2, <1>4, <2>1
  <2>3. QED
    BY <1>2, <1>5, <1>6, <2>1, <2>2
<1>11. CASE Flush(q)
  <2>1. /\ op' = op /\ at' = at /\ latest' = latest /\ logs' = logs /\ stage[q] = "read"
        /\ skill' = skill /\ stage' = [stage EXCEPT ![q] = "written"] /\ at[q] = "flush"
    BY <1>11 DEF Flush
  <2>2. op[q].kind \in {"rollback", "delete"} => xfer' = xfer
    BY <1>11 DEF Flush, Inserts, StatusOf
  <2>3. \A t \in Requests : stage'[t] = "done" <=> stage[t] = "done"
    BY <1>0, <2>1
  <2>4. Current(q)'
    BY <1>2, <1>4, <2>1, <2>2, <2>3
  <2>5. Stamped(q)'
    <3>1. SUFFICES ASSUME Inserts(op[q]), NEW t \in Requests, stage'[t] = "done",
                          xfer'[t].status # "none"
                   PROVE  xfer'[t].at < xfer'[q].at
      BY <2>1 DEF Inserts, StatusOf
    <3>2. t # q /\ xfer'[t] = xfer[t]
      BY <1>0, <1>11, <2>1, <3>1, FlushXfer
    <3>3. xfer'[q].at = clock
      <4>1. xfer'[q] = [skill |-> IF op[q].kind = "sync" THEN op[q].new ELSE op[q].skill,
                        status |-> StatusOf(op[q]), at |-> clock]
        BY <1>0, <1>11, <3>1 DEF Flush
      <4>2. QED
        BY <4>1
    <3>4. QED
      BY <1>0, <3>1, <3>2, <3>3 DEF StampsDistinct
  <2>6. QED
    BY <1>2, <1>5, <2>1, <2>4, <2>5
<1>12. CASE Refuse(q) \/ FlushRaises(q) \/ Commit(q) \/ Abort(q)
  BY <1>0, <1>1, <1>12 DEF Refuse, Refused, FlushRaises, Commit, Committed, Abort, RolledBack
<1>13. CASE Lock(q) \/ UNCHANGED vars
  <2>1. /\ xfer' = xfer /\ stage' = stage /\ op' = op /\ at' = at /\ latest' = latest
        /\ skill' = skill /\ logs' = logs
    BY <1>13 DEF vars, Lock
  <2>2. Current(q)' /\ Stamped(q)'
    BY <1>1, <1>2, <1>4, <2>1 DEF Inserts, StatusOf
  <2>3. QED
    BY <1>1, <1>2, <1>5, <2>1, <2>2
<1>14. QED
  BY <1>0, <1>3, <1>7, <1>8, <1>9, <1>10, <1>11, <1>12, <1>13, NobodyElse DEF Proceed

\* No step changes a key, so that requests share one for ever or never.
LEMMA SameKeyFixed ==
  ASSUME TypeOK, [Next]_vars
  PROVE  SameKey' = SameKey
<1>1. key' = key
  BY KeyFixed
<1>2. QED
  BY <1>1 DEF SameKey

(***************************************************************************)
(* The theorems.                                                           *)
(***************************************************************************)

\* Before the first request there is nothing.
LEMMA InitInv ==
  ASSUME Init
  PROVE  SkillInv
<1> USE DEF Init, RequestsInit
<1>1. TypeOK
  BY DEF TypeOK, RequestsOK, Stages, Absent, NoXfer, NoOp
<1>2. /\ KeysInTurn /\ AboutExists /\ LatestIsVisible /\ TouchedIsLive
      /\ FlushedIsStaged /\ HoldsOwn /\ FlushedHolds /\ LocksExclude
  BY DEF KeysInTurn, InTransaction, AboutExists, LatestIsVisible, TouchedIsLive,
     FlushedIsStaged, HoldsOwn, FlushedHolds, LocksExclude
<1>3. NewFresh /\ HandlersInPlace
  BY DEF NewFresh, HandlersInPlace, NoOp, News
<1>4. InsertedOnce /\ TransferInPlace /\ UnusedIsUnredeemed /\ StaleRollbacks
  BY DEF InsertedOnce, TransferInPlace, UnusedIsUnredeemed, StaleRollbacks, NoXfer
<1>5. NoOrphans
  BY DEF NoOrphans, TransfersOf
<1>6. StampsDistinct /\ LatestIsOne /\ RolledBackIsDone /\ CheckedIsCurrent
  BY DEF StampsDistinct, LatestIsOne, RolledBackIsDone, CheckedIsCurrent, NoXfer
<1>7. RolledBackByToken
  <2>1. ASSUME NEW s \in Skills
        PROVE  Cardinality({t \in TransfersOf(s) : xfer[t].status = "ROLLED_BACK"}) <= redeemed[s]
    <3>1. {t \in TransfersOf(s) : xfer[t].status = "ROLLED_BACK"} = {}
      BY DEF TransfersOf
    <3>2. redeemed[s] = 0
      OBVIOUS
    <3>3. Cardinality({t \in TransfersOf(s) : xfer[t].status = "ROLLED_BACK"}) = 0
      BY <3>1, FS_EmptySet
    <3>4. QED
      BY <3>2, <3>3
  <2>2. QED
    BY <2>1 DEF RolledBackByToken
<1>8. QED
  BY <1>1, <1>2, <1>3, <1>4, <1>5, <1>6, <1>7 DEF SkillInv

\* Requests, however they interleave, keep the tables in the shape SkillInv
\* describes.
THEOREM InvHolds == Spec => []SkillInv
<1>1. Init => SkillInv
  BY InitInv
<1>2. SkillInv /\ [Next]_vars => SkillInv'
  <2>1. SUFFICES ASSUME SkillInv, [Next]_vars
                 PROVE  SkillInv'
    OBVIOUS
  <2>2. TypeOK /\ KeysInTurn /\ HandlersInPlace
    BY <2>1 DEF SkillInv
  <2>3. TypeOK' /\ KeysInTurn' /\ HandlersInPlace'
    BY <2>1, <2>2, TypeStep, KeysStep, OrderStep
  <2>4. NewFresh' /\ InsertedOnce' /\ TransferInPlace' /\ FlushedIsStaged'
    BY <2>1, FreshStep, PlaceStep, StagedStep
  <2>5. TouchedIsLive' /\ AboutExists' /\ LatestIsVisible' /\ NoOrphans'
    BY <2>1, LiveStep, LatestStep, OrphanStep
  <2>6. UnusedIsUnredeemed' /\ StaleRollbacks'
    BY <2>1, UnusedStep, StaleStep
  <2>7. StampsDistinct' /\ LatestIsOne' /\ RolledBackIsDone' /\ RolledBackByToken'
    BY <2>1, StampsStep, RolledBackStep
  <2>8. SameKey' => CheckedIsCurrent'
    BY <2>1, <2>2, SameKeyFixed, CurrentStep
  <2>9. HoldsOwn' /\ FlushedHolds' /\ LocksExclude'
    BY <2>1, HoldsStep, FlushedStep, ExcludeStep
  <2>10. QED
    BY <2>3, <2>4, <2>5, <2>6, <2>7, <2>8, <2>9 DEF SkillInv
<1>3. QED
  BY <1>1, <1>2, PTL DEF Spec

\* The tables hold what their columns allow.
THEOREM TypeCorrect == Spec => []TypeOK
<1>1. SkillInv => TypeOK
  BY DEF SkillInv
<1>2. QED
  BY <1>1, InvHolds, PTL

\* No committed transfer outlives its skill, whatever a deletion races with.
THEOREM Integrity == Spec => []NoOrphans
<1>1. SkillInv => NoOrphans
  BY DEF SkillInv
<1>2. QED
  BY <1>1, InvHolds, PTL

\* Rows of different skills are different.
LEMMA RowsApart ==
  ASSUME NEW s \in Skills, NEW u \in Skills,
         ({s} \cup TransfersOf(s)) \cap ({u} \cup TransfersOf(u)) # {}
  PROVE  s = u
BY SkillConstants DEF TransfersOf

\* Who has locks and waits: a rollback or a delete, and it waits for a request
\* that has locks of the same skill.  If it has the row of the skill, what it
\* waits for is a delete that has begun to purge.
LEMMA WaitingHolder ==
  ASSUME SkillInv, NEW q \in Requests, NEW p \in Requests, WaitsFor(q, p), locks[q] # {}
  PROVE  /\ stage[q] = "read" /\ op[q].kind \in {"rollback", "delete"}
         /\ locks[p] # {} /\ op[p].skill = op[q].skill
         /\ op[q].skill \notin locks[q] => op[q].kind = "delete" /\ op[q].logs
         /\ op[q].skill \in locks[q] => op[p].kind = "delete" /\ op[p].logs
<1> DEFINE s == op[q].skill
<1>1. /\ stage[q] = "read" /\ at[q] = "flush" /\ p # q
      /\ NextRows(q) \cap locks[p] # {} /\ Clash(op[p].kind, op[q].kind)
  BY DEF WaitsFor, SkillInv, HoldsOwn
<1>2. PICK x : x \in Needs(q) /\ x \notin locks[q] /\ x \in locks[p]
  BY <1>1, NeedsType DEF SkillInv
<1>3. s \in Skills /\ s \in Needs(q) /\ Needs(q) \subseteq {s} \cup TransfersOf(s) /\ Touches(op[q])
  BY <1>1, <1>2, NeedsOwn
<1>4. /\ stage[p] \in {"read", "written"} /\ Touches(op[p])
      /\ locks[p] \subseteq {op[p].skill} \cup TransfersOf(op[p].skill)
      /\ op[p].skill \notin locks[p] => op[p].kind = "delete" /\ op[p].logs
  BY <1>1 DEF SkillInv, HoldsOwn
<1>5. op[p].skill \in Skills
  BY <1>4, Begun, OpFacts DEF SkillInv
<1>6. op[p].skill = s
  BY <1>2, <1>3, <1>4, <1>5, RowsApart
<1>7. s \notin locks[q] => op[q].kind = "delete" /\ op[q].logs
  BY DEF SkillInv, HoldsOwn
<1>8. op[q].kind \in {"rollback", "delete"}
  <2>1. SUFFICES ASSUME op[q].kind \notin {"rollback", "delete"} PROVE FALSE
    OBVIOUS
  <2>2. Needs(q) \subseteq {s} /\ s \in locks[q]
    BY <1>7, <2>1 DEF Needs
  <2>3. QED
    BY <1>2, <2>2
<1>9. s \in locks[q] => s \notin locks[p]
  BY <1>1 DEF SkillInv, LocksExclude
<1>10. QED
  BY <1>1, <1>2, <1>4, <1>6, <1>7, <1>8, <1>9

\* Requests wait for each other only where the code takes locks in two orders:
\* the row of a skill, then those of transfers, or transfers to purge, then the
\* row of their skill.
THEOREM OnlyPurgesDeadlock == Spec => []DeadlocksExplained
<1>1. SkillInv => DeadlocksExplained
  <2>1. SUFFICES ASSUME SkillInv,
                        NEW S \in SUBSET {r \in Requests : \E q \in Requests : WaitsFor(r, q)},
                        S # {},
                        \A r \in S : \E q \in Requests :
                          WaitsFor(r, q) /\ (q \in S \/ ~InTransaction(q))
                 PROVE  \E p, q \in S :
                          /\ WaitsFor(q, p) /\ key[q] # key[p]
                          /\ op[p].kind = "delete" /\ op[p].logs
                          /\ op[q].kind \in {"rollback", "delete"} /\ op[q].skill = op[p].skill
    BY DEF DeadlocksExplained
  <2>2. \A r \in S : \E q \in S : WaitsFor(r, q) /\ InTransaction(q)
    <3>1. \A r, q \in Requests : WaitsFor(r, q) => InTransaction(q)
      BY <2>1 DEF WaitsFor, InTransaction, SkillInv, HoldsOwn
    <3>2. QED
      BY <2>1, <3>1
  <2>3. \A q, p \in S : locks[q] # {} /\ WaitsFor(q, p) /\ op[p].kind = "delete" /\ op[p].logs =>
          /\ op[q].kind \in {"rollback", "delete"} /\ op[q].skill = op[p].skill
          /\ key[q] # key[p]
    <3>1. SUFFICES ASSUME NEW q \in S, NEW p \in S, locks[q] # {}, WaitsFor(q, p)
                   PROVE  /\ op[q].kind \in {"rollback", "delete"} /\ op[q].skill = op[p].skill
                          /\ key[q] # key[p]
      OBVIOUS
    <3>2. /\ stage[q] = "read" /\ op[q].kind \in {"rollback", "delete"} /\ locks[p] # {}
          /\ op[p].skill = op[q].skill
      BY <2>1, <3>1, WaitingHolder
    <3>3. InTransaction(q) /\ InTransaction(p) /\ p # q
      BY <2>1, <3>1, <3>2 DEF InTransaction, SkillInv, HoldsOwn, WaitsFor
    <3>4. QED
      BY <2>1, <3>2, <3>3 DEF SkillInv, KeysInTurn
  <2>4. PICK h \in S : locks[h] # {}
    <3>1. PICK r \in S : InTransaction(r)
      BY <2>1, <2>2
    <3>2. PICK h \in S : WaitsFor(r, h)
      BY <2>2
    <3>3. locks[h] # {}
      BY <3>1, <3>2 DEF WaitsFor, InTransaction
    <3>4. QED
      BY <3>3
  <2>5. PICK g \in S : WaitsFor(h, g) /\ locks[g] # {} /\ op[g].skill = op[h].skill
    BY <2>1, <2>2, <2>4, WaitingHolder
  <2>6. PICK f \in S : WaitsFor(g, f)
    BY <2>2
  <2>7. CASE op[g].skill \in locks[g]
    <3>1. g \in Requests /\ f \in Requests
      BY <2>1
    <3>2. op[f].kind = "delete" /\ op[f].logs
      BY <2>1, <2>5, <2>6, <2>7, <3>1, WaitingHolder
    <3>3. QED
      BY <2>3, <2>5, <2>6, <3>2
  <2>8. CASE op[g].skill \notin locks[g]
    <3>1. g \in Requests /\ f \in Requests
      BY <2>1
    <3>2. op[g].kind = "delete" /\ op[g].logs
      BY <2>1, <2>5, <2>6, <2>8, <3>1, WaitingHolder
    <3>3. QED
      BY <2>3, <2>4, <2>5, <3>2
  <2>9. QED
    BY <2>7, <2>8
<1>2. QED
  BY <1>1, InvHolds, PTL

\* The lock on the row of the key bounds the redemptions of a token by the
\* number of keys in use.
THEOREM BoundedRedemption == Spec => []RedeemedOncePerKey
<1>1. SkillInv => RedeemedOncePerKey
  <2>1. SUFFICES ASSUME SkillInv, NEW s \in Skills
                 PROVE  redeemed[s] <= Cardinality(KeysUsed)
    BY DEF RedeemedOncePerKey
  <2>2. /\ Cardinality(InFlight(s)) \in Nat /\ Cardinality(KeysUsed) \in Nat
        /\ redeemed[s] \in Nat
    BY <2>1, FlightPerKey DEF SkillInv, TypeOK
  <2>3. redeemed[s] > 0 => redeemed[s] + Cardinality(InFlight(s)) <= Cardinality(KeysUsed)
    BY <2>1 DEF SkillInv, StaleRollbacks
  <2>4. QED
    BY <2>2, <2>3
<1>2. QED
  BY <1>1, InvHolds, PTL

\* As long as the requests use a single key, a rollback token is good for one
\* rollback.
THEOREM SingleUse == Spec => [](SameKey => TokenSingleUse)
<1>1. TypeOK /\ RedeemedOncePerKey => (SameKey => TokenSingleUse)
  <2>1. SUFFICES ASSUME TypeOK, RedeemedOncePerKey, SameKey, NEW s \in Skills
                 PROVE  redeemed[s] <= 1
    BY DEF TokenSingleUse
  <2>2. Cardinality(KeysUsed) \in Nat /\ Cardinality(KeysUsed) <= 1
    <3>1. CASE Requests = {}
      <4>1. KeysUsed = {}
        BY <3>1 DEF KeysUsed
      <4>2. QED
        BY <4>1, FS_EmptySet
    <3>2. CASE Requests # {}
      <4>1. PICK r \in Requests : TRUE
        BY <3>2
      <4>2. KeysUsed = {key[r]}
        BY <2>1, <4>1 DEF KeysUsed, SameKey
      <4>3. Cardinality({key[r]}) = 1
        BY FS_Singleton
      <4>4. QED
        BY <4>2, <4>3
    <3>3. QED
      BY <3>1, <3>2
  <2>3. redeemed[s] \in Nat /\ redeemed[s] <= Cardinality(KeysUsed)
    BY <2>1 DEF TypeOK, RedeemedOncePerKey
  <2>4. QED
    BY <2>2, <2>3
<1>2. QED
  BY <1>1, TypeCorrect, BoundedRedemption, PTL

\* However rollbacks race each other, retries and deletions, no skill has more
\* rolled back transfers than redemptions of its token.
THEOREM RollbacksPaid == Spec => []RolledBackByToken
<1>1. SkillInv => RolledBackByToken
  BY DEF SkillInv
<1>2. QED
  BY <1>1, InvHolds, PTL

\* While requests share a key, only a forced deletion makes an injection
\* disappear: nothing commits between the check of a delete and its cascade.
THEOREM InjectionsKept == Spec => InjectionKept
<1>1. SkillInv /\ [Next]_vars =>
        [\A t \in Requests :
           /\ SameKey
           /\ stage[t] = "done" /\ xfer[t].status = "INJECTED"
           /\ xfer'[t].status = "none"
           => \E r \in Requests : stage'[r] # stage[r] /\ op[r].force]_vars
  <2>1. SUFFICES ASSUME SkillInv, [Next]_vars, NEW t \in Requests, SameKey,
                        stage[t] = "done", xfer[t].status = "INJECTED",
                        xfer'[t].status = "none"
                 PROVE  \E r \in Requests : stage'[r] # stage[r] /\ op[r].force
    OBVIOUS
  <2>2. TypeOK /\ TransferInPlace /\ CheckedIsCurrent /\ HandlersInPlace
    BY <2>1 DEF SkillInv
  <2>3. PICK r \in Requests : Commit(r)
    <3>1. ASSUME NEW r \in Requests, (\E o \in Ops : Begin(r, o)) \/ Read(r)
          PROVE  FALSE
      BY <2>1, <3>1 DEF Begin, Read
    <3>2. ASSUME NEW r \in Requests, Flush(r)
          PROVE  FALSE
      BY <2>1, <2>2, <3>2, FlushXfer
    <3>3. ~Quiet
      BY <2>1 DEF Quiet
    <3>4. QED
      BY <2>1, <2>2, <3>1, <3>2, <3>3, Steps
  <2>4. op[r].kind = "delete" /\ t \in TransfersOf(op[r].skill)
    BY <2>1, <2>3, CommitXfer
  <2>5. op[r] \in Ops /\ stage[r] = "written" /\ stage'[r] = "done"
    BY <2>1, <2>2, <2>3, CommitSkill, Begun DEF Commit, Committed, Reach, TypeOK, RequestsOK
  <2>6. op[r].force \in BOOLEAN
    BY <2>4, <2>5 DEF Ops, Extracts, Syncs, Transfers, Rollbacks, Refines, Deletes
  <2>7. ActiveInjection(op[r].skill)
    BY <2>1, <2>4 DEF ActiveInjection
  <2>8. op[r].force
    BY <2>2, <2>4, <2>5, <2>6, <2>7 DEF CheckedIsCurrent, HandlersInPlace
  <2>9. QED
    BY <2>5, <2>8
<1>2. QED
  BY <1>1, InvHolds, PTL DEF Spec, InjectionKept

\* While requests share a key, a rollback marks the transfer that is the most
\* recent one at its commit.
THEOREM RollbackMarksLast == Spec => RollbackHitsLast
<1>1. SkillInv /\ [Next]_vars =>
        [\A r \in Requests :
           /\ SameKey
           /\ stage[r] = "written" /\ stage'[r] = "done" /\ op[r].kind = "rollback"
           => latest[r] = Last(TransfersOf(op[r].skill))]_vars
  BY DEF SkillInv, CheckedIsCurrent, HandlersInPlace
<1>2. QED
  BY <1>1, InvHolds, PTL DEF Spec, RollbackHitsLast

(***************************************************************************)
(* Requests that share a key act one after the other, each in one step.    *)
(***************************************************************************)

\* What SkillsAtomic sees of a state.
Shown(t) == IF stage[t] = "done" /\ xfer[t].status # "none" THEN xfer[t] ELSE NoXfer
Handled(r) == IF stage[r] = "done" THEN op[r] ELSE NoOp

\* It sees the committed transfers, in their order.
LEMMA AtomicSees ==
  ASSUME NEW s
  PROVE  /\ Atomic!Of(s) = TransfersOf(s)
         /\ Atomic!MostRecent(TransfersOf(s)) = Last(TransfersOf(s))
<1>1. Atomic!Of(s) = TransfersOf(s)
  BY DEF Atomic!Of, TransfersOf, NoXfer
<1>2. ASSUME NEW t \in TransfersOf(s)
      PROVE  [r \in Requests |-> Shown(r)][t] = xfer[t]
  BY DEF TransfersOf, Shown
<1>3. Atomic!MostRecent(TransfersOf(s)) = Last(TransfersOf(s))
  BY <1>2 DEF Atomic!MostRecent, Last, Shown
<1>4. QED
  BY <1>1, <1>3

\* It does not see how a request gets to its commit, or that it fails.
LEMMA Unseen ==
  ASSUME TypeOK, TransferInPlace,
         \/ \E r \in Requests, o \in Ops : Begin(r, o)
         \/ \E r \in Requests : Read(r) \/ Flush(r)
         \/ Quiet
  PROVE  UNCHANGED Atomic!vars
<1> USE DEF TypeOK, RequestsOK, Reach
<1>0. skill' = skill
  BY TransfersUnchanged
<1>1. SUFFICES ASSUME NEW t \in Requests
               PROVE  Shown(t)' = Shown(t) /\ Handled(t)' = Handled(t)
  BY <1>0 DEF Atomic!vars, Shown, Handled
<1>2. ASSUME xfer'[t] = xfer[t], stage'[t] = "done" <=> stage[t] = "done",
             stage[t] = "done" => op'[t] = op[t]
      PROVE  Shown(t)' = Shown(t) /\ Handled(t)' = Handled(t)
  BY <1>2 DEF Shown, Handled
<1>3. ASSUME NEW r \in Requests, (\E o \in Ops : Begin(r, o)) \/ Read(r)
      PROVE  Shown(t)' = Shown(t) /\ Handled(t)' = Handled(t)
  <2>1. /\ xfer' = xfer
        /\ stage'[t] = "done" <=> stage[t] = "done"
        /\ stage[t] = "done" => op'[t] = op[t]
    BY <1>3 DEF Begin, Authenticated, Read
  <2>2. QED
    BY <1>2, <2>1
<1>4. ASSUME NEW r \in Requests, Flush(r)
      PROVE  Shown(t)' = Shown(t) /\ Handled(t)' = Handled(t)
  <2>1. /\ op' = op /\ stage[r] = "read" /\ stage' = [stage EXCEPT ![r] = "written"]
        /\ t # r => xfer'[t] = xfer[t]
    BY <1>4, FlushXfer DEF Flush
  <2>2. CASE t = r
    BY <2>1, <2>2 DEF Shown, Handled
  <2>3. CASE t # r
    BY <1>2, <2>1, <2>3
  <2>4. QED
    BY <2>2, <2>3
<1>5. CASE Quiet
  BY <1>2, <1>5 DEF Quiet, InTransaction
<1>6. QED
  BY <1>3, <1>4, <1>5

\* A commit does the whole request on the tables as they are.
LEMMA CommitIsAtomic ==
  ASSUME SkillInv, SameKey, NEW r \in Requests, Commit(r), NEW o, o = op[r]
  PROVE  Atomic!Do(r, o)
<1> USE DEF TypeOK, RequestsOK
<1>0. /\ TypeOK /\ CheckedIsCurrent /\ HandlersInPlace /\ TransferInPlace /\ FlushedIsStaged
      /\ TouchedIsLive /\ NewFresh
  BY DEF SkillInv
<1>1. /\ o \in Ops /\ op' = op
      /\ stage[r] = "written" /\ stage' = [stage EXCEPT ![r] = "done"] /\ at[r] = "flush"
      /\ skill' = SkillsAfter(o) /\ xfer' = TransfersAfter(r)
  BY <1>0, Begun DEF Commit, Committed, Reach, HandlersInPlace
<1>2. [q \in Requests |-> Handled(q)][r] = NoOp
  BY <1>1 DEF Handled
<1>3. [q \in Requests |-> Handled(q)'] = [[q \in Requests |-> Handled(q)] EXCEPT ![r] = o]
  BY <1>0, <1>1 DEF Handled
<1>4. Shown(r) = NoXfer
  BY <1>1 DEF Shown
<1>5. ASSUME xfer' = xfer
      PROVE  /\ \A t \in Requests \ {r} : Shown(t)' = Shown(t)
             /\ Shown(r)' = IF xfer[r].status # "none" THEN xfer[r] ELSE NoXfer
  BY <1>0, <1>1, <1>5 DEF Shown
<1>6. ASSUME ~Inserts(o), xfer' = xfer
      PROVE  \A t \in Requests : Shown(t)' = Shown(t)
  BY <1>0, <1>1, <1>4, <1>5, <1>6 DEF TransferInPlace
<1>7. ASSUME Inserts(o), xfer' = xfer, NEW s,
             s = IF o.kind = "sync" THEN o.new ELSE o.skill
      PROVE  Atomic!Recorded(r, s, StatusOf(o))
  <2>1. xfer[r].status = StatusOf(o) /\ xfer[r].status # "none" /\ xfer[r].skill = s
    BY <1>0, <1>1, <1>7 DEF FlushedIsStaged, TransferInPlace, Inserts
  <2>2. xfer[r] = [skill |-> s, status |-> StatusOf(o), at |-> xfer[r].at]
    BY <1>0, <2>1
  <2>3. Shown(r)' = xfer[r]
    BY <1>5, <1>7, <2>1
  <2>4. \A t \in Requests : Shown(t).status # "none" => Shown(t).at < xfer[r].at
    BY <1>0, <1>1, <1>7 DEF Shown, NoXfer, CheckedIsCurrent
  <2>5. [t \in Requests |-> Shown(t)'] = [[t \in Requests |-> Shown(t)] EXCEPT ![r] = xfer[r]]
    BY <1>5, <1>7, <2>3
  <2>6. QED
    BY <1>4, <2>2, <2>3, <2>4, <2>5 DEF Atomic!Recorded, Atomic!NoTransfer, NoXfer, Shown
<1>8. Admitted(o)
  BY <1>0, <1>1 DEF CheckedIsCurrent
<1>9. CASE o.kind = "extract"
  <2>1. ~Inserts(o) /\ xfer' = xfer /\ skill' = [skill EXCEPT ![o.new] = NewSkill(o)]
    BY <1>1, <1>9 DEF Inserts, StatusOf, TransfersAfter, SkillsAfter, News
  <2>2. Atomic!Appears(o.new, NoSkill)
    BY <1>0, <1>1, <1>9, <2>1
       DEF Atomic!Appears, Atomic!Absent, NewFresh, News, Absent, NewSkill
  <2>3. Atomic!Extract(o)
    BY <1>6, <1>9, <2>1, <2>2 DEF Atomic!Extract, Shown
  <2>4. QED
    BY <1>2, <1>3, <2>3 DEF Atomic!Do, Handled
<1>10. CASE o.kind = "refine"
  <2>1. ~Inserts(o) /\ xfer' = xfer /\ skill' = [skill EXCEPT ![o.new] = NewSkill(o)]
    BY <1>1, <1>10 DEF Inserts, StatusOf, TransfersAfter, SkillsAfter, News
  <2>2. skill[o.skill].state = "live"
    BY <1>8, <1>10 DEF Admitted, Abouts
  <2>3. Atomic!Appears(o.new, o.skill)
    BY <1>0, <1>1, <1>10, <2>1
       DEF Atomic!Appears, Atomic!Absent, NewFresh, News, Absent, NewSkill
  <2>4. Atomic!Refine(o)
    BY <1>6, <1>10, <2>1, <2>2, <2>3 DEF Atomic!Refine, Atomic!Live, Shown
  <2>5. QED
    BY <1>2, <1>3, <2>4 DEF Atomic!Do, Handled
<1>11. CASE o.kind = "sync"
  <2>1. Inserts(o) /\ xfer' = xfer /\ skill' = [skill EXCEPT ![o.new] = NewSkill(o)]
    BY <1>1, <1>11 DEF Inserts, StatusOf, TransfersAfter, SkillsAfter, News
  <2>2. Atomic!Recorded(r, o.new, StatusOf(o))
    BY <1>7, <1>11, <2>1
  <2>3. Atomic!Appears(o.new, NoSkill)
    BY <1>0, <1>1, <1>11, <2>1
       DEF Atomic!Appears, Atomic!Absent, NewFresh, News, Absent, NewSkill
  <2>4. StatusOf(o) = IF ~o.low THEN "INJECTED" ELSE IF o.partial THEN "PARTIAL" ELSE "REJECTED"
    BY <1>11 DEF StatusOf
  <2>5. Atomic!Sync(r, o)
    BY <1>11, <2>2, <2>3, <2>4 DEF Atomic!Sync, Atomic!Recorded
  <2>6. QED
    BY <1>2, <1>3, <2>5 DEF Atomic!Do, Handled
<1>12. CASE o.kind = "transfer"
  <2>1. xfer' = xfer /\ skill' = skill
    BY <1>1, <1>12 DEF TransfersAfter, SkillsAfter, News
  <2>2. CASE Inserts(o)
    <3>1. Atomic!Recorded(r, o.skill, StatusOf(o))
      BY <1>7, <1>12, <2>1, <2>2
    <3>2. skill[o.skill].state = "live" /\ ~(o.dry /\ ~o.low)
      BY <1>8, <1>12, <2>2 DEF Admitted, Abouts, Inserts, StatusOf
    <3>3. StatusOf(o) = IF o.low THEN "PARTIAL" ELSE "INJECTED"
      BY <1>12, <3>2 DEF StatusOf
    <3>4. Atomic!Transfer(r, o)
      BY <1>12, <2>1, <3>1, <3>2, <3>3 DEF Atomic!Transfer, Atomic!Live, Atomic!Recorded
    <3>5. QED
      BY <1>2, <1>3, <3>4 DEF Atomic!Do, Handled
  <2>3. CASE ~Inserts(o)
    <3>1. o.dry /\ ~o.low
      BY <1>12, <2>3 DEF Inserts, StatusOf
    <3>2. Atomic!Transfer(r, o)
      BY <1>6, <1>12, <2>1, <2>3, <3>1 DEF Atomic!Transfer, Shown
    <3>3. QED
      BY <1>2, <1>3, <3>2 DEF Atomic!Do, Handled
  <2>4. QED
    BY <2>2, <2>3
<1>13. CASE o.kind = "rollback"
  <2>1. /\ skill' = [skill EXCEPT ![o.skill].used = TRUE]
        /\ xfer' = [t \in Requests |-> IF t \in latest[r]
                                       THEN [xfer[t] EXCEPT !.status = "ROLLED_BACK"]
                                       ELSE xfer[t]]
        /\ ~Inserts(o)
    BY <1>1, <1>13 DEF TransfersAfter, SkillsAfter, News, Inserts, StatusOf
  <2>2. latest[r] = Last(TransfersOf(o.skill))
    BY <1>0, <1>1, <1>13 DEF CheckedIsCurrent
  <2>3. ASSUME NEW t \in Requests
        PROVE  Shown(t)' = IF t \in latest[r] THEN [Shown(t) EXCEPT !.status = "ROLLED_BACK"]
                           ELSE Shown(t)
    <3>1. CASE t \in latest[r]
      <4>1. stage[t] = "done" /\ stage'[t] = "done" /\ xfer[t].status # "none"
        BY <1>0, <1>1, <2>2, <3>1 DEF Last, TransfersOf
      <4>2. xfer'[t] = [xfer[t] EXCEPT !.status = "ROLLED_BACK"]
            /\ xfer'[t].status # "none"
        BY <1>0, <2>1, <3>1
      <4>3. QED
        BY <3>1, <4>1, <4>2 DEF Shown
    <3>2. CASE t \notin latest[r]
      <4>1. xfer'[t] = xfer[t] /\ (t = r => xfer[t].status = "none")
        BY <1>0, <2>1, <3>2 DEF TransferInPlace
      <4>2. QED
        BY <1>0, <1>1, <3>2, <4>1 DEF Shown
    <3>3. QED
      BY <3>1, <3>2
  <2>4. Atomic!Rollback(o)
    BY <1>8, <1>13, <2>1, <2>2, <2>3, AtomicSees
       DEF Atomic!Rollback, Atomic!Live, Admitted, Abouts, Shown
  <2>5. QED
    BY <1>2, <1>3, <2>4 DEF Atomic!Do, Handled
<1>14. CASE o.kind = "delete"
  <2>1. /\ skill' = [s \in Skills |->
                       IF s = o.skill THEN [skill[s] EXCEPT !.state = "deleted"]
                       ELSE IF skill[s].prev = o.skill THEN [skill[s] EXCEPT !.prev = NoSkill]
                       ELSE skill[s]]
        /\ xfer' = [t \in Requests |-> IF t \in TransfersOf(o.skill) THEN NoXfer ELSE xfer[t]]
        /\ ~Inserts(o)
    BY <1>1, <1>14 DEF TransfersAfter, SkillsAfter, News, Inserts, StatusOf
  <2>2. \A t \in Requests : Shown(t)' = IF t \in TransfersOf(o.skill) THEN NoXfer ELSE Shown(t)
    BY <1>0, <1>1, <2>1 DEF Shown, TransferInPlace, NoXfer
  <2>3. o.force \in BOOLEAN /\ o.logs \in BOOLEAN
    BY <1>1, <1>14 DEF Ops, Extracts, Syncs, Transfers, Rollbacks, Refines, Deletes
  <2>4. o.logs \/ TransfersOf(o.skill) = {}
    BY <1>0, <1>1, <1>14 DEF CheckedIsCurrent, HandlersInPlace
  <2>5. o.force \/ \A t \in TransfersOf(o.skill) : Shown(t).status # "INJECTED"
    BY <1>0, <1>1, <1>14, <2>3 DEF CheckedIsCurrent, ActiveInjection, TransfersOf, Shown
  <2>6. skill[o.skill].state = "live"
    BY <1>8, <1>14 DEF Admitted, Abouts
  <2>7. Atomic!Delete(o)
    BY <1>14, <2>1, <2>2, <2>4, <2>5, <2>6, AtomicSees
       DEF Atomic!Delete, Atomic!Live, Atomic!NoTransfer, NoXfer, Shown, TransfersOf
  <2>8. QED
    BY <1>2, <1>3, <2>7 DEF Atomic!Do, Handled
<1>15. QED
  BY <1>1, <1>9, <1>10, <1>11, <1>12, <1>13, <1>14, OpFacts DEF News, Abouts

\* Requests that share a key are done one after the other, each in one step of
\* SkillsAtomic, and a request that fails leaves no trace.
THEOREM Serialisable == Spec => ActsAtomically
<1>1. Init => Atomic!Init
  BY DEF Init, RequestsInit, Atomic!Init, Atomic!Absent, Atomic!NoTransfer, Absent, NoXfer, NoOp
<1>2. SkillInv /\ [Next]_vars => [SameKey => Atomic!Next]_Atomic!vars
  <2>1. SUFFICES ASSUME SkillInv, SameKey, [Next]_vars
                 PROVE  Atomic!Next \/ UNCHANGED Atomic!vars
    OBVIOUS
  <2>2. TypeOK /\ TransferInPlace
    BY <2>1 DEF SkillInv
  <2>3. ASSUME NEW r \in Requests, Commit(r)
        PROVE  Atomic!Next
    <3>1. op[r] \in Ops /\ op' = op /\ stage'[r] = "done"
      BY <2>2, <2>3, Begun DEF Commit, Committed, Reach, TypeOK, RequestsOK
    <3>2. PICK o \in Ops : o = op[r]
      BY <3>1
    <3>3. o \in {[q \in Requests |-> Handled(q)'][r]} \cap Ops
      BY <3>1, <3>2 DEF Handled
    <3>4. Atomic!Do(r, o)
      BY <2>1, <2>3, <3>2, CommitIsAtomic
    <3>5. QED
      BY <3>3, <3>4 DEF Atomic!Next, Handled
  <2>4. QED
    BY <2>1, <2>2, <2>3, Steps, Unseen
<1>3. QED
  BY <1>1, <1>2, InvHolds, PTL DEF Spec, ActsAtomically
=============================================================================
