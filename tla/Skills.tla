------------------------------- MODULE Skills -------------------------------
(***************************************************************************)
(* Skills, their transfers and their rollback tokens: the writing requests *)
(* of src/app/routers/skills.py (extract, transfer, rollback, refine,      *)
(* delete) and the part of POST /connections/{id}/sync that writes these   *)
(* tables.  Handlers read in several statements and write in one flush.    *)
(*                                                                         *)
(* The database: inserting a transfer, or a refined skill, shares a lock   *)
(* on the row of the skill it refers to; updating that row needs it alone  *)
(* but for such inserts; deleting it needs it alone.  Deleting a skill     *)
(* deletes the transfers that refer to it (ON DELETE CASCADE), but the ORM *)
(* sets skill_id to NULL in those it finds at the flush, and skill_id is   *)
(* NOT NULL.  A flush locks its rows one by one: an UPDATE of the skill    *)
(* comes before that of a transfer, a DELETE of transfers before that of   *)
(* the skill.  Deletions that come with a connection are not modelled      *)
(* here, nor is the lock that ON DELETE SET NULL takes on refined skills.  *)
(***************************************************************************)
EXTENDS Requests

CONSTANTS
  Skills,  \* skill ids (random: never used twice)
  NoSkill, \* no previous skill
  Kinds    \* bound: the kinds of requests the clients send

ASSUME SkillConstants ==
  /\ NoSkill \notin Skills /\ Skills \cap Requests = {}
  /\ IsFiniteSet(Keys) /\ IsFiniteSet(Requests)

VARIABLES
  skill,    \* skill -> its row as last committed
  xfer,     \* request -> the transfer it has inserted
  clock,    \* the next created_at
  op,       \* request -> what it asks for
  at,       \* request -> the statement its handler comes to next
  latest,   \* request -> the transfers a rollback has selected, one at most
  logs,     \* request -> the transfers a delete has selected to purge
  locks,    \* request -> the rows it holds: skills, and transfers by request
  redeemed  \* skill -> rollbacks committed for it (history)

vars == <<stage, key, skill, xfer, clock, op, at, latest, logs, locks, redeemed>>
handlerVars == <<op, at, latest, logs>>

NoOp == [kind |-> "none"]
Extracts == [kind : {"extract"}, new : Skills]
Syncs == [kind : {"sync"}, new : Skills, low : BOOLEAN, partial : BOOLEAN]
Transfers == [kind : {"transfer"}, skill : Skills, low : BOOLEAN, dry : BOOLEAN]
Rollbacks == [kind : {"rollback"}, skill : Skills]
Refines == [kind : {"refine"}, skill : Skills, new : Skills]
Deletes == [kind : {"delete"}, skill : Skills, force : BOOLEAN, logs : BOOLEAN]
Ops == Extracts \cup Syncs \cup Transfers \cup Rollbacks \cup Refines \cup Deletes
Sent == {o \in Ops : o.kind \in Kinds}

\* Operations that insert a skill, and those about a skill that exists.
News == {"extract", "sync", "refine"}
Abouts == {"transfer", "rollback", "refine", "delete"}

Statuses == {"INJECTED", "PARTIAL", "REJECTED", "DRY_RUN", "ROLLED_BACK"}
Absent == [state |-> "absent", used |-> FALSE, prev |-> NoSkill]
NoXfer == [skill |-> NoSkill, status |-> "none", at |-> 0]

TypeOK ==
  /\ RequestsOK
  /\ skill \in [Skills -> [state : {"absent", "live", "deleted"}, used : BOOLEAN,
                           prev : Skills \cup {NoSkill}]]
  /\ xfer \in [Requests -> [skill : Skills \cup {NoSkill},
                            status : Statuses \cup {"none"}, at : Nat]]
  /\ clock \in Nat
  /\ op \in [Requests -> Ops \cup {NoOp}]
  /\ \A r \in Requests : IF stage[r] = "new" THEN op[r] = NoOp ELSE op[r] \in Ops
  /\ at \in [Requests -> {"skill", "latest", "active", "logs", "load", "flush", "error"}]
  /\ latest \in [Requests -> SUBSET Requests]
  /\ logs \in [Requests -> SUBSET Requests]
  /\ locks \in [Requests -> SUBSET (Skills \cup Requests)]
  /\ redeemed \in [Skills -> Nat]

Init ==
  /\ RequestsInit
  /\ skill = [s \in Skills |-> Absent]
  /\ xfer = [r \in Requests |-> NoXfer]
  /\ clock = 1
  /\ op = [r \in Requests |-> NoOp]
  /\ at = [r \in Requests |-> "skill"]
  /\ latest = [r \in Requests |-> {}]
  /\ logs = [r \in Requests |-> {}]
  /\ locks = [r \in Requests |-> {}]
  /\ redeemed = [s \in Skills |-> 0]

(***************************************************************************)
(* What the handlers see and compute.  An operator called X_Slip is a      *)
(* variant of X with a plausible slip: no run uses it as it stands; put in *)
(* the place of X, it makes a property fail that holds of X.               *)
(***************************************************************************)

\* The committed transfers of s.
TransfersOf(s) ==
  {t \in Requests : stage[t] = "done" /\ xfer[t].status # "none" /\ xfer[t].skill = s}

\* ORDER BY created_at DESC LIMIT 1.
Last(T) == {t \in T : \A u \in T : xfer[u].at <= xfer[t].at}

\* The status of the transfer an operation makes.  A low score needs
\* allow_partial: a sync without it is REJECTED but recorded, a transfer is
\* refused; and a low score is not looked at for dry_run.
StatusOf(o) ==
  CASE o.kind = "sync" -> IF ~o.low THEN "INJECTED"
                          ELSE IF o.partial THEN "PARTIAL" ELSE "REJECTED"
    [] o.kind = "transfer" -> IF o.low THEN "PARTIAL"
                              ELSE IF o.dry THEN "DRY_RUN" ELSE "INJECTED"
    [] OTHER -> "none"

Inserts(o) == StatusOf(o) \notin {"none", "DRY_RUN"}

\* The flush refers to the row of a skill that is there already, or writes it.
Touches(o) == o.kind \in {"rollback", "refine", "delete"} \/ (o.kind = "transfer" /\ Inserts(o))

\* The statement that follows the SELECT of the skill.
AfterSkill(o) ==
  CASE o.kind = "rollback" -> "latest"
    [] o.kind = "delete" -> IF ~o.force THEN "active" ELSE IF o.logs THEN "logs" ELSE "load"
    [] OTHER -> "flush"

\* rollback_used is not looked at.
Admitted_Used(o) == o.kind \in Abouts => skill[o.skill].state = "live"

\* The checks on the skill's row: it exists, and its token is not redeemed.
Admitted(o) ==
  o.kind \in Abouts => /\ skill[o.skill].state = "live"
                       /\ o.kind = "rollback" => ~skill[o.skill].used

\* The rows the flush of r locks, if they are there: that of the skill it is
\* about, and those of the transfers that it marks or that go with the skill.
Needs(r) ==
  LET s == op[r].skill IN
  IF Touches(op[r]) /\ skill[s].state = "live"
  THEN {s} \cup (CASE op[r].kind = "rollback" -> latest[r]
                   [] op[r].kind = "delete" -> TransfersOf(s)
                   [] OTHER -> {})
  ELSE {}

\* Those of them that come next: transfers to purge, then the skill, then the
\* transfer to mark or those the DELETE of the skill takes along.
NextRows(r) ==
  LET left == Needs(r) \ locks[r]
      purged == left \cap logs[r]
      skills == left \cap Skills
  IN IF purged # {} THEN purged ELSE IF skills # {} THEN skills ELSE left

\* A delete does not wait for the inserts.
Clash_Unshared(k, l) ==
  {k, l} \in {{"delete"}, {"delete", "rollback"}, {"rollback"}}

\* Requests of which kinds exclude each other from a row: a delete does so with
\* all others, a rollback, which updates, with a rollback.
Clash(k, l) == "delete" \in {k, l} \/ {k, l} = {"rollback"}

\* No other transaction keeps r from locking row x.
RowFree(r, x) ==
  \A q \in Requests \ {r} : x \in locks[q] => ~Clash(op[q].kind, op[r].kind)

\* The flush of r need not wait any more.
LockFree(r) == \A x \in Needs(r) \ locks[r] : RowFree(r, x)

\* r cannot go on before q has ended: it needs the row of its key, or the flush
\* a row that q holds.
WaitsFor(r, q) ==
  /\ q # r
  /\ \/ stage[r] = "new" /\ InTransaction(q) /\ key[q] = key[r]
     \/ /\ stage[r] = "read" /\ at[r] = "flush"
        /\ NextRows(r) \cap locks[q] # {} /\ Clash(op[q].kind, op[r].kind)

\* A transaction that ends releases its locks; with the slip, it does not.
Released_Never(r) == locks
Released(r) == [locks EXCEPT ![r] = {}]

\* The row an INSERT refers to, or an UPDATE writes, is there.
RowThere(o) ==
  Touches(o) /\ o.kind # "delete" => skill[o.skill].state = "live"

(***************************************************************************)
(* The requests.                                                           *)
(***************************************************************************)

\* A request arrives and is authenticated.  The id of a new skill is one that
\* nobody else has drawn.
Begin(r, o) ==
  /\ Authenticated(r)
  /\ o.kind \in News => \A q \in Requests : op[q].kind \in News => op[q].new # o.new
  /\ op' = [op EXCEPT ![r] = o]
  /\ UNCHANGED <<skill, xfer, clock, at, latest, logs, locks, redeemed>>

\* SELECT the skill, if the operation is about one, and check it.
Read(r) ==
  /\ stage[r] = "open"
  /\ Admitted(op[r])
  /\ Reach(r, "read")
  /\ at' = [at EXCEPT ![r] = AfterSkill(op[r])]
  /\ UNCHANGED <<skill, xfer, clock, op, latest, logs, locks, redeemed>>

\* The request is refused: no such skill, a wrong or redeemed or expired
\* token, an unknown domain, a score too low.
Refuse(r) ==
  /\ Refused(r)
  /\ UNCHANGED <<skill, xfer, clock, handlerVars, locks, redeemed>>

\* Every transfer of the skill is selected.
SelectLatest_All(r) ==
  /\ stage[r] = "read" /\ at[r] = "latest"
  /\ latest' = [latest EXCEPT ![r] = TransfersOf(op[r].skill)]
  /\ at' = [at EXCEPT ![r] = "flush"]
  /\ UNCHANGED <<requestVars, skill, xfer, clock, op, logs, locks, redeemed>>

\* A rollback selects the most recent transfer, whatever its status.
SelectLatest(r) ==
  /\ stage[r] = "read" /\ at[r] = "latest"
  /\ latest' = [latest EXCEPT ![r] = Last(TransfersOf(op[r].skill))]
  /\ at' = [at EXCEPT ![r] = "flush"]
  /\ UNCHANGED <<requestVars, skill, xfer, clock, op, logs, locks, redeemed>>

ActiveInjection(s) == \E t \in TransfersOf(s) : xfer[t].status = "INJECTED"

\* A delete without force looks only for the last transfer's status.
CheckActive_LastOnly(r) ==
  /\ stage[r] = "read" /\ at[r] = "active"
  /\ IF \E t \in Last(TransfersOf(op[r].skill)) : xfer[t].status = "INJECTED"
     THEN Reach(r, "refused") /\ UNCHANGED at
     ELSE /\ at' = [at EXCEPT ![r] = IF op[r].logs THEN "logs" ELSE "load"]
          /\ UNCHANGED requestVars
  /\ UNCHANGED <<skill, xfer, clock, op, latest, logs, locks, redeemed>>

\* A delete without force is refused while an injection is active.
CheckActive(r) ==
  /\ stage[r] = "read" /\ at[r] = "active"
  /\ IF ActiveInjection(op[r].skill)
     THEN Reach(r, "refused") /\ UNCHANGED at
     ELSE /\ at' = [at EXCEPT ![r] = IF op[r].logs THEN "logs" ELSE "load"]
          /\ UNCHANGED requestVars
  /\ UNCHANGED <<skill, xfer, clock, op, latest, logs, locks, redeemed>>

\* With purge_logs it selects the transfers of the skill, to delete them.
SelectLogs(r) ==
  /\ stage[r] = "read" /\ at[r] = "logs"
  /\ logs' = [logs EXCEPT ![r] = TransfersOf(op[r].skill)]
  /\ at' = [at EXCEPT ![r] = "load"]
  /\ UNCHANGED <<requestVars, skill, xfer, clock, op, latest, locks, redeemed>>

\* The flush of a delete starts by loading the transfers of the skill.  Those
\* it does not delete it would leave without a skill: the flush raises.
Load(r) ==
  /\ stage[r] = "read" /\ at[r] = "load"
  /\ IF TransfersOf(op[r].skill) \subseteq logs[r]
     THEN at' = [at EXCEPT ![r] = "flush"] /\ UNCHANGED requestVars
     ELSE at' = [at EXCEPT ![r] = "error"] /\ Reach(r, "failed")
  /\ UNCHANGED <<skill, xfer, clock, op, latest, logs, locks, redeemed>>

\* A flush that has several rows to lock gets one of them; the last ones it gets
\* as it succeeds.
Lock(r) ==
  /\ stage[r] = "read" /\ at[r] = "flush"
  /\ \E x \in NextRows(r) :
       /\ RowFree(r, x)
       /\ Needs(r) \ locks[r] # {x}
       /\ locks' = [locks EXCEPT ![r] = @ \cup {x}]
  /\ UNCHANGED <<requestVars, skill, xfer, clock, handlerVars, redeemed>>

\* The INSERT goes through whether the skill is there or not.
Flush_NoKey(r) ==
  /\ stage[r] = "read" /\ at[r] = "flush"
  /\ LockFree(r)
  /\ Reach(r, "written")
  /\ IF Inserts(op[r])
     THEN /\ xfer' = [xfer EXCEPT ![r] =
               [skill |-> IF op[r].kind = "sync" THEN op[r].new ELSE op[r].skill,
                status |-> StatusOf(op[r]), at |-> clock]]
          /\ clock' = clock + 1
     ELSE UNCHANGED <<xfer, clock>>
  /\ locks' = [locks EXCEPT ![r] = Needs(r)]
  /\ UNCHANGED <<skill, handlerVars, redeemed>>

\* The writes, once the locks are free.  A transfer is stamped with its
\* created_at now, and becomes visible with the commit.
Flush(r) ==
  /\ stage[r] = "read" /\ at[r] = "flush"
  /\ LockFree(r) /\ RowThere(op[r])
  /\ Reach(r, "written")
  /\ IF Inserts(op[r])
     THEN /\ xfer' = [xfer EXCEPT ![r] =
               [skill |-> IF op[r].kind = "sync" THEN op[r].new ELSE op[r].skill,
                status |-> StatusOf(op[r]), at |-> clock]]
          /\ clock' = clock + 1
     ELSE UNCHANGED <<xfer, clock>>
  /\ locks' = [locks EXCEPT ![r] = Needs(r)]
  /\ UNCHANGED <<skill, handlerVars, redeemed>>

\* The skill has gone: the foreign key, or an UPDATE of no row, raises.
FlushRaises(r) ==
  /\ stage[r] = "read" /\ at[r] = "flush"
  /\ ~RowThere(op[r])
  /\ Reach(r, "failed")
  /\ at' = [at EXCEPT ![r] = "error"]
  /\ UNCHANGED <<skill, xfer, clock, op, latest, logs, locks, redeemed>>

\* The row of a new skill.
NewSkill(o) ==
  [state |-> "live", used |-> FALSE, prev |-> IF o.kind = "refine" THEN o.skill ELSE NoSkill]

\* The skills after a commit: a deleted skill is no one's previous skill.
SkillsAfter(o) ==
  CASE o.kind \in News -> [skill EXCEPT ![o.new] = NewSkill(o)]
    [] o.kind = "rollback" -> [skill EXCEPT ![o.skill].used = TRUE]
    [] o.kind = "delete" ->
         [s \in Skills |->
            IF s = o.skill
            THEN [skill[s] EXCEPT !.state = "deleted"]
            ELSE IF skill[s].prev = o.skill THEN [skill[s] EXCEPT !.prev = NoSkill]
            ELSE skill[s]]
    [] OTHER -> skill

\* The transfers after a commit: a rollback marks the one it has selected, a
\* delete takes all transfers of its skill along.
TransfersAfter(r) ==
  CASE op[r].kind = "rollback" ->
         [t \in Requests |->
            IF t \in latest[r] THEN [xfer[t] EXCEPT !.status = "ROLLED_BACK"] ELSE xfer[t]]
    [] op[r].kind = "delete" ->
         [t \in Requests |->
            IF t \in TransfersOf(op[r].skill) THEN NoXfer ELSE xfer[t]]
    [] OTHER -> xfer

\* get_db commits.
Commit(r) ==
  /\ Committed(r)
  /\ skill' = SkillsAfter(op[r])
  /\ xfer' = TransfersAfter(r)
  /\ redeemed' = IF op[r].kind = "rollback"
                 THEN [redeemed EXCEPT ![op[r].skill] = @ + 1] ELSE redeemed
  /\ locks' = Released(r)
  /\ UNCHANGED <<clock, handlerVars>>

\* The process dies, the client goes away, the commit fails, the database picks
\* the transaction to end a deadlock.
Abort(r) ==
  /\ RolledBack(r)
  /\ locks' = Released(r)
  /\ UNCHANGED <<skill, xfer, clock, handlerVars, redeemed>>

Proceed(r) ==
  \/ Read(r) \/ Refuse(r) \/ SelectLatest(r) \/ CheckActive(r) \/ SelectLogs(r)
  \/ Load(r) \/ Lock(r) \/ Flush(r) \/ FlushRaises(r) \/ Commit(r)

Next ==
  \E r \in Requests : (\E o \in Sent : Begin(r, o)) \/ Proceed(r) \/ Abort(r)

\* A handler that can go on goes on, and the database hands a lock to a
\* request that waits for it.
Fairness == \A r \in Requests : WF_vars(Proceed(r))

Spec == Init /\ [][Next]_vars /\ Fairness

(***************************************************************************)
(* Properties of any number of keys                                        *)
(***************************************************************************)

\* A committed transfer belongs to a skill that is there: a transfer that
\* races a deletion of its skill fails, or goes with it.
NoOrphans == \A s \in Skills : TransfersOf(s) # {} => skill[s].state = "live"

\* Requests with the same key run one after the other, so a token is redeemed
\* at most once per key in use, and once with a single key.
RedeemedOncePerKey == \A s \in Skills : redeemed[s] <= Cardinality(KeysUsed)

\* Every rolled back transfer was paid for with a redemption.
RolledBackByToken ==
  \A s \in Skills :
    Cardinality({t \in TransfersOf(s) : xfer[t].status = "ROLLED_BACK"}) <= redeemed[s]

\* Requests that wait for each other, which only the database's detection of
\* deadlocks can end: a delete with purge_logs has locked a transfer that a
\* rollback, or another delete, of the same skill waits for, and they carry
\* different keys.  Other requests wait for one that can go on.
DeadlocksExplained ==
  \A S \in SUBSET {r \in Requests : \E q \in Requests : WaitsFor(r, q)} :
    /\ S # {}
    /\ \A r \in S : \E q \in Requests : WaitsFor(r, q) /\ (q \in S \/ ~InTransaction(q))
    => \E p, q \in S :
         /\ WaitsFor(q, p) /\ key[q] # key[p]
         /\ op[p].kind = "delete" /\ op[p].logs
         /\ op[q].kind \in {"rollback", "delete"} /\ op[q].skill = op[p].skill

(***************************************************************************)
(* Promises that hold as long as the requests use a single key             *)
(***************************************************************************)

\* "Generated at extraction, 72h expiry, single-use" (rollback tokens,
\* README.md line 161).
TokenSingleUse == \A s \in Skills : redeemed[s] <= 1

\* "This skill has an active injection. Rollback first or pass ?force=true"
\* (skills.py line 693): an injection does not disappear without force.
InjectionKept ==
  [][\A t \in Requests :
       /\ SameKey
       /\ stage[t] = "done" /\ xfer[t].status = "INJECTED"
       /\ xfer'[t].status = "none"
       => \E r \in Requests : stage'[r] # stage[r] /\ op[r].force]_vars

\* "Mark most recent transfer as ROLLED_BACK" (skills.py line 545): at the
\* commit it still is the most recent one.
RollbackHitsLast ==
  [][\A r \in Requests :
       /\ SameKey
       /\ stage[r] = "written" /\ stage'[r] = "done" /\ op[r].kind = "rollback"
       => latest[r] = Last(TransfersOf(op[r].skill))]_vars

\* Each request is done in one step, as its documentation has it, and a
\* request that fails leaves nothing behind: what a handler has selected and
\* checked in its first statements is still so when it commits, and nobody
\* sees what it has not committed.
Atomic == INSTANCE SkillsAtomic WITH
  handled <- [r \in Requests |-> IF stage[r] = "done" THEN op[r] ELSE NoOp],
  transfer <- [r \in Requests |-> IF stage[r] = "done" /\ xfer[r].status # "none"
                                  THEN xfer[r] ELSE NoXfer]
ActsAtomically == Atomic!Init /\ [][SameKey => Atomic!Next]_Atomic!vars

(***************************************************************************)
(* The inductive invariant behind them.                                    *)
(***************************************************************************)

\* A new skill has an id of its own and is not there before its commit.
NewFresh ==
  \A r \in Requests : op[r].kind \in News =>
    /\ \A q \in Requests : op[q].kind \in News /\ op[q].new = op[r].new => q = r
    /\ stage[r] # "done" => skill[op[r].new] = Absent

\* A skill that was ever there was inserted by a request.
InsertedOnce ==
  \A s \in Skills : skill[s] # Absent =>
    \E q \in Requests : op[q].kind \in News /\ op[q].new = s

\* A transfer is where its request put it.
TransferInPlace ==
  \A r \in Requests : xfer[r].status # "none" =>
    /\ stage[r] \in {"written", "done", "failed"}
    /\ Inserts(op[r])
    /\ xfer[r].skill = IF op[r].kind = "sync" THEN op[r].new ELSE op[r].skill

\* A transaction that makes a transfer has it ready when it commits.
FlushedIsStaged ==
  \A r \in Requests :
    stage[r] = "written" /\ Inserts(op[r]) => xfer[r].status = StatusOf(op[r])

\* What a request holds is of the skill it is about, which is there; whoever
\* lacks the row of the skill is purging transfers.
HoldsOwn ==
  \A r \in Requests : locks[r] # {} =>
    /\ stage[r] \in {"read", "written"} /\ at[r] = "flush"
    /\ Touches(op[r]) /\ skill[op[r].skill].state = "live"
    /\ locks[r] \subseteq {op[r].skill} \cup TransfersOf(op[r].skill)
    /\ op[r].skill \in locks[r] \/ (op[r].kind = "delete" /\ op[r].logs)

\* A flushed transaction holds the skill it is about, a deletion its transfers
\* as well.
FlushedHolds ==
  \A r \in Requests :
    stage[r] = "written" /\ Touches(op[r]) /\ skill[op[r].skill].state = "live" =>
      /\ op[r].skill \in locks[r]
      /\ op[r].kind = "delete" => TransfersOf(op[r].skill) \subseteq locks[r]

\* No two transactions hold a row unless their locks go together.
LocksExclude ==
  \A q, r \in Requests :
    locks[q] \cap locks[r] # {} /\ Clash(op[q].kind, op[r].kind) => q = r

\* What a flushed transaction refers to stays there until it ends.
TouchedIsLive == \A r \in Requests : stage[r] = "written" => RowThere(op[r])

\* A request is about a skill that was there when the request read it.
AboutExists ==
  \A r \in Requests : stage[r] \in {"read", "written"} /\ op[r].kind \in Abouts =>
    skill[op[r].skill].state # "absent"

\* The transfer a rollback has selected stays there as long as its skill.
LatestIsVisible ==
  \A r \in Requests :
    /\ stage[r] \in {"read", "written"} /\ at[r] = "flush"
    /\ op[r].kind = "rollback" /\ skill[op[r].skill].state = "live"
    => latest[r] \subseteq TransfersOf(op[r].skill)

\* A handler is past its SELECTs when it has flushed, and only a delete and a
\* rollback make SELECTs of their own.
HandlersInPlace ==
  \A r \in Requests :
    /\ stage[r] = "written" => at[r] = "flush"
    /\ at[r] \in {"active", "logs", "load"} => op[r].kind = "delete"
    /\ at[r] = "latest" => op[r].kind = "rollback"
    /\ at[r] = "logs" \/ logs[r] # {} => op[r].kind = "delete" /\ op[r].logs

\* An unused token has not been redeemed.
UnusedIsUnredeemed == \A s \in Skills : ~skill[s].used => redeemed[s] = 0

\* The rollbacks that have passed the check of rollback_used.
InFlight(s) ==
  {r \in Requests : /\ stage[r] \in {"read", "written"}
                    /\ op[r].kind = "rollback" /\ op[r].skill = s}

\* After the first redemption nobody passes the check any more: those that did
\* before carry different keys.
StaleRollbacks ==
  \A s \in Skills : redeemed[s] > 0 =>
    redeemed[s] + Cardinality(InFlight(s)) <= Cardinality(KeysUsed)

\* Stamps are drawn once, so that there is one most recent transfer at most.
StampsDistinct ==
  /\ \A t \in Requests : xfer[t].status # "none" => xfer[t].at < clock
  /\ \A t, u \in Requests :
       xfer[t].status # "none" /\ xfer[u].status # "none" /\ xfer[t].at = xfer[u].at => t = u

\* A rollback has selected one transfer at most.
LatestIsOne == \A r \in Requests : \A t, u \in latest[r] : t = u

\* Only committed transfers are rolled back.
RolledBackIsDone ==
  \A t \in Requests : xfer[t].status = "ROLLED_BACK" => stage[t] = "done"

\* While requests share a key, what a handler has checked stays as it was: the
\* skill passes the checks of its row, the transfer a rollback has selected is
\* the most recent one, a delete that has passed its check meets no active
\* injection, and purges every transfer there is; and a transfer that has been
\* flushed is later than those committed.
CheckedIsCurrent ==
  \A r \in Requests : stage[r] \in {"read", "written"} =>
    /\ op[r].kind = "rollback" /\ at[r] = "flush" =>
         latest[r] = Last(TransfersOf(op[r].skill))
    /\ op[r].kind = "delete" /\ ~op[r].force /\ at[r] \in {"logs", "load", "flush"} =>
         ~ActiveInjection(op[r].skill)
    /\ Admitted(op[r])
    /\ op[r].kind = "delete" /\ at[r] = "flush" => TransfersOf(op[r].skill) \subseteq logs[r]
    /\ stage[r] = "written" /\ Inserts(op[r]) =>
         \A t \in Requests : stage[t] = "done" /\ xfer[t].status # "none" =>
           xfer[t].at < xfer[r].at

\* The invariant as a whole.
SkillInv ==
  /\ TypeOK /\ KeysInTurn /\ NewFresh /\ InsertedOnce /\ TransferInPlace /\ FlushedIsStaged
  /\ HoldsOwn /\ FlushedHolds /\ LocksExclude /\ TouchedIsLive /\ AboutExists /\ LatestIsVisible /\ HandlersInPlace
  /\ NoOrphans /\ UnusedIsUnredeemed /\ StaleRollbacks
  /\ StampsDistinct /\ LatestIsOne /\ RolledBackIsDone /\ RolledBackByToken
  /\ SameKey => CheckedIsCurrent
=============================================================================
