---------------------------- MODULE SkillsAtomic ----------------------------
(***************************************************************************)
(* Skills and transfers as their documentation describes them: every       *)
(* request is one step on the current tables (src/app/routers/skills.py    *)
(* and the sync of connections.py, whose docstrings, comments and error    *)
(* messages state the rules).  A request that fails is no step at all.     *)
(***************************************************************************)
EXTENDS Naturals

CONSTANTS
  Requests,  \* the requests clients send
  Ops,       \* what they may ask for
  NoOp,      \* nothing yet
  Skills,    \* skill ids
  NoSkill    \* no previous skill

VARIABLES
  handled,   \* request -> what it asked for, once it has been done
  skill,     \* skill -> its row
  transfer   \* request -> the transfer it made

Absent == [state |-> "absent", used |-> FALSE, prev |-> NoSkill]
NoTransfer == [skill |-> NoSkill, status |-> "none", at |-> 0]

Init ==
  /\ handled = [r \in Requests |-> NoOp]
  /\ skill = [s \in Skills |-> Absent]
  /\ transfer = [r \in Requests |-> NoTransfer]

Of(s) == {t \in Requests : transfer[t].status # "none" /\ transfer[t].skill = s}
MostRecent(T) == {t \in T : \A u \in T : transfer[u].at <= transfer[t].at}
Live(s) == skill[s].state = "live"

\* A skill of its own id appears.
Appears(s, prev) ==
  /\ skill[s] = Absent
  /\ skill' = [skill EXCEPT ![s] = [state |-> "live", used |-> FALSE, prev |-> prev]]

\* The transfer of r is recorded, later than all that are there.
Recorded(r, s, status) ==
  /\ transfer[r] = NoTransfer
  /\ \A t \in Requests :
       transfer[t].status # "none" => transfer[t].at < transfer'[r].at
  /\ transfer' = [transfer EXCEPT ![r] =
                    [skill |-> s, status |-> status, at |-> transfer'[r].at]]

Extract(o) == o.kind = "extract" /\ Appears(o.new, NoSkill) /\ UNCHANGED transfer
Refine(o) ==
  o.kind = "refine" /\ Live(o.skill) /\ Appears(o.new, o.skill) /\ UNCHANGED transfer

\* What a sync makes of its score is recorded, also when it is REJECTED.
Sync(r, o) ==
  /\ o.kind = "sync"
  /\ Appears(o.new, NoSkill)
  /\ Recorded(r, o.new, IF ~o.low THEN "INJECTED"
                        ELSE IF o.partial THEN "PARTIAL" ELSE "REJECTED")

\* A dry run leaves nothing behind, unless its score is low.
Transfer(r, o) ==
  /\ o.kind = "transfer"
  /\ UNCHANGED skill
  /\ IF o.dry /\ ~o.low THEN UNCHANGED transfer
     ELSE Live(o.skill) /\ Recorded(r, o.skill, IF o.low THEN "PARTIAL" ELSE "INJECTED")

\* The token is single-use; the most recent transfer is marked.
Rollback(o) ==
  /\ o.kind = "rollback"
  /\ Live(o.skill) /\ ~skill[o.skill].used
  /\ skill' = [skill EXCEPT ![o.skill].used = TRUE]
  /\ transfer' = [t \in Requests |-> IF t \in MostRecent(Of(o.skill))
                                     THEN [transfer[t] EXCEPT !.status = "ROLLED_BACK"]
                                     ELSE transfer[t]]

\* An active injection needs force, and transfers can only go with purge_logs.
Delete(o) ==
  /\ o.kind = "delete"
  /\ Live(o.skill)
  /\ o.force \/ \A t \in Of(o.skill) : transfer[t].status # "INJECTED"
  /\ o.logs \/ Of(o.skill) = {}
  /\ skill' = [s \in Skills |->
                 IF s = o.skill THEN [skill[s] EXCEPT !.state = "deleted"]
                 ELSE IF skill[s].prev = o.skill THEN [skill[s] EXCEPT !.prev = NoSkill]
                 ELSE skill[s]]
  /\ transfer' = [t \in Requests |-> IF t \in Of(o.skill) THEN NoTransfer ELSE transfer[t]]

\* A request asks for o, and it is done.
Do(r, o) ==
  /\ handled[r] = NoOp
  /\ handled' = [handled EXCEPT ![r] = o]
  /\ \/ Extract(o) \/ Refine(o) \/ Sync(r, o) \/ Transfer(r, o) \/ Rollback(o) \/ Delete(o)

Next == \E r \in Requests : \E o \in {handled'[r]} \cap Ops : Do(r, o)

vars == <<handled, skill, transfer>>
Spec == Init /\ [][Next]_vars
=============================================================================
