------------------------------- MODULE Domains -------------------------------
(***************************************************************************)
(* Custom domains, and the requests that work with them: POST              *)
(* /domains/register and the skill-adjusted GET /domains/compat-matrix     *)
(* (src/app/routers/domains.py), POST /skills/{id}/score, /transfer and    *)
(* PUT /skills/{id}/refine (src/app/routers/skills.py), which resolve      *)
(* domains statement by statement (src/app/services/domain_resolver.py).   *)
(*                                                                         *)
(* The primary key of custom_domains is the id alone, while every check    *)
(* and every lookup is made within one organisation.                       *)
(*                                                                         *)
(* All requests are about one skill and its refinements, which are told    *)
(* apart by their version.  That a skill may be deleted meanwhile is left  *)
(* to Skills, and so are the rows of transfers.                            *)
(***************************************************************************)
EXTENDS Requests, Scoring

CONSTANTS
  OrgOf,       \* key -> its organisation
  NoOrg,       \* none
  None,        \* no profile
  Custom,      \* ids that can be registered
  Registered,  \* bound: the profiles they are registered with
  Asked,       \* bound: the ids requests ask for
  Thresholds,  \* bound: the thresholds of transfers
  Extractions, \* bound: the depths of the extraction
  Kinds        \* bound: the kinds of requests the clients send

ASSUME DomainConstants ==
  /\ NoOrg \notin {OrgOf[k] : k \in Keys}
  /\ Registered \subseteq Profiles /\ None \notin Profiles
  /\ Custom \cap Profiles = {} /\ Asked \subseteq BuiltIn \cup Custom
  /\ Thresholds \subseteq Nat /\ Extractions \subseteq Depths

VARIABLES
  domain,    \* custom id -> its row as last committed
  depth,     \* the depth the skill was extracted with
  versions,  \* the primitives of the skill and of its refinements
  op,        \* request -> what it asks for
  at,        \* request -> the statement its handler comes to next
  vec,       \* request -> the vector it has resolved
  impls,     \* request -> the domain whose implementations it has resolved
  table      \* request -> the vectors of all domains it has listed

vars == <<stage, key, domain, depth, versions, op, at, vec, impls, table>>
tables == <<domain, depth, versions>>
locals == <<vec, impls, table>>

Ids == BuiltIn \cup Custom
Free == [org |-> NoOrg, profile |-> None]
Orgs == {OrgOf[k] : k \in Keys}
Org(r) == OrgOf[key[r]]

NoOp == [kind |-> "none"]
Registers == [kind : {"register"}, id : Ids, profile : Registered]
Scores == [kind : {"score"}, version : Nat, target : Ids, matrix : BOOLEAN]
Compats == [kind : {"compat"}, version : Nat]
Transfers == [kind : {"transfer"}, version : Nat, target : Ids,
              threshold : Thresholds, partial : BOOLEAN]
Refines == [kind : {"refine"}, version : Nat, strategy : Strategies]
Ops == Registers \cup Scores \cup Compats \cup Transfers \cup Refines

TypeOK ==
  /\ RequestsOK
  /\ domain \in [Custom -> {Free} \cup [org : Orgs, profile : Registered]]
  /\ depth \in Extractions
  /\ op \in [Requests -> Ops \cup {NoOp}]
  /\ \A r \in Requests : IF stage[r] = "new" THEN op[r] = NoOp ELSE op[r] \in Ops
  /\ at \in [Requests -> {"check", "insert", "exists", "vector", "verdict", "list",
                          "answer", "error"}]
  /\ vec \in [Requests -> Profiles \cup {None}]
  /\ impls \in [Requests -> Profiles \cup {None}]
  /\ table \in [Requests -> [Ids -> Profiles \cup {None}]]

Init ==
  /\ RequestsInit
  /\ domain = [id \in Custom |-> Free]
  /\ depth \in Extractions
  /\ versions = <<Extracted(depth)>>
  /\ op = [r \in Requests |-> NoOp]
  /\ at = [r \in Requests |-> "answer"]
  /\ vec = [r \in Requests |-> None]
  /\ impls = [r \in Requests |-> None]
  /\ table = [r \in Requests |-> [id \in Ids |-> None]]

(***************************************************************************)
(* What the handlers see and compute.  An operator called X_Slip is a      *)
(* variant of X with a plausible slip: no run uses it as it stands; put in *)
(* the place of X, it makes a property fail that holds of X.               *)
(***************************************************************************)

\* The lookup forgets the organisation.
Visible_AnyOrg(org, id) == IF id \in BuiltIn THEN id ELSE domain[id].profile

\* The profile of domain id, for an organisation: built-in domains first, then
\* its own.
Visible(org, id) ==
  IF id \in BuiltIn THEN id
  ELSE IF domain[id].org = org THEN domain[id].profile ELSE None

\* The requests that come with the version of the skill they are about.
Sent ==
  LET V == 1..Len(versions) IN
  {o \in [kind : {"register"}, id : Asked, profile : Registered]
         \cup [kind : {"score"}, version : V, target : Asked, matrix : BOOLEAN]
         \cup [kind : {"compat"}, version : V]
         \cup [kind : {"transfer"}, version : V, target : Asked,
               threshold : Thresholds, partial : BOOLEAN]
         \cup [kind : {"refine"}, version : V, strategy : Strategies] :
     o.kind \in Kinds}

First(o) ==
  CASE o.kind = "register" -> "check"
    [] o.kind \in {"score", "transfer"} -> "exists"
    [] o.kind = "compat" -> "list"
    [] o.kind = "refine" -> "answer"

Skill(r) == versions[op[r].version]
ScoreOf(r, blend) == Score(Sims(Skill(r), vec[r]), BaseCompat(op[r].target), blend)
TooLow(r) == ScoreOf(r, TRUE) < op[r].threshold /\ ~op[r].partial

\* Another transaction has inserted this id and has not ended.
Taking(q, id) == stage[q] = "written" /\ op[q].kind = "register" /\ op[q].id = id
MustWait(r) == \E q \in Requests \ {r} : Taking(q, op[r].id)

(***************************************************************************)
(* The requests.                                                           *)
(***************************************************************************)

Begin(r, o) ==
  /\ Authenticated(r)
  /\ op' = [op EXCEPT ![r] = o]
  /\ at' = [at EXCEPT ![r] = First(o)]
  /\ UNCHANGED <<tables, locals>>

Goto(r, s) == at' = [at EXCEPT ![r] = s] /\ UNCHANGED <<stage, key, op, tables>>

\* The handler is over, and what it has read is gone.
Leave(r, s) ==
  /\ at' = [at EXCEPT ![r] = s]
  /\ vec' = [vec EXCEPT ![r] = None]
  /\ impls' = [impls EXCEPT ![r] = None]
  /\ table' = [table EXCEPT ![r] = [id \in Ids |-> None]]
  /\ UNCHANGED <<op, tables>>

\* No look at what the organisation has registered.
Check_Skipped(r) ==
  /\ stage[r] = "open" /\ at[r] = "check"
  /\ op[r].id \notin BuiltIn
  /\ Goto(r, "insert") /\ UNCHANGED locals

\* A registration: the id is neither built in nor registered by this org.
Check(r) ==
  /\ stage[r] = "open" /\ at[r] = "check"
  /\ Visible(Org(r), op[r].id) = None
  /\ Goto(r, "insert") /\ UNCHANGED locals

\* domain_exists.
Exists(r) ==
  /\ stage[r] = "open" /\ at[r] = "exists"
  /\ Visible(Org(r), op[r].target) # None
  /\ Goto(r, "vector") /\ UNCHANGED locals

\* resolve_domain_fv.
Resolve(r) ==
  /\ stage[r] = "open" /\ at[r] = "vector"
  /\ vec' = [vec EXCEPT ![r] = Visible(Org(r), op[r].target)]
  /\ Goto(r, CASE op[r].kind = "transfer" -> "verdict"
               [] op[r].kind = "score" -> IF op[r].matrix THEN "list" ELSE "answer")
  /\ UNCHANGED <<impls, table>>

\* A transfer whose score will do goes on to resolve_domain_impls.
ResolveImpls(r) ==
  /\ stage[r] = "open" /\ at[r] = "verdict"
  /\ ~TooLow(r)
  /\ impls' = [impls EXCEPT ![r] = Visible(Org(r), op[r].target)]
  /\ Goto(r, "answer") /\ UNCHANGED <<vec, table>>

\* list_all_domain_fvs.
List(r) ==
  /\ stage[r] = "open" /\ at[r] = "list"
  /\ table' = [table EXCEPT ![r] = [id \in Ids |-> Visible(Org(r), id)]]
  /\ Goto(r, "answer") /\ UNCHANGED <<vec, impls>>

\* 409 DOMAIN_EXISTS, 422 DOMAIN_UNKNOWN, 422 SCORE_TOO_LOW.
Refuse(r) ==
  /\ Refused(r)
  /\ \/ at[r] = "check" /\ Visible(Org(r), op[r].id) # None
     \/ at[r] = "exists" /\ Visible(Org(r), op[r].target) = None
     \/ at[r] = "verdict" /\ TooLow(r)
  /\ Leave(r, "answer")

\* The INSERT of a registration waits for one of the same id that may still be
\* rolled back; the id is free.
Insert(r) ==
  /\ stage[r] = "open" /\ at[r] = "insert"
  /\ ~MustWait(r) /\ domain[op[r].id] = Free
  /\ Reach(r, "written")
  /\ UNCHANGED <<op, at, tables, locals>>

\* Or it is not: IntegrityError, which nobody catches.
InsertRaises(r) ==
  /\ stage[r] = "open" /\ at[r] = "insert"
  /\ ~MustWait(r) /\ domain[op[r].id] # Free
  /\ Reach(r, "failed") /\ Leave(r, "error")

\* The other handlers flush what they write, and return.
Answer(r) ==
  /\ stage[r] = "open" /\ at[r] = "answer"
  /\ Reach(r, "written")
  /\ UNCHANGED <<op, at, tables, locals>>

\* get_db commits.
Commit(r) ==
  LET o == op[r] IN
  /\ Committed(r)
  /\ domain' = IF o.kind = "register"
               THEN [domain EXCEPT ![o.id] = [org |-> Org(r), profile |-> o.profile]]
               ELSE domain
  /\ versions' = IF o.kind = "refine"
                 THEN Append(versions, Merged(o.strategy, Skill(r), Extracted(depth)))
                 ELSE versions
  /\ UNCHANGED <<op, at, depth, locals>>

\* The process dies, the client goes away, the commit fails.
Abort(r) == RolledBack(r) /\ Leave(r, "answer")

Proceed(r) ==
  \/ Check(r) \/ Exists(r) \/ Resolve(r) \/ ResolveImpls(r) \/ List(r) \/ Refuse(r)
  \/ Insert(r) \/ InsertRaises(r) \/ Answer(r) \/ Commit(r)

Next == \E r \in Requests : (\E o \in Sent : Begin(r, o)) \/ Proceed(r) \/ Abort(r)

Spec == Init /\ [][Next]_vars

(***************************************************************************)
(* Properties                                                              *)
(***************************************************************************)

Answered(r, kind) == stage[r] = "done" /\ op[r].kind = kind

\* q has registered the id that r asks for.
Rival(q, r) == op[q].kind = "register" /\ op[q].id = op[r].id /\ stage[q] = "done"

\* A registration fails at its INSERT (500 instead of 409 DOMAIN_EXISTS) only
\* where the check cannot see the row: it is another organisation's, or a
\* request with another key of the same one was faster.
ConflictsExplained ==
  \A r \in Requests : at[r] = "error" =>
    \/ domain[op[r].id].org # Org(r)
    \/ \E q \in Requests : Rival(q, r) /\ key[q] # key[r]

\* What an answer tells of a domain, by whichever of the three computations.
RowOf(r, id, blend) == Cell(Sims(Skill(r), table[r][id]), BaseCompat(id), blend)
AdjustedOf(r, id) ==
  IF id = Source THEN One ELSE Score(Sims(Skill(r), table[r][id]), BaseCompat(id), TRUE)

\* The matrix row of a score has the score in the column of its target, though
\* it is computed by another loop and from another SELECT.
RowsAgree ==
  \A r \in Requests : Answered(r, "score") /\ op[r].matrix =>
    \A blend \in BOOLEAN :
      table[r][op[r].target] # None /\ RowOf(r, op[r].target, blend) = ScoreOf(r, blend)

\* The skill-adjusted matrix, whenever an organisation asks for it, has the
\* score that its transfers and scores of the same version report.
MatricesAgree ==
  \A q, r \in Requests :
    /\ Answered(q, "compat") /\ (Answered(r, "score") \/ Answered(r, "transfer"))
    /\ Org(q) = Org(r) /\ op[q].version = op[r].version /\ op[r].target # Source
    /\ table[q][op[r].target] # None
    => AdjustedOf(q, op[r].target) = ScoreOf(r, TRUE)

\* Answers agree with each other.
AnswersAgree == RowsAgree /\ MatricesAgree

\* Extraction is deterministic, so that refining a skill, with whichever
\* strategy and however often, leaves its primitives as they were.
RefinesKeep == \A n \in 1..Len(versions) : versions[n] = Extracted(depth)

\* The gaps of a transfer and its adapter log flag a primitive with the same
\* severity, unless its similarity is within the rounding of a limit.
Near(x, y) == 2 * x <= 2 * y + Digit /\ 2 * y <= 2 * x + Digit
FlagsAgree ==
  \A r \in Requests : Answered(r, "transfer") =>
    \A p \in Prims :
      LET x == Sim[vec[r]][p]
          t == op[r].threshold
      IN GapSeverity(x, t) # LogSeverity(x, t) => \E b \in {t, High, Medium} : Near(x, b)

(***************************************************************************)
(* The inductive invariant behind them.                                    *)
(***************************************************************************)

\* Where a handler is fits what it was asked for and how far it is.
Placed ==
  \A r \in Requests :
    LET kind == op[r].kind IN
    /\ stage[r] = "new" => at[r] = "answer"
    /\ kind = "register" =>
         /\ stage[r] = "open" => at[r] \in {"check", "insert"}
         /\ stage[r] \in {"written", "done"} => at[r] = "insert"
    /\ kind # "register" /\ stage[r] \in {"written", "done"} => at[r] = "answer"
    /\ at[r] \in {"check", "insert", "error"} => kind = "register"
    /\ at[r] \in {"exists", "vector"} => kind \in {"score", "transfer"}
    /\ at[r] = "verdict" => kind = "transfer"
    /\ at[r] = "list" => kind \in {"score", "compat"}
    /\ at[r] \in {"insert", "error"} => op[r].id \in Custom
    /\ at[r] = "error" => stage[r] = "failed"

\* A registration that was answered stands, and one that has been inserted has
\* its id to itself; each row stands for an answered registration.
RegistrationKept ==
  /\ \A r \in Requests : op[r].kind = "register" =>
       /\ stage[r] = "done" =>
            domain[op[r].id] = [org |-> Org(r), profile |-> op[r].profile]
       /\ stage[r] = "written" => domain[op[r].id] = Free /\ ~MustWait(r)
  /\ \A id \in Custom : domain[id] # Free =>
       \E q \in Requests : op[q].kind = "register" /\ op[q].id = id /\ stage[q] = "done"

\* Between check and INSERT nothing is registered with the same key, and an
\* INSERT that failed met a row.
RivalsElsewhere ==
  \A r \in Requests :
    /\ stage[r] = "open" /\ at[r] = "insert" =>
         \A q \in Requests : Rival(q, r) => key[q] # key[r]
    /\ at[r] = "error" => domain[op[r].id] # Free

\* What a request has seen of a domain is built in, or it is registered by its
\* organisation and still so.
Seen(r, id, profile) ==
  IF id \in BuiltIn THEN profile = id
  ELSE domain[id] = [org |-> Org(r), profile |-> profile]
SeenBy(r) ==
  /\ at[r] \in {"vector", "verdict"} => \E v \in Profiles : Seen(r, op[r].target, v)
  /\ op[r].kind \in {"score", "transfer"} /\ stage[r] \in {"open", "written", "done"} =>
       at[r] \in {"exists", "vector"} \/ vec[r] # None
  /\ stage[r] = "new" => vec[r] = None /\ impls[r] = None
                         /\ \A id \in Ids : table[r][id] = None
  /\ vec[r] # None => /\ op[r].kind \in {"score", "transfer"}
                      /\ Seen(r, op[r].target, vec[r])
  /\ impls[r] # None => impls[r] = vec[r]
  /\ op[r].kind = "score" /\ at[r] = "answer" /\ stage[r] \in {"open", "written", "done"} =>
       (op[r].matrix => table[r][op[r].target] # None)
  /\ \A id \in Ids : table[r][id] # None => Seen(r, id, table[r][id])
SeenStays == \A r \in Requests : SeenBy(r)

\* Requests are about versions there are.
VersionsOK ==
  /\ versions \in Seq(Seq(Prims))
  /\ \A r \in Requests : op[r].kind \in {"score", "compat", "transfer", "refine"} =>
       op[r].version \in 1..Len(versions)

DomainInv ==
  /\ TypeOK /\ KeysInTurn /\ Placed /\ RegistrationKept /\ RivalsElsewhere
  /\ SeenStays /\ VersionsOK /\ RefinesKeep
=============================================================================
