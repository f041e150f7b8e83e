-------------------------- MODULE ConnectionsAtomic --------------------------
(***************************************************************************)
(* Connections as their documentation describes them: every request is one *)
(* step on the current table (src/app/routers/connections.py, whose        *)
(* docstrings and error messages state the rules).                         *)
(***************************************************************************)
EXTENDS Naturals, FiniteSets

CONSTANTS
  Conns,    \* connection ids
  MaxLive,  \* the plan's number of connections that are not archived, 0: any
  Given     \* the connections there are at the start

VARIABLE conn  \* connection -> its row

Absent == [status |-> "absent", count |-> 0]
New == [status |-> "active", count |-> 0]

Live == {c \in Conns : conn[c].status \in {"active", "paused"}}
Below == MaxLive > 0 => Cardinality(Live) < MaxLive

Init == conn = [c \in Conns |-> IF c \in Given THEN [New EXCEPT !.count = 1] ELSE Absent]

Create(c) ==
  /\ conn[c].status = "absent" /\ Below
  /\ conn' = [conn EXCEPT ![c] = New]

\* Only active connections are synced, and each sync is counted.
Sync(c) ==
  /\ conn[c].status = "active"
  /\ conn' = [conn EXCEPT ![c].count = @ + 1]

\* active and paused alternate; archived is for good.
SetStatus(c, s) ==
  /\ conn[c].status \in {"active", "paused"} \ {s}
  /\ conn' = [conn EXCEPT ![c].status = s]

Delete(c) ==
  /\ conn[c].status \in {"active", "paused", "archived"}
  /\ conn' = [conn EXCEPT ![c] = [status |-> "deleted", count |-> @.count]]

Next ==
  \E c \in Conns :
    \/ Create(c) \/ Sync(c) \/ Delete(c)
    \/ \E s \in {"active", "paused", "archived"} : SetStatus(c, s)

Spec == Init /\ [][Next]_conn
=============================================================================
