-------------------------- MODULE Connections_proofs --------------------------
(***************************************************************************)
(* Proofs about Connections for any number of requests, keys and           *)
(* connections: what holds however requests interleave, and what a single  *)
(* key, whose requests run one after the other, adds to it.                *)
(***************************************************************************)
EXTENDS Connections, FiniteSetTheorems, TLAPS

USE DEF requestVars

(***************************************************************************)
(* Operations and rows.                                                    *)
(***************************************************************************)

\* What an operation is made of.
LEMMA OpFacts ==
  ASSUME NEW o \in Ops
  PROVE  /\ o.kind \in {"create", "sync", "status", "delete"}
         /\ o.conn \in Conns
         /\ o.kind = "status" => o.to \in Present
         /\ o.kind = "create" => o = [kind |-> "create", conn |-> o.conn]
BY DEF Ops, Creates, Syncs, Changes, Deletes

\* A request that has begun asks for something.
LEMMA Begun ==
  ASSUME TypeOK, NEW r \in Requests, stage[r] # "new"
  PROVE  op[r] \in Ops /\ op[r].conn \in Conns
         /\ op[r].kind \in {"create", "sync", "status", "delete"}
BY OpFacts DEF TypeOK

\* A commit leaves a row behind.
LEMMA WrittenType ==
  ASSUME TypeOK, NEW r \in Requests, stage[r] # "new"
  PROVE  Written(r) \in Rows
<1>1. op[r] \in Ops
  BY Begun
<1>2. conn[op[r].conn] \in Rows /\ seen[r] \in Rows
  BY <1>1, OpFacts DEF TypeOK
<1>3. New \in Rows
  BY DEF New, Rows, Present
<1>4. CASE op[r].kind = "create"
  BY <1>3, <1>4 DEF Written
<1>5. CASE op[r].kind = "sync"
  BY <1>2, <1>5 DEF Written, Rows
<1>6. CASE op[r].kind = "status"
  BY <1>1, <1>2, <1>6, OpFacts DEF Written, Rows
<1>7. CASE op[r].kind = "delete"
  BY <1>2, <1>7 DEF Written, Rows
<1>8. QED
  BY <1>1, <1>4, <1>5, <1>6, <1>7, OpFacts

(***************************************************************************)
(* Rows and statements.                                                    *)
(***************************************************************************)

\* The rows of a connection, one by one.
LEMMA RowCases ==
  ASSUME TypeOK, NEW c \in Conns, NEW x \in RowsOf(c)
  PROVE  /\ x \in AllRows /\ x[2] = c /\ x[3] \in Nat
         /\ \/ x = Row(c) /\ x[1] = "connection"
            \/ x = SkillRow(c, x[3]) /\ x[1] = "skill" /\ x[3] \in 1 .. synced[c]
            \/ x = TransferRow(c, x[3]) /\ x[1] = "transfer" /\ x[3] \in 1 .. synced[c]
BY DEF TypeOK, RowsOf, AllRows, Row, SkillRow, TransferRow

\* The row of a connection is one of its rows.
LEMMA RowIsOne == \A c : Row(c) \in RowsOf(c)
BY DEF RowsOf

\* The deletion of the connection is the fifth statement, and that of no other
\* row; rows of a statement are in one table.
LEMMA Statements ==
  ASSUME TypeOK, NEW r \in Requests, NEW c \in Conns, NEW x \in RowsOf(c), NEW y \in RowsOf(c)
  PROVE  /\ Statement(r, x) \in 1 .. 7
         /\ Statement(r, x) = 5 <=> x = Row(c)
         /\ Statement(r, x) = Statement(r, y) => x[1] = y[1]
<1>1. /\ found[r].skills \in Nat /\ found[r].logs \in Nat
      /\ found[r].allSkills \in Nat /\ found[r].allLogs \in Nat
  BY DEF TypeOK, Finds
<1>2. x[1] = "connection" \/ x[1] = "skill" \/ x[1] = "transfer"
  BY RowCases
<1>3. y[1] = "connection" \/ y[1] = "skill" \/ y[1] = "transfer"
  BY RowCases
<1>4. x[1] = "connection" <=> x = Row(c)
  BY RowCases DEF Row
<1>5. x[3] \in Nat /\ y[3] \in Nat
  BY RowCases
<1>6. /\ x[1] = "connection" => Statement(r, x) = 5
      /\ x[1] = "skill" => Statement(r, x) \in {1, 4, 6}
      /\ x[1] = "transfer" => Statement(r, x) \in {2, 3, 7}
  BY <1>1, <1>5 DEF Statement
<1>7. /\ y[1] = "connection" => Statement(r, y) = 5
      /\ y[1] = "skill" => Statement(r, y) \in {1, 4, 6}
      /\ y[1] = "transfer" => Statement(r, y) \in {2, 3, 7}
  BY <1>1, <1>5 DEF Statement
<1>8. QED
  BY <1>2, <1>3, <1>4, <1>6, <1>7

\* The order in which a deletion writes is total.
LEMMA Trichotomy ==
  ASSUME TypeOK, NEW r \in Requests, NEW c \in Conns, NEW x \in RowsOf(c), NEW y \in RowsOf(c)
  PROVE  /\ x # y => Before(r, x, y) \/ Before(r, y, x)
         /\ ~(Before(r, x, y) /\ Before(r, y, x))
<1>1. /\ Statement(r, x) \in 1 .. 7 /\ Statement(r, y) \in 1 .. 7
      /\ Statement(r, x) = Statement(r, y) => x[1] = y[1]
  BY Statements
<1>2. x[3] \in Nat /\ y[3] \in Nat
  BY RowCases
<1>3. x[1] = y[1] /\ x[3] = y[3] => x = y
  BY RowCases DEF Row, SkillRow, TransferRow
<1>4. QED
  BY <1>1, <1>2, <1>3 DEF Before

\* What a deletion has found stands in its record.
LEMMA KnownType == \A n \in Nat : Known(n) \in Finds
BY DEF Known, Finds

LEMMA Prepared ==
  ASSUME TypeOK, NEW r \in Requests, Prepare(r)
  PROVE  \E f \in Finds :
           /\ found' = [found EXCEPT ![r] = f] /\ f.ready
           /\ {f.skills, f.logs, f.allSkills, f.allLogs} \subseteq 0 .. synced[op[r].conn]
<1> DEFINE n == synced[op[r].conn]
<1>1. n \in Nat /\ found[r].skills \in Nat
  BY Begun DEF Prepare, TypeOK, Finds
<1>2. PICK v \in Answers(r), elsewhere \in BOOLEAN :
        LET c == op[r].conn
            skills == IF op[r].skills THEN v[1] ELSE 0
            logs == IF op[r].logs THEN v[2] ELSE 0
        IN found' = [found EXCEPT ![r] =
             [skills |-> skills, logs |-> logs,
              allSkills |-> Greater(skills, v[3]), allLogs |-> Greater(logs, v[4]),
              ready |-> TRUE,
              breaks |-> \E i \in 1 .. skills :
                /\ ~Gone(SkillRow(c, i))
                /\ elsewhere \/ (i > logs /\ ~Gone(TransferRow(c, i)))]]
  BY DEF Prepare
<1>3. v[1] \in 0 .. n /\ v[2] \in 0 .. n /\ v[3] \in 0 .. n /\ v[4] \in 0 .. n
  <2>1. v \in [1 .. 4 -> {0} \cup found[r].skills .. n]
    BY <1>2 DEF Answers
  <2>2. {0} \cup found[r].skills .. n \subseteq 0 .. n
    BY <1>1
  <2>3. QED
    BY <2>1, <2>2
<1> DEFINE skills == IF op[r].skills THEN v[1] ELSE 0
           logs == IF op[r].logs THEN v[2] ELSE 0
           breaks == \E i \in 1 .. skills :
             /\ ~Gone(SkillRow(op[r].conn, i))
             /\ elsewhere \/ (i > logs /\ ~Gone(TransferRow(op[r].conn, i)))
           f == [skills |-> skills, logs |-> logs,
                 allSkills |-> Greater(skills, v[3]), allLogs |-> Greater(logs, v[4]),
                 ready |-> TRUE, breaks |-> breaks]
<1>4. skills \in 0 .. n /\ logs \in 0 .. n
  BY <1>1, <1>3
<1>5. Greater(skills, v[3]) \in 0 .. n /\ Greater(logs, v[4]) \in 0 .. n
  BY <1>1, <1>3, <1>4 DEF Greater
<1>6. breaks \in BOOLEAN
  OBVIOUS
<1>7. found' = [found EXCEPT ![r] = f]
  BY <1>2
<1> HIDE DEF skills, logs, breaks
<1>8. f \in Finds /\ {f.skills, f.logs, f.allSkills, f.allLogs} \subseteq 0 .. n /\ f.ready
  BY <1>1, <1>4, <1>5, <1>6 DEF Finds
<1>9. QED
  BY <1>7, <1>8

(***************************************************************************)
(* The invariant, conjunct by conjunct.                                    *)
(***************************************************************************)

\* Every step keeps the types.
LEMMA TypeStep ==
  ASSUME TypeOK, [Next]_vars
  PROVE  TypeOK'
<1> USE DEF TypeOK, RequestsOK, Reach, Stages
<1>1. ASSUME NEW r \in Requests, NEW o \in Ops, Begin(r, o) PROVE TypeOK'
  BY <1>1 DEF Begin, Authenticated
<1>2. ASSUME NEW r \in Requests, Read(r) PROVE TypeOK'
  <2>1. conn[op[r].conn] \in Rows /\ Known(synced[op[r].conn]) \in Finds
    BY <1>2, Begun, KnownType DEF Read
  <2>2. found' \in [Requests -> Finds]
    BY <1>2, <2>1 DEF Read
  <2>3. QED
    BY <1>2, <2>1, <2>2 DEF Read
<1>3. ASSUME NEW r \in Requests, Refuse(r) PROVE TypeOK'
  BY <1>3 DEF Refuse, Refused
<1>4. ASSUME NEW r \in Requests, FlushRaises(r) \/ Abort(r) PROVE TypeOK'
  <2>1. Known(0) \in Finds
    BY KnownType
  <2>2. stage[r] # "new"
    BY <1>4 DEF FlushRaises, Flushing, Abort, RolledBack, InTransaction
  <2>3. QED
    BY <1>4, <2>1, <2>2 DEF FlushRaises, Abort, RolledBack, Release
<1>5. ASSUME NEW r \in Requests, Prepare(r) PROVE TypeOK'
  <2>1. PICK f \in Finds : found' = [found EXCEPT ![r] = f]
    BY <1>5, Prepared
  <2>2. QED
    BY <1>5, <2>1 DEF Prepare
<1>6. ASSUME NEW r \in Requests, Write(r) PROVE TypeOK'
  <2>1. PICK x \in Upcoming(r) : wrote' = [wrote EXCEPT ![r] = @ \cup {x}]
    BY <1>6 DEF Write
  <2>2. x \in RowsOf(op[r].conn) /\ op[r].conn \in Conns
    BY <1>6, Begun DEF Upcoming, Left, Write, Flushing
  <2>3. x \in AllRows
    BY <2>2, RowCases
  <2>4. QED
    BY <1>6, <2>1, <2>3 DEF Write
<1>7. ASSUME NEW r \in Requests, Flush(r) PROVE TypeOK'
  <2>1. Row(op[r].conn) \in AllRows
    BY <1>7, Begun DEF Flush, Row, AllRows
  <2>2. wrote' \in [Requests -> SUBSET AllRows]
    BY <1>7, <2>1 DEF Flush
  <2>3. QED
    BY <1>7, <2>2 DEF Flush
<1>8. ASSUME NEW r \in Requests, Commit(r) PROVE TypeOK'
  <2>1. op[r] \in Ops /\ op[r].conn \in Conns /\ Written(r) \in Rows
    BY <1>8, Begun, WrittenType DEF Commit, Committed
  <2>2. conn' \in [Conns -> Rows] /\ synced' \in [Conns -> Nat]
    BY <1>8, <2>1 DEF Commit
  <2>3. QED
    BY <1>8, <2>2 DEF Commit, Committed
<1>9. CASE UNCHANGED vars
  BY <1>9 DEF vars
<1>10. QED
  BY <1>1, <1>2, <1>3, <1>4, <1>5, <1>6, <1>7, <1>8, <1>9 DEF Next, Proceed

\* A request takes its key only while nobody holds it.
LEMMA KeysStep ==
  ASSUME TypeOK, KeysInTurn, [Next]_vars
  PROVE  KeysInTurn'
<1> USE DEF TypeOK, RequestsOK, Reach, InTransaction, KeysInTurn
<1>1. ASSUME NEW r \in Requests, NEW o \in Ops, Begin(r, o) PROVE KeysInTurn'
  BY <1>1 DEF Begin, Authenticated, KeyFree
<1>2. ASSUME NEW r \in Requests, Proceed(r) \/ Abort(r) PROVE KeysInTurn'
  BY <1>2 DEF Proceed, Read, Refuse, Refused, Prepare, Write, Flush, FlushRaises, Flushing,
     Commit, Committed, Abort, RolledBack
<1>3. CASE UNCHANGED <<stage, key>>
  BY <1>3
<1>4. QED
  BY <1>1, <1>2, <1>3 DEF Next, vars

\* A commit writes the row of a connection that exists or is being created;
\* the row it leaves exists, and its counter is not ahead of the transfers.
LEMMA CommitFacts ==
  ASSUME ConnInv, NEW q \in Requests, Commit(q)
  PROVE  /\ op[q] \in Ops /\ op[q].conn \in Conns
         /\ op[q].kind \in {"create", "sync", "status", "delete"}
         /\ op[q].kind # "create" => conn[op[q].conn].status # "absent"
         /\ conn' = [conn EXCEPT ![op[q].conn] = Written(q)]
         /\ Written(q).status # "absent"
         /\ Written(q).count <= synced'[op[q].conn]
         /\ synced' \in [Conns -> Nat]
         /\ \A c \in Conns : synced[c] <= synced'[c]
         /\ op' = op /\ seen' = seen
<1> DEFINE c == op[q].conn
<1>1. /\ op[q] \in Ops /\ c \in Conns
      /\ op[q].kind \in {"create", "sync", "status", "delete"}
      /\ stage[q] = "written"
  BY Begun DEF ConnInv, Commit, Committed
<1>2. conn[c] \in Rows /\ seen[q] \in Rows /\ synced \in [Conns -> Nat]
  BY <1>1 DEF ConnInv, TypeOK
<1>3. op[q].kind # "create" => conn[c].status # "absent" /\ seen[q].count <= synced[c]
  BY <1>1 DEF ConnInv, SeenWasTrue
<1>4. conn[c].count <= synced[c]
  BY <1>1 DEF ConnInv, CountNeverOverstates
<1>5. synced' = IF Persists(op[q]) THEN [synced EXCEPT ![c] = @ + 1] ELSE synced
  BY DEF Commit
<1>6. /\ synced' \in [Conns -> Nat] /\ \A d \in Conns : synced[d] <= synced'[d]
      /\ Persists(op[q]) => synced'[c] = synced[c] + 1
  <2>1. CASE Persists(op[q])
    BY <1>1, <1>2, <1>5, <2>1
  <2>2. CASE ~Persists(op[q])
    BY <1>2, <1>5, <2>2
  <2>3. QED
    BY <2>1, <2>2
<1>7. Written(q).status # "absent" /\ Written(q).count <= synced'[c]
  <2>1. CASE op[q].kind = "create"
    BY <1>1, <1>6, <2>1 DEF Written, New
  <2>2. CASE op[q].kind = "sync"
    <3>1. CASE Persists(op[q])
      BY <1>1, <1>2, <1>3, <1>6, <2>2, <3>1 DEF Written, Rows
    <3>2. CASE ~Persists(op[q])
      BY <1>1, <1>2, <1>3, <1>4, <1>6, <2>2, <3>2 DEF Written, Rows
    <3>3. QED
      BY <3>1, <3>2
  <2>3. CASE op[q].kind = "status"
    <3>1. op[q].to \in Present
      BY <1>1, <2>3, OpFacts
    <3>2. QED
      BY <1>1, <1>2, <1>4, <1>6, <2>3, <3>1 DEF Written, Rows, Present
  <2>4. CASE op[q].kind = "delete"
    BY <1>1, <1>2, <1>4, <1>6, <2>4 DEF Written, Rows
  <2>5. QED
    BY <1>1, <2>1, <2>2, <2>3, <2>4
<1>8. QED
  BY <1>1, <1>3, <1>6, <1>7 DEF Commit

\* A step that is not a commit leaves the table as it is.
LEMMA OnlyCommits ==
  ASSUME [Next]_vars
  PROVE  \/ \E q \in Requests : Commit(q)
         \/ conn' = conn /\ synced' = synced
BY DEF Next, vars, Begin, Proceed, Read, Refuse, Prepare, Write, Flush, FlushRaises, Abort

\* Only Begin changes what a request asks for, and only of its own.
LEMMA OnlyBegins ==
  ASSUME [Next]_vars
  PROVE  \/ \E r \in Requests, o \in Ops : Begin(r, o)
         \/ op' = op
BY DEF Next, vars, Proceed, Read, Refuse, Prepare, Write, Flush, FlushRaises, Commit, Abort

\* A step changes the requests of one client: it leaves r as it is, or it is one
\* of its own.
LEMMA Actor ==
  ASSUME TypeOK, [Next]_vars, NEW r \in Requests
  PROVE  \/ stage'[r] = stage[r] /\ op'[r] = op[r] /\ found'[r] = found[r] /\ wrote'[r] = wrote[r]
         \/ (\E o \in Ops : Begin(r, o)) \/ Proceed(r) \/ Abort(r)
<1> DEFINE Same == stage'[r] = stage[r] /\ op'[r] = op[r] /\ found'[r] = found[r] /\ wrote'[r] = wrote[r]
<1> USE DEF TypeOK, RequestsOK, Reach
<1>1. ASSUME NEW q \in Requests, q # r, NEW o \in Ops, Begin(q, o) PROVE Same
  BY <1>1 DEF Begin, Authenticated
<1>2. ASSUME NEW q \in Requests, q # r, Read(q) \/ Refuse(q) PROVE Same
  BY <1>2 DEF Read, Refuse, Refused
<1>3. ASSUME NEW q \in Requests, q # r, Prepare(q) PROVE Same
  <2>1. PICK f \in Finds : found' = [found EXCEPT ![q] = f]
    BY <1>3, Prepared
  <2>2. QED
    BY <1>3, <2>1 DEF Prepare
<1>4. ASSUME NEW q \in Requests, q # r, Write(q) \/ Flush(q) PROVE Same
  BY <1>4 DEF Write, Flush
<1>5. ASSUME NEW q \in Requests, q # r, FlushRaises(q) \/ Abort(q) PROVE Same
  BY <1>5 DEF FlushRaises, Abort, RolledBack, Release
<1>6. ASSUME NEW q \in Requests, q # r, Commit(q) PROVE Same
  BY <1>6 DEF Commit, Committed
<1>7. CASE UNCHANGED vars
  BY <1>7 DEF vars
<1>8. QED
  BY <1>1, <1>2, <1>3, <1>4, <1>5, <1>6, <1>7 DEF Next, Proceed

\* A request that is done stays done, and asked for what it did.
LEMMA DoneStays ==
  ASSUME TypeOK, [Next]_vars, NEW r \in Requests, stage[r] = "done"
  PROVE  stage'[r] = "done" /\ op'[r] = op[r] /\ found'[r] = found[r]
BY Actor DEF Begin, Authenticated, Proceed, Read, Refuse, Refused, Prepare, Write, Flush,
   FlushRaises, Flushing, Commit, Committed, Abort, RolledBack, InTransaction

\* A request gets done by its commit.
LEMMA DoneByCommit ==
  ASSUME TypeOK, [Next]_vars, NEW r \in Requests, stage'[r] = "done", stage[r] # "done"
  PROVE  Commit(r) /\ op'[r] = op[r] /\ found'[r] = found[r]
<1> USE DEF TypeOK, RequestsOK, Reach
<1>1. Commit(r)
  BY Actor DEF Begin, Authenticated, Proceed, Read, Refuse, Refused, Prepare, Write, Flush,
     FlushRaises, Abort, RolledBack
<1>2. QED
  BY <1>1 DEF Commit

\* A row that is gone stays so; it goes with the commit of a deletion.
LEMMA GoneStep ==
  ASSUME TypeOK, [Next]_vars, NEW x
  PROVE  /\ Gone(x) => Gone(x)'
         /\ Gone(x)' => \/ Gone(x)
                       \/ \E q \in Requests :
                            /\ Commit(q) /\ op[q].kind = "delete" /\ op[q].conn = x[2]
                            /\ Statement(q, x) \in {3, 4, 5}
<1>1. ASSUME NEW q \in Requests, found'[q] = found[q] PROVE Statement(q, x)' = Statement(q, x)
  BY <1>1 DEF Statement
<1>2. Gone(x) => Gone(x)'
  BY <1>1, DoneStays DEF Gone
<1>3. ASSUME Gone(x)'
      PROVE  \/ Gone(x)
             \/ \E q \in Requests :
                  /\ Commit(q) /\ op[q].kind = "delete" /\ op[q].conn = x[2]
                  /\ Statement(q, x) \in {3, 4, 5}
  <2>1. PICK q \in Requests :
          /\ stage'[q] = "done" /\ op'[q].kind = "delete" /\ op'[q].conn = x[2]
          /\ Statement(q, x)' \in {3, 4, 5}
    BY <1>3 DEF Gone
  <2>2. CASE stage[q] = "done"
    BY <1>1, <2>1, <2>2, DoneStays DEF Gone
  <2>3. CASE stage[q] # "done"
    BY <1>1, <2>1, <2>3, DoneByCommit
  <2>4. QED
    BY <2>2, <2>3
<1>4. QED
  BY <1>2, <1>3

\* A row that was ever there was created by a request.
LEMMA CreatedStep ==
  ASSUME ConnInv, [Next]_vars
  PROVE  CreatedOnce'
<1>1. ASSUME NEW r \in Requests, NEW o \in Ops, Begin(r, o) PROVE CreatedOnce'
  <2>1. op[r].kind # "create" /\ op \in [Requests -> Ops \cup {NoOp}]
    BY <1>1 DEF Begin, Authenticated, ConnInv, TypeOK, NoOp
  <2>2. conn' = conn /\ op' = [op EXCEPT ![r] = o]
    BY <1>1 DEF Begin
  <2>3. QED
    BY <2>1, <2>2 DEF ConnInv, CreatedOnce
<1>2. ASSUME NEW q \in Requests, Commit(q) PROVE CreatedOnce'
  <2>1. conn \in [Conns -> Rows]
    BY DEF ConnInv, TypeOK
  <2>2. ASSUME NEW c \in Conns, conn'[c] # Absent
        PROVE  c \in Given \/ \E p \in Requests : op[p].kind = "create" /\ op[p].conn = c
    <3>1. CASE c # op[q].conn
      BY <1>2, <2>1, <2>2, <3>1, CommitFacts DEF ConnInv, CreatedOnce
    <3>2. CASE c = op[q].conn /\ op[q].kind = "create"
      BY <3>2
    <3>3. CASE c = op[q].conn /\ op[q].kind # "create"
      <4>1. conn[c] # Absent
        BY <1>2, <3>3, CommitFacts DEF Absent
      <4>2. QED
        BY <4>1 DEF ConnInv, CreatedOnce
    <3>4. QED
      BY <3>1, <3>2, <3>3
  <2>3. QED
    BY <1>2, <2>2, CommitFacts DEF CreatedOnce
<1>3. CASE op' = op /\ conn' = conn
  BY <1>3 DEF ConnInv, CreatedOnce
<1>4. QED
  <2>1. \/ \E r \in Requests, o \in Ops : Begin(r, o)
        \/ \E q \in Requests : Commit(q)
        \/ op' = op /\ conn' = conn
    BY OnlyBegins, OnlyCommits
  <2>2. QED
    BY <1>1, <1>2, <1>3, <2>1

\* The id of a new connection is drawn once, and nothing is there until the
\* request that drew it commits.
LEMMA CreatesStep ==
  ASSUME ConnInv, [Next]_vars
  PROVE  CreatesFresh'
<1> USE DEF CreatesFresh
<1>0. /\ op \in [Requests -> Ops \cup {NoOp}] /\ conn \in [Conns -> Rows]
      /\ stage \in [Requests -> Stages]
  BY DEF ConnInv, TypeOK, RequestsOK
<1>1. ASSUME NEW r \in Requests, NEW o \in Ops, Begin(r, o) PROVE CreatesFresh'
  <2>1. /\ op' = [op EXCEPT ![r] = o] /\ conn' = conn /\ op[r] = NoOp
        /\ stage' = [stage EXCEPT ![r] = "open"]
        /\ o.kind = "create" => o.conn \notin Given /\ \A q \in Requests : op[q] # o
    BY <1>1 DEF Begin, Authenticated, Reach, ConnInv, TypeOK
  <2>2. o.kind = "create" => conn[o.conn] = Absent
    <3>1. SUFFICES ASSUME o.kind = "create", conn[o.conn] # Absent PROVE FALSE
      OBVIOUS
    <3>2. PICK q \in Requests : op[q].kind = "create" /\ op[q].conn = o.conn
      BY <2>1, <3>1, OpFacts DEF ConnInv, CreatedOnce
    <3>3. op[q] \in Ops
      BY <1>0, <3>2 DEF NoOp
    <3>4. op[q] = o
      BY <3>1, <3>2, <3>3, OpFacts
    <3>5. QED
      BY <2>1, <3>1, <3>4
  <2>3. QED
    BY <1>0, <2>1, <2>2 DEF ConnInv, NoOp
<1>2. ASSUME NEW q \in Requests, Commit(q) PROVE CreatesFresh'
  <2>1. stage' = [stage EXCEPT ![q] = "done"] /\ op' = op
    BY <1>2 DEF Commit, Committed, Reach
  <2>2. ASSUME NEW r \in Requests, op[r].kind = "create", stage'[r] # "done"
        PROVE  conn'[op[r].conn] = Absent
    <3>1. r # q /\ conn[op[r].conn] = Absent
      BY <1>0, <2>1, <2>2 DEF ConnInv
    <3>2. op[r] \in Ops
      BY <1>0, <2>2 DEF NoOp
    <3>3. op[q].conn # op[r].conn
      <4>1. CASE op[q].kind = "create"
        BY <1>2, <2>2, <3>1, <3>2, <4>1, OpFacts, CommitFacts DEF ConnInv
      <4>2. CASE op[q].kind # "create"
        BY <1>2, <3>1, <4>2, CommitFacts DEF Absent
      <4>3. QED
        BY <4>1, <4>2
    <3>4. op[r].conn \in Conns
      BY <3>2, OpFacts
    <3>5. QED
      BY <1>0, <1>2, <3>1, <3>3, <3>4, CommitFacts
  <2>3. QED
    BY <2>1, <2>2 DEF ConnInv
<1>3. CASE op' = op /\ conn' = conn
  BY <1>3, DoneStays DEF ConnInv
<1>4. QED
  <2>1. \/ \E r \in Requests, o \in Ops : Begin(r, o)
        \/ \E q \in Requests : Commit(q)
        \/ op' = op /\ conn' = conn
    BY OnlyBegins, OnlyCommits
  <2>2. QED
    BY <1>1, <1>2, <1>3, <2>1

\* What a request has read was true once.
LEMMA SeenStep ==
  ASSUME ConnInv, [Next]_vars
  PROVE  SeenWasTrue'
<1> USE DEF SeenWasTrue, Reach
<1>0. /\ op \in [Requests -> Ops \cup {NoOp}] /\ conn \in [Conns -> Rows]
      /\ stage \in [Requests -> Stages] /\ seen \in [Requests -> Rows]
  BY DEF ConnInv, TypeOK, RequestsOK
<1>1. ASSUME NEW r \in Requests, NEW o \in Ops, Begin(r, o) PROVE SeenWasTrue'
  BY <1>0, <1>1 DEF Begin, Authenticated, ConnInv
<1>2. ASSUME NEW r \in Requests, Read(r) PROVE SeenWasTrue'
  <2>1. /\ stage' = [stage EXCEPT ![r] = "read"] /\ op' = op /\ conn' = conn
        /\ synced' = synced /\ seen' = [seen EXCEPT ![r] = conn[op[r].conn]]
        /\ Admitted(op[r])
    BY <1>2 DEF Read
  <2>2. op[r].conn \in Conns /\ op[r].kind \in {"create", "sync", "status", "delete"}
    BY <1>2, Begun DEF Read, ConnInv
  <2>3. op[r].kind # "create" => conn[op[r].conn].status # "absent"
    BY <2>1, <2>2 DEF Admitted, Present
  <2>4. conn[op[r].conn].count <= synced[op[r].conn]
    BY <2>2 DEF ConnInv, CountNeverOverstates
  <2>5. QED
    BY <1>0, <2>1, <2>3, <2>4 DEF ConnInv
<1>3. ASSUME NEW q \in Requests, Commit(q) PROVE SeenWasTrue'
  <2>1. stage' = [stage EXCEPT ![q] = "done"]
    BY <1>3 DEF Commit, Committed
  <2>2. ASSUME NEW r \in Requests, stage'[r] \in {"read", "written"}, op[r].kind # "create"
        PROVE  conn'[op[r].conn].status # "absent" /\ seen[r].count <= synced'[op[r].conn]
    <3>1. stage[r] \in {"read", "written"} /\ op[r].conn \in Conns /\ seen[r].count \in Nat
      BY <1>0, <2>1, <2>2, Begun DEF ConnInv, Rows
    <3>2. conn[op[r].conn].status # "absent" /\ seen[r].count <= synced[op[r].conn]
      BY <2>2, <3>1 DEF ConnInv
    <3>3. synced[op[r].conn] \in Nat /\ synced'[op[r].conn] \in Nat
      BY <1>3, <3>1, CommitFacts DEF ConnInv, TypeOK
    <3>4. QED
      BY <1>0, <1>3, <3>1, <3>2, <3>3, CommitFacts
  <2>3. QED
    BY <1>3, <2>2, CommitFacts
<1>4. ASSUME NEW r \in Requests, Refuse(r) \/ Flush(r) \/ FlushRaises(r) \/ Abort(r)
      PROVE  SeenWasTrue'
  BY <1>0, <1>4 DEF Refuse, Refused, Flush, FlushRaises, Abort, RolledBack, ConnInv
<1>5. ASSUME NEW r \in Requests, Prepare(r) \/ Write(r) PROVE SeenWasTrue'
  BY <1>5 DEF Prepare, Write, ConnInv
<1>6. CASE UNCHANGED vars
  BY <1>6 DEF vars, ConnInv
<1>7. QED
  BY <1>1, <1>2, <1>3, <1>4, <1>5, <1>6 DEF Next, Proceed

\* The counter of a connection is not ahead of its transfers.
LEMMA CountStep ==
  ASSUME ConnInv, [Next]_vars
  PROVE  CountNeverOverstates'
<1> USE DEF CountNeverOverstates
<1>1. ASSUME NEW q \in Requests, Commit(q) PROVE CountNeverOverstates'
  <2>1. conn \in [Conns -> Rows] /\ synced \in [Conns -> Nat]
    BY DEF ConnInv, TypeOK
  <2>2. ASSUME NEW c \in Conns, c # op[q].conn PROVE conn'[c].count <= synced'[c]
    <3>1. conn'[c] = conn[c] /\ conn[c].count \in Nat /\ conn[c].count <= synced[c]
      BY <1>1, <2>1, <2>2, CommitFacts DEF ConnInv, Rows
    <3>2. synced[c] \in Nat /\ synced'[c] \in Nat /\ synced[c] <= synced'[c]
      BY <1>1, <2>1, CommitFacts
    <3>3. QED
      BY <3>1, <3>2
  <2>3. conn'[op[q].conn].count <= synced'[op[q].conn]
    BY <1>1, <2>1, CommitFacts
  <2>4. QED
    BY <2>2, <2>3
<1>2. QED
  BY <1>1, OnlyCommits DEF ConnInv

\* The pairs of a connection only become more.
LEMMA SyncedGrows ==
  ASSUME ConnInv, [Next]_vars
  PROVE  /\ synced \in [Conns -> Nat] /\ synced' \in [Conns -> Nat]
         /\ \A c \in Conns : synced[c] <= synced'[c] /\ \A x \in RowsOf(c) : x \in RowsOf(c)'
<1>1. synced \in [Conns -> Nat]
  BY DEF ConnInv, TypeOK
<1>2. synced' \in [Conns -> Nat] /\ \A c \in Conns : synced[c] <= synced'[c]
  BY <1>1, OnlyCommits, CommitFacts
<1>3. ASSUME NEW c \in Conns, NEW x \in RowsOf(c) PROVE x \in RowsOf(c)'
  <2>1. synced[c] \in Nat /\ synced'[c] \in Nat /\ synced[c] <= synced'[c]
    BY <1>1, <1>2
  <2>2. 1 .. synced[c] \subseteq 1 .. synced'[c]
    BY <2>1
  <2>3. QED
    BY <2>2 DEF RowsOf, Row, SkillRow, TransferRow
<1>4. QED
  BY <1>1, <1>2, <1>3

\* A deletion finds what is there, and all of it has been written when its flush
\* is over.
LEMMA FoundStep ==
  ASSUME ConnInv, [Next]_vars
  PROVE  FoundWasThere'
<1> USE DEF FoundWasThere, TypeOK, RequestsOK, Reach
<1>1. SUFFICES ASSUME NEW r \in Requests, op'[r].kind = "delete",
                      stage'[r] \in {"read", "written", "done"}
               PROVE  LET f == found'[r] IN
                 /\ {f.skills, f.logs, f.allSkills, f.allLogs} \subseteq 0 .. synced'[op'[r].conn]
                 /\ stage'[r] # "read" => f.ready /\ ~f.breaks
  OBVIOUS
<1>2. TypeOK /\ TypeOK'
  BY TypeStep DEF ConnInv
<1>3. op[r].kind = "delete" /\ op'[r] = op[r] /\ op[r].conn \in Conns
  <2>1. op'[r] = op[r]
    BY <1>1, <1>2, Actor DEF Begin, Authenticated, Proceed, Read, Refuse, Prepare, Write, Flush,
       FlushRaises, Commit, Abort
  <2>2. op[r] \in Ops
    BY <1>1, <1>2, <2>1 DEF NoOp
  <2>3. QED
    BY <1>1, <2>1, <2>2, OpFacts
<1> DEFINE c == op[r].conn
           In(f, n) == {f.skills, f.logs, f.allSkills, f.allLogs} \subseteq 0 .. n
<1>4. synced[c] \in Nat /\ synced'[c] \in Nat /\ synced[c] <= synced'[c]
  BY <1>3, SyncedGrows
<1>5. In(found[r], synced[c]) => In(found[r], synced'[c])
  BY <1>4
<1>6. CASE stage[r] \in {"read", "written", "done"} /\ found'[r] = found[r]
  <2>1. In(found[r], synced[c]) /\ (stage[r] # "read" => found[r].ready /\ ~found[r].breaks)
    BY <1>3, <1>6 DEF ConnInv
  <2>2. stage'[r] # "read" /\ stage[r] = "read" => Flush(r)
    BY <1>1, <1>2, Actor DEF Begin, Authenticated, Proceed, Read, Refuse, Refused, Prepare, Write,
       FlushRaises, Commit, Committed, Abort, RolledBack
  <2>3. stage'[r] # "read" => found[r].ready /\ ~found[r].breaks
    BY <1>3, <1>6, <2>1, <2>2 DEF Flush
  <2>4. QED
    BY <1>3, <1>5, <1>6, <2>1, <2>3
<1>7. CASE Read(r)
  <2>1. found'[r] = Known(synced[c]) /\ stage'[r] = "read"
    BY <1>2, <1>3, <1>7 DEF Read
  <2>2. QED
    BY <1>3, <1>4, <1>5, <2>1 DEF Known
<1>8. CASE Prepare(r)
  <2>1. PICK f \in Finds : found' = [found EXCEPT ![r] = f] /\ In(f, synced[c])
    BY <1>2, <1>8, Prepared
  <2>2. synced' = synced /\ stage' = stage /\ stage[r] = "read" /\ found'[r] = f
    BY <1>2, <1>8, <2>1 DEF Prepare
  <2>3. QED
    BY <1>3, <2>1, <2>2
<1>9. QED
  <2>1. (stage[r] \in {"read", "written", "done"} /\ found'[r] = found[r]) \/ Read(r) \/ Prepare(r)
    BY <1>1, <1>2, Actor DEF Begin, Authenticated, Proceed, Refuse, Refused, Write, Flushing, Flush,
       FlushRaises, Commit, Committed, Abort, RolledBack
  <2>2. QED
    BY <1>6, <1>7, <1>8, <2>1

\* Only a commit changes the status of a connection, and only that of its own; a
\* sync or a status change does not turn it to deleted.
LEMMA StatusKept ==
  ASSUME ConnInv, [Next]_vars, NEW c \in Conns,
         \A q \in Requests : Commit(q) /\ op[q].conn = c => op[q].kind # "delete"
  PROVE  conn[c].status # "deleted" => conn'[c].status # "deleted"
<1>1. conn \in [Conns -> Rows]
  BY DEF ConnInv, TypeOK
<1>2. ASSUME NEW q \in Requests, Commit(q), conn[c].status # "deleted"
      PROVE  conn'[c].status # "deleted"
  <2>1. CASE op[q].conn # c
    BY <1>1, <1>2, <2>1, CommitFacts
  <2>2. CASE op[q].conn = c
    <3>1. /\ op[q].kind \in {"create", "sync", "status"} /\ conn'[c] = Written(q)
          /\ op[q] \in Ops /\ conn[c] \in Rows
      BY <1>1, <1>2, <2>2, CommitFacts
    <3>2. op[q].kind = "status" => op[q].to \in Present
      BY <3>1, OpFacts
    <3>3. Written(q).status # "deleted"
      BY <1>2, <2>2, <3>1, <3>2 DEF Written, New, Rows, Present
    <3>4. QED
      BY <3>1, <3>3
  <2>3. QED
    BY <2>1, <2>2
<1>3. QED
  BY <1>2, OnlyCommits

\* The commit of a deletion has written the connection's row.
LEMMA DeletionsHoldRow ==
  ASSUME ConnInv, NEW q \in Requests, Commit(q), op[q].kind = "delete"
  PROVE  Row(op[q].conn) \in wrote[q]
BY DEF ConnInv, WritersHoldRow, WritesRow, Commit, Committed

\* A flushed row is locked: no other transaction deletes it.
LEMMA WritersStep ==
  ASSUME ConnInv, [Next]_vars
  PROVE  WritersHoldRow'
<1> USE DEF TypeOK, RequestsOK, Reach
<1>1. TypeOK /\ WritersHoldRow
  BY DEF ConnInv
<1> DEFINE Holds(r) == wrote[r] # {} =>
             /\ stage[r] = "written" \/ Flushing(r)
             /\ wrote[r] \subseteq RowsOf(op[r].conn)
           Writes(r) == stage[r] = "written" /\ WritesRow(op[r]) =>
             /\ Row(op[r].conn) \in wrote[r]
             /\ op[r].kind # "delete" => conn[op[r].conn].status # "deleted"
<1>2. SUFFICES ASSUME NEW r \in Requests PROVE Holds(r)' /\ Writes(r)'
  BY DEF WritersHoldRow
<1>3. Holds(r) /\ Writes(r)
  BY <1>1 DEF WritersHoldRow
<1>4. CASE stage'[r] = stage[r] /\ op'[r] = op[r] /\ found'[r] = found[r] /\ wrote'[r] = wrote[r]
  <2>1. Holds(r)'
    <3>1. stage[r] \in {"read", "written"} => op[r].conn \in Conns
      BY <1>1, Begun
    <3>2. SUFFICES ASSUME wrote[r] # {}
                   PROVE  /\ stage[r] = "written" \/ Flushing(r)
                          /\ wrote[r] \subseteq RowsOf(op[r].conn)'
      BY <1>4 DEF Flushing
    <3>3. /\ stage[r] = "written" \/ Flushing(r)
          /\ wrote[r] \subseteq RowsOf(op[r].conn) /\ op[r].conn \in Conns
      BY <1>3, <3>1, <3>2 DEF Flushing
    <3>4. PICK c \in Conns : c = op[r].conn
      BY <3>3
    <3>5. RowsOf(op[r].conn)' = RowsOf(c)'
      BY <1>4, <3>4
    <3>6. QED
      BY <3>3, <3>4, <3>5, SyncedGrows
  <2>2. Writes(r)'
    <3>1. SUFFICES ASSUME stage[r] = "written", WritesRow(op[r])
                   PROVE  /\ Row(op[r].conn) \in wrote[r]
                          /\ op[r].kind # "delete" => conn'[op[r].conn].status # "deleted"
      BY <1>4 DEF WritesRow, Persists, Row
    <3>2. Row(op[r].conn) \in wrote[r] /\ op[r].conn \in Conns
      BY <1>1, <1>3, <3>1, Begun
    <3>3. ASSUME op[r].kind # "delete" PROVE conn'[op[r].conn].status # "deleted"
      <4>1. conn[op[r].conn].status # "deleted"
        BY <1>3, <3>1, <3>3
      <4>2. ASSUME NEW q \in Requests, Commit(q), op[q].conn = op[r].conn, op[q].kind = "delete"
            PROVE  FALSE
        <5>1. q # r
          BY <3>3, <4>2
        <5>2. Row(op[r].conn) \in wrote[q]
          BY <4>2, DeletionsHoldRow
        <5>3. Gone(Row(op[r].conn))
          BY <3>2, <5>1, <5>2 DEF ConnInv, HeldByOne
        <5>4. QED
          BY <3>2, <4>1, <5>3 DEF ConnInv, GoneIsDeleted
      <4>3. QED
        BY <3>2, <4>1, <4>2, StatusKept
    <3>4. QED
      BY <3>2, <3>3
  <2>3. QED
    BY <2>1, <2>2
<1>5. CASE (\E o \in Ops : Begin(r, o)) \/ Read(r) \/ Refuse(r) \/ Prepare(r)
  <2>1. wrote[r] = {}
    BY <1>3, <1>5 DEF Begin, Authenticated, Read, Refuse, Refused, Prepare, Flushing
  <2>2. wrote'[r] = {} /\ stage'[r] # "written"
    BY <1>1, <1>5, <2>1 DEF Begin, Authenticated, Read, Refuse, Refused, Prepare
  <2>3. QED
    BY <2>2
<1>6. CASE Write(r)
  <2>1. PICK x \in Upcoming(r) : wrote' = [wrote EXCEPT ![r] = @ \cup {x}]
    BY <1>6 DEF Write
  <2>2. /\ stage' = stage /\ op' = op /\ found' = found /\ synced' = synced
        /\ Flushing(r)
    BY <1>6 DEF Write
  <2>3. x \in RowsOf(op[r].conn)
    BY <2>1 DEF Upcoming, Left
  <2>4. wrote'[r] \subseteq RowsOf(op[r].conn)
    BY <1>1, <1>3, <2>1, <2>3
  <2>5. QED
    BY <2>2, <2>4 DEF Flushing, RowsOf
<1>7. CASE Flush(r)
  <2>1. stage' = [stage EXCEPT ![r] = "written"] /\ op' = op /\ conn' = conn /\ synced' = synced
    BY <1>7 DEF Flush
  <2>2. op[r].conn \in Conns /\ stage[r] = "read"
    BY <1>1, <1>7, Begun DEF Flush
  <2>3. CASE op[r].kind = "delete"
    <3>1. wrote' = wrote /\ Left(r) = {} /\ ~found[r].breaks
      BY <1>7, <2>3 DEF Flush
    <3>2. Statement(r, Row(op[r].conn)) = 5
      BY DEF Statement, Row
    <3>3. Row(op[r].conn) \in wrote[r]
      BY <3>1, <3>2, RowIsOne DEF Left
    <3>4. QED
      BY <1>1, <1>3, <2>1, <2>3, <3>1, <3>3 DEF RowsOf, Row
  <2>4. CASE op[r].kind # "delete" /\ WritesRow(op[r])
    <3>1. wrote'[r] = {Row(op[r].conn)} /\ conn[op[r].conn].status # "deleted"
      BY <1>1, <1>7, <2>4 DEF Flush
    <3>2. PICK c \in Conns : c = op[r].conn /\ c = op'[r].conn
      BY <2>1, <2>2
    <3>3. RowsOf(op[r].conn)' = RowsOf(c)' /\ Row(c) \in RowsOf(c)'
      BY <3>2 DEF RowsOf
    <3>4. stage'[r] = "written" /\ wrote'[r] \subseteq RowsOf(op[r].conn)'
      BY <1>1, <2>1, <3>1, <3>2, <3>3
    <3>5. Row(op[r].conn)' = Row(c)
      BY <2>1, <3>2 DEF Row
    <3>6. QED
      BY <2>1, <3>1, <3>2, <3>4, <3>5
  <2>5. CASE ~WritesRow(op[r])
    <3>1. op[r].kind # "delete"
      BY <2>5 DEF WritesRow
    <3>2. wrote[r] = {} /\ wrote' = wrote
      BY <1>3, <1>7, <2>2, <2>5, <3>1 DEF Flush, Flushing
    <3>3. WritesRow(op[r])' = WritesRow(op[r])
      BY <2>1 DEF WritesRow, Persists
    <3>4. QED
      BY <2>5, <3>2, <3>3
  <2>6. QED
    BY <2>3, <2>4, <2>5
<1>8. CASE FlushRaises(r) \/ Abort(r) \/ Commit(r)
  <2>1. wrote'[r] = {} /\ stage'[r] # "written"
    BY <1>1, <1>8 DEF FlushRaises, Abort, RolledBack, Release, Commit, Committed
  <2>2. QED
    BY <2>1
<1>9. QED
  BY <1>1, <1>4, <1>5, <1>6, <1>7, <1>8, Actor DEF Proceed

\* A row is written when nobody else holds it.
LEMMA Locks ==
  ASSUME ConnInv, [Next]_vars, NEW q \in Requests, NEW x, x \in wrote'[q], x \notin wrote[q]
  PROVE  RowFree(q, x) /\ \A p \in Requests \ {q} : wrote'[p] = wrote[p]
<1> USE DEF TypeOK, RequestsOK, Reach
<1>1. TypeOK
  BY DEF ConnInv
<1>2. Write(q) \/ Flush(q)
  BY <1>1, Actor DEF Begin, Authenticated, Proceed, Read, Refuse, Prepare, FlushRaises, Abort,
     Release, Commit
<1>3. CASE Write(q)
  <2>1. PICK y \in Upcoming(q) : RowFree(q, y) /\ wrote' = [wrote EXCEPT ![q] = @ \cup {y}]
    BY <1>3 DEF Write
  <2>2. y = x
    BY <1>1, <2>1
  <2>3. QED
    BY <1>1, <2>1, <2>2
<1>4. CASE Flush(q)
  <2>1. /\ wrote' = [wrote EXCEPT ![q] = {Row(op[q].conn)}]
        /\ op[q].kind # "delete" /\ WritesRow(op[q])
    BY <1>4 DEF Flush
  <2>2. x = Row(op[q].conn) /\ RowFree(q, Row(op[q].conn))
    BY <1>1, <1>4, <2>1 DEF Flush
  <2>3. QED
    BY <1>1, <2>1, <2>2
<1>5. QED
  BY <1>2, <1>3, <1>4

\* Locks exclude each other.
LEMMA HeldStep ==
  ASSUME ConnInv, [Next]_vars
  PROVE  HeldByOne'
<1>1. ASSUME NEW q \in Requests, NEW r \in Requests, q # r, NEW x \in wrote'[q] \cap wrote'[r]
      PROVE  Gone(x)'
  <2>1. TypeOK
    BY DEF ConnInv
  <2>2. Gone(x) => Gone(x)'
    BY <2>1, GoneStep
  <2>3. CASE x \in wrote[q] /\ x \in wrote[r]
    BY <1>1, <2>2, <2>3 DEF ConnInv, HeldByOne
  <2>4. CASE x \notin wrote[q]
    BY <1>1, <2>2, <2>4, Locks DEF RowFree, HoldsRow
  <2>5. CASE x \notin wrote[r]
    BY <1>1, <2>2, <2>5, Locks DEF RowFree, HoldsRow
  <2>6. QED
    BY <2>3, <2>4, <2>5
<1>2. QED
  BY <1>1 DEF HeldByOne

\* The row of a connection goes when the connection is deleted.
LEMMA DeletedRowStep ==
  ASSUME ConnInv, [Next]_vars
  PROVE  GoneIsDeleted'
<1>1. SUFFICES ASSUME NEW c \in Conns
               PROVE  Gone(Row(c))' <=> conn'[c].status = "deleted"
  BY DEF GoneIsDeleted, Gone, Row, Statement
<1>2. TypeOK /\ Row(c)[2] = c /\ \A q : Statement(q, Row(c)) = 5 /\ Statement(q, Row(c))' = 5
  BY DEF ConnInv, Row, Statement
<1>3. Gone(Row(c)) <=> conn[c].status = "deleted"
  BY DEF ConnInv, GoneIsDeleted
<1>4. conn \in [Conns -> Rows]
  BY <1>2 DEF TypeOK
<1>5. ASSUME NEW q \in Requests, Commit(q), op[q].kind = "delete", op[q].conn = c
      PROVE  Gone(Row(c))' /\ conn'[c].status = "deleted"
  <2>1. stage'[q] = "done" /\ op' = op
    BY <1>2, <1>5 DEF Commit, Committed, Reach, TypeOK, RequestsOK
  <2>2. Gone(Row(c))'
    BY <1>2, <1>5, <2>1 DEF Gone
  <2>3. conn'[c] = Written(q) /\ conn[c] \in Rows
    BY <1>4, <1>5, CommitFacts
  <2>4. QED
    BY <1>5, <2>2, <2>3 DEF Written, Rows
<1>6. CASE \A q \in Requests : Commit(q) /\ op[q].conn = c => op[q].kind # "delete"
  <2>1. Gone(Row(c))' <=> Gone(Row(c))
    BY <1>2, <1>6, GoneStep
  <2>2. conn[c].status # "deleted" => conn'[c].status # "deleted"
    BY <1>6, StatusKept
  <2>3. ASSUME conn[c].status = "deleted", NEW q \in Requests, Commit(q)
        PROVE  conn'[c].status = "deleted"
    <3>1. CASE op[q].conn # c
      BY <1>4, <2>3, <3>1, CommitFacts
    <3>2. CASE op[q].conn = c
      <4>1. stage[q] = "written"
        BY <2>3 DEF Commit, Committed
      <4>2. op[q].kind # "create"
        BY <2>3, <3>2, <4>1 DEF ConnInv, CreatesFresh, Absent
      <4>3. ~WritesRow(op[q])
        BY <1>6, <2>3, <3>2, <4>1 DEF ConnInv, WritersHoldRow
      <4>4. op[q].kind = "sync" /\ ~Persists(op[q])
        BY <2>3, <4>2, <4>3, CommitFacts DEF WritesRow
      <4>5. conn'[c] = Written(q)
        BY <1>4, <2>3, <3>2, CommitFacts
      <4>6. Written(q) = conn[c]
        BY <3>2, <4>4 DEF Written
      <4>7. QED
        BY <2>3, <4>5, <4>6
    <3>3. QED
      BY <3>1, <3>2
  <2>4. conn[c].status = "deleted" => conn'[c].status = "deleted"
    BY <2>3, OnlyCommits
  <2>5. QED
    BY <1>3, <2>1, <2>2, <2>4
<1>7. QED
  BY <1>5, <1>6

\* A row that a sync commits later is in a statement after the deletion of the
\* connection.
LEMMA NewRowsLast ==
  ASSUME ConnInv, NEW r \in Requests, op[r].kind = "delete", stage[r] \in {"read", "written"},
         NEW n \in Nat, NEW i \in 1 .. n, NEW t \in {"skill", "transfer"},
         Statement(r, <<t, op[r].conn, i>>) <= 5
  PROVE  <<t, op[r].conn, i>> \in RowsOf(op[r].conn)
<1> DEFINE c == op[r].conn
           f == found[r]
<1>1. c \in Conns /\ synced[c] \in Nat
  BY Begun DEF ConnInv, TypeOK
<1>2. {f.skills, f.logs, f.allSkills, f.allLogs} \subseteq 0 .. synced[c]
  BY DEF ConnInv, FoundWasThere
<1>3. i \in 1 .. synced[c]
  BY <1>1, <1>2 DEF Statement
<1>4. QED
  BY <1>3 DEF RowsOf, SkillRow, TransferRow

\* A deletion writes in the order of its statements.
LEMMA OrderStep ==
  ASSUME ConnInv, [Next]_vars
  PROVE  InOrder'
<1> USE DEF TypeOK, RequestsOK, Reach
<1>1. TypeOK /\ TypeOK' /\ WritersHoldRow /\ InOrder
  BY TypeStep DEF ConnInv
<1> DEFINE Ordered(r, x) ==
             /\ \A y \in RowsOf(op[r].conn) : Before(r, y, x) /\ Statement(r, y) <= 5 => y \in wrote[r]
             /\ Statement(r, x) > 5 => ~Gone(Row(op[r].conn))
<1>2. SUFFICES ASSUME NEW r \in Requests, op'[r].kind = "delete", NEW x \in wrote'[r]
               PROVE  Ordered(r, x)'
  BY DEF InOrder
<1>3. \/ stage'[r] = stage[r] /\ op'[r] = op[r] /\ found'[r] = found[r] /\ wrote'[r] = wrote[r]
      \/ Write(r) \/ Flush(r)
  <2>1. (\E o \in Ops : Begin(r, o)) \/ Read(r) \/ Refuse(r) \/ Prepare(r) => wrote[r] = {} /\ wrote' = wrote
    BY <1>1 DEF Begin, Authenticated, Read, Refuse, Refused, Prepare, WritersHoldRow, Flushing
  <2>2. FlushRaises(r) \/ Abort(r) \/ Commit(r) => wrote'[r] = {}
    BY <1>1 DEF FlushRaises, Abort, Release, Commit
  <2>3. QED
    BY <1>1, <1>2, <2>1, <2>2, Actor DEF Proceed
<1>4. op'[r] = op[r] /\ found'[r] = found[r] /\ wrote[r] \subseteq wrote'[r]
  <2>1. Write(r) => op' = op /\ found' = found /\ wrote[r] \subseteq wrote'[r]
    BY <1>1 DEF Write
  <2>2. Flush(r) => op' = op /\ found' = found
    BY DEF Flush
  <2>3. Flush(r) => wrote'[r] = wrote[r]
    BY <1>2, <2>2 DEF Flush
  <2>4. QED
    BY <1>3, <2>1, <2>2, <2>3
<1>5. stage[r] \in {"read", "written"} /\ op[r].conn \in Conns /\ op[r].kind = "delete" /\ ~Commit(r)
  <2>1. stage[r] \in {"read", "written"}
    BY <1>1, <1>2, <1>3 DEF WritersHoldRow, Write, Flushing, Flush
  <2>2. Commit(r) => wrote'[r] = {}
    BY <1>1 DEF Commit
  <2>3. QED
    BY <1>1, <1>2, <1>4, <2>1, <2>2, Begun
<1>6. /\ \A z : Statement(r, z)' = Statement(r, z)
      /\ \A y, z : Before(r, y, z)' = Before(r, y, z)
  BY <1>4 DEF Statement, Before
<1>7. PICK c \in Conns : c = op[r].conn /\ c = op'[r].conn
  BY <1>4, <1>5
<1>8. ASSUME NEW y \in RowsOf(c)', Statement(r, y) <= 5 PROVE y \in RowsOf(c)
  <2>1. synced'[c] \in Nat
    BY <1>7, SyncedGrows
  <2>2. CASE y = Row(c)
    BY <2>2, RowIsOne
  <2>3. CASE \E i \in 1 .. synced'[c] : y = <<"skill", c, i>>
    BY <1>5, <1>8, <2>1, <2>3, <1>7, NewRowsLast
  <2>4. CASE \E i \in 1 .. synced'[c] : y = <<"transfer", c, i>>
    BY <1>5, <1>8, <2>1, <2>4, <1>7, NewRowsLast
  <2>5. QED
    BY <1>8, <2>2, <2>3, <2>4 DEF RowsOf, Row, SkillRow, TransferRow
<1>9. CASE x \in wrote[r]
  <2>1. Ordered(r, x) /\ x \in RowsOf(c)
    BY <1>1, <1>5, <1>9, <1>7 DEF InOrder, WritersHoldRow
  <2>2. ASSUME NEW y \in RowsOf(c)', Before(r, y, x), Statement(r, y) <= 5
        PROVE  y \in wrote'[r]
    BY <1>4, <1>8, <1>7, <2>1, <2>2
  <2>3. ASSUME Statement(r, x) > 5, Gone(Row(c))' PROVE FALSE
    <3>1. Row(c) \in wrote[r]
      <4>1. Statement(r, Row(c)) = 5 /\ Statement(r, x) \in 1 .. 7
        BY <1>1, <1>5, <2>1, RowIsOne, Statements
      <4>2. Before(r, Row(c), x)
        BY <2>3, <4>1 DEF Before
      <4>3. QED
        BY <1>7, <2>1, <4>1, <4>2, RowIsOne
    <3>2. PICK q \in Requests : Commit(q) /\ op[q].kind = "delete" /\ op[q].conn = c
      BY <1>1, <1>7, <2>1, <2>3, GoneStep DEF Row
    <3>3. Row(c) \in wrote[q] /\ q # r
      BY <1>5, <1>7, <3>2, DeletionsHoldRow
    <3>4. Gone(Row(c))
      BY <3>1, <3>3 DEF ConnInv, HeldByOne
    <3>5. QED
      BY <1>7, <2>1, <2>3, <3>4
  <2>4. QED
    BY <1>4, <1>6, <1>7, <2>2, <2>3 DEF Row
<1>10. CASE x \notin wrote[r]
  <2>1. PICK z \in Upcoming(r) : wrote' = [wrote EXCEPT ![r] = @ \cup {z}]
    <3>1. Flush(r) => wrote' = wrote
      BY <1>5 DEF Flush
    <3>2. Write(r)
      BY <1>3, <1>10, <3>1
    <3>3. QED
      BY <3>2 DEF Write
  <2>2. z = x
    BY <1>1, <1>10, <2>1
  <2>3. x \in Upcoming(r)
    BY <2>1, <2>2
  <2>4. /\ x \in RowsOf(c) /\ Statement(r, x) \in 1 .. 7
        /\ Statement(r, x) > 5 => ~Gone(Row(c))
        /\ found[r].breaks => Statement(r, x) <= 2
    BY <1>1, <1>5, <2>3, <1>7, Statements DEF Upcoming, Left
  <2>5. ASSUME NEW y \in RowsOf(c), Before(r, y, x), Statement(r, y) <= 5, y \notin wrote[r]
        PROVE  FALSE
    <3>1. Statement(r, y) \in 1 .. 7 /\ Statement(r, y) <= Statement(r, x)
      BY <1>1, <1>5, <2>4, <2>5, <1>7, Statements DEF Before
    <3>2. y \in Left(r)
      BY <1>7, <2>4, <2>5, <3>1 DEF Left
    <3>3. ~Before(r, x, y) /\ y # x
      BY <1>1, <1>5, <2>4, <2>5, <1>7, Trichotomy
    <3>4. QED
      BY <2>3, <3>2, <3>3 DEF Upcoming
  <2>6. ASSUME Gone(Row(c))' PROVE Gone(Row(c))
    <3>1. ASSUME NEW q \in Requests, Commit(q) PROVE FALSE
      <4>1. q # r /\ wrote' = [wrote EXCEPT ![q] = {}]
        BY <1>5, <3>1 DEF Commit
      <4>2. QED
        BY <1>1, <1>2, <1>10, <4>1
    <3>2. QED
      BY <1>1, <2>6, <3>1, GoneStep
  <2>7. QED
    BY <1>1, <1>4, <1>6, <1>8, <1>7, <2>1, <2>2, <2>4, <2>5, <2>6 DEF Row
<1>11. QED
  BY <1>9, <1>10

\* The initial states satisfy the invariant.
LEMMA InitInv == Init => ConnInv
<1> SUFFICES ASSUME Init PROVE ConnInv
  OBVIOUS
<1>1. /\ \A r \in Requests : stage[r] = "new" /\ op[r] = NoOp /\ wrote[r] = {}
      /\ \A c \in Conns : conn[c] = (IF c \in Given THEN Once ELSE Absent)
      /\ \A c \in Conns : synced[c] = (IF c \in Given THEN 1 ELSE 0)
  BY DEF Init, RequestsInit
<1>2. TypeOK
  <2>1. Known(0) \in Finds
    BY KnownType
  <2>2. Once \in Rows /\ Absent \in Rows
    BY DEF Once, Absent, Rows, Present
  <2>3. QED
    BY <2>1, <2>2 DEF Init, RequestsInit, TypeOK, RequestsOK, Stages
<1>3. /\ KeysInTurn /\ CreatesFresh /\ CreatedOnce /\ SeenWasTrue /\ FoundWasThere
      /\ WritersHoldRow /\ HeldByOne /\ InOrder
  BY <1>1 DEF KeysInTurn, InTransaction, CreatesFresh, CreatedOnce, SeenWasTrue, FoundWasThere,
     WritersHoldRow, HeldByOne, InOrder, NoOp
<1>4. GoneIsDeleted
  BY <1>1 DEF GoneIsDeleted, Gone, Once, Absent
<1>5. CountNeverOverstates
  BY <1>1 DEF CountNeverOverstates, Once, Absent
<1>6. QED
  BY <1>2, <1>3, <1>4, <1>5 DEF ConnInv

\* The invariant holds for any number of requests, keys and connections.
THEOREM InvHolds == Spec => []ConnInv
<1>1. ConnInv /\ [Next]_vars => ConnInv'
  BY TypeStep, KeysStep, CreatesStep, CreatedStep, SeenStep, FoundStep, WritersStep, HeldStep,
     OrderStep, DeletedRowStep, CountStep DEF ConnInv
<1>2. QED
  BY <1>1, InitInv, PTL DEF Spec

\* Variables keep their types.
THEOREM TypeCorrect == Spec => []TypeOK
BY InvHolds, PTL DEF ConnInv

\* Requests that carry the same key never overlap (get_auth's row lock).
THEOREM OneAtATime == Spec => []KeysInTurn
BY InvHolds, PTL DEF ConnInv

(***************************************************************************)
(* Who waits for whom.                                                     *)
(***************************************************************************)

\* A request that is waited for has the row of its key or more.
LEMMA WaitedFor ==
  ASSUME ConnInv, NEW r \in Requests, NEW q \in Requests, WaitsFor(r, q)
  PROVE  InTransaction(q)
BY DEF WaitsFor, HoldsRow, InTransaction, ConnInv, WritersHoldRow, Flushing

\* One that has such a row and waits needs a row of its connection.
LEMMA WaitsForRow ==
  ASSUME ConnInv, NEW r \in Requests, NEW q \in Requests, WaitsFor(r, q), InTransaction(r)
  PROVE  /\ op[r].conn \in Conns /\ stage[r] = "read"
         /\ wrote[r] # {} => op[r].kind = "delete"
         /\ \E x \in RowsOf(op[r].conn) : HoldsRow(q, x)
<1>1. PICK x \in Needs(r) : HoldsRow(q, x)
  BY DEF WaitsFor, InTransaction
<1>2. stage[r] = "read" /\ x \in RowsOf(op[r].conn)
  BY <1>1, RowIsOne DEF Needs, Flushing, Upcoming, Left
<1>3. op[r].conn \in Conns
  BY <1>2, Begun DEF ConnInv
<1>4. QED
  BY <1>1, <1>2, <1>3 DEF ConnInv, WritersHoldRow, Flushing

\* Of two deletions that write their connection's rows in the same statements
\* none holds a row behind one that the other holds: it would have had to write
\* that one first.
LEMMA Ahead ==
  ASSUME ConnInv, NEW p \in Requests, NEW q \in Requests, p # q, NEW c \in Conns,
         op[p].kind = "delete", op[p].conn = c, op[q].kind = "delete", op[q].conn = c,
         NEW x, HoldsRow(p, x), NEW y, HoldsRow(q, y),
         \A z \in RowsOf(c) : Statement(p, z) = Statement(q, z)
  PROVE  ~Before(p, y, x)
<1> SUFFICES ASSUME Before(p, y, x) PROVE FALSE
  OBVIOUS
<1>1. /\ TypeOK /\ InOrder /\ HeldByOne
      /\ x \in RowsOf(c) /\ x \in wrote[p] /\ y \in RowsOf(c) /\ y \in wrote[q] /\ ~Gone(y)
  BY DEF ConnInv, WritersHoldRow, HoldsRow
<1>2. /\ Statement(p, x) \in 1 .. 7 /\ Statement(p, y) \in 1 .. 7
      /\ Statement(q, y) = Statement(p, y) /\ Statement(p, y) <= Statement(p, x)
  BY <1>1, Statements DEF Before
<1>3. CASE Statement(p, y) <= 5
  BY <1>1, <1>3 DEF InOrder, HeldByOne
<1>4. CASE Statement(p, y) > 5
  <2>1. Row(c) \in RowsOf(c) /\ Statement(p, Row(c)) = 5 /\ Statement(q, Row(c)) = 5
    BY <1>1, RowIsOne, Statements
  <2>2. Before(p, Row(c), x) /\ Before(q, Row(c), y)
    BY <1>2, <1>4, <2>1 DEF Before
  <2>3. Row(c) \in wrote[p] /\ Row(c) \in wrote[q] /\ ~Gone(Row(c))
    BY <1>1, <1>2, <1>4, <2>1, <2>2 DEF InOrder
  <2>4. QED
    BY <1>1, <2>3 DEF HeldByOne
<1>5. QED
  BY <1>2, <1>3, <1>4

\* So if both hold rows, they write some row in different statements.
LEMMA Rivals ==
  ASSUME ConnInv, NEW p \in Requests, NEW q \in Requests, p # q, NEW c \in Conns,
         op[p].kind = "delete", op[p].conn = c, op[q].kind = "delete", op[q].conn = c,
         NEW x, HoldsRow(p, x), NEW y, HoldsRow(q, y)
  PROVE  \E z \in RowsOf(c) : Statement(p, z) # Statement(q, z)
<1> SUFFICES ASSUME \A z \in RowsOf(c) : Statement(p, z) = Statement(q, z) PROVE FALSE
  OBVIOUS
<1>1. TypeOK /\ x \in RowsOf(c) /\ y \in RowsOf(c)
  BY DEF ConnInv, WritersHoldRow, HoldsRow
<1>2. ~Before(p, y, x)
  BY Ahead
<1>3. ~Before(q, x, y)
  BY Ahead
<1>4. Before(q, x, y) <=> Before(p, x, y)
  BY <1>1 DEF Before
<1>5. x = y
  BY <1>1, <1>2, <1>3, <1>4, Trichotomy
<1>6. QED
  BY <1>5 DEF ConnInv, HeldByOne, HoldsRow

\* The row of the key comes first and only deletions need a lock while they
\* have others, so that a circle consists of deletions of one connection; those
\* that go through its rows in the same statements stand in line.
THEOREM DeadlocksFound == Spec => []DeadlocksExplained
<1>1. ConnInv => DeadlocksExplained
  <2>1. SUFFICES ASSUME ConnInv,
                        NEW S \in SUBSET {r \in Requests : \E q \in Requests : WaitsFor(r, q)},
                        S # {},
                        \A r \in S : \E q \in Requests :
                          WaitsFor(r, q) /\ (q \in S \/ ~InTransaction(q))
                 PROVE  \E p, q \in S :
                          /\ key[p] # key[q] /\ op[p].conn = op[q].conn
                          /\ op[p].kind = "delete" /\ op[q].kind = "delete"
                          /\ \E x \in RowsOf(op[p].conn) : Statement(p, x) # Statement(q, x)
    BY DEF DeadlocksExplained
  <2>2. \A r \in S : r \in Requests /\ \E q \in S : WaitsFor(r, q) /\ InTransaction(q)
    BY <2>1, WaitedFor
  <2>3. PICK r \in S : TRUE
    BY <2>1
  <2>4. PICK n \in S : InTransaction(n)
    BY <2>2, <2>3
  <2>5. PICK p \in S : WaitsFor(n, p) /\ InTransaction(p)
    BY <2>2, <2>4
  <2>6. PICK q \in S : WaitsFor(p, q) /\ InTransaction(q)
    BY <2>2, <2>5
  <2>7. PICK m \in S : WaitsFor(q, m) /\ InTransaction(m)
    BY <2>2, <2>6
  <2>8. PICK x \in RowsOf(op[n].conn) : HoldsRow(p, x)
    BY <2>1, <2>2, <2>4, <2>5, WaitsForRow
  <2>9. PICK y \in RowsOf(op[p].conn) : HoldsRow(q, y)
    BY <2>1, <2>2, <2>5, <2>6, WaitsForRow
  <2>10. /\ op[p].kind = "delete" /\ op[q].kind = "delete"
         /\ op[p].conn \in Conns /\ op[q].conn \in Conns
    <3>1. wrote[p] # {} /\ wrote[q] # {}
      BY <2>8, <2>9 DEF HoldsRow
    <3>2. stage[p] = "read" /\ stage[q] = "read"
      BY <2>1, <2>2, <2>5, <2>6, <2>7, WaitsForRow
    <3>3. QED
      BY <2>1, <2>2, <2>5, <2>6, <2>7, <3>1, <3>2, WaitsForRow
  <2>11. op[p].conn = op[q].conn
    <3>1. y \in RowsOf(op[q].conn)
      BY <2>1, <2>2, <2>9 DEF HoldsRow, ConnInv, WritersHoldRow
    <3>2. y[2] = op[p].conn /\ y[2] = op[q].conn
      BY <2>1, <2>9, <2>10, <3>1, RowCases DEF ConnInv
    <3>3. QED
      BY <3>2
  <2>12. p # q
    BY <2>6 DEF WaitsFor
  <2>13. key[p] # key[q]
    BY <2>1, <2>2, <2>5, <2>6, <2>12 DEF ConnInv, KeysInTurn
  <2>14. \E z \in RowsOf(op[p].conn) : Statement(p, z) # Statement(q, z)
    BY <2>1, <2>2, <2>8, <2>9, <2>10, <2>11, <2>12, Rivals
  <2>15. QED
    BY <2>10, <2>11, <2>13, <2>14
<1>2. QED
  BY <1>1, InvHolds, PTL

\* However updates of transfer_count are lost, it never overstates.
THEOREM NeverOverstated == Spec => []CountNeverOverstates
BY InvHolds, PTL DEF ConnInv

\* A commit leaves a deleted connection as it is.
LEMMA DeletedStep ==
  ASSUME ConnInv, [Next]_vars, NEW c \in Conns, conn[c].status = "deleted"
  PROVE  conn'[c] = conn[c] /\ synced'[c] = synced[c]
<1>1. conn \in [Conns -> Rows] /\ synced \in [Conns -> Nat]
  BY DEF ConnInv, TypeOK
<1>2. ASSUME NEW q \in Requests, Commit(q) PROVE conn'[c] = conn[c] /\ synced'[c] = synced[c]
  <2>1. /\ synced' = IF Persists(op[q]) THEN [synced EXCEPT ![op[q].conn] = @ + 1] ELSE synced
        /\ stage[q] = "written"
    BY <1>2 DEF Commit, Committed
  <2>2. CASE op[q].conn # c
    BY <1>1, <1>2, <2>1, <2>2, CommitFacts
  <2>3. CASE op[q].conn = c
    <3>1. op[q].kind # "create"
      BY <2>1, <2>3 DEF ConnInv, CreatesFresh, Absent
    <3>2. WritesRow(op[q]) => op[q].kind = "delete"
      BY <2>1, <2>3 DEF ConnInv, WritersHoldRow
    <3>3. ~Persists(op[q])
      BY <3>2 DEF WritesRow, Persists
    <3>4. op[q].kind \in {"sync", "delete"}
      BY <1>2, <3>1, <3>2, CommitFacts DEF WritesRow
    <3>5. conn[c] \in Rows
      BY <1>1
    <3>6. Written(q) = conn[c]
      BY <2>3, <3>3, <3>4, <3>5 DEF Written, Rows
    <3>7. QED
      BY <1>1, <1>2, <2>1, <2>3, <3>3, <3>6, CommitFacts
  <2>4. QED
    BY <2>2, <2>3
<1>3. QED
  BY <1>2, OnlyCommits

\* A deleted connection is neither brought back nor synced.
THEOREM NoRevival == Spec => DeletedStays
<1>1. ConnInv /\ [Next]_vars =>
        [\A c \in Conns : conn[c].status = "deleted" =>
           conn'[c] = conn[c] /\ synced'[c] = synced[c]]_vars
  BY DeletedStep
<1>2. QED
  BY <1>1, InvHolds, PTL DEF Spec, DeletedStays

(***************************************************************************)
(* The plan's limit, for any number of keys.                               *)
(***************************************************************************)

\* No step changes the key of a request.
LEMMA KeysFixed ==
  ASSUME TypeOK, [Next]_vars
  PROVE  key' = key /\ KeysUsed' = KeysUsed
<1>1. key' = key
  BY DEF Next, vars, Begin, Authenticated, Reach, Proceed, Read, Refuse, Refused, Prepare,
         Write, Flush, FlushRaises, Commit, Committed, Abort, RolledBack
<1>2. QED
  BY <1>1 DEF KeysUsed

\* Finite sets, of which one is not larger than the other.
PendingBounded ==
  /\ IsFiniteSet(Pending) /\ Cardinality(Pending) \in Nat
  /\ Cardinality(KeysUsed) \in Nat /\ Cardinality(Pending) <= Cardinality(KeysUsed)

\* Requests in hand carry different keys, so there are no more than keys; and
\* no more connections that they decide about.
LEMMA PendingPerKey ==
  ASSUME TypeOK, KeysInTurn
  PROVE  PendingBounded
<1>1. IsFiniteSet(Reviving) /\ IsFiniteSet(KeysUsed)
  <2>1. IsFiniteSet(Reviving)
    BY ConnectionConstants, FS_Subset DEF Reviving
  <2>2. [r \in Requests |-> key[r]] \in Surjection(Requests, KeysUsed)
    BY DEF Surjection, KeysUsed
  <2>3. QED
    BY <2>1, <2>2, ConnectionConstants, FS_Surjection DEF ExistsSurjection
<1>2. Cardinality(Reviving) <= Cardinality(KeysUsed)
  <2>1. \A r \in Reviving : r \in Requests /\ InTransaction(r) /\ key[r] \in KeysUsed
    BY DEF Reviving, InTransaction, KeysUsed
  <2>2. \A q, r \in Reviving : key[q] = key[r] => q = r
    BY <2>1 DEF KeysInTurn
  <2>3. [r \in Reviving |-> key[r]] \in Injection(Reviving, KeysUsed)
    BY <2>1, <2>2 DEF Injection, IsInjective
  <2>4. QED
    BY <1>1, <2>3, FS_Injection DEF ExistsInjection
<1>3. IsFiniteSet(Pending) /\ Cardinality(Pending) <= Cardinality(Reviving)
  <2>1. [r \in Reviving |-> op[r].conn] \in Surjection(Reviving, Pending)
    BY DEF Surjection, Pending
  <2>2. QED
    BY <1>1, <2>1, FS_Surjection DEF ExistsSurjection
<1>4. QED
  BY <1>1, <1>2, <1>3, FS_CardinalityType DEF PendingBounded

\* The same after a step.
LEMMA PendingPerKeyNext == TypeOK' /\ KeysInTurn' => PendingBounded'
<1>1. TypeOK /\ KeysInTurn => PendingBounded
  BY PendingPerKey DEF PendingBounded
<1>2. QED
  BY <1>1, PTL

\* Only the count of a creation adds to the connections that are, or will be,
\* live.
LEMMA PotentialShrinks ==
  ASSUME ConnInv, [Next]_vars,
         \A r \in Requests : Read(r) => op[r].kind # "create"
  PROVE  Potential' \subseteq Potential
<1> USE DEF Potential, Pending, Reviving, Reach
<1>0. /\ op \in [Requests -> Ops \cup {NoOp}] /\ stage \in [Requests -> Stages]
      /\ conn \in [Conns -> Rows]
  BY DEF ConnInv, TypeOK, RequestsOK
<1>1. ASSUME NEW r \in Requests, NEW o \in Ops, Begin(r, o) PROVE Potential' \subseteq Potential
  BY <1>0, <1>1 DEF Begin, Authenticated, Live
<1>2. ASSUME NEW r \in Requests, Read(r) PROVE Potential' \subseteq Potential
  <2>1. op' = op /\ conn' = conn /\ stage' = [stage EXCEPT ![r] = "read"] /\ Admitted(op[r])
        /\ op[r].kind # "create"
    BY <1>2 DEF Read
  <2>2. op[r].kind = "status" => op[r].conn \in Live
    <3>1. op[r].conn \in Conns
      BY <1>2, Begun DEF Read, ConnInv
    <3>2. QED
      BY <2>1, <3>1 DEF Admitted, Live
  <2>3. QED
    BY <1>0, <2>1, <2>2 DEF Live
<1>3. ASSUME NEW r \in Requests, Refuse(r) \/ Flush(r) \/ FlushRaises(r) \/ Abort(r)
      PROVE  Potential' \subseteq Potential
  <2>1. /\ op' = op /\ conn' = conn
        /\ \A q \in Requests : stage'[q] \in {"read", "written"} =>
             stage[q] \in {"read", "written"}
    BY <1>0, <1>3 DEF Refuse, Refused, Flush, FlushRaises, Abort, RolledBack
  <2>2. QED
    BY <2>1 DEF Live
<1>4. ASSUME NEW r \in Requests, Commit(r) PROVE Potential' \subseteq Potential
  <2> DEFINE c == op[r].conn
  <2>1. /\ op' = op /\ stage' = [stage EXCEPT ![r] = "done"] /\ stage[r] = "written"
        /\ conn' = [conn EXCEPT ![c] = Written(r)] /\ c \in Conns
    BY <1>4, CommitFacts DEF Commit, Committed, ConnInv
  <2>2. Written(r).status \in {"active", "paused"} => c \in Potential
    <3>1. op[r].kind \in {"create", "sync", "status", "delete"}
      BY <2>1, Begun DEF ConnInv
    <3>2. conn[c] \in Rows
      BY <1>0, <2>1
    <3>3. CASE op[r].kind \in {"create", "status"}
      BY <2>1, <3>2, <3>3 DEF Written, Rows
    <3>4. CASE op[r].kind = "sync"
      BY <2>1, <3>2, <3>4 DEF Written, Rows, Live
    <3>5. CASE op[r].kind = "delete"
      BY <2>1, <3>2, <3>5 DEF Written, Rows
    <3>6. QED
      BY <3>1, <3>3, <3>4, <3>5
  <2>3. Live' \subseteq Potential
    BY <1>0, <2>1, <2>2 DEF Live
  <2>4. QED
    BY <1>0, <2>1, <2>3
<1>5. CASE op' = op /\ conn' = conn /\ stage' = stage
  BY <1>5 DEF Live
<1>6. QED
  BY <1>1, <1>2, <1>3, <1>4, <1>5 DEF Next, Proceed, vars, Prepare, Write

\* A creation that has counted adds one connection to what the other keys may
\* add.
LEMMA PotentialStep ==
  ASSUME ConnInv, PotentialLimit, [Next]_vars
  PROVE  PotentialLimit'
<1>0. KeysUsed' = KeysUsed /\ TypeOK' /\ KeysInTurn'
  BY KeysFixed, TypeStep, KeysStep DEF ConnInv
<1>1. SUFFICES ASSUME MaxLive > 0
               PROVE  Cardinality(Potential') <= MaxLive + Cardinality(KeysUsed) - 1
  BY <1>0 DEF PotentialLimit
<1>2. /\ IsFiniteSet(Live) /\ IsFiniteSet(Live') /\ IsFiniteSet(Potential)
      /\ Cardinality(KeysUsed) \in Nat /\ Cardinality(Live) \in Nat /\ MaxLive \in Nat
  <2>1. IsFiniteSet(Live) /\ IsFiniteSet(Live') /\ MaxLive \in Nat
    BY ConnectionConstants, FS_Subset DEF Live
  <2>2. QED
    BY <2>1, PendingPerKey, FS_Union, FS_CardinalityType DEF Potential, ConnInv, PendingBounded
<1>3. CASE \E r \in Requests : Read(r) /\ op[r].kind = "create"
  <2>1. Cardinality(Live) < MaxLive /\ Live' = Live
    BY <1>1, <1>3 DEF Read, Admitted, Live
  <2>2. IsFiniteSet(Pending') /\ Cardinality(Pending') \in Nat /\ Cardinality(Pending') <= Cardinality(KeysUsed)
    BY <1>0, PendingPerKeyNext DEF PendingBounded
  <2>3. Potential' = Live' \cup Pending'
    BY DEF Potential
  <2>4. Cardinality(Live' \cup Pending') <= Cardinality(Live') + Cardinality(Pending')
    <3>1. Cardinality(Live' \cup Pending') =
            Cardinality(Live') + Cardinality(Pending') - Cardinality(Live' \cap Pending')
      BY <1>2, <2>2, FS_Union
    <3>2. Cardinality(Live' \cap Pending') \in Nat /\ Cardinality(Live') \in Nat
      BY <1>2, FS_Subset, FS_CardinalityType
    <3>3. QED
      BY <2>2, <3>1, <3>2
  <2>5. Cardinality(Live' \cup Pending') \in Nat
    BY <1>2, <2>2, FS_Union, FS_CardinalityType
  <2>6. QED
    BY <1>2, <2>1, <2>2, <2>3, <2>4, <2>5
<1>4. CASE \A r \in Requests : Read(r) => op[r].kind # "create"
  <2>1. Potential' \subseteq Potential
    BY <1>4, PotentialShrinks
  <2>2. /\ Cardinality(Potential') <= Cardinality(Potential)
        /\ Cardinality(Potential') \in Nat /\ Cardinality(Potential) \in Nat
    BY <1>2, <2>1, FS_Subset, FS_CardinalityType
  <2>3. Cardinality(Potential) <= MaxLive + Cardinality(KeysUsed) - 1
    BY <1>1 DEF PotentialLimit
  <2>4. QED
    BY <1>2, <2>2, <2>3
<1>5. QED
  BY <1>3, <1>4

\* The limit is passed by no more than the further keys in use.
THEOREM LimitKept == Spec => []PlanLimit
<1>1. Init => PotentialLimit
  <2>1. ASSUME Init PROVE Potential \subseteq Given
    BY <2>1 DEF Init, RequestsInit, Potential, Pending, Reviving, Live, Absent
  <2>2. ASSUME Init, MaxLive > 0 PROVE Cardinality(Potential) <= MaxLive + Cardinality(KeysUsed) - 1
    <3>1. IsFiniteSet(KeysUsed) /\ Cardinality(KeysUsed) \in Nat
      <4>1. IsFiniteSet(KeysUsed)
        <5>1. [r \in Requests |-> key[r]] \in Surjection(Requests, KeysUsed)
          BY DEF Surjection, KeysUsed
        <5>2. QED
          BY <5>1, ConnectionConstants, FS_Surjection DEF ExistsSurjection
      <4>2. QED
        BY <4>1, FS_CardinalityType
    <3>2. Cardinality(KeysUsed) # 0
      <4>1. KeysUsed # {}
        BY ConnectionConstants DEF KeysUsed
      <4>2. QED
        BY <3>1, <4>1, FS_EmptySet
    <3>3. IsFiniteSet(Given) /\ Cardinality(Given) <= MaxLive /\ Cardinality(Given) \in Nat
      <4>1. IsFiniteSet(Given)
        BY ConnectionConstants, FS_Subset
      <4>2. QED
        BY <2>2, <4>1, ConnectionConstants, FS_CardinalityType
    <3>4. Cardinality(Potential) <= Cardinality(Given) /\ Cardinality(Potential) \in Nat
      BY <2>1, <2>2, <3>3, FS_Subset, FS_CardinalityType
    <3>5. QED
      BY <3>1, <3>2, <3>3, <3>4, ConnectionConstants
  <2>3. QED
    BY <2>2 DEF PotentialLimit
<1>2. ConnInv /\ PotentialLimit /\ [Next]_vars => PotentialLimit'
  BY PotentialStep
<1>3. ConnInv /\ PotentialLimit => PlanLimit
  <2>1. SUFFICES ASSUME ConnInv, PotentialLimit, MaxLive > 0
                 PROVE  Cardinality(Live) <= MaxLive + Cardinality(KeysUsed) - 1
    BY DEF PlanLimit
  <2>2. IsFiniteSet(Live)
    BY ConnectionConstants, FS_Subset DEF Live
  <2>3. IsFiniteSet(Potential) /\ Live \subseteq Potential /\ Cardinality(KeysUsed) \in Nat
    BY <2>1, <2>2, PendingPerKey, FS_Union DEF Potential, ConnInv, PendingBounded
  <2>4. /\ Cardinality(Live) <= Cardinality(Potential)
        /\ Cardinality(Live) \in Nat /\ Cardinality(Potential) \in Nat
    BY <2>2, <2>3, FS_Subset, FS_CardinalityType
  <2>5. Cardinality(Potential) <= MaxLive + Cardinality(KeysUsed) - 1
    BY <2>1 DEF PotentialLimit
  <2>6. QED
    BY <2>3, <2>4, <2>5, ConnectionConstants
<1>4. QED
  BY <1>1, <1>2, <1>3, InvHolds, PTL DEF Spec

(***************************************************************************)
(* A single key: requests run one after the other.                         *)
(***************************************************************************)

\* With one key there is one transaction at a time.
LEMMA Alone ==
  ASSUME SameKey, ConnInv, NEW q \in Requests, NEW r \in Requests,
         InTransaction(q), InTransaction(r)
  PROVE  q = r
BY DEF SameKey, ConnInv, TypeOK, RequestsOK, KeysInTurn

\* What a request has seen, and its checks on it, still hold when it commits.
LEMMA CurrentStep ==
  ASSUME SameKey, ConnInv, SeenIsCurrent, [Next]_vars
  PROVE  SeenIsCurrent'
<1> USE DEF SeenIsCurrent, Reach
<1>0. /\ op \in [Requests -> Ops \cup {NoOp}] /\ stage \in [Requests -> Stages]
      /\ seen \in [Requests -> Rows]
  BY DEF ConnInv, TypeOK, RequestsOK
<1>1. \A o : conn' = conn => Admitted(o)' = Admitted(o)
  BY DEF Admitted, Live
<1>2. ASSUME NEW q \in Requests, Commit(q) PROVE SeenIsCurrent'
  <2>1. stage' = [stage EXCEPT ![q] = "done"] /\ InTransaction(q)
    BY <1>2 DEF Commit, Committed, InTransaction
  <2>2. ASSUME NEW r \in Requests, stage'[r] \in {"read", "written"} PROVE FALSE
    <3>1. r # q /\ InTransaction(r)
      BY <1>0, <2>1, <2>2 DEF InTransaction
    <3>2. QED
      BY <2>1, <3>1, Alone
  <2>3. QED
    BY <2>2
<1>3. ASSUME NEW r \in Requests, NEW o \in Ops, Begin(r, o) PROVE SeenIsCurrent'
  <2>1. /\ stage' = [stage EXCEPT ![r] = "open"] /\ op' = [op EXCEPT ![r] = o]
        /\ conn' = conn /\ seen' = seen
    BY <1>3 DEF Begin, Authenticated
  <2>2. \A q \in Requests : stage'[q] \in {"read", "written"} =>
          stage[q] = stage'[q] /\ op'[q] = op[q]
    BY <1>0, <2>1
  <2>3. QED
    BY <1>1, <2>1, <2>2
<1>4. ASSUME NEW r \in Requests, Read(r) PROVE SeenIsCurrent'
  <2>1. /\ stage' = [stage EXCEPT ![r] = "read"] /\ op' = op /\ conn' = conn
        /\ seen' = [seen EXCEPT ![r] = conn[op[r].conn]] /\ Admitted(op[r])
    BY <1>4 DEF Read
  <2>2. QED
    BY <1>0, <1>1, <2>1
<1>5. ASSUME NEW r \in Requests, Refuse(r) \/ Flush(r) \/ FlushRaises(r) \/ Abort(r)
      PROVE  SeenIsCurrent'
  <2>1. /\ op' = op /\ conn' = conn /\ seen' = seen
        /\ \A q \in Requests : stage'[q] \in {"read", "written"} =>
             stage[q] \in {"read", "written"}
    BY <1>0, <1>5 DEF Refuse, Refused, Flush, FlushRaises, Abort, RolledBack
  <2>2. QED
    BY <1>1, <2>1
<1>6. CASE op' = op /\ conn' = conn /\ seen' = seen /\ stage' = stage
  BY <1>1, <1>6
<1>7. QED
  BY <1>2, <1>3, <1>4, <1>5, <1>6 DEF Next, Proceed, vars, Prepare, Write

\* What a commit does to a row that is as the request has seen it.
LEMMA SerialCommit ==
  ASSUME ConnInv, SeenIsCurrent, NEW q \in Requests, Commit(q),
         NEW c, c = op[q].conn
  PROVE  /\ c \in Conns /\ conn[c] \in Rows /\ Admitted(op[q])
         /\ conn' = [conn EXCEPT ![c] = Written(q)]
         /\ op[q].kind = "create" => conn[c] = Absent /\ Written(q) = New
         /\ op[q].kind = "sync" /\ Persists(op[q]) =>
              Written(q) = [conn[c] EXCEPT !.count = conn[c].count + 1]
         /\ op[q].kind = "sync" /\ ~Persists(op[q]) => Written(q) = conn[c]
         /\ op[q].kind = "status" => Written(q) = [conn[c] EXCEPT !.status = op[q].to]
         /\ op[q].kind = "delete" => Written(q) = [conn[c] EXCEPT !.status = "deleted"]
         /\ op[q].kind \in {"create", "sync", "status", "delete"}
<1>1. stage[q] = "written"
  BY DEF Commit, Committed
<1>2. seen[q] = conn[c] /\ Admitted(op[q])
  BY <1>1 DEF SeenIsCurrent
<1>3. c \in Conns /\ conn[c] \in Rows
  BY CommitFacts DEF ConnInv, TypeOK
<1>4. op[q].kind = "create" => conn[c] = Absent
  BY <1>1 DEF ConnInv, CreatesFresh
<1>5. QED
  BY <1>2, <1>3, <1>4, CommitFacts DEF Written

\* Every sync is counted.
LEMMA ExactStep ==
  ASSUME SameKey, ConnInv, SeenIsCurrent, CountExact, [Next]_vars
  PROVE  CountExact'
<1> USE DEF CountExact
<1>1. ASSUME NEW q \in Requests, Commit(q) PROVE CountExact'
  <2> DEFINE c == op[q].conn
  <2>1. conn \in [Conns -> Rows] /\ synced \in [Conns -> Nat] /\ c \in Conns
    BY <1>1, CommitFacts DEF ConnInv, TypeOK
  <2>2. synced' = IF Persists(op[q]) THEN [synced EXCEPT ![c] = @ + 1] ELSE synced
    BY <1>1 DEF Commit
  <2>3. Persists(op[q]) => op[q].kind = "sync"
    BY DEF Persists
  <2>4. Written(q).count = IF Persists(op[q]) THEN conn[c].count + 1 ELSE conn[c].count
    BY <1>1, <2>1, <2>3, SerialCommit DEF Absent, New, Rows
  <2>5. QED
    BY <1>1, <2>1, <2>2, <2>4, SerialCommit
<1>2. QED
  BY <1>1, OnlyCommits

\* With a single key, what requests have seen stays true, so that the counters
\* are exact.
THEOREM SerialInvHolds == Spec => []SerialInv
<1>1. Init => SerialInv
  BY DEF Init, RequestsInit, SeenIsCurrent, CountExact, Absent, Once, SerialInv
<1>2. ConnInv /\ SerialInv /\ [Next]_vars => SerialInv'
  <2>1. ConnInv /\ [Next]_vars => (SameKey' => SameKey)
    BY KeysFixed DEF SameKey, ConnInv
  <2>2. QED
    BY <2>1, CurrentStep, ExactStep DEF SerialInv
<1>3. QED
  BY <1>1, <1>2, InvHolds, PTL DEF Spec

\* With a single key transfer_count is exact.
THEOREM CountsExact == Spec => []CountExact
<1>1. SerialInv => CountExact
  BY DEF SerialInv, CountExact
<1>2. QED
  BY <1>1, SerialInvHolds, PTL

\* A step of the detailed specification is one request acting on the table as
\* it is, or no change.
LEMMA AtomicStep ==
  ASSUME ConnInv, SeenIsCurrent, [Next]_vars
  PROVE  [Atomic!Next]_conn
<1> USE DEF Atomic!Next, Atomic!Live, Atomic!Below, Atomic!New, Atomic!Absent
<1>1. ASSUME NEW q \in Requests, Commit(q) PROVE Atomic!Next \/ conn' = conn
  <2> DEFINE c == op[q].conn
  <2>1. conn \in [Conns -> Rows] /\ c \in Conns /\ conn[c] \in Rows
    BY <1>1, SerialCommit DEF ConnInv, TypeOK
  <2>2. conn' = [conn EXCEPT ![c] = Written(q)]
    BY <1>1, SerialCommit
  <2>3. CASE op[q].kind = "create"
    <3>1. conn[c] = Absent /\ Written(q) = New
      BY <1>1, <2>3, SerialCommit
    <3>2. MaxLive > 0 => Cardinality(Live) < MaxLive
      BY <1>1, <2>3, SerialCommit DEF Admitted
    <3>3. Atomic!Create(c)
      <4>1. Atomic!Live = Live
        BY DEF Live
      <4>2. Atomic!Below
        BY <3>2, <4>1 DEF Cardinality, Atomic!Cardinality
      <4>3. conn[c].status = "absent" /\ conn' = [conn EXCEPT ![c] = Atomic!New]
        BY <2>2, <3>1 DEF Absent, New
      <4>4. QED
        BY <4>2, <4>3 DEF Atomic!Create
    <3>4. QED
      BY <2>1, <3>3
  <2>4. CASE op[q].kind = "sync" /\ Persists(op[q])
    <3>1. Written(q) = [conn[c] EXCEPT !.count = conn[c].count + 1] /\ conn[c].status = "active"
      BY <1>1, <2>4, SerialCommit DEF Admitted
    <3>2. Atomic!Sync(c)
      BY <2>1, <2>2, <3>1 DEF Atomic!Sync
    <3>3. QED
      BY <2>1, <3>2
  <2>5. CASE op[q].kind = "sync" /\ ~Persists(op[q])
    <3>1. Written(q) = conn[c]
      BY <1>1, <2>5, SerialCommit
    <3>2. QED
      BY <2>1, <2>2, <3>1
  <2>6. CASE op[q].kind = "status"
    <3>1. /\ Written(q) = [conn[c] EXCEPT !.status = op[q].to]
          /\ conn[c].status \in {"active", "paused"} \ {op[q].to}
      BY <1>1, <2>6, SerialCommit DEF Admitted
    <3>2. op[q].to \in {"active", "paused", "archived"}
      BY <1>1, <2>6, CommitFacts, OpFacts DEF Present
    <3>3. Atomic!SetStatus(c, op[q].to)
      BY <2>1, <2>2, <3>1 DEF Atomic!SetStatus
    <3>4. QED
      BY <2>1, <3>2, <3>3
  <2>7. CASE op[q].kind = "delete"
    <3>1. /\ Written(q) = [conn[c] EXCEPT !.status = "deleted"]
          /\ conn[c].status \in Present
      BY <1>1, <2>7, SerialCommit DEF Admitted
    <3>2. Written(q) = [status |-> "deleted", count |-> conn[c].count]
      BY <2>1, <3>1 DEF Rows
    <3>3. Atomic!Delete(c)
      BY <2>1, <2>2, <3>1, <3>2 DEF Atomic!Delete, Present
    <3>4. QED
      BY <2>1, <3>3
  <2>8. QED
    BY <1>1, <2>3, <2>4, <2>5, <2>6, <2>7, SerialCommit
<1>2. QED
  BY <1>1, OnlyCommits

\* With a single key, interleaved handlers implement requests that act on the
\* table in one step each.
THEOREM Serialisable == Spec => ActsAtomically
<1>1. Init => Atomic!Init
  BY DEF Init, Atomic!Init, Absent, Once, Atomic!Absent, Atomic!New
<1>2. ConnInv /\ SerialInv /\ [Next]_vars => [SameKey => Atomic!Next]_conn
  BY AtomicStep DEF SerialInv
<1>3. QED
  BY <1>1, <1>2, InvHolds, SerialInvHolds, PTL DEF Spec, ActsAtomically
=============================================================================
