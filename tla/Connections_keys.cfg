SPECIFICATION Spec
CONSTANTS
  Requests = {r1, r2, r3}
  Keys = {k1, k2}
  Conns = {c1, c2, c3}
  MaxLive = 1
  Given = {c1}
  Falling = {"skill"}
SYMMETRY Symmetry
INVARIANTS
  ConnInv
  DeadlocksExplained
  PlanLimit
  CountExact
PROPERTIES
  DeletedStays
  ActsAtomically
CHECK_DEADLOCK FALSE
