SPECIFICATION Spec
CONSTANTS
  Events = {e1, e2}
  Workers = {w1, w2}
  MaxAttempts = 2
  BatchSize = 2
  MaxFaults = 2
  Cap = 4
INVARIANTS
  OutboxInv
  ResendsExplained
PROPERTIES
  
  KeepsContract
CHECK_DEADLOCK FALSE
