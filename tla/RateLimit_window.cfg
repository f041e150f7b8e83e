SPECIFICATION Spec
CONSTANTS
  Calls = {a1, a2, a3, a4}
  Limit = 2
  Minute = 2
  LastTick = 5
  MaxFaults = 2
SYMMETRY Symmetry
INVARIANTS
  WithinLimit
  RefusedOverLimit
PROPERTIES
  AnsweredCountersExpire
CHECK_DEADLOCK FALSE
