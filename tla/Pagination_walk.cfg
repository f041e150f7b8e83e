SPECIFICATION Spec
CONSTANTS
  Ids = {1, 2, 3, 4, 5}
  PageSize = 2
  MaxTime = 2
INVARIANTS
  RepeatsExplained
  SkipsExplained
PROPERTIES
  WalkEnds
CHECK_DEADLOCK FALSE
