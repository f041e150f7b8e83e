SPECIFICATION Spec
CONSTANTS
  Events = {e1, e2}
  Workers = {w1}
  MaxAttempts = 2
  BatchSize = 2
  MaxFaults = 0
  Cap = 2
PROPERTIES
  EventuallySettled
CHECK_DEADLOCK FALSE
