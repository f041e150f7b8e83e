SPECIFICATION Spec
CONSTANTS
  NoJob = NoJob
  Jobs = {x1}
  Batches = {}
  Hooked = {}
  Orphaned = {x1}
  Workers = {w1}
  Stoppable = {}
  Aging = {x1}
  Steps = 1
  MaxFaults = 0
PROPERTIES
  AcceptedEnds
