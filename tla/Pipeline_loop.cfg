SPECIFICATION PipelineSpec
CONSTANTS
  NoJob = NoJob
  Jobs = {x1, b1}
  Batches = {b1}
  Hooked = {x1, b1}
  Orphaned = {x1}
  Workers = {w1}
  Stoppable = {}
  Aging = {}
  Steps = 1
  MaxFaults = 1
  FlushEvery = 2
  Malformed = {b1}
  MaxAttempts = 2
  BatchSize = 2
  Cap = 2
INVARIANTS
  HeardIsDone
PROPERTIES
  JobsDrain
  
  LoopKeepsContract
