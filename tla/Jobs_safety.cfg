SPECIFICATION Spec
CONSTANTS
  NoJob = NoJob
  Jobs = {x1, b1}
  Batches = {b1}
  Hooked = {x1, b1}
  Orphaned = {x1}
  Workers = {w1, w2}
  Stoppable = {w1, w2}
  Aging = {x1}
  Steps = 1
  MaxFaults = 2
SYMMETRY WorkerSymmetry
VIEW View
INVARIANTS
  JobInv
  RunsOncePerPush
  CompleteIsBacked
PROPERTIES
  DroppedByFault
  FinalStays
