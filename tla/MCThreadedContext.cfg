SPECIFICATION Spec
CONSTANTS
  MaxBatches = 3
  CallsPerBatch = 3
  Clients = {{"buffers"}, {"queries", "fences"}}
  Queries = {q1}
  Cells = {1, 2}
  Boxes = {{1}, {1, 2}}
  MaxFences = 2
  MaxWrites = 2
  MaxStorages = 1
  MaxCalls = 4
  NoBatch = NoBatch
INVARIANTS BuffersInProgramOrder DirectCallsAlone TokenOfCurrentBatch
PROPERTIES FencesBecomeReady
CHECK_DEADLOCK FALSE
