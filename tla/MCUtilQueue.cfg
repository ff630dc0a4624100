SPECIFICATION FairSpec
CONSTANTS
  Workers = {w1, w2}
  Clients = {c1, c2}
  Jobs = {j1, j2}
  Cleanup = {j1}
  MaxJobs = 2
  ResizeIfFull = FALSE
  Calls = {"add", "drop", "finish"}
  MaxOps = 2
  NoJob = NoJob
INVARIANT RingShape
INVARIANT FenceMeansDone
INVARIANT NoFenceLost
INVARIANT FinishWaitsForAll
PROPERTY ImplementsPool
PROPERTY EveryFenceSignalled
PROPERTY EveryCallReturns
CHECK_DEADLOCK FALSE
