SPECIFICATION FairSpec
CONSTANTS
  Workers = {w1, w2}
  Clients = {c1, c2}
  Jobs = {j1, j2}
  Cleanup = {j1}
  MaxJobs = 4
  ResizeIfFull = FALSE
  Calls = {"add", "drop", "kill"}
  MaxOps = 3
  NoJob = NoJob
PROPERTY EveryFenceSignalled
PROPERTY ShutdownCompletes
CHECK_DEADLOCK FALSE
