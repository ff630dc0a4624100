SPECIFICATION Spec
CONSTANTS
  Workers = {w1}
  Clients = {c1, c2}
  Jobs = {j1, j2, j3}
  Cleanup = {j1}
  MaxJobs = 2
  ResizeIfFull = TRUE
  Calls = {"add", "drop", "finish"}
  MaxOps = 2
  NoJob = NoJob
PROPERTY ImplementsPool
CHECK_DEADLOCK FALSE
