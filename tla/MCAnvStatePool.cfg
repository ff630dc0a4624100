SPECIFICATION Spec
CONSTANTS
  Threads = {t1, t2}
  Sizes = {2, 4}
  InitialSize = 4
  PageSize = 2
  Word = 256
  MaxFails = 1
  NoThread = NoThread
  NoBlock = NoBlock
  NumBuckets = 3
  BlockSize = 2
  CountRange = 32
  MaxOps = 5
  Memory = 12
  Requests = {0, 2, 3}
  EMPTY = EMPTY
  Garbage = Garbage
INVARIANTS OneGrower MapCoversBlocks OneHomeForEveryByte
PROPERTIES ImplementsBumpAllocator CallsReturn
CHECK_DEADLOCK FALSE
