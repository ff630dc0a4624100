SPECIFICATION FairSpec
CONSTANTS
  MaxBatches = 4
  MaxCmdSize = 4
  Align = 2
  Sizes = {1, 3}
  MaxCmds = 7
  NoBatch = NoBatch
INVARIANTS CommandsInOrder FillingBatchIsFree FinishMeansIdle CommandsFit
PROPERTIES BatchesComplete CallsReturn
CHECK_DEADLOCK FALSE
