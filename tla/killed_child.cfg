SPECIFICATION FairSpec
CONSTANTS
  Parallel = 2
  Repetitions = 1
  Chunks = 1
  PipeCap = 2
  Handlers <- FirstCall
  HasCleanup = TRUE
  Faults <- OnlyChild
  MaxFaults = 1
PROPERTY KilledChildEnds
CHECK_DEADLOCK FALSE
