SPECIFICATION FairSpec
CONSTANTS
  Parallel = 1
  Repetitions = 2
  Chunks = 2
  PipeCap = 1
  Handlers <- FirstCall
  HasCleanup = TRUE
  Faults <- AnyFault
  MaxFaults = 2
PROPERTIES
  Returns
  OrphansEnd
CHECK_DEADLOCK FALSE
