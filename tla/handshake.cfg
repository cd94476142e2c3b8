SPECIFICATION Spec
CONSTANTS
  Parallel = 3
  Repetitions = 2
  Chunks = 2
  PipeCap = 2
  Handlers <- AnyCall
  HasCleanup = TRUE
  Faults <- AnyFault
  MaxFaults = 2
INVARIANTS
  LoadDuringTiming
  AllStoppedBeforeReport
  ResultsUnmixed
  TimedIsComplete
  StartNeverBlocks
  ManagedChildrenLive
  NoneLeft
PROPERTY ImplementsSession
CHECK_DEADLOCK FALSE
