SPECIFICATION Spec
CONSTANTS
  Parallel = 2
  Repetitions = 4
  Times <- SomeTimes
  Counts <- SomeCounts
INVARIANTS
  Sorted
  Fits
  NothingLost
  MedianIsMiddle
CHECK_DEADLOCK FALSE
