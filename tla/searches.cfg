SPECIFICATION Spec
CONSTANTS
  Start = 4
  MaxPages = 24
  Mega = 64
  Default = 1024
  Arguments <- SomeArguments
  Available <- SomeAvailable
  MaxSamples = 7
  Latencies = {0, 3, 4, 6}
INVARIANTS
  BoundaryFound
  LargestFound
  ReportedIsTouched
  RatiosAgree
CHECK_DEADLOCK FALSE
