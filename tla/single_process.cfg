SPECIFICATION SingleSpec
CONSTANTS
  Names <- AllNames
  CommandLines <- AnyCommandLine
  Enough = 100
  Clear = 3
  Limit = 512
  FewLimit = 32
  Scale = 8
  Benchmarks <- ManyBenchmarks
  Repetitions = 2
  Overhead = 1
  Costs <- ManyCosts
INVARIANTS
  ParsedAsMeant
  KeptAsExecuted
  GetNWithinTwo
PROPERTIES
  OneScalingIsEnough
  Settles
  Ends
CHECK_DEADLOCK FALSE
