SPECIFICATION FairSpec
CONSTANTS
  Programs <- AllPrograms
  Procs = 3
  Room = 2
  Faults = {"fork", "helper", "term", "killed", "parent"}
  MaxFaults = 1
INVARIANTS
  OneToken
  NeverKillsAll
PROPERTIES
  EveryIterationIsATrip
  BenchmarkEnds
  HelpersEnd
CHECK_DEADLOCK FALSE
