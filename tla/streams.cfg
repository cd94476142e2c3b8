SPECIFICATION Spec
CONSTANTS
  Kinds = {"lat_tcp", "bw_tcp", "lat_connect", "lat_unix_connect"}
  Clients = {"c1", "c2"}
  Stoppers = {"s1"}
  Iterations = 2
  Sizes = {0, 2}
  Room = 2
  Retries = 1
  Faults = {"die", "fork", "expire", "connect", "crash"}
  MaxFaults = 1
INVARIANTS
  InStepUntilShort
  NeverBothWait
  HollowOnlyUnserved
  OnlyToldToEnd
CHECK_DEADLOCK FALSE
