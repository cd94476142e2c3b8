SPECIFICATION Spec
CONSTANTS
  Kinds = {"lat_tcp"}
  Clients = {"c1"}
  Stoppers = {}
  Iterations = 2
  Sizes = {2}
  Room = 2
  Retries = 1
  Faults = {}
  MaxFaults = 0
INVARIANTS
  BackAndForth
CHECK_DEADLOCK FALSE
