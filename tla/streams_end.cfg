SPECIFICATION FairSpec
CONSTANTS
  Kinds = {"lat_tcp", "bw_tcp", "lat_connect", "lat_unix_connect"}
  Clients = {"c1", "c2"}
  Stoppers = {"s1"}
  Iterations = 2
  Sizes = {0, 2}
  Room = 1
  Retries = 1
  Faults = {"die", "fork", "expire", "crash"}
  MaxFaults = 1
PROPERTIES
  ClientsEnd
  ToldToEnd
CHECK_DEADLOCK FALSE
