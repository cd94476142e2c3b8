SPECIFICATION ChildSpec
CONSTANTS
  Programs <- AllPrograms
  MaxN = 3
  Faults = {"acquire", "term", "parent"}
  MaxFaults = 2
INVARIANTS
  NoGrowth
  FilesRemoved
  HoldsWhatItUses
CHECK_DEADLOCK FALSE
