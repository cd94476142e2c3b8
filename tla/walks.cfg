SPECIFICATION Spec
CONSTANTS
  PageSize = 8
  LineSizes = {1, 2, 4}
  MaxLen = 24
  TlbPages = {1, 2, 3, 5, 8, 9}
  PageOrders <- AllOrders
INVARIANTS
  WalksThroughAll
  OnePagePerLoad
CHECK_DEADLOCK FALSE
