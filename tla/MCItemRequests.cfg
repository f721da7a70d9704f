CONSTANTS
  Items = {1, 2, 3}
  Clocks = {40}
  Coarse = 40
  Ulp = 2
  Step = 8
  Epsilon = 1
  None = 0
  Orders <- OrderRange
  Requests = {q1, q2}
  Watched <- WatchedOrders
SPECIFICATION RequestsSpec
SYMMETRY Symmetry
CHECK_DEADLOCK FALSE
INVARIANTS RequestsTypeOK MovesReachTheirGoal HalfRenumberedInOrder
PROPERTIES OthersKeepOrder WithinNeighbours EndsAreReached NewItemsLast
