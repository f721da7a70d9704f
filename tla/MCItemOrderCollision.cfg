CONSTANTS
  Items = {1, 2, 3}
  Clocks = {40}
  Coarse = 40
  Ulp = 2
  Step = 8
  Epsilon = 1
  None = 0
  Orders <- OrderRange
SPECIFICATION Spec
CHECK_DEADLOCK FALSE
PROPERTIES LandsBetween
