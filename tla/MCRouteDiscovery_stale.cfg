SPECIFICATION Spec
CONSTANTS
  s = s
  a = a
  b = b
  d = d
  NONE = NONE
  Nodes = {s, b, d}
  Lqi <- Triangle
  NonRouting = {}
  Wanted <- TwoWays
  TableSize = 2
  MaxFaults = 1
PROPERTIES
  GivenUpLast
CHECK_DEADLOCK FALSE
