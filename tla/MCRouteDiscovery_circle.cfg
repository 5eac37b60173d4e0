SPECIFICATION Spec
CONSTANTS
  s = s
  a = a
  b = b
  d = d
  NONE = NONE
  Nodes = {s, b, d}
  Lqi <- Triangle
  NonRouting = {}
  Wanted <- Meeting
  TableSize = 2
  MaxFaults = 1
INVARIANT
  RoutesEndForAll
CHECK_DEADLOCK FALSE
