SPECIFICATION Spec
CONSTANTS
  s = s
  a = a
  b = b
  d = d
  NONE = NONE
  Nodes = {s, a, b, d}
  Lqi <- Flat
  NonRouting = {}
  Wanted <- OneWay
  TableSize = 1
  MaxFaults = 0
INVARIANTS
  FindsBest
  RoutesBackEnd
CHECK_DEADLOCK FALSE
