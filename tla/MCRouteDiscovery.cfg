SPECIFICATION FairSpec
CONSTANTS
  s = s
  a = a
  b = b
  d = d
  NONE = NONE
  Nodes = {s, a, b, d}
  Lqi <- Paw
  NonRouting = {}
  Wanted <- Crossing
  TableSize = 1
  MaxFaults = 1
INVARIANTS
  RoutesEnd
  FindsBest
PROPERTIES
  FramesLeave
CHECK_DEADLOCK FALSE
