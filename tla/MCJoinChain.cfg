SPECIFICATION FairSpec
CONSTANTS
  a = a
  b = b
  c = c
  h = h
  g = g
  Nodes = {a, b}
  Hubs = {h}
  Near <- Line
  Late = {b}
  Joined = FALSE
  MaxFaults = 3
INVARIANTS
  JoinedWhole
PROPERTIES
  EveryoneJoins
  FloodsEnd
