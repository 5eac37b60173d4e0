SPECIFICATION FairSpec
CONSTANTS
  a = a
  b = b
  c = c
  h = h
  g = g
  Nodes = {a, b}
  Hubs = {h}
  Near <- Line
  Late = {}
  Joined = TRUE
  MaxFaults = 3
INVARIANT JoinedWhole
