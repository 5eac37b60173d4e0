SPECIFICATION FairSpec
CONSTANTS
  a = a
  b = b
  c = c
  h = h
  g = g
  Nodes = {a, b}
  Hubs = {h, g}
  Near <- Two
  Late = {a, b}
  Joined = FALSE
  MaxFaults = 3
PROPERTY FloodsEnd
