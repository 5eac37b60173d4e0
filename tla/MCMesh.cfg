SPECIFICATION FairSpec
CONSTANTS
  s = s
  a = a
  b = b
  d = d
  Node = {s, a, b, d}
  Source = s
  Sink = d
  ALL = ALL
  DefaultScore = 2
  MaxSeq = 2
  MaxFaults = 3
  Topologies <- Changing
INVARIANTS
  DeliveredOnce
PROPERTIES
  Delivered
  Acknowledged
