SPECIFICATION FairSpec
CONSTANTS
  s = s
  a = a
  b = b
  d = d
  Node = {s, a, b, d}
  Source = s
  Sink = d
  ALL = ALL
  DefaultScore = 2
  MaxSeq = 2
  MaxFaults = 0
  Topologies <- Humped
PROPERTY
  AcknowledgedAlways
