SPECIFICATION MCSpec
CONSTANTS
  Size = 2
  Node = {a, b, c}
  NonRouting = {c}
  UNKNOWN = UNKNOWN
  DefaultScore = 3
  DefaultRank = 3
  MaxRank = 5
  MaxLqi = 1
  Entries = 2
  Sources = {x, y, z}
  SeqSize = 6
  Window = 2
  Ttl = 2
  MaxLag = 1
  MaxGap = 4
SYMMETRY SourceSymmetry
INVARIANTS
  RanksOrdered
  FailuresCounted
  AcceptedOnce
  FreshAccepted
  Expiring
PROPERTY
  ImplementsMap
