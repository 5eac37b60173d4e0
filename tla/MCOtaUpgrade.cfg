SPECIFICATION FairSpec
CONSTANTS
  Sizes = {2}
  SizeSpan = 5
  MaxRetries = 3
  MaxSessions = 2
  MaxAir = 2
INVARIANTS
  TypeOK
  RequestsMatch
  TimersMatch
  BlocksInOrder
  CompletedMeansComplete
PROPERTIES
  OnlyStartsCollide
  SessionsEnd
CHECK_DEADLOCK FALSE
