SPECIFICATION Spec
CONSTANTS
  RingSize = 2
  MaxRetries = 1
  Inbound <- NoMessages
  Sensed = {"temperature", "light"}
  Pans = {home}
  Home = home
  LSisRemote = FALSE
  TryCap = 3
INVARIANTS
  AttemptsBounded
