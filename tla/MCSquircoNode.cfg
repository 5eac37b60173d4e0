SPECIFICATION MCSpec
CONSTANTS
  RingSize = 2
  MaxRetries = 1
  Inbound <- AllTraffic
  Sensed = {"temperature", "light"}
  Pans = {home, other}
  Home = home
  LSisRemote = FALSE
  TryCap = 1
INVARIANTS
  ConfirmFitsMessage
PROPERTIES
  RequestNotReused
  FollowsOnePan
