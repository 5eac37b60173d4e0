SPECIFICATION Spec
CONSTANTS
  RingSize = 2
  MaxRetries = 1
  Inbound <- JoinTraffic
  Sensed = {"temperature", "light"}
  Pans = {home}
  Home = home
  LSisRemote = FALSE
  TryCap = 1
PROPERTIES
  JoinPingSent
