SPECIFICATION Spec
CONSTANTS
  RingSize = 3
  MaxRetries = 1
  Inbound <- HubAsks
  Sensed = {"temperature", "light"}
  Pans = {home}
  Home = home
  LSisRemote = FALSE
  TryCap = 1
INVARIANTS
  SwitchStateToHub
