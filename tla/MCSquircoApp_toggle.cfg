SPECIFICATION FairSpec
CONSTANTS
  RingSize = 2
  MaxRetries = 1
  Inbound <- SwitchTraffic
  Sensed = {"temperature", "light"}
  Pans = {home}
  Home = home
  LSisRemote = FALSE
  TryCap = 1
PROPERTIES
  ToggleCommandTaken
