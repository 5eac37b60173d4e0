SPECIFICATION FairSpec
CONSTANTS
  NBuf = 2
  Reqs = {r1}
  Options <- MixedOptions
  Inbound <- FewAir
  AckTicks = 2
  MaxJitter = 1
  SeqSize = 1
  MaxBlocks = 2
  NULL = NULL
PROPERTIES
  ImplementsService
  RequestsConfirmed
  FramesReleased
