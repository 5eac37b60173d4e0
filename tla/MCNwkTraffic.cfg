SPECIFICATION MCSpec
CONSTANTS
  NBuf = 3
  Reqs = {r1, r2}
  Options <- MixedOptions
  Inbound <- AllAir
  AckTicks = 2
  MaxJitter = 1
  SeqSize = 2
  MaxBlocks = 2
  NULL = NULL
SYMMETRY ReqSymmetry
INVARIANTS
  TypeOK
  WaitersTimed
  ConfirmMatches
  LockAccounting
  RadioOwner
  CipherExclusive
PROPERTY
  OutcomeStands
