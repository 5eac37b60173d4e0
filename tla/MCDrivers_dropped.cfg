SPECIFICATION MCSpec
CONSTANTS
  fast = fast
  slow = slow
  once = once
  Timers = {fast, slow, once}
  Interval <- Intervals
  Periodic = {fast, slow}
  TickTime = 2
  IrqSize = 3
  NONE = NONE
  Frames = {f1, f2}
PROPERTIES
  AcknowledgedIndicated
