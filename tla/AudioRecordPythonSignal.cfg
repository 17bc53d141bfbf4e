SPECIFICATION Spec
CONSTANTS
  Frames = 2
  MaxBlocks = 3
  Faults <- SigIntOnly
  Junk = Junk
INVARIANT SignalDeallocates
CHECK_DEADLOCK FALSE
