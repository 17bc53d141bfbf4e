SPECIFICATION Spec
CONSTANTS
  Frames = 2
  MaxBlocks = 3
  Faults <- NoFaults
  Junk = Junk
INVARIANT SemaphoresInitialised
CHECK_DEADLOCK FALSE
