SPECIFICATION FairSpec
CONSTANTS
  Frames = 2
  MaxBlocks = 3
  Faults <- FilterAndDevice
  Junk = Junk
PROPERTY GilIsAcquired
CHECK_DEADLOCK FALSE
