SPECIFICATION FairSpec
CONSTANTS
  Frames = 2
  MaxBlocks = 4
  Faults <- AllFaults
  Junk = Junk
INVARIANTS TypeOK ExclusiveBuffer WaitsForTheOther ReleasedAtReturn
PROPERTIES RefinesHandoff EveryBlockIsHeard FailureEndsOrBlocks
CHECK_DEADLOCK FALSE
