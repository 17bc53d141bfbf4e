SPECIFICATION FairSpec
CONSTANTS
  Frames = 2
  MaxBlocks = 4
  Faults <- AllFaults
INVARIANTS TypeOK NoCallbackUnderGil WaitsForTheOther
PROPERTIES RefinesHandoff FailureEndsOrBlocks
CHECK_DEADLOCK FALSE
