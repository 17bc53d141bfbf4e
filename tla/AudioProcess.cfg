SPECIFICATION FairSpec
CONSTANTS
  Chunk = 6
  Wrong = 3
  Modes <- AnyMode
  MaxChunks = 5
  MaxQueue = 3
INVARIANTS TypeOK SmoothBorders
PROPERTIES HeardOrPilesUp RefinesServerProcess
CHECK_DEADLOCK FALSE
