SPECIFICATION FairSpec
CONSTANTS
  Writes <- ModesAndSpeaker
  MaxSpawns = 3
  MaxRuns = 2
  MaxBacklog = 1
INVARIANTS TypeOK OneProcessInMode DiesBehindPredecessor
PROPERTY ModeIsHeardOrDies
CHECK_DEADLOCK FALSE
