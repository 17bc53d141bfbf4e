SPECIFICATION Spec
CONSTANTS
  Frames = 2
  MaxBlocks = 5
  Faults <- AllFaults
INVARIANTS TypeOK AddressesInBounds CleanReturn WaitsForTheOther
PROPERTY RefinesHandoff
CHECK_DEADLOCK FALSE
