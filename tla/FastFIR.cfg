SPECIFICATION Spec
CONSTANTS
  KernelSizes <- Kernels
  Sizes <- Chunks
  MaxSamples = 24
  Overlap = "damage"
  Junk = Junk
CHECK_DEADLOCK FALSE
INVARIANTS TypeOK NeverStarves
