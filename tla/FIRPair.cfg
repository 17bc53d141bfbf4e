SPECIFICATION PairSpec
CONSTANTS
  KernelSizes <- Kernels
  Sizes <- Chunks
  MaxSamples = 32
  Overlap = "moves"
  Junk = Junk
CHECK_DEADLOCK FALSE
INVARIANTS StreamIsContinuous FastMirrorsSlow
