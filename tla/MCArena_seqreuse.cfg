\* sequential_start's "no re-use between allocations" comment.
CONSTANTS
  NumLines = 5
  RAND_MAX <- GlibcRandMax
  WriteCycle = 1
  AccessTypes = {"sequential"}
  MaxLoops = 2
SPECIFICATION Spec
INVARIANT NoReuseBetweenSequentialWalks
CHECK_DEADLOCK FALSE
