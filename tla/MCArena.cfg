\* mc2measure with either -a: random walks (as mc2spin and dio_raw do) and
\* sequential walks, both with write_cycle 1; glibc RAND_MAX; mmap succeeds.
CONSTANTS
  NumLines = 5
  RAND_MAX <- GlibcRandMax
  WriteCycle = 1
  AccessTypes = {"random", "sequential"}
  MaxLoops = 3
SPECIFICATION Spec
INVARIANT WalkTouchesWorkingSet
INVARIANT TouchedWithinArena
\* main returns after dealloc_arena, or exits on a failed call.
CHECK_DEADLOCK FALSE
