\* randrange(0, l) for every l up to dio_raw's default 98304 lines.
CONSTANTS
  RAND_MAX <- GlibcRandMax
  MaxLimit = 98304
SPECIFICATION Spec
INVARIANT RandRangeWithinBounds
