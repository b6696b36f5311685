\* All three binaries.  A field of six words, a window of three, values drawn
\* from {0, 1, 3}, both ends of 0 .. f - w included (so windows with
\* repeated values, all-zero windows and a median of 0 occur), three hops
\* per walk, two rt_pointer threads, one main_job() per job, two jobs;
\* malloc and the liblitmus calls may fail.  rt_matrix: a 3 x 3 matrix
\* with 2 pairs, so that probes that cross a column and wrap to (1, 0),
\* and diagonals that cancel to 0 occur, with values of magnitude 1 and
\* either sign (4 x 4 does not finish within minutes); two solver
\* iterations, so that the loop ends both on its bound and on the error.
CONSTANTS
  Programs = {"rt_pointer", "rt_update", "rt_matrix"}
  F = 6
  W = 3
  MAXHOPS = 3
  NT = 2
  Values = {0, 1, 3}
  LOOPS = 1
  JOBS = 2
  MaxJobs = 3
  CallsCanFail = TRUE
  DIM = 3
  NNZ = 4
  OffMagnitudes = {1}
  DiagMagnitudes = {1}
  MAXITER = 2
SPECIFICATION Spec
INVARIANT TypeOK
INVARIANT MedianWhenFound
INVARIANT CRSMatchesDense
PROPERTY Termination

\* main returns, exits or faults: those states have no successor.
CHECK_DEADLOCK FALSE
