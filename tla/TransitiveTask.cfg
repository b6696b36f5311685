\* Three vertices (every pivot order, a cycle through each vertex), three
\* edges drawn with repetition, weights 0, 1 and MAX_EDGES per main_job();
\* one main_job() per job, two jobs before program_end; malloc and the
\* liblitmus calls may fail.
CONSTANTS
  N = 3
  M = 3
  EdgeWeights = {0, 1, 255}
  LOOPS = 1
  JOBS = 2
  MaxJobs = 3
  CallsCanFail = TRUE
SPECIFICATION Spec
INVARIANT TypeOK
INVARIANT RoundsComputeShortestWalks
PROPERTY ImplementsMainJobSpec
PROPERTY Termination

\* main returns, exits or faults: those states have no successor.
CHECK_DEADLOCK FALSE
