\* Both binaries.  mtype left at 0 (or given as 0 to msg_bench) or 1, two
\* round trips per job and two jobs for rt_msg, up to three round trips for
\* msg_bench, sample arrays long enough for them; calls may fail.
CONSTANTS
  Programs = {"rt_msg", "msg_bench"}
  BenchSamples = {0, 1, 3}
  MTypes = {0, 1}
  LOOPS = 2
  JOBS = 2
  MAX_SAMPLES = 5
  CallsCanFail = TRUE
SPECIFICATION Spec
INVARIANT TypeOK
INVARIANT SamplesPaired

\* main returns or exits: those states have no successor.
CHECK_DEADLOCK FALSE
