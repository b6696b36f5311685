\* Nothing bounds s_index by MAX_SAMPLES: loops round trips per job over
\* all the jobs before program_end (100 per job by default: 500 jobs, 5 s
\* at a 10 ms period, fill the 50000 slots).  Scaled: 2 per job, 3 jobs,
\* 4 slots.  rt_msg only: msg_bench's own overflow (NUM_SAMPLES from argv
\* with no check) would be the shorter trace.
CONSTANTS
  Programs = {"rt_msg"}
  BenchSamples = {5}
  MTypes = {1}
  LOOPS = 2
  JOBS = 3
  MAX_SAMPLES = 4
  CallsCanFail = FALSE
SPECIFICATION Spec
INVARIANT SamplesWithinArrays
\* main returns after the job loop.
CHECK_DEADLOCK FALSE
