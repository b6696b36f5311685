\* main_job() with six field bytes and the two past them,
\* a two-byte self-overlapping delimiter, bytes 0, 1 and 255, 8-bit
\* subfields; one main_job() per job, two jobs, so the second call starts
\* on past-end bytes the first may have rewritten; calls may fail.
CONSTANTS
  F = 6
  TOKEN_LENGTH = 2
  Bytes = {0, 1, 255}
  MAX_SUBFIELDS = 256
  SUBFIELD_MOD = 256
  LOOPS = 1
  JOBS = 2
  MaxJobs = 3
  CallsCanFail = TRUE
SPECIFICATION Spec
INVARIANT TypeOK
INVARIANT StatsMatchReference
PROPERTY Termination

\* main returns, exits or faults: those states have no successor.
CHECK_DEADLOCK FALSE
