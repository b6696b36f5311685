\* Buffers of 3 units; the sender's -k inside and above the range
\* [MIN_SEGMENT, MAX_SEGMENT]; the receiver waiting for 2 or 4 units, so
\* that datagrams are short (1 unit) or cut to max_seg; bursts of 3 into a
\* queue of 2 (drops); 2 empty polls; two jobs on each side.
CONSTANTS
  MAX_SEGMENT = 3
  MIN_SEGMENT = 1
  MAX_POLLS = 1
  SegmentSizes = {1, 3, 4}
  SegSizes = {2}
  NumSegs = {1, 2}
  BURST = 3
  RCVBUF = 2
  SJOBS = 2
  RJOBS = 2
  EXEC = 5
  CallsCanFail = TRUE
  MaxRetries = 1
  MaxCpu = 12
SPECIFICATION Spec
INVARIANT JobCreditsWhatItRead
INVARIANT NoOverRead
PROPERTY Termination
\* Both programs stop (return from main or exit).
CHECK_DEADLOCK FALSE
