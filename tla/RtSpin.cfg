\* The five budget-loop programs; periods of 400 ms (a tick is 100 ms);
\* budgets below the WCET, covering it, or exceeding the period (rejected by
\* main); dio_raw's default dma_rate 0 and two set ones; dio_dmaboth without
\* a delay and with one of 600 ms; a 100 ms disk read; liblitmus calls and
\* the device open that may fail.  frame_poller with and without -l and
\* rt_camera, with cameras listing no, one or two resolutions and a -k
\* inside the list, past it, or past the array (as an uninitialised one).
CONSTANTS
  Programs = {"mc2spin", "dio_raw", "dio_dmaboth", "frame_poller", "rt_camera"}
  DmaRates = {0, 1, 2}
  Deltas = {0, 6}
  DmaWait = 1
  WCETs = {1, 2, 4}
  BUDGETs = {1, 2, 4, 5}
  PERIOD = 4
  DURATION = 8
  SECOND = 10
  LoopCost = {1, 2}
  CallsCanFail = TRUE
  NumResolutions = {0, 1, 2}
  ResIndexes = {0, 1, 64}
  MAX_RESOLUTIONS_TO_CHECK = 64
  MaxWall = 60
SPECIFICATION Spec
INVARIANT EveryDioJobReadsTheDisk
PROPERTY Termination
\* main returns (or exits through usage/bail_out): the program stops.
CHECK_DEADLOCK FALSE
