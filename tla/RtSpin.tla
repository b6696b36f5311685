------------------------------- MODULE RtSpin -------------------------------
(***************************************************************************)
(* The budget-loop programs: mc2spin.c, dio_raw.c, dio_dmaboth.c and the  *)
(* webcam pollers frame_poller.c and rt_camera.c.  Each                    *)
(* main sets up a periodic real-time task whose job() burns exec_time      *)
(* seconds of CPU by calling loop_once, predicting from the duration of    *)
(* the previous call whether one more call still fits, until the wall      *)
(* clock passes program_end; a job whose wall clock passes program_end + 1 *)
(* takes the "emergency exit".  The two direct-I/O programs add, after     *)
(* each loop_once, an O_DIRECT read of /dev/sda every dma_rate iterations  *)
(* (dio_raw's send_dma) or a nanosleep of delta (dio_dmaboth, whose        *)
(* loop_once is itself two reads), and dio_dmaboth rewinds the device with *)
(* lseek after each job.  While the task waits for the disk or sleeps, the *)
(* wall clock advances and its CPU time does not.  The webcam programs set *)
(* up the camera (before the reservation in frame_poller, after it in      *)
(* rt_camera) and make loop_once fetch one frame, polling for it on the    *)
(* CPU; rt_camera's job(), and frame_poller's without -l, call it once.    *)
(*                                                                         *)
(* Time is discrete: one tick of wall clock.  The task runs inside a       *)
(* PERIODIC_POLLING reservation created by main (budget, period, offset 0) *)
(* and is alone in it: it may execute during the first budget ticks of     *)
(* every reservation period (a polling server drains its budget whether    *)
(* or not its client runs).  The task is released periodically from the    *)
(* moment it becomes a real-time task, which main reaches some ticks after *)
(* reservation_create.  loop_once's walk is the Arena module; here only    *)
(* its CPU cost, a member of LoopCost, matters.                            *)
(***************************************************************************)
EXTENDS Naturals, FiniteSets

CONSTANTS
  Programs,     \* the programs modelled, by name
  DmaRates,     \* dio_raw's -d dma_rate values (0 is its default)
  Deltas,       \* dio_dmaboth's -d nanosleep delta values (ticks)
  DmaWait,      \* ticks an O_DIRECT read of /dev/sda keeps the task blocked
  WCETs,        \* the wcet arguments (ticks) main may be given
  BUDGETs,      \* the -b budget arguments (ticks)
  PERIOD,       \* the period argument (ticks)
  DURATION,     \* the duration argument (ticks)
  SECOND,       \* one second in ticks: emergency_exit = program_end + 1
  LoopCost,     \* CPU ticks one loop_once call can take
  CallsCanFail, \* whether the liblitmus and webcam calls may fail
  NumResolutions, \* how many resolutions the camera may list
  ResIndexes,   \* frame_poller's -k res_index values
  MAX_RESOLUTIONS_TO_CHECK, \* the length of frame_poller's resolutions[]
  MaxWall       \* bound on the wall clock

ASSUME WCETs \subseteq Nat /\ BUDGETs \subseteq Nat
ASSUME PERIOD \in Nat /\ DURATION \in Nat /\ SECOND \in Nat \ {0}
ASSUME LoopCost \subseteq Nat \ {0} /\ LoopCost # {}
ASSUME CallsCanFail \in BOOLEAN /\ MaxWall \in Nat
ASSUME Programs \subseteq {"mc2spin", "dio_raw", "dio_dmaboth", "frame_poller",
                           "rt_camera"}
ASSUME NumResolutions \subseteq Nat /\ ResIndexes \subseteq Nat
ASSUME MAX_RESOLUTIONS_TO_CHECK \in Nat
ASSUME DmaRates \subseteq Nat /\ Deltas \subseteq Nat /\ DmaWait \in Nat

VARIABLES
  program,    \* which of the programs runs
  loopMode,   \* 0: job() calls loop_once once; 1: the budget loop
  dmaRate,    \* dio_raw: dma_rate
  delta,      \* dio_dmaboth: delta
  fdOk,       \* dio: whether open("/dev/sda", O_DIRECT) succeeded
  pc,         \* where main / job() is
  wcet,       \* exec_time of the task
  budget,     \* polling_params.budget of the reservation
  wall,       \* wctime(), ticks since reservation_create
  cpu,        \* cputime() of the task
  start,      \* main's start: program_end = start + duration
  release,    \* release time of the current job
  jobStart,   \* job(): start = cputime()
  now,        \* job(): now, last read of cputime()
  lastLoop,   \* job(): last_loop
  loopStart,  \* job(): loop_start
  loopLeft,   \* CPU ticks the running loop_once still needs
  emergency,  \* whether the current job took the emergency exit
  iter,       \* dio_raw job(): iter
  blockLeft,  \* dio: ticks the task still waits for the disk or sleeps
  blocked     \* whether the current job has waited for the disk or slept

vars == <<program, loopMode, dmaRate, delta, fdOk, pc, wcet, budget, wall,
          cpu, start, release, jobStart, now, lastLoop, loopStart, loopLeft, emergency,
          iter, blockLeft, blocked>>

-----------------------------------------------------------------------------
\* program_end and emergency_exit of job().
ProgramEnd == start + DURATION
EmergencyExit == ProgramEnd + SECOND

\* The polling reservation lets its client run during the first budget
\* ticks of each of its periods.
CanRun(t) == t % PERIOD < budget

\* What a liblitmus call of main returns: success, or failure when calls
\* may fail (bail_out then exits the program).
CallOutcomes == IF CallsCanFail THEN {"ok", "fail"} ELSE {"ok"}

\* The dio programs check for two positional arguments and then read a
\* third: with exactly two, atof(argv[optind + 2]) is atof(NULL).
ArgvCrash == IF program \in {"dio_raw", "dio_dmaboth"} THEN {"crash"} ELSE {}

\* The job() of each program: frame_poller's -l picks job_loop (the budget
\* loop) over job(); rt_camera's job() calls loop_once once.
LoopModes ==
  CASE program = "frame_poller" -> {0, 1}
    [] program = "rt_camera"    -> {0}
    [] OTHER                    -> {1}

(* frame_poller's SelectResolution with n resolutions listed (the rest of  *)
(* the array zeroed) and res_index k: an entry past the list is 0 x 0,     *)
(* which the check loop rejects, as it stops at the first zeroed entry;    *)
(* an index past the array (res_index is uninitialised without -k) reads   *)
(* out of bounds, with any outcome.                                        *)
PollerSelect(n, k) ==
  IF k < n THEN {"ok"}
  ELSE IF k < MAX_RESOLUTIONS_TO_CHECK THEN {"exit1"}
  ELSE {"ok", "exit1", "crash"}

(* rt_camera's SelectResolution: the search for the smallest listed size   *)
(* exits when the list is empty; otherwise selected_index is forced to 1,  *)
(* a 0 x 0 entry when one resolution is listed, which SetResolution and    *)
(* SDL then receive.                                                       *)
CameraSelect(n) == IF n = 0 THEN {"exit1"} ELSE {"ok"}

\* Whether a webcam_lib, SDL or malloc call may fail.
WebcamCalls == IF CallsCanFail THEN {"ok", "exit1"} ELSE {"ok"}

(* How the camera set-up ends, with n resolutions listed and -k k:         *)
(* frame_poller's OpenWebcam, SelectResolution and malloc return 1 from    *)
(* main on failure, and its warm-up loop_once(webcam, NULL) ignores what   *)
(* it gets; rt_camera's SetupWebcam, SetupSDL and warm-up loop_once        *)
(* exit(1).  Once a resolution is selected, any of the calls may fail.     *)
WebcamSetup(n, k) ==
  LET selected == CASE program = "frame_poller" -> PollerSelect(n, k)
                    [] program = "rt_camera"    -> CameraSelect(n)
                    [] OTHER                    -> {"none"}
  IN  UNION {CASE sel = "ok"   -> WebcamCalls
               [] sel = "none" -> {"ok"}
               [] OTHER        -> {sel} : sel \in selected}

\* open("/dev/sda", O_RDONLY | O_DIRECT) in the dio programs, unchecked.
OpenDevice ==
  IF program \in {"dio_raw", "dio_dmaboth"} /\ CallsCanFail
    THEN BOOLEAN ELSE {TRUE}

\* Ticks an O_DIRECT read(fd, ...) blocks the task: none when fd is the -1
\* of a failed open, whose read fails at once (send_dma reports it with
\* perror and goes on).
ReadWait == IF fdOk THEN DmaWait ELSE 0

\* The options of a program that stay fixed once main has parsed them.
optVars == <<program, loopMode, dmaRate, delta>>

\* The state of one job() call.
jobVars == <<jobStart, now, lastLoop, loopStart, loopLeft, emergency, iter,
             blockLeft, blocked>>

Init ==
  /\ program \in Programs
  /\ loopMode \in LoopModes
  /\ dmaRate \in IF program = "dio_raw" THEN DmaRates ELSE {0}
  /\ delta \in IF program = "dio_dmaboth" THEN Deltas ELSE {0}
  /\ fdOk = TRUE
  /\ pc = "args"
  /\ wcet \in WCETs
  /\ budget \in BUDGETs
  /\ wall = 0 /\ cpu = 0 /\ start = 0 /\ release = 0
  /\ jobStart = 0 /\ now = 0 /\ lastLoop = 0 /\ loopStart = 0
  /\ loopLeft = 0 /\ emergency = FALSE
  /\ iter = 0 /\ blockLeft = 0 /\ blocked = FALSE

(* main's option loop and argument checks: a bad option or criticality    *)
(* level, too few arguments, or a wcet or period out of order call        *)
(* usage(), which exits.  mc2spin requires three positional arguments;    *)
(* the dio programs check for two and then read argv[optind + 2] as the   *)
(* duration, so with exactly two atof(NULL) crashes the program.          *)
ValidateArgs ==
  /\ pc = "args"
  /\ pc' \in IF wcet > 0 /\ PERIOD > 0 /\ wcet <= PERIOD
               THEN {"setup", "usage"} \cup ArgvCrash
               ELSE {"usage"}
  /\ UNCHANGED <<optVars, fdOk, wcet, budget, wall, cpu, start, release>>
  /\ UNCHANGED jobVars

(* main from the dio buffers and open("/dev/sda") (whose result is never  *)
(* checked) through be_migrate_to_domain (the dio programs bail out       *)
(* without -p), the budget check (budget > period calls usage()),          *)
(* reservation_create, the task parameters, init_litmus and               *)
(* task_mode(LITMUS_RT_TASK) to wait_for_ts_release.  Any failing call    *)
(* bails out.  start = wctime() is taken when the task becomes real-time, *)
(* some ticks after the reservation was created; its first job is         *)
(* released then.  The webcam programs set up the camera after the budget *)
(* check, and exit when that fails (WebcamSetup).                          *)
Setup ==
  /\ pc = "setup"
  /\ \E outcome \in CallOutcomes, d \in 0 .. (PERIOD - 1),
        n \in NumResolutions, k \in ResIndexes :
       \E cam \in WebcamSetup(n, k) :
         /\ pc' = CASE outcome = "fail" -> "bail"
                    [] budget > PERIOD  -> "usage"
                    [] cam # "ok"       -> cam
                    [] OTHER            -> "job"
         /\ wall' = wall + d
         /\ start' = wall + d
         /\ release' = wall + d
  /\ fdOk' \in OpenDevice
  /\ UNCHANGED <<optVars, wcet, budget, cpu>>
  /\ UNCHANGED jobVars

\* Mutant: iter kept from the previous job instead of starting at 0.
StartJobNoIterReset ==
  /\ pc' = "spin"
  /\ jobStart' = cpu
  /\ now' = cpu
  /\ lastLoop' = 0
  /\ emergency' = FALSE
  /\ iter' = iter
  /\ blocked' = FALSE

\* The state job() starts from once it passed the program_end test.
StartJob ==
  /\ pc' = "spin"
  /\ jobStart' = cpu
  /\ now' = cpu
  /\ lastLoop' = 0
  /\ emergency' = FALSE
  /\ iter' = 0
  /\ blocked' = FALSE

\* Mutant: job() without the program_end test.
JobBeginNoEnd ==
  /\ pc = "job"
  /\ StartJob
  /\ UNCHANGED <<optVars, fdOk, wcet, budget, wall, cpu, start, release,
                 loopStart, loopLeft, blockLeft>>

(* job(): returns 0 once wctime() > program_end; otherwise records the    *)
(* CPU time at the job's start.                                           *)
JobBegin ==
  /\ pc = "job"
  /\ IF wall > ProgramEnd
       THEN /\ pc' = "leave"
            /\ UNCHANGED jobVars
       ELSE /\ StartJob
            /\ UNCHANGED <<loopStart, loopLeft, blockLeft>>
  /\ UNCHANGED <<optVars, fdOk, wcet, budget, wall, cpu, start, release>>

(* while (now + last_loop < start + exec_time): call loop_once, or leave  *)
(* the loop.  A job() without the loop calls loop_once once.              *)
SpinTest ==
  /\ pc = "spin"
  /\ IF loopMode = 0 \/ now + lastLoop < jobStart + wcet
       THEN /\ pc' = "loop"
            /\ loopStart' = now
            /\ loopLeft' \in LoopCost
       ELSE /\ pc' = "endjob"
            /\ UNCHANGED <<loopStart, loopLeft>>
  /\ UNCHANGED <<optVars, fdOk, wcet, budget, wall, cpu, start, release,
                 jobStart, now, lastLoop, emergency, iter, blockLeft, blocked>>

\* One tick in which loop_once runs inside the reservation's budget.
Execute ==
  /\ pc = "loop"
  /\ loopLeft > 0
  /\ CanRun(wall)
  /\ wall < MaxWall
  /\ wall' = wall + 1
  /\ cpu' = cpu + 1
  /\ loopLeft' = loopLeft - 1
  /\ UNCHANGED <<optVars, fdOk, pc, wcet, budget, start, release, jobStart,
                 now, lastLoop, loopStart, emergency, iter, blockLeft, blocked>>

\* One tick in which loop_once is ready but the reservation has no budget.
Throttled ==
  /\ pc = "loop"
  /\ loopLeft > 0
  /\ ~CanRun(wall)
  /\ wall < MaxWall
  /\ wall' = wall + 1
  /\ UNCHANGED <<optVars, fdOk, pc, wcet, budget, cpu, start, release>>
  /\ UNCHANGED jobVars

(* dio_raw after loop_once: if (iter % dma_rate == 0) send_dma().  With   *)
(* dma_rate 0 the modulus traps (SIGFPE).  read() on a descriptor that     *)
(* failed to open returns -1 at once; otherwise it blocks for the disk.   *)
SendDma ==
  /\ pc = "loop"
  /\ loopLeft = 0
  /\ program = "dio_raw"
  /\ IF dmaRate = 0
       THEN /\ pc' = "crash"
            /\ UNCHANGED blockLeft
       ELSE /\ pc' = "io"
            /\ blockLeft' = IF iter % dmaRate = 0 THEN ReadWait ELSE 0
  /\ UNCHANGED <<optVars, fdOk, wcet, budget, wall, cpu, start, release,
                 jobStart, now, lastLoop, loopStart, loopLeft, emergency,
                 iter, blocked>>

(* dio_dmaboth: loop_once's two O_DIRECT reads, then nanosleep(&delta).   *)
Nanosleep ==
  /\ pc = "loop"
  /\ loopLeft = 0
  /\ program = "dio_dmaboth"
  /\ pc' = "io"
  /\ blockLeft' = ReadWait + delta
  /\ UNCHANGED <<optVars, fdOk, wcet, budget, wall, cpu, start, release,
                 jobStart, now, lastLoop, loopStart, loopLeft, emergency,
                 iter, blocked>>

\* One tick the task spends blocked on the disk or asleep.
Blocked ==
  /\ pc = "io"
  /\ blockLeft > 0
  /\ wall < MaxWall
  /\ wall' = wall + 1
  /\ blockLeft' = blockLeft - 1
  /\ blocked' = TRUE
  /\ UNCHANGED <<optVars, fdOk, pc, wcet, budget, cpu, start, release,
                 jobStart, now, lastLoop, loopStart, loopLeft, emergency, iter>>

(* rt_camera's loop_once: a failing BeginLoadingNextFrame, SDL_LockTexture, *)
(* GetFrameBuffer, ConvertYUYVToRGBA or SDL_RenderCopy closes the webcam    *)
(* and exits, in the middle of a real-time job.                            *)
CameraFrameError ==
  /\ pc = "loop"
  /\ loopLeft = 0
  /\ program = "rt_camera"
  /\ "exit1" \in WebcamCalls
  /\ pc' = "exit1"
  /\ UNCHANGED <<optVars, fdOk, wcet, budget, wall, cpu, start, release>>
  /\ UNCHANGED jobVars

(* frame_poller's loop_once polls GetFrameBuffer up to retry times, burning *)
(* CPU between polls; a frame, a drop after the last retry and a device     *)
(* error all return to the caller, which ignores the result.               *)
PollerFrame == pc = "loop" /\ loopLeft = 0 /\ program = "frame_poller"

\* Where loop_once (and the I/O that follows it) has returned.
IterationDone ==
  \/ pc = "loop" /\ loopLeft = 0 /\ program \in {"mc2spin", "rt_camera"}
  \/ PollerFrame
  \/ pc = "io" /\ blockLeft = 0

(* The iteration ends: now = cputime(); last_loop = now - loop_start; the *)
(* emergency exit breaks out of the loop once wctime() passes             *)
(* emergency_exit; dio_raw counts the iteration (iter++).  A job() that   *)
(* calls loop_once once ends after it, with no emergency test.            *)
LoopDone ==
  /\ IterationDone
  /\ now' = cpu
  /\ lastLoop' = cpu - loopStart
  /\ IF loopMode = 1 /\ wall > EmergencyExit
       THEN /\ emergency' = TRUE
            /\ pc' = "endjob"
            /\ UNCHANGED iter
       ELSE /\ pc' = IF loopMode = 0 THEN "endjob" ELSE "spin"
            /\ iter' = IF program = "dio_raw" THEN iter + 1 ELSE iter
            /\ UNCHANGED emergency
  /\ UNCHANGED <<optVars, fdOk, wcet, budget, wall, cpu, start, release,
                 jobStart, loopStart, loopLeft, blockLeft, blocked>>

(* After the loop: dio_dmaboth rewinds the device, lseek(fd, 0, SEEK_SET), *)
(* and bails out if that fails (it does on a descriptor that never       *)
(* opened); then sleep_next_period() moves the release a period on.      *)
JobEnd ==
  /\ pc = "endjob"
  /\ IF program = "dio_dmaboth" /\ ~fdOk
       THEN /\ pc' = "bail"
            /\ UNCHANGED release
       ELSE /\ pc' = "sleep"
            /\ release' = release + PERIOD
  /\ UNCHANGED <<optVars, fdOk, wcet, budget, wall, cpu, start>>
  /\ UNCHANGED jobVars

\* sleep_next_period(): blocked until the next release.
Sleeping ==
  /\ pc = "sleep"
  /\ wall < release
  /\ wall < MaxWall
  /\ wall' = wall + 1
  /\ UNCHANGED <<optVars, fdOk, pc, wcet, budget, cpu, start, release>>
  /\ UNCHANGED jobVars

\* The next job is released; main calls job() again.
Wake ==
  /\ pc = "sleep"
  /\ wall >= release
  /\ pc' = "job"
  /\ UNCHANGED <<optVars, fdOk, wcet, budget, wall, cpu, start, release>>
  /\ UNCHANGED jobVars

(* After the job loop: task_mode(BACKGROUND_TASK) (bails out on failure), *)
(* reservation_destroy, dealloc_arena or close(fd) and munmap, return.    *)
Leave ==
  /\ pc = "leave"
  /\ \E outcome \in CallOutcomes :
       pc' = IF outcome = "ok" THEN "done" ELSE "bail"
  /\ UNCHANGED <<optVars, fdOk, wcet, budget, wall, cpu, start, release>>
  /\ UNCHANGED jobVars

Next ==
  \/ ValidateArgs
  \/ Setup
  \/ JobBegin
  \/ SpinTest
  \/ Execute
  \/ Throttled
  \/ SendDma
  \/ Nanosleep
  \/ Blocked
  \/ CameraFrameError
  \/ LoopDone
  \/ JobEnd
  \/ Sleeping
  \/ Wake
  \/ Leave

(* The task always gets the CPU in its reservation and time always        *)
(* advances: no step of main or job() that is enabled waits forever.      *)
Spec == Init /\ [][Next]_vars /\ WF_vars(Next)

-----------------------------------------------------------------------------
Exited == pc \in {"done", "usage", "bail", "crash", "exit1"}

LongestLoop == CHOOSE m \in LoopCost : \A c \in LoopCost : c <= m

TypeOK ==
  /\ program \in Programs /\ loopMode \in {0, 1} /\ fdOk \in BOOLEAN
  /\ pc \in {"args", "setup", "job", "spin", "loop", "io", "endjob", "sleep",
             "leave", "done", "usage", "bail", "crash", "exit1"}
  /\ wcet \in WCETs /\ budget \in BUDGETs
  /\ wall \in 0 .. MaxWall
  /\ cpu \in 0 .. wall
  /\ loopLeft \in 0 .. LongestLoop
  /\ blockLeft \in 0 .. (DmaWait + delta)
  /\ iter \in 0 .. wcet
  /\ emergency \in BOOLEAN /\ blocked \in BOOLEAN

(* dio_raw and dio_dmaboth exist to put direct I/O into every job: each   *)
(* job that ends its loop has waited for at least one O_DIRECT read of     *)
(* /dev/sda, when the device opened and dio_raw's dma_rate is set.  For    *)
(* dio_raw this rests on iter starting at 0 in every job, so that the      *)
(* first iteration's iter % dma_rate is 0 however many iterations earlier  *)
(* jobs made.                                                              *)
EveryDioJobReadsTheDisk ==
  (/\ pc = "endjob" /\ program \in {"dio_raw", "dio_dmaboth"}
   /\ fdOk /\ DmaWait > 0
   /\ (program = "dio_raw" => dmaRate > 0)) => blocked

(* Every program stops: every job's spin loop ends, the job loop ends once *)
(* the wall clock passes program_end, and main returns, exits through      *)
(* usage() or bail_out(), returns 1 or calls exit(1) on a webcam failure, *)
(* or crashes.                                                             *)
Termination == <>Exited

=============================================================================
