--------------------------- MODULE TransitiveTask ---------------------------
(***************************************************************************)
(* rt_transitive.c as a whole: main validates its arguments, creates the   *)
(* reservation, calls init_job() and one warm-up main_job(), makes the     *)
(* task real-time and calls job() until the wall clock passes program_end; *)
(* every job runs main_job() loops times and records one cycle count in    *)
(* result[result_index++].  main_job() is the Transitive module, whose     *)
(* steps interleave with nothing: the program is one thread.               *)
(*                                                                         *)
(* The wall clock is abstracted to the number of jobs, JOBS, that start    *)
(* before program_end.  The matrices' content on entry to main_job() is    *)
(* dead (its first loop overwrites every cell) and is forgotten there.     *)
(***************************************************************************)
EXTENDS Naturals

CONSTANTS
  N, M, EdgeWeights,  \* main_job()'s parameters, as in Transitive
  LOOPS,              \* loops (-k, default 1): main_job() calls per job
  JOBS,               \* the jobs that start before program_end
  MaxJobs,            \* bound on job() calls explored
  CallsCanFail        \* whether malloc and the liblitmus calls may fail

ASSUME LOOPS \in Nat /\ JOBS \in Nat /\ MaxJobs \in Nat /\ JOBS < MaxJobs
ASSUME CallsCanFail \in BOOLEAN

VARIABLES
  pc, k, din, dout, graph,  \* main_job()'s state (Transitive)
  stage,        \* where main and job() are
  caller,       \* where main_job() returns to
  allocated,    \* whether init_job()'s two mallocs succeeded
  jobs,         \* job() calls that ran a job
  iter,         \* job(): iter
  resultIndex   \* result_index

kernel == <<pc, k, din, dout, graph>>
harness == <<stage, caller, allocated, jobs, iter, resultIndex>>
vars == <<kernel, harness>>

K == INSTANCE Transitive

CallOutcomes == IF CallsCanFail THEN {"ok", "fail"} ELSE {"ok"}

-----------------------------------------------------------------------------
Init ==
  /\ K!Init
  /\ stage = "args"
  /\ caller = "none"
  /\ allocated = FALSE
  /\ jobs = 0 /\ iter = 0 /\ resultIndex = 0

(* The option loop and the argument checks (criticality and priority,     *)
(* three arguments, wcet > 0, period > 0, wcet <= period, budget <=       *)
(* period): any failing check calls usage(), which exits.                 *)
ValidateArgs ==
  /\ stage = "args"
  /\ \E valid \in BOOLEAN : stage' = IF valid THEN "reserve" ELSE "usage"
  /\ UNCHANGED <<kernel, caller, allocated, jobs, iter, resultIndex>>

(* be_migrate_to_domain (with -p) and reservation_create: bail_out on     *)
(* failure.                                                               *)
Reserve ==
  /\ stage = "reserve"
  /\ \E outcome \in CallOutcomes :
       stage' = IF outcome = "ok" THEN "init_job" ELSE "bail"
  /\ UNCHANGED <<kernel, caller, allocated, jobs, iter, resultIndex>>

(* init_job(): malloc din and dout, returning -1 if either fails; main    *)
(* ignores the result and goes on to the warm-up main_job().              *)
InitJob ==
  /\ stage = "init_job"
  /\ allocated' \in IF CallsCanFail THEN BOOLEAN ELSE {TRUE}
  /\ stage' = "warmup"
  /\ UNCHANGED <<kernel, caller, jobs, iter, resultIndex>>

(* A call of main_job() returning to ret: on NULL matrices its first loop *)
(* faults; otherwise it starts at its first loop, on matrices whose     *)
(* content is dead.                                                       *)
CallMainJob(ret) ==
  /\ IF allocated
       THEN /\ stage' = "main_job"
            /\ caller' = ret
            /\ pc' = "init" /\ k' = 0
            /\ din' = [c \in K!Cells |-> 0] /\ dout' = [c \in K!Cells |-> 0]
            /\ graph' = [c \in K!Cells |-> K!NO_PATH]
       ELSE /\ stage' = "segv"
            /\ UNCHANGED <<caller, kernel>>

\* main's warm-up call, before the task becomes real-time.
WarmUp ==
  /\ stage = "warmup"
  /\ CallMainJob("rtsetup")
  /\ UNCHANGED <<allocated, jobs, iter, resultIndex>>

\* One step of main_job().
MainJobStep ==
  /\ stage = "main_job"
  /\ K!Next
  /\ UNCHANGED harness

MainJobReturn ==
  /\ stage = "main_job"
  /\ pc = "done"
  /\ stage' = caller
  /\ UNCHANGED <<kernel, caller, allocated, jobs, iter, resultIndex>>

(* set_rt_task_param and set_mc2_task_param (bail_out on failure),        *)
(* init_litmus (its result is not stored: the test after it re-reads the  *)
(* ret of set_mc2_task_param, which is 0 here), mlockall, set_page_color, *)
(* task_mode(LITMUS_RT_TASK) and, with -w, wait_for_ts_release (bail_out  *)
(* on failure).                                                           *)
RtSetup ==
  /\ stage = "rtsetup"
  /\ \E outcome \in CallOutcomes :
       stage' = IF outcome = "ok" THEN "job" ELSE "bail"
  /\ UNCHANGED <<kernel, caller, allocated, jobs, iter, resultIndex>>

\* Mutant: job() without the program_end test.
JobBeginNoEnd ==
  /\ stage = "job"
  /\ jobs < MaxJobs
  /\ stage' = "loop"
  /\ iter' = 0
  /\ jobs' = jobs + 1
  /\ UNCHANGED <<kernel, caller, allocated, resultIndex>>

(* job(): returns 0 once wctime() > program_end, ending main's loop;      *)
(* otherwise iter = 0 and t = get_cycles().                               *)
JobBegin ==
  /\ stage = "job"
  /\ jobs < MaxJobs
  /\ IF jobs = JOBS
       THEN /\ stage' = "leave"
            /\ UNCHANGED <<iter, jobs>>
       ELSE /\ stage' = "loop"
            /\ iter' = 0
            /\ jobs' = jobs + 1
  /\ UNCHANGED <<kernel, caller, allocated, resultIndex>>

\* Mutant: the sample is recorded inside the while loop as well.
LoopTestRecordEach ==
  /\ stage = "loop"
  /\ iter' = iter + 1
  /\ resultIndex' = resultIndex + 1
  /\ IF iter < LOOPS
       THEN CallMainJob("loop")
       ELSE /\ stage' = "job"
            /\ UNCHANGED <<caller, kernel>>
  /\ UNCHANGED <<allocated, jobs>>

(* while (iter++ < loops) main_job(); then                                *)
(* result[result_index++] = get_cycles() - t and sleep_next_period().     *)
LoopTest ==
  /\ stage = "loop"
  /\ iter' = iter + 1
  /\ IF iter < LOOPS
       THEN /\ CallMainJob("loop")
            /\ UNCHANGED resultIndex
       ELSE /\ stage' = "job"
            /\ resultIndex' = resultIndex + 1
            /\ UNCHANGED <<caller, kernel>>
  /\ UNCHANGED <<allocated, jobs>>

(* task_mode(BACKGROUND_TASK) (bail_out on failure), reservation_destroy, *)
(* post_job() (frees and clears din and dout), printing the samples.      *)
Leave ==
  /\ stage = "leave"
  /\ \E outcome \in CallOutcomes :
       stage' = IF outcome = "ok" THEN "done" ELSE "bail"
  /\ UNCHANGED <<kernel, caller, allocated, jobs, iter, resultIndex>>

Next ==
  \/ ValidateArgs \/ Reserve \/ InitJob \/ WarmUp
  \/ MainJobStep \/ MainJobReturn
  \/ RtSetup \/ JobBegin \/ LoopTest \/ Leave

(* One thread that always gets the CPU: an enabled step of it eventually  *)
(* happens.                                                               *)
Spec == Init /\ [][Next]_vars /\ WF_vars(Next)

-----------------------------------------------------------------------------
Exited == stage \in {"done", "usage", "bail", "segv"}

TypeOK ==
  /\ stage \in {"args", "reserve", "init_job", "warmup", "main_job",
                "rtsetup", "job", "loop", "leave", "done", "usage", "bail",
                "segv"}
  /\ caller \in {"none", "rtsetup", "loop"}
  /\ allocated \in BOOLEAN
  /\ jobs \in 0 .. JOBS /\ iter \in 0 .. (LOOPS + 1)
  /\ resultIndex \in 0 .. jobs

(* Every main_job() call, the warm-up and each of the jobs', leaves din   *)
(* and dout holding the shortest walks of the graph it drew (Transitive). *)
RoundsComputeShortestWalks == K!RoundsComputeShortestWalks

(* The refinement mapping to TransitiveSpec: a call has drawn its graph  *)
(* once the closure rounds begin, and its result is din once it is done.  *)
AbsPhase == CASE pc = "done" -> "done"
              [] pc = "closure" -> "drawn"
              [] OTHER -> "idle"
AbsResult == IF pc = "done" THEN din ELSE [c \in K!Cells |-> K!NO_PATH]

Abs == INSTANCE TransitiveSpec WITH phase <- AbsPhase, result <- AbsResult

(* Every main_job() call implements its contract: it draws a graph of at  *)
(* most m edges and returns with din holding the least-weight walks of    *)
(* that graph, the n rounds of buffer swaps and the caller's restarts     *)
(* included.                                                              *)
ImplementsMainJobSpec == Abs!Spec

(* rt_transitive terminates: every main_job() call returns, job() returns *)
(* 0 once program_end has passed, and main returns or exits.              *)
Termination == <>Exited

=============================================================================
