----------------------------- MODULE FieldTask -----------------------------
(***************************************************************************)
(* rt_field.c as a whole: main validates its arguments, creates the        *)
(* reservation, calls init_job() (malloc of the field buffer), makes the   *)
(* task real-time and calls job() until the wall clock passes program_end; *)
(* every job runs main_job() loops times.  main_job() is the FieldScan     *)
(* module; the program is one thread.                                      *)
(*                                                                         *)
(* The field buffer and token[] are globals that outlive a main_job()      *)
(* call: the bytes past f, which the scan can read and rewrite, carry over *)
(* to the next call.  Everything else main_job() overwrites before it     *)
(* reads it (the bytes below f, the scan position, subfields, stat[0]) or *)
(* never reads (the statistics past subfields), so it is forgotten at     *)
(* each call.  The wall clock is abstracted to the number of jobs, JOBS,   *)
(* that start before program_end.                                          *)
(***************************************************************************)
EXTENDS Naturals

CONSTANTS
  F, TOKEN_LENGTH, Bytes, MAX_SUBFIELDS, SUBFIELD_MOD,  \* as in FieldScan
  LOOPS,          \* loops (-k, default 1): main_job() calls per job
  JOBS,           \* the jobs that start before program_end
  MaxJobs,        \* bound on job() calls explored
  CallsCanFail    \* whether malloc and the liblitmus calls may fail

ASSUME LOOPS \in Nat /\ JOBS \in Nat /\ MaxJobs \in Nat /\ JOBS < MaxJobs
ASSUME CallsCanFail \in BOOLEAN

VARIABLES
  pc, field, orig, index, subfields, stat,  \* main_job()'s state (FieldScan)
  stage,        \* where main and job() are
  allocated,    \* whether init_job()'s malloc succeeded
  jobs,         \* job() calls that ran a job
  iter          \* job(): iter

kernel == <<pc, field, orig, index, subfields, stat>>
harness == <<stage, allocated, jobs, iter>>
vars == <<kernel, harness>>

K == INSTANCE FieldScan

CallOutcomes == IF CallsCanFail THEN {"ok", "fail"} ELSE {"ok"}

-----------------------------------------------------------------------------
(* The globals start as in FieldScan: the bytes past f hold any value.   *)
Init ==
  /\ K!Init
  /\ stage = "args"
  /\ allocated = FALSE
  /\ jobs = 0 /\ iter = 0

(* The option loop and the argument checks (criticality and priority,     *)
(* three arguments, wcet > 0, period > 0, wcet <= period, budget <=       *)
(* period): any failing check calls usage(), which exits.                 *)
ValidateArgs ==
  /\ stage = "args"
  /\ \E valid \in BOOLEAN : stage' = IF valid THEN "reserve" ELSE "usage"
  /\ UNCHANGED <<kernel, allocated, jobs, iter>>

(* be_migrate_to_domain (with -p) and reservation_create: bail_out on     *)
(* failure.                                                               *)
Reserve ==
  /\ stage = "reserve"
  /\ \E outcome \in CallOutcomes :
       stage' = IF outcome = "ok" THEN "init_job" ELSE "bail"
  /\ UNCHANGED <<kernel, allocated, jobs, iter>>

(* init_job(): malloc the field, returning -1 if it fails; main ignores   *)
(* the result.                                                            *)
InitJob ==
  /\ stage = "init_job"
  /\ allocated' \in IF CallsCanFail THEN BOOLEAN ELSE {TRUE}
  /\ stage' = "rtsetup"
  /\ UNCHANGED <<kernel, jobs, iter>>

(* set_rt_task_param and set_mc2_task_param (bail_out on failure),        *)
(* init_litmus (its result is not stored: the test after it re-reads the  *)
(* ret of set_mc2_task_param, which is 0 here), mlockall, set_page_color, *)
(* task_mode(LITMUS_RT_TASK) and, with -w, wait_for_ts_release (bail_out  *)
(* on failure).                                                           *)
RtSetup ==
  /\ stage = "rtsetup"
  /\ \E outcome \in CallOutcomes :
       stage' = IF outcome = "ok" THEN "job" ELSE "bail"
  /\ UNCHANGED <<kernel, allocated, jobs, iter>>

\* Mutant: job() without the program_end test.
JobBeginNoEnd ==
  /\ stage = "job"
  /\ jobs < MaxJobs
  /\ stage' = "loop"
  /\ iter' = 0
  /\ jobs' = jobs + 1
  /\ UNCHANGED <<kernel, allocated>>

\* Mutant: iter kept across jobs (static) instead of set to 0 by each.
JobBeginNoReset ==
  /\ stage = "job"
  /\ jobs < MaxJobs
  /\ IF jobs = JOBS
       THEN /\ stage' = "leave"
            /\ UNCHANGED jobs
       ELSE /\ stage' = "loop"
            /\ jobs' = jobs + 1
  /\ UNCHANGED <<kernel, allocated, iter>>

(* job(): returns 0 once wctime() > program_end, ending main's loop;      *)
(* otherwise iter = 0.                                                    *)
JobBegin ==
  /\ stage = "job"
  /\ jobs < MaxJobs
  /\ IF jobs = JOBS
       THEN /\ stage' = "leave"
            /\ UNCHANGED <<iter, jobs>>
       ELSE /\ stage' = "loop"
            /\ iter' = 0
            /\ jobs' = jobs + 1
  /\ UNCHANGED <<kernel, allocated>>

(* while (iter++ < loops) main_job(); then sleep_next_period().  A call   *)
(* on the NULL field faults in the fill loop; otherwise main_job() starts *)
(* at its fill loop.                                                      *)
LoopTest ==
  /\ stage = "loop"
  /\ iter' = iter + 1
  /\ IF iter < LOOPS
       THEN IF allocated
              THEN /\ stage' = "main_job"
                   /\ pc' = "fill"
                   /\ field' = [c \in K!Cells |-> IF c < F THEN 0 ELSE field[c]]
                   /\ orig' = field'
                   /\ index' = 0 /\ subfields' = 0
                   /\ stat' = [s \in DOMAIN stat |-> K!EmptyStat]
              ELSE /\ stage' = "segv"
                   /\ UNCHANGED kernel
       ELSE /\ stage' = "job"
            /\ UNCHANGED kernel
  /\ UNCHANGED <<allocated, jobs>>

\* One step of main_job().
MainJobStep ==
  /\ stage = "main_job"
  /\ K!Next
  /\ UNCHANGED harness

MainJobReturn ==
  /\ stage = "main_job"
  /\ pc = "done"
  /\ stage' = "loop"
  /\ UNCHANGED <<kernel, allocated, jobs, iter>>

(* task_mode(BACKGROUND_TASK) (bail_out on failure), reservation_destroy, *)
(* post_job() (frees and clears the field).                               *)
Leave ==
  /\ stage = "leave"
  /\ \E outcome \in CallOutcomes :
       stage' = IF outcome = "ok" THEN "done" ELSE "bail"
  /\ UNCHANGED <<kernel, allocated, jobs, iter>>

Next ==
  \/ ValidateArgs \/ Reserve \/ InitJob \/ RtSetup
  \/ JobBegin \/ LoopTest \/ MainJobStep \/ MainJobReturn \/ Leave

(* One thread that always gets the CPU: an enabled step of it eventually  *)
(* happens.                                                               *)
Spec == Init /\ [][Next]_vars /\ WF_vars(Next)

-----------------------------------------------------------------------------
Exited == stage \in {"done", "usage", "bail", "segv"}

TypeOK ==
  /\ stage \in {"args", "reserve", "init_job", "rtsetup", "job", "loop",
                "main_job", "leave", "done", "usage", "bail", "segv"}
  /\ allocated \in BOOLEAN
  /\ jobs \in 0 .. JOBS /\ iter \in 0 .. (LOOPS + 1)

(* Every main_job() call, including those that start on bytes past f     *)
(* rewritten by an earlier call, leaves subfields and the statistics      *)
(* those of the delimiters and subfields of the field it filled.          *)
StatsMatchReference == K!StatsMatchReference

(* rt_field terminates: every main_job() call returns, job() returns 0    *)
(* once program_end has passed, and main returns or exits.                *)
Termination == <>Exited

=============================================================================
