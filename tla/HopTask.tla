------------------------------ MODULE HopTask ------------------------------
(***************************************************************************)
(* The DIS stressmarks whose main makes no warm-up call: rt_pointer.c,     *)
(* rt_update.c and rt_matrix.c.  Their main and job() are the same code;   *)
(* main_job() is the hop walk for the first two and the Matrix module for  *)
(* rt_matrix.                                                              *)
(*                                                                         *)
(* rt_pointer.c and rt_update.c share   *)
(* main, job() and the window search of main_job().  A field of f words    *)
(* holds values drawn by randInt(0, f - w); a "thread" starts at index =   *)
(* initial and hops until maxhops hops or until index lands in [minStop,   *)
(* maxStop): each hop searches field[index .. index + w - 1] for its       *)
(* median (partition) and moves to (partition + hops) % (f - w).           *)
(*   rt_pointer: init_job() fills the field once; main_job() runs n        *)
(*     threads over it and stores each one's hops in thread[l].hops; job() *)
(*     records one sample per job in result[result_index++].               *)
(*   rt_update: main_job() refills the field on every call and runs one    *)
(*     thread, which writes the sum of the window values it read, modulo   *)
(*     f - w, into field[idx] before each hop; no sample is recorded.      *)
(*   rt_matrix: init_job() mallocs the matrix, the vectors and the CRS      *)
(*     arrays; main_job() builds a sparse matrix and its compact row       *)
(*     storage and runs the solver on it; no sample is recorded.           *)
(* main is that of rt_transitive (see TransitiveTask) without the warm-up  *)
(* call; which binary runs is the initial choice of program.  The wall     *)
(* clock is abstracted to the number of jobs, JOBS, that start before      *)
(* program_end.  randInt (DISstressmarkRNG, not in the repository) is      *)
(* taken to return any value of its closed range.                          *)
(***************************************************************************)
EXTENDS Naturals, FiniteSets, Functions

CONSTANTS
  Programs,      \* the binaries: "rt_pointer" and/or "rt_update"
  F,             \* f, the field's words
  W,             \* w, the window (odd)
  MAXHOPS,       \* maxhops
  NT,            \* rt_pointer's n, the threads
  Values,        \* the values randInt(0, f - w) may draw
  LOOPS,         \* loops (-k / -l, default 1): main_job() calls per job
  JOBS,          \* the jobs that start before program_end
  MaxJobs,       \* bound on job() calls explored
  CallsCanFail,  \* whether malloc and the liblitmus calls may fail
  DIM, NNZ, OffMagnitudes, DiagMagnitudes, MAXITER  \* rt_matrix's, as in Matrix

MAX_FIELD_SIZE == 16777216

ASSUME Programs \subseteq {"rt_pointer", "rt_update", "rt_matrix"} /\ Programs # {}
ASSUME W \in Nat /\ W % 2 = 1 /\ F \in Nat /\ F - W >= 2
ASSUME MAXHOPS \in Nat \ {0} /\ NT \in Nat \ {0}
ASSUME Values \subseteq 0 .. (F - W) /\ Values # {}
ASSUME LOOPS \in Nat /\ JOBS \in Nat /\ MaxJobs \in Nat /\ JOBS < MaxJobs
ASSUME CallsCanFail \in BOOLEAN

\* initial, minStop and maxStop as both programs set them.
INITIAL == 1
MinStop == F - INITIAL
MaxStop == F - INITIAL

Cells == 0 .. (F - 1)

\* rt_pointer's n threads; rt_update's single walk.
NumThreads(prog) == IF prog = "rt_pointer" THEN NT ELSE 1

\* rt_update's partition before any assignment: its value is undefined.
NONE == -1

VARIABLES
  program,      \* the binary that runs
  stage,        \* where main and job() are
  allocated,    \* whether init_job()'s mallocs succeeded
  jobs,         \* job() calls that ran a job
  iter,         \* job(): iter
  resultIndex,  \* result_index
  field,        \* the field
  kpc,          \* where main_job() is: "thread", "hop", "done"
  l,            \* main_job(): the thread
  index,        \* main_job(): index (rt_update: idx)
  hops,         \* main_job(): hops
  threadHops,   \* rt_pointer's thread[l].hops
  mpc, A, pl, dl, value, colInd, rowStart,  \* rt_matrix's main_job() (Matrix)
  iteration, errAbove

harness == <<program, stage, allocated, jobs, iter, resultIndex>>
kernel == <<field, kpc, l, index, hops, threadHops>>
mxVars == <<mpc, A, pl, dl, value, colInd, rowStart, iteration, errAbove>>
vars == <<harness, kernel, mxVars>>

MX == INSTANCE Matrix

CallOutcomes == IF CallsCanFail THEN {"ok", "fail"} ELSE {"ok"}

-----------------------------------------------------------------------------
\* Mutant: max = partition without the high++ that goes with it.
RECURSIVE SearchNoHighOnMax(_, _, _, _, _, _, _)
SearchNoHighOnMax(fld, idx, ll, max, min, high, partition) ==
  IF ll = W THEN [partition |-> partition, found |-> FALSE, stop |-> W]
  ELSE
    LET x == fld[idx + ll]
        balance == Cardinality({m \in (ll + 1) .. (W - 1) : fld[idx + m] > x})
        Continue(mx, mn, h, p) ==
          IF mn = mx THEN [partition |-> p, found |-> FALSE, stop |-> ll + 1]
          ELSE SearchNoHighOnMax(fld, idx, ll + 1, mx, mn, h, p)
    IN  IF x > max THEN Continue(max, min, high + 1, partition)
        ELSE IF x <= min THEN Continue(max, min, high, partition)
        ELSE IF balance + high = W \div 2
          THEN [partition |-> x, found |-> TRUE, stop |-> ll + 1]
        ELSE IF balance + high > W \div 2
          THEN Continue(max, x, high, x)
        ELSE Continue(x, min, high, x)

(* The for loop over the window of one hop, from window position ll with  *)
(* the bounds max and min, high values known to lie above, and the last   *)
(* candidate partition.  A candidate x (min < x <= max) is the median     *)
(* when the values after it that exceed it, balance, plus high make w/2;  *)
(* otherwise it becomes the new min or max.  found records whether the    *)
(* loop ended on that test, stop how many window values it read.          *)
RECURSIVE Search(_, _, _, _, _, _, _)
Search(fld, idx, ll, max, min, high, partition) ==
  IF ll = W THEN [partition |-> partition, found |-> FALSE, stop |-> W]
  ELSE
    LET x == fld[idx + ll]
        balance == Cardinality({m \in (ll + 1) .. (W - 1) : fld[idx + m] > x})
        \* if (min == max) break; then the next ll
        Continue(mx, mn, h, p) ==
          IF mn = mx THEN [partition |-> p, found |-> FALSE, stop |-> ll + 1]
          ELSE Search(fld, idx, ll + 1, mx, mn, h, p)
    IN  IF x > max THEN Continue(max, min, high + 1, partition)
        ELSE IF x <= min THEN Continue(max, min, high, partition)
        ELSE IF balance + high = W \div 2
          THEN [partition |-> x, found |-> TRUE, stop |-> ll + 1]
        ELSE IF balance + high > W \div 2
          THEN Continue(max, x, high, x)
        ELSE Continue(x, min, high + 1, x)

(* One hop's search: max = MAX_FIELD_SIZE, min = 0, high = 0; rt_pointer   *)
(* starts from partition = field[index], rt_update leaves it unassigned.   *)
WindowSearch(prog, fld, idx) ==
  Search(fld, idx, 0, MAX_FIELD_SIZE, 0, 0,
         IF prog = "rt_pointer" THEN fld[idx] ELSE NONE)

\* Mutant: the next index taken modulo f instead of f - w.
NextIndexModF(r, h) ==
  IF r.partition = NONE THEN 0 .. (F - W - 1) ELSE {(r.partition + h) % F}

(* index = (partition + hops) % (f - w); an unassigned partition (only     *)
(* when no window value exceeds 0) holds whatever the stack did, so the    *)
(* hop may land on any index.                                              *)
NextIndex(r, h) ==
  IF r.partition = NONE THEN 0 .. (F - W - 1)
                        ELSE {(r.partition + h) % (F - W)}

(* rt_update: sum += x for every window value the search read, then        *)
(* field[idx] = sum % (f - w).                                             *)
UpdatedField(fld, idx, r) ==
  [fld EXCEPT ![idx] =
     SumFunctionOnSet(fld, {idx + m : m \in 0 .. (r.stop - 1)}) % (F - W)]

-----------------------------------------------------------------------------
Init ==
  /\ program \in Programs
  /\ stage = "args"
  /\ allocated = FALSE
  /\ jobs = 0 /\ iter = 0 /\ resultIndex = 0
  /\ field = [c \in Cells |-> 0]
  /\ kpc = "done" /\ l = 0 /\ index = 0 /\ hops = 0
  /\ threadHops = [t \in 0 .. (NT - 1) |-> 0]
  /\ MX!Init

(* The option loop and the argument checks (criticality and priority,     *)
(* three arguments, wcet > 0, period > 0, wcet <= period, budget <=       *)
(* period): any failing check calls usage(), which exits.                 *)
ValidateArgs ==
  /\ stage = "args"
  /\ \E valid \in BOOLEAN : stage' = IF valid THEN "reserve" ELSE "usage"
  /\ UNCHANGED <<program, allocated, jobs, iter, resultIndex, kernel, mxVars>>

(* be_migrate_to_domain (with -p) and reservation_create: bail_out on     *)
(* failure.                                                               *)
Reserve ==
  /\ stage = "reserve"
  /\ \E outcome \in CallOutcomes :
       stage' = IF outcome = "ok" THEN "init_job" ELSE "bail"
  /\ UNCHANGED <<program, allocated, jobs, iter, resultIndex, kernel, mxVars>>

(* rt_pointer's init_job(): malloc thread and field (returning -1 if      *)
(* either fails, which main ignores), set every thread's initial,         *)
(* minStop and maxStop, fill the field with randInt(0, f - w).            *)
InitJobPointer ==
  /\ stage = "init_job"
  /\ program = "rt_pointer"
  /\ \E ok \in IF CallsCanFail THEN BOOLEAN ELSE {TRUE} :
       /\ allocated' = ok
       /\ IF ok THEN field' \in [Cells -> Values] ELSE field' = field
  /\ stage' = "rtsetup"
  /\ UNCHANGED <<program, jobs, iter, resultIndex, kpc, l, index, hops,
                 threadHops, mxVars>>

(* rt_update's init_job(): malloc the field (returning -1 if it fails,    *)
(* which main ignores) and seed the generators; main_job() fills it.      *)
InitJobUpdate ==
  /\ stage = "init_job"
  /\ program = "rt_update"
  /\ allocated' \in IF CallsCanFail THEN BOOLEAN ELSE {TRUE}
  /\ stage' = "rtsetup"
  /\ UNCHANGED <<program, jobs, iter, resultIndex, kernel, mxVars>>

(* rt_matrix's init_job(): asserts on its constants and mallocs matrixA,  *)
(* the vectors and value, col_ind and row_start, none of them checked; a   *)
(* NULL one makes main_job() fault.                                        *)
InitJobMatrix ==
  /\ stage = "init_job"
  /\ program = "rt_matrix"
  /\ allocated' \in IF CallsCanFail THEN BOOLEAN ELSE {TRUE}
  /\ stage' = "rtsetup"
  /\ UNCHANGED <<program, jobs, iter, resultIndex, kernel, mxVars>>

(* set_rt_task_param and set_mc2_task_param (bail_out on failure),        *)
(* init_litmus (its result is not stored: the test after it re-reads the  *)
(* ret of set_mc2_task_param, which is 0 here), mlockall, set_page_color, *)
(* task_mode(LITMUS_RT_TASK) and, with -w, wait_for_ts_release (bail_out  *)
(* on failure).                                                           *)
RtSetup ==
  /\ stage = "rtsetup"
  /\ \E outcome \in CallOutcomes :
       stage' = IF outcome = "ok" THEN "job" ELSE "bail"
  /\ UNCHANGED <<program, allocated, jobs, iter, resultIndex, kernel, mxVars>>

\* Mutant: job() without the program_end test.
JobBeginNoEnd ==
  /\ stage = "job"
  /\ jobs < MaxJobs
  /\ stage' = "loop"
  /\ iter' = 0
  /\ jobs' = jobs + 1
  /\ UNCHANGED <<program, allocated, resultIndex, kernel, mxVars>>

(* job(): returns 0 once wctime() > program_end, ending main's loop;      *)
(* otherwise iter = 0 (and, in rt_pointer, t = get_cycles()).             *)
JobBegin ==
  /\ stage = "job"
  /\ jobs < MaxJobs
  /\ IF jobs = JOBS
       THEN /\ stage' = "leave"
            /\ UNCHANGED <<iter, jobs>>
       ELSE /\ stage' = "loop"
            /\ iter' = 0
            /\ jobs' = jobs + 1
  /\ UNCHANGED <<program, allocated, resultIndex, kernel, mxVars>>

(* rt_update's main_job() begins by filling the field with                *)
(* randInt(0, f - w); rt_pointer's leaves it as init_job() filled it.     *)
RefillField ==
  IF program = "rt_update" THEN field' \in [Cells -> Values]
                           ELSE field' = field

\* The start of a main_job() call in the program that runs.
StartMainJob ==
  IF program = "rt_matrix"
    THEN /\ MX!Start
         /\ UNCHANGED <<field, kpc, l>>
    ELSE /\ RefillField
         /\ kpc' = "thread" /\ l' = 0
         /\ UNCHANGED mxVars

(* while (iter++ < loops) main_job(); then sleep_next_period(), after     *)
(* rt_pointer's result[result_index++] = get_cycles() - t (commented out  *)
(* in rt_update and rt_matrix).  A main_job() call on a NULL array faults. *)
LoopTest ==
  /\ stage = "loop"
  /\ iter' = iter + 1
  /\ IF iter < LOOPS
       THEN IF allocated
              THEN /\ stage' = "main_job"
                   /\ StartMainJob
              ELSE /\ stage' = "segv"
                   /\ UNCHANGED <<field, kpc, l, mxVars>>
       ELSE /\ stage' = "job"
            /\ UNCHANGED <<field, kpc, l, mxVars>>
  /\ resultIndex' = IF iter >= LOOPS /\ program = "rt_pointer"
                      THEN resultIndex + 1 ELSE resultIndex
  /\ UNCHANGED <<program, allocated, jobs, index, hops, threadHops>>

\* One step of rt_matrix's main_job() (Matrix).
MatrixStep ==
  /\ stage = "main_job"
  /\ program = "rt_matrix"
  /\ MX!Next
  /\ UNCHANGED <<harness, kernel>>

\* rt_matrix's main_job() returns to job()'s loop.
MatrixReturn ==
  /\ stage = "main_job"
  /\ program = "rt_matrix"
  /\ mpc = "done"
  /\ stage' = "loop"
  /\ UNCHANGED <<program, allocated, jobs, iter, resultIndex, kernel, mxVars>>

(* main_job(): rt_pointer's for loop over the threads, or rt_update's     *)
(* single walk: hops = 0, index = initial; after the last one main_job()  *)
(* returns.                                                               *)
ThreadBegin ==
  /\ stage = "main_job"
  /\ kpc = "thread"
  /\ IF l < NumThreads(program)
       THEN /\ kpc' = "hop"
            /\ hops' = 0
            /\ index' = INITIAL
            /\ stage' = stage
       ELSE /\ stage' = "loop"
            /\ UNCHANGED <<kpc, hops, index>>
  /\ UNCHANGED <<program, allocated, jobs, iter, resultIndex, field, l,
                 threadHops, mxVars>>

\* The while loop's test.
HopGuard == hops < MAXHOPS /\ ~(index >= MinStop /\ index < MaxStop)

(* rt_pointer, one iteration of the while loop: the window search, then   *)
(* index = (partition + hops) % (f - w) and hops++.                       *)
HopPointer ==
  /\ stage = "main_job"
  /\ program = "rt_pointer"
  /\ kpc = "hop"
  /\ HopGuard
  /\ index' \in NextIndex(WindowSearch(program, field, index), hops)
  /\ hops' = hops + 1
  /\ UNCHANGED <<harness, field, kpc, l, threadHops, mxVars>>

(* rt_update, one iteration: the window search summing what it reads,     *)
(* field[idx] = sum % (f - w), then the hop as in rt_pointer.             *)
HopUpdate ==
  /\ stage = "main_job"
  /\ program = "rt_update"
  /\ kpc = "hop"
  /\ HopGuard
  /\ LET r == WindowSearch(program, field, index)
     IN  /\ field' = UpdatedField(field, index, r)
         /\ index' \in NextIndex(r, hops)
  /\ hops' = hops + 1
  /\ UNCHANGED <<harness, kpc, l, threadHops, mxVars>>

(* The while loop ends: rt_pointer stores thread[l].hops = hops; then the *)
(* next thread.                                                           *)
ThreadEnd ==
  /\ stage = "main_job"
  /\ kpc = "hop"
  /\ ~HopGuard
  /\ threadHops' = IF program = "rt_pointer"
                     THEN [threadHops EXCEPT ![l] = hops] ELSE threadHops
  /\ l' = l + 1
  /\ kpc' = "thread"
  /\ UNCHANGED <<harness, field, index, hops, mxVars>>

(* task_mode(BACKGROUND_TASK) (bail_out on failure), reservation_destroy, *)
(* post_job() (frees the arrays), printing rt_pointer's samples.          *)
Leave ==
  /\ stage = "leave"
  /\ \E outcome \in CallOutcomes :
       stage' = IF outcome = "ok" THEN "done" ELSE "bail"
  /\ UNCHANGED <<program, allocated, jobs, iter, resultIndex, kernel, mxVars>>

Next ==
  \/ ValidateArgs \/ Reserve \/ InitJobPointer \/ InitJobUpdate
  \/ InitJobMatrix \/ RtSetup \/ JobBegin \/ LoopTest \/ ThreadBegin
  \/ HopPointer \/ HopUpdate \/ ThreadEnd \/ MatrixStep \/ MatrixReturn
  \/ Leave

(* One thread of control that always gets the CPU: an enabled step of it  *)
(* eventually happens.                                                    *)
Spec == Init /\ [][Next]_vars /\ WF_vars(Next)

-----------------------------------------------------------------------------
Exited == stage \in {"done", "usage", "bail", "segv"}

(* The type invariant; index in 0 .. f - w - 1 keeps every window read    *)
(* inside the field, and rt_update's writes keep the values in range.     *)
TypeOK ==
  /\ program \in Programs
  /\ stage \in {"args", "reserve", "init_job", "rtsetup", "job", "loop",
                "main_job", "leave", "done", "usage", "bail", "segv"}
  /\ jobs \in 0 .. JOBS /\ iter \in 0 .. (LOOPS + 1)
  /\ resultIndex \in 0 .. jobs
  /\ field \in [Cells -> 0 .. (F - W)]
  /\ kpc \in {"thread", "hop", "done"} /\ l \in 0 .. NT
  /\ index \in 0 .. (F - W - 1) /\ hops \in 0 .. MAXHOPS
  /\ MX!TypeOK

(* Reference: the median of the window at idx, the value with at most     *)
(* w/2 window values above it and at most w/2 below it.                   *)
WindowMedian(fld, idx) ==
  LET win == [m \in 0 .. (W - 1) |-> fld[idx + m]]
      Above(v) == Cardinality({m \in DOMAIN win : win[m] > v})
      Below(v) == Cardinality({m \in DOMAIN win : win[m] < v})
  IN  CHOOSE v \in {win[m] : m \in DOMAIN win} :
        Above(v) <= W \div 2 /\ Below(v) <= W \div 2

(* The window search of main_job() in both programs: whenever it stops on *)
(* balance + high = w/2, the partition it hops by is the window's median, *)
(* duplicates in the window included, and on rt_update's field as its     *)
(* earlier hops rewrote it.                                               *)
MedianWhenFound ==
  kpc = "hop" =>
    LET r == WindowSearch(program, field, index)
    IN  r.found => r.partition = WindowMedian(field, index)

(* rt_matrix's compact row storage: after every create_CRS, the entries    *)
(* matrixMulvector reads for each row are exactly that row's nonzero       *)
(* entries (Matrix).                                                       *)
CRSMatchesDense == MX!CRSMatchesDense

(* The three programs terminate: every walk and every main_job() call     *)
(* ends, job() returns 0 once program_end has passed, and main returns or *)
(* exits.                                                                 *)
Termination == <>Exited

=============================================================================
