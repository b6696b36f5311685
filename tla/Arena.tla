------------------------------- MODULE Arena -------------------------------
(***************************************************************************)
(* The cache-working-set memory-access engine of mc2spin.c, mc2measure.c  *)
(* and dio_raw.c (the three copies are the same code).                     *)
(*                                                                         *)
(* alloc_arena maps 2 * arena_sz bytes; init_arena fills the first         *)
(* arena_sz bytes (NumLines cache lines) with their own index and turns    *)
(* them into a cycle with Sattolo's shuffle, drawing every index with      *)
(* randrange; loop_once then either chases the pointers from a random      *)
(* start (random_start + random_walk) or, in mc2measure with -a 1, walks   *)
(* the lines in order from sequential_start (sequential_walk).             *)
(*                                                                         *)
(* main (modelled on mc2measure's) checks its arguments and sets up the    *)
(* reservation and task (usage() or bail_out() on failure), allocates and  *)
(* initialises the arena, calls init_litmus, runs one warm-up loop_once,   *)
(* becomes a real-time task and calls job(), loops loop_once calls a job,  *)
(* until program_end; then it tears down and unmaps the arena.  The jobs   *)
(* are abstracted to the loop_once calls they make, at most MaxLoops.      *)
(*                                                                         *)
(* A cache line is abstracted to its first int, line[0]: random_walk only  *)
(* reads and writes line[0], Sattolo swaps whole lines, and the other ints *)
(* only feed the checksum, which no property looks at.                     *)
(***************************************************************************)
EXTENDS RandRange, Sequences, FiniteSets, Functions

CONSTANTS
  NumLines,     \* wss * CACHELINES_IN_1KB: the lines init_arena links and
                \* random_walk visits (numlines); the mapping is twice this
  WriteCycle,   \* the write_cycle argument of random_walk / sequential_walk
  AccessTypes,  \* the access types main may be given: "random"
                \* (random_walk) and/or "sequential" (mc2measure -a 1)
  MaxLoops      \* bound on the number of loop_once calls

ASSUME NumLines \in Nat \ {0, 1}
ASSUME RAND_MAX >= NumLines
ASSUME WriteCycle \in Nat
ASSUME AccessTypes \subseteq {"random", "sequential"} /\ AccessTypes # {}
ASSUME MaxLoops \in Nat \ {0}

\* INTS_IN_CACHELINE: CACHELINE_SIZE 32 bytes of 4-byte ints.
INTS_IN_CACHELINE == 8

\* The mapping: alloc_arena(arena_sz * 2, ...) in every caller.
Lines == 0 .. (2 * NumLines - 1)

\* The lines init_arena links into the cycle.
WorkingSet == 0 .. (NumLines - 1)

VARIABLES
  phase,        \* where main is
  arena,        \* line[0] of every line of the mapping
  loops,        \* loop_once calls so far
  seqPos,       \* the static pos of sequential_start
  touched,      \* lines the last loop_once read, in order
  prevTouched,  \* lines the loop_once before it read
  actype        \* main's actype (-a), passed to every loop_once

vars == <<phase, arena, loops, seqPos, touched, prevTouched, actype>>

-----------------------------------------------------------------------------
Swap(a, x, y) == [a EXCEPT ![x] = a[y], ![y] = a[x]]

\* First loop of init_arena: every line of the working set holds its index.
FillArena(a) == [k \in Lines |-> IF k \in WorkingSet THEN k ELSE a[k]]

\* Mutant: the shuffle draws j from [0, i] (Fisher-Yates) instead of [0, i).
RECURSIVE SattoloShuffleInclusive(_, _)
SattoloShuffleInclusive(a, i) ==
  IF 1 < i
    THEN UNION { SattoloShuffleInclusive(Swap(a, i - 1, j), i - 1) :
                   j \in RandRange(0, i) }
    ELSE {a}

(* Second loop of init_arena, while (1 < i--) { j = randrange(0, i);      *)
(* swap(arena[j], arena[i]) }: the set of arenas it can produce.          *)
RECURSIVE SattoloShuffle(_, _)
SattoloShuffle(a, i) ==
  IF 1 < i
    THEN UNION { SattoloShuffle(Swap(a, i - 1, j), i - 1) :
                   j \in RandRange(0, i - 1) }
    ELSE {a}

\* random_start: arena + randrange(0, (wss * 1024) / sizeof(cacheline_t)).
RandomStart == RandRange(0, NumLines)

(* random_walk: numlines steps of next = arena[next].line[0]; with a      *)
(* nonzero write_cycle, a step whose w % write_cycle == write_cycle - 1   *)
(* writes next back into the line it came from.  w is set to 0 and never  *)
(* changed by the loop.                                                   *)
WritesBack(w) == WriteCycle # 0 /\ (w % WriteCycle) = WriteCycle - 1

WalkStep(a, which_line, next, w) ==
  IF WritesBack(w) THEN [a EXCEPT ![which_line] = next] ELSE a

RECURSIVE RandomWalk(_, _, _, _, _)
RandomWalk(a, next, i, w, seen) ==
  IF i = NumLines
    THEN [arena |-> a, touched |-> seen]
    ELSE LET which_line == next
             nxt        == a[next]
         IN  RandomWalk(WalkStep(a, which_line, nxt, w), nxt, i + 1, w,
                        Append(seen, which_line))

\* Mutant: sequential_start without the wrap to the start of the arena.
SequentialStartNoWrap(pos) == [mem |-> pos, pos |-> pos + NumLines]

(* sequential_start: wrap to the start of the arena when pos + numlines  *)
(* exceeds (wss * 1024) / sizeof(cacheline_t), which is numlines itself. *)
SequentialStart(pos) ==
  IF pos + NumLines > NumLines
    THEN [mem |-> 0, pos |-> NumLines]
    ELSE [mem |-> pos, pos |-> pos + NumLines]

(* sequential_walk over wss * INTS_IN_1KB ints from mem: int i is         *)
(* incremented when i % write_cycle == write_cycle - 1; line[0] of line   *)
(* mem + k is int k * INTS_IN_CACHELINE.                                  *)
SequentialWalk(a, mem) ==
  [k \in Lines |->
     IF /\ k \in mem .. (mem + NumLines - 1)
        /\ WriteCycle > 0
        /\ ((k - mem) * INTS_IN_CACHELINE) % WriteCycle = WriteCycle - 1
       THEN a[k] + 1
       ELSE a[k]]

\* Every index randrange can hand init_arena or random_start lies inside
\* the mapping (an index past it would fault, which is not modelled).
ASSUME \A l \in 1 .. NumLines : \A j \in RandRange(0, l) : j \in Lines

-----------------------------------------------------------------------------
Init ==
  /\ phase = "args"
  /\ arena = [k \in Lines |-> 0]
  /\ loops = 0
  /\ seqPos = 0
  /\ touched = <<>>
  /\ prevTouched = <<>>
  /\ actype \in AccessTypes

(* The option loop (-a sets actype) and the argument checks: three        *)
(* arguments, wcet > 0, period > 0, wcet <= period; usage() exits.         *)
ValidateArgs ==
  /\ phase = "args"
  /\ \E ok \in BOOLEAN : phase' = IF ok THEN "setup" ELSE "exit"
  /\ UNCHANGED <<arena, loops, seqPos, touched, prevTouched, actype>>

(* be_migrate_to_domain (with -p), budget <= period (usage() otherwise),  *)
(* reservation_create, set_rt_task_param and set_mc2_task_param: any      *)
(* failure bails out.                                                      *)
Setup ==
  /\ phase = "setup"
  /\ \E ok \in BOOLEAN : phase' = IF ok THEN "start" ELSE "exit"
  /\ UNCHANGED <<arena, loops, seqPos, touched, prevTouched, actype>>

(* alloc_arena: mmap of an anonymous (zero-filled) mapping, taken to     *)
(* succeed (MAP_FAILED would pass assert(arena) and fault in init_arena). *)
AllocArena ==
  /\ phase = "start"
  /\ phase' = "allocated"
  /\ UNCHANGED <<arena, loops, seqPos, touched, prevTouched, actype>>

InitArena ==
  /\ phase = "allocated"
  /\ arena' \in SattoloShuffle(FillArena(arena), NumLines)
  /\ phase' = "initialized"
  /\ UNCHANGED <<loops, seqPos, touched, prevTouched, actype>>

\* init_litmus(): bail_out unless it returns 0; then the warm-up loop_once.
InitLitmus ==
  /\ phase = "initialized"
  /\ \E ok \in BOOLEAN : phase' = IF ok THEN "warmup" ELSE "exit"
  /\ UNCHANGED <<arena, loops, seqPos, touched, prevTouched, actype>>

(* After the warm-up: set_page_color, mlockall, task_mode(LITMUS_RT_TASK) *)
(* and, with -w, wait_for_ts_release; bail_out on failure.                 *)
RtSetup ==
  /\ phase = "rtsetup"
  /\ \E ok \in BOOLEAN : phase' = IF ok THEN "running" ELSE "exit"
  /\ UNCHANGED <<arena, loops, seqPos, touched, prevTouched, actype>>

\* A loop_once call is main's warm-up or one of a job's.
AfterLoopOnce == IF phase = "warmup" THEN "rtsetup" ELSE phase

\* loop_once with the random walk (mc2spin, dio_raw, mc2measure -a 0).
LoopOnceRandom ==
  /\ phase \in {"warmup", "running"}
  /\ actype = "random"
  /\ loops < MaxLoops
  /\ \E s \in RandomStart :
       LET r == RandomWalk(arena, s, 0, 0, <<>>)
       IN  /\ arena' = r.arena
           /\ touched' = r.touched
  /\ prevTouched' = touched
  /\ loops' = loops + 1
  /\ phase' = AfterLoopOnce
  /\ UNCHANGED <<seqPos, actype>>

\* loop_once with the sequential walk (mc2measure -a 1).
LoopOnceSequential ==
  /\ phase \in {"warmup", "running"}
  /\ actype = "sequential"
  /\ loops < MaxLoops
  /\ LET s == SequentialStart(seqPos)
     IN  /\ seqPos' = s.pos
         /\ arena' = SequentialWalk(arena, s.mem)
         /\ touched' = [k \in 1 .. NumLines |-> s.mem + k - 1]
  /\ prevTouched' = touched
  /\ loops' = loops + 1
  /\ phase' = AfterLoopOnce
  /\ UNCHANGED actype

(* job() returns 0 once program_end has passed; task_mode(BACKGROUND_TASK) *)
(* (bail_out on failure), reservation_destroy, then dealloc_arena unmaps  *)
(* the arena and main returns.                                            *)
DeallocArena ==
  /\ phase = "running"
  /\ \E ok \in BOOLEAN : phase' = IF ok THEN "done" ELSE "exit"
  /\ UNCHANGED <<arena, loops, seqPos, touched, prevTouched, actype>>

Next ==
  \/ ValidateArgs
  \/ Setup
  \/ InitLitmus
  \/ RtSetup
  \/ AllocArena
  \/ InitArena
  \/ LoopOnceRandom
  \/ LoopOnceSequential
  \/ DeallocArena

Spec == Init /\ [][Next]_vars

-----------------------------------------------------------------------------
TypeOK ==
  /\ phase \in {"args", "setup", "start", "allocated", "initialized", "warmup",
                "rtsetup", "running", "done", "exit"}
  /\ arena \in [Lines -> Nat]
  /\ loops \in 0 .. MaxLoops
  /\ seqPos \in Nat
  /\ touched \in Seq(Nat)
  /\ prevTouched \in Seq(Nat)
  /\ actype \in AccessTypes

(* The benchmark's promise: every random walk touches each line of the    *)
(* working set exactly once (numlines steps around the Sattolo cycle from *)
(* wherever random_start put it), so no line is re-read from the cache.   *)
(* It rests on randrange staying in range in init_arena and random_start, *)
(* on the shuffle being Sattolo's and on write-back preserving the links. *)
WalkTouchesWorkingSet ==
  (actype = "random" /\ touched # <<>>) =>
     /\ Len(touched) = NumLines
     /\ Range(touched) = WorkingSet

(* Every line a loop_once reads lies inside the mapping alloc_arena made: *)
(* sequential_start's wrap keeps pos + numlines within the arena.         *)
TouchedWithinArena ==
  Range(touched) \subseteq Lines

(* The comment in sequential_start: "Don't allow re-use between           *)
(* allocations.  At most half of the arena may be used at any one time":  *)
(* two consecutive sequential walks read disjoint lines.                  *)
NoReuseBetweenSequentialWalks ==
  (actype = "sequential" /\ prevTouched # <<>>) =>
     Range(touched) \cap Range(prevTouched) = {}

=============================================================================
