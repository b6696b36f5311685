# TLA+ models of liblitmus's benchmark programs (`src/bin`)

The repository's `src/bin` holds the real-time benchmark programs built on top
of liblitmus:
- spinners that walk a cache working set (`mc2spin`, `mc2measure`,
  `dio_raw`, `dio_dmaboth`);
- the DIS stressmarks (`rt_transitive`, `rt_update`, `rt_pointer`, `rt_field`,
  `rt_matrix`);
- message and network benchmarks (`rt_msg`, `msg_bench`,
  `rt_udpsend`/`rt_udprecv`);
- webcam benchmarks (`frame_poller`, `rt_camera`).

liblitmus itself, the kernel behind it, `webcam_lib` and `DISstressmarkRNG` are
not in the repository. Their calls are modelled by their outcomes (success or
failure), and `randInt` by the set of values its range allows.

## The system

Every program is one sequential process with static globals, and almost all
share one skeleton in `main`:
1. the option loop and the argument checks (`usage()` exits);
2. `be_migrate_to_domain`, `reservation_create`, `set_rt_task_param`,
   `set_mc2_task_param`, `init_litmus`, `task_mode(LITMUS_RT_TASK)` and
   `wait_for_ts_release` (`bail_out()` exits on failure);
3. a workload-specific `init_job()` and, in some programs, a warm-up call;
4. `while (job(...))`: each job runs the workload `loops` times, may record a
   cycle count in `result[result_index++]`, and sleeps to the next period,
   until the wall clock passes `program_end`;
5. `task_mode(BACKGROUND_TASK)`, `reservation_destroy`, freeing, printing.

Nothing in a process runs concurrently. The hard behaviour therefore lies in
long call sequences across jobs (state that survives in statics, the arena and
the data buffers), in the index arithmetic at its edges, in failing calls whose
results are ignored, and in the timing of the budget loop of `mc2spin`,
`dio_raw` and `dio_dmaboth` against its reservation. The only pair of interacting processes is the UDP sender and
receiver. They interact through the receiver socket's queue on the loopback
interface, which drops datagrams; `UdpPair` models them together.

## Modules

| Module | Models | Source |
|---|---|---|
| `RandRange` | `randrange(min, max)`: the set of values `rand() / (RAND_MAX / limit)` can give, minus the one value the loop retries | `mc2measure.c` (identical copies in `mc2spin.c`, `dio_raw.c`) |
| `MCRandRange` | every `randrange(0, l)` call for `l` up to 98304 lines, with glibc's `RAND_MAX` | |
| `Arena` | the cache-working-set engine and `mc2measure`'s `main` around it | `mc2measure.c` |
| `MCArena` | `Arena` with glibc's `RAND_MAX` | |
| `RtSpin` | the CPU-budget and webcam programs' `main` and `job()` on a discrete clock, inside their polling reservation | `mc2spin.c`, `dio_raw.c`, `dio_dmaboth.c`, `frame_poller.c`, `rt_camera.c` |
| `Transitive` | `rt_transitive`'s `main_job` (Floyd-Warshall with buffer swap) | `rt_transitive.c` |
| `TransitiveSpec` | what one `main_job` call promises: draw a graph of at most `m` edges, then hold its least-weight walks, in one step | `rt_transitive.c` |
| `TransitiveTask` | all of `rt_transitive`: `main` + `init_job` + warm-up + `job()` + `K == INSTANCE Transitive` | `rt_transitive.c` |
| `FieldScan` | `rt_field`'s `main_job` (delimiter scan, subfield statistics) | `rt_field.c` |
| `FieldTask` | all of `rt_field`: `main` + `init_job` + `job()` + `K == INSTANCE FieldScan` | `rt_field.c` |
| `Matrix` | `rt_matrix`'s `main_job`: `initMatrix`, `create_CRS`, the rows `matrixMulvector` reads and the control of `biConjugateGradient` | `rt_matrix.c` |
| `HopTask` | all of `rt_pointer`, `rt_update` and `rt_matrix`, which share `main` and `job()`; `rt_matrix`'s `main_job` is `MX == INSTANCE Matrix` | `rt_pointer.c`, `rt_update.c`, `rt_matrix.c` |
| `MsgQueue` | all of `rt_msg` and `msg_bench`: the SysV queue round trip and its sample indices | `rt_msg.c`, `msg_bench.c` |
| `UdpPair` | `rt_udpsend` and `rt_udprecv` together: both `main`s, `job()`s and `loop_once`s, over the receive queue | `rt_udpsend.c`, `rt_udprecv.c` |

`PROJECT.json` ("map") names, for every definition, the lines it translates.

### How state and actions correspond to the code

- **`Arena`**
  - `arena` is `line[0]` of every line of the `2 * arena_sz` mapping. The other
    ints of a line only feed a checksum.
  - `seqPos` is the static `pos` of `sequential_start`. `touched` and
    `prevTouched` are the lines the last two `loop_once` calls read.
  - Actions, in `main`'s order: `ValidateArgs`, `Setup`, `AllocArena`,
    `InitArena` (fill plus Sattolo shuffle), `InitLitmus`, the warm-up
    `LoopOnceRandom`/`LoopOnceSequential` (`-a`), `RtSetup`, the jobs'
    `loop_once` calls, then `DeallocArena` with the tear-down.
  - The shuffle (`SattoloShuffle`) and `RandomWalk` are RECURSIVE operators.
- **`RtSpin`**
  - `wall` and `cpu` are `wctime()` and `cputime()` in ticks.
  - The reservation is a polling server that lets the task run during the first
    `budget` ticks of each period. `Execute` and `Throttled` are a tick with and
    without CPU.
  - `job()`'s loop predicts from `last_loop` whether another `loop_once` fits;
    `LoopDone` includes the emergency-exit test.
  - `program` is `mc2spin`, `dio_raw` or `dio_dmaboth`, chosen in `Init`
    with its options (`dmaRate`, `delta`). After `loop_once`, `SendDma`
    (`dio_raw`: a read every `dma_rate` iterations, SIGFPE at `dma_rate` 0)
    or `Nanosleep` (`dio_dmaboth`: its two reads, then `nanosleep`) sets how
    many ticks the task waits off the CPU; `Blocked` is one such tick.
  - `fdOk` is whether the unchecked `open("/dev/sda")` succeeded. A read on
    a failed descriptor returns at once (`ReadWait` is 0), and `JobEnd`'s
    `lseek` then bails `dio_dmaboth` out after its first job.
  - The dio programs check for two positional arguments and read a third;
    `ValidateArgs` may end in `"crash"` for them (`ArgvCrash`).
  - `frame_poller` and `rt_camera` set up the camera inside `Setup`.
    `WebcamSetup` takes the number of resolutions the camera lists and
    `frame_poller`'s `-k` index as inputs. `PollerSelect` and `CameraSelect`
    are the two `SelectResolution`s: `rt_camera`'s forces index 1. A failure
    ends in `"exit1"`, which is `return 1` or `exit(1)`.
  - `loopMode` 0 is a `job()` that calls `loop_once` once, with no emergency
    test. This is `rt_camera`'s `job()` and `frame_poller`'s without `-l`;
    with `-l`, `frame_poller` runs the budget loop.
  - `frame_poller`'s `loop_once` polls for its frame on the CPU and ignores
    the outcome (`PollerFrame`). In `rt_camera`'s, any failing call exits in
    the middle of a real-time job (`CameraFrameError`).
- **`TransitiveTask`, `FieldTask`**
  - Composites: the kernel module is instantiated with the same variable names.
    `MainJobStep` is `K!Next` while `main_job` runs, and the harness variables
    (`stage`, `allocated`, `jobs`, `iter`, `resultIndex`) stay unchanged.
  - A `main_job()` call resets only the state the code overwrites before
    reading it. `FieldTask` keeps the bytes past `f`, which carry over between
    calls in the code. A failed `malloc`, whose result `main` ignores, leads to
    the `"segv"` stage at the first call.
- **`HopTask`**
  - `program` is the binary that runs, chosen in `Init`.
  - `Search` is the `for (ll ...)` loop as a RECURSIVE operator returning the
    partition, whether it stopped on `balance + high == w/2`, and how many
    values it read. The last of these is `rt_update`'s `sum`.
  - `HopPointer`/`HopUpdate` are one iteration of the `while` loop.
    `ThreadBegin`/`ThreadEnd` are `rt_pointer`'s loop over its threads.
  - `rt_update` leaves `partition` unassigned on an all-zero window. Reading it
    is undefined; the model lets the hop land on any index.
  - `rt_matrix`'s `main` is `rt_update`'s, so the harness actions are shared.
    `StartMainJob` begins a call with `MX!Start`. `MatrixStep` is one step of
    `MX!Next`, and `MatrixReturn` goes back to `job()`'s loop.
- **`Matrix`**
  - The doubles are small signed integers: what `create_CRS` and
    `matrixMulvector` depend on is which entries are zero.
    `randomNonZeroFloat` gives any value of either sign whose magnitude is in
    `OffMagnitudes`/`DiagMagnitudes`; `randomUInt` gives any value of its
    range.
  - `PlacePair` is one pass of the pair loop. The RECURSIVE `Probe` is the
    `while` loop that looks for a free cell. `SetDiagonal` is one pass of the
    diagonal loop, adding `ColumnSum` when the drawn value is below it.
  - `StoreCRS` is `create_CRS`. The RECURSIVE `CrsScan` is its two bounded
    loops, ending with `row_start[i] = cnt`. `value`, `col_ind` and
    `row_start` persist from one call to the next, as the arrays do.
  - `RowRange` gives the slots `matrixMulvector` reads for a row.
  - `SolveBegin`, `Iterate` and `SolveEnd` are `biConjugateGradient`'s
    control. `iteration` and `errAbove` (error > errorTolerance) decide the
    `while` test (`KeepIterating`). The first test always enters the loop:
    with x = 0 the error is |b| / |b| = 1, and `init_job` asserts the
    tolerance is below 0.5. Each iteration's new error may be on either side
    of the tolerance (`ErrorAboveTolerance`); a NaN error compares false and
    ends the loop like a small one. `MAXITER` stands for `maxIterations`.
- **`MsgQueue`**
  - `queue` is the SysV queue as a sequence. `queueOk` is `msgget`'s
    result: `rt_msg` never tests it, so a failed `msgget` ends the program at
    the warm-up `msgsnd` (after `s_index++`); `msg_bench` tests it at once.
  - `sTag`/`rTag` record which round trip wrote each slot of
    `s_result`/`r_result`. A cycle count is abstracted to "slow" (over 10000) or
    not, chosen at `Receive`.
  - `rt_msg`'s `Receive` applies the outlier rewind. `msg_bench`'s
    `BenchReceive` keeps every sample.

- **`UdpPair`**
  - `queued` is the receiver socket's queue. All datagrams have the same
    length (`segment_size`), so it is a count. A send is dropped when the
    receiver has no bound socket (before `bind`, after its exit) or
    `RCVBUF` datagrams are queued; `sendto` still succeeds then.
  - `SSend` is one `sendto`: success, an `ENOBUFS` retry, or another result
    (`exit(-1)`).
  - `RRecvFirst`, `RPoll` and `RPollEnd` are `loop_once`: the first `recv`,
    one iteration of the poll loop, and its exit. `RAfter` is the rest of
    `job()`'s loop body.
  - `recv(len)` returns `min(segment_size, len)`. The warm-up call
    (`RWarmUp`) runs with `max_seg` still 0, so it dequeues a datagram and
    returns 0, or returns -1.
  - The receiver's `cputime()` is its number of `recv` calls. The emergency
    exit is a nondeterministic break in the last job.
  - `jobRead` is a history variable: the datagrams the current job dequeued.
- **`TransitiveSpec`** (refinement)
  - `TransitiveTask` maps onto it: `phase` is `"drawn"` while the closure
    rounds run and `"done"` once `main_job` is done, `graph` is the history
    variable of `Transitive`, and `result` is `din` when done.
  - `Walk` there is a direct recursive definition of least-weight walks,
    independent of Floyd-Warshall's round structure.

The wall clock of the DIS, message and arena programs is abstracted to the
number of jobs (`JOBS`) that start before `program_end`. `MaxJobs` bounds the
`job()` calls explored; it only matters for the mutants that drop the
`program_end` test.

## Runs

| Run | Cfg | Expect | Distinct states | What it shows |
|---|---|---|---|---|
| `arena` | `MCArena.cfg` | pass | 4474 | with glibc's `RAND_MAX`, every random walk (after any shuffle and write-backs) touches each working-set line exactly once, and sequential walks stay in the mapping, across `main`'s failure exits |
| `randrange_glibc` | `MCRandRange.cfg` | violation | (constant check) | `randrange(0, l)` returns values above `l` for `l >= 46409` |
| `arena_sequential_reuse` | `MCArena_seqreuse.cfg` | violation | 101 | `sequential_start` returns the arena start every time, so consecutive walks reuse lines, against its comment |
| `rtspin` | `RtSpin.cfg` | pass | 60118 | the five budget-loop and webcam programs stop for every budget, `dma_rate`, `delta`, camera and `-k` (`Termination`); every dio job whose device opened reads it (`EveryDioJobReadsTheDisk`) |
| `transitive_closure` | `TransitiveTask.cfg` | pass | 79718 | every `main_job` (warm-up and jobs) implements `TransitiveSpec` and keeps Floyd-Warshall's round invariant; the program terminates |
| `field_scan` | `FieldTask.cfg` | pass | 206811 | every `main_job` computes the statistics of its field, also starting on past-end bytes rewritten by an earlier call; termination |
| `field_scan_past_end` | `FieldScan_end.cfg` | violation | 28728 | a delimiter starting in the last byte is matched against bytes past `f` |
| `field_scan_subfield_wrap` | `FieldScan_wrap.cfg` | violation | 27059 | the `unsigned char` subfield counter makes the loop bound dead and wraps |
| `msgqueue` | `MsgQueue.cfg` | pass | 191 | send and receive samples stay paired in both programs, across rewinds, the warm-up reset, an unchecked failed `msgget` and failing calls (`SamplesPaired`) |
| `msgqueue_overflow` | `MsgQueue_overflow.cfg` | violation | 144 | in `rt_msg` (the cfg leaves out `msg_bench`, whose own overflow would be the shorter trace), nothing bounds `s_index` by `MAX_SAMPLES` |
| `udp_pair` | `UdpPair.cfg` | pass | 56858 | see below |
| `hop_stressmarks` | `HopTask.cfg` | pass | 126480 | every hop keeps its window in the field; a search that stops on `balance + high == w/2` has found the median; after every `create_CRS` the rows `matrixMulvector` reads are exactly the nonzero entries of the dense matrix (`CRSMatchesDense`); the three programs terminate |

`udp_pair` checks the two programs together. Sends interleave with every
`recv`, datagrams are dropped when the queue is full or the port is unbound,
and datagrams are cut to `max_seg`. Under all of that:
- each receiver job credits exactly the datagrams it dequeues;
- a job reads no datagram beyond `seg_size*num_seg`;
- both programs terminate.

Notes on what the runs show:
- **`ImplementsMainJobSpec`** (the refinement property of
  `transitive_closure`) catches a `k` loop that stops one round early.
  `RoundsComputeShortestWalks` alone does not.
- **`rtspin`.** The emergency exit is reachable with `cputime()` correct, in
  two ways, against `job()`'s comment that it "should only be possible if
  the execution time tracking is broken":
  - with a budget below the WCET (WCET 4, budget 1), which `main` never
    rejects;
  - in `dio_dmaboth` with budget = WCET = 4 and a `delta` of 6 ticks: each
    iteration spends 7 ticks asleep or waiting for the disk, so the job
    outlasts `program_end + 1 s`.
  No property states the comment's claim, which is false in the model; a
  property limited to the cases where it holds would depend on the model's
  short `loop_once` (`LoopCost`) against the 1 s margin. `dio_raw` with its default `dma_rate` of 0 reaches
  `"crash"` on its first iteration, as does a dio program given two
  arguments; `Termination` counts a crash as stopping.
- **`UdpPair`.** A receiver job's CPU use can exceed `exec_time` (6 `recv`s
  against 5 in the run's model). `job()` predicts from the last
  `loop_once`, whose cost varies. This is listed as a hazard, not checked as
  a property.

`Arena`, `RtSpin` and `UdpPair` define a `TypeOK` that their runs do not
check: their ranges follow from the model's own bounds and from the kernel's
behaviour (queue capacity, `recv`'s truncation), not from a choice the code
could get wrong. The other modules' runs check theirs.

Each violation run corresponds to an entry in "findings" of `PROJECT.json`. Each
property of a passing run has a mutant there: a plausible bug in the mapped
code that TLC catches with that property under the run's own cfg.

### Bounds, and why they are enough

- **Arena.** 5 lines is enough for every shape of Sattolo cycle over a small
  set, and 3 `loop_once` calls cover the warm-up plus two jobs, which is where
  `sequential_start`'s static `pos` matters. With `RAND_MAX` 7 instead of
  glibc's, the same model shows the short-cycle consequence of the `randrange`
  bug.
- **Field and hop stressmarks.** Fields of 6 entries with a 2-byte delimiter
  or a 3-wide window reach the boundary cases:
  - a delimiter in the last byte;
  - self-overlapping delimiters;
  - repeated values in a window;
  - all-zero windows;
  - the median 0.
- **Two jobs of one call each** exercise state carried from one call to the
  next.
- **`rt_matrix`.** A 3 x 3 matrix with 2 pairs, with magnitudes of 1 and either
  sign, and `MAXITER = 2` solver iterations. The loop then ends both on its
  bound and on an error within tolerance. This reaches probes that move to the next column and probes that wrap
  to (1, 0). It also reaches diagonals that cancel to 0, so `create_CRS`
  stores fewer than `numberNonzero + dim` entries and leaves stale `value`
  slots behind. A 4 x 4 matrix carried across two calls does not finish
  within the 5-minute budget.
- **`TransitiveTask`.** 3 vertices and 3 edges with weights 0, 1 and 255 give
  cycles, parallel edges and `NO_PATH` sums.
- **`RtSpin`.** Uses a 4-tick period (a tick is 100 ms), WCETs of 1, 2 and 4,
  loop costs of 1 and 2, and budgets below the WCET, covering it and
  exceeding the period. `dma_rate` 0, 1 and 2 give the trap, a read every
  iteration and a read every other one (a job of 3 iterations then reads
  twice); a `delta` of 0 or 6 ticks and a read of 1 tick give jobs that do
  and do not outlast the emergency exit. `MaxWall` (60) is never reached.
  Cameras listing 0, 1 or 2 resolutions and `-k` values of 0, 1 and 64 reach
  every branch of both `SelectResolution`s: a listed entry, a zeroed entry,
  and an index past the 64-entry array.
- **`MsgQueue`.** Uses 2 round trips per job, 2 jobs, and `NUM_SAMPLES` of 0,
  1 and 3.
- **`UdpPair`.** Sizes are in units of a 3-unit `MAX_SEGMENT`.
  - The sender's segment of 1, 3 or 4 units gives short datagrams,
    datagrams cut to `max_seg`, and the range exit.
  - The receiver waits for 2 or 4 units.
  - Bursts of 3 go into a 2-datagram queue, so datagrams are dropped.
  - With 1 empty poll and an `exec_time` of 5 `recv`s, a job can need more
    than one `loop_once` and carry `n_remain` across them.
  - `UDP_segment.h` (`MAX_SEGMENT`, `MAX_POLLS`) is not in the repository;
    the values are chosen to reach these cases.
  - The code's burst of 10 is 3 here: one burst then fills the queue.
  - `MaxCpu` (12) and `MaxRetries` (1) bound the exploration. No behaviour
    of the model reaches `MaxCpu - 2`.

### Fairness

Each program is one thread that the kernel schedules whenever it is runnable.
The DIS, message and spin models therefore assume `WF_vars(Next)`: an enabled
step eventually happens.
- `Termination == <>Exited` is checked under that assumption.
- `RtSpin` models throttling and sleeping explicitly as steps of the clock, so
  its fairness does not hide the reservation.
- `UdpPair` has two processes, each scheduled when runnable:
  `WF_vars(SenderNext) /\ WF_vars(ReceiverNext)`. The receiver never blocks,
  because its socket is non-blocking. The sender's `ENOBUFS` retries are
  bounded by `MaxRetries`, so `Termination` there assumes the kernel
  eventually frees buffers, which the code does not guarantee.
- `Arena` has no liveness property and no fairness.

Deadlock checking is off only where the program really stops (`main` returned
or exited).

## What is not modelled, and why

- **UDP payloads.** The sequence number `rt_udpsend` writes (always 1, as the
  local `trys_left` shadows the global) is never read by the receiver.
  Reordering is not modelled: all datagrams are equal.
- **`rt_matrix`'s solver.** `biConjugateGradient`, `initVector` and the
  checksum are floating-point work on vectors. `Matrix` keeps the solver's
  loop control but not its vectors and scalars; the error test is a free
  choice. The checksum `sum += sum + vectorX[k]` overflows `int` (undefined
  behaviour), but `sum` is never read. The sums that
  `matrixMulvector` forms are not modelled, only the entries it reads.
- **The webcam frames.** `RtSpin` keeps the control of `frame_poller` and
  `rt_camera`. It leaves out the frames, the `memcpy` and YUYV conversion and
  SDL rendering. It also leaves out `frame_poller`'s cycle samples and
  dropped-frame count, which are only printed. The samples' unchecked
  `result_index` would need 20000 `loop_once` calls to overflow.
- **What the dio reads transfer.** `RtSpin` keeps only how long a read
  blocks; the bytes, the buffers (`mmap` taken to succeed, although the
  `buff < 0` test can never catch `MAP_FAILED`) and the read results, which
  nothing uses, are left out.
- **`mc2spin`'s and `dio_raw`'s copies of the arena engine.** They are the code
  `Arena` models for `mc2measure`; `RtSpin` keeps only `loop_once`'s CPU
  cost.
- **Outputs.** The checksum, the averages and standard deviations, and the
  printed output.
- **Other programs' `job()` copies.** The `result[]` overflow is shown once, for
  `rt_msg` (and `msg_bench`). The copies in the other programs are listed as
  hazards.
