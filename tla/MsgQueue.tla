------------------------------ MODULE MsgQueue ------------------------------
(***************************************************************************)
(* rt_msg.c: a periodic task that, loops times per job, sends a message to *)
(* its private System V queue and receives it back, timing both calls into *)
(* s_result[s_index++] and r_result[r_index++]; a round trip of which      *)
(* either half took more than 10000 cycles is discarded by rewinding both  *)
(* indices.  main runs one round trip as a warm-up and resets the indices  *)
(* before the task becomes real-time.  A message is its mtype and the      *)
(* round trip that sent it; the cycle counts are abstracted to whether     *)
(* they exceed the outlier threshold.                                      *)
(*                                                                         *)
(* msg_bench.c is the same round trip without liblitmus: main takes mtype  *)
(* and NUM_SAMPLES from argv and makes NUM_SAMPLES round trips, keeping    *)
(* every sample.  Which of the two binaries runs is the initial choice of  *)
(* program; both share the queue, the indices and the sample arrays.       *)
(***************************************************************************)
EXTENDS Naturals, Sequences

CONSTANTS
  Programs,     \* the binaries: "rt_msg" and/or "msg_bench"
  BenchSamples, \* values of msg_bench's NUM_SAMPLES (100, or argv[3])
  MTypes,       \* values of mtype: 0 (the global's default) or from -u
  LOOPS,        \* loops, the round trips of one job (-l, default 100)
  JOBS,         \* the jobs that start before program_end
  MAX_SAMPLES,  \* the length of s_result and r_result (50000 in rt_msg,
                \* 10000 in msg_bench)
  CallsCanFail  \* whether the liblitmus calls of main may fail

ASSUME MTypes \subseteq Nat /\ MTypes # {}
ASSUME LOOPS \in Nat /\ JOBS \in Nat /\ MAX_SAMPLES \in Nat \ {0}
ASSUME CallsCanFail \in BOOLEAN
ASSUME Programs \subseteq {"rt_msg", "msg_bench"} /\ Programs # {}
ASSUME BenchSamples \subseteq Nat /\ BenchSamples # {}

VARIABLES
  program,  \* the binary that runs
  numSamples, \* msg_bench's NUM_SAMPLES
  pc,       \* where main, job() and loop_once are
  mtype,    \* the global mtype
  queueOk,  \* whether msgget gave a queue (queue_id # -1)
  queue,    \* the messages on queue_id, oldest first
  sIdx,     \* s_index
  rIdx,     \* r_index
  sTag,     \* s_result: the round trip each slot was written by
  rTag,     \* r_result: likewise
  trip,     \* round trips started so far (the warm-up is trip 0)
  iter,     \* job(): iter; msg_bench: n
  jobs,     \* jobs started
  inRT      \* whether the warm-up is over

vars == <<program, numSamples, pc, mtype, queueOk, queue, sIdx, rIdx, sTag, rTag, trip, iter, jobs, inRT>>

Slots == 0 .. (MAX_SAMPLES - 1)

-----------------------------------------------------------------------------
CallOutcomes == IF CallsCanFail THEN {"ok", "fail"} ELSE {"ok"}

\* The array write x[i] = v of C; a write past the array is not modelled.
Write(arr, i, v) == IF i \in Slots THEN [arr EXCEPT ![i] = v] ELSE arr

(* Both mains start with msgget(IPC_PRIVATE); rt_msg never tests its      *)
(* result, so a failed one (-1) is only noticed by the first msgsnd.       *)
(* msg_bench tests it in BenchSetup.                                       *)
Init ==
  /\ program \in Programs
  /\ numSamples \in IF program = "msg_bench" THEN BenchSamples ELSE {0}
  /\ pc = "setup"
  /\ mtype \in MTypes
  /\ queueOk \in IF program = "rt_msg" /\ CallsCanFail THEN BOOLEAN ELSE {TRUE}
  /\ queue = <<>>
  /\ sIdx = 0 /\ rIdx = 0
  /\ sTag = [i \in Slots |-> 0] /\ rTag = [i \in Slots |-> 0]
  /\ trip = 0 /\ iter = 0 /\ jobs = 0
  /\ inRT = FALSE

(* rt_msg's main after msgget: the option loop, the argument checks, the  *)
(* reservation and task parameters (each failure bails out), clearing     *)
(* the sample arrays.                                                      *)
Setup ==
  /\ pc = "setup"
  /\ program = "rt_msg"
  /\ \E outcome \in CallOutcomes :
       pc' = IF outcome = "ok" THEN "send" ELSE "exit"
  /\ UNCHANGED <<program, numSamples, mtype, queueOk, queue, sIdx, rIdx, sTag, rTag, trip, iter, jobs, inRT>>

(* loop_once, first half: msgsnd, timed into s_result[s_index++]; msgsnd  *)
(* rejects an mtype below 1 or a queue_id of -1 (EINVAL), and the program  *)
(* exits.                                                                  *)
Send ==
  /\ pc = "send"
  /\ sTag' = Write(sTag, sIdx, trip)
  /\ sIdx' = sIdx + 1
  /\ IF mtype >= 1 /\ queueOk
       THEN /\ queue' = Append(queue, [mtype |-> mtype, trip |-> trip])
            /\ pc' = "recv"
       ELSE /\ queue' = queue
            /\ pc' = "exit"
  /\ UNCHANGED <<program, numSamples, mtype, queueOk, rIdx, rTag, trip, iter, jobs, inRT>>

\* Mutant: the outlier rewind moves r_index back but not s_index.
ReceiveRewindReceiveOnly ==
  /\ pc = "recv"
  /\ program = "rt_msg"
  /\ queue # <<>>
  /\ queue' = Tail(queue)
  /\ rTag' = Write(rTag, rIdx, trip)
  /\ \E slow \in BOOLEAN :
       IF slow THEN /\ rIdx' = rIdx
                    /\ sIdx' = sIdx
               ELSE /\ rIdx' = rIdx + 1
                    /\ sIdx' = sIdx
  /\ trip' = trip + 1
  /\ pc' = IF inRT THEN "loop" ELSE "rtsetup"
  /\ UNCHANGED <<program, numSamples, mtype, queueOk, sTag, iter, jobs, inRT>>

\* Mutant: the rewind is taken from r_index as it was before r_index++.
ReceiveRewindBeforeIncrement ==
  /\ pc = "recv"
  /\ program = "rt_msg"
  /\ queue # <<>>
  /\ queue' = Tail(queue)
  /\ rTag' = Write(rTag, rIdx, trip)
  /\ \E slow \in BOOLEAN :
       IF slow THEN /\ rIdx' = rIdx - 1
                    /\ sIdx' = sIdx - 1
               ELSE /\ rIdx' = rIdx + 1
                    /\ sIdx' = sIdx
  /\ trip' = trip + 1
  /\ pc' = IF inRT THEN "loop" ELSE "rtsetup"
  /\ UNCHANGED <<program, numSamples, mtype, queueOk, sTag, iter, jobs, inRT>>

(* loop_once, second half: msgrcv of any type takes the oldest message,   *)
(* timed into r_result[r_index++]; if either half was slow, both indices  *)
(* go back by one.                                                        *)
Receive ==
  /\ pc = "recv"
  /\ program = "rt_msg"
  /\ queue # <<>>
  /\ queue' = Tail(queue)
  /\ rTag' = Write(rTag, rIdx, trip)
  /\ \E slow \in BOOLEAN :
       IF slow THEN /\ rIdx' = rIdx
                    /\ sIdx' = sIdx - 1
               ELSE /\ rIdx' = rIdx + 1
                    /\ sIdx' = sIdx
  /\ trip' = trip + 1
  /\ pc' = IF inRT THEN "loop" ELSE "rtsetup"
  /\ UNCHANGED <<program, numSamples, mtype, queueOk, sTag, iter, jobs, inRT>>

(* After the warm-up: s_index = r_index = 0, init_litmus, page colour,    *)
(* mlockall, task_mode(LITMUS_RT_TASK), wait_for_ts_release.              *)
RtSetup ==
  /\ pc = "rtsetup"
  /\ sIdx' = 0
  /\ rIdx' = 0
  /\ inRT' = TRUE
  /\ \E outcome \in CallOutcomes :
       pc' = IF outcome = "ok" THEN "job" ELSE "exit"
  /\ UNCHANGED <<program, numSamples, mtype, queueOk, queue, sTag, rTag, trip, iter, jobs>>

(* job(): returns 0 once the wall clock passes program_end (after JOBS    *)
(* jobs); otherwise loops round trips, then sleep_next_period().          *)
JobBegin ==
  /\ pc = "job"
  /\ IF jobs = JOBS
       THEN /\ pc' = "leave"
            /\ UNCHANGED <<iter, jobs>>
       ELSE /\ pc' = "loop"
            /\ iter' = 0
            /\ jobs' = jobs + 1
  /\ UNCHANGED <<program, numSamples, mtype, queueOk, queue, sIdx, rIdx, sTag, rTag, trip, inRT>>

\* while (iter++ < loops) loop_once();
LoopTest ==
  /\ pc = "loop"
  /\ pc' = IF iter < LOOPS THEN "send" ELSE "job"
  /\ iter' = iter + 1
  /\ UNCHANGED <<program, numSamples, mtype, queueOk, queue, sIdx, rIdx, sTag, rTag, trip, jobs, inRT>>

(* task_mode(BACKGROUND_TASK) (bails out on failure), reservation_destroy *)
(* and the averages over the samples kept.                                *)
Leave ==
  /\ pc = "leave"
  /\ \E outcome \in CallOutcomes :
       pc' = IF outcome = "ok" THEN "done" ELSE "exit"
  /\ UNCHANGED <<program, numSamples, mtype, queueOk, queue, sIdx, rIdx, sTag, rTag, trip, iter, jobs, inRT>>

(* msg_bench's main: msgget(IPC_PRIVATE) and clearing the first           *)
(* NUM_SAMPLES slots, then exit(1) if msgget failed or fewer than two     *)
(* arguments were given; mtype and NUM_SAMPLES come from argv.            *)
BenchSetup ==
  /\ pc = "setup"
  /\ program = "msg_bench"
  /\ \E outcome \in CallOutcomes :
       pc' = IF outcome = "ok" THEN "bench" ELSE "exit"
  /\ UNCHANGED <<program, numSamples, mtype, queueOk, queue, sIdx, rIdx, sTag, rTag,
                 trip, iter, jobs, inRT>>

\* msg_bench: for (n = 0; n < NUM_SAMPLES; n++), then the averages.
BenchLoopTest ==
  /\ pc = "bench"
  /\ pc' = IF iter < numSamples THEN "send" ELSE "done"
  /\ UNCHANGED <<program, numSamples, mtype, queueOk, queue, sIdx, rIdx, sTag, rTag,
                 trip, iter, jobs, inRT>>

(* msg_bench, second half of a round trip: msgrcv of any type, timed into *)
(* r_result[r_index++]; every sample is kept; n++.                        *)
BenchReceive ==
  /\ pc = "recv"
  /\ program = "msg_bench"
  /\ queue # <<>>
  /\ queue' = Tail(queue)
  /\ rTag' = Write(rTag, rIdx, trip)
  /\ rIdx' = rIdx + 1
  /\ trip' = trip + 1
  /\ iter' = iter + 1
  /\ pc' = "bench"
  /\ UNCHANGED <<program, numSamples, mtype, queueOk, sIdx, sTag, jobs, inRT>>

Next ==
  \/ Setup \/ Send \/ Receive \/ RtSetup \/ JobBegin \/ LoopTest \/ Leave
  \/ BenchSetup \/ BenchLoopTest \/ BenchReceive

(* The process always gets to run: every enabled step of main eventually  *)
(* happens.                                                               *)
Spec == Init /\ [][Next]_vars /\ WF_vars(Next)

-----------------------------------------------------------------------------
TypeOK ==
  /\ program \in Programs
  /\ pc \in {"setup", "send", "recv", "rtsetup", "job", "loop", "leave",
             "bench", "done", "exit"}
  /\ queue \in Seq([mtype : MTypes, trip : Nat])
  /\ sIdx \in 0 .. (MAX_SAMPLES + 1) /\ rIdx \in 0 .. (MAX_SAMPLES + 1)
  /\ sTag \in [Slots -> Nat] /\ rTag \in [Slots -> Nat]

(* The samples are kept in pairs: s_result[i] and r_result[i] are the two *)
(* halves of one round trip for every i below r_index, and s_index runs   *)
(* ahead of r_index by at most the send in progress, across outlier       *)
(* rewinds and the warm-up reset (and the send before msgsnd's exit(1)),  *)
(* in rt_msg and in msg_bench alike.                                       *)
SamplesPaired ==
  /\ \/ pc = "recv" /\ sIdx = rIdx + 1
     \/ pc = "exit" /\ sIdx - rIdx \in {0, 1}
     \/ pc \notin {"recv", "exit"} /\ sIdx = rIdx
  /\ \A i \in 0 .. (rIdx - 1) : i \in Slots => sTag[i] = rTag[i]

(* No sample is written past the end of s_result or r_result.             *)
SamplesWithinArrays == sIdx <= MAX_SAMPLES /\ rIdx <= MAX_SAMPLES

=============================================================================
