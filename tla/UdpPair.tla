------------------------------ MODULE UdpPair ------------------------------
(***************************************************************************)
(* rt_udpsend and rt_udprecv running side by side on one host.            *)
(*                                                                         *)
(* The sender sends a warm-up datagram, then, per job, BURST datagrams of  *)
(* segment_size bytes to 127.0.0.1 (the code's literal is 10), retrying    *)
(* sendto while it fails with ENOBUFS and exiting on any other result.     *)
(* The receiver polls a non-blocking socket: per job it calls loop_once    *)
(* until it has num_seg * seg_size bytes or its CPU budget (exec_time) is  *)
(* predicted to be used up.                                                *)
(*                                                                         *)
(* The channel is the receiver socket's queue.  All datagrams have the     *)
(* same length, so it is a count.  A datagram sent while the receiver has  *)
(* no bound socket, or while its queue holds RCVBUF datagrams, is dropped  *)
(* and sendto still succeeds (unconnected UDP on loopback).  recv(len)     *)
(* dequeues one datagram and returns at most len bytes of it; -1 when the  *)
(* queue is empty.  Byte counts are in units of MAX_SEGMENT's scale.      *)
(* The receiver's CPU time is its number of recv calls.  The wall clock    *)
(* is the number of jobs each side starts before program_end.             *)
(***************************************************************************)
EXTENDS Integers, FiniteSets

CONSTANTS
  MAX_SEGMENT,   \* UDP_segment.h: size of the buffers
  MIN_SEGMENT,   \* rt_udpsend's lower bound on segment_size (64)
  MAX_POLLS,     \* UDP_segment.h: empty polls loop_once tolerates
  SegmentSizes,  \* rt_udpsend -k values
  SegSizes,      \* rt_udprecv -k values
  NumSegs,       \* rt_udprecv -l values
  BURST,         \* datagrams per sender job
  RCVBUF,        \* datagrams the receive queue holds
  SJOBS, RJOBS,  \* jobs each program starts before program_end
  EXEC,          \* the receiver's exec_time, in recv calls
  CallsCanFail,  \* whether socket, bind, liblitmus calls and sendto may fail
  MaxRetries,    \* bound on ENOBUFS retries of one sendto
  MaxCpu         \* bound on the receiver's CPU time in one job

ASSUME MAX_SEGMENT \in Nat \ {0} /\ MIN_SEGMENT \in 1 .. MAX_SEGMENT
ASSUME SegmentSizes \subseteq Nat /\ SegSizes \subseteq Nat /\ NumSegs \subseteq Nat
ASSUME {BURST, RCVBUF, SJOBS, RJOBS, EXEC, MAX_POLLS, MaxRetries, MaxCpu} \subseteq Nat
ASSUME CallsCanFail \in BOOLEAN /\ BURST > 0

VARIABLES
  \* rt_udpsend
  spc,        \* where the sender is
  segment,    \* segment_size
  sJobs,      \* jobs started
  tmp,        \* job(): datagrams of the burst still to send
  retries,    \* ENOBUFS retries of the current sendto
  \* the receive queue
  queued,     \* datagrams queued on the receiver's socket
  \* rt_udprecv
  rpc,        \* where the receiver is
  segSize,    \* seg_size
  numSeg,     \* num_seg
  maxSeg,     \* max_seg (static, 0 until main sets it)
  rJobs,      \* jobs started
  sum,        \* job(): sum
  nRemain,    \* job(): n_remain
  cpu,        \* job(): cputime() - start
  lastLoop,   \* job(): last_loop
  loopStart,  \* job(): loop_start
  arg,        \* loop_once's n_remain parameter
  n,          \* loop_once: n
  sumN,       \* loop_once: sum_n
  pollCount,  \* loop_once: poll_count
  ret,        \* loop_once's return value
  jobRead     \* datagrams dequeued by the current job (history)

sender == <<spc, segment, sJobs, tmp, retries>>
receiver == <<rpc, segSize, numSeg, maxSeg, rJobs, sum, nRemain, cpu,
              lastLoop, loopStart, arg, n, sumN, pollCount, ret, jobRead>>
vars == <<sender, queued, receiver>>

-----------------------------------------------------------------------------
Min2(a, b) == IF a < b THEN a ELSE b

Outcomes == IF CallsCanFail THEN {"ok", "fail"} ELSE {"ok"}

\* seg_size * num_seg: the bytes a job waits for.
Target == segSize * numSeg

\* Whether the receiver's socket is bound: from bind() to the exit.
Bound == rpc \in {"warmup", "rtsetup", "job", "loop", "recv1", "poll",
                  "after", "leave"}

\* recv(sock, buffer, len, 0) on the non-blocking socket: the length
\* returned, and the queue after the call.
RecvResult(len) == IF queued > 0 THEN Min2(segment, len) ELSE -1
RecvQueue == IF queued > 0 THEN queued - 1 ELSE 0
RecvRead == IF queued > 0 THEN 1 ELSE 0

-----------------------------------------------------------------------------
(* rt_udpsend                                                              *)

\* The option loop, the segment-size range check (exit(-1)) and the
\* usage() checks of the arguments.
SValidate ==
  /\ spc = "args"
  /\ \E outcome \in Outcomes :
       spc' = IF segment \in MIN_SEGMENT .. MAX_SEGMENT /\ outcome = "ok"
                THEN "socket" ELSE "exit"
  /\ UNCHANGED <<segment, sJobs, tmp, retries, queued, receiver>>

\* socket() and bind(); either failing exits.
SSocket ==
  /\ spc = "socket"
  /\ \E outcome \in Outcomes :
       spc' = IF outcome = "ok" THEN "warmup" ELSE "exit"
  /\ UNCHANGED <<segment, sJobs, tmp, retries, queued, receiver>>

\* The datagram reaches the queue, or is dropped.
Deliver == IF Bound /\ queued < RCVBUF THEN queued + 1 ELSE queued

(* loop_once: one sendto call.  It succeeds (the datagram is delivered or *)
(* dropped); it fails with ENOBUFS and is retried after usleep(10); or it *)
(* returns anything else and the sender exits.  After the warm-up call    *)
(* main goes on to the real-time set-up; in a job, while (tmp-- > 0)      *)
(* ends after BURST calls with sleep_next_period().                       *)
SSend ==
  /\ spc \in {"warmup", "send"}
  /\ \/ /\ queued' = Deliver
        /\ retries' = 0
        /\ spc' = IF spc = "warmup" THEN "rtsetup"
                  ELSE IF tmp = 1 THEN "job" ELSE "send"
        /\ tmp' = IF spc = "send" THEN tmp - 1 ELSE tmp
     \/ /\ retries < MaxRetries
        /\ retries' = retries + 1
        /\ UNCHANGED <<spc, tmp, queued>>
     \/ /\ CallsCanFail
        /\ spc' = "exit"
        /\ UNCHANGED <<tmp, retries, queued>>
  /\ UNCHANGED <<segment, sJobs, receiver>>

\* reservation_create .. wait_for_ts_release; a failure bails out.
SRtSetup ==
  /\ spc = "rtsetup"
  /\ \E outcome \in Outcomes :
       spc' = IF outcome = "ok" THEN "job" ELSE "exit"
  /\ UNCHANGED <<segment, sJobs, tmp, retries, queued, receiver>>

\* job(): return 0 past program_end, else start a burst.
SJobBegin ==
  /\ spc = "job"
  /\ IF sJobs < SJOBS
       THEN /\ sJobs' = sJobs + 1
            /\ tmp' = BURST
            /\ spc' = "send"
       ELSE /\ spc' = "leave"
            /\ UNCHANGED <<sJobs, tmp>>
  /\ UNCHANGED <<segment, retries, queued, receiver>>

\* task_mode(BACKGROUND_TASK), reservation_destroy, printing.
SLeave ==
  /\ spc = "leave"
  /\ \E outcome \in Outcomes :
       spc' = IF outcome = "ok" THEN "done" ELSE "exit"
  /\ UNCHANGED <<segment, sJobs, tmp, retries, queued, receiver>>

-----------------------------------------------------------------------------
(* rt_udprecv                                                              *)

\* The option loop (-l, -k are not checked) and the usage() checks.
RValidate ==
  /\ rpc = "args"
  /\ \E outcome \in Outcomes :
       rpc' = IF outcome = "ok" THEN "socket" ELSE "exit"
  /\ UNCHANGED <<sender, queued, segSize, numSeg, maxSeg, rJobs, sum, nRemain,
                 cpu, lastLoop, loopStart, arg, n, sumN, pollCount, ret,
                 jobRead>>

\* socket(SOCK_NONBLOCK) and bind(); usage() exits on failure.
RSocket ==
  /\ rpc = "socket"
  /\ \E outcome \in Outcomes :
       rpc' = IF outcome = "ok" THEN "warmup" ELSE "exit"
  /\ UNCHANGED <<sender, queued, segSize, numSeg, maxSeg, rJobs, sum, nRemain,
                 cpu, lastLoop, loopStart, arg, n, sumN, pollCount, ret,
                 jobRead>>

(* The warm-up loop_once(seg_size), called while max_seg is still 0: its  *)
(* recv(len 0) dequeues a waiting datagram and returns 0, which is        *)
(* >= max_seg, or returns -1; either way loop_once returns at once.       *)
RWarmUp ==
  /\ rpc = "warmup"
  /\ queued' = RecvQueue
  /\ rpc' = "rtsetup"
  /\ UNCHANGED <<sender, segSize, numSeg, maxSeg, rJobs, sum, nRemain, cpu,
                 lastLoop, loopStart, arg, n, sumN, pollCount, ret, jobRead>>

(* reservation_create (bail_out on failure), then                         *)
(* max_seg = min(MAX_SEGMENT, seg_size*num_seg), then set_rt_task_param   *)
(* .. wait_for_ts_release, each bailing out on failure.                   *)
RRtSetup ==
  /\ rpc = "rtsetup"
  /\ \E outcome \in Outcomes :
       rpc' = IF outcome = "ok" THEN "job" ELSE "exit"
  /\ maxSeg' = Min2(MAX_SEGMENT, Target)
  /\ UNCHANGED <<sender, queued, segSize, numSeg, rJobs, sum, nRemain, cpu,
                 lastLoop, loopStart, arg, n, sumN, pollCount, ret, jobRead>>

(* job(): past program_end return 0; else start = now = cputime(),        *)
(* last_loop = 0, sum = 0, n_remain = num_seg*seg_size.                   *)
RJobBegin ==
  /\ rpc = "job"
  /\ IF rJobs < RJOBS
       THEN /\ rJobs' = rJobs + 1
            /\ rpc' = "loop"
            /\ sum' = 0 /\ nRemain' = Target /\ cpu' = 0 /\ lastLoop' = 0
            /\ jobRead' = 0
       ELSE /\ rpc' = "leave"
            /\ UNCHANGED <<rJobs, sum, nRemain, cpu, lastLoop, jobRead>>
  /\ UNCHANGED <<sender, queued, segSize, numSeg, maxSeg, loopStart, arg, n,
                 sumN, pollCount, ret>>

(* while (now + last_loop < start + exec_time): call loop_once(n_remain); *)
(* otherwise record the sample and sleep_next_period().                   *)
RLoopTest ==
  /\ rpc = "loop"
  /\ IF cpu + lastLoop < EXEC
       THEN /\ rpc' = "recv1"
            /\ loopStart' = cpu
            /\ arg' = nRemain
       ELSE /\ rpc' = "job"
            /\ UNCHANGED <<loopStart, arg>>
  /\ UNCHANGED <<sender, queued, segSize, numSeg, maxSeg, rJobs, sum, nRemain,
                 cpu, lastLoop, n, sumN, pollCount, ret, jobRead>>

(* loop_once: poll_count = MAX_POLLS; n = recv(max_seg); return n when it *)
(* is -1 or >= max_seg, else enter the poll loop.                         *)
RRecvFirst ==
  /\ rpc = "recv1"
  /\ cpu < MaxCpu
  /\ cpu' = cpu + 1
  /\ n' = RecvResult(maxSeg)
  /\ queued' = RecvQueue
  /\ jobRead' = jobRead + RecvRead
  /\ pollCount' = MAX_POLLS
  /\ sumN' = 0
  /\ IF n' = -1 \/ n' >= maxSeg
       THEN rpc' = "after" /\ ret' = n'
       ELSE rpc' = "poll" /\ UNCHANGED ret
  /\ UNCHANGED <<sender, segSize, numSeg, maxSeg, rJobs, sum, nRemain,
                 lastLoop, loopStart, arg>>

\* The bytes the poll loop has after adding n when it is positive.
Added == IF n > 0 THEN sumN + n ELSE sumN

(* Mutant: the poll loop calls recv before adding n, so the short         *)
(* datagram that started the loop is never counted.                       *)
RPollRecvFirst ==
  /\ rpc = "poll"
  /\ n >= 0 \/ pollCount > 0
  /\ cpu < MaxCpu
  /\ LET m == RecvResult(maxSeg)
         s == IF m > 0 THEN sumN + m ELSE sumN
     IN /\ cpu' = cpu + 1 /\ n' = m /\ queued' = RecvQueue
        /\ jobRead' = jobRead + RecvRead /\ pollCount' = pollCount - 1
        /\ sumN' = s
        /\ IF s >= arg THEN rpc' = "after" /\ ret' = s
                       ELSE UNCHANGED <<rpc, ret>>
  /\ UNCHANGED <<sender, segSize, numSeg, maxSeg, rJobs, sum, nRemain,
                 lastLoop, loopStart, arg>>

(* Mutant: poll_count is not decremented. *)
RPollNoCount ==
  /\ rpc = "poll"
  /\ n >= 0 \/ pollCount > 0
  /\ sumN' = Added
  /\ IF Added >= arg
       THEN /\ rpc' = "after" /\ ret' = Added
            /\ UNCHANGED <<queued, cpu, n, pollCount, jobRead>>
       ELSE /\ cpu < MaxCpu
            /\ cpu' = cpu + 1 /\ n' = RecvResult(maxSeg)
            /\ queued' = RecvQueue /\ jobRead' = jobRead + RecvRead
            /\ UNCHANGED <<rpc, ret, pollCount>>
  /\ UNCHANGED <<sender, segSize, numSeg, maxSeg, rJobs, sum, nRemain,
                 lastLoop, loopStart, arg>>

(* One iteration of while ((n >= 0) || (poll_count > 0)): if (n > 0)      *)
(* sum_n += n; break once sum_n >= n_remain; else n = recv(max_seg) and   *)
(* poll_count--.  A datagram keeps the loop going whatever poll_count is. *)
RPoll ==
  /\ rpc = "poll"
  /\ n >= 0 \/ pollCount > 0
  /\ sumN' = Added
  /\ IF Added >= arg
       THEN /\ rpc' = "after" /\ ret' = Added
            /\ UNCHANGED <<queued, cpu, n, pollCount, jobRead>>
       ELSE /\ cpu < MaxCpu
            /\ cpu' = cpu + 1 /\ n' = RecvResult(maxSeg)
            /\ queued' = RecvQueue /\ jobRead' = jobRead + RecvRead
            /\ pollCount' = pollCount - 1
            /\ UNCHANGED <<rpc, ret>>
  /\ UNCHANGED <<sender, segSize, numSeg, maxSeg, rJobs, sum, nRemain,
                 lastLoop, loopStart, arg>>

\* The poll loop ends on -1 with no polls left: return sum_n.
RPollEnd ==
  /\ rpc = "poll"
  /\ ~(n >= 0 \/ pollCount > 0)
  /\ rpc' = "after" /\ ret' = sumN
  /\ UNCHANGED <<sender, queued, segSize, numSeg, maxSeg, rJobs, sum, nRemain,
                 cpu, lastLoop, loopStart, arg, n, sumN, pollCount, jobRead>>

\* The job's sum after loop_once returned ret.
Summed == IF ret # -1 THEN sum + ret ELSE sum

(* Mutant: n_remain is not decremented. *)
RAfterStale ==
  /\ rpc = "after"
  /\ sum' = Summed
  /\ lastLoop' = cpu - loopStart
  /\ \/ Summed >= Target /\ rpc' = "job"
     \/ Summed < Target /\ rpc' = "loop"
     \/ Summed < Target /\ rJobs = RJOBS /\ rpc' = "job"
  /\ UNCHANGED <<sender, queued, segSize, numSeg, maxSeg, rJobs, nRemain, cpu,
                 loopStart, arg, n, sumN, pollCount, ret, jobRead>>

(* Back in job(): if (tmp != -1) { sum += tmp; n_remain -= tmp; }; break  *)
(* once sum >= seg_size*num_seg; else now = cputime(), last_loop = now -  *)
(* loop_start, and the emergency exit breaks when the wall clock passes   *)
(* program_end + 1, which only the last job started can outlive.  After   *)
(* the loop: result[result_index++] and sleep_next_period().              *)
RAfter ==
  /\ rpc = "after"
  /\ sum' = Summed
  /\ nRemain' = IF ret # -1 THEN nRemain - ret ELSE nRemain
  /\ lastLoop' = cpu - loopStart
  /\ \/ Summed >= Target /\ rpc' = "job"
     \/ Summed < Target /\ rpc' = "loop"
     \/ Summed < Target /\ rJobs = RJOBS /\ rpc' = "job"
  /\ UNCHANGED <<sender, queued, segSize, numSeg, maxSeg, rJobs, cpu,
                 loopStart, arg, n, sumN, pollCount, ret, jobRead>>

\* task_mode(BACKGROUND_TASK) (bail_out on failure), reservation_destroy.
RLeave ==
  /\ rpc = "leave"
  /\ \E outcome \in Outcomes :
       rpc' = IF outcome = "ok" THEN "done" ELSE "exit"
  /\ UNCHANGED <<sender, queued, segSize, numSeg, maxSeg, rJobs, sum, nRemain,
                 cpu, lastLoop, loopStart, arg, n, sumN, pollCount, ret,
                 jobRead>>

-----------------------------------------------------------------------------
Init ==
  /\ spc = "args" /\ segment \in SegmentSizes
  /\ sJobs = 0 /\ tmp = 0 /\ retries = 0
  /\ queued = 0
  /\ rpc = "args" /\ segSize \in SegSizes /\ numSeg \in NumSegs
  /\ maxSeg = 0 /\ rJobs = 0 /\ sum = 0 /\ nRemain = 0 /\ cpu = 0
  /\ lastLoop = 0 /\ loopStart = 0 /\ arg = 0 /\ n = 0 /\ sumN = 0
  /\ pollCount = 0 /\ ret = 0 /\ jobRead = 0

SenderNext ==
  SValidate \/ SSocket \/ SSend \/ SRtSetup \/ SJobBegin \/ SLeave

ReceiverNext ==
  \/ RValidate \/ RSocket \/ RWarmUp \/ RRtSetup \/ RJobBegin \/ RLoopTest
  \/ RRecvFirst \/ RPoll \/ RPollEnd \/ RAfter \/ RLeave

Next == SenderNext \/ ReceiverNext

(* Two processes, each scheduled whenever it is runnable (the receiver    *)
(* never blocks: its socket is non-blocking).                             *)
Spec == Init /\ [][Next]_vars /\ WF_vars(SenderNext) /\ WF_vars(ReceiverNext)

-----------------------------------------------------------------------------
Exited == spc \in {"done", "exit"} /\ rpc \in {"done", "exit"}

\* The bytes recv returns for one datagram once max_seg is set.
Credit == Min2(segment, maxSeg)

\* Where the receiver is between loop_once calls or between jobs.
BetweenCalls == rpc \in {"loop", "job", "leave"}

InJob == rpc \in {"loop", "recv1", "poll", "after"}

TypeOK ==
  /\ spc \in {"args", "socket", "warmup", "rtsetup", "job", "send", "leave",
              "done", "exit"}
  /\ rpc \in {"args", "socket", "warmup", "rtsetup", "job", "loop", "recv1",
              "poll", "after", "leave", "done", "exit"}
  /\ queued \in 0 .. RCVBUF
  /\ sJobs \in 0 .. SJOBS /\ rJobs \in 0 .. RJOBS
  /\ tmp \in 0 .. BURST /\ retries \in 0 .. MaxRetries
  /\ cpu \in 0 .. MaxCpu /\ n \in {-1} \cup 0 .. MAX_SEGMENT

(* Every datagram a receiver job dequeues is credited to it: between      *)
(* loop_once calls, the job's sum is the number of datagrams it has read  *)
(* times the bytes recv returns for one (segment_size, cut to max_seg).   *)
(* It rests on loop_once adding a datagram before its next recv and       *)
(* job() adding every result but -1, across the interleaving of sends.    *)
JobCreditsWhatItRead == BetweenCalls => sum = jobRead * Credit

(* A job reads no datagram it does not need: every datagram it dequeues   *)
(* is read while its sum is still short of seg_size*num_seg, so the rest  *)
(* of the sender's burst stays queued for the next job.  This rests on    *)
(* loop_once stopping at the n_remain job() passes it, kept current.      *)
NoOverRead ==
  (Target > 0 /\ (InJob \/ BetweenCalls)) =>
     jobRead = 0 \/ (jobRead - 1) * Credit < Target

(* Both programs terminate: the receiver's poll loop ends once it has     *)
(* MAX_POLLS empty polls or its bytes, its jobs end on the CPU budget,    *)
(* and the sender's sendto retries end.                                   *)
Termination == <>Exited

====
