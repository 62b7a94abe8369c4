---------------------------- MODULE EbpfCollector ----------------------------
(***************************************************************************)
(* The eBPF collector.  Kernel probes time TCP exchanges and count them in *)
(* per-CPU buckets; a polling thread reads each bucket, adds as many       *)
(* values to the StreamLog, and then zeroes the bucket; the main loop      *)
(* drains the log, posts the snapshot, and merges it back when the post    *)
(* failed.  A sketch is the number of values per bucket.                   *)
(***************************************************************************)
EXTENDS Integers, Sequences, FiniteSets, FiniteSetsExt

CONSTANTS
    EBSock,       \* sockets
    EBCpus,       \* number of CPUs
    EBBounds,     \* bucket_boundaries: upper bounds
    EBSteps,      \* iterations of the unrolled search: 2^EBSteps buckets at most
    EBLatency,    \* latencies
    EBBatch,      \* values per add_batch
    EBMaxRecord,  \* bound: latencies recorded
    EBMaxFaults   \* bound: posts that do not end with 202

EBCpu == 1 .. EBCpus
Doubled(n) == LET size[k \in 0 .. n] == IF k = 0 THEN 1 ELSE 2 * size[k - 1] IN size[n]

(* The upper bounds do not decrease (int() may make two of them equal),    *)
(* and there are not more of them than 2^EBSteps: 2048 for 11 iterations.  *)
ASSUME EBAssumption ==
    /\ EBCpus \in Nat /\ EBSteps \in Nat /\ EBBatch \in Nat \ {0} /\ EBLatency \in SUBSET Nat
    /\ Len(EBBounds) \in Nat \ {0} /\ DOMAIN EBBounds = 1 .. Len(EBBounds)
    /\ Len(EBBounds) <= Doubled(EBSteps)
    /\ \A i, j \in DOMAIN EBBounds : EBBounds[i] \in Nat /\ (i <= j => EBBounds[i] <= EBBounds[j])

VARIABLES
    ebStart,     \* sock_starts: sockets with a start time
    ebKernel,    \* bucket_counts: per bucket and CPU
    ebPoll,      \* the polling thread: [pc, i, total, left]
    ebStop,      \* _stop_event
    ebLog,       \* the StreamLog, per bucket
    ebMain,      \* the main loop: [pc, snap, error]
    ebServer,    \* what the server has merged
    ebRecorded,  \* ghost: latencies per bucket that were recorded
    ebRaced,     \* ghost: a latency was counted between a read and its zeroing
    ebFaults     \* [n, unsure]: failed posts, and whether one was applied

ebVars == <<ebStart, ebKernel, ebPoll, ebStop, ebLog, ebMain, ebServer, ebRecorded, ebRaced, ebFaults>>
EBBuckets == DOMAIN EBBounds
Zeros == [i \in EBBuckets |-> 0]
Plus(f, g) == [i \in EBBuckets |-> f[i] + g[i]]
SumOf(f) == LET total[k \in 0 .. Len(f)] == IF k = 0 THEN 0 ELSE total[k - 1] + f[k] IN total[Len(f)]

EBInit ==
    /\ ebStart = {} /\ ebKernel = [i \in EBBuckets |-> [c \in EBCpu |-> 0]]
    /\ ebPoll = [pc |-> "wait", i |-> 1, total |-> 0, left |-> 0] /\ ebStop = FALSE
    /\ ebLog = Zeros /\ ebMain = [pc |-> "wait", snap |-> Zeros, error |-> FALSE]
    /\ ebServer = Zeros /\ ebRecorded = Zeros /\ ebRaced = FALSE
    /\ ebFaults = [n |-> 0, unsure |-> FALSE]

-----------------------------------------------------------------------------
(* record_latency: the search runs for a fixed number of iterations, the   *)
(* verifier allows no other; what is left of the range is not looked at.   *)
SearchStep(v, r) ==
    LET mid == r.low + (r.high - r.low) \div 2
    IN  IF r.done \/ r.low > r.high THEN r
        ELSE IF v >= EBBounds[mid] THEN [r EXCEPT !.low = mid + 1]
        ELSE IF mid = 1 THEN [r EXCEPT !.done = TRUE]
        ELSE [r EXCEPT !.high = mid - 1]
RangeAfter(v, buckets) ==
    LET after[n \in 0 .. EBSteps] ==
            IF n = 0 THEN [low |-> 1, high |-> buckets, done |-> FALSE]
            ELSE SearchStep(v, after[n - 1])
    IN  after[EBSteps]
Search(v, buckets) == IF RangeAfter(v, buckets).low > buckets THEN buckets ELSE RangeAfter(v, buckets).low
BucketOf(v) == Search(v, Len(EBBounds))

(* The bucket meant: the first whose upper bound is above the latency.     *)
BucketMeant(v, buckets) ==
    LET above == {i \in 1 .. buckets : v < EBBounds[i]}
    IN  IF above = {} THEN buckets ELSE Min(above)

trace_tcp_sendmsg(sk) ==
    /\ ebStart' = ebStart \cup {sk}
    /\ UNCHANGED <<ebKernel, ebPoll, ebStop, ebLog, ebMain, ebServer, ebRecorded, ebRaced, ebFaults>>
trace_tcp_cleanup_rbuf(sk, v, cpu) ==
    /\ sk \in ebStart /\ ebStart' = ebStart \ {sk} /\ SumOf(ebRecorded) < EBMaxRecord
    /\ ebKernel' = [ebKernel EXCEPT ![BucketOf(v)][cpu] = @ + 1]
    /\ ebRecorded' = [ebRecorded EXCEPT ![BucketMeant(v, Len(EBBounds))] = @ + 1]
    /\ ebRaced' = (ebRaced \/ (ebPoll.pc \in {"add", "zero"} /\ ebPoll.i = BucketOf(v)))
    /\ UNCHANGED <<ebPoll, ebStop, ebLog, ebMain, ebServer, ebFaults>>
trace_tcp_close(sk) ==
    /\ ebStart' = ebStart \ {sk}
    /\ UNCHANGED <<ebKernel, ebPoll, ebStop, ebLog, ebMain, ebServer, ebRecorded, ebRaced, ebFaults>>

-----------------------------------------------------------------------------
(* _poll_loop.  The event is tested before the wait, so the buckets are    *)
(* read once more after stop().                                            *)
NextBucket == IF ebPoll.i = Len(EBBounds)
              THEN [pc |-> "wait", i |-> 1, total |-> 0, left |-> 0]
              ELSE [pc |-> "read", i |-> ebPoll.i + 1, total |-> 0, left |-> 0]
PollWait ==
    /\ ebPoll.pc = "wait"
    /\ ebPoll' = [ebPoll EXCEPT !.pc = IF ebStop THEN "ended" ELSE "read"]
    /\ UNCHANGED <<ebStart, ebKernel, ebStop, ebLog, ebMain, ebServer, ebRecorded, ebRaced, ebFaults>>
PollRead ==
    LET total == SumOf(ebKernel[ebPoll.i])
    IN  /\ ebPoll.pc = "read"
        /\ ebPoll' = IF total = 0 THEN NextBucket
                     ELSE [ebPoll EXCEPT !.pc = "add", !.total = total, !.left = total]
        /\ UNCHANGED <<ebStart, ebKernel, ebStop, ebLog, ebMain, ebServer, ebRecorded, ebRaced, ebFaults>>
PollAdd ==
    /\ ebPoll.pc = "add"
    /\ LET n == IF ebPoll.left < EBBatch THEN ebPoll.left ELSE EBBatch
       IN  /\ ebLog' = [ebLog EXCEPT ![ebPoll.i] = @ + n]
           /\ ebPoll' = [ebPoll EXCEPT !.left = @ - n, !.pc = IF ebPoll.left = n THEN "zero" ELSE "add"]
    /\ UNCHANGED <<ebStart, ebKernel, ebStop, ebMain, ebServer, ebRecorded, ebRaced, ebFaults>>
PollZeroReadsAgain ==                   \* what came in late is added with all the rest
    /\ ebPoll.pc = "zero"
    /\ ebLog' = IF SumOf(ebKernel[ebPoll.i]) = ebPoll.total THEN ebLog
                ELSE [ebLog EXCEPT ![ebPoll.i] = @ + SumOf(ebKernel[ebPoll.i])]
    /\ ebKernel' = [ebKernel EXCEPT ![ebPoll.i] = [c \in EBCpu |-> 0]]
    /\ ebPoll' = NextBucket
    /\ UNCHANGED <<ebStart, ebStop, ebMain, ebServer, ebRecorded, ebRaced, ebFaults>>
PollZero ==
    /\ ebPoll.pc = "zero"
    /\ ebKernel' = [ebKernel EXCEPT ![ebPoll.i] = [c \in EBCpu |-> 0]]
    /\ ebPoll' = NextBucket
    /\ UNCHANGED <<ebStart, ebStop, ebLog, ebMain, ebServer, ebRecorded, ebRaced, ebFaults>>

(* main: drain, post, and merge back; a signal ends the loop, and finally  *)
(* the polling thread is told to stop.                                     *)
Drain ==
    /\ ebMain.pc = "wait"
    /\ IF SumOf(ebLog) = 0 THEN UNCHANGED <<ebLog, ebMain>>
       ELSE ebLog' = Zeros /\ ebMain' = [ebMain EXCEPT !.pc = "post", !.snap = ebLog]
    /\ UNCHANGED <<ebStart, ebKernel, ebPoll, ebStop, ebServer, ebRecorded, ebRaced, ebFaults>>
Posted202 ==
    /\ ebMain.pc = "post"
    /\ ebServer' = Plus(ebServer, ebMain.snap)
    /\ ebMain' = [pc |-> "wait", snap |-> Zeros, error |-> FALSE]
    /\ UNCHANGED <<ebStart, ebKernel, ebPoll, ebStop, ebLog, ebRecorded, ebRaced, ebFaults>>
RestoreOverwrites(applied) ==           \* the log becomes the snapshot again
    /\ ebMain.pc = "post" /\ ebFaults.n < EBMaxFaults
    /\ ebServer' = IF applied THEN Plus(ebServer, ebMain.snap) ELSE ebServer
    /\ ebFaults' = [n |-> ebFaults.n + 1, unsure |-> ebFaults.unsure \/ applied]
    /\ ebLog' = ebMain.snap
    /\ ebMain' = [pc |-> "wait", snap |-> Zeros, error |-> TRUE]
    /\ UNCHANGED <<ebStart, ebKernel, ebPoll, ebStop, ebRecorded, ebRaced>>
PostFails(applied) ==
    /\ ebMain.pc = "post" /\ ebFaults.n < EBMaxFaults
    /\ ebServer' = IF applied THEN Plus(ebServer, ebMain.snap) ELSE ebServer
    /\ ebFaults' = [n |-> ebFaults.n + 1, unsure |-> ebFaults.unsure \/ applied]
    /\ ebLog' = Plus(ebLog, ebMain.snap)
    /\ ebMain' = [pc |-> "wait", snap |-> Zeros, error |-> TRUE]
    /\ UNCHANGED <<ebStart, ebKernel, ebPoll, ebStop, ebRecorded, ebRaced>>
RequestStop ==
    /\ ebMain.pc = "wait" /\ ebMain' = [ebMain EXCEPT !.pc = "ended"] /\ ebStop' = TRUE
    /\ UNCHANGED <<ebStart, ebKernel, ebPoll, ebLog, ebServer, ebRecorded, ebRaced, ebFaults>>

PollStep == PollWait \/ PollRead \/ PollAdd \/ PollZero
EBNext ==
    \/ PollStep \/ Drain \/ Posted202 \/ RequestStop
    \/ \E applied \in BOOLEAN : PostFails(applied)
    \/ \E sk \in EBSock :
         \/ trace_tcp_sendmsg(sk) \/ trace_tcp_close(sk)
         \/ \E v \in EBLatency, cpu \in EBCpu : trace_tcp_cleanup_rbuf(sk, v, cpu)

-----------------------------------------------------------------------------
(* Every latency is in the right bucket of exactly one place (the kernel,  *)
(* the log, the snapshot being posted, the server), whatever the polling   *)
(* thread and the main loop are doing and whichever posts are refused, as  *)
(* long as no probe counted into a bucket between its read and its zeroing *)
(* and no failed post had been applied.                                    *)
EBConserved ==
    (~ebRaced /\ ~ebFaults.unsure) =>
        \A i \in EBBuckets :
            LET taken == IF ebPoll.pc \in {"add", "zero"} /\ ebPoll.i = i THEN ebPoll.total - ebPoll.left ELSE 0
            IN  ebRecorded[i] = (SumOf(ebKernel[i]) - taken) + ebLog[i] + ebMain.snap[i] + ebServer[i]

(* With a probe racing the poll latencies are lost, never invented: the    *)
(* server and the log hold at most what was recorded.                      *)
EBNeverInvented ==
    ~ebFaults.unsure => \A i \in EBBuckets : ebLog[i] + ebMain.snap[i] + ebServer[i] <= ebRecorded[i]

(* The fixed number of iterations, one less than a search of so many       *)
(* buckets can take, still finds the bucket of every latency, for every    *)
(* number of buckets that _init_ebpf may load.                             *)
EBSearchExact ==
    \A buckets \in EBBuckets, v \in 0 .. EBBounds[Len(EBBounds)] + 1 :
        Search(v, buckets) = BucketMeant(v, buckets)

(* stop() was called and the polling thread, which must end, is alive.     *)
EBPending == ebStop /\ ebPoll.pc # "ended"

(* What the collector promises of a latency: it is counted once, in its    *)
(* bucket, wherever it is on its way from the kernel to the server.        *)
EBSafe == EBConserved /\ EBNeverInvented /\ EBSearchExact

=============================================================================
