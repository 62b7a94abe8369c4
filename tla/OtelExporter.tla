----------------------------- MODULE OtelExporter -----------------------------
(***************************************************************************)
(* The SketchLog exporter of the OpenTelemetry collector (Go).  Pipelines  *)
(* call it concurrently with payloads of metrics, traces or logs; it turns *)
(* a payload into batches, splits them and posts the chunks.  A cumulative *)
(* sum becomes a delta against the last value seen of the series, which is *)
(* remembered under a mutex before anything is posted.  The sender of a    *)
(* payload (external) may send it again after an error that is not         *)
(* permanent.                                                              *)
(***************************************************************************)
EXTENDS Integers, Sequences, FiniteSets

CONSTANTS
    OXWorker,     \* concurrent calls
    OXConfigs,    \* configurations: [max, metrics, spans, logs]
    OXHistogram,  \* histograms: sequences of bucket counts
    OXMaxValue,   \* bound: increments of the source's counter
    OXMaxPayload  \* bound: calls of the exporter

(* Calls are finitely many at a time, max_batch_items is an int and the    *)
(* buckets of a histogram have counts.                                     *)
ASSUME OXAssumption ==
    /\ IsFiniteSet(OXWorker)
    /\ \A c \in OXConfigs : c.max \in Int
    /\ \A h \in OXHistogram : h \in Seq(Nat)

VARIABLES
    oxCfg,      \* cfg
    oxSums,     \* cumulativeSums of the one series: -1 when not seen
    oxW,        \* per worker: [pc, payload, lat, ev, sent], its batch and the items of it posted
    oxSource,   \* the source's counter, and increments since it was first sent
    oxServer,   \* what the server has counted: [events, lat, logs]
    oxAgain,    \* payloads on their way, for the first time or again
    oxCalls,    \* calls so far
    oxDue,      \* ghost: latencies of metrics and traces, and log records, acknowledged
    oxCalm      \* ghost: nothing failed, no reset, and values came in order

oxVars == <<oxCfg, oxSums, oxW, oxSource, oxServer, oxAgain, oxCalls, oxDue, oxCalm>>
OXNothing == [kind |-> "none", value |-> 0, hist |-> <<>>, n |-> 0]
OXIdle == [pc |-> "idle", payload |-> OXNothing, lat |-> 0, ev |-> 0, sent |-> 0]

(* Config.Validate, for the fields that carry control.                     *)
Validate(c) ==
    /\ c.max > 0
    /\ c.spans # "" \/ c.logs # "" \/ c.metrics # <<>>
    /\ \A i, j \in DOMAIN c.metrics : c.metrics[i].name = c.metrics[j].name => i = j
    /\ \A i \in DOMAIN c.metrics :
         /\ c.metrics[i].kind \in {"latency", "event", "unique"}
         /\ c.metrics[i].kind = "event" => c.metrics[i].event # ""
metricMap(name) == {oxCfg.metrics[i] : i \in {k \in DOMAIN oxCfg.metrics : oxCfg.metrics[k].name = name}}

OXInit ==
    /\ oxCfg \in {c \in OXConfigs : Validate(c)} /\ oxSums = -1
    /\ oxW = [w \in OXWorker |-> OXIdle]
    /\ oxSource = [value |-> 0, true |-> 0, known |-> FALSE]
    /\ oxServer = [events |-> 0, lat |-> 0, logs |-> 0]
    /\ oxAgain = {} /\ oxCalls = 0 /\ oxDue = [lat |-> 0, logs |-> 0] /\ oxCalm = TRUE

-----------------------------------------------------------------------------
(* cumulativeDelta: nothing for the first value; a smaller value is taken  *)
(* for a reset and counts whole.                                           *)
cumulativeDelta(current) ==
    IF oxSums = -1 THEN 0 ELSE IF current < oxSums THEN current ELSE current - oxSums

(* expandHistogram: samples per bucket; above the limit a bucket gets its  *)
(* rounded share, at least one, while the limit lasts.                     *)
Share(c, count, max) == IF 2 * c * max + count < 2 * count THEN 1
                        ELSE (2 * c * max + count) \div (2 * count)
Taken(c, count, max, used) == IF c = 0 THEN 0
                              ELSE IF used + Share(c, count, max) > max THEN max - used
                              ELSE Share(c, count, max)
Used(h, count, max) ==
    LET used[k \in 0 .. Len(h)] ==
            IF k = 0 THEN 0 ELSE used[k - 1] + Taken(h[k], count, max, used[k - 1])
    IN  used
Downsample(h, count, max) ==
    [i \in 1 .. Len(h) |-> Taken(h[i], count, max, Used(h, count, max)[i - 1])]
HistogramCount(h) ==
    LET total[k \in 0 .. Len(h)] == IF k = 0 THEN 0 ELSE total[k - 1] + h[k] IN total[Len(h)]
expandHistogram(h) ==
    IF HistogramCount(h) <= oxCfg.max THEN h ELSE Downsample(h, HistogramCount(h), oxCfg.max)

(* collectMetric: the counter and the histogram of a metrics payload.  A   *)
(* counter mapped as a latency is one latency, its delta, if it moved.     *)
Mapped(name, kind) == \E m \in metricMap(name) : m.kind = kind
EventsOf(p) == IF Mapped("requests", "event") THEN cumulativeDelta(p.value) ELSE 0
LatenciesOf(p) ==
    (IF Mapped("requests", "latency") /\ cumulativeDelta(p.value) > 0 THEN 1 ELSE 0)
    + (IF Mapped("duration", "latency") THEN HistogramCount(expandHistogram(p.hist)) ELSE 0)

(* splitBatch: the latencies one after the other, then the events, a chunk *)
(* when it is full; an event name is one item whatever its count.  This is *)
(* the chunk that follows the items already posted.                        *)
Smaller(m, n) == IF m < n THEN m ELSE n
ItemsOf(b) == b.lat + IF b.ev = 0 THEN 0 ELSE 1
splitBatch(b) ==
    LET upto == Smaller(b.sent + oxCfg.max, ItemsOf(b))
    IN  [lat |-> Smaller(upto, b.lat) - Smaller(b.sent, b.lat),
         ev |-> IF b.sent <= b.lat /\ b.lat < upto THEN b.ev ELSE 0, upto |-> upto]

-----------------------------------------------------------------------------
(* The source: it counts, restarts, and sends what it has.                 *)
OXCount ==
    /\ oxSource.value < OXMaxValue /\ oxSource.true < OXMaxValue
    /\ oxSource' = [oxSource EXCEPT !.value = @ + 1, !.true = IF oxSource.known THEN @ + 1 ELSE @]
    /\ UNCHANGED <<oxCfg, oxSums, oxW, oxServer, oxAgain, oxCalls, oxDue, oxCalm>>
OXSourceRestarts ==
    /\ oxSource.value > 0 /\ oxCalls < OXMaxPayload
    /\ oxSource' = [oxSource EXCEPT !.value = 0] /\ oxCalm' = FALSE
    /\ UNCHANGED <<oxCfg, oxSums, oxW, oxServer, oxAgain, oxCalls, oxDue>>

(* A payload of metrics is on its way until a worker takes it.             *)
OXSend ==
    /\ oxCalls + Cardinality(oxAgain) < OXMaxPayload
    /\ \E h \in OXHistogram :
         oxAgain' = oxAgain \cup {[kind |-> "metrics", value |-> oxSource.value, hist |-> h, n |-> 0]}
    /\ oxSource' = [oxSource EXCEPT !.known = TRUE]
    /\ UNCHANGED <<oxCfg, oxSums, oxW, oxServer, oxCalls, oxDue, oxCalm>>
Fresh == {[kind |-> k, value |-> 0, hist |-> <<>>, n |-> 2] : k \in {"traces", "logs"}}

(* consumeMetrics up to the posts.  It is out of order when a smaller      *)
(* value is still on its way.                                              *)
consumeMetrics(w, p) ==
    /\ p.kind = "metrics"
    /\ oxW' = [oxW EXCEPT ![w] = [pc |-> "post", payload |-> p, lat |-> LatenciesOf(p),
                                  ev |-> EventsOf(p), sent |-> 0]]
    /\ oxSums' = IF metricMap("requests") = {} THEN oxSums ELSE p.value
    /\ oxCalm' = (oxCalm /\ \A q \in oxAgain : q.kind = "metrics" => q.value >= p.value)
    /\ UNCHANGED oxSource

(* consumeTraces and consumeLogs: n spans that took time, n records of one *)
(* event name.  Without a configured stream the payload is dropped.        *)
consumeTraces(w, p) ==
    /\ p.kind = "traces"
    /\ LET n == IF oxCfg.spans = "" THEN 0 ELSE p.n
       IN  oxW' = [oxW EXCEPT ![w] = [pc |-> "post", payload |-> p, lat |-> n, ev |-> 0, sent |-> 0]]
    /\ UNCHANGED <<oxSums, oxSource, oxCalm>>
consumeLogs(w, p) ==
    /\ p.kind = "logs"
    /\ LET n == IF oxCfg.logs = "" THEN 0 ELSE p.n
       IN  oxW' = [oxW EXCEPT ![w] = [pc |-> "post", payload |-> [p EXCEPT !.n = n], lat |-> 0,
                                      ev |-> n, sent |-> 0]]
    /\ UNCHANGED <<oxSums, oxSource, oxCalm>>
Consume(w, p) ==
    /\ oxW[w].pc = "idle" /\ oxCalls < OXMaxPayload /\ oxCalls' = oxCalls + 1
    /\ consumeMetrics(w, p) \/ consumeTraces(w, p) \/ consumeLogs(w, p)
    /\ oxAgain' = oxAgain \ {p}
    /\ UNCHANGED <<oxCfg, oxServer, oxDue>>

(* postBatch: an answer 2xx goes on; any other, or none, ends the call.    *)
isPermanentHTTPStatus(status) == status \in 400 .. 499 /\ status \notin {408, 429}
Posted(w) ==
    LET c == splitBatch(oxW[w])
        logs == oxW[w].payload.kind = "logs"
    IN  [events |-> oxServer.events + IF logs THEN 0 ELSE c.ev, lat |-> oxServer.lat + c.lat,
         logs |-> oxServer.logs + IF logs THEN c.ev ELSE 0]
PostGoesOn(w, status, applied) ==           \* flushBatches forgets the error
    /\ oxW[w].pc = "post" /\ oxW[w].sent < ItemsOf(oxW[w]) /\ (status = 200 => applied)
    /\ oxServer' = IF applied THEN Posted(w) ELSE oxServer
    /\ oxCalm' = (oxCalm /\ status = 200)
    /\ oxW' = [oxW EXCEPT ![w].sent = splitBatch(oxW[w]).upto]
    /\ UNCHANGED <<oxCfg, oxSums, oxSource, oxAgain, oxCalls, oxDue>>
postBatch(w, status, applied) ==
    /\ oxW[w].pc = "post" /\ oxW[w].sent < ItemsOf(oxW[w]) /\ (status = 200 => applied)
    /\ oxServer' = IF applied THEN Posted(w) ELSE oxServer
    /\ IF status = 200
       THEN oxW' = [oxW EXCEPT ![w].sent = splitBatch(oxW[w]).upto] /\ UNCHANGED <<oxAgain, oxCalm>>
       ELSE /\ oxW' = [oxW EXCEPT ![w] = OXIdle]
            /\ oxAgain' = IF isPermanentHTTPStatus(status) THEN oxAgain ELSE oxAgain \cup {oxW[w].payload}
            /\ oxCalm' = FALSE
    /\ UNCHANGED <<oxCfg, oxSums, oxSource, oxCalls, oxDue>>

(* The call returns nil: its sender will not send the payload again.       *)
Acknowledge(w) ==
    /\ oxW[w].pc = "post" /\ oxW[w].sent = ItemsOf(oxW[w])
    /\ oxW' = [oxW EXCEPT ![w] = OXIdle]
    /\ oxDue' = [lat |-> oxDue.lat + oxW[w].lat,
                 logs |-> oxDue.logs + IF oxW[w].payload.kind = "logs" THEN oxW[w].payload.n ELSE 0]
    /\ UNCHANGED <<oxCfg, oxSums, oxSource, oxServer, oxAgain, oxCalls, oxCalm>>

OXNext ==
    \/ OXCount \/ OXSourceRestarts \/ OXSend
    \/ \E w \in OXWorker :
         \/ \E p \in Fresh \cup oxAgain : Consume(w, p)
         \/ \E status \in {200, 400, 429}, applied \in BOOLEAN : postBatch(w, status, applied)
         \/ Acknowledge(w)

-----------------------------------------------------------------------------
(* As long as values arrive in order and nothing fails, the server has     *)
(* counted, of a counter mapped as an event, exactly the increments        *)
(* between the first value of the series that was sent and the last that   *)
(* was seen, once no call is in progress (and at most these while calls    *)
(* are).                                                                   *)
OXExactWhileCalm ==
    (oxCalm /\ oxSums >= 0 /\ Mapped("requests", "event")) =>
        LET seen == oxSource.true - (oxSource.value - oxSums) IN
        /\ oxServer.events <= seen
        /\ (\A w \in OXWorker : oxW[w].pc = "idle") => oxServer.events = seen

(* An acknowledged payload has arrived: the server has at least the        *)
(* latencies and the log records of all calls that returned nil, whichever *)
(* chunks of whichever calls failed.                                       *)
OXAcknowledgedArrived == oxServer.lat >= oxDue.lat /\ oxServer.logs >= oxDue.logs

(* A histogram never costs the collector more samples than max_batch_items *)
(* and never fewer than one when it has observations.                      *)
OXHistogramBounded ==
    \A h \in {oxW[w].payload.hist : w \in OXWorker} \ {<<>>} :
        LET out == expandHistogram(h) IN
        /\ HistogramCount(out) <= oxCfg.max
        /\ HistogramCount(h) > 0 => HistogramCount(out) > 0
        /\ \A i \in DOMAIN out : out[i] > 0 => h[i] > 0

(* What the exporter promises: deltas that are exact while nothing fails,  *)
(* no acknowledgement for what has not arrived, and bounded histograms.    *)
OXSafe == OXExactWhileCalm /\ OXAcknowledgedArrived /\ OXHistogramBounded

=============================================================================
