----------------------------- MODULE ServerApi -----------------------------
(***************************************************************************)
(* The write path of the HTTP server (server.py): a request passes the     *)
(* authentication middleware, the upload limit, the body validation and    *)
(* the handler of ingest or merge.  The handlers are coroutines of one     *)
(* event loop, so a step runs from one await to the next.  One stream is   *)
(* modelled, in memory and in storage; its counters are abstracted to the  *)
(* number of latencies, of counted events and their total.                 *)
(***************************************************************************)
EXTENDS Integers, Sequences, FiniteSets

CONSTANTS
    SAClients,    \* connections, each carries one request
    SARequests,   \* the requests they may send
    SAAuth,       \* <<>> or [admin |-> token, spaces |-> token -> namespaces]
    SALimit,      \* MAX_REQUEST_BYTES
    SAInt64,      \* 2^63 - 1
    SAUint64,     \* 2^64 - 1
    SAStart,      \* the states of the stored stream at start
    SASettings    \* the storage settings of the environment

(* A body has at least one chunk, validated counts are natural, and what   *)
(* is stored counts no more events than observations.                      *)
ASSUME SAAssumption ==
    /\ SALimit \in Nat /\ SAInt64 \in Nat /\ SAUint64 = 2 * SAInt64 + 1
    /\ \A q \in SARequests :
         /\ Len(q.chunks) \in Nat \ {0} /\ \A i \in 1 .. Len(q.chunks) : q.chunks[i] \in Nat
         /\ q.length \in {"garbage", "negative", "absent", "given"}
         /\ q.kind \in {"ingest", "merge"} /\ q.valid \in BOOLEAN
         /\ q.valid => /\ q.lat \in Nat /\ Len(q.events) \in Nat
                       /\ \A i \in 1 .. Len(q.events) : q.events[i] \in Nat
    /\ \A s \in SAStart : s.ev \in Nat /\ s.total \in Nat /\ s.ev <= s.total
    /\ \A e \in SASettings : e.uri \in BOOLEAN /\ e.dir \in BOOLEAN

VARIABLES
    saLog,        \* the resident stream, or SANoLog
    saDisk,       \* the stored stream, or SANoLog
    saLock,       \* holder of the registry's _operation_lock, or SAGone
    saRq,         \* the requests in flight and answered
    saBackend     \* what _configure_storage_backend chose

saVars == <<saLog, saDisk, saLock, saRq, saBackend>>

SAGone == "gone"
SANoLog == [lat |-> -1, ev |-> 0, total |-> 0]
SAEmpty == [lat |-> 0, ev |-> 0, total |-> 0]
SAOpen == [pc |-> "open", q |-> SAGone, got |-> 0, over |-> FALSE, seen |-> 0,
           status |-> 0, moved |-> FALSE, lat |-> 0, ev |-> 0]

(* The sum of the first k numbers of s, and of all. *)
SumTo(s, k) ==
    LET sum[i \in 0 .. Len(s)] == IF i = 0 THEN 0 ELSE sum[i - 1] + s[i]
    IN  sum[k]
SASum(s) == SumTo(s, Len(s))

-----------------------------------------------------------------------------
(* Start-up: which durable backend the environment asks for. *)

ImplicitBackend(e) ==
    IF e.backend # "" THEN e.backend
    ELSE IF e.dir THEN "omnikv" ELSE IF e.uri THEN "sqlalchemy" ELSE ""

_configure_storage_backend(e) ==
    CASE ImplicitBackend(e) \in {"", "memory", "none"}   ->
            IF e.uri \/ e.dir THEN "exit" ELSE "memory"
      [] ImplicitBackend(e) \in {"sqlalchemy", "sql"}    ->
            IF e.uri /\ ~e.dir THEN "sqlalchemy" ELSE "exit"
      [] ImplicitBackend(e) = "omnikv"                   ->
            IF e.dir /\ ~e.uri THEN "omnikv" ELSE "exit"
      [] OTHER                                           -> "exit"

SADurable == saBackend.chosen \in {"sqlalchemy", "omnikv"}

SAInit ==
    /\ \E e \in SASettings :
         saBackend = [asked |-> e, chosen |-> _configure_storage_backend(e)]
    /\ saLog = SANoLog
    /\ saDisk \in IF SADurable THEN SAStart ELSE {SANoLog}
    /\ saLock = SAGone
    /\ saRq = [c \in SAClients |-> SAOpen]

-----------------------------------------------------------------------------
(* The middleware. *)

require_auth(q) ==
    IF SAAuth = <<>> THEN 0
    ELSE IF q.token = SAGone THEN 401
    ELSE IF q.token = SAAuth.admin THEN 0
    ELSE IF q.token \notin DOMAIN SAAuth.spaces THEN 401
    ELSE IF q.asks \subseteq SAAuth.spaces[q.token] THEN 0 ELSE 403

ContentLength(q) ==
    CASE q.length \in {"garbage", "negative"}                   -> 400
      [] q.length = "given" /\ SASum(q.chunks) > SALimit        -> 413
      [] OTHER                                                  -> 0

(* What the client gets once the application has answered s, or 0 when its *)
(* exception came through: the pending answer is dropped when the body was *)
(* too large.                                                              *)
AnswerOfException(rq, s) == IF s = 0 THEN 413 ELSE s
PendingAnswer(rq, s) == IF rq.over THEN 413 ELSE s

Finish(c, s, rq) ==
    saRq' = [saRq EXCEPT ![c] =
               [rq EXCEPT !.pc = "done", !.status = PendingAnswer(rq, s)]]

Arrive(c, q) ==
    /\ saRq[c].pc = "open"
    /\ LET rq == [saRq[c] EXCEPT !.q = q]
           s  == IF require_auth(q) # 0 THEN require_auth(q) ELSE ContentLength(q)
       IN IF s # 0 THEN Finish(c, s, rq)
                   ELSE saRq' = [saRq EXCEPT ![c] = [rq EXCEPT !.pc = "body"]]
    /\ UNCHANGED <<saLog, saDisk, saLock, saBackend>>

(* One chunk of the body; the application reads all of it before it acts. *)
limited_receive(c) ==
    /\ saRq[c].pc = "body"
    /\ LET rq   == saRq[c]
           n    == rq.got + 1
           over == SumTo(rq.q.chunks, n) > SALimit
       IN saRq' = [saRq EXCEPT ![c] =
                     [rq EXCEPT !.got = n,
                                !.over = over,
                                !.pc = IF over THEN "raised"
                                       ELSE IF n = Len(rq.q.chunks) THEN "read" ELSE "body"]]
    /\ UNCHANGED <<saLog, saDisk, saLock, saBackend>>

(* The body reader of the framework turns the exception into a 400 or lets *)
(* it through, depending on the endpoint.                                  *)
TooLarge(c) ==
    /\ saRq[c].pc = "raised"
    /\ \E s \in {0, 400} : Finish(c, s, saRq[c])
    /\ UNCHANGED <<saLog, saDisk, saLock, saBackend>>

-----------------------------------------------------------------------------
(* The handlers. *)

EventsFit(log, lat, events, k) ==
    /\ log.total + lat + SumTo(events, k) <= SAUint64
    /\ log.ev + SumTo(events, k) <= SAInt64

(* How many of the events are added before add_event raises. *)
EventsAdded(log, lat, events) ==
    CHOOSE k \in 0..Len(events) :
        /\ \A j \in 1..k : EventsFit(log, lat, events, j)
        /\ k = Len(events) \/ ~EventsFit(log, lat, events, k + 1)

(* ingest_events from get_or_create's return to its own: add_batch is all  *)
(* or nothing, the events follow one by one.                               *)
ApplyBatch(rq, log) ==
    LET q    == rq.q
        lat  == IF q.wide \/ log.total + q.lat > SAUint64 THEN 0 ELSE q.lat
        fits == lat = q.lat
        k    == IF fits THEN EventsAdded(log, lat, q.events) ELSE 0
        ev   == SumTo(q.events, k)
    IN [log    |-> [lat |-> log.lat + lat, ev |-> log.ev + ev,
                    total |-> log.total + lat + ev],
        status |-> IF fits /\ k = Len(q.events) THEN 202 ELSE 500,
        lat    |-> lat, ev |-> ev]

(* merge_stream: the merge itself is all or nothing, its errors are 422. *)
ApplyMerge(rq, log) ==
    LET q  == rq.q
        n  == q.lat + SASum(q.events)
        ok == /\ ~q.wide
              /\ log.total + n <= SAUint64
              /\ log.ev + SASum(q.events) <= SAInt64
    IN IF ok
       THEN [log    |-> [lat |-> log.lat + q.lat, ev |-> log.ev + SASum(q.events),
                         total |-> log.total + n],
             status |-> 202, lat |-> q.lat, ev |-> SASum(q.events)]
       ELSE [log |-> log, status |-> 422, lat |-> 0, ev |-> 0]

(* The stream is inserted and changed without an await in between. *)
Apply(c, rq, log) ==
    LET r == IF rq.q.kind = "ingest" THEN ApplyBatch(rq, log) ELSE ApplyMerge(rq, log)
    IN /\ saLog' = r.log
       /\ Finish(c, r.status, [rq EXCEPT !.lat = r.lat, !.ev = r.ev,
                                         !.moved = log.total # rq.seen])

(* registry.get_or_create, as far as its first await. *)
get_or_create(c, rq) ==
    CASE saLock # SAGone               ->
            /\ saRq' = [saRq EXCEPT ![c] = [rq EXCEPT !.pc = "queued"]]
            /\ UNCHANGED <<saLog, saLock>>
      [] saLock = SAGone /\ saLog # SANoLog ->
            /\ Apply(c, rq, saLog)
            /\ UNCHANGED saLock
      [] saLock = SAGone /\ saLog = SANoLog /\ SADurable ->
            /\ saLock' = c
            /\ saRq' = [saRq EXCEPT ![c] = [rq EXCEPT !.pc = "loading"]]
            /\ UNCHANGED saLog
      [] OTHER                         ->
            /\ Apply(c, rq, SAEmpty)
            /\ UNCHANGED saLock

NewEvents(q) == q.lat + SASum(q.events)

(* The capacity preflight; it has read a total of n. *)
Preflight(c, rq, n) ==
    IF n + NewEvents(rq.q) > SAInt64
    THEN /\ Finish(c, 422, rq)
         /\ UNCHANGED <<saLog, saLock>>
    ELSE get_or_create(c, [rq EXCEPT !.seen = n])

EventBatchValid(q) == q.valid

ingest_events(c) ==
    /\ saRq[c].pc = "read" /\ saRq[c].q.kind = "ingest"
    /\ LET rq == saRq[c]
       IN CASE ~EventBatchValid(rq.q) ->
                 /\ Finish(c, 422, rq)
                 /\ UNCHANGED <<saLog, saLock>>
            [] EventBatchValid(rq.q) /\ saLog = SANoLog /\ SADurable ->
                 /\ saRq' = [saRq EXCEPT ![c].pc = "peeking"]
                 /\ UNCHANGED <<saLog, saLock>>
            [] OTHER -> Preflight(c, rq, saLog.total)
    /\ UNCHANGED <<saDisk, saBackend>>

(* The preflight's own storage.load, outside the registry's lock. *)
PreflightLoad(c) ==
    /\ saRq[c].pc = "peeking"
    /\ saRq' = [saRq EXCEPT ![c].pc = "peeked", ![c].seen = saDisk.total]
    /\ UNCHANGED <<saLog, saDisk, saLock, saBackend>>

PreflightLoaded(c) ==
    /\ saRq[c].pc = "peeked"
    /\ Preflight(c, saRq[c], saRq[c].seen)
    /\ UNCHANGED <<saDisk, saBackend>>

merge_stream(c) ==
    /\ saRq[c].pc = "read" /\ saRq[c].q.kind = "merge"
    /\ IF saRq[c].q.valid
       THEN get_or_create(c, saRq[c])
       ELSE /\ Finish(c, 422, saRq[c])
            /\ UNCHANGED <<saLog, saLock>>
    /\ UNCHANGED <<saDisk, saBackend>>

Acquired(c) ==
    /\ saRq[c].pc = "queued" /\ saLock = SAGone
    /\ get_or_create(c, saRq[c])
    /\ UNCHANGED <<saDisk, saBackend>>

Loaded(c) ==
    /\ saRq[c].pc = "loading"
    /\ Apply(c, saRq[c], IF saDisk = SANoLog THEN SAEmpty ELSE saDisk)
    /\ saLock' = SAGone
    /\ UNCHANGED <<saDisk, saBackend>>

LoadRaises(c) ==
    /\ \/ saRq[c].pc = "loading" /\ saLock' = SAGone
       \/ saRq[c].pc = "peeking" /\ UNCHANGED saLock
    /\ Finish(c, 500, saRq[c])
    /\ UNCHANGED <<saLog, saDisk, saBackend>>

(* The flush loop, and the eviction by a request for another stream. *)
SAFlush ==
    /\ SADurable /\ saLog # SANoLog /\ saDisk # saLog
    /\ saDisk' = saLog
    /\ UNCHANGED <<saLog, saLock, saRq, saBackend>>

SAEvict ==
    /\ SADurable /\ saLog # SANoLog /\ saLock = SAGone
    /\ saDisk' = saLog /\ saLog' = SANoLog
    /\ UNCHANGED <<saLock, saRq, saBackend>>

SANext ==
    /\ saBackend.chosen # "exit"
    /\ \/ \E c \in SAClients :
            \/ \E q \in SARequests : Arrive(c, q)
            \/ limited_receive(c)
            \/ TooLarge(c)
            \/ ingest_events(c)
            \/ PreflightLoad(c)
            \/ PreflightLoaded(c)
            \/ merge_stream(c)
            \/ Acquired(c)
            \/ Loaded(c)
            \/ LoadRaises(c)
       \/ SAFlush
       \/ SAEvict

-----------------------------------------------------------------------------
(* docs/threat_model.md promises that a rejected batch leaves no partial   *)
(* state.  An accepted request has been applied as a whole; any other has  *)
(* changed nothing, unless another request changed the stream between the  *)
(* capacity preflight of ingest_events and the application of its batch.   *)
SAAllOrNothing ==
    \A c \in SAClients :
        saRq[c].pc = "done" =>
            LET rq == saRq[c]
            IN \/ /\ rq.status = 202
                  /\ rq.lat = rq.q.lat /\ rq.ev = SASum(rq.q.events)
               \/ rq.status # 202 /\ rq.lat = 0 /\ rq.ev = 0
               \/ rq.status = 500 /\ rq.q.kind = "ingest" /\ rq.moved

(* LimitUploadSize: a body above the limit is answered 413 and never       *)
(* applied, whether its length was declared or only its chunks show it and *)
(* whatever the layers below made of the exception; no other body is.      *)
SABodyLimit ==
    \A c \in SAClients :
        LET rq == saRq[c]
        IN rq.pc = "done" /\ rq.status \notin {401, 403} =>
               \/ rq.q.length \in {"garbage", "negative"} /\ rq.status = 400
               \/ /\ rq.q.length \in {"absent", "given"} /\ rq.status # 400
                  /\ rq.status = 413 <=> SASum(rq.q.chunks) > SALimit

(* _configure_storage_backend never leaves a durable setting unused: the   *)
(* server runs on the backend that each setting given belongs to, or it    *)
(* does not start.                                                         *)
SASettingsHonoured ==
    /\ saBackend.asked.uri => saBackend.chosen \in {"sqlalchemy", "exit"}
    /\ saBackend.asked.dir => saBackend.chosen \in {"omnikv", "exit"}

(* What the write path promises: requests that are applied whole or not at *)
(* all, bodies within the limit, and the backend that the settings ask     *)
(* for.                                                                    *)
SASafe == SAAllOrNothing /\ SABodyLimit /\ SASettingsHonoured

=============================================================================
