-------------------------------- MODULE Agent --------------------------------
(***************************************************************************)
(* SketchLogAgent: in every cycle it scrapes the Prometheus targets one    *)
(* after the other, turns samples into batches (counters into deltas       *)
(* against the last value it saw), and posts the batches in chunks.  A     *)
(* scrape or a post that fails ends the cycle; an error that run_forever   *)
(* does not catch ends the process, which is then started again.  Numbers  *)
(* are counted in halves, so that value_scale and round() matter.          *)
(***************************************************************************)
EXTENDS Integers, Sequences, SequencesExt, FiniteSets, FiniteSetsExt

CONSTANTS
    AGTarget,    \* sequence of targets
    AGConfig,    \* the configurations load_config may read
    AGGauge,     \* values of the gauge, AGNaN among them
    AGNaN,       \* a value that parse_prometheus_text drops
    AGMaxSource, \* bound: value of a counter, and increments watched
    AGMaxCycles  \* bound: cycles

VARIABLES
    agCfg,      \* the configuration in use
    agSource,   \* per target: its counter, in units
    agLast,     \* _last_counter_values
    agRun,      \* the cycle in progress: [pc, at, batches, chunks]
    agServer,   \* per stream: [lat, events] as the server has counted them
    agCycles,   \* cycles begun
    agTrue,     \* ghost: per target, increments since its first scrape
    agSeen,     \* ghost: per target, agTrue at its last scrape
    agBase,     \* ghost: targets scraped by this process
    agLat,      \* ghost: latencies handed to _flush_batches
    agHealthy   \* ghost: nothing has failed and no counter was reset

agVars == <<agCfg, agSource, agLast, agRun, agServer, agCycles, agTrue, agSeen, agBase, agLat, agHealthy>>
AGNames == {"hits", "half"}
AGStreams == {"s1", "s2"}
AGNoBatch == [lat |-> <<>>, uniq |-> <<>>, events |-> [e \in AGNames |-> 0]]
AGIdle == [pc |-> "idle", at |-> 1, batches |-> [s \in AGStreams |-> AGNoBatch], chunks |-> <<>>]

(* load_config and the __post_init__ checks: a mapping names a metric and  *)
(* a stream, an event mapping an event; the batch limit is at least one.   *)
MappingValid(m) ==
    /\ m.metric # "" /\ m.stream \in AGStreams /\ m.scale > 0
    /\ m.kind \in {"latency", "event", "unique"} /\ (m.kind = "event" => m.event \in AGNames)
    /\ m.mode \in {"delta", "absolute"}
ConfigValid(c) == /\ c.max >= 1 /\ c.mappings # <<>> /\ AGTarget # <<>>
                  /\ \A i \in DOMAIN c.mappings : MappingValid(c.mappings[i])

AGInit ==
    /\ agCfg \in {c \in AGConfig : ConfigValid(c)}
    /\ agSource = [t \in ToSet(AGTarget) |-> 0] /\ agLast = <<>>
    /\ agRun = AGIdle /\ agCycles = 0
    /\ agServer = [s \in AGStreams |-> [lat |-> 0, uniq |-> 0, events |-> [e \in AGNames |-> 0]]]
    /\ agTrue = [t \in ToSet(AGTarget) |-> 0] /\ agSeen = agTrue /\ agBase = {}
    /\ agLat = 0 /\ agHealthy = TRUE

-----------------------------------------------------------------------------
(* What a target exposes, and what the parser keeps of it.                 *)
parse_prometheus_text(t, gauge) ==
    SelectSeq(<<[name |-> "hits_total", label |-> "ok", value |-> agSource[t]],
                [name |-> "latency", label |-> "ok", value |-> gauge]>>,
              LAMBDA s : s.value # AGNaN)

_mapping_matches(m, s) == s.name = m.metric /\ (m.filter = "" \/ s.label = m.filter)

(* int(round(v)) of a number of halves: halves go to the even neighbour.   *)
Round(v) == IF v % 2 = 0 THEN v \div 2 ELSE (v \div 2) + ((v \div 2) % 2)

Known(last, key) == \E i \in DOMAIN last : last[i].key = key
Remember(last, key, v) ==
    Append(SelectSeq(last, LAMBDA x : x.key # key), [key |-> key, value |-> v])
Previous(last, key) == last[CHOOSE i \in DOMAIN last : last[i].key = key].value

KeyWithoutMapping(t, i, s) == <<t, 0, s.label>>
Key(t, i, s) == <<t, i, s.label>>

(* _apply_event_mapping: the value is remembered before anything is sent;  *)
(* the first one of a series, and one that is not larger, count nothing.   *)
_apply_event_mapping(st, m, key, v) ==
    LET delta == IF ~Known(st.last, key) \/ v < Previous(st.last, key) THEN 0
                 ELSE v - Previous(st.last, key)
        count == Round(IF m.mode = "delta" THEN delta ELSE v)
    IN  [last |-> IF m.mode = "delta" THEN Remember(st.last, key, v) ELSE st.last,
         batches |-> [st.batches EXCEPT ![m.stream].events[m.event] = @ + count]]

_apply_mapping(st, t, i, s) ==
    LET m == agCfg.mappings[i]
        v == s.value * m.scale
    IN  IF ~_mapping_matches(m, s) THEN st
        ELSE IF m.kind = "unique" THEN [st EXCEPT !.batches[m.stream].uniq = Append(@, v)]
        ELSE IF v < 0 THEN st
        ELSE IF m.kind = "latency" THEN [st EXCEPT !.batches[m.stream].lat = Append(@, v)]
        ELSE _apply_event_mapping(st, m, Key(t, i, s), v)

(* Every sample against every mapping, in order.                           *)
ApplySamples(t, samples) ==
    FoldLeft(LAMBDA st, s :
                 FoldLeft(LAMBDA u, i : _apply_mapping(u, t, i, s), st,
                          [i \in DOMAIN agCfg.mappings |-> i]),
             [last |-> agLast, batches |-> agRun.batches], samples)

(* _chunk_batch: latencies, uniques and events, a new chunk when the       *)
(* current one is full.                                                    *)
Items(b) == [i \in DOMAIN b.lat |-> [kind |-> "lat", name |-> "", n |-> 1]]
            \o [i \in DOMAIN b.uniq |-> [kind |-> "uniq", name |-> "", n |-> 1]]
            \o SetToSeq({[kind |-> "event", name |-> e, n |-> b.events[e]] :
                            e \in {x \in AGNames : b.events[x] > 0}})
Fill(b, full) ==
    FoldLeft(LAMBDA acc, x : IF Len(acc.cur) >= full
                             THEN [done |-> Append(acc.done, acc.cur), cur |-> <<x>>]
                             ELSE [acc EXCEPT !.cur = Append(@, x)],
             [done |-> <<>>, cur |-> <<>>], Items(b))
_chunk_batch(b) ==
    LET f == Fill(b, agCfg.max) IN IF f.cur = <<>> THEN f.done ELSE Append(f.done, f.cur)

-----------------------------------------------------------------------------
(* run_once: the targets in turn; a scrape that fails drops the cycle.     *)
Scrape ==
    /\ agRun.pc \in {"idle", "scrape"}
    /\ agRun.pc = "idle" => agCycles < AGMaxCycles
    /\ agCycles' = IF agRun.pc = "idle" THEN agCycles + 1 ELSE agCycles
    /\ LET t == AGTarget[agRun.at]
           last == agRun.at = Len(AGTarget)
       IN  \E gauge \in AGGauge :
             LET st == ApplySamples(t, parse_prometheus_text(t, gauge))
             IN  /\ agLast' = st.last
                 /\ agRun' = [agRun EXCEPT !.batches = IF last THEN AGIdle.batches ELSE st.batches, !.at = @ + 1,
                                !.pc = IF last THEN "post" ELSE "scrape",
                                !.chunks = IF ~last THEN <<>>
                                           ELSE [i \in DOMAIN _chunk_batch(st.batches["s1"]) |->
                                                   [stream |-> "s1", items |-> _chunk_batch(st.batches["s1"])[i]]]
                                                \o [i \in DOMAIN _chunk_batch(st.batches["s2"]) |->
                                                   [stream |-> "s2", items |-> _chunk_batch(st.batches["s2"])[i]]]]
                 /\ agLat' = IF last THEN agLat + Len(st.batches["s1"].lat) + Len(st.batches["s2"].lat)
                             ELSE agLat
                 /\ agBase' = agBase \cup {t} /\ agSeen' = [agSeen EXCEPT ![t] = agTrue[t]]
    /\ UNCHANGED <<agCfg, agSource, agServer, agTrue, agHealthy>>
ScrapeFails ==
    /\ agRun.pc \in {"idle", "scrape"} /\ (agRun.pc = "idle" => agCycles < AGMaxCycles)
    /\ agCycles' = IF agRun.pc = "idle" THEN agCycles + 1 ELSE agCycles
    /\ agRun' = AGIdle /\ agHealthy' = FALSE
    /\ UNCHANGED <<agCfg, agSource, agLast, agServer, agTrue, agSeen, agBase, agLat>>

(* _send_batch: the chunk is counted by the server or not, and the answer  *)
(* arrives or not; without a 2xx answer the rest of the cycle is dropped.  *)
Counted(srv, items) ==
    FoldLeft(LAMBDA a, x : CASE x.kind = "lat" -> [a EXCEPT !.lat = @ + 1]
                             [] x.kind = "uniq" -> [a EXCEPT !.uniq = @ + 1]
                             [] x.kind = "event" -> [a EXCEPT !.events[x.name] = @ + x.n],
             srv, items)
_send_batch(applied, answered) ==
    /\ agRun.pc = "post" /\ agRun.chunks # <<>> /\ (answered => applied)
    /\ LET c == Head(agRun.chunks)
       IN  agServer' = IF applied THEN [agServer EXCEPT ![c.stream] = Counted(@, c.items)] ELSE agServer
    /\ agRun' = IF ~answered THEN AGIdle ELSE [agRun EXCEPT !.chunks = Tail(@)]
    /\ agHealthy' = (agHealthy /\ answered)
    /\ UNCHANGED <<agCfg, agSource, agLast, agCycles, agTrue, agSeen, agBase, agLat>>
CycleEnds ==
    /\ agRun.pc = "post" /\ agRun.chunks = <<>> /\ agRun' = AGIdle
    /\ UNCHANGED <<agCfg, agSource, agLast, agServer, agCycles, agTrue, agSeen, agBase, agLat, agHealthy>>

(* An error outside (OSError, RuntimeError, URLError), or a kill: a new    *)
(* process has no last values.                                             *)
AGRestart ==
    /\ agRun.pc # "idle" /\ agRun' = AGIdle /\ agLast' = <<>> /\ agBase' = {} /\ agHealthy' = FALSE
    /\ UNCHANGED <<agCfg, agSource, agServer, agCycles, agTrue, agSeen, agLat>>

(* The targets count, and their processes restart.                         *)
SourceCounts(t) ==
    /\ agSource[t] < AGMaxSource /\ agTrue[t] < AGMaxSource
    /\ agSource' = [agSource EXCEPT ![t] = @ + 1]
    /\ agTrue' = [agTrue EXCEPT ![t] = IF t \in agBase THEN @ + 1 ELSE @]
    /\ UNCHANGED <<agCfg, agLast, agRun, agServer, agCycles, agSeen, agBase, agLat, agHealthy>>
SourceResets(t) ==
    /\ agSource[t] > 0 /\ agCycles < AGMaxCycles
    /\ agSource' = [agSource EXCEPT ![t] = 0] /\ agHealthy' = FALSE
    /\ UNCHANGED <<agCfg, agLast, agRun, agServer, agCycles, agTrue, agSeen, agBase, agLat>>

AGNext ==
    \/ Scrape \/ ScrapeFails \/ CycleEnds \/ AGRestart
    \/ \E applied, answered \in BOOLEAN : _send_batch(applied, answered)
    \/ \E t \in ToSet(AGTarget) : SourceCounts(t) \/ SourceResets(t)

-----------------------------------------------------------------------------
AGTotal(f) == FoldSet(LAMBDA t, n : n + f[t], 0, DOMAIN f)

(* The server never counts an increment of a counter twice, whatever       *)
(* scrapes and posts fail, whichever answers are lost and whoever          *)
(* restarts: per stream, the deltas it has counted are at most the         *)
(* increments the targets made while they were watched.                    *)
AGNoDoubleCount ==
    \A s \in AGStreams :
        (\A i \in DOMAIN agCfg.mappings : agCfg.mappings[i].stream = s =>
             agCfg.mappings[i].kind # "event" \/ agCfg.mappings[i].mode = "delta") =>
        agServer[s].events["hits"] <= AGTotal(agTrue)

(* While nothing fails, nothing is lost: between cycles every stream has   *)
(* all deltas up to the last scrape and all latencies, however the batches *)
(* were cut into chunks and however many mappings watch the same counter.  *)
AGCompleteWhileHealthy ==
    (agHealthy /\ agRun.pc = "idle") =>
        /\ \A i \in DOMAIN agCfg.mappings :
             LET m == agCfg.mappings[i] IN
             (m.kind = "event" /\ m.mode = "delta" /\ m.scale = 2 /\ m.filter \in {"", "ok"}) =>
                 agServer[m.stream].events[m.event] = AGTotal(agSeen)
        /\ agServer["s1"].lat + agServer["s2"].lat = agLat

(* No chunk is larger than max_batch_items, and none is empty.             *)
AGChunkBound ==
    \A i \in DOMAIN agRun.chunks :
        Len(agRun.chunks[i].items) \in 1 .. agCfg.max

(* What the agent promises of a counter's increments: none reaches the     *)
(* server twice, none is missed while posts succeed, and they come in      *)
(* chunks of the configured size.                                          *)
AGSafe == AGNoDoubleCount /\ AGCompleteWhileHealthy /\ AGChunkBound

=============================================================================
