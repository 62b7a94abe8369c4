----------------------------- MODULE WindowedLog -----------------------------
(***************************************************************************)
(* WindowedStreamLog: a ring of sub-sketches over the recent past and a    *)
(* cached merge of them.  Every operation runs under one lock and first    *)
(* rotates the ring to the present.  A sketch is the set of the times at   *)
(* which its values were added, so the window can be told from the data.   *)
(***************************************************************************)
EXTENDS Naturals, FiniteSets

CONSTANTS
    WLShape,    \* the configurations: [window, n], in clock ticks
    WLMaxNow    \* bound: ticks of the clock

(* __init__ takes positive windows and bucket counts; the proof needs only   *)
(* that they are natural numbers.                                           *)
ASSUME WLAssumption ==
    WLMaxNow \in Nat /\ \A s \in WLShape : s.n \in Nat /\ s.window \in Nat

VARIABLES
    wlShape,    \* window length and number of buckets
    wlBucket,   \* _buckets: times added, per ring position
    wlStart,    \* _bucket_start_times
    wlCurrent,  \* _current_bucket
    wlMerged,   \* _merged
    wlExpires,  \* _merged_expires_at
    wlNow,      \* monotonic_ns()
    wlAll       \* ghost: times added since the last reset

wlVars == <<wlShape, wlBucket, wlStart, wlCurrent, wlMerged, wlExpires, wlNow, wlAll>>

WLInf == 2 * WLMaxNow + 100
Ring == 0 .. wlShape.n - 1
Duration == (wlShape.window + wlShape.n - 1) \div wlShape.n

WLInit ==
    /\ wlShape \in {s \in WLShape : s.n > 0 /\ s.window > 0}
    /\ wlBucket = [i \in Ring |-> {}] /\ wlStart = [i \in Ring |-> 0]
    /\ wlCurrent = 0 /\ wlMerged = {} /\ wlExpires = WLInf
    /\ wlNow = 0 /\ wlAll = {}

ActiveIn(bucket, start) ==
    {i \in Ring : wlNow - start[i] <= wlShape.window /\ bucket[i] # {}}
_active_buckets(bucket, start) == UNION {bucket[i] : i \in ActiveIn(bucket, start)}
_rebuild_merged(bucket, start, cur) ==
    LET ends == {start[i] + wlShape.window : i \in ActiveIn(bucket, start)}
    IN  [bucket |-> bucket, start |-> start, cur |-> cur,
         merged |-> _active_buckets(bucket, start),
         expires |-> IF ends = {} THEN WLInf ELSE CHOOSE e \in ends : \A f \in ends : e <= f]

(* _rotate: an idle ring is cleared at once; otherwise the ring advances   *)
(* one bucket per Duration that has passed, each cleared and given the     *)
(* start its predecessor ends at.                                          *)
Turned(steps) == {(wlCurrent + k) % wlShape.n : k \in 1 .. steps}
TurnedStart(i, steps) ==
    LET k == CHOOSE k \in 1 .. steps : i = (wlCurrent + k) % wlShape.n
    IN  wlStart[wlCurrent] + k * Duration
RotateBody(stale) ==
    LET elapsed == wlNow - wlStart[wlCurrent]
        steps == elapsed \div Duration
        cleared == [i \in Ring |-> IF i \in Turned(steps) THEN {} ELSE wlBucket[i]]
        started == [i \in Ring |-> IF i \in Turned(steps) THEN TurnedStart(i, steps) ELSE wlStart[i]]
    IN  IF elapsed >= wlShape.n * Duration
        THEN _rebuild_merged([i \in Ring |-> {}], [i \in Ring |-> wlNow], wlCurrent)
        ELSE IF steps > 0 \/ stale
        THEN _rebuild_merged(cleared, started, (wlCurrent + steps) % wlShape.n)
        ELSE [bucket |-> wlBucket, start |-> wlStart, cur |-> wlCurrent,
              merged |-> wlMerged, expires |-> wlExpires]
RotateIgnoringExpiry == RotateBody(FALSE)
_rotate == RotateBody(wlNow > wlExpires)

Install(r) ==
    /\ wlBucket' = r.bucket /\ wlStart' = r.start /\ wlCurrent' = r.cur
    /\ wlMerged' = r.merged /\ wlExpires' = r.expires

(* add_latency, add_event and add_unique go to the bucket and the cache.   *)
WLAdd ==
    LET r == _rotate
    IN  /\ Install([r EXCEPT !.bucket[r.cur] = @ \cup {wlNow}, !.merged = @ \cup {wlNow}])
        /\ wlAll' = wlAll \cup {wlNow}
        /\ UNCHANGED <<wlShape, wlNow>>
(* percentile, unique_count, event_count, total_events, stats, repr.       *)
WLRead == Install(_rotate) /\ UNCHANGED <<wlShape, wlNow, wlAll>>
WLReset ==
    /\ Install([bucket |-> [i \in Ring |-> {}], start |-> [i \in Ring |-> wlNow], cur |-> 0,
                merged |-> {}, expires |-> WLInf])
    /\ wlAll' = {} /\ UNCHANGED <<wlShape, wlNow>>
WLTick == /\ wlNow < WLMaxNow /\ wlNow' = wlNow + 1
          /\ UNCHANGED <<wlShape, wlBucket, wlStart, wlCurrent, wlMerged, wlExpires, wlAll>>

WLNext == WLAdd \/ WLRead \/ WLReset \/ WLTick

(* A read at any moment answers for the recent past: it counts everything  *)
(* added within the window less one bucket, and nothing from before the    *)
(* window, whatever the gaps between operations and the rounding of the    *)
(* bucket length.                                                          *)
WLWindow ==
    LET answer == _rotate.merged
    IN  /\ {t \in wlAll : wlNow - t + Duration <= wlShape.window} \subseteq answer
        /\ answer \subseteq {t \in wlAll : wlNow - t <= wlShape.window}

(* The cached merge that a read answers from is never stale: it equals the *)
(* merge of the buckets that are active at that moment.                    *)
WLCacheFresh ==
    LET r == _rotate IN r.merged = _active_buckets(r.bucket, r.start)

(* What a windowed log promises: reads answer for the window, from a cache *)
(* that is never stale.                                                    *)
WLSafe == WLWindow /\ WLCacheFresh

=============================================================================
