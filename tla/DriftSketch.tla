----------------------------- MODULE DriftSketch -----------------------------
(***************************************************************************)
(* DriftSketch: for a dimension the sketch of the current window and the   *)
(* frozen one of the window before it, rotated lazily by whoever comes.    *)
(* Dimensions share nothing but the lock, so one is followed.  A sketch is *)
(* a set of <<time, value>>; with at most a hundred values its p99 is      *)
(* their maximum.  What the CUSUM detector makes of a window's p99 is left *)
(* open; how often it is told of a window is not.                          *)
(***************************************************************************)
EXTENDS Naturals, Integers, FiniteSets

CONSTANTS
    DSValue,      \* observations
    DSWindow,     \* window length in ticks
    DSBackfill,   \* most empty windows told to the detector at once (100)
    DSMaxNow,     \* bound: ticks of the clock
    DSMaxTold,    \* bound: windows told before rotate_all is not called again
    DSMaxAdds     \* bound: observations

(* __init__ refuses a window shorter than a nanosecond tick.                *)
ASSUME DSAssumption == DSWindow \in Nat \ {0} /\ DSBackfill \in Nat

VARIABLES
    ds,         \* [cur, prev, start, cusum, anomaly]: the state of the dimension
    dsEvents,   \* _event_counts
    dsNow,      \* monotonic_ns()
    dsBirth,    \* ghost: when the dimension was created
    dsForced,   \* ghost: rotate_all was used
    dsCapped    \* ghost: a gap was longer than the backfill

dsVars == <<ds, dsEvents, dsNow, dsBirth, dsForced, dsCapped>>

DSInit ==
    /\ ds = [cur |-> {}, prev |-> {}, start |-> -1, cusum |-> 0, anomaly |-> FALSE]
    /\ dsEvents = 0 /\ dsNow = 0 /\ dsBirth = 0 /\ dsForced = FALSE /\ dsCapped = FALSE

p99(s) == IF s = {} THEN 0
          ELSE LET vs == {x[2] : x \in s} IN CHOOSE v \in vs : \A w \in vs : v >= w

(* _update_cusum, n times: the first update of a dimension only sets the   *)
(* mean; a later one flags an anomaly or takes the flag away.              *)
_update_cusum(s, n) ==
    {[s EXCEPT !.cusum = @ + n, !.anomaly = f] :
        f \in IF s.cusum + n > 1 THEN BOOLEAN ELSE {s.anomaly}}

Gone(s) == (dsNow - s.start) \div DSWindow
BackfillSteps(gone) == IF gone - 1 < DSBackfill THEN gone - 1 ELSE DSBackfill

(* _maybe_rotate: the states a dimension may be in after it.  After a gap  *)
(* of two windows or more the previous window is empty.                    *)
RotateAlwaysFreezes(s) ==       \* a gap leaves the old window as "previous"
    IF Gone(s) < 1 THEN {s}
    ELSE {[t EXCEPT !.prev = s.cur, !.cur = {}, !.start = @ + Gone(s) * DSWindow] :
             t \in _update_cusum(s, Gone(s))}
_maybe_rotate(s) ==
    IF Gone(s) < 1 THEN {s}
    ELSE {[t EXCEPT !.prev = IF Gone(s) >= 2 THEN {} ELSE s.cur, !.cur = {},
                    !.start = @ + Gone(s) * DSWindow] :
             t \in _update_cusum(s, IF Gone(s) >= 2 THEN 1 + BackfillSteps(Gone(s)) ELSE 1)}
Capped(s) == dsCapped' = (dsCapped \/ Gone(s) - 1 > DSBackfill)

(* add and add_batch: create the dimension, rotate it, then count.         *)
DSAdd(v) ==
    /\ dsEvents < DSMaxAdds
    /\ LET born == IF ds.start >= 0 THEN ds ELSE [ds EXCEPT !.start = dsNow]
       IN  /\ \E s \in _maybe_rotate(born) : ds' = [s EXCEPT !.cur = @ \cup {<<dsNow, v>>}]
           /\ Capped(born)
    /\ dsEvents' = dsEvents + 1
    /\ dsBirth' = IF ds.start >= 0 THEN dsBirth ELSE dsNow
    /\ UNCHANGED <<dsNow, dsForced>>

(* drift, correlations, anomalies and summary rotate before they read.     *)
DSRead ==
    /\ ds.start >= 0 /\ ds' \in _maybe_rotate(ds) /\ Capped(ds)
    /\ UNCHANGED <<dsEvents, dsNow, dsBirth, dsForced>>

rotate_all ==
    /\ ds.start >= 0 /\ ds.cusum < DSMaxTold
    /\ \E s \in _update_cusum(ds, 1) :
         ds' = [s EXCEPT !.prev = ds.cur, !.cur = {}, !.start = dsNow]
    /\ dsForced' = TRUE
    /\ UNCHANGED <<dsEvents, dsNow, dsBirth, dsCapped>>

DSTick == /\ dsNow < DSMaxNow /\ dsNow' = dsNow + 1
          /\ UNCHANGED <<ds, dsEvents, dsBirth, dsForced, dsCapped>>

DSNext == (\E v \in DSValue : DSAdd(v)) \/ DSRead \/ rotate_all \/ DSTick

(* drift: what a reader is told; pct is the signed change in percent, and  *)
(* 1000 stands for the infinite change from zero.                          *)
drift(s) ==
    LET c == p99(s.cur)
        p == p99(s.prev)
    IN  IF s.cur = {} \/ s.prev = {} \/ (p = 0 /\ c = 0) THEN [direction |-> "none", pct |-> 0]
        ELSE IF p = 0 THEN [direction |-> "new", pct |-> 1000]
        ELSE [direction |-> IF c > p THEN "up" ELSE "down", pct |-> (100 * (c - p)) \div p]

-----------------------------------------------------------------------------
(* A drift that is reported compares two windows that follow each other:   *)
(* unless a rotation was forced, the values behind a report at any moment  *)
(* are of the window in progress and of the one just before it, however    *)
(* long nobody looked.                                                     *)
DSWindowsAdjacent ==
    (~dsForced /\ ds.start >= 0) => \A s \in _maybe_rotate(ds) :
        /\ s.start <= dsNow /\ dsNow < s.start + DSWindow
        /\ drift(s).direction # "none" =>
             /\ \A x \in s.prev : s.start - DSWindow <= x[1] /\ x[1] < s.start
             /\ \A x \in s.cur : s.start <= x[1]

(* The detector is told of every window exactly once, empty ones included, *)
(* until a gap exceeds the backfill or a rotation is forced.               *)
DSEveryWindowTold ==
    (ds.start >= 0 /\ ~dsForced /\ ~dsCapped) =>
        dsBirth + ds.cusum * DSWindow = ds.start

(* What the drift windows promise: comparisons of adjacent windows, and a  *)
(* detector that is told of each window once.                              *)
DSSafe == DSWindowsAdjacent /\ DSEveryWindowTold

=============================================================================
