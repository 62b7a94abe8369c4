------------------------------ MODULE RateLimit ------------------------------
(***************************************************************************)
(* The per-namespace rate limiter.  check() looks its bucket and counter   *)
(* up under one lock, increments the quota counter under a second, takes   *)
(* tokens under a third, and gives the quota slot back under the second    *)
(* when the bucket refuses; other requests and the clock run in between.   *)
(* One namespace is enforced, under a configuration chosen at the start.   *)
(* Tokens are counted in halves, so that a rate below one is expressible.  *)
(***************************************************************************)
EXTENDS Naturals, Integers, Sequences, FiniteSets, SequencesExt

CONSTANTS
    RLThread,   \* request threads
    RLConfig,   \* the configurations: [quotas, default], where default is a quota
    RLTokens,   \* the tokens a request may ask for
    RLHour,     \* _HOUR in ticks
    RLDay,      \* _DAY in ticks
    RLMaxNow    \* bound: ticks of the clock

(* Numbers are numbers, and a day is a whole number of hours.              *)
Numbers(q) == q.rate \in Int /\ q.burst \in Int /\ q.hourly \in Int /\ q.daily \in Int
ASSUME RLAssumption ==
    /\ RLHour \in Nat \ {0} /\ RLDay \in Nat \ {0} /\ RLDay = (RLDay \div RLHour) * RLHour
    /\ RLTokens \subseteq Nat /\ IsFiniteSet(RLThread)
    /\ \A c \in RLConfig : /\ c.quotas \in Seq(ToSet(c.quotas)) /\ Numbers(c.default)
                           /\ \A q \in ToSet(c.quotas) : Numbers(q)

VARIABLES
    rlConfig,   \* the configuration
    rlBucket,   \* _TokenBucket, or no bucket yet
    rlCounter,  \* _QuotaCounter, or no counter yet
    rlCall,     \* per thread: the request in check()
    rlNow,      \* time.monotonic()
    rlGranted,  \* ghost: requests counted in this hour (day), not refused since
    rlTaken,    \* ghost: half tokens given out since the bucket was made
    rlCrossed   \* ghost: slots given back in a later window than taken

rlVars == <<rlConfig, rlBucket, rlCounter, rlCall, rlNow, rlGranted, rlTaken, rlCrossed>>
RLSpace == "n"                  \* the namespace of the requests
RLNone == [start |-> -1]        \* not created yet
RLIdle == [pc |-> "idle", tokens |-> 0, hour |-> 0, day |-> 0]

(* The two constructors raise ValueError; rates are in half tokens.        *)
ValidDefault(q) == q.rate > 0 /\ q.burst >= 1 /\ q.hourly >= 0 /\ q.daily >= 0
ValidQuota(q) ==
    /\ ValidDefault(q)
    /\ ~(q.hourly > 0 /\ q.daily > 0 /\ q.hourly > q.daily)
Accepted(c) == ValidDefault(c.default) /\ \A q \in ToSet(c.quotas) : ValidQuota(q)

(* The scan remembers the last wildcard and stops at the first exact name; *)
(* positions, 0 for none.                                                  *)
QuotaStep(qs, acc, i) ==
    IF acc.exact # 0 THEN acc
    ELSE IF qs[i].namespace = RLSpace THEN [exact |-> i, wildcard |-> acc.wildcard]
    ELSE IF qs[i].namespace = "*" THEN [exact |-> 0, wildcard |-> i]
    ELSE acc
QuotaScan(qs) ==
    LET scan[i \in 0 .. Len(qs)] == IF i = 0 THEN [exact |-> 0, wildcard |-> 0]
                                    ELSE QuotaStep(qs, scan[i - 1], i)
    IN  scan[Len(qs)]
get_quota(c) ==
    LET s == QuotaScan(c.quotas)
    IN  IF s.exact # 0 THEN c.quotas[s.exact]
        ELSE IF s.wildcard # 0 THEN c.quotas[s.wildcard] ELSE c.default

(* check_rate_limit_config: its own list of what is wrong.                 *)
SpaceIssues(q) ==
    (IF q.rate <= 0 THEN {"FAIL"} ELSE IF q.rate < 2 THEN {"WARN"} ELSE {})
    \cup (IF 2 * q.burst < q.rate THEN {"WARN"} ELSE {})
    \cup (IF q.hourly > 0 /\ q.daily > 0 /\ q.hourly * (RLDay \div RLHour) < q.daily
          THEN {"WARN"} ELSE {})
DefaultIssues(d) ==
    (IF d.rate <= 0 THEN {"FAIL"} ELSE IF d.rate < 2 THEN {"WARN"} ELSE {})
    \cup (IF d.burst < 1 \/ d.hourly < 0 \/ d.daily < 0 THEN {"FAIL"} ELSE {})
check_rate_limit_config(c) ==
    LET issues == DefaultIssues(c.default) \cup UNION {SpaceIssues(q) : q \in ToSet(c.quotas)}
    IN  IF "FAIL" \in issues THEN "FAIL" ELSE IF "WARN" \in issues THEN "WARN" ELSE "PASS"

RLQuota == get_quota(rlConfig)

RLInit ==
    /\ rlConfig \in {c \in RLConfig : Accepted(c)}
    /\ rlBucket = RLNone /\ rlCounter = RLNone
    /\ rlCall = [t \in RLThread |-> RLIdle]
    /\ rlNow = 0 /\ rlTaken = 0 /\ rlCrossed = 0
    /\ rlGranted = [hour |-> 0, day |-> 0]

-----------------------------------------------------------------------------
(* _TokenBucket and _QuotaCounter.                                         *)

NewBucket == [start |-> rlNow, tokens |-> 2 * RLQuota.burst, last |-> rlNow]
_refill(b) ==
    LET filled == b.tokens + (rlNow - b.last) * RLQuota.rate
    IN  [start |-> b.start, last |-> rlNow,
         tokens |-> IF filled > 2 * RLQuota.burst THEN 2 * RLQuota.burst ELSE filled]

NewCounter == [start |-> rlNow, hour |-> 0, day |-> 0, hourStart |-> rlNow, dayStart |-> rlNow]
HourOver(c) == rlNow - c.hourStart >= RLHour
DayOver(c) == rlNow - c.dayStart >= RLDay
_reset_if_needed(c) ==
    [start |-> c.start,
     hour |-> IF HourOver(c) THEN 0 ELSE c.hour,
     hourStart |-> IF HourOver(c) THEN rlNow ELSE c.hourStart,
     day |-> IF DayOver(c) THEN 0 ELSE c.day,
     dayStart |-> IF DayOver(c) THEN rlNow ELSE c.dayStart]

(* The ghost count restarts with the window it is about.                   *)
GrantedAfterReset == [hour |-> IF HourOver(rlCounter) THEN 0 ELSE rlGranted.hour,
                      day |-> IF DayOver(rlCounter) THEN 0 ELSE rlGranted.day]

-----------------------------------------------------------------------------
(* RateLimitEnforcer.check.                                                *)

(* A default whose hourly quota exceeds the daily one raises in get_quota. *)
Lookup(t, n) ==
    /\ rlCall[t].pc = "idle" /\ ValidQuota(RLQuota)
    /\ rlBucket' = IF rlBucket = RLNone THEN NewBucket ELSE rlBucket
    /\ rlCounter' = IF rlCounter = RLNone THEN NewCounter ELSE rlCounter
    /\ rlCall' = [rlCall EXCEPT ![t] = [pc |-> "quota", tokens |-> n, hour |-> 0, day |-> 0]]
    /\ UNCHANGED <<rlConfig, rlNow, rlGranted, rlTaken, rlCrossed>>

QuotaFull(c) == \/ RLQuota.hourly > 0 /\ c.hour >= RLQuota.hourly
                \/ RLQuota.daily > 0 /\ c.day >= RLQuota.daily
check_and_increment(t) ==
    /\ rlCall[t].pc = "quota"
    /\ LET c == _reset_if_needed(rlCounter)
           g == GrantedAfterReset
       IN  IF QuotaFull(c)
           THEN /\ rlCounter' = c /\ rlGranted' = g
                /\ rlCall' = [rlCall EXCEPT ![t].pc = "report"]
           ELSE /\ rlCounter' = [c EXCEPT !.hour = @ + 1, !.day = @ + 1]
                /\ rlGranted' = [hour |-> g.hour + 1, day |-> g.day + 1]
                /\ rlCall' = [rlCall EXCEPT ![t] = [pc |-> "bucket", tokens |-> rlCall[t].tokens,
                                                    hour |-> c.hourStart, day |-> c.dayStart]]
    /\ UNCHANGED <<rlConfig, rlBucket, rlNow, rlTaken, rlCrossed>>

consume(t) ==
    /\ rlCall[t].pc = "bucket"
    /\ LET b == _refill(rlBucket)
           want == 2 * rlCall[t].tokens
           enough == b.tokens >= want
       IN  /\ rlBucket' = IF enough THEN [b EXCEPT !.tokens = @ - want] ELSE b
           /\ rlTaken' = IF enough THEN rlTaken + want ELSE rlTaken
           /\ rlCall' = [rlCall EXCEPT ![t].pc = IF enough THEN "report" ELSE "rollback"]
    /\ UNCHANGED <<rlConfig, rlCounter, rlNow, rlGranted, rlCrossed>>

(* The slot is given back without looking at the window.                   *)
DecrementBody(t, dec) ==
    /\ rlCall[t].pc = "rollback"
    /\ rlCounter' = [rlCounter EXCEPT !.hour = IF @ > 0 THEN @ - dec ELSE @,
                                      !.day = IF @ > 0 THEN @ - dec ELSE @]
    /\ LET sameHour == rlCall[t].hour = rlCounter.hourStart
           sameDay == rlCall[t].day = rlCounter.dayStart
       IN  /\ rlGranted' = [hour |-> rlGranted.hour - (IF sameHour THEN 1 ELSE 0),
                            day |-> rlGranted.day - (IF sameDay THEN 1 ELSE 0)]
           /\ rlCrossed' = rlCrossed + (IF sameHour /\ sameDay THEN 0 ELSE 1)
    /\ rlCall' = [rlCall EXCEPT ![t].pc = "report"]
    /\ UNCHANGED <<rlConfig, rlBucket, rlNow, rlTaken>>
DecrementForgotten(t) == DecrementBody(t, 0)
decrement(t) == DecrementBody(t, 1)

(* The decision's figures: available refills, hourly_count and daily_count *)
(* reset, each under its own lock and on its own object.                   *)
Report(t) ==
    /\ rlCall[t].pc = "report"
    /\ rlBucket' = _refill(rlBucket)
    /\ rlCounter' = _reset_if_needed(rlCounter) /\ rlGranted' = GrantedAfterReset
    /\ rlCall' = [rlCall EXCEPT ![t] = RLIdle]
    /\ UNCHANGED <<rlConfig, rlNow, rlTaken, rlCrossed>>

RLTick ==
    /\ rlNow < RLMaxNow /\ rlNow' = rlNow + 1
    /\ UNCHANGED <<rlConfig, rlBucket, rlCounter, rlCall, rlGranted, rlTaken, rlCrossed>>

RLNext ==
    \/ RLTick
    \/ \E t \in RLThread : \/ \E n \in RLTokens : Lookup(t, n)
                           \/ check_and_increment(t) \/ consume(t)
                           \/ decrement(t) \/ Report(t)

-----------------------------------------------------------------------------
(* Properties.                                                             *)

(* The quota is never overshot by concurrent requests, except by the slots *)
(* that decrement gave back in a later window than they were taken in.     *)
RLNoOvershoot ==
    rlCounter # RLNone =>
      /\ RLQuota.hourly > 0 => rlGranted.hour <= RLQuota.hourly + rlCrossed
      /\ RLQuota.daily > 0 => rlGranted.day <= RLQuota.daily + rlCrossed

(* A refused request leaves no trace: with no request in progress and no   *)
(* slot given back across a boundary, the counters count what was served.  *)
RLSlotsReturned ==
    (rlCounter # RLNone /\ rlCrossed = 0 /\ \A t \in RLThread : rlCall[t].pc = "idle")
        => rlCounter.hour = rlGranted.hour /\ rlCounter.day = rlGranted.day

(* However requests interleave with the clock, the tokens given out never  *)
(* exceed the burst and what the rate has added since the bucket exists.   *)
RLBucketBound ==
    rlBucket # RLNone =>
        rlTaken <= 2 * RLQuota.burst + RLQuota.rate * (rlNow - rlBucket.start)

(* A daily window meets at most one hourly window more than it is long,    *)
(* because the two restart on their own: with an hourly quota, a day never *)
(* serves more than (RLDay / RLHour + 1) of them.                          *)
RLDayOfHours ==
    (rlCounter # RLNone /\ RLQuota.hourly > 0 /\ rlCrossed = 0)
        => rlGranted.day <= (RLDay \div RLHour + 1) * RLQuota.hourly

(* "exact match, wildcard '*', default": the quota in force is the first   *)
(* exact entry if there is one, else the last wildcard, else the default.  *)
RLMostSpecific ==
    LET qs == rlConfig.quotas
        exact == {i \in DOMAIN qs : qs[i].namespace = RLSpace}
        wild == {i \in DOMAIN qs : qs[i].namespace = "*"}
    IN  IF exact # {} THEN RLQuota = qs[CHOOSE i \in exact : \A j \in exact : i <= j]
        ELSE IF wild # {} THEN RLQuota = qs[CHOOSE i \in wild : \A j \in wild : i >= j]
        ELSE RLQuota = rlConfig.default

(* The validator repeats the constructors' checks: a configuration the     *)
(* constructors accept is never reported as FAIL.                          *)
RLValidatorAgrees == check_rate_limit_config(rlConfig) # "FAIL"

(* What the rate limiter promises: the quota that applies is the most      *)
(* specific one and is not overshot, refused requests give their slot      *)
(* back, burst and day are bounded, and the validator judges as the        *)
(* constructors do.                                                        *)
RLSafe ==
    /\ RLNoOvershoot
    /\ RLSlotsReturned
    /\ RLBucketBound
    /\ RLDayOfHours
    /\ RLMostSpecific
    /\ RLValidatorAgrees

=============================================================================
