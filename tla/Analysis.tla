------------------------------ MODULE Analysis ------------------------------
(***************************************************************************)
(* What the server computes from two streams: the distances between their  *)
(* distributions (diff.py), the service level derived from a baseline and  *)
(* the rate at which its budget burns (slo.py), and the canary verdict     *)
(* that weighs both (canary.py).                                           *)
(*                                                                         *)
(* Latencies are even integers, a bucket holds two of them and its value,  *)
(* odd, lies between them.  A rate or a ratio is a fraction <<n, d>>, with *)
(* d > 0.  The number of events is what the Count-Min sketch answers.      *)
(***************************************************************************)
EXTENDS Integers, Sequences, SequencesExt, FiniteSetsExt

CONSTANTS
    ANLatency,   \* the latencies
    ANConf,      \* the configurations a canary request may carry
    ANMax        \* bound: the latencies, and the errors, of one stream

VARIABLES
    anBase,      \* the baseline stream, [lat, err]
    anCand,      \* the candidate stream
    anConf       \* the configuration

anVars == <<anBase, anCand, anConf>>

-----------------------------------------------------------------------------
(* Fractions.                                                              *)
AtLeast(x, y) == x[1] * y[2] >= y[1] * x[2]
Above(x, y) == ~AtLeast(y, x)
Zero == <<0, 1>>
One == <<1, 1>>
Greater(x, y) == IF AtLeast(x, y) THEN x ELSE y
Magnitude(n) == IF n < 0 THEN -n ELSE n
Gcd[m \in Nat, n \in Nat] == IF n = 0 THEN m ELSE Gcd[n, m % n]
Lowest(x) == LET g == Gcd[Magnitude(x[1]), x[2]] IN <<x[1] \div g, x[2] \div g>>
Minus(x, y) == Lowest(<<x[1] * y[2] - y[1] * x[2], x[2] * y[2]>>)
Over(x, y) == IF y[1] > 0 THEN Lowest(<<x[1] * y[2], x[2] * y[1]>>) ELSE Zero

-----------------------------------------------------------------------------
(* The streams as their sketches show them.                                *)
BucketOf(v) == IF v = 0 THEN 0
               ELSE IF v > 0 THEN 4 * ((v + 2) \div 4) - 1 ELSE -(4 * ((2 - v) \div 4) - 1)
ANCount(s) == FoldSet(LAMBDA v, n : n + s.lat[v], 0, ANLatency)
Within(s, T(_)) == FoldSet(LAMBDA v, n : n + s.lat[v], 0, {v \in ANLatency : T(v)})
Seen(s) == {v \in ANLatency : s.lat[v] > 0}
total_events(s) == ANCount(s) + s.err

Upwards(S) == SetToSortSeq(S, LAMBDA x, y : x < y)

(* percentile: the first bucket by which the rank is used up.              *)
percentile(s, q) ==
    IF ANCount(s) = 0 THEN 0
    ELSE Min({b \in {BucketOf(v) : v \in Seen(s)} :
                Within(s, LAMBDA v : BucketOf(v) <= b) * q[2] >= q[1] * ANCount(s)})

(* count_greater_than: the threshold's own bucket counts as above it.      *)
ANCountGreater(s, x) ==
    IF ANCount(s) = 0 \/ x >= Max(Seen(s)) THEN 0
    ELSE IF x < Min(Seen(s)) THEN ANCount(s)
    ELSE IF x = 0 THEN Within(s, LAMBDA v : v > 0)
    ELSE Within(s, LAMBDA v : BucketOf(v) >= BucketOf(x))

-----------------------------------------------------------------------------
(* diff.py.  A CDF is a sequence of [v, cum] with the count as denominator.*)
get_cdf(s) ==
    LET vals == Upwards({BucketOf(v) : v \in Seen(s)})
    IN [i \in 1..Len(vals) |->
          [v |-> vals[i], cum |-> Within(s, LAMBDA w : BucketOf(w) <= vals[i])]]

AllValues(c1, c2) == Upwards({c1[i].v : i \in DOMAIN c1} \cup {c2[i].v : i \in DOMAIN c2})

(* The inner loops: from position i on, pass over every point up to v.     *)
Advance(c, at, v) ==
    LET passed == {i \in DOMAIN c : i > at.i /\ c[i].v <= v}
    IN IF passed = {} THEN at ELSE [i |-> Max(passed), p |-> c[Max(passed)].cum]

(* |p1 - p2| over the common denominator n1 * n2.                          *)
Apart(w, n1, n2) == Magnitude(w.one.p * n2 - w.two.p * n1)
WalkStart == [one |-> [i |-> 0, p |-> 0], two |-> [i |-> 0, p |-> 0], sum |-> 0, prev |-> 0]

KsWalk(c1, c2, n1, n2) ==
    LET step(w, v) == LET x == [w EXCEPT !.one = Advance(c1, @, v), !.two = Advance(c2, @, v)]
                      IN [x EXCEPT !.sum = Max({@, Apart(x, n1, n2)})]
    IN FoldLeft(step, WalkStart, AllValues(c1, c2)).sum

ks_statistic(s, t) ==
    IF ANCount(s) = 0 /\ ANCount(t) = 0 THEN Zero
    ELSE IF ANCount(s) = 0 \/ ANCount(t) = 0 THEN One
    ELSE <<KsWalk(get_cdf(s), get_cdf(t), ANCount(s), ANCount(t)), ANCount(s) * ANCount(t)>>

(* The area is added before the pointers move on to v.                     *)
EmdWalkLate(c1, c2, n1, n2) ==      \* moves them first
    LET step(w, v) ==
            LET x == [w EXCEPT !.one = Advance(c1, @, v), !.two = Advance(c2, @, v)]
            IN [x EXCEPT !.sum = @ + Apart(x, n1, n2) * (v - w.prev), !.prev = v]
        vals == AllValues(c1, c2)
    IN FoldLeft(step, [WalkStart EXCEPT !.prev = vals[1]], vals).sum
EmdWalk(c1, c2, n1, n2) ==
    LET step(w, v) ==
            [one |-> Advance(c1, w.one, v), two |-> Advance(c2, w.two, v),
             sum |-> w.sum + Apart(w, n1, n2) * (v - w.prev), prev |-> v]
        vals == AllValues(c1, c2)
    IN FoldLeft(step, [WalkStart EXCEPT !.prev = vals[1]], vals).sum

wasserstein_distance(s, t) ==
    IF ANCount(s) = 0 /\ ANCount(t) = 0 THEN Zero
    ELSE LET n1 == Max({1, ANCount(s)})
             n2 == Max({1, ANCount(t)})
         IN <<EmdWalk(get_cdf(s), get_cdf(t), n1, n2), n1 * n2>>

-----------------------------------------------------------------------------
(* slo.py.  recommend is the target alone.                                 *)
recommend(hist, q) == percentile(hist, q)
burn_rate(cur, hist, q, budget) ==
    IF ANCount(cur) = 0 THEN Zero
    ELSE Over(<<ANCountGreater(cur, recommend(hist, q)), ANCount(cur)>>, budget)
is_alerting(cur, hist, q, budget) == Above(burn_rate(cur, hist, q, budget), One)

-----------------------------------------------------------------------------
(* canary.py.                                                              *)
_percent_change(x, y) ==
    IF x[1] = 0 THEN IF y[1] = 0 THEN Zero ELSE <<100, 1>>
    ELSE LET d == Minus(y, x)
         IN Lowest(<<d[1] * x[2] * 100, d[2] * Magnitude(x[1])>>)
_rate(n, d) == IF d <= 0 THEN Zero ELSE <<n, d>>
_bounded_score(x, t) ==
    IF AtLeast(t.warning, t.rollback) \/ AtLeast(t.warning, x) THEN Zero
    ELSE LET s == Over(Minus(x, t.warning), Minus(t.rollback, t.warning))
         IN IF AtLeast(s, One) THEN One ELSE s
_metric_verdict(x, t) == IF AtLeast(x, t.rollback) THEN 2 ELSE IF AtLeast(x, t.warning) THEN 1 ELSE 0
_worst_verdict(a, b) == IF b > a THEN b ELSE a
Verdicts == <<"safe", "warning", "rollback_recommended">>

(* The configuration is refused when a threshold is negative or the two    *)
(* are out of order.                                                       *)
ValidConf(c) ==
    /\ c.q[1] > 0 /\ c.q[1] < c.q[2] /\ c.budget[1] > 0 /\ c.budget[1] < c.budget[2]
    /\ c.min >= 1
    /\ \A m \in DOMAIN c.thresholds :
         LET t == c.thresholds[m]
         IN t.warning[1] >= 0 /\ t.rollback[1] >= 0 /\ AtLeast(t.rollback, t.warning)

(* The metrics, the error rate only when the request names its event.      *)
Metrics(b, c, conf) ==
    LET P99(s) == percentile(s, <<99, 100>>)
        burn(s) == burn_rate(s, b, conf.q, conf.budget)
        scale == Max({Magnitude(P99(b)), 1})
    IN [p99 |-> _percent_change(<<P99(b), 1>>, <<P99(c), 1>>),
        ks |-> ks_statistic(b, c),
        wasserstein |-> Over(wasserstein_distance(b, c), <<scale, 1>>),
        slo |-> Greater(Zero, Minus(burn(c), burn(b))),
        anomaly |-> ks_statistic(c, b),
        error |-> IF conf.named
                  THEN _percent_change(_rate(b.err, Max({total_events(b), ANCount(b)})),
                                       _rate(c.err, Max({total_events(c), ANCount(c)})))
                  ELSE Zero]
SignalOrder(conf) == <<"p99", "ks", "wasserstein", "slo", "anomaly">>
               \o IF conf.named THEN <<"error">> ELSE <<>>

Refused(b, c, conf) == ANCount(b) < conf.min \/ ANCount(c) < conf.min
Judge(x, conf) ==
    LET worst(v, m) == _worst_verdict(v, _metric_verdict(x[m], conf.thresholds[m]))
        surest(s, m) == Greater(s, _bounded_score(x[m], conf.thresholds[m]))
    IN [verdict |-> Verdicts[1 + FoldLeft(worst, 0, SignalOrder(conf))],
        confidence |-> FoldLeft(surest, Zero, SignalOrder(conf))]
analyze(b, c, conf) == Judge(Metrics(b, c, conf), conf)

-----------------------------------------------------------------------------
ANEmpty == [lat |-> [v \in ANLatency |-> 0], err |-> 0]
ANInit == anBase = ANEmpty /\ anCand = ANEmpty /\ anConf \in {c \in ANConf : ValidConf(c)}

WithLatency(s, v) == [s EXCEPT !.lat[v] = @ + 1]
WithError(s) == [s EXCEPT !.err = @ + 1]

ANAdd(v) ==
    /\ \/ ANCount(anBase) < ANMax /\ anBase' = WithLatency(anBase, v) /\ UNCHANGED anCand
       \/ ANCount(anCand) < ANMax /\ anCand' = WithLatency(anCand, v) /\ UNCHANGED anBase
    /\ UNCHANGED anConf
ANError ==
    /\ \/ anBase.err < 1 /\ anBase' = WithError(anBase) /\ UNCHANGED anCand
       \/ anCand.err < 1 /\ anCand' = WithError(anCand) /\ UNCHANGED anBase
    /\ UNCHANGED anConf

ANNext == (\E v \in ANLatency : ANAdd(v)) \/ ANError

-----------------------------------------------------------------------------
(* ks_statistic is the largest distance of the two distribution functions  *)
(* over all values, and it does not matter which stream comes first.       *)
ANKolmogorov ==
    ANCount(anBase) > 0 /\ ANCount(anCand) > 0 =>
        LET F(s, x) == Within(s, LAMBDA v : BucketOf(v) <= x)
            sup == Max({Magnitude(F(anBase, BucketOf(w)) * ANCount(anCand)
                                  - F(anCand, BucketOf(w)) * ANCount(anBase)) : w \in ANLatency})
        IN /\ ks_statistic(anBase, anCand) = <<sup, ANCount(anBase) * ANCount(anCand)>>
           /\ ks_statistic(anCand, anBase) = ks_statistic(anBase, anCand)

(* wasserstein_distance is the cost of the cheapest matching of the two    *)
(* samples: sorted, each taken as often as the other one has values, the   *)
(* k-th of one against the k-th of the other.                              *)
ANEarthMover ==
    ANCount(anBase) > 0 /\ ANCount(anCand) > 0 =>
        LET n == ANCount(anBase) * ANCount(anCand)
            ranked(s, k) == Min({BucketOf(v) : v \in {u \in ANLatency :
                                Within(s, LAMBDA w : BucketOf(w) <= BucketOf(u)) * n
                                    >= k * ANCount(s)}})
            cost == FoldSet(LAMBDA k, c : c + Magnitude(ranked(anBase, k) - ranked(anCand, k)),
                            0, 1..n)
        IN wasserstein_distance(anBase, anCand) = <<cost, n>>

(* The service level alert is never missed: when more of the current       *)
(* latencies than the budget allows are above the target derived from the  *)
(* baseline, it is alerting, whatever bucket the target falls into.        *)
ANAlertNeverMissed ==
    ANCount(anBase) > 0 /\ ANCount(anCand) > 0 =>
        LET above == Within(anCand, LAMBDA v : v > recommend(anBase, anConf.q))
        IN Above(<<above, ANCount(anCand)>>, anConf.budget)
             => is_alerting(anCand, anBase, anConf.q, anConf.budget)

Strict(conf) ==
    \A m \in DOMAIN conf.thresholds :
        LET t == conf.thresholds[m] IN t.warning[1] > 0 /\ Above(t.rollback, t.warning)
Agree(a, alike) ==
    /\ a.verdict = "rollback_recommended" <=> AtLeast(a.confidence, One)
    /\ a.verdict = "safe" => a.confidence[1] = 0
    /\ alike => a.verdict = "safe"
(* A verdict and its confidence, computed apart, agree: with thresholds    *)
(* that differ, a rollback is recommended exactly at confidence 1 and a    *)
(* safe candidate has confidence 0; a candidate that behaves exactly as    *)
(* its baseline is safe.                                                   *)
ANVerdictConsistent ==
    ~Refused(anBase, anCand, anConf) /\ Strict(anConf) =>
        Agree(analyze(anBase, anCand, anConf), anBase = anCand)

(* What the analysis promises: distances as they are defined, no missed    *)
(* service level alert, and verdicts that agree with their confidence.     *)
ANSafe == ANKolmogorov /\ ANEarthMover /\ ANAlertNeverMissed /\ ANVerdictConsistent

=============================================================================
