---------------------------- MODULE StreamSketch ----------------------------
(***************************************************************************)
(* The StreamLog: a DDSketch of latencies, a Count-Min sketch of events    *)
(* and a HyperLogLog of uniques with their totals, as _PythonStreamLog     *)
(* keeps them, with merge, the JSON round trip and its validator.          *)
(*                                                                         *)
(* A bucket store, a dictionary from indices to counts, is a function from *)
(* a finite set to positive numbers.  The logarithmic bucket index and the *)
(* hash functions are constants.  MAX_INT64, MAX_UINT64 and MAX_BINS are   *)
(* constants, so that the limits are met.                                  *)
(***************************************************************************)
EXTENDS Integers, FiniteSets, Sums

CONSTANTS
    SKLog,       \* the StreamLogs of the program
    SKConfs,     \* per log, alpha, precision and table size: the cases
    SKReal,      \* the finite latencies
    SKValue,     \* those that are added one by one
    SKNan,       \* a NaN or infinite latency
    SKTiny,      \* a latency too small for the relative accuracy
    SKKey,       \* the bucket index of a magnitude
    SKBatch,     \* the batches a client sends: how often each latency
    SKItem,      \* event names and unique items
    SKColumn,    \* SKColumn[row][item]: the Count-Min column
    SKRegister,  \* SKRegister[item]: <<register, rho>> of the HyperLogLog
    SKMaxInt,    \* MAX_INT64
    SKMaxUint,   \* MAX_UINT64
    SKMaxBins,   \* DDSketch.MAX_BINS
    SKQuantile,  \* the quantiles asked for, as <<numerator, denominator>>
    SKMaxOps     \* bound: operations of one behaviour

AbsValue(v) == IF v < 0 THEN -v ELSE v

(* Floating-point numbers are finitely many, and a larger magnitude is in  *)
(* no lower bucket.  The table has a row.                                  *)
ASSUME SKAssumption ==
    /\ IsFiniteSet(SKReal) /\ SKReal \subseteq Int /\ SKValue \subseteq SKReal
    /\ SKNan \notin SKReal /\ SKTiny \notin SKReal /\ SKNan # SKTiny
    /\ SKKey \in [{AbsValue(v) : v \in SKReal \ {0}} -> Int]
    /\ \A v, w \in SKReal \ {0} : AbsValue(v) <= AbsValue(w) => SKKey[AbsValue(v)] <= SKKey[AbsValue(w)]
    /\ \A b \in SKBatch : DOMAIN b \subseteq SKReal \cup {SKNan, SKTiny} /\ b \in [DOMAIN b -> Nat \ {0}]
    /\ IsFiniteSet(SKItem) /\ IsFiniteSet(DOMAIN SKColumn) /\ DOMAIN SKColumn # {}
    /\ SKRegister \in [SKItem -> Nat \X Nat]
    /\ SKMaxInt \in Nat /\ SKMaxUint \in Nat /\ SKMaxBins \in Nat
    /\ \A q \in SKQuantile : q \in Int \X Nat /\ q[2] > 0 /\ q[1] <= q[2]

VARIABLES
    skLog,    \* the logs
    skTrue,   \* ghost: the latencies, events and items each log stands for
    skOps     \* operations so far

skVars == <<skLog, skTrue, skOps>>

-----------------------------------------------------------------------------
(* Counts of things.                                                       *)
NoCounts == [i \in {} |-> 0]
OneCount(x, n) == [i \in {x} |-> n]
CountOf(b, i) == IF i \in DOMAIN b THEN b[i] ELSE 0
Added(b, c) == [i \in DOMAIN b \cup DOMAIN c |-> CountOf(b, i) + CountOf(c, i)]
Among(b, S) == SumOf(b, DOMAIN b \cap S)
Size(b) == SumOf(b, DOMAIN b)
Least(S) == CHOOSE v \in S : \A w \in S : v <= w
Greatest(S) == CHOOSE v \in S : \A w \in S : w <= v

-----------------------------------------------------------------------------
(* DDSketch.                                                               *)

Rows == DOMAIN SKColumn
Columns == {SKColumn[r][i] : r \in Rows, i \in SKItem}
Registers == {SKRegister[i][1] : i \in SKItem}
SKPositive == {v \in SKReal : v > 0}
SKNegative == {v \in SKReal : v < 0}

Finite(v) == v # SKNan
_key(v) == SKKey[AbsValue(v)]
Keyed(b, S) == [k \in {_key(v) : v \in DOMAIN b \cap S} |-> Among(b, {v \in S : _key(v) = k})]

EmptyDD == [pos |-> NoCounts, neg |-> NoCounts, zero |-> 0, count |-> 0,
            min |-> 1, max |-> -1]      \* inf and -inf
LowerOf(d, e) == IF d.count = 0 THEN e.min ELSE IF e.count = 0 \/ d.min < e.min THEN d.min ELSE e.min
UpperOf(d, e) == IF d.count = 0 THEN e.max ELSE IF e.count = 0 \/ d.max > e.max THEN d.max ELSE e.max
BinsFit(b, c) == \A i \in DOMAIN c : CountOf(b, i) <= SKMaxInt - c[i]

(* add: every check comes before the first assignment.                     *)
CanTake(b, k) == /\ k \in DOMAIN b \/ Cardinality(DOMAIN b) < SKMaxBins
                 /\ CountOf(b, k) < SKMaxInt
CanAdd(d, v) ==
    /\ v # SKTiny /\ d.count < SKMaxUint
    /\ v > 0 => CanTake(d.pos, _key(v))
    /\ v < 0 => CanTake(d.neg, _key(v))
    /\ v = 0 => d.zero < SKMaxInt
DDSketch_add(d, v) ==
    IF ~Finite(v) \/ ~CanAdd(d, v) THEN d
    ELSE [pos |-> IF v > 0 THEN Added(d.pos, OneCount(_key(v), 1)) ELSE d.pos,
          neg |-> IF v < 0 THEN Added(d.neg, OneCount(_key(v), 1)) ELSE d.neg,
          zero |-> IF v = 0 THEN d.zero + 1 ELSE d.zero,
          count |-> d.count + 1,
          min |-> IF d.count = 0 \/ v < d.min THEN v ELSE d.min,
          max |-> IF d.count = 0 \/ v > d.max THEN v ELSE d.max]

(* add_batch: what the batch adds, the checks, and then the commit.        *)
FinitePart(b) == [v \in {x \in DOMAIN b : Finite(x)} |-> b[v]]
BatchSketch(f) ==
    IF f = NoCounts THEN EmptyDD
    ELSE [pos |-> Keyed(f, SKPositive), neg |-> Keyed(f, SKNegative),
          zero |-> CountOf(f, 0), count |-> Size(f),
          min |-> Least(DOMAIN f), max |-> Greatest(DOMAIN f)]
CanCommit(d, t) ==
    /\ Cardinality(DOMAIN d.pos \cup DOMAIN t.pos) <= SKMaxBins
    /\ Cardinality(DOMAIN d.neg \cup DOMAIN t.neg) <= SKMaxBins
    /\ d.count <= SKMaxUint - t.count /\ d.zero <= SKMaxInt - t.zero
    /\ BinsFit(d.pos, t.pos) /\ BinsFit(d.neg, t.neg)
Commit(d, t) ==
    [pos |-> Added(d.pos, t.pos), neg |-> Added(d.neg, t.neg), zero |-> d.zero + t.zero,
     count |-> d.count + t.count, min |-> LowerOf(d, t), max |-> UpperOf(d, t)]
DDSketch_add_batch(d, b) ==
    IF SKTiny \in DOMAIN b \/ ~CanCommit(d, BatchSketch(FinitePart(b))) THEN d
    ELSE Commit(d, BatchSketch(FinitePart(b)))

(* quantile: the negative buckets from the largest index down, the zeros,  *)
(* the positive buckets upwards, until q * count values are passed.  A     *)
(* result is named by its bucket, <<sign, index>>.                         *)
Bucket(v) == IF v = 0 THEN <<0, 0>> ELSE <<IF v < 0 THEN -1 ELSE 1, _key(v)>>
quantile(d, q) ==
    LET reached(n) == q[2] * n >= q[1] * d.count
        upToZero == Size(d.neg) + d.zero
        negative == {k \in DOMAIN d.neg : reached(Among(d.neg, {j \in DOMAIN d.neg : j >= k}))}
        positive == {k \in DOMAIN d.pos : reached(upToZero + Among(d.pos, {j \in DOMAIN d.pos : j <= k}))}
    IN  IF q[1] <= 0 THEN Bucket(d.min)
        ELSE IF q[1] >= q[2] THEN Bucket(d.max)
        ELSE IF negative # {} THEN <<-1, Greatest(negative)>>
        ELSE IF reached(upToZero) THEN <<0, 0>>
        ELSE IF positive # {} THEN <<1, Least(positive)>>
        ELSE Bucket(d.max)

count_greater_than(d, x) ==
    IF d.count = 0 \/ x >= d.max THEN 0
    ELSE IF x < d.min THEN d.count
    ELSE IF x < 0 THEN Among(d.neg, {i \in DOMAIN d.neg : i <= _key(x)}) + d.zero + Size(d.pos)
    ELSE IF x = 0 THEN Size(d.pos)
    ELSE Among(d.pos, {i \in DOMAIN d.pos : i >= _key(x)})

-----------------------------------------------------------------------------
(* CountMinSketch and HyperLogLog.                                         *)

EmptyTable == [r \in Rows |-> [c \in Columns |-> 0]]
TableAdd(t, item, n) ==
    [r \in Rows |-> [t[r] EXCEPT ![SKColumn[r][item]] = @ + n]]
CMSCanAdd(log, item, n) ==
    /\ log.events <= SKMaxInt - n
    /\ \A r \in Rows : log.table[r][SKColumn[r][item]] <= SKMaxInt - n
CMSEstimate(log, item) ==
    CHOOSE n \in {log.table[r][SKColumn[r][item]] : r \in Rows} :
        \A r \in Rows : n <= log.table[r][SKColumn[r][item]]
RegisterAdd(regs, item) ==
    LET i == SKRegister[item][1]
        rho == SKRegister[item][2]
    IN  [regs EXCEPT ![i] = IF rho > @ THEN rho ELSE @]

-----------------------------------------------------------------------------
(* _PythonStreamLog.                                                       *)

EmptyLog(conf) == [conf |-> conf, dd |-> EmptyDD, table |-> EmptyTable, events |-> 0,
                   regs |-> [r \in Registers |-> 0], total |-> 0]
EmptyTruth == [lat |-> NoCounts, ev |-> NoCounts, uniq |-> {}]

SKInit == /\ \E conf \in SKConfs : skLog = [l \in SKLog |-> EmptyLog(conf[l])]
          /\ skTrue = [l \in SKLog |-> EmptyTruth]
          /\ skOps = 0

SKOp == skOps < SKMaxOps /\ skOps' = skOps + 1
Becomes(l, log, truth) == /\ skLog' = [skLog EXCEPT ![l] = log]
                          /\ skTrue' = [skTrue EXCEPT ![l] = truth]

(* The total follows what the DDSketch's own count did.                    *)
WithDD(log, dd) == [log EXCEPT !.dd = dd, !.total = @ + (dd.count - log.dd.count)]

add_latency(l, v) ==
    LET log == skLog[l]
        dd == DDSketch_add(log.dd, v)
    IN  /\ SKOp
        /\ ~(Finite(v) /\ log.total = SKMaxUint)
        /\ Becomes(l, WithDD(log, dd),
                   IF dd = log.dd THEN skTrue[l] ELSE [skTrue[l] EXCEPT !.lat = Added(@, OneCount(v, 1))])

add_batch(l, b) ==
    LET log == skLog[l]
        dd == DDSketch_add_batch(log.dd, b)
    IN  /\ SKOp
        /\ log.total <= SKMaxUint - Size(FinitePart(b))
        /\ Becomes(l, WithDD(log, dd),
                   IF dd = log.dd THEN skTrue[l] ELSE [skTrue[l] EXCEPT !.lat = Added(@, FinitePart(b))])

add_event(l, item, n) ==
    LET log == skLog[l]
    IN  /\ SKOp
        /\ n > 0 /\ n <= SKMaxInt /\ log.total <= SKMaxUint - n /\ CMSCanAdd(log, item, n)
        /\ Becomes(l, [log EXCEPT !.table = TableAdd(@, item, n), !.events = @ + n, !.total = @ + n],
                   [skTrue[l] EXCEPT !.ev = Added(@, OneCount(item, n))])

add_unique(l, item) ==
    /\ SKOp
    /\ Becomes(l, [skLog[l] EXCEPT !.regs = RegisterAdd(@, item)],
               [skTrue[l] EXCEPT !.uniq = @ \cup {item}])

ResetKeepsTotal(l) ==    \* the sketches are new, the total is not
    SKOp /\ Becomes(l, [EmptyLog(skLog[l].conf) EXCEPT !.total = skLog[l].total], EmptyTruth)
reset(l) == SKOp /\ Becomes(l, EmptyLog(skLog[l].conf), EmptyTruth)

(* merge: configurations, totals and every cell are checked, and only then *)
(* is anything assigned.  A log may be merged into itself.                 *)
CanMerge(a, b) ==
    /\ a.conf = b.conf
    /\ a.total <= SKMaxUint - b.total /\ a.events <= SKMaxInt - b.events
    /\ CanCommit(a.dd, b.dd)
    /\ \A r \in Rows, c \in Columns : a.table[r][c] <= SKMaxInt - b.table[r][c]
Merged(a, b) ==
    [conf |-> a.conf, dd |-> Commit(a.dd, b.dd),
     table |-> [r \in Rows |-> [c \in Columns |-> a.table[r][c] + b.table[r][c]]],
     events |-> a.events + b.events,
     regs |-> [i \in Registers |-> IF a.regs[i] > b.regs[i] THEN a.regs[i] ELSE b.regs[i]],
     total |-> a.total + b.total]
merge(a, b) == IF CanMerge(a, b) THEN Merged(a, b) ELSE a
MergeTruth(s, t) == [lat |-> Added(s.lat, t.lat), ev |-> Added(s.ev, t.ev), uniq |-> s.uniq \cup t.uniq]

-----------------------------------------------------------------------------
(* Serialization: to_dict, and from_dict with its validator.               *)

to_dict(log) == [log EXCEPT !.dd = IF @.count > 0 THEN @ ELSE [@ EXCEPT !.min = 0, !.max = 0]]

ValidExtrema(dd) ==
    /\ dd.min <= dd.max
    /\ dd.pos # NoCounts =>
         /\ dd.max > 0 /\ _key(dd.max) = Greatest(DOMAIN dd.pos)
         /\ dd.min > 0 => _key(dd.min) = Least(DOMAIN dd.pos)
    /\ dd.neg # NoCounts =>
         /\ dd.min < 0 /\ _key(dd.min) = Greatest(DOMAIN dd.neg)
         /\ dd.max < 0 => _key(dd.max) = Least(DOMAIN dd.neg)
    /\ dd.zero > 0 => dd.min <= 0 /\ dd.max >= 0
    /\ dd.pos = NoCounts => dd.max <= 0
    /\ dd.neg = NoCounts => dd.min >= 0
    /\ (dd.max = 0 \/ dd.min = 0) => dd.zero > 0
ValidDD(dd) ==
    /\ dd.zero \in 0 .. SKMaxInt /\ dd.count \in 0 .. SKMaxUint
    /\ \A i \in DOMAIN dd.pos : dd.pos[i] \in 1 .. SKMaxInt
    /\ \A i \in DOMAIN dd.neg : dd.neg[i] \in 1 .. SKMaxInt
    /\ Cardinality(DOMAIN dd.pos) <= SKMaxBins /\ Cardinality(DOMAIN dd.neg) <= SKMaxBins
    /\ dd.count = dd.zero + Size(dd.pos) + Size(dd.neg)
    /\ IF dd.count > 0 THEN ValidExtrema(dd) ELSE dd.min = 0 /\ dd.max = 0
MaxRho == CHOOSE n \in {SKRegister[i][2] : i \in SKItem} : \A i \in SKItem : SKRegister[i][2] <= n
Valid(d) ==
    /\ d.total \in 0 .. SKMaxUint
    /\ ValidDD(d.dd)
    /\ \A i \in Registers : d.regs[i] \in 0 .. MaxRho
    /\ d.events \in 0 .. SKMaxInt
    /\ \A r \in Rows : /\ \A c \in Columns : d.table[r][c] \in 0 .. SKMaxInt
                       /\ Size(d.table[r]) = d.events
    /\ d.total = d.dd.count + d.events
from_dict(d) == [d EXCEPT !.dd = IF @.count > 0 THEN @ ELSE EmptyDD]

(* The facade's merge: a log of the other backend goes through its dict.   *)
StreamLog_merge(l, m, sameBackend) ==
    LET other == IF sameBackend THEN skLog[m] ELSE from_dict(to_dict(skLog[m]))
    IN  /\ SKOp
        /\ sameBackend \/ Valid(to_dict(skLog[m]))
        /\ Becomes(l, merge(skLog[l], other),
                   IF CanMerge(skLog[l], other) THEN MergeTruth(skTrue[l], skTrue[m])
                   ELSE skTrue[l])

(* save and load: the validator refuses a malformed state.                 *)
Reload(l) ==
    /\ SKOp /\ Valid(to_dict(skLog[l]))
    /\ Becomes(l, from_dict(to_dict(skLog[l])), skTrue[l])

SKNext ==
    \E l \in SKLog :
        \/ \E v \in SKValue \cup {SKNan, SKTiny} : add_latency(l, v)
        \/ \E b \in SKBatch : add_batch(l, b)
        \/ \E i \in SKItem, n \in 1 .. SKMaxInt : add_event(l, i, n)
        \/ \E i \in SKItem : add_unique(l, i)
        \/ \E m \in SKLog, same \in BOOLEAN : StreamLog_merge(l, m, same)
        \/ reset(l) \/ Reload(l)

-----------------------------------------------------------------------------
(* Properties.                                                             *)

(* Whatever was added, merged, refused and reloaded, a log is exactly the  *)
(* sketch of what it stands for, as if all of it had been added in one     *)
(* batch: a refused batch or merge leaves no part of itself behind.        *)
SKFaithful ==
    \A l \in SKLog :
        LET log == skLog[l]
            t == skTrue[l]
        IN  /\ log.dd = BatchSketch(t.lat)
            /\ \A r \in Rows, c \in Columns :
                 log.table[r][c] = Among(t.ev, {j \in SKItem : SKColumn[r][j] = c})
            /\ \A i \in Registers : \A x \in t.uniq :
                 SKRegister[x][1] = i => log.regs[i] >= SKRegister[x][2]
            /\ \A i \in Registers : log.regs[i] > 0 =>
                 \E x \in t.uniq : SKRegister[x] = <<i, log.regs[i]>>
            /\ log.events = Size(t.ev)
            /\ log.total = Size(t.lat) + Size(t.ev)

(* The validator accepts every state that the operations can build, at the *)
(* numeric limits too, and the round trip changes nothing: a checkpoint    *)
(* that was written can be loaded.                                         *)
SKLoadable ==
    \A l \in SKLog : Valid(to_dict(skLog[l])) /\ from_dict(to_dict(skLog[l])) = skLog[l]

(* quantile(q) answers with the bucket of the value of rank ceil(q * n).   *)
SKQuantileRank ==
    \A l \in SKLog, q \in SKQuantile :
        LET lat == skTrue[l].lat
            below(b) == Among(lat, {x \in SKReal : x < b})
            upto(b) == Among(lat, {x \in SKReal : x <= b})
            n == Size(lat)
        IN  n > 0 => \E v \in DOMAIN lat :
                /\ quantile(skLog[l].dd, q) = Bucket(v)
                /\ q[2] * below(v) < q[1] * n \/ v = Least(DOMAIN lat)
                /\ q[1] * n <= q[2] * upto(v)

(* Event estimates never undercount, and count_greater_than is an upper    *)
(* bound that exceeds the truth only by values of the threshold's bucket.  *)
SKUpperBounds ==
    \A l \in SKLog :
        LET t == skTrue[l]
        IN  /\ \A i \in SKItem : CMSEstimate(skLog[l], i) >= CountOf(t.ev, i)
            /\ \A x \in SKReal :
                 LET above == Among(t.lat, {y \in SKReal : y > x})
                     shared == Among(t.lat, {y \in SKReal : Bucket(y) = Bucket(x)})
                     got == count_greater_than(skLog[l].dd, x)
                 IN  above <= got /\ got <= above + shared

(* What a StreamLog promises: it is the sketch of exactly what it          *)
(* accepted, it can be written and loaded, and its answers have the rank   *)
(* and the bound that were asked for.                                      *)
SKSafe == skOps > 0 => SKFaithful /\ SKLoadable /\ SKQuantileRank /\ SKUpperBounds

=============================================================================
