------------------------------ MODULE GoSketch ------------------------------
(***************************************************************************)
(* The sketches of the Go client, each a type of its own: a DDSketch of    *)
(* latencies, a Count-Min sketch of events and a HyperLogLog.  They refuse *)
(* less than the Python and C++ ones.  Negative values are dropped without *)
(* a word, a NaN is counted and lands in a bucket that depends on the      *)
(* build (the conversion of NaN to int is not defined), stores have no     *)
(* limit on their buckets, and all counters wrap around.  The logarithm    *)
(* and the hash functions are constants.                                   *)
(***************************************************************************)
EXTENDS Integers, FiniteSets, Sums

CONSTANTS
    GSSketch,     \* the sketches of the program
    GSValue,      \* the latencies, negative ones among them
    GSTop,        \* larger than all of them: math.Inf(1)
    GSKey,        \* bucketIndex of the positive ones
    GSNanKeys,    \* buckets a NaN may land in
    GSItem,       \* event names and unique items
    GSRow, GSCol, \* rows and columns of the matrix
    GSColumn,     \* GSColumn[row][item]: hashes
    GSRegister,   \* GSRegister[item]: <<register, rho>> of the HyperLogLog
    GSDelta,      \* what an event is counted up by
    GSQuantiles,  \* the quantiles asked for, as <<numerator, denominator>>
    GSWord,       \* 2^64: counters are kept modulo GSWord
    GSMaxOps      \* bound: operations of one behaviour

(* Floating-point numbers are finitely many, and a larger one is in no     *)
(* lower bucket.  NewCountMinSketch refuses a matrix without rows, and     *)
(* Quantile a q outside 0 to 1.                                            *)
ASSUME GSAssumption ==
    /\ IsFiniteSet(GSValue) /\ GSValue \subseteq Int /\ GSTop \in Int
    /\ IsFiniteSet(GSNanKeys) /\ GSNanKeys \subseteq Int
    /\ GSKey \in [{v \in GSValue : v > 0} -> Int]
    /\ \A v, w \in {x \in GSValue : x > 0} : v <= w => GSKey[v] <= GSKey[w]
    /\ IsFiniteSet(GSItem) /\ IsFiniteSet(GSCol) /\ GSRow # {}
    /\ GSColumn \in [GSRow -> [GSItem -> GSCol]]
    /\ GSRegister \in [GSItem -> Nat \X Nat]
    /\ GSDelta \subseteq Nat /\ GSWord \in Nat \ {0}
    /\ \A q \in GSQuantiles : q \in Nat \X Nat /\ q[2] > 0 /\ q[1] <= q[2]

VARIABLES
    gs,       \* per sketch: [buckets, zero, count, min, max, matrix, total, regs]
    gsTrue,   \* ghost: what was added: [lat, ev, uniq]
    gsNan,    \* ghost: sketches a NaN has entered
    gsOps

gsVars == <<gs, gsTrue, gsNan, gsOps>>
GSObserved == {v \in GSValue : v >= 0}
GSPositive == {v \in GSValue : v > 0}
GSKeys == {GSKey[v] : v \in GSPositive} \cup GSNanKeys
GSRegisters == {GSRegister[i][1] : i \in GSItem}

Wrapped(n) == n % GSWord

GSEmpty == [buckets |-> [k \in GSKeys |-> 0], zero |-> 0, count |-> 0, min |-> GSTop, max |-> -1,
            matrix |-> [r \in GSRow |-> [c \in GSCol |-> 0]], total |-> 0,
            regs |-> [i \in GSRegisters |-> 0]]
GSNone == [lat |-> [v \in GSObserved |-> 0], ev |-> [i \in GSItem |-> 0], uniq |-> {}]
GSInit ==
    /\ gs = [s \in GSSketch |-> GSEmpty] /\ gsTrue = [s \in GSSketch |-> GSNone]
    /\ gsNan = {} /\ gsOps = 0
GSOp == gsOps < GSMaxOps /\ gsOps' = gsOps + 1

-----------------------------------------------------------------------------
(* DDSketch.Add.  A NaN is neither negative nor zero, and neither smaller  *)
(* nor larger than anything.                                               *)
WithKey(d, k) == [d EXCEPT !.count = Wrapped(@ + 1), !.buckets[k] = Wrapped(@ + 1)]
WithZero(d) == [d EXCEPT !.count = Wrapped(@ + 1), !.zero = Wrapped(@ + 1)]
WithExtrema(d, v) == [d EXCEPT !.min = IF v < @ THEN v ELSE @, !.max = IF v > @ THEN v ELSE @]
WithValue(d, v) == IF v = 0 THEN WithZero(WithExtrema(d, v))
                   ELSE WithKey(WithExtrema(d, v), GSKey[v])
GSAdd(s, v) ==
    /\ GSOp
    /\ gs' = IF v < 0 THEN gs ELSE [gs EXCEPT ![s] = WithValue(@, v)]
    /\ gsTrue' = IF v < 0 THEN gsTrue ELSE [gsTrue EXCEPT ![s].lat[v] = @ + 1]
    /\ UNCHANGED gsNan
GSAddNaN(s, k) ==
    /\ GSOp
    /\ gs' = [gs EXCEPT ![s] = WithKey(@, k)]
    /\ gsNan' = gsNan \cup {s}
    /\ UNCHANGED gsTrue

(* DDSketch.Quantile: rank ceil(q * count), at least one; zeros first,     *)
(* then the buckets upwards, and the maximum if they do not reach it.  A   *)
(* result is named by its bucket, <<sign, index>>.                         *)
GSBucket(v) == IF v = 0 THEN <<0, 0>> ELSE <<1, GSKey[v]>>
Rank(d, q) == (q[1] * d.count + q[2] - 1) \div q[2]
BucketsUpto(d, k) == Wrapped(SumOf(d.buckets, {j \in GSKeys : j <= k}))
QuantileAt(d, rank) ==
    LET reach == {k \in GSKeys : BucketsUpto(d, k) >= rank - d.zero}
    IN  IF rank <= d.zero THEN <<0, 0>>
        ELSE IF reach = {} THEN <<2, d.max>>
        ELSE <<1, CHOOSE k \in reach : \A j \in reach : k <= j>>
QuantileUnclamped(d, q) == QuantileAt(d, Rank(d, q))
GSQuantile(d, q) == QuantileAt(d, IF Rank(d, q) = 0 THEN 1 ELSE Rank(d, q))

(* CountMinSketch.Add and Count, HyperLogLog.Add.                          *)
WithEvent(d, item, n) ==
    [d EXCEPT !.total = Wrapped(d.total + n),
              !.matrix = [r \in GSRow |-> [d.matrix[r] EXCEPT ![GSColumn[r][item]] = Wrapped(@ + n)]]]
GSAddEvent(s, item, n) ==
    /\ GSOp
    /\ gs' = [gs EXCEPT ![s] = WithEvent(@, item, n)]
    /\ gsTrue' = [gsTrue EXCEPT ![s].ev[item] = @ + n]
    /\ UNCHANGED gsNan
GSCount(d, item) == CHOOSE n \in {d.matrix[r][GSColumn[r][item]] : r \in GSRow} :
                        \A r \in GSRow : n <= d.matrix[r][GSColumn[r][item]]
GSLarger(x, y) == IF x > y THEN x ELSE y
GSAddUnique(s, item) ==
    /\ GSOp
    /\ gs' = [gs EXCEPT ![s].regs[GSRegister[item][1]] = GSLarger(GSRegister[item][2], @)]
    /\ gsTrue' = [gsTrue EXCEPT ![s].uniq = @ \cup {item}]
    /\ UNCHANGED gsNan

(* The three Merge methods, also of a sketch into itself.                  *)
MergedDD(d, e) ==
    [d EXCEPT !.buckets = [k \in GSKeys |-> Wrapped(d.buckets[k] + e.buckets[k])],
              !.zero = Wrapped(d.zero + e.zero), !.count = Wrapped(d.count + e.count),
              !.min = IF e.min < d.min THEN e.min ELSE d.min, !.max = GSLarger(e.max, d.max)]
MergedCM(d, e) ==
    [d EXCEPT !.matrix = [r \in GSRow |-> [c \in GSCol |-> Wrapped(d.matrix[r][c] + e.matrix[r][c])]],
              !.total = Wrapped(d.total + e.total)]
MergedHLL(d, e) == [d EXCEPT !.regs = [i \in GSRegisters |-> GSLarger(e.regs[i], d.regs[i])]]
GSAdded(f, g, S) == [x \in S |-> f[x] + g[x]]
GSMergeDD(s, t) ==
    /\ GSOp
    /\ gs' = [gs EXCEPT ![s] = MergedDD(@, gs[t])]
    /\ gsTrue' = [gsTrue EXCEPT ![s].lat = GSAdded(@, gsTrue[t].lat, GSObserved)]
    /\ gsNan' = IF t \in gsNan THEN gsNan \cup {s} ELSE gsNan
GSMergeCM(s, t) ==
    /\ GSOp
    /\ gs' = [gs EXCEPT ![s] = MergedCM(@, gs[t])]
    /\ gsTrue' = [gsTrue EXCEPT ![s].ev = GSAdded(@, gsTrue[t].ev, GSItem)]
    /\ UNCHANGED gsNan
GSMergeHLL(s, t) ==
    /\ GSOp
    /\ gs' = [gs EXCEPT ![s] = MergedHLL(@, gs[t])]
    /\ gsTrue' = [gsTrue EXCEPT ![s].uniq = @ \cup gsTrue[t].uniq]
    /\ UNCHANGED gsNan

GSNext ==
    \E s \in GSSketch :
        \/ \E v \in GSValue : GSAdd(s, v)
        \/ \E k \in GSNanKeys : GSAddNaN(s, k)
        \/ \E i \in GSItem, n \in GSDelta : GSAddEvent(s, i, n)
        \/ \E i \in GSItem : GSAddUnique(s, i)
        \/ \E t \in GSSketch : GSMergeDD(s, t) \/ GSMergeCM(s, t) \/ GSMergeHLL(s, t)

-----------------------------------------------------------------------------
(* As long as no NaN has entered it and its counter has not wrapped, a     *)
(* quantile of a Go sketch is the bucket of the value of rank ceil(q * n)  *)
(* among the non-negative values, and of the smallest one for q = 0, after *)
(* any merges.                                                             *)
GSQuantileRank ==
    \A s \in GSSketch \ gsNan :
        LET lat == gsTrue[s].lat
            n == SumOf(lat, GSObserved)
            upto(b) == SumOf(lat, {v \in GSObserved : v <= b})
            below(b) == SumOf(lat, {v \in GSObserved : v < b})
            smallest(v) == \A w \in GSObserved : lat[w] > 0 => v <= w
        IN  n < GSWord =>
              /\ gs[s].count = n
              /\ n > 0 => \A q \in GSQuantiles : \E v \in GSObserved :
                   /\ lat[v] > 0 /\ GSQuantile(gs[s], q) = GSBucket(v)
                   /\ q[2] * below(v) < q[1] * n \/ smallest(v)
                   /\ q[1] * n <= q[2] * upto(v)

(* An event is never undercounted until the total reaches the word size,   *)
(* and every row of the matrix sums to the total modulo the word size.     *)
GSCountsUp ==
    \A s \in GSSketch :
        /\ SumOf(gsTrue[s].ev, GSItem) < GSWord =>
             \A i \in GSItem : GSCount(gs[s], i) >= gsTrue[s].ev[i]
        /\ \A r \in GSRow : Wrapped(SumOf(gs[s].matrix[r], GSCol)) = gs[s].total

(* A register holds the largest rho of the items that were added, in       *)
(* whatever order and through whatever merges they came.                   *)
GSRegistersMax ==
    \A s \in GSSketch, i \in GSRegisters :
        LET rhos == {GSRegister[x][2] : x \in {y \in gsTrue[s].uniq : GSRegister[y][1] = i}}
        IN  gs[s].regs[i] \in rhos \cup {0} /\ \A n \in rhos : n <= gs[s].regs[i]

(* What the Go sketches promise: quantiles of the right rank, event counts *)
(* that never lie below the truth, and registers that know every item.     *)
GSSafe == GSQuantileRank /\ GSCountsUp /\ GSRegistersMax

=============================================================================
