---------------------------- MODULE NativeSketch ----------------------------
(***************************************************************************)
(* The C++ core, the StreamLog that runs when the extension is built (and  *)
(* the one behind the WASM package), beside the pure Python one of         *)
(* StreamSketch.  It keeps its buckets in stores with their own smallest   *)
(* and largest index, empty extrema are 0 instead of infinities, a batch   *)
(* is added value by value to a copy, and a merge is done on copies of the *)
(* three sketches.  An exception leaves the object as it was.              *)
(***************************************************************************)
EXTENDS StreamSketch, Sequences, SequencesExt

CONSTANT NKMaxOps     \* bound: operations of one behaviour

VARIABLES nkLog, nkOps
nkVars == <<nkLog, nkOps>>

-----------------------------------------------------------------------------
(* DenseStore.  A result that threw is NKThrown.                           *)
NKThrown == [thrown |-> TRUE]
EmptyStore == [bins |-> NoCounts, lo |-> 0, hi |-> 0, empty |-> TRUE]
can_fit(s, i) == i \in DOMAIN s.bins \/ Cardinality(DOMAIN s.bins) < SKMaxBins
can_add(s, i, n) == i \in DOMAIN s.bins => s.bins[i] <= SKMaxInt - n
StoreAddKeepsTop(s, i, n) ==            \* max_index is not moved
    IF ~can_fit(s, i) \/ ~can_add(s, i, n) THEN NKThrown
    ELSE [bins |-> Added(s.bins, OneCount(i, n)), empty |-> FALSE,
          lo |-> IF s.empty \/ i < s.lo THEN i ELSE s.lo, hi |-> IF s.empty THEN i ELSE s.hi]
StoreAdd(s, i, n) ==
    IF ~can_fit(s, i) \/ ~can_add(s, i, n) THEN NKThrown
    ELSE [bins |-> Added(s.bins, OneCount(i, n)), empty |-> FALSE,
          lo |-> IF s.empty \/ i < s.lo THEN i ELSE s.lo,
          hi |-> IF s.empty \/ i > s.hi THEN i ELSE s.hi]
Ascending(S) == SetToSortSeq(S, LAMBDA x, y : x < y)
StoreMerge(s, t) ==
    FoldLeft(LAMBDA acc, i : IF acc = NKThrown THEN acc ELSE StoreAdd(acc, i, t.bins[i]),
             s, Ascending(DOMAIN t.bins))

(* DDSketch::add.                                                          *)
NKEmptyDD == [pos |-> EmptyStore, neg |-> EmptyStore, zero |-> 0, count |-> 0, min |-> 0, max |-> 0]
DDAdd(d, v) ==
    LET pos == IF v > 0 THEN StoreAdd(d.pos, _key(v), 1) ELSE d.pos
        neg == IF v < 0 THEN StoreAdd(d.neg, _key(v), 1) ELSE d.neg
    IN  IF ~Finite(v) THEN d
        ELSE IF v = SKTiny \/ d.count = SKMaxUint \/ pos = NKThrown \/ neg = NKThrown
                \/ (v = 0 /\ d.zero = SKMaxInt) THEN NKThrown
        ELSE [pos |-> pos, neg |-> neg, zero |-> IF v = 0 THEN d.zero + 1 ELSE d.zero,
              count |-> d.count + 1,
              min |-> IF d.count = 0 \/ v < d.min THEN v ELSE d.min,
              max |-> IF d.count = 0 \/ v > d.max THEN v ELSE d.max]

(* DDSketch::add_batch, on a copy; values in the order they were sent.     *)
AddBatch(d, values) ==
    FoldLeft(LAMBDA acc, v : IF acc = NKThrown THEN acc ELSE DDAdd(acc, v), d, values)

DDMerge(d, e) ==
    LET pos == StoreMerge(d.pos, e.pos)
        neg == StoreMerge(d.neg, e.neg)
    IN  IF e.count = 0 THEN d
        ELSE IF d.count > SKMaxUint - e.count \/ d.zero > SKMaxInt - e.zero
                \/ pos = NKThrown \/ neg = NKThrown THEN NKThrown
        ELSE [pos |-> pos, neg |-> neg, zero |-> d.zero + e.zero, count |-> d.count + e.count,
              min |-> IF d.count = 0 \/ e.min < d.min THEN e.min ELSE d.min,
              max |-> IF d.count = 0 \/ e.max > d.max THEN e.max ELSE d.max]

(* DDSketch::quantile: the first bucket, from the most negative value      *)
(* upwards, up to which there are q * count values.                        *)
Walk(d) == [i \in 1 .. Cardinality(DOMAIN d.neg.bins) |-> <<-1, Reverse(Ascending(DOMAIN d.neg.bins))[i]>>]
           \o <<<<0, 0>>>> \o [i \in 1 .. Cardinality(DOMAIN d.pos.bins) |-> <<1, Ascending(DOMAIN d.pos.bins)[i]>>]
Upto(d, n) == FoldLeft(LAMBDA sum, k : sum + IF k[1] = 0 THEN d.zero
                                             ELSE IF k[1] < 0 THEN d.neg.bins[k[2]] ELSE d.pos.bins[k[2]],
                       0, SubSeq(Walk(d), 1, n))
DDQuantile(d, q) ==
    IF q[1] <= 0 THEN Bucket(d.min)
    ELSE IF q[1] >= q[2] \/ \A n \in DOMAIN Walk(d) : q[2] * Upto(d, n) < q[1] * d.count THEN Bucket(d.max)
    ELSE Walk(d)[CHOOSE n \in DOMAIN Walk(d) : /\ q[2] * Upto(d, n) >= q[1] * d.count
                                              /\ \A k \in 1 .. n - 1 : q[2] * Upto(d, k) < q[1] * d.count]

DDCountGreater(d, x) ==
    IF d.count = 0 \/ x >= d.max THEN 0
    ELSE IF x < d.min THEN d.count
    ELSE IF x <= 0
         THEN (IF x < 0 THEN Among(d.neg.bins, {i \in DOMAIN d.neg.bins : i <= _key(x)}) + d.zero ELSE 0)
              + Size(d.pos.bins)
         ELSE Among(d.pos.bins, {i \in DOMAIN d.pos.bins : i >= _key(x)})

(* get_state and set_state: the store as arrays of indices and counts.     *)
StoreState(s) == LET ix == Ascending(DOMAIN s.bins)
                 IN  [ix |-> ix, n |-> [i \in DOMAIN ix |-> s.bins[ix[i]]],
                      lo |-> s.lo, hi |-> s.hi, empty |-> s.empty]
validate_store(a) ==
    IF a.empty THEN a.ix = <<>> /\ a.n = <<>>
    ELSE /\ a.n # <<>> /\ Len(a.n) = Len(a.ix) /\ Len(a.n) <= SKMaxBins
         /\ a.lo <= a.hi /\ Head(a.ix) = a.lo /\ Last(a.ix) = a.hi
         /\ \A i \in DOMAIN a.ix : (i > 1 => a.ix[i - 1] < a.ix[i]) /\ a.n[i] > 0
get_state(d) == [d EXCEPT !.pos = StoreState(d.pos), !.neg = StoreState(d.neg)]
ArrayTotal(a) == FoldLeft(LAMBDA x, y : x + y, 0, a.n)
Restored(a) == [bins |-> [i \in {a.ix[k] : k \in DOMAIN a.ix} |->
                             a.n[CHOOSE k \in DOMAIN a.ix : a.ix[k] = i]],
                lo |-> a.lo, hi |-> a.hi, empty |-> a.empty]
set_state(s) ==
    IF /\ s.zero >= 0 /\ validate_store(s.pos) /\ validate_store(s.neg)
       /\ s.zero + ArrayTotal(s.pos) + ArrayTotal(s.neg) = s.count
       /\ s.count > 0 => s.min <= s.max
    THEN [s EXCEPT !.pos = Restored(s.pos), !.neg = Restored(s.neg)] ELSE NKThrown

-----------------------------------------------------------------------------
(* sketchlog::StreamLog.  The other two sketches differ from the Python    *)
(* ones only in their layout; a table cell is checked before any is added. *)
NKEmpty(conf) == [conf |-> conf, dd |-> NKEmptyDD, table |-> EmptyTable, events |-> 0,
                  regs |-> [r \in Registers |-> 0], total |-> 0]
CellsFit(t, u) == \A r \in Rows, c \in Columns : t[r][c] <= SKMaxInt - u[r][c]
CMSThrows(log, item, n) ==
    log.events > SKMaxInt - n \/ \E r \in Rows : log.table[r][SKColumn[r][item]] > SKMaxInt - n
CMSAdd(log, item, n) ==
    [r \in Rows |-> [c \in Columns |-> log.table[r][c] + IF SKColumn[r][item] = c THEN n ELSE 0]]
HLLAdd(regs, item) == [i \in Registers |-> IF i = SKRegister[item][1] /\ SKRegister[item][2] > regs[i]
                                           THEN SKRegister[item][2] ELSE regs[i]]
HLLMerge(a, b) == [i \in Registers |-> IF b[i] > a[i] THEN b[i] ELSE a[i]]

NKLatency(log, v) ==
    LET dd == DDAdd(log.dd, v)
    IN  IF dd = NKThrown \/ (Finite(v) /\ log.total = SKMaxUint) THEN log
        ELSE [log EXCEPT !.dd = dd, !.total = @ + IF Finite(v) THEN 1 ELSE 0]
NKBatch(log, values) ==
    LET dd == AddBatch(log.dd, values)
        n == Cardinality({i \in DOMAIN values : Finite(values[i])})
    IN  IF dd = NKThrown \/ log.total > SKMaxUint - n THEN log
        ELSE [log EXCEPT !.dd = dd, !.total = @ + n]
NKEvent(log, item, n) ==
    IF log.total > SKMaxUint - n \/ CMSThrows(log, item, n) THEN log
    ELSE [log EXCEPT !.table = CMSAdd(log, item, n), !.events = @ + n, !.total = @ + n]
NKMerge(log, other) ==
    LET dd == DDMerge(log.dd, other.dd)
    IN  IF \/ log.conf # other.conf \/ log.total > SKMaxUint - other.total \/ dd = NKThrown
           \/ log.events > SKMaxInt - other.events \/ ~CellsFit(log.table, other.table) THEN log
        ELSE [log EXCEPT !.dd = dd, !.events = @ + other.events, !.total = @ + other.total,
                         !.table = [r \in Rows |-> [c \in Columns |-> @[r][c] + other.table[r][c]]],
                         !.regs = HLLMerge(@, other.regs)]

(* The bindings' to_dict, and from_dict: the Python validator first, then  *)
(* the arrays are rebuilt from the sorted entries.                         *)
NKDict(log) == [log EXCEPT !.dd = [pos |-> log.dd.pos.bins, neg |-> log.dd.neg.bins, zero |-> log.dd.zero,
                                   count |-> log.dd.count, min |-> log.dd.min, max |-> log.dd.max]]
Entries(b) == LET ix == Ascending(DOMAIN b)
              IN  [ix |-> ix, n |-> [i \in DOMAIN ix |-> b[ix[i]]], empty |-> ix = <<>>,
                   lo |-> IF ix = <<>> THEN 0 ELSE Head(ix), hi |-> IF ix = <<>> THEN 0 ELSE Last(ix)]
NKFromDict(d) ==
    IF ~Valid(d) \/ d.total # d.dd.count + d.events THEN NKThrown
    ELSE [d EXCEPT !.dd = set_state([@ EXCEPT !.pos = Entries(d.dd.pos), !.neg = Entries(d.dd.neg)])]

-----------------------------------------------------------------------------
NKInit == /\ \E conf \in SKConfs : nkLog = [l \in SKLog |-> NKEmpty(conf[l])]
          /\ nkOps = 0

NKOps == [kind : {"latency"}, v : SKValue \cup {SKNan, SKTiny}]
         \cup [kind : {"batch"}, b : SKBatch, up : BOOLEAN]
         \cup [kind : {"event"}, item : SKItem, n : 1 .. SKMaxInt]
         \cup [kind : {"unique"}, item : SKItem] \cup [kind : {"merge"}, m : SKLog]
         \cup [kind : {"reset"}] \cup [kind : {"reload"}]
Order(b, up) ==
    LET values == FoldLeft(LAMBDA s, v : s \o [i \in 1 .. b[v] |-> v], <<>>, Ascending(DOMAIN b))
    IN  IF up THEN values ELSE Reverse(values)
NKAfter(l, op) ==
    LET log == nkLog[l]
    IN  CASE op.kind = "latency" -> NKLatency(log, op.v)
          [] op.kind = "batch" -> NKBatch(log, Order(op.b, op.up))
          [] op.kind = "event" -> NKEvent(log, op.item, op.n)
          [] op.kind = "unique" -> [log EXCEPT !.regs = HLLAdd(@, op.item)]
          [] op.kind = "merge" -> NKMerge(log, nkLog[op.m])
          [] op.kind = "reset" -> NKEmpty(log.conf)
          [] op.kind = "reload" -> NKFromDict(NKDict(log))
NKNext ==
    \E l \in SKLog, op \in NKOps :
        /\ nkOps < NKMaxOps /\ nkOps' = nkOps + 1
        /\ nkLog' = [nkLog EXCEPT ![l] = IF NKAfter(l, op) = NKThrown THEN @ ELSE NKAfter(l, op)]

(* The same operation of the Python log that has the same contents.        *)
Twin(log) == from_dict(NKDict(log))
PythonAfter(l, op) ==
    LET log == Twin(nkLog[l])
    IN  CASE op.kind = "latency" -> IF Finite(op.v) /\ log.total = SKMaxUint THEN log
                                    ELSE WithDD(log, DDSketch_add(log.dd, op.v))
          [] op.kind = "batch" -> IF log.total > SKMaxUint - Size(FinitePart(op.b)) THEN log
                                  ELSE WithDD(log, DDSketch_add_batch(log.dd, op.b))
          [] op.kind = "event" -> IF log.total <= SKMaxUint - op.n /\ CMSCanAdd(log, op.item, op.n)
                                  THEN [log EXCEPT !.table = TableAdd(@, op.item, op.n),
                                                   !.events = @ + op.n, !.total = @ + op.n]
                                  ELSE log
          [] op.kind = "unique" -> [log EXCEPT !.regs = RegisterAdd(@, op.item)]
          [] op.kind = "merge" -> merge(log, Twin(nkLog[op.m]))
          [] op.kind = "reset" -> EmptyLog(log.conf)
          [] op.kind = "reload" -> from_dict(to_dict(log))

-----------------------------------------------------------------------------
(* The two backends are interchangeable: from any state the C++ log can    *)
(* reach, every operation is accepted or refused as the Python log accepts *)
(* or refuses it, and leaves the same contents, whatever the order of the  *)
(* values in a batch and at the limits of the counters and bucket stores.  *)
(* (From the first operation on: a log that was reset is as a new one.)    *)
NKBackendsAgree ==
    nkOps > 0 => \A l \in SKLog, op \in NKOps :
        NKAfter(l, op) # NKThrown /\ Twin(NKAfter(l, op)) = PythonAfter(l, op)

(* Both backends answer alike: percentiles and tail counts.                *)
NKAnswersAgree ==
    \A l \in SKLog : nkLog[l].dd.count > 0 =>
        /\ \A q \in SKQuantile : DDQuantile(nkLog[l].dd, q) = quantile(Twin(nkLog[l]).dd, q)
        /\ \A x \in SKValue : DDCountGreater(nkLog[l].dd, x) = count_greater_than(Twin(nkLog[l]).dd, x)

(* set_state accepts what get_state returns and rebuilds the same sketch,  *)
(* the cached smallest and largest index of each store included; so does   *)
(* the round trip through the dictionary.                                  *)
NKRestorable ==
    nkOps > 0 => \A l \in SKLog : /\ set_state(get_state(nkLog[l].dd)) = nkLog[l].dd
                                  /\ NKFromDict(NKDict(nkLog[l])) = nkLog[l]

(* The C++ log can take the place of the Python one: after every operation *)
(* their state, their answers and what they restore agree.                 *)
NKSafe == NKBackendsAgree /\ NKAnswersAgree /\ NKRestorable

=============================================================================
