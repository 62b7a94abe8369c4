-------------------------- MODULE AckedBatchProofs --------------------------
(***************************************************************************)
(* With the OmniKV backend, which stamps a save before it serializes the   *)
(* stream, no acknowledged batch is ever lost by the server: proof for any *)
(* number of streams, namespaces, DELETE requests and any limits.          *)
(*                                                                         *)
(* The argument is about all copies of a stream that exist at a moment:    *)
(* the resident object, the durable row, an unlinked object that the flush *)
(* pass still holds, an object a request has just loaded, and what a save  *)
(* is about to write.  A copy may lack recent batches, but then its        *)
(* version is older than they are, so it never replaces a copy that has    *)
(* them.                                                                   *)
(***************************************************************************)
EXTENDS StreamRegistryProofs

-----------------------------------------------------------------------------
(* The inductive invariant *)

Committed(k) == \E d \in Deleter : del[d].pc = "committed" /\ del[d].key = k

\* A request inside the lock holds the object it loaded for k.
Loading(k) == op.pc \in {"loaded", "save"} /\ op.key = k

\* A save has read everything and is about to write the row of k.
Writing(s, k) == save[s].pc = "write" /\ save[s].key = k
Written(s) == [data |-> save[s].payload, ver |-> save[s].ver]

\* c is a copy of k that can become its durable row or its resident object.
IsCopy(k, c) ==
    /\ c \notin {NoLog, Live}
    /\ \/ c \in {resident[k], stored[k], flush[k]}
       \/ Loading(k) /\ c = op.loaded
       \/ \E s \in Saver : Writing(s, k) /\ c = Written(s)

Copies(k) == {c \in {resident[k], stored[k], flush[k], op.loaded}
                        \union {Written(s) : s \in Saver} : IsCopy(k, c)}

\* The copy that the next request finds.
Current(k) == IF resident[k] # NoLog THEN resident[k] ELSE stored[k]

\* No acknowledged batch up to the copy's version is missing in it.
Covers(k, c) == \A b \in acked[k] : b <= c.ver => b \in c.data

\* Every acknowledged batch is in the copy, and no other copy that lacks it
\* can pass for newer.
Safe(k, c) ==
    \A b \in acked[k] :
        /\ c # NoLog
        /\ b \in c.data
        /\ b <= c.ver \/ \A x \in Copies(k) : b \in x.data

\* No version runs ahead of the clock, so a batch ingested later is newer
\* than every copy that lacks it.
ClockBound(k) ==
    /\ \A b \in acked[k] : b <= clock
    /\ \A c \in Copies(k) : c.ver <= clock

\* Until a delete of k commits: every copy covers its version, and what the
\* next request finds, or the current one has loaded, is safe.
StreamSafe(k) ==
    ~Committed(k) => /\ \A c \in Copies(k) : Covers(k, c)
                     /\ Safe(k, Current(k))
                     /\ Loading(k) => Safe(k, op.loaded)

StreamsSafe == \A k \in Key : ClockBound(k) /\ StreamSafe(k)

\* The stamp of a flush save is not newer than what it serializes next, and
\* nobody changes the victim of an eviction while it is saved.
SavesBehind ==
    /\ save["flush"].pc = "serialize"
          => save["flush"].ver <= Source("flush").ver
    /\ save["evict"].pc \in {"serialize", "write"}
          => save["evict"].ver = resident[op.victim].ver

\* During shutdown there are no requests; what the flush has finished with
\* and did not fail on is completely durable.
Draining ==
    /\ phase # "up" => NoRequests
    /\ phase = "drain" =>
        /\ \A k \in Key : flush[k] \in {NoLog, Live}
        /\ \A k \in Key \ unsaved : flush[k] = NoLog => Safe(k, stored[k])
        /\ save["flush"].pc \in {"serialize", "write"}
              => save["flush"].ver = resident[save["flush"].key].ver

LossInv == WellFormed /\ StreamsSafe /\ SavesBehind /\ Draining

-----------------------------------------------------------------------------
(* Copies *)

\* The places a batch of a stream can be in, one by one.
LEMMA CopyCases ==
    \A k, c : c \in Copies(k) <=> IsCopy(k, c)
  BY DEF Copies, IsCopy

\* The same places in the next state.
LEMMA CopyCasesPrime ==
    \A k, c : c \in Copies(k)' <=> IsCopy(k, c)'
  BY DEF Copies, IsCopy

\* A copy is a log.
LEMMA CopyIsLog ==
    ASSUME TypeOK, NEW k \in Key, NEW c \in Copies(k)
    PROVE  c \in Log /\ c.data \in SUBSET Nat /\ c.ver \in Nat
<1>1. IsCopy(k, c)
  BY CopyCases
<1>2. c \in Log
  <2>1. CASE c \in {resident[k], stored[k], flush[k]}
    BY <1>1, <2>1 DEF IsCopy, TypeOK
  <2>2. CASE c = op.loaded
    BY <1>1, <2>2 DEF IsCopy, TypeOK, OpState
  <2>3. ASSUME NEW s \in Saver, c = Written(s) PROVE c \in Log
    BY <2>3, LogRecord DEF Written, TypeOK, SaveState
  <2> QED
    BY <1>1, <2>1, <2>2, <2>3 DEF IsCopy
<1> QED
  BY <1>2, Sentinels

\* Every copy of a stream is a log.
LEMMA CopiesAreLogs ==
    TypeOK => \A k \in Key : \A c \in Copies(k) :
                  c \in Log /\ c.data \in SUBSET Nat /\ c.ver \in Nat
  BY CopyIsLog

\* Every copy of a stream in the next state is a log.
LEMMA CopiesAreLogsNext ==
    TypeOK' => (\A k \in Key : \A c \in Copies(k) :
                    c \in Log /\ c.data \in SUBSET Nat /\ c.ver \in Nat)'
  BY CopiesAreLogs, PTL

\* No step makes a copy that claims more, or holds less, than one there was.
Dominated(k) ==
    \A c \in Copies(k)' : \E x \in Copies(k) : x.data \subseteq c.data
                                               /\ c.ver <= x.ver

\* If so, and nothing new is acknowledged, the copies stay in order and what
\* was safe stays safe.
LEMMA Transfer ==
    ASSUME TypeOK, TypeOK', NEW k \in Key, Dominated(k), acked'[k] \subseteq acked[k]
    PROVE  /\ (\A c \in Copies(k) : Covers(k, c))
                  => (\A c \in Copies(k)' : \A b \in acked'[k] : b <= c.ver => b \in c.data)
           /\ \A c : Safe(k, c) => Safe(k, c)'
<1>1. acked[k] \subseteq Nat
  BY DEF TypeOK
<1>2. \A c \in Copies(k) : c.ver \in Nat
  BY CopyIsLog
<1>3. \A c \in Copies(k)' : c.ver \in Nat
  BY CopiesAreLogsNext
<1>4. ASSUME \A c \in Copies(k) : Covers(k, c),
             NEW c \in Copies(k)', NEW b \in acked'[k], b <= c.ver
      PROVE  b \in c.data
  <2>1. PICK x \in Copies(k) : x.data \subseteq c.data /\ c.ver <= x.ver
    BY DEF Dominated
  <2>2. b <= x.ver
    BY <1>1, <1>2, <1>3, <1>4, <2>1
  <2> QED
    BY <1>4, <2>1, <2>2 DEF Covers
<1>5. ASSUME NEW c, Safe(k, c) PROVE Safe(k, c)'
  <2> SUFFICES ASSUME NEW b \in acked'[k]
               PROVE  /\ c # NoLog /\ b \in c.data
                      /\ b <= c.ver \/ \A x \in Copies(k)' : b \in x.data
    BY DEF Safe
  <2>1. c # NoLog /\ b \in c.data /\ (b <= c.ver \/ \A x \in Copies(k) : b \in x.data)
    BY <1>5 DEF Safe
  <2>2. (\A x \in Copies(k) : b \in x.data) => \A x \in Copies(k)' : b \in x.data
    BY DEF Dominated
  <2> QED
    BY <2>1, <2>2
<1> QED
  BY <1>4, <1>5

\* With nothing acknowledged there is nothing to lose.
LEMMA NothingAcked ==
    ASSUME NEW k \in Key, acked'[k] = {} PROVE StreamSafe(k)'
  BY DEF StreamSafe, Covers, Safe

\* A stream to which nothing is added in the step.
LEMMA QuietStream ==
    ASSUME TypeOK, TypeOK', NEW k \in Key, ClockBound(k), StreamSafe(k),
           Dominated(k), clock <= clock', acked'[k] \subseteq acked[k],
           Committed(k) => Committed(k)' \/ acked'[k] = {},
           ~Committed(k) /\ ~Committed(k)' /\ acked'[k] # {}
               => /\ Safe(k, Current(k)')
                  /\ Loading(k)' => Safe(k, op'.loaded)
    PROVE  ClockBound(k)' /\ StreamSafe(k)'
<1>1. ClockBound(k)'
  <2>1. \A b \in acked'[k] : b <= clock'
    BY DEF ClockBound, TypeOK
  <2>2. \A c \in Copies(k)' : c.ver <= clock'
    <3> SUFFICES ASSUME NEW c \in Copies(k)' PROVE c.ver <= clock'
      OBVIOUS
    <3>1. PICK x \in Copies(k) : c.ver <= x.ver
      BY DEF Dominated
    <3>2. x.ver <= clock /\ x.ver \in Nat /\ c.ver \in Nat
      BY CopiesAreLogs, CopiesAreLogsNext DEF ClockBound
    <3> QED
      BY <3>1, <3>2 DEF TypeOK
  <2> QED
    BY <2>1, <2>2 DEF ClockBound
<1>2. CASE Committed(k)'
  BY <1>1, <1>2 DEF StreamSafe
<1>3. CASE acked'[k] = {}
  BY <1>1, <1>3, NothingAcked
<1>4. CASE ~Committed(k) /\ ~Committed(k)' /\ acked'[k] # {}
  <2>1. \A c \in Copies(k)' : \A b \in acked'[k] : b <= c.ver => b \in c.data
    BY <1>4, Transfer DEF StreamSafe
  <2>2. \A c : Safe(k, c) => Safe(k, c)'
    BY Transfer
  <2>3. Safe(k, Current(k))'
    BY <1>4, <2>2
  <2>4. Loading(k)' => Safe(k, op.loaded)'
    BY <1>4, <2>2
  <2> QED
    BY <1>1, <2>1, <2>3, <2>4 DEF StreamSafe, Covers
<1> QED
  BY <1>1, <1>2, <1>3, <1>4

\* A stream to which the batch of the new clock value is added.
LEMMA GrowingStream ==
    ASSUME TypeOK, TypeOK', NEW k \in Key, ClockBound(k), StreamSafe(k),
           NEW base, NEW new,
           clock' = clock + 1, acked'[k] = acked[k] \union {clock + 1},
           resident'[k] = new, new # NoLog, ~Loading(k)',
           new.ver = clock + 1, clock + 1 \in new.data,
           base # NoLog => base.data \subseteq new.data,
           ~Committed(k) => Safe(k, base),
           Committed(k) => Committed(k)',
           \A c \in Copies(k)' : c = new \/ c \in Copies(k)
    PROVE  ClockBound(k)' /\ StreamSafe(k)'
<1>1. /\ clock \in Nat
      /\ \A b \in acked[k] : b \in Nat /\ b <= clock
      /\ \A c \in Copies(k) : c.ver \in Nat /\ c.ver <= clock
  BY CopiesAreLogs DEF ClockBound, TypeOK
<1>2. ClockBound(k)'
  BY <1>1 DEF ClockBound
<1>3. CASE Committed(k)
  BY <1>2, <1>3 DEF StreamSafe
<1>4. CASE ~Committed(k)
  <2>1. \A b \in acked[k] : b \in new.data
    BY <1>4 DEF Safe
  <2>2. ASSUME NEW c \in Copies(k)' PROVE Covers(k, c)'
    <3>1. CASE c = new
      BY <2>1, <3>1 DEF Covers
    <3>2. CASE c \in Copies(k)
      <4>1. Covers(k, c)
        BY <1>4, <3>2 DEF StreamSafe
      <4>2. ~(clock + 1 <= c.ver)
        BY <1>1, <3>2
      <4> QED
        BY <4>1, <4>2 DEF Covers
    <3> QED
      BY <3>1, <3>2
  <2>3. Safe(k, new)'
    <3> SUFFICES ASSUME NEW b \in acked'[k] PROVE b \in new.data /\ b <= new.ver
      BY DEF Safe
    <3> QED
      BY <1>1, <2>1
  <2>4. Current(k)' = new
    BY DEF Current
  <2>5. Safe(k, Current(k))'
    BY <2>3, <2>4
  <2> QED
    BY <1>2, <2>2, <2>5 DEF StreamSafe
<1> QED
  BY <1>3, <1>4

-----------------------------------------------------------------------------
(* The invariant is inductive *)

\* Start-up has acknowledged nothing, so nothing is lost.
LEMMA LossInit == Init => LossInv
  BY WellFormedInit
     DEF Init, LossInv, StreamsSafe, ClockBound, StreamSafe, Copies, IsCopy,
         Loading, Writing, Covers, Safe, SavesBehind, Draining, NoRequests,
         IdleOp, IdleSave, IdleDel, Saver

\* Steps that leave the streams, the saves and the requests' keys alone.
LEMMA SameCopies ==
    ASSUME NEW k \in Key, UNCHANGED <<resident, stored, flush, op, save>>
    PROVE  Copies(k)' = Copies(k) /\ Current(k)' = Current(k)
           /\ (Loading(k)' <=> Loading(k))
  BY DEF Copies, IsCopy, Loading, Writing, Written, Current

\* A step that adds no copy leaves every copy dominated by an old one.
LEMMA FewerCopies ==
    ASSUME TypeOK, NEW k \in Key, Copies(k)' \subseteq Copies(k)
    PROVE  Dominated(k)
  BY CopiesAreLogs DEF Dominated

\* A copy that is not older than a safe one is safe.
LEMMA SafeNewer ==
    ASSUME TypeOK, NEW k \in Key, ~Committed(k), StreamSafe(k),
           NEW base \in Log \union {NoLog}, Safe(k, base), NEW x \in Copies(k),
           base # NoLog => base.ver <= x.ver
    PROVE  Safe(k, x)
<1> SUFFICES ASSUME NEW b \in acked[k]
             PROVE  /\ x # NoLog /\ b \in x.data
                    /\ b <= x.ver \/ \A y \in Copies(k) : b \in y.data
  BY DEF Safe
<1>1. /\ base # NoLog
      /\ b <= base.ver \/ \A y \in Copies(k) : b \in y.data
  BY DEF Safe
<1>2. x \in Log /\ x.ver \in Nat /\ base.ver \in Nat /\ b \in Nat
  BY <1>1, CopiesAreLogs, Sentinels DEF TypeOK
<1>3. b <= base.ver => b <= x.ver /\ b \in x.data
  BY <1>1, <1>2 DEF StreamSafe, Covers
<1> QED
  BY <1>1, <1>2, <1>3, Sentinels

\* The row a save of k leaves is at least as new as the base it improves on.
LEMMA UpsertSafe ==
    ASSUME TypeOK, NEW s \in Saver, NEW k \in Key, Writing(s, k),
           ~Committed(k), StreamSafe(k),
           NEW base \in Log \union {NoLog}, Safe(k, base),
           \/ base = stored[k]
           \/ base # NoLog /\ base.ver = save[s].ver
    PROVE  Safe(k, Upsert(s)[k])
<1>1. /\ Written(s) \in Copies(k) /\ Written(s) \in Log
      /\ Written(s).ver = save[s].ver /\ save[s].ver \in Nat
  <2>1. save[s].payload \in SUBSET Nat /\ save[s].ver \in Nat
    BY DEF TypeOK, SaveState
  <2>2. Written(s) \in Log /\ Written(s).ver = save[s].ver
    BY <2>1, LogRecord DEF Written
  <2> QED
    BY <2>1, <2>2, Sentinels, CopyCases DEF IsCopy
<1>2. stored[k] \in Log \union {NoLog}
  BY DEF TypeOK
<1>3. CASE stored[k] = NoLog \/ stored[k].ver < save[s].ver
  <2>1. Upsert(s)[k] = Written(s)
    BY <1>3 DEF Upsert, Written, Writing, TypeOK
  <2>2. base # NoLog => base.ver <= Written(s).ver
    BY <1>1, <1>2, <1>3, Sentinels
  <2> QED
    BY <1>1, <2>1, <2>2, SafeNewer
<1>4. CASE ~(stored[k] = NoLog \/ stored[k].ver < save[s].ver)
  <2>1. Upsert(s)[k] = stored[k]
    BY <1>4 DEF Upsert, Writing, TypeOK
  <2>2. stored[k] \in Copies(k)
    BY <1>2, <1>4, Sentinels, CopyCases DEF IsCopy
  <2>3. base # NoLog => base.ver <= stored[k].ver
    BY <1>1, <1>2, <1>4, Sentinels
  <2> QED
    BY <2>1, <2>2, <2>3, SafeNewer
<1> QED
  BY <1>3, <1>4

\* After a crash or a shutdown only the durable row is left.
LEMMA OnlyDurable ==
    ASSUME TypeOK, NEW k \in Key, Forget, ClockBound(k),
           acked'[k] \subseteq acked[k], acked'[k] \subseteq DataOf(stored[k])
    PROVE  ClockBound(k)' /\ StreamSafe(k)'
<1>1. /\ stored'[k] = stored[k] /\ resident'[k] = NoLog /\ clock' = clock
      /\ ~Loading(k)'
  BY DEF Forget, IdleOp, Loading
<1>2. ASSUME NEW c \in Copies(k)' PROVE c = stored[k] /\ c # NoLog /\ c \in Copies(k)
  BY <1>1, <1>2, CopyCases, CopyCasesPrime
     DEF IsCopy, Forget, IdleSave, Writing
<1>3. ClockBound(k)'
  BY <1>1, <1>2 DEF ClockBound
<1>4. \A b \in acked'[k] : stored[k] # NoLog /\ b \in stored[k].data
  BY DEF DataOf
<1>5. \A c \in Copies(k)' : Covers(k, c)'
  BY <1>2, <1>4 DEF Covers
<1>6. Current(k)' = stored[k]
  BY <1>1 DEF Current
<1>7. Safe(k, Current(k))'
  BY <1>2, <1>4, <1>6 DEF Safe
<1> QED
  BY <1>1, <1>3, <1>5, <1>7 DEF StreamSafe

\* The stream that a request inserts, with the copies of it that the same
\* step may drop.
LEMMA InsertSafe ==
    ASSUME TypeOK, TypeOK', OpRefs, NEW k \in Key, op.key = k, Loading(k),
           ClockBound(k), StreamSafe(k),
           NEW res \in [Key -> Log \union {NoLog}], Insert(res),
           stored'[k] = stored[k], flush'[k] = flush[k], UNCHANGED del,
           \A s \in Saver : Writing(s, k)' => Writing(s, k) /\ Written(s)' = Written(s)
    PROVE  ClockBound(k)' /\ StreamSafe(k)'
<1>1. op' = IdleOp /\ ~Loading(k)'
  BY DEF Insert, Loading, IdleOp
<1>2. Committed(k)' <=> Committed(k)
  BY DEF Committed
<1>3. resident[k] = NoLog /\ op.loaded \in Log \union {NoLog} /\ clock \in Nat
  BY DEF OpRefs, Loading, TypeOK, OpState
<1>4. \A c \in Copies(k)' : c = resident'[k] \/ c \in Copies(k)
  BY <1>1, CopyCases, CopyCasesPrime DEF IsCopy
<1>5. CASE op.kind = "ingest"
  <2> DEFINE new == [data |-> DataOf(op.loaded) \union {clock + 1}, ver |-> clock + 1]
  <2>1. /\ resident'[k] = new /\ clock' = clock + 1
        /\ acked'[k] = acked[k] \union {clock + 1}
    BY <1>5 DEF Insert, TypeOK
  <2>2. /\ new.ver = clock + 1 /\ clock + 1 \in new.data
        /\ op.loaded # NoLog => op.loaded.data \subseteq new.data
    BY DEF DataOf
  <2>3. DataOf(op.loaded) \in SUBSET Nat
    BY <1>3, Sentinels DEF DataOf
  <2>4. new \in Log /\ new # NoLog
    BY <1>3, <2>3, LogExtend, Sentinels
  <2> HIDE DEF new
  <2>5. ~Committed(k) => Safe(k, op.loaded)
    BY DEF StreamSafe
  <2> QED
    BY <1>1, <1>2, <1>4, <2>1, <2>2, <2>4, <2>5, GrowingStream
<1>6. CASE op.kind # "ingest"
  <2>1. resident'[k] = op.loaded /\ clock' = clock /\ acked'[k] = acked[k]
    BY <1>6 DEF Insert, TypeOK
  <2>2. Copies(k)' \subseteq Copies(k)
    <3> SUFFICES ASSUME NEW c \in Copies(k)' PROVE c \in Copies(k)
      OBVIOUS
    <3>1. c \notin {NoLog, Live}
      BY CopyCasesPrime DEF IsCopy
    <3> QED
      BY <1>4, <2>1, <3>1, CopyCases DEF IsCopy
  <2>3. Current(k)' = IF op.loaded # NoLog THEN op.loaded ELSE Current(k)
    BY <1>3, <2>1 DEF Current
  <2> QED
    BY <1>1, <1>2, <1>3, <2>1, <2>2, <2>3, QuietStream, FewerCopies DEF StreamSafe
<1> QED
  BY <1>5, <1>6

\* A DELETE that removes the resident object of its key.
LEMMA UnlinkSafe ==
    ASSUME TypeOK, TypeOK', NEW k \in Key, ClockBound(k), StreamSafe(k),
           NEW d \in Deleter, NEW j \in Key, Unlink(d, j),
           \A i \in Key \ {j} : stored'[i] = stored[i],
           stored'[j] \in {stored[j], NoLog}, UNCHANGED <<clock, op, save>>,
           j # k => (Committed(k)' <=> Committed(k))
    PROVE  ClockBound(k)' /\ StreamSafe(k)'
<1>1. /\ resident' = [resident EXCEPT ![j] = NoLog]
      /\ flush' = Freeze(j)
      /\ acked' = [acked EXCEPT ![j] = {}]
  BY DEF Unlink
<1>2. /\ resident'[k] \in {resident[k], NoLog} /\ stored'[k] \in {stored[k], NoLog}
      /\ flush'[k] \in {flush[k], resident[k]}
      /\ j # k => resident'[k] = resident[k] /\ acked'[k] = acked[k]
      /\ j = k => acked'[k] = {}
  BY <1>1 DEF TypeOK, Freeze
<1>3. Copies(k)' \subseteq Copies(k) /\ (Loading(k)' <=> Loading(k))
  BY <1>2, CopyCases, CopyCasesPrime DEF IsCopy, Loading, Writing, Written
<1>4. j # k => Current(k)' = Current(k)
  BY <1>2 DEF Current
<1> QED
  BY <1>2, <1>3, <1>4, QuietStream, FewerCopies DEF StreamSafe, TypeOK

\* StreamsSafe, action by action.
LEMMA StreamsStep ==
    ASSUME Backend = "omnikv", LossInv, WellFormed', [Next]_vars,
           NEW k \in Key
    PROVE  ClockBound(k)' /\ StreamSafe(k)'
<1> USE DEF LossInv, WellFormed
<1>0. /\ TypeOK /\ TypeOK' /\ ClockBound(k) /\ StreamSafe(k)
      /\ OpRefs /\ FlushRefs /\ DelRefs
  BY DEF StreamsSafe
<1>1. ASSUME NEW j \in Key, IngestResident(j)
      PROVE  ClockBound(k)' /\ StreamSafe(k)'
  <2> DEFINE new == [data |-> resident[j].data \union {clock + 1}, ver |-> clock + 1]
  <2>1. /\ resident[j] # NoLog /\ op.pc = "idle" /\ op' = op
        /\ resident' = [resident EXCEPT ![j] = new]
        /\ clock' = clock + 1 /\ clock \in Nat
        /\ acked' = [acked EXCEPT ![j] = @ \union {clock + 1}]
        /\ UNCHANGED <<stored, flush, save, del>>
    BY <1>0, <1>1 DEF IngestResident, TypeOK
  <2>2. /\ new.ver = clock + 1 /\ clock + 1 \in new.data
        /\ resident[j].data \subseteq new.data /\ new \in Log
    BY <1>0, <2>1, LogExtend, Sentinels DEF TypeOK
  <2> HIDE DEF new
  <2>3. Committed(k)' <=> Committed(k)
    BY <2>1 DEF Committed
  <2>4. ~Loading(k) /\ ~Loading(k)'
    BY <2>1 DEF Loading
  <2>5. CASE k = j
    <3>1. \A c \in Copies(k)' : c = new \/ c \in Copies(k)
      BY <1>0, <2>1, <2>4, <2>5, CopyCases, CopyCasesPrime
         DEF IsCopy, Writing, Written, TypeOK
    <3>2. resident'[k] = new /\ new # NoLog /\ acked'[k] = acked[k] \union {clock + 1}
      BY <1>0, <2>1, <2>2, <2>5, Sentinels DEF TypeOK
    <3>3. ~Committed(k) => Safe(k, resident[k])
      BY <1>0, <2>1, <2>5 DEF StreamSafe, Current
    <3> QED
      BY <1>0, <2>1, <2>2, <2>3, <2>4, <2>5, <3>1, <3>2, <3>3, GrowingStream
  <2>6. CASE k # j
    <3>1. Copies(k)' \subseteq Copies(k)
      BY <1>0, <2>1, <2>4, <2>6, CopyCases, CopyCasesPrime
         DEF IsCopy, Writing, Written, TypeOK
    <3>2. Current(k)' = Current(k) /\ acked'[k] = acked[k]
      BY <1>0, <2>1, <2>6 DEF Current, TypeOK
    <3> QED
      BY <1>0, <2>1, <2>3, <2>4, <3>1, <3>2, QuietStream, FewerCopies DEF StreamSafe
  <2> QED
    BY <2>5, <2>6
<1>2. ASSUME NEW kind \in {"ingest", "get"}, NEW j \in Key, OpStart(kind, j)
      PROVE  ClockBound(k)' /\ StreamSafe(k)'
  <2>1. Copies(k)' \subseteq Copies(k)
    BY <1>2 DEF OpStart, IdleOp, Copies, IsCopy, Loading, Writing, Written
  <2> QED
    BY <1>0, <1>2, <2>1, QuietStream, FewerCopies
       DEF OpStart, IdleOp, Current, Loading, Committed, StreamSafe, TypeOK
<1>3. CASE OpLoad
  <2>1. Copies(k)' \subseteq Copies(k)
    BY <1>3 DEF OpLoad, IdleOp, Copies, IsCopy, Loading, Writing, Written
  <2> QED
    BY <1>0, <1>3, <2>1, QuietStream, FewerCopies
       DEF OpLoad, IdleOp, Current, Loading, Committed, StreamSafe, TypeOK, OpState, OpRefs
<1>4. CASE OpLoadFail
  <2>1. Copies(k)' \subseteq Copies(k)
    BY <1>4 DEF OpLoadFail, IdleOp, Copies, IsCopy, Loading, Writing, Written
  <2> QED
    BY <1>0, <1>4, <2>1, QuietStream, FewerCopies
       DEF OpLoadFail, IdleOp, Current, Loading, Committed, StreamSafe, TypeOK
<1>5. CASE OpInsert
  <2>1. /\ op.pc = "loaded" /\ Insert(resident) /\ resident \in [Key -> Log \union {NoLog}]
        /\ UNCHANGED <<stored, flush, save, del>>
    BY <1>0, <1>5 DEF OpInsert, TypeOK
  <2>2. CASE k = op.key
    <3>1. Loading(k) /\ \A s \in Saver : Writing(s, k)' => Writing(s, k) /\ Written(s)' = Written(s)
      BY <2>1, <2>2 DEF Loading, Writing, Written
    <3> QED
      BY <1>0, <2>1, <2>2, <3>1, InsertSafe
  <2>3. CASE k # op.key
    <3>1. /\ resident'[k] = resident[k] /\ acked'[k] = acked[k]
          /\ clock' \in Nat /\ clock <= clock' /\ ~Loading(k)'
      BY <1>0, <2>1, <2>3 DEF Insert, TypeOK, Loading, IdleOp
    <3>2. Copies(k)' \subseteq Copies(k) /\ Current(k)' = Current(k)
      BY <2>1, <3>1, CopyCases, CopyCasesPrime DEF IsCopy, Writing, Written, Current
    <3> QED
      BY <1>0, <2>1, <3>1, <3>2, QuietStream, FewerCopies DEF StreamSafe, Committed
  <2> QED
    BY <2>2, <2>3
<1>6. CASE OpPickVictim
  <2>1. PICK v : /\ op' = [op EXCEPT !.pc = "save", !.victim = v]
                 /\ save' = StartSave("evict", v)
    BY <1>6 DEF OpPickVictim
  <2>2. /\ op.pc = "loaded" /\ op'.key = op.key /\ op'.loaded = op.loaded
        /\ UNCHANGED <<resident, stored, clock, flush, del, acked>>
    BY <1>0, <1>6, <2>1 DEF OpPickVictim, TypeOK, OpState
  <2>3. \A s \in Saver : Writing(s, k)' => Writing(s, k) /\ Written(s)' = Written(s)
    BY <1>0, <2>1 DEF StartSave, FirstRead, Writing, Written, TypeOK
  <2>4. Loading(k)' => Loading(k)
    BY <2>2 DEF Loading
  <2>5. Copies(k)' \subseteq Copies(k) /\ Current(k)' = Current(k)
    BY <2>2, <2>3, <2>4, CopyCases, CopyCasesPrime DEF IsCopy, Current
  <2> QED
    BY <1>0, <2>2, <2>4, <2>5, QuietStream, FewerCopies
       DEF StreamSafe, Committed, TypeOK
<1>7. CASE OpEvict
  <2> DEFINE v == op.victim
             res == [resident EXCEPT ![v] = NoLog]
  <2>1. /\ op.pc = "save" /\ Insert(res) /\ res \in [Key -> Log \union {NoLog}]
        /\ stored' = Upsert("evict") /\ flush' = Freeze(v)
        /\ save' = [save EXCEPT !["evict"] = IdleSave]
        /\ save["evict"].pc = "write"
        /\ UNCHANGED del
    BY <1>0, <1>7 DEF OpEvict, TypeOK
  <2>2. /\ v \in Key /\ resident[v] # NoLog /\ save["evict"].key = v
        /\ op.key \in Key /\ op.key # v
    BY <1>0, <2>1 DEF OpRefs
  <2>3. \A s \in Saver : Writing(s, k)' => Writing(s, k) /\ Written(s)' = Written(s)
    BY <1>0, <2>1 DEF IdleSave, Writing, Written, TypeOK
  <2>4. \A j \in Key \ {v} : stored'[j] = stored[j] /\ flush'[j] = flush[j]
    BY <1>0, <2>1, <2>2 DEF Upsert, Freeze, TypeOK
  <2>5. CASE k = op.key
    <3>1. Loading(k)
      BY <2>1, <2>5 DEF Loading
    <3> HIDE DEF res
    <3> QED
      BY <1>0, <2>1, <2>2, <2>3, <2>4, <2>5, <3>1, InsertSafe
  <2>6. CASE k # op.key
    <3>1. /\ resident'[k] = res[k] /\ acked'[k] = acked[k]
          /\ clock' \in Nat /\ clock <= clock' /\ ~Loading(k)'
      BY <1>0, <2>1, <2>6 DEF Insert, TypeOK, Loading, IdleOp
    <3>2. CASE k # v
      <4>1. resident'[k] = resident[k] /\ stored'[k] = stored[k] /\ flush'[k] = flush[k]
        BY <2>4, <3>1, <3>2
      <4>2. Copies(k)' \subseteq Copies(k) /\ Current(k)' = Current(k)
        BY <2>3, <3>1, <4>1, CopyCases, CopyCasesPrime DEF IsCopy, Current
      <4> QED
        BY <1>0, <2>1, <3>1, <4>2, QuietStream, FewerCopies DEF StreamSafe, Committed
    <3>3. CASE k = v
      <4>1. /\ resident'[k] = NoLog
            /\ stored'[k] \in {stored[k], Written("evict")}
            /\ flush'[k] \in {flush[k], resident[k]}
            /\ Writing("evict", k) /\ "evict" \in Saver
        BY <1>0, <2>1, <2>2, <3>1, <3>3
           DEF Upsert, Freeze, Written, Writing, TypeOK, Saver
      <4>2. Copies(k)' \subseteq Copies(k)
        BY <2>3, <3>1, <4>1, CopyCases, CopyCasesPrime DEF IsCopy
      <4>3. ~Committed(k) => Safe(k, resident[k])
        BY <1>0, <2>2, <3>3 DEF StreamSafe, Current
      <4>4. resident[k].ver = save["evict"].ver /\ resident[k] \in Log \union {NoLog}
        BY <1>0, <2>1, <3>3 DEF SavesBehind, TypeOK
      <4>5. ~Committed(k) => Safe(k, stored'[k])
        BY <1>0, <2>1, <2>2, <3>3, <4>1, <4>3, <4>4, UpsertSafe
      <4>6. Current(k)' = stored'[k]
        BY <4>1 DEF Current
      <4> QED
        BY <1>0, <2>1, <3>1, <4>2, <4>5, <4>6, QuietStream, FewerCopies DEF Committed
    <3> QED
      BY <3>2, <3>3
  <2> QED
    BY <2>5, <2>6
<1>8. CASE OpEvictFail
  <2>1. /\ op' = IdleOp /\ save' = [save EXCEPT !["evict"] = IdleSave]
        /\ UNCHANGED <<resident, stored, clock, flush, del, acked>>
    BY <1>8 DEF OpEvictFail
  <2>2. \A s \in Saver : Writing(s, k)' => Writing(s, k) /\ Written(s)' = Written(s)
    BY <1>0, <2>1 DEF IdleSave, Writing, Written, TypeOK
  <2>3. ~Loading(k)'
    BY <2>1 DEF Loading, IdleOp
  <2>4. Copies(k)' \subseteq Copies(k) /\ Current(k)' = Current(k)
    BY <2>1, <2>2, <2>3, CopyCases, CopyCasesPrime DEF IsCopy, Current
  <2> QED
    BY <1>0, <2>1, <2>3, <2>4, QuietStream, FewerCopies DEF StreamSafe, Committed, TypeOK
<1>9. ASSUME NEW s \in Saver, Serialize(s)
      PROVE  ClockBound(k)' /\ StreamSafe(k)'
  <2>1. /\ save[s].pc = "serialize"
        /\ save' = [save EXCEPT ![s].pc = "write", ![s].payload = Source(s).data]
        /\ UNCHANGED <<resident, stored, clock, op, flush, del, acked>>
    BY <1>9 DEF Serialize, AfterSerialize
  <2>2. Loading(k)' <=> Loading(k)
    BY <2>1 DEF Loading
  <2>3. Current(k)' = Current(k)
    BY <2>1 DEF Current
  <2>4. /\ \A r \in Saver \ {s} : save'[r] = save[r]
        /\ save'[s].key = save[s].key /\ save'[s].ver = save[s].ver
        /\ save'[s].payload = Source(s).data
    BY <1>0, <2>1 DEF TypeOK, SaveState
  <2>5. save[s].key = k => /\ Source(s) \in Copies(k)
                           /\ save[s].ver <= Source(s).ver
    <3> SUFFICES ASSUME save[s].key = k
                 PROVE  Source(s) \in Copies(k) /\ save[s].ver <= Source(s).ver
      OBVIOUS
    <3>1. CASE s = "flush"
      <4>1. Source(s) \in {flush[k], resident[k]} /\ Source(s) \notin {NoLog, Live}
        BY <1>0, <2>1, <3>1, Sentinels DEF Source, FlushRefs, TypeOK
      <4> QED
        BY <2>1, <3>1, <4>1, CopyCases DEF IsCopy, SavesBehind
    <3>2. CASE s = "evict"
      <4>1. op.pc = "save" /\ op.victim = k /\ resident[k] # NoLog
        BY <1>0, <2>1, <3>2 DEF OpRefs
      <4>2. Source(s) = resident[k] /\ resident[k] \in Log
        BY <1>0, <3>2, <4>1 DEF Source, TypeOK
      <4>3. save[s].ver = resident[k].ver /\ resident[k].ver \in Nat
        BY <2>1, <3>2, <4>1, <4>2, Sentinels DEF SavesBehind
      <4> QED
        BY <4>2, <4>3, Sentinels, CopyCases DEF IsCopy
    <3> QED
      BY <3>1, <3>2 DEF Saver
  <2>6. Dominated(k)
    <3> SUFFICES ASSUME NEW c \in Copies(k)'
                 PROVE  \E x \in Copies(k) : x.data \subseteq c.data /\ c.ver <= x.ver
      BY DEF Dominated
    <3>1. CASE c \in Copies(k)
      BY <1>0, <3>1, CopiesAreLogs
    <3>2. CASE c \notin Copies(k)
      <4>1. save[s].key = k /\ c = Written(s)'
        <5>1. IsCopy(k, c)' /\ ~IsCopy(k, c)
          BY <3>2, CopyCases, CopyCasesPrime
        <5>2. PICK r \in Saver : Writing(r, k)' /\ c = Written(r)'
          BY <2>1, <2>2, <5>1 DEF IsCopy
        <5>3. r = s
          BY <2>4, <5>1, <5>2 DEF IsCopy, Writing, Written
        <5> QED
          BY <2>4, <5>2, <5>3 DEF Writing
      <4>2. c.data = Source(s).data /\ c.ver = save[s].ver
        BY <2>4, <4>1 DEF Written
      <4> QED
        BY <2>5, <4>1, <4>2
    <3> QED
      BY <3>1, <3>2
  <2> QED
    BY <1>0, <2>1, <2>2, <2>3, <2>6, QuietStream DEF StreamSafe, Committed, TypeOK
<1>10. ASSUME NEW s \in Saver, Stamp(s)
       PROVE  ClockBound(k)' /\ StreamSafe(k)'
  <2>1. /\ save' = [save EXCEPT ![s].pc = "serialize", ![s].ver = Source(s).ver]
        /\ UNCHANGED <<resident, stored, clock, op, flush, del, acked>>
    BY <1>10 DEF Stamp, AfterStamp
  <2>2. \A r \in Saver : Writing(r, k)' => Writing(r, k) /\ Written(r)' = Written(r)
    BY <1>0, <2>1 DEF Writing, Written, TypeOK, SaveState
  <2>3. Copies(k)' \subseteq Copies(k) /\ Current(k)' = Current(k)
        /\ (Loading(k)' <=> Loading(k))
    BY <2>1, <2>2, CopyCases, CopyCasesPrime DEF IsCopy, Current, Loading
  <2> QED
    BY <1>0, <2>1, <2>3, QuietStream, FewerCopies, SMTT(60) DEF StreamSafe, Committed, TypeOK
<1>11. CASE FlushStart
  <2>1. /\ flush'[k] \in {NoLog, Live}
        /\ UNCHANGED <<resident, stored, clock, op, save, del, acked>>
    BY <1>11 DEF FlushStart, AllLive
  <2>2. Copies(k)' \subseteq Copies(k) /\ Current(k)' = Current(k)
        /\ (Loading(k)' <=> Loading(k))
    BY <2>1, CopyCases, CopyCasesPrime DEF IsCopy, Current, Loading, Writing, Written
  <2> QED
    BY <1>0, <2>1, <2>2, QuietStream, FewerCopies DEF StreamSafe, Committed, TypeOK
<1>12. ASSUME NEW j \in Key, FlushNext(j)
       PROVE  ClockBound(k)' /\ StreamSafe(k)'
  <2>1. /\ save' = StartSave("flush", j)
        /\ UNCHANGED <<resident, stored, clock, op, flush, del, acked>>
    BY <1>12 DEF FlushNext
  <2>2. \A r \in Saver : Writing(r, k)' => Writing(r, k) /\ Written(r)' = Written(r)
    BY <1>0, <2>1 DEF Writing, Written, TypeOK, StartSave, FirstRead
  <2>3. Copies(k)' \subseteq Copies(k) /\ Current(k)' = Current(k)
        /\ (Loading(k)' <=> Loading(k))
    BY <2>1, <2>2, CopyCases, CopyCasesPrime DEF IsCopy, Current, Loading
  <2> QED
    BY <1>0, <2>1, <2>3, QuietStream, FewerCopies DEF StreamSafe, Committed, TypeOK
<1>13. CASE FlushWrite
  <2>1. /\ save["flush"].pc = "write" /\ stored' = Upsert("flush")
        /\ flush' = [flush EXCEPT ![save["flush"].key] = NoLog]
        /\ save' = [save EXCEPT !["flush"] = IdleSave]
        /\ UNCHANGED <<resident, clock, op, del, acked>>
    BY <1>13 DEF FlushWrite
  <2>2. \A r \in Saver : Writing(r, k)' => Writing(r, k) /\ Written(r)' = Written(r)
    BY <1>0, <2>1 DEF Writing, Written, TypeOK, IdleSave
  <2>3. /\ flush'[k] \in {NoLog, flush[k]}
        /\ \/ stored'[k] = stored[k]
           \/ Writing("flush", k) /\ stored'[k] = Written("flush")
        /\ "flush" \in Saver
    BY <1>0, <2>1 DEF TypeOK, Upsert, Writing, Written, Saver
  <2>4. Copies(k)' \subseteq Copies(k) /\ (Loading(k)' <=> Loading(k))
    BY <2>1, <2>2, <2>3, CopyCases, CopyCasesPrime DEF IsCopy, Loading
  <2>5. ~Committed(k) => Safe(k, Current(k)')
    <3> SUFFICES ASSUME ~Committed(k) PROVE Safe(k, Current(k)')
      OBVIOUS
    <3>1. CASE resident[k] # NoLog \/ stored'[k] = stored[k]
      <4>1. Current(k)' = Current(k)
        BY <2>1, <3>1 DEF Current
      <4> QED
        BY <1>0, <4>1 DEF StreamSafe
    <3>2. CASE resident[k] = NoLog /\ Writing("flush", k)
      <4>1. Safe(k, stored[k]) /\ stored[k] \in Log \union {NoLog}
        BY <1>0, <3>2 DEF StreamSafe, Current, TypeOK
      <4>2. Current(k)' = stored'[k]
        BY <2>1, <3>2 DEF Current
      <4>3. Safe(k, Upsert("flush")[k])
        BY <1>0, <2>3, <3>2, <4>1, UpsertSafe
      <4> QED
        BY <2>1, <4>2, <4>3
    <3> QED
      BY <2>3, <3>1, <3>2
  <2>6. Dominated(k)
    BY <1>0, <2>4, FewerCopies
  <2>7. /\ clock \in Nat /\ clock <= clock' /\ acked' = acked
        /\ Committed(k)' <=> Committed(k)
    BY <1>0, <2>1 DEF Committed, TypeOK
  <2>8. ~Committed(k) /\ Loading(k)' => Safe(k, op'.loaded)
    BY <1>0, <2>1, <2>4 DEF StreamSafe
  <2> QED
    BY <1>0, <2>5, <2>6, <2>7, <2>8, QuietStream
<1>14. CASE FlushFail
  <2>1. /\ flush' = [flush EXCEPT ![save["flush"].key] = NoLog]
        /\ save' = [save EXCEPT !["flush"] = IdleSave]
        /\ UNCHANGED <<resident, stored, clock, op, del, acked>>
    BY <1>14 DEF FlushFail
  <2>2. \A r \in Saver : Writing(r, k)' => Writing(r, k) /\ Written(r)' = Written(r)
    BY <1>0, <2>1 DEF Writing, Written, TypeOK, IdleSave
  <2>3. flush'[k] \in {NoLog, flush[k]}
    BY <1>0, <2>1 DEF TypeOK
  <2>4. Copies(k)' \subseteq Copies(k) /\ Current(k)' = Current(k)
        /\ (Loading(k)' <=> Loading(k))
    BY <2>1, <2>2, <2>3, CopyCases, CopyCasesPrime DEF IsCopy, Current, Loading
  <2> QED
    BY <1>0, <2>1, <2>4, QuietStream, FewerCopies DEF StreamSafe, Committed, TypeOK
<1>15. ASSUME NEW d \in Deleter, NEW j \in Key, DeleteRequest(d, j)
       PROVE  ClockBound(k)' /\ StreamSafe(k)'
  <2>1. UNCHANGED <<resident, stored, clock, op, save, flush, acked>>
    BY <1>15 DEF DeleteRequest
  <2>2. Committed(k)' <=> Committed(k)
    BY <1>0, <1>15 DEF DeleteRequest, IdleDel, Committed, TypeOK
  <2> QED
    BY <1>0, <2>1, <2>2, SameCopies, QuietStream, FewerCopies DEF StreamSafe, TypeOK
<1>16. ASSUME NEW d \in Deleter, DeleteCommit(d)
       PROVE  ClockBound(k)' /\ StreamSafe(k)'
  <2>1. /\ del[d].pc = "waiting" /\ del[d].key \in Key
        /\ stored' = [stored EXCEPT ![del[d].key] = NoLog]
        /\ Unlink(d, del[d].key) /\ UNCHANGED <<clock, op, save>>
    BY <1>0, <1>16 DEF DeleteCommit, DelRefs
  <2>2. Committed(k)' <=> Committed(k)
    BY <1>0, <2>1 DEF Unlink, IdleDel, Committed, TypeOK
  <2> QED
    BY <1>0, <2>1, <2>2, UnlinkSafe DEF TypeOK
<1>17. ASSUME NEW d \in Deleter, DeleteFail(d)
       PROVE  ClockBound(k)' /\ StreamSafe(k)'
  <2>1. UNCHANGED <<resident, stored, clock, op, save, flush, acked>>
    BY <1>17 DEF DeleteFail
  <2>2. Committed(k)' <=> Committed(k)
    BY <1>0, <1>17 DEF DeleteFail, IdleDel, Committed, TypeOK
  <2> QED
    BY <1>0, <2>1, <2>2, SameCopies, QuietStream, FewerCopies DEF StreamSafe, TypeOK
<1>18. ASSUME NEW d \in Deleter, NEW j \in Key, MeshDeleteBegin(d, j)
       PROVE  ClockBound(k)' /\ StreamSafe(k)'
  <2>1. UNCHANGED <<resident, stored, op, save, flush, acked>> /\ clock <= clock'
    BY <1>0, <1>18 DEF MeshDeleteBegin, TypeOK
  <2>2. Committed(k)' <=> Committed(k)
    BY <1>0, <1>18 DEF MeshDeleteBegin, Committed, TypeOK
  <2> QED
    BY <1>0, <2>1, <2>2, SameCopies, QuietStream, FewerCopies DEF StreamSafe, TypeOK
<1>19. ASSUME NEW d \in Deleter, MeshDeleteTransaction(d)
       PROVE  ClockBound(k)' /\ StreamSafe(k)'
  BY <1>19 DEF MeshDeleteTransaction
<1>20. ASSUME NEW d \in Deleter, MeshDeleteTombstone(d)
       PROVE  ClockBound(k)' /\ StreamSafe(k)'
  <2>1. UNCHANGED <<resident, stored, clock, op, save, flush, acked>>
    BY <1>20 DEF MeshDeleteTombstone
  <2>2. Committed(k)' <=> Committed(k)
    BY <1>0, <1>20 DEF MeshDeleteTombstone, Committed, TypeOK, DelState
  <2> QED
    BY <1>0, <2>1, <2>2, SameCopies, QuietStream, FewerCopies DEF StreamSafe, TypeOK
<1>21. ASSUME NEW d \in Deleter, MeshDeleteState(d)
       PROVE  ClockBound(k)' /\ StreamSafe(k)'
  <2>1. /\ del[d].key \in Key /\ stored' = [stored EXCEPT ![del[d].key] = NoLog]
        /\ UNCHANGED <<resident, clock, op, save, flush, acked>>
    BY <1>0, <1>21 DEF MeshDeleteState, DelRefs
  <2>2. /\ Committed(k) => Committed(k)'
        /\ del[d].key = k => Committed(k)'
    BY <1>0, <1>21 DEF MeshDeleteState, Committed, TypeOK, DelState
  <2>3. stored'[k] \in {NoLog, stored[k]} /\ (del[d].key # k => stored'[k] = stored[k])
    BY <1>0, <2>1 DEF TypeOK
  <2>4. Copies(k)' \subseteq Copies(k) /\ (Loading(k)' <=> Loading(k))
    BY <2>1, <2>3, CopyCases, CopyCasesPrime DEF IsCopy, Loading, Writing, Written
  <2>5. del[d].key # k => Current(k)' = Current(k)
    BY <2>1, <2>3 DEF Current
  <2> QED
    BY <1>0, <2>1, <2>2, <2>4, <2>5, QuietStream, FewerCopies DEF StreamSafe, TypeOK
<1>22. ASSUME NEW d \in Deleter, MeshDeleteFail(d)
       PROVE  ClockBound(k)' /\ StreamSafe(k)'
  <2>1. UNCHANGED <<resident, stored, clock, op, save, flush, acked>>
    BY <1>22 DEF MeshDeleteFail
  <2>2. Committed(k)' <=> Committed(k)
    BY <1>0, <1>22 DEF MeshDeleteFail, IdleDel, Committed, TypeOK
  <2> QED
    BY <1>0, <2>1, <2>2, SameCopies, QuietStream, FewerCopies DEF StreamSafe, TypeOK
<1>23. ASSUME NEW d \in Deleter, MeshDeleteSyncFail(d)
       PROVE  ClockBound(k)' /\ StreamSafe(k)'
  <2> DEFINE j == del[d].key
  <2>1. /\ j \in Key /\ stored' = [stored EXCEPT ![j] = NoLog]
        /\ acked' = [acked EXCEPT ![j] = @ \intersect DataOf(resident[j])]
        /\ UNCHANGED <<resident, clock, op, save, flush>>
    BY <1>0, <1>23 DEF MeshDeleteSyncFail, DelRefs
  <2>2. Committed(k)' <=> Committed(k)
    BY <1>0, <1>23 DEF MeshDeleteSyncFail, IdleDel, Committed, TypeOK
  <2>3. /\ stored'[k] \in {NoLog, stored[k]} /\ acked'[k] \subseteq acked[k]
        /\ j # k => stored'[k] = stored[k]
        /\ resident[k] = NoLog /\ j = k => acked'[k] = {}
    BY <1>0, <2>1 DEF TypeOK, DataOf
  <2>4. Copies(k)' \subseteq Copies(k) /\ (Loading(k)' <=> Loading(k))
    BY <2>1, <2>3, CopyCases, CopyCasesPrime DEF IsCopy, Loading, Writing, Written
  <2>5. acked'[k] # {} => Current(k)' = Current(k)
    BY <2>1, <2>3 DEF Current
  <2> QED
    BY <1>0, <2>1, <2>2, <2>3, <2>4, <2>5, QuietStream, FewerCopies
       DEF StreamSafe, TypeOK
<1>24. ASSUME NEW d \in Deleter, MeshDeleteUnlink(d)
       PROVE  ClockBound(k)' /\ StreamSafe(k)'
  <2>1. /\ del[d].pc = "committed" /\ del[d].key \in Key
        /\ Unlink(d, del[d].key) /\ UNCHANGED <<stored, clock, op, save>>
    BY <1>0, <1>24 DEF MeshDeleteUnlink, DelRefs
  <2>2. del[d].key # k => (Committed(k)' <=> Committed(k))
    BY <1>0, <2>1 DEF Unlink, IdleDel, Committed, TypeOK
  <2> QED
    BY <1>0, <2>1, <2>2, UnlinkSafe DEF TypeOK
<1>25. CASE Shutdown
  <2>1. /\ flush'[k] \in {NoLog, Live}
        /\ save' = [save EXCEPT !["flush"] = IdleSave]
        /\ UNCHANGED <<resident, stored, clock, op, del, acked>>
    BY <1>25 DEF Shutdown, AllLive
  <2>2. \A r \in Saver : Writing(r, k)' => Writing(r, k) /\ Written(r)' = Written(r)
    BY <1>0, <2>1 DEF Writing, Written, TypeOK, IdleSave
  <2>3. Copies(k)' \subseteq Copies(k) /\ Current(k)' = Current(k)
        /\ (Loading(k)' <=> Loading(k))
    BY <2>1, <2>2, CopyCases, CopyCasesPrime DEF IsCopy, Current, Loading
  <2> QED
    BY <1>0, <2>1, <2>3, QuietStream, FewerCopies DEF StreamSafe, Committed, TypeOK
<1>26. CASE ShutdownDone
  <2>1. /\ phase = "drain" /\ flush[k] = NoLog /\ Forget
        /\ acked'[k] = IF k \in unsaved THEN acked[k] \intersect DataOf(stored[k])
                       ELSE acked[k]
    BY <1>26 DEF ShutdownDone
  <2>2. k \notin unsaved => Safe(k, stored[k])
    BY <2>1 DEF Draining
  <2>3. acked'[k] \subseteq acked[k] /\ acked'[k] \subseteq DataOf(stored[k])
    BY <2>1, <2>2 DEF Safe, DataOf
  <2> QED
    BY <1>0, <2>1, <2>3, OnlyDurable
<1>27. CASE Crash
  <2>1. Forget /\ acked'[k] = acked[k] \intersect DataOf(stored[k])
    BY <1>27 DEF Crash
  <2> QED
    BY <1>0, <2>1, OnlyDurable
<1>28. CASE Restart \/ UNCHANGED vars
  <2>1. UNCHANGED <<resident, stored, clock, op, save, flush, acked, del>>
    BY <1>28 DEF Restart, vars
  <2> QED
    BY <1>0, <2>1, SameCopies, QuietStream, FewerCopies DEF StreamSafe, TypeOK, Committed
<1> QED
  BY <1>1, <1>2, <1>3, <1>4, <1>5, <1>6, <1>7, <1>8, <1>9, <1>10, <1>11, <1>12,
     <1>13, <1>14, <1>15, <1>16, <1>17, <1>18, <1>19, <1>20, <1>21, <1>22,
     <1>23, <1>24, <1>25, <1>26, <1>27, <1>28 DEF Next

\* SavesBehind: whatever a save reads next only gets newer, and a victim is
\* not changed at all.
LEMMA SavesStep ==
    ASSUME Backend = "omnikv", LossInv, WellFormed', [Next]_vars
    PROVE  SavesBehind'
<1> USE DEF LossInv, WellFormed, SavesBehind, Source
<1>0. /\ TypeOK /\ TypeOK' /\ OpRefs /\ OpRefs' /\ FlushRefs /\ FlushRefs' /\ DelRefs
  OBVIOUS
<1>1. ASSUME NEW j \in Key, IngestResident(j) PROVE SavesBehind'
  <2>1. resident[j] # NoLog /\ save["evict"].pc = "idle"
    BY <1>0, <1>1 DEF IngestResident, OpRefs
  <2>2. resident[j] \in Copies(j)
    BY <1>0, <2>1, Sentinels, CopyCases DEF IsCopy, TypeOK
  <2>3. resident[j].ver \in Nat /\ resident[j].ver <= clock
    BY <1>0, <2>2, CopiesAreLogs DEF StreamsSafe, ClockBound
  <2>4. resident'[j].ver = clock + 1 /\ \A i \in Key \ {j} : resident'[i] = resident[i]
    BY <1>0, <1>1 DEF IngestResident, TypeOK
  <2> QED
    BY <1>0, <1>1, <2>1, <2>3, <2>4
       DEF IngestResident, FlushRefs, TypeOK, SaveState, Saver
<1>2. ASSUME NEW kind \in {"ingest", "get"}, NEW j \in Key, OpStart(kind, j)
      PROVE  SavesBehind'
  BY <1>0, <1>2 DEF OpStart, OpRefs
<1>3. CASE OpLoad \/ OpLoadFail
  BY <1>0, <1>3 DEF OpLoad, OpLoadFail, OpRefs
<1>4. CASE OpInsert
  <2>1. /\ Insert(resident) /\ op.pc = "loaded" /\ resident[op.key] = NoLog
        /\ save["evict"].pc = "idle" /\ UNCHANGED <<flush, save>>
    BY <1>0, <1>4 DEF OpInsert, OpRefs
  <2>2. \A i \in Key \ {op.key} : resident'[i] = resident[i]
    BY <1>0, <2>1, InsertResult DEF TypeOK
  <2> QED
    BY <1>0, <2>1, <2>2 DEF FlushRefs
<1>5. CASE OpPickVictim
  BY <1>0, <1>5 DEF OpPickVictim, StartSave, FirstRead, TypeOK, Saver
<1>6. CASE OpEvict
  <2> DEFINE v == op.victim
             res == [resident EXCEPT ![v] = NoLog]
  <2>1. /\ op.pc = "save" /\ Insert(res) /\ res \in [Key -> Log \union {NoLog}]
        /\ flush' = Freeze(v) /\ save' = [save EXCEPT !["evict"] = IdleSave]
        /\ v \in Key /\ resident[op.key] = NoLog
    BY <1>0, <1>6 DEF OpEvict, TypeOK, OpRefs
  <2>2. \A i \in Key \ {op.key, v} : resident'[i] = resident[i] /\ flush'[i] = flush[i]
    BY <1>0, <2>1, InsertResult DEF Freeze, TypeOK
  <2>3. flush'[v] = (IF flush[v] = Live THEN resident[v] ELSE flush[v]) /\ flush'[v] # Live
    BY <1>0, <2>1, Sentinels DEF Freeze, TypeOK
  <2>4. v # op.key => flush'[op.key] = flush[op.key]
    BY <1>0, <2>1 DEF Freeze, TypeOK
  <2>5. save'["flush"] = save["flush"] /\ save'["evict"].pc = "idle"
    BY <1>0, <2>1 DEF TypeOK, IdleSave, Saver
  <2> QED
    BY <1>0, <2>1, <2>2, <2>3, <2>4, <2>5 DEF FlushRefs
<1>7. CASE OpEvictFail
  BY <1>0, <1>7 DEF OpEvictFail, TypeOK, IdleSave, Saver
<1>8. ASSUME NEW s \in Saver, Serialize(s) PROVE SavesBehind'
  BY <1>0, <1>8 DEF Serialize, AfterSerialize, TypeOK, SaveState, Saver
<1>9. ASSUME NEW s \in Saver, Stamp(s) PROVE SavesBehind'
  <2>1. CASE s = "flush"
    <3>1. Source(s) \in Log
      BY <1>0, <1>9, <2>1 DEF Stamp, FlushRefs, TypeOK
    <3>2. Source(s).ver \in Nat
      BY <3>1, Sentinels
    <3>3. /\ save'["flush"].ver = Source(s).ver /\ save'["flush"].key = save["flush"].key
          /\ save'["evict"] = save["evict"]
      BY <1>0, <1>9, <2>1 DEF Stamp, TypeOK, SaveState, Saver
    <3>4. UNCHANGED <<flush, resident, op>>
      BY <1>9 DEF Stamp
    <3> QED
      BY <1>0, <2>1, <3>2, <3>3, <3>4
  <2>2. CASE s = "evict"
    <3>1. /\ save'["evict"].ver = resident[save["evict"].key].ver
          /\ save'["flush"] = save["flush"]
      BY <1>0, <1>9, <2>2 DEF Stamp, TypeOK, SaveState, Saver
    <3>2. op.pc = "save" /\ save["evict"].key = op.victim
      BY <1>0, <1>9, <2>2 DEF Stamp, OpRefs
    <3>3. UNCHANGED <<flush, resident, op>>
      BY <1>9 DEF Stamp
    <3> QED
      BY <1>0, <3>1, <3>2, <3>3
  <2> QED
    BY <2>1, <2>2 DEF Saver
<1>10. CASE FlushStart
  BY <1>0, <1>10 DEF FlushStart
<1>11. ASSUME NEW j \in Key, FlushNext(j) PROVE SavesBehind'
  BY <1>0, <1>11 DEF FlushNext, StartSave, FirstRead, TypeOK, Saver
<1>12. CASE FlushWrite \/ FlushFail
  BY <1>0, <1>12 DEF FlushWrite, FlushFail, TypeOK, IdleSave, Saver
<1>13. ASSUME NEW d \in Deleter,
              \/ \E j \in Key : DeleteRequest(d, j) \/ MeshDeleteBegin(d, j)
              \/ DeleteFail(d) \/ MeshDeleteTransaction(d)
              \/ MeshDeleteTombstone(d) \/ MeshDeleteState(d)
              \/ MeshDeleteFail(d) \/ MeshDeleteSyncFail(d)
       PROVE  SavesBehind'
  BY <1>0, <1>13
     DEF DeleteRequest, MeshDeleteBegin, DeleteFail, MeshDeleteTransaction,
         MeshDeleteTombstone, MeshDeleteState, MeshDeleteFail, MeshDeleteSyncFail
<1>14. ASSUME NEW d \in Deleter, DeleteCommit(d) \/ MeshDeleteUnlink(d)
       PROVE  SavesBehind'
  <2>1. /\ op.pc = "idle" /\ del[d].key \in Key /\ Unlink(d, del[d].key)
        /\ UNCHANGED save
    BY <1>0, <1>14 DEF DeleteCommit, MeshDeleteUnlink, DelRefs
  <2>2. save["evict"].pc = "idle"
    BY <1>0, <2>1 DEF OpRefs
  <2>3. \A i \in Key \ {del[d].key} : resident'[i] = resident[i] /\ flush'[i] = flush[i]
    BY <1>0, <2>1 DEF Unlink, Freeze, TypeOK
  <2>4. \A i \in Key : i = del[d].key =>
            /\ flush'[i] = IF flush[i] = Live THEN resident[i] ELSE flush[i]
            /\ flush'[i] # Live
    BY <1>0, <2>1, Sentinels DEF Unlink, Freeze, TypeOK
  <2> QED
    BY <1>0, <2>1, <2>2, <2>3, <2>4 DEF FlushRefs
<1>15. CASE Shutdown
  BY <1>0, <1>15 DEF Shutdown, TypeOK, IdleSave, Saver
<1>16. CASE ShutdownDone \/ Crash
  BY <1>0, <1>16 DEF ShutdownDone, Crash, Forget, IdleSave, Saver
<1>17. CASE Restart \/ UNCHANGED vars
  BY <1>0, <1>17 DEF Restart, vars
<1> QED
  BY <1>1, <1>2, <1>3, <1>4, <1>5, <1>6, <1>7, <1>8, <1>9, <1>10, <1>11, <1>12,
     <1>13, <1>14, <1>15, <1>16, <1>17 DEF Next

\* A row written from a safe copy is safe when the step adds no copy.
LEMMA StillSafe ==
    ASSUME TypeOK, TypeOK', NEW k \in Key, acked'[k] \subseteq acked[k],
           Copies(k)' \subseteq Copies(k), NEW c, Safe(k, c), stored'[k] = c
    PROVE  Safe(k, stored[k])'
<1>1. Safe(k, c)'
  BY Transfer, FewerCopies
<1> QED
  BY <1>1

\* Draining: only the flush moves, and it leaves every stream it is done with
\* durable.
LEMMA DrainStep ==
    ASSUME Backend = "omnikv", LossInv, WellFormed', [Next]_vars
    PROVE  Draining'
<1> USE DEF LossInv, WellFormed
<1>0. /\ TypeOK /\ TypeOK' /\ OpRefs /\ FlushRefs /\ FlushRefs' /\ DelRefs
      /\ \A k \in Key : StreamSafe(k)
  BY DEF StreamsSafe
<1>1. CASE phase' = "up"
  BY <1>1 DEF Draining
<1>2. ASSUME \/ \E k \in Key : IngestResident(k)
             \/ \E kind \in {"ingest", "get"}, k \in Key : OpStart(kind, k)
             \/ OpLoad \/ OpLoadFail \/ OpInsert \/ OpPickVictim \/ OpEvict
             \/ OpEvictFail \/ FlushStart \/ Restart
             \/ \E d \in Deleter :
                   \/ \E k \in Key : DeleteRequest(d, k) \/ MeshDeleteBegin(d, k)
                   \/ DeleteCommit(d) \/ DeleteFail(d)
                   \/ MeshDeleteTransaction(d) \/ MeshDeleteTombstone(d)
                   \/ MeshDeleteState(d) \/ MeshDeleteFail(d)
                   \/ MeshDeleteSyncFail(d) \/ MeshDeleteUnlink(d)
      PROVE  phase' = "up"
  BY <1>2
     DEF Draining, NoRequests, IngestResident, OpStart, OpLoad, OpLoadFail,
         OpInsert, OpPickVictim, OpEvict, OpEvictFail, FlushStart, Restart,
         DeleteRequest, MeshDeleteBegin, DeleteCommit, DeleteFail,
         MeshDeleteTransaction, MeshDeleteTombstone, MeshDeleteState,
         MeshDeleteFail, MeshDeleteSyncFail, MeshDeleteUnlink
<1>3. CASE Shutdown
  <2>1. /\ NoRequests /\ UNCHANGED <<resident, stored, op, del, acked>>
        /\ flush' = AllLive /\ save' = [save EXCEPT !["flush"] = IdleSave]
    BY <1>3 DEF Shutdown
  <2>2. save'["flush"].pc = "idle" /\ NoRequests'
    BY <1>0, <2>1 DEF TypeOK, IdleSave, Saver, NoRequests
  <2>3. ASSUME NEW k \in Key, flush'[k] = NoLog PROVE Safe(k, stored[k])'
    <3>1. resident[k] = NoLog /\ ~Committed(k)
      BY <2>1, <2>3, Sentinels DEF AllLive, NoRequests, Committed
    <3>2. Safe(k, stored[k])
      BY <1>0, <3>1 DEF StreamSafe, Current
    <3>3. \A r \in Saver : Writing(r, k)' => Writing(r, k) /\ Written(r)' = Written(r)
      BY <1>0, <2>1 DEF Writing, Written, TypeOK, IdleSave
    <3>4. Copies(k)' \subseteq Copies(k)
      BY <2>1, <2>3, <3>3, CopyCases, CopyCasesPrime DEF IsCopy, Loading
    <3> QED
      BY <1>0, <2>1, <3>2, <3>4, StillSafe
  <2>4. \A k \in Key : flush'[k] \in {NoLog, Live}
    BY <2>1 DEF AllLive
  <2> QED
    BY <2>2, <2>3, <2>4 DEF Draining
<1>4. CASE ShutdownDone \/ Crash
  BY <1>4 DEF ShutdownDone, Crash, Forget, Draining, NoRequests, IdleOp, IdleDel
<1>5. ASSUME phase = "drain",
             UNCHANGED <<phase, resident, op, del, acked>>,
             \A k \in Key : flush'[k] \in {NoLog, flush[k]},
             \A k \in Key \ unsaved' : flush'[k] = NoLog => Safe(k, stored[k])',
             save'["flush"].pc \in {"serialize", "write"}
                 => save'["flush"].ver = resident[save'["flush"].key].ver
      PROVE  Draining'
  BY <1>5 DEF Draining, NoRequests
<1>6. CASE phase = "down"
  BY <1>0, <1>1, <1>2, <1>6
     DEF Next, Draining, NoRequests, Serialize, Stamp, FlushNext, FlushWrite,
         FlushFail, Shutdown, ShutdownDone, Crash, Forget, IdleOp, IdleDel, vars
<1>7. CASE phase = "drain" /\ \E s \in Saver : Serialize(s) \/ Stamp(s)
  <2>1. PICK s \in Saver : Serialize(s) \/ Stamp(s)
    BY <1>7
  <2>2. s = "flush"
    BY <1>0, <1>7, <2>1 DEF Draining, NoRequests, OpRefs, Serialize, Stamp, Saver
  <2>3. /\ save["flush"].pc # "idle"
        /\ UNCHANGED <<phase, resident, stored, op, flush, del, acked, unsaved>>
        /\ save'["flush"].key = save["flush"].key
        /\ save'["evict"] = save["evict"]
    BY <1>0, <2>1, <2>2 DEF Serialize, Stamp, TypeOK, SaveState, Saver
  <2>4. flush[save["flush"].key] = Live /\ save["flush"].key \in Key
    BY <1>0, <1>7, <2>3 DEF Draining, FlushRefs
  <2>5. save'["flush"].pc \in {"serialize", "write"}
            => save'["flush"].ver = resident[save'["flush"].key].ver
    BY <1>0, <1>7, <2>1, <2>2, <2>3, <2>4
       DEF Serialize, Stamp, Source, AfterStamp, AfterSerialize, TypeOK,
           SaveState, Saver, Draining
  <2>6. ASSUME NEW k \in Key \ unsaved', flush'[k] = NoLog PROVE Safe(k, stored[k])'
    <3>1. k # save["flush"].key /\ Safe(k, stored[k])
      BY <1>7, <2>3, <2>4, <2>6, Sentinels DEF Draining
    <3>2. \A r \in Saver : Writing(r, k)' => Writing(r, k) /\ Written(r)' = Written(r)
      BY <2>3, <3>1 DEF Writing, Written, Saver
    <3>3. Copies(k)' \subseteq Copies(k)
      BY <2>3, <3>2, CopyCases, CopyCasesPrime DEF IsCopy, Loading
    <3> QED
      BY <1>0, <2>3, <3>1, <3>3, StillSafe
  <2> QED
    BY <1>5, <1>7, <2>3, <2>5, <2>6
<1>8. CASE phase = "drain" /\ \E j \in Key : FlushNext(j)
  <2>1. PICK j \in Key : FlushNext(j)
    BY <1>8
  <2>2. /\ save' = StartSave("flush", j)
        /\ UNCHANGED <<phase, resident, stored, op, flush, del, acked, unsaved>>
    BY <2>1 DEF FlushNext
  <2>3. save'["flush"].pc = "stamp"
    BY <1>0, <2>2 DEF StartSave, FirstRead, TypeOK, Saver
  <2>4. ASSUME NEW k \in Key \ unsaved', flush'[k] = NoLog PROVE Safe(k, stored[k])'
    <3>1. Safe(k, stored[k])
      BY <1>8, <2>2, <2>4 DEF Draining
    <3>2. \A r \in Saver : Writing(r, k)' => Writing(r, k) /\ Written(r)' = Written(r)
      BY <1>0, <2>2 DEF Writing, Written, StartSave, FirstRead, TypeOK
    <3>3. Copies(k)' \subseteq Copies(k)
      BY <2>2, <3>2, CopyCases, CopyCasesPrime DEF IsCopy, Loading
    <3> QED
      BY <1>0, <2>2, <3>1, <3>3, StillSafe
  <2> QED
    BY <1>5, <1>8, <2>2, <2>3, <2>4
<1>9. CASE phase = "drain" /\ (FlushWrite \/ FlushFail)
  <2> DEFINE j == save["flush"].key
  <2>1. /\ save["flush"].pc = "write" /\ flush' = [flush EXCEPT ![j] = NoLog]
        /\ save' = [save EXCEPT !["flush"] = IdleSave]
        /\ stored' \in {stored, Upsert("flush")}
        /\ FlushFail => unsaved' = unsaved \union {j} /\ stored' = stored
        /\ FlushWrite => unsaved' = unsaved /\ stored' = Upsert("flush")
        /\ UNCHANGED <<phase, resident, op, del, acked>>
    BY <1>9 DEF FlushWrite, FlushFail
  <2>2. j \in Key /\ flush[j] = Live /\ resident[j] # NoLog
    BY <1>0, <1>9, <2>1 DEF FlushRefs, Draining
  <2>3. save'["flush"].pc = "idle"
    BY <1>0, <2>1 DEF TypeOK, IdleSave, Saver
  <2>4. \A k \in Key : flush'[k] \in {NoLog, flush[k]}
    BY <1>0, <2>1 DEF TypeOK
  <2>5. ASSUME NEW k \in Key \ unsaved', flush'[k] = NoLog PROVE Safe(k, stored[k])'
    <3>1. \A r \in Saver : Writing(r, k)' => Writing(r, k) /\ Written(r)' = Written(r)
      BY <1>0, <2>1 DEF Writing, Written, TypeOK, IdleSave
    <3>2. \/ stored'[k] = stored[k]
          \/ Writing("flush", k) /\ stored'[k] = Written("flush") /\ "flush" \in Saver
      BY <1>0, <2>1 DEF TypeOK, Upsert, Writing, Written, Saver
    <3>3. Copies(k)' \subseteq Copies(k)
      BY <2>1, <2>4, <3>1, <3>2, CopyCases, CopyCasesPrime DEF IsCopy, Loading
    <3>4. Safe(k, stored'[k])
      <4>1. CASE k # j
        <5>1. flush[k] = NoLog /\ k \notin unsaved /\ stored'[k] = stored[k]
          BY <1>0, <1>9, <2>1, <2>5, <4>1 DEF TypeOK, Upsert
        <5> QED
          BY <1>9, <5>1 DEF Draining
      <4>2. CASE k = j
        <5>1. FlushWrite /\ stored' = Upsert("flush")
          BY <1>9, <2>1, <2>5, <4>2
        <5>2. ~Committed(k)
          BY <1>9 DEF Draining, NoRequests, Committed
        <5>3. Safe(k, resident[k]) /\ resident[k] \in Log \union {NoLog}
          BY <1>0, <2>2, <4>2, <5>2 DEF StreamSafe, Current, TypeOK
        <5>4. save["flush"].ver = resident[k].ver
          BY <1>9, <2>1, <4>2 DEF Draining
        <5>5. Writing("flush", k) /\ "flush" \in Saver
          BY <2>1, <4>2 DEF Writing, Saver
        <5>6. Safe(k, Upsert("flush")[k])
          BY <1>0, <2>2, <4>2, <5>2, <5>3, <5>4, <5>5, UpsertSafe
        <5> QED
          BY <5>1, <5>6
      <4> QED
        BY <4>1, <4>2
    <3> QED
      BY <1>0, <2>1, <3>3, <3>4, StillSafe
  <2> QED
    BY <1>5, <1>9, <2>1, <2>3, <2>4, <2>5
<1>10. CASE UNCHANGED vars
  BY <1>10 DEF vars, Draining, NoRequests, Safe, Copies, IsCopy, Loading, Writing, Written
<1>11. CASE phase = "up" /\ \/ \E s \in Saver : Serialize(s) \/ Stamp(s)
                            \/ \E j \in Key : FlushNext(j)
                            \/ FlushWrite \/ FlushFail
  BY <1>1, <1>11 DEF Serialize, Stamp, FlushNext, FlushWrite, FlushFail
<1> QED
  BY <1>0, <1>1, <1>2, <1>3, <1>4, <1>6, <1>7, <1>8, <1>9, <1>10, <1>11
     DEF Next, TypeOK

\* Every step keeps the invariant behind the durability of acknowledged batches.
LEMMA LossStep ==
    ASSUME Backend = "omnikv" PROVE LossInv /\ [Next]_vars => LossInv'
<1> SUFFICES ASSUME LossInv, [Next]_vars PROVE LossInv'
  OBVIOUS
<1>1. WellFormed'
  BY WellFormedStep DEF LossInv
<1>2. StreamsSafe'
  BY <1>1, StreamsStep DEF StreamsSafe
<1>3. SavesBehind' /\ Draining'
  BY <1>1, SavesStep, DrainStep
<1> QED
  BY <1>1, <1>2, <1>3 DEF LossInv

\* With the OmniKV backend an acknowledged batch is never lost, in any
\* interleaving of ingest, eviction, reload, the flush pass, DELETE requests,
\* failing saves, shutdown and restart; a crash takes only what no save had
\* made durable, and a delete only what it was asked to remove.
THEOREM NoAcknowledgedBatchLost ==
    ASSUME Backend = "omnikv" PROVE Spec => []NoAckedLoss
<1>1. LossInv => NoAckedLoss
  <2> SUFFICES ASSUME LossInv, NEW k \in Key, ~Committed(k)
               PROVE  acked[k] \subseteq DataOf(Current(k))
    BY DEF NoAckedLoss, Committed, Current
  <2>1. Safe(k, Current(k))
    BY DEF LossInv, StreamsSafe, StreamSafe
  <2> QED
    BY <2>1 DEF Safe, DataOf
<1>2. Spec => []LossInv
  BY LossInit, LossStep, PTL DEF Spec
<1> QED
  BY <1>1, <1>2, PTL

=============================================================================
