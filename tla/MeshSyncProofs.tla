--------------------------- MODULE MeshSyncProofs ---------------------------
(***************************************************************************)
(* Proofs about MeshSync, for any number of nodes, origins and streams and *)
(* for any limits and faults:                                              *)
(*   - type correctness;                                                   *)
(*   - a replica never claims a version it does not contain;               *)
(*   - a committed tombstone dominates stale relays;                       *)
(*   - the exchange implements the registers of OriginRegister.            *)
(***************************************************************************)
EXTENDS MeshSync, TLAPS

-----------------------------------------------------------------------------
(* The inductive invariant                                                  *)

\* The copies of origin o's stream s that exist outside o's registry and
\* storage: in the peers' memory, in messages, and in the answer that o's
\* gossip thread has detached from the registry but not sent yet.
SnapCopies(o, s) == {snap[n][s][o] : n \in Node} \ {NoLog}
SentCopies(o, s) ==
    {[data |-> u.data, ver |-> u.ver] :
        u \in {w \in msgs : /\ w.type = "update" /\ ~w.tomb
                            /\ w.origin = o /\ w.stream = s}}
Answering(o, s) == pending[o].on /\ pending[o].stream = s
PendingCopies(o, s) ==
    IF Answering(o, s) /\ pending[o].log # Live
    THEN {[data |-> pending[o].log.data, ver |-> pending[o].ver]} ELSE {}
Copies(o, s) ==
    SnapCopies(o, s) \union SentCopies(o, s) \union PendingCopies(o, s)

\* The gossip thread answers one peer about one stream; the log is either
\* still the registry's own, which is then resident, or one kept alive.
PendingRefs ==
    \A n \in Node : pending[n].on =>
        /\ pending[n].dst \in Node /\ pending[n].stream \in Stream
        /\ pending[n].log # NoLog
        /\ pending[n].log = Live => local[n][pending[n].stream] # NoLog

\* Nothing is newer than the clock: no version, no tombstone, no batch.
LogsBounded ==
    \A n \in Node, s \in Stream :
        /\ VerOf(local[n][s]) <= clock /\ VerOf(disk[n][s]) <= clock
        /\ Answering(n, s) => pending[n].ver <= clock
        /\ \A x \in Copies(n, s) : x.ver <= clock
TombsBounded ==
    /\ \A n \in Node, s \in Stream :
          /\ tomb[n][s] <= clock /\ diskTomb[n][s] <= clock
          /\ del[n][s].ver <= clock /\ del[n][s].previous <= clock
          /\ \A o \in Node : ptomb[n][s][o] <= clock
    /\ \A u \in msgs : u.type = "update" /\ u.tomb => u.ver <= clock
BatchesBounded ==
    \A n \in Node, s \in Stream :
        \A b \in live[n][s] \union deleted[n][s] : b <= clock

\* The origin itself holds all its live batches: resident or, when the
\* stream was evicted, in storage.
Durable ==
    \A n \in Node, s \in Stream :
        live[n][s] \subseteq DataOf(IF local[n][s] # NoLog THEN local[n][s]
                                    ELSE disk[n][s])

\* Every copy holds the live batches up to its version.
CopiesCover ==
    \A o \in Node, s \in Stream : \A x \in Copies(o, s) :
        Covers(o, s, x.data, x.ver)

\* No batch of a committed deletion is left at the origin.
OriginClean ==
    \A n \in Node, s \in Stream :
        /\ DataOf(local[n][s]) \intersect deleted[n][s] = {}
        /\ DataOf(disk[n][s]) \intersect deleted[n][s] = {}

\* While a deletion runs that no ingest raced with, everything is older
\* than its tombstone.
Window ==
    \A o \in Node, s \in Stream : del[o][s].on /\ ~raced[o][s] =>
        /\ VerOf(local[o][s]) < del[o][s].ver
        /\ VerOf(disk[o][s]) < del[o][s].ver
        /\ Answering(o, s) => pending[o].ver < del[o][s].ver
        /\ \A x \in Copies(o, s) : x.ver < del[o][s].ver

\* Every copy above the last committed tombstone is free of deleted batches,
\* unless an ingest raced with a deletion.
CopiesDominated ==
    \A o \in Node, s \in Stream : ~raced[o][s] =>
        \A x \in Copies(o, s) :
            x.ver > delVer[o][s] => x.data \intersect deleted[o][s] = {}

\* A node keeps a snapshot or a tombstone of an entry, never both.
OneOfBoth ==
    \A n, o \in Node, s \in Stream :
        snap[n][s][o] = NoLog \/ ptomb[n][s][o] = 0

-----------------------------------------------------------------------------
(* Types                                                                    *)

\* What the assumptions on the constants say of logs and of the sentinels.
LEMMA Sentinels ==
    /\ NoLog \notin Log /\ Live \notin Log /\ Live # NoLog
    /\ \A x \in Log : x.data \in SUBSET Nat /\ x.ver \in Nat
    /\ Origin \subseteq Node /\ Crasher \subseteq Node
  BY MeshAssumption DEF Log

\* Building a log, and the log that an ingest leaves.
LEMMA LogRecord ==
    ASSUME NEW data \in SUBSET Nat, NEW ver \in Nat
    PROVE  [data |-> data, ver |-> ver] \in Log
  BY DEF Log

\* The readers of a log or of None return a set of batches and a version.
LEMMA LogReaders ==
    ASSUME NEW log \in Log \union {NoLog}
    PROVE  DataOf(log) \in SUBSET Nat /\ VerOf(log) \in Nat
  BY Sentinels DEF DataOf, VerOf

\* The messages that the handlers build are messages.
LEMMA MessageType ==
    ASSUME NEW n \in Node, NEW m \in Node, NEW s \in Stream, NEW o \in Node,
           NEW v \in Nat, NEW d \in SUBSET Nat
    PROVE  /\ Digest(n, m, s, o, v) \in Message
           /\ Request(n, m, s, o) \in Message
           /\ Snapshot(m, s, o, v, d) \in Message
           /\ Tombstone(m, s, o, v) \in Message
  BY DEF Digest, Request, Snapshot, Tombstone, Message

\* The fields of the messages of each type.
LEMMA MessageFields ==
    ASSUME NEW q \in Message
    PROVE  /\ q.dst \in Node /\ q.stream \in Stream /\ q.origin \in Node
           /\ q.type = "digest" => q.src \in Node /\ q.ver \in Nat
           /\ q.type = "request" => q.src \in Node
           /\ q.type = "update" => /\ q.tomb \in BOOLEAN /\ q.ver \in Nat
                                   /\ q.data \in SUBSET Nat
  BY DEF Message

\* A stream that leaves the registry stays with the pending answer.
LEMMA DetachFields ==
    ASSUME TypeOK, NEW n \in Node, NEW s \in Stream
    PROVE  /\ Detach(n, s) \in [Node -> PendingState]
           /\ \A m \in Node :
                 /\ Detach(n, s)[m].on = pending[m].on
                 /\ Detach(n, s)[m].dst = pending[m].dst
                 /\ Detach(n, s)[m].stream = pending[m].stream
                 /\ Detach(n, s)[m].ver = pending[m].ver
                 /\ Detach(n, s)[m].log =
                       IF m = n /\ Answering(n, s) /\ pending[n].log = Live
                       THEN local[n][s] ELSE pending[m].log
<1>1. CASE Answering(n, s) /\ pending[n].log = Live
  <2>1. Detach(n, s) = [pending EXCEPT ![n].log = local[n][s]]
    BY <1>1 DEF Detach, Answering
  <2>2. local[n][s] \in Log \union {NoLog} /\ pending \in [Node -> PendingState]
    BY DEF TypeOK
  <2> QED
    BY <1>1, <2>1, <2>2 DEF PendingState
<1>2. CASE ~(Answering(n, s) /\ pending[n].log = Live)
  <2>1. Detach(n, s) = pending
    BY <1>2 DEF Detach, Answering
  <2>2. pending \in [Node -> PendingState]
    BY DEF TypeOK
  <2> QED
    BY <1>2, <2>1, <2>2
<1> QED
  BY <1>1, <1>2

\* The empty mesh is well typed.
LEMMA TypeInit == Init => TypeOK /\ PendingRefs
  BY Sentinels
     DEF Init, TypeOK, PendingRefs, IdleDel, NoPending, DelState, PendingState

\* handle_gossip_digest answers a digest with messages.
LEMMA AnswerType ==
    ASSUME TypeOK, NEW q \in Message, q.type = "digest"
    PROVE  DigestAnswer(q) \subseteq Message
<1> DEFINE log == IF q.origin = q.dst THEN local[q.dst][q.stream]
                  ELSE snap[q.dst][q.stream][q.origin]
           t == IF q.origin = q.dst THEN tomb[q.dst][q.stream]
                ELSE ptomb[q.dst][q.stream][q.origin]
<1>1. /\ q.dst \in Node /\ q.src \in Node /\ q.stream \in Stream
      /\ q.origin \in Node /\ q.ver \in Nat
  BY MessageFields
<1>2. log \in Log \union {NoLog} /\ t \in Nat
  BY <1>1 DEF TypeOK
<1>3. VerOf(log) > q.ver => log.ver \in Nat /\ log.data \in SUBSET Nat
  BY <1>1, <1>2, Sentinels DEF VerOf
<1>4. /\ Request(q.dst, q.src, q.stream, q.origin) \in Message
      /\ Tombstone(q.src, q.stream, q.origin, t) \in Message
      /\ VerOf(log) > q.ver
            => Snapshot(q.src, q.stream, q.origin, log.ver, log.data) \in Message
  BY <1>1, <1>2, <1>3, MessageType
<1>5. DigestAnswer(q) \subseteq
        {Request(q.dst, q.src, q.stream, q.origin),
         Tombstone(q.src, q.stream, q.origin, t)} \union
        (IF VerOf(log) > q.ver
         THEN {Snapshot(q.src, q.stream, q.origin, log.ver, log.data)} ELSE {})
  BY DEF DigestAnswer
<1> QED
  BY <1>4, <1>5

\* A fulfilled request leaves a well-typed answer, sent or pending.
LEMMA FulfilType ==
    ASSUME TypeOK, PendingRefs, NEW q \in msgs, q \in Message, FulfilRequest(q)
    PROVE  /\ msgs' \subseteq Message
           /\ pending' \in [Node -> PendingState]
           /\ PendingRefs'
<1> DEFINE log == IF q.origin = q.dst THEN local[q.dst][q.stream]
                  ELSE snap[q.dst][q.stream][q.origin]
           t == IF q.origin = q.dst THEN tomb[q.dst][q.stream]
                ELSE ptomb[q.dst][q.stream][q.origin]
           new == [on |-> TRUE, dst |-> q.src, stream |-> q.stream,
                   ver |-> log.ver, log |-> Live]
<1>1. /\ q.dst \in Node /\ q.src \in Node /\ q.stream \in Stream
      /\ q.origin \in Node
  BY MessageFields DEF FulfilRequest
<1>2. log \in Log \union {NoLog} /\ t \in Nat /\ local' = local
  <2>1. /\ local[q.dst][q.stream] \in Log \union {NoLog}
        /\ snap[q.dst][q.stream][q.origin] \in Log \union {NoLog}
    BY <1>1 DEF TypeOK
  <2>2. tomb[q.dst][q.stream] \in Nat /\ ptomb[q.dst][q.stream][q.origin] \in Nat
    BY <1>1 DEF TypeOK
  <2>3. local' = local
    BY DEF FulfilRequest, localVars
  <2> QED
    BY <2>1, <2>2, <2>3
<1>3. CASE t >= VerOf(log)
  <2>1. /\ msgs' = (msgs \ {q}) \union {Tombstone(q.src, q.stream, q.origin, t)}
        /\ pending' = pending
    BY <1>3 DEF FulfilRequest
  <2> HIDE DEF t
  <2>2. Tombstone(q.src, q.stream, q.origin, t) \in Message
    BY <1>1, <1>2, MessageType
  <2>3. msgs' \subseteq Message
    BY <2>1, <2>2 DEF TypeOK
  <2> QED
    BY <1>2, <2>1, <2>3 DEF TypeOK, PendingRefs
<1>4. CASE ~(t >= VerOf(log)) /\ q.origin = q.dst
  <2>1. pending' = [pending EXCEPT ![q.dst] = new] /\ msgs' = msgs \ {q}
    BY <1>4 DEF FulfilRequest
  <2>2. log \in Log /\ log = local[q.dst][q.stream]
    BY <1>2, <1>4 DEF VerOf
  <2>3. new \in PendingState
    BY <1>1, <2>2, Sentinels DEF PendingState
  <2> HIDE DEF new, log
  <2>4. pending' \in [Node -> PendingState] /\ msgs' \subseteq Message
    BY <2>1, <2>3 DEF TypeOK
  <2>5. PendingRefs'
    BY <1>1, <1>2, <2>1, <2>2, Sentinels DEF TypeOK, PendingRefs, new
  <2> QED
    BY <2>4, <2>5
<1>5. CASE ~(t >= VerOf(log)) /\ q.origin # q.dst
  <2>1. /\ msgs' = (msgs \ {q}) \union
                      {Snapshot(q.src, q.stream, q.origin, log.ver, log.data)}
        /\ pending' = pending
    BY <1>5 DEF FulfilRequest
  <2>2. log \in Log
    BY <1>2, <1>5 DEF VerOf
  <2> HIDE DEF log
  <2> QED
    BY <1>1, <1>2, <2>1, <2>2, MessageType, Sentinels DEF TypeOK, PendingRefs
<1> QED
  BY <1>3, <1>4, <1>5

\* Every step of the clients, the gossip threads, the network and the faults
\* keeps the state well typed.
LEMMA TypeStep == TypeOK /\ PendingRefs /\ [Next]_vars => TypeOK' /\ PendingRefs'
<1> SUFFICES ASSUME TypeOK, PendingRefs, [Next]_vars
             PROVE  TypeOK' /\ PendingRefs'
  OBVIOUS
<1> USE Sentinels DEF localVars, peerVars, ghostVars
<1>1. ASSUME NEW n \in Origin, NEW s \in Stream, Ingest(n, s)
      PROVE  TypeOK' /\ PendingRefs'
  <2> DEFINE old == IF local[n][s] # NoLog THEN local[n][s] ELSE disk[n][s]
             new == [data |-> DataOf(old) \union {clock + 1}, ver |-> clock + 1]
  <2>1. n \in Node /\ clock \in Nat /\ old \in Log \union {NoLog}
    BY DEF TypeOK
  <2>2. new \in Log
    BY <2>1, LogReaders, LogRecord
  <2>3. /\ local' = [local EXCEPT ![n][s] = new]
        /\ clock' = clock + 1
        /\ live' = [live EXCEPT ![n][s] = @ \union {clock + 1}]
        /\ raced' = [raced EXCEPT ![n][s] = @ \/ del[n][s].on]
        /\ UNCHANGED <<disk, tomb, diskTomb, del, peerVars, pending, msgs,
                       faults, deleted, delVer>>
    BY <1>1 DEF Ingest
  <2> HIDE DEF new, old
  <2>4. local' \in [Node -> [Stream -> Log \union {NoLog}]]
    BY <2>2, <2>3 DEF TypeOK
  <2>5. live' \in [Node -> [Stream -> SUBSET Nat]]
    BY <2>1, <2>3 DEF TypeOK
  <2>6. raced' \in [Node -> [Stream -> BOOLEAN]]
    BY <2>1, <2>3 DEF TypeOK
  <2>7. TypeOK'
    BY <2>1, <2>3, <2>4, <2>5, <2>6, SMTT(60) DEF TypeOK
  <2>8. PendingRefs'
    BY <2>2, <2>3 DEF TypeOK, PendingRefs
  <2> QED
    BY <2>7, <2>8
<1>2. ASSUME NEW n \in Origin, NEW s \in Stream, Reload(n, s)
      PROVE  TypeOK' /\ PendingRefs'
  BY <1>2 DEF Reload, TypeOK, PendingRefs
<1>3. ASSUME NEW n \in Origin, NEW s \in Stream, Save(n, s)
      PROVE  TypeOK' /\ PendingRefs'
  BY <1>3 DEF Save, TypeOK, PendingRefs
<1>4. ASSUME NEW n \in Origin, NEW s \in Stream, Evict(n, s)
      PROVE  TypeOK' /\ PendingRefs'
  <2>1. /\ disk' \in [Node -> [Stream -> Log \union {NoLog}]]
        /\ local' \in [Node -> [Stream -> Log \union {NoLog}]]
    BY <1>4 DEF Evict, TypeOK
  <2>2. TypeOK'
    BY <1>4, <2>1, DetachFields DEF Evict, TypeOK
  <2>3. ASSUME NEW m \in Node, pending'[m].on
        PROVE  /\ pending'[m].dst \in Node /\ pending'[m].stream \in Stream
               /\ pending'[m].log # NoLog
               /\ pending'[m].log = Live => local'[m][pending'[m].stream] # NoLog
    <3>1. /\ pending' = Detach(n, s) /\ local[n][s] # NoLog
          /\ local[n][s] \in Log
          /\ local' = [local EXCEPT ![n][s] = NoLog]
      BY <1>4 DEF Evict, TypeOK
    <3>2. /\ pending[m].on /\ pending'[m].dst = pending[m].dst
          /\ pending'[m].stream = pending[m].stream
          /\ pending'[m].log =
                IF m = n /\ Answering(n, s) /\ pending[n].log = Live
                THEN local[n][s] ELSE pending[m].log
      BY <2>3, <3>1, DetachFields
    <3> QED
      BY <3>1, <3>2 DEF TypeOK, PendingRefs, Answering
  <2>4. PendingRefs'
    BY <2>3 DEF PendingRefs
  <2> QED
    BY <2>2, <2>4
<1>5. ASSUME NEW n \in Origin, NEW s \in Stream, BeginDeletion(n, s)
      PROVE  TypeOK' /\ PendingRefs'
  <2>1. Max2(clock + 1, tomb[n][s] + 1) \in Nat /\ tomb[n][s] \in Nat
    BY DEF TypeOK, Max2
  <2>2. [on |-> TRUE, ver |-> Max2(clock + 1, tomb[n][s] + 1),
         previous |-> tomb[n][s]] \in DelState
    BY <2>1 DEF DelState
  <2>3. /\ tomb' \in [Node -> [Stream -> Nat]]
        /\ del' \in [Node -> [Stream -> DelState]]
    BY <1>5, <2>1, <2>2 DEF BeginDeletion, TypeOK
  <2> QED
    BY <1>5, <2>3 DEF BeginDeletion, TypeOK, PendingRefs
<1>6. ASSUME NEW n \in Origin, NEW s \in Stream, FinishDeletion(n, s)
      PROVE  TypeOK' /\ PendingRefs'
  <2>1. IdleDel \in DelState /\ del[n][s] \in DelState
    BY DEF IdleDel, DelState, TypeOK
  <2>2. Max2(diskTomb[n][s], del[n][s].ver) \in Nat /\ del[n][s].ver \in Nat
    BY <2>1 DEF TypeOK, DelState, Max2
  <2>3. /\ del' \in [Node -> [Stream -> DelState]]
        /\ disk' \in [Node -> [Stream -> Log \union {NoLog}]]
        /\ local' \in [Node -> [Stream -> Log \union {NoLog}]]
    BY <1>6, <2>1 DEF FinishDeletion, TypeOK
  <2>4. /\ diskTomb' \in [Node -> [Stream -> Nat]]
        /\ delVer' \in [Node -> [Stream -> Nat]]
    BY <1>6, <2>2 DEF FinishDeletion, TypeOK
  <2>5. /\ live' \in [Node -> [Stream -> SUBSET Nat]]
        /\ deleted' \in [Node -> [Stream -> SUBSET Nat]]
    BY <1>6 DEF FinishDeletion, TypeOK
  <2>6. TypeOK'
    BY <1>6, <2>3, <2>4, <2>5, DetachFields DEF FinishDeletion, TypeOK
  <2>7. ASSUME NEW m \in Node, pending'[m].on
        PROVE  /\ pending'[m].dst \in Node /\ pending'[m].stream \in Stream
               /\ pending'[m].log # NoLog
               /\ pending'[m].log = Live => local'[m][pending'[m].stream] # NoLog
    <3>1. /\ pending' = Detach(n, s) /\ local[n][s] \in Log \union {NoLog}
          /\ local' = [local EXCEPT ![n][s] = NoLog]
      BY <1>6 DEF FinishDeletion, TypeOK
    <3>2. /\ pending[m].on /\ pending'[m].dst = pending[m].dst
          /\ pending'[m].stream = pending[m].stream
          /\ pending'[m].log =
                IF m = n /\ Answering(n, s) /\ pending[n].log = Live
                THEN local[n][s] ELSE pending[m].log
      BY <2>7, <3>1, DetachFields
    <3> QED
      BY <3>1, <3>2 DEF TypeOK, PendingRefs, Answering
  <2>8. PendingRefs'
    BY <2>7 DEF PendingRefs
  <2> QED
    BY <2>6, <2>8
<1>7. ASSUME NEW n \in Origin, NEW s \in Stream, RollbackDeletion(n, s)
      PROVE  TypeOK' /\ PendingRefs'
  <2>1. IdleDel \in DelState /\ del[n][s] \in DelState
    BY DEF IdleDel, DelState, TypeOK
  <2>2. /\ del' \in [Node -> [Stream -> DelState]]
        /\ tomb' \in [Node -> [Stream -> Nat]]
    BY <1>7, <2>1 DEF RollbackDeletion, TypeOK, DelState
  <2> QED
    BY <1>7, <2>2 DEF RollbackDeletion, Fault, TypeOK, PendingRefs
<1>8. ASSUME NEW n \in Crasher, Crash(n)
      PROVE  TypeOK' /\ PendingRefs'
  <2>1. IdleDel \in DelState /\ NoPending \in PendingState
    BY DEF IdleDel, DelState, NoPending, PendingState
  <2>2. /\ local' \in [Node -> [Stream -> Log \union {NoLog}]]
        /\ tomb' \in [Node -> [Stream -> Nat]]
        /\ del' \in [Node -> [Stream -> DelState]]
    BY <1>8, <2>1 DEF Crash, TypeOK
  <2>3. /\ snap' \in [Node -> [Stream -> [Node -> Log \union {NoLog}]]]
        /\ ptomb' \in [Node -> [Stream -> [Node -> Nat]]]
        /\ snapKeys' \in [Node -> SUBSET Stream]
        /\ pending' \in [Node -> PendingState]
    BY <1>8, <2>1 DEF Crash, TypeOK
  <2>4. live' \in [Node -> [Stream -> SUBSET Nat]]
    BY <1>8 DEF Crash, TypeOK
  <2>5. TypeOK'
    BY <1>8, <2>2, <2>3, <2>4 DEF Crash, Fault, TypeOK
  <2>6. PendingRefs'
    BY <1>8 DEF Crash, TypeOK, PendingRefs, NoPending
  <2> QED
    BY <2>5, <2>6
<1>9. ASSUME NEW n \in Node, NEW m \in Node, NEW o \in Origin, NEW s \in Stream,
             SendDigest(n, m, s, o)
      PROVE  TypeOK' /\ PendingRefs'
  <2>1. /\ VerOf(local[n][s]) \in Nat /\ tomb[n][s] \in Nat
        /\ VerOf(snap[n][s][o]) \in Nat /\ ptomb[n][s][o] \in Nat
    BY DEF TypeOK, VerOf
  <2>2. Version(n, s, o) \in Nat
    BY <2>1 DEF Version, Known, Max2
  <2>3. PICK v \in {0, Version(n, s, o)} :
            msgs' = msgs \union {Digest(n, m, s, o, v)}
    BY <1>9 DEF SendDigest
  <2>4. Digest(n, m, s, o, v) \in Message
    BY <2>2 DEF Digest, Message
  <2>5. msgs' \subseteq Message
    BY <2>3, <2>4 DEF TypeOK
  <2> QED
    BY <1>9, <2>5 DEF SendDigest, TypeOK, PendingRefs
<1>10. ASSUME NEW q \in msgs, HandleDigest(q)
       PROVE  TypeOK' /\ PendingRefs'
  <2>1. q \in Message /\ q.type = "digest"
    BY <1>10 DEF HandleDigest, TypeOK
  <2>2. DigestAnswer(q) \subseteq Message
    BY <2>1, AnswerType
  <2> QED
    BY <1>10, <2>2 DEF HandleDigest, TypeOK, PendingRefs
<1>11. ASSUME NEW q \in msgs, FulfilRequest(q)
       PROVE  TypeOK' /\ PendingRefs'
  <2>1. q \in Message /\ q.type = "request"
    BY <1>11 DEF FulfilRequest, TypeOK
  <2>2. msgs' \subseteq Message
    BY <1>11, <2>1, FulfilType
  <2>3. /\ pending' \in [Node -> PendingState]
        /\ PendingRefs'
    BY <1>11, <2>1, FulfilType
  <2> QED
    BY <1>11, <2>2, <2>3 DEF FulfilRequest, TypeOK
<1>12. ASSUME NEW u \in msgs, ReceiveSnapshot(u)
       PROVE  TypeOK' /\ PendingRefs'
  <2>1. /\ u.dst \in Node /\ u.stream \in Stream /\ u.origin \in Node
        /\ [data |-> u.data, ver |-> u.ver] \in Log
    BY <1>12, MessageFields, LogRecord DEF ReceiveSnapshot, TypeOK
  <2>2. /\ snap' \in [Node -> [Stream -> [Node -> Log \union {NoLog}]]]
        /\ ptomb' \in [Node -> [Stream -> [Node -> Nat]]]
        /\ snapKeys' \in [Node -> SUBSET Stream]
    BY <1>12, <2>1 DEF ReceiveSnapshot, TypeOK
  <2> QED
    BY <1>12, <2>2 DEF ReceiveSnapshot, TypeOK, PendingRefs
<1>13. ASSUME NEW u \in msgs, ReceiveTombstone(u)
       PROVE  TypeOK' /\ PendingRefs'
  <2>1. u.dst \in Node /\ u.stream \in Stream /\ u.origin \in Node /\ u.ver \in Nat
    BY <1>13, MessageFields DEF ReceiveTombstone, TypeOK
  <2>2. /\ snap' \in [Node -> [Stream -> [Node -> Log \union {NoLog}]]]
        /\ ptomb' \in [Node -> [Stream -> [Node -> Nat]]]
        /\ snapKeys' \in [Node -> SUBSET Stream]
    <3>1. /\ snap' = [snap EXCEPT ![u.dst][u.stream][u.origin] = NoLog]
          /\ ptomb' = [ptomb EXCEPT ![u.dst][u.stream][u.origin] = u.ver]
          /\ \/ snapKeys' = snapKeys
             \/ snapKeys' = [snapKeys EXCEPT ![u.dst] = @ \ {u.stream}]
      BY <1>13 DEF ReceiveTombstone
    <3>2. snap' \in [Node -> [Stream -> [Node -> Log \union {NoLog}]]]
      BY <2>1, <3>1 DEF TypeOK
    <3>3. ptomb' \in [Node -> [Stream -> [Node -> Nat]]]
      BY <2>1, <3>1 DEF TypeOK
    <3>4. snapKeys \in [Node -> SUBSET Stream] /\ u.dst \in Node
      BY <2>1 DEF TypeOK
    <3>5. snapKeys[u.dst] \ {u.stream} \in SUBSET Stream
      BY <3>4
    <3>6. snapKeys' \in [Node -> SUBSET Stream]
      BY <3>1, <3>4, <3>5
    <3> QED
      BY <3>2, <3>3, <3>6
  <2> QED
    BY <1>13, <2>2 DEF ReceiveTombstone, TypeOK, PendingRefs
<1>14. ASSUME NEW u \in msgs, ReceiveIgnored(u)
       PROVE  TypeOK' /\ PendingRefs'
  BY <1>14 DEF ReceiveIgnored, TypeOK, PendingRefs
<1>15. ASSUME NEW n \in Node, SendSnapshot(n)
       PROVE  TypeOK' /\ PendingRefs'
  <2>1. NoPending \in PendingState /\ NoPending.on = FALSE
    BY DEF NoPending, PendingState
  <2>2. msgs' \subseteq Message
    BY <1>15, MessageType DEF SendSnapshot, TypeOK, PendingRefs, PendingState
  <2> QED
    BY <1>15, <2>1, <2>2 DEF SendSnapshot, TypeOK, PendingRefs
<1>16. ASSUME NEW q \in msgs, Lose(q)
       PROVE  TypeOK' /\ PendingRefs'
  BY <1>16 DEF Lose, Fault, TypeOK, PendingRefs
<1>17. ASSUME NEW n \in Node, NEW o \in Origin, ForgetOrigin(n, o)
       PROVE  TypeOK' /\ PendingRefs'
  <2>1. snap' \in [Node -> [Stream -> [Node -> Log \union {NoLog}]]]
    BY <1>17 DEF ForgetOrigin, TypeOK
  <2>2. /\ faults' \in Nat
        /\ UNCHANGED <<localVars, ptomb, snapKeys, pending, msgs, clock, ghostVars>>
    BY <1>17 DEF ForgetOrigin, Fault, TypeOK
  <2> QED
    BY <2>1, <2>2 DEF TypeOK, PendingRefs
<1>18. CASE UNCHANGED vars
  BY <1>18 DEF vars, TypeOK, PendingRefs
<1> QED
  BY <1>1, <1>2, <1>3, <1>4, <1>5, <1>6, <1>7, <1>8, <1>9, <1>10, <1>11, <1>12,
     <1>13, <1>14, <1>15, <1>16, <1>17, <1>18
     DEF Next, ClientStep, Deliver

\* Type correctness: whatever the mesh does, every variable keeps its type.
\* In particular the gossip thread never reads a stream that left the
\* registry under it (_gossip_state keeps the object).
THEOREM TypeCorrect == Spec => []TypeOK
<1>1. Init => TypeOK /\ PendingRefs
  BY TypeInit
<1>2. TypeOK /\ PendingRefs /\ [Next]_vars => TypeOK' /\ PendingRefs'
  BY TypeStep
<1> QED
  BY <1>1, <1>2, PTL DEF Spec

-----------------------------------------------------------------------------
(* Where copies come from.  A step can only pass on a copy that exists, or  *)
(* make one of the log that is resident at the origin; the rest of the      *)
(* proofs follows the copies through this fact and not through the actions. *)

\* The copies that origin o may hand out of the log it holds: under the
\* log's version, or under the version its gossip thread read before.
Fresh(o, s) ==
    IF local[o][s] = NoLog THEN {}
    ELSE {[data |-> local[o][s].data, ver |-> v] :
             v \in {local[o][s].ver} \union
                   (IF Answering(o, s) THEN {pending[o].ver} ELSE {})}

\* A log is the record of its fields.
LEMMA LogEta ==
    ASSUME NEW x \in Log
    PROVE  x = [data |-> x.data, ver |-> x.ver]
  BY DEF Log

\* A peer's new snapshot arrived in a message.
LEMMA SnapSource ==
    ASSUME TypeOK, PendingRefs, [Next]_vars, NEW o \in Node, NEW s \in Stream
    PROVE  SnapCopies(o, s)' \subseteq SnapCopies(o, s) \union SentCopies(o, s)
<1> USE DEF SnapCopies
<1>1. CASE UNCHANGED snap
  BY <1>1
<1>2. ASSUME NEW n \in Crasher, Crash(n)
      PROVE  SnapCopies(o, s)' \subseteq SnapCopies(o, s)
  <2>1. \A m \in Node : snap'[m][s][o] \in {snap[m][s][o], NoLog}
    BY <1>2, Sentinels DEF Crash, TypeOK
  <2> QED
    BY <2>1
<1>3. ASSUME NEW n \in Node, NEW p \in Origin, ForgetOrigin(n, p)
      PROVE  SnapCopies(o, s)' \subseteq SnapCopies(o, s)
  <2>1. \A m \in Node : snap'[m][s][o] \in {snap[m][s][o], NoLog}
    BY <1>3, Sentinels DEF ForgetOrigin, TypeOK
  <2> QED
    BY <2>1
<1>4. ASSUME NEW u \in msgs, ReceiveTombstone(u)
      PROVE  SnapCopies(o, s)' \subseteq SnapCopies(o, s)
  <2>1. /\ u.dst \in Node /\ u.stream \in Stream /\ u.origin \in Node
        /\ snap' = [snap EXCEPT ![u.dst][u.stream][u.origin] = NoLog]
    BY <1>4, MessageFields DEF ReceiveTombstone, TypeOK
  <2>2. \A m \in Node : snap'[m][s][o] \in {snap[m][s][o], NoLog}
    BY <2>1 DEF TypeOK
  <2> QED
    BY <2>2
<1>5. ASSUME NEW u \in msgs, ReceiveSnapshot(u)
      PROVE  SnapCopies(o, s)' \subseteq SnapCopies(o, s) \union SentCopies(o, s)
  <2> DEFINE new == [data |-> u.data, ver |-> u.ver]
  <2>1. /\ u.dst \in Node /\ u.stream \in Stream /\ u.origin \in Node
        /\ u.type = "update" /\ ~u.tomb
        /\ snap' = [snap EXCEPT ![u.dst][u.stream][u.origin] = new]
    BY <1>5, MessageFields DEF ReceiveSnapshot, TypeOK
  <2>2. u.origin = o /\ u.stream = s => new \in SentCopies(o, s)
    BY <2>1 DEF SentCopies
  <2> HIDE DEF new
  <2>3. \A m \in Node : \/ snap'[m][s][o] = snap[m][s][o]
                        \/ snap'[m][s][o] = new /\ u.origin = o /\ u.stream = s
    BY <2>1 DEF TypeOK
  <2> QED
    BY <2>2, <2>3
<1>6. ASSUME NEW n \in Origin, NEW t \in Stream, ClientStep(n, t)
      PROVE  UNCHANGED snap
  BY <1>6 DEF ClientStep, Ingest, Reload, Save, Evict, BeginDeletion,
              FinishDeletion, RollbackDeletion, peerVars
<1>7. ASSUME NEW n \in Node, NEW m \in Node, NEW p \in Origin, NEW t \in Stream,
             SendDigest(n, m, t, p)
      PROVE  UNCHANGED snap
  BY <1>7 DEF SendDigest, peerVars
<1>8. ASSUME NEW q \in msgs,
             HandleDigest(q) \/ FulfilRequest(q) \/ ReceiveIgnored(q) \/ Lose(q)
      PROVE  UNCHANGED snap
  BY <1>8 DEF HandleDigest, FulfilRequest, ReceiveIgnored, Lose, peerVars
<1>9. ASSUME NEW n \in Node, SendSnapshot(n)
      PROVE  UNCHANGED snap
  BY <1>9 DEF SendSnapshot, peerVars
<1>10. CASE UNCHANGED vars
  BY <1>10 DEF vars, peerVars
<1> QED
  BY <1>1, <1>2, <1>3, <1>4, <1>5, <1>6, <1>7, <1>8, <1>9, <1>10
     DEF Next, Deliver

\* A log that the gossip thread detaches was the registry's own.
LEMMA PendingSource ==
    ASSUME TypeOK, PendingRefs, [Next]_vars, NEW o \in Node, NEW s \in Stream
    PROVE  PendingCopies(o, s)' \subseteq PendingCopies(o, s) \union Fresh(o, s)
<1> USE DEF PendingCopies, Answering
<1>1. CASE UNCHANGED pending
  BY <1>1
<1>2. ASSUME NEW n \in Node, NEW t \in Stream, pending' = Detach(n, t)
      PROVE  PendingCopies(o, s)' \subseteq PendingCopies(o, s) \union Fresh(o, s)
  <2>1. /\ pending'[o].on = pending[o].on
        /\ pending'[o].stream = pending[o].stream
        /\ pending'[o].ver = pending[o].ver
        /\ pending'[o].log =
              IF o = n /\ Answering(n, t) /\ pending[n].log = Live
              THEN local[n][t] ELSE pending[o].log
    BY <1>2, DetachFields
  <2>2. CASE Answering(o, s) /\ o = n /\ t = s /\ pending[n].log = Live
    <3>1. local[o][s] # NoLog
      BY <2>2 DEF PendingRefs
    <3>2. PendingCopies(o, s)' \subseteq
             {[data |-> local[o][s].data, ver |-> pending[o].ver]}
      BY <2>1, <2>2
    <3> QED
      BY <2>2, <3>1, <3>2 DEF Fresh
  <2>3. CASE ~(Answering(o, s) /\ o = n /\ t = s /\ pending[n].log = Live)
    BY <2>1, <2>3
  <2> QED
    BY <2>2, <2>3
<1>3. ASSUME NEW n \in Node, pending' = [pending EXCEPT ![n] = NoPending]
      PROVE  PendingCopies(o, s)' \subseteq PendingCopies(o, s)
  BY <1>3 DEF TypeOK, NoPending
<1>4. ASSUME NEW n \in Node, NEW p,
             pending' = [pending EXCEPT ![n] = p], p.log = Live
      PROVE  PendingCopies(o, s)' \subseteq PendingCopies(o, s)
  BY <1>4 DEF TypeOK
<1>5. ASSUME NEW n \in Origin, NEW t \in Stream, ClientStep(n, t)
      PROVE  pending' = pending \/ pending' = Detach(n, t)
  BY <1>5 DEF ClientStep, Ingest, Reload, Save, Evict, BeginDeletion,
              FinishDeletion, RollbackDeletion
<1>6. ASSUME NEW n \in Crasher, Crash(n)
      PROVE  pending' = [pending EXCEPT ![n] = NoPending]
  BY <1>6 DEF Crash
<1>7. ASSUME NEW n \in Node, SendSnapshot(n)
      PROVE  pending' = [pending EXCEPT ![n] = NoPending]
  BY <1>7 DEF SendSnapshot
<1>8. ASSUME NEW q \in msgs, FulfilRequest(q)
      PROVE  \/ pending' = pending
             \/ \E p : pending' = [pending EXCEPT ![q.dst] = p] /\ p.log = Live
  <2> DEFINE log == IF q.origin = q.dst THEN local[q.dst][q.stream]
                    ELSE snap[q.dst][q.stream][q.origin]
             new == [on |-> TRUE, dst |-> q.src, stream |-> q.stream,
                     ver |-> log.ver, log |-> Live]
  <2>1. pending' = pending \/ pending' = [pending EXCEPT ![q.dst] = new]
    BY <1>8 DEF FulfilRequest
  <2>2. new.log = Live
    OBVIOUS
  <2> HIDE DEF new
  <2> QED
    BY <2>1, <2>2
<1>9. \A q \in msgs : q.dst \in Node
  BY MessageFields DEF TypeOK
<1>10. ASSUME NEW q \in msgs,
              HandleDigest(q) \/ ReceiveSnapshot(q) \/ ReceiveTombstone(q)
              \/ ReceiveIgnored(q) \/ Lose(q)
       PROVE  UNCHANGED pending
  BY <1>10 DEF HandleDigest, ReceiveSnapshot, ReceiveTombstone, ReceiveIgnored,
               Lose
<1>11. ASSUME NEW n \in Node, NEW m \in Node, NEW p \in Origin, NEW t \in Stream,
              SendDigest(n, m, t, p)
       PROVE  UNCHANGED pending
  BY <1>11 DEF SendDigest
<1>12. ASSUME NEW n \in Node, NEW p \in Origin, ForgetOrigin(n, p)
       PROVE  UNCHANGED pending
  BY <1>12 DEF ForgetOrigin
<1>13. CASE UNCHANGED vars
  BY <1>13 DEF vars
<1> HIDE DEF PendingCopies
<1> QED
  BY <1>1, <1>2, <1>3, <1>4, <1>5, <1>6, <1>7, <1>8, <1>9, <1>10, <1>11, <1>12,
     <1>13, Sentinels
     DEF Next, Deliver

\* The log a node answers with is a copy of the entry, or its own stream.
LEMMA AnswerSource ==
    ASSUME TypeOK, NEW m \in Node, NEW o \in Node, NEW s \in Stream,
           NEW log, log = IF o = m THEN local[m][s] ELSE snap[m][s][o],
           log # NoLog
    PROVE  [data |-> log.data, ver |-> log.ver] \in SnapCopies(o, s) \union Fresh(o, s)
<1>1. CASE o = m
  BY <1>1 DEF Fresh
<1>2. CASE o # m
  <2>1. log \in Log /\ log \in SnapCopies(o, s)
    BY <1>2 DEF TypeOK, SnapCopies
  <2> QED
    BY <2>1, LogEta
<1> QED
  BY <1>1, <1>2

\* A message carries a copy that exists, or one of the resident log.
LEMMA SentSource ==
    ASSUME TypeOK, PendingRefs, [Next]_vars, NEW o \in Node, NEW s \in Stream
    PROVE  SentCopies(o, s)' \subseteq Copies(o, s) \union Fresh(o, s)
<1>1. CASE msgs' \subseteq msgs
  BY <1>1 DEF SentCopies, Copies
<1>2. ASSUME NEW n \in Node, NEW m \in Node, NEW p \in Origin, NEW t \in Stream,
             SendDigest(n, m, t, p)
      PROVE  SentCopies(o, s)' \subseteq SentCopies(o, s)
  <2>1. PICK v : msgs' = msgs \union {Digest(n, m, t, p, v)}
    BY <1>2 DEF SendDigest
  <2>2. Digest(n, m, t, p, v).type # "update"
    BY DEF Digest
  <2> QED
    BY <2>1, <2>2 DEF SentCopies
<1>3. ASSUME NEW q \in msgs, HandleDigest(q)
      PROVE  SentCopies(o, s)' \subseteq Copies(o, s) \union Fresh(o, s)
  <2> DEFINE m == q.dst
             log == IF q.origin = m THEN local[m][q.stream]
                    ELSE snap[m][q.stream][q.origin]
             t == IF q.origin = m THEN tomb[m][q.stream]
                  ELSE ptomb[m][q.stream][q.origin]
  <2>1. /\ m \in Node /\ q.stream \in Stream /\ q.origin \in Node
        /\ q.ver \in Nat
    BY <1>3, MessageFields DEF HandleDigest, TypeOK
  <2>2. msgs' \subseteq msgs \union DigestAnswer(q)
    BY <1>3 DEF HandleDigest
  <2>3. \A w \in DigestAnswer(q) :
            \/ w = Request(m, q.src, q.stream, q.origin)
            \/ w = Tombstone(q.src, q.stream, q.origin, t)
            \/ /\ w = Snapshot(q.src, q.stream, q.origin, log.ver, log.data)
               /\ VerOf(log) > q.ver
    BY DEF DigestAnswer
  <2>4. VerOf(log) > q.ver => log # NoLog
    BY <2>1 DEF VerOf
  <2>5. log # NoLog => [data |-> log.data, ver |-> log.ver]
                \in SnapCopies(q.origin, q.stream) \union Fresh(q.origin, q.stream)
    BY <2>1, AnswerSource
  <2> HIDE DEF log, t, m
  <2>6. \A w \in DigestAnswer(q) :
            w.type = "update" /\ ~w.tomb /\ w.origin = o /\ w.stream = s
              => [data |-> w.data, ver |-> w.ver]
                        \in SnapCopies(o, s) \union Fresh(o, s)
    BY <2>3, <2>4, <2>5 DEF Request, Tombstone, Snapshot
  <2>7. SentCopies(o, s)' \subseteq
            SentCopies(o, s) \union (SnapCopies(o, s) \union Fresh(o, s))
    BY <2>2, <2>6 DEF SentCopies
  <2> QED
    BY <2>7 DEF Copies
<1>4. ASSUME NEW q \in msgs, FulfilRequest(q)
      PROVE  SentCopies(o, s)' \subseteq Copies(o, s) \union Fresh(o, s)
  <2> DEFINE m == q.dst
             log == IF q.origin = m THEN local[m][q.stream]
                    ELSE snap[m][q.stream][q.origin]
             t == IF q.origin = m THEN tomb[m][q.stream]
                  ELSE ptomb[m][q.stream][q.origin]
             A == {Tombstone(q.src, q.stream, q.origin, t)} \union
                  (IF log = NoLog THEN {}
                   ELSE {Snapshot(q.src, q.stream, q.origin, log.ver, log.data)})
  <2>1. m \in Node /\ q.stream \in Stream /\ q.origin \in Node
    BY MessageFields DEF TypeOK
  <2>2. t \in Nat
    BY <2>1, SMTT(60) DEF TypeOK
  <2>3. ~(t >= VerOf(log)) => log # NoLog
    BY <2>2 DEF VerOf
  <2>4. msgs' \subseteq msgs \union A
    BY <1>4, <2>3 DEF FulfilRequest
  <2>5. log # NoLog => [data |-> log.data, ver |-> log.ver]
                \in SnapCopies(q.origin, q.stream) \union Fresh(q.origin, q.stream)
    BY <2>1, AnswerSource
  <2> HIDE DEF log, t, m
  <2>6. \A w \in A :
            w.type = "update" /\ ~w.tomb /\ w.origin = o /\ w.stream = s
              => [data |-> w.data, ver |-> w.ver]
                        \in SnapCopies(o, s) \union Fresh(o, s)
    BY <2>5 DEF Tombstone, Snapshot
  <2>7. SentCopies(o, s)' \subseteq
            SentCopies(o, s) \union (SnapCopies(o, s) \union Fresh(o, s))
    BY <2>4, <2>6 DEF SentCopies
  <2> QED
    BY <2>7 DEF Copies
<1>5. ASSUME NEW n \in Node, SendSnapshot(n)
      PROVE  SentCopies(o, s)' \subseteq Copies(o, s) \union Fresh(o, s)
  <2> DEFINE p == pending[n]
             log == IF p.log = Live THEN local[n][p.stream] ELSE p.log
             w == Snapshot(p.dst, p.stream, n, p.ver, log.data)
  <2>1. p.on /\ msgs' = msgs \union {w}
    BY <1>5 DEF SendSnapshot
  <2>2. [data |-> log.data, ver |-> p.ver]
            \in PendingCopies(n, p.stream) \union Fresh(n, p.stream)
    BY <2>1 DEF PendingRefs, PendingCopies, Fresh, Answering
  <2>3. w.origin = n /\ w.stream = p.stream /\ w.data = log.data /\ w.ver = p.ver
    BY DEF Snapshot
  <2> HIDE DEF p, log, w
  <2>4. SentCopies(o, s)' \subseteq
            SentCopies(o, s) \union (PendingCopies(o, s) \union Fresh(o, s))
    BY <2>1, <2>2, <2>3 DEF SentCopies
  <2> QED
    BY <2>4 DEF Copies
<1>6. ASSUME NEW n \in Origin, NEW t \in Stream, ClientStep(n, t)
      PROVE  msgs' \subseteq msgs
  BY <1>6 DEF ClientStep, Ingest, Reload, Save, Evict, BeginDeletion,
              FinishDeletion, RollbackDeletion
<1>7. ASSUME NEW q \in msgs,
             ReceiveSnapshot(q) \/ ReceiveTombstone(q) \/ ReceiveIgnored(q) \/ Lose(q)
      PROVE  msgs' \subseteq msgs
  BY <1>7 DEF ReceiveSnapshot, ReceiveTombstone, ReceiveIgnored, Lose
<1>8. ASSUME NEW n \in Crasher, Crash(n)
      PROVE  msgs' \subseteq msgs
  BY <1>8 DEF Crash
<1>9. ASSUME NEW n \in Node, NEW p \in Origin, ForgetOrigin(n, p)
      PROVE  msgs' \subseteq msgs
  BY <1>9 DEF ForgetOrigin
<1>10. CASE UNCHANGED vars
  BY <1>1, <1>10 DEF vars
<1>11. SentCopies(o, s) \subseteq Copies(o, s)
  BY DEF Copies
<1> QED
  BY <1>1, <1>2, <1>3, <1>4, <1>5, <1>6, <1>7, <1>8, <1>9, <1>10, <1>11
     DEF Next, Deliver

\* Every copy after a step existed before it or is of the resident log.
LEMMA CopySource ==
    ASSUME TypeOK, PendingRefs, [Next]_vars, NEW o \in Node, NEW s \in Stream
    PROVE  Copies(o, s)' \subseteq Copies(o, s) \union Fresh(o, s)
<1>1. SnapCopies(o, s)' \subseteq SnapCopies(o, s) \union SentCopies(o, s)
  BY SnapSource
<1>2. PendingCopies(o, s)' \subseteq PendingCopies(o, s) \union Fresh(o, s)
  BY PendingSource
<1>3. SentCopies(o, s)' \subseteq Copies(o, s) \union Fresh(o, s)
  BY SentSource
<1> QED
  BY <1>1, <1>2, <1>3 DEF Copies

-----------------------------------------------------------------------------
(* What a step does to one stream of one origin                             *)

\* The step leaves the origin's stream, and what it knows of it, alone.
Untouched(o, s) ==
    /\ local'[o][s] = local[o][s] /\ disk'[o][s] = disk[o][s]
    /\ tomb'[o][s] = tomb[o][s] /\ diskTomb'[o][s] = diskTomb[o][s]
    /\ del'[o][s] = del[o][s]
    /\ live'[o][s] = live[o][s] /\ deleted'[o][s] = deleted[o][s]
    /\ delVer'[o][s] = delVer[o][s] /\ raced'[o][s] = raced[o][s]

\* Only a client step on the stream, or a crash of its node, touches it.
LEMMA EntryStep ==
    ASSUME TypeOK, [Next]_vars, NEW o \in Node, NEW s \in Stream
    PROVE  ClientStep(o, s) \/ Crash(o) \/ Untouched(o, s)
<1> USE DEF localVars, ghostVars, Untouched
<1>1. ASSUME NEW n \in Origin, NEW t \in Stream, ClientStep(n, t),
             ~(n = o /\ t = s)
      PROVE  Untouched(o, s)
  <2>1. n \in Node
    BY Sentinels
  <2>2. CASE Reload(n, t) \/ Save(n, t) \/ Evict(n, t)
    BY <1>1, <2>1, <2>2 DEF Reload, Save, Evict, TypeOK
  <2>3. CASE BeginDeletion(n, t) \/ RollbackDeletion(n, t)
    <3>1. \E v, w : /\ tomb' = [tomb EXCEPT ![n][t] = v]
                    /\ del' = [del EXCEPT ![n][t] = w]
                    /\ UNCHANGED <<local, disk, diskTomb, ghostVars>>
      BY <2>3 DEF BeginDeletion, RollbackDeletion
    <3> QED
      BY <1>1, <2>1, <3>1 DEF TypeOK
  <2>4. CASE FinishDeletion(n, t)
    BY <1>1, <2>1, <2>4 DEF FinishDeletion, TypeOK
  <2>5. CASE Ingest(n, t)
    <3>1. \E new : /\ local' = [local EXCEPT ![n][t] = new]
                  /\ live' = [live EXCEPT ![n][t] = @ \union {clock + 1}]
                  /\ raced' = [raced EXCEPT ![n][t] = @ \/ del[n][t].on]
                  /\ UNCHANGED <<disk, tomb, diskTomb, del, deleted, delVer>>
      BY <2>5 DEF Ingest
    <3> QED
      BY <1>1, <2>1, <3>1 DEF TypeOK
  <2> QED
    BY <1>1, <2>2, <2>3, <2>4, <2>5 DEF ClientStep
<1>2. ASSUME NEW n \in Crasher, Crash(n), n # o
      PROVE  Untouched(o, s)
  BY <1>2, Sentinels DEF Crash, TypeOK
<1>3. ASSUME NEW n \in Node, NEW m \in Node, NEW p \in Origin, NEW t \in Stream,
             SendDigest(n, m, t, p)
      PROVE  Untouched(o, s)
  BY <1>3 DEF SendDigest
<1>4. ASSUME NEW q \in msgs, Deliver(q) \/ Lose(q)
      PROVE  Untouched(o, s)
  BY <1>4 DEF Deliver, HandleDigest, FulfilRequest, ReceiveSnapshot,
              ReceiveTombstone, ReceiveIgnored, Lose
<1>5. ASSUME NEW n \in Node, SendSnapshot(n)
      PROVE  Untouched(o, s)
  BY <1>5 DEF SendSnapshot
<1>6. ASSUME NEW n \in Node, NEW p \in Origin, ForgetOrigin(n, p)
      PROVE  Untouched(o, s)
  BY <1>6 DEF ForgetOrigin
<1>7. CASE UNCHANGED vars
  BY <1>7 DEF vars
<1> HIDE DEF Untouched
<1> QED
  BY <1>1, <1>2, <1>3, <1>4, <1>5, <1>6, <1>7 DEF Next

\* The clock never runs backwards.
LEMMA ClockStep ==
    ASSUME TypeOK, [Next]_vars
    PROVE  clock' \in Nat /\ clock' >= clock
<1>1. ASSUME NEW n \in Origin, NEW s \in Stream, ClientStep(n, s)
      PROVE  clock' \in {clock, clock + 1}
  BY <1>1 DEF ClientStep, Ingest, Reload, Save, Evict, BeginDeletion,
              FinishDeletion, RollbackDeletion
<1>2. ASSUME NEW n \in Crasher, Crash(n)
      PROVE  clock' = clock
  BY <1>2 DEF Crash
<1>3. ASSUME NEW n \in Node, NEW m \in Node, NEW o \in Origin, NEW s \in Stream,
             SendDigest(n, m, s, o)
      PROVE  clock' = clock
  BY <1>3 DEF SendDigest
<1>4. ASSUME NEW q \in msgs, Deliver(q) \/ Lose(q)
      PROVE  clock' = clock
  BY <1>4 DEF Deliver, HandleDigest, FulfilRequest, ReceiveSnapshot,
              ReceiveTombstone, ReceiveIgnored, Lose
<1>5. ASSUME NEW n \in Node, SendSnapshot(n)
      PROVE  clock' = clock
  BY <1>5 DEF SendSnapshot
<1>6. ASSUME NEW n \in Node, NEW o \in Origin, ForgetOrigin(n, o)
      PROVE  clock' = clock
  BY <1>6 DEF ForgetOrigin
<1>7. CASE UNCHANGED vars
  BY <1>7 DEF vars, TypeOK
<1>8. clock' \in {clock, clock + 1}
  BY <1>1, <1>2, <1>3, <1>4, <1>5, <1>6, <1>7 DEF Next, vars
<1> QED
  BY <1>8 DEF TypeOK

\* The version of a pending answer is the one read when it was taken up.
LEMMA PendingVersion ==
    ASSUME TypeOK, PendingRefs, [Next]_vars, NEW o \in Node, NEW s \in Stream,
           Answering(o, s)'
    PROVE  \/ Answering(o, s) /\ pending'[o].ver = pending[o].ver
           \/ /\ local[o][s] # NoLog /\ pending'[o].ver = local[o][s].ver
              /\ Untouched(o, s)
<1> USE DEF Answering
<1>1. CASE UNCHANGED pending
  BY <1>1
<1>2. ASSUME NEW n \in Origin, NEW t \in Stream, ClientStep(n, t)
      PROVE  Answering(o, s) /\ pending'[o].ver = pending[o].ver
  <2>1. pending' = pending \/ pending' = Detach(n, t)
    BY <1>2 DEF ClientStep, Ingest, Reload, Save, Evict, BeginDeletion,
                FinishDeletion, RollbackDeletion
  <2> QED
    BY <2>1, DetachFields, Sentinels
<1>3. ASSUME NEW n \in Node, pending' = [pending EXCEPT ![n] = NoPending]
      PROVE  Answering(o, s) /\ pending'[o].ver = pending[o].ver
  BY <1>3 DEF TypeOK, NoPending
<1>4. ASSUME NEW n \in Crasher, Crash(n)
      PROVE  pending' = [pending EXCEPT ![n] = NoPending]
  BY <1>4 DEF Crash
<1>5. ASSUME NEW n \in Node, SendSnapshot(n)
      PROVE  pending' = [pending EXCEPT ![n] = NoPending]
  BY <1>5 DEF SendSnapshot
<1>6. ASSUME NEW q \in msgs, FulfilRequest(q), pending' # pending
      PROVE  \/ Answering(o, s) /\ pending'[o].ver = pending[o].ver
             \/ /\ local[o][s] # NoLog /\ pending'[o].ver = local[o][s].ver
                /\ Untouched(o, s)
  <2>1. q.dst \in Node /\ q.stream \in Stream
    BY MessageFields DEF TypeOK
  <2>2. /\ tomb[q.dst][q.stream] \in Nat
        /\ ~(tomb[q.dst][q.stream] >= VerOf(local[q.dst][q.stream]))
        /\ pending' = [pending EXCEPT ![q.dst] =
                [on |-> TRUE, dst |-> q.src, stream |-> q.stream,
                 ver |-> local[q.dst][q.stream].ver, log |-> Live]]
    <3>1. tomb[q.dst][q.stream] \in Nat
      BY <2>1 DEF TypeOK
    <3>2. q.origin = q.dst
      BY <1>6 DEF FulfilRequest
    <3> QED
      BY <1>6, <3>1, <3>2 DEF FulfilRequest
  <2>3. local[q.dst][q.stream] # NoLog
    BY <2>2 DEF VerOf
  <2>4. Untouched(o, s)
    BY <1>6 DEF FulfilRequest, localVars, ghostVars, Untouched
  <2> QED
    BY <2>1, <2>2, <2>3, <2>4 DEF TypeOK
<1>7. ASSUME NEW q \in msgs,
             HandleDigest(q) \/ ReceiveSnapshot(q) \/ ReceiveTombstone(q)
             \/ ReceiveIgnored(q) \/ Lose(q)
      PROVE  UNCHANGED pending
  BY <1>7 DEF HandleDigest, ReceiveSnapshot, ReceiveTombstone, ReceiveIgnored,
              Lose
<1>8. ASSUME NEW n \in Node, NEW m \in Node, NEW p \in Origin, NEW t \in Stream,
             SendDigest(n, m, t, p)
      PROVE  UNCHANGED pending
  BY <1>8 DEF SendDigest
<1>9. ASSUME NEW n \in Node, NEW p \in Origin, ForgetOrigin(n, p)
      PROVE  UNCHANGED pending
  BY <1>9 DEF ForgetOrigin
<1>10. CASE UNCHANGED vars
  BY <1>1, <1>10 DEF vars
<1> QED
  BY <1>1, <1>2, <1>3, <1>4, <1>5, <1>6, <1>7, <1>8, <1>9, <1>10, Sentinels
     DEF Next, Deliver

\* The step at the entry it touches, read off the actions.
LEMMA IngestAt ==
    ASSUME TypeOK, NEW o \in Node, NEW s \in Stream, Ingest(o, s)
    PROVE  /\ local'[o][s] \in Log
           /\ local'[o][s].ver = clock + 1 /\ clock' = clock + 1
           /\ local'[o][s].data =
                 DataOf(IF local[o][s] # NoLog THEN local[o][s] ELSE disk[o][s])
                     \union {clock + 1}
           /\ live'[o][s] = live[o][s] \union {clock + 1}
           /\ raced'[o][s] = (raced[o][s] \/ del[o][s].on)
           /\ UNCHANGED <<disk, tomb, diskTomb, del, deleted, delVer, pending>>
<1> DEFINE old == IF local[o][s] # NoLog THEN local[o][s] ELSE disk[o][s]
           new == [data |-> DataOf(old) \union {clock + 1}, ver |-> clock + 1]
<1>1. old \in Log \union {NoLog} /\ clock \in Nat
  BY DEF TypeOK
<1>2. new \in Log
  BY <1>1, LogReaders, LogRecord
<1>3. local' = [local EXCEPT ![o][s] = new]
  BY DEF Ingest
<1>4. /\ live' = [live EXCEPT ![o][s] = @ \union {clock + 1}]
      /\ raced' = [raced EXCEPT ![o][s] = @ \/ del[o][s].on]
      /\ clock' = clock + 1
      /\ UNCHANGED <<disk, tomb, diskTomb, del, deleted, delVer, pending>>
  BY DEF Ingest
<1>5. local'[o][s] = new
  BY <1>3 DEF TypeOK
<1>6. live'[o][s] = live[o][s] \union {clock + 1}
  BY <1>4 DEF TypeOK
<1>7. raced'[o][s] = (raced[o][s] \/ del[o][s].on)
  BY <1>4 DEF TypeOK
<1> QED
  BY <1>2, <1>4, <1>5, <1>6, <1>7

\* Reload, save and evict only move the origin's log.
LEMMA MoveAt ==
    ASSUME TypeOK, NEW o \in Node, NEW s \in Stream,
           Reload(o, s) \/ Save(o, s) \/ Evict(o, s)
    PROVE  /\ \/ local[o][s] = NoLog /\ local'[o][s] = disk[o][s]
                 /\ disk'[o][s] = disk[o][s]
              \/ local[o][s] # NoLog /\ local'[o][s] \in {local[o][s], NoLog}
                 /\ disk'[o][s] = local[o][s]
           /\ UNCHANGED <<clock, tomb, diskTomb, del, ghostVars>>
<1>1. CASE Reload(o, s)
  BY <1>1 DEF Reload, TypeOK
<1>2. CASE Save(o, s)
  <2>1. VerOf(disk[o][s]) \in Nat
    BY LogReaders DEF TypeOK
  <2>2. local[o][s] # NoLog
    BY <1>2, <2>1 DEF Save, VerOf
  <2> QED
    BY <1>2, <2>2 DEF Save, TypeOK
<1>3. CASE Evict(o, s)
  BY <1>3 DEF Evict, TypeOK
<1> QED
  BY <1>1, <1>2, <1>3

\* begin_deletion stamps its tombstone after everything that exists.
LEMMA BeginAt ==
    ASSUME TypeOK, TombsBounded, NEW o \in Node, NEW s \in Stream,
           BeginDeletion(o, s)
    PROVE  /\ clock' = clock + 1
           /\ tomb'[o][s] = clock + 1
           /\ del'[o][s].on /\ del'[o][s].ver = clock + 1
           /\ del'[o][s].previous = tomb[o][s]
           /\ UNCHANGED <<local, disk, diskTomb, ghostVars, pending>>
<1>1. tomb[o][s] \in Nat /\ clock \in Nat /\ tomb[o][s] <= clock
  BY DEF TypeOK, TombsBounded
<1>2. Max2(clock + 1, tomb[o][s] + 1) = clock + 1
  BY <1>1 DEF Max2
<1> QED
  BY <1>2 DEF BeginDeletion, TypeOK

\* The end of a deletion at its entry.
LEMMA FinishAt ==
    ASSUME TypeOK, NEW o \in Node, NEW s \in Stream, FinishDeletion(o, s)
    PROVE  /\ del[o][s].on /\ ~del'[o][s].on
           /\ del'[o][s].ver = 0 /\ del'[o][s].previous = 0
           /\ local'[o][s] = NoLog /\ disk'[o][s] = NoLog
           /\ diskTomb'[o][s] = Max2(diskTomb[o][s], del[o][s].ver)
           /\ live'[o][s] = {}
           /\ deleted'[o][s] = deleted[o][s] \union live[o][s]
           /\ delVer'[o][s] = del[o][s].ver
           /\ UNCHANGED <<clock, tomb, raced>>
  BY DEF FinishDeletion, IdleDel, TypeOK

\* A failed deletion at its entry.
LEMMA RollbackAt ==
    ASSUME TypeOK, NEW o \in Node, NEW s \in Stream, RollbackDeletion(o, s)
    PROVE  /\ ~del'[o][s].on /\ del'[o][s].ver = 0 /\ del'[o][s].previous = 0
           /\ tomb'[o][s] = del[o][s].previous
           /\ UNCHANGED <<local, disk, diskTomb, pending, clock, ghostVars>>
  BY DEF RollbackDeletion, IdleDel, TypeOK

\* A crash at one entry of the node.
LEMMA CrashAt ==
    ASSUME TypeOK, NEW o \in Node, NEW s \in Stream, Crash(o)
    PROVE  /\ ~del'[o][s].on /\ del'[o][s].ver = 0 /\ del'[o][s].previous = 0
           /\ local'[o][s] = NoLog /\ disk'[o][s] = disk[o][s]
           /\ tomb'[o][s] = diskTomb[o][s] /\ diskTomb'[o][s] = diskTomb[o][s]
           /\ live'[o][s] = live[o][s] \intersect DataOf(disk[o][s])
           /\ UNCHANGED <<clock, deleted, delVer, raced>>
  BY DEF Crash, IdleDel, TypeOK

\* The step at an entry, by cases.
LEMMA EntryCases ==
    ASSUME TypeOK, [Next]_vars, NEW o \in Node, NEW s \in Stream
    PROVE  \/ Untouched(o, s) \/ Ingest(o, s)
           \/ (Reload(o, s) \/ Save(o, s) \/ Evict(o, s))
           \/ BeginDeletion(o, s) \/ FinishDeletion(o, s)
           \/ RollbackDeletion(o, s) \/ Crash(o)
  BY EntryStep DEF ClientStep

-----------------------------------------------------------------------------
(* Nothing is newer than the clock                                          *)

\* Copies are logs.
LEMMA CopiesAreLogs ==
    ASSUME TypeOK, PendingRefs, NEW o \in Node, NEW s \in Stream
    PROVE  Copies(o, s) \subseteq Log /\ Fresh(o, s) \subseteq Log
<1>1. SnapCopies(o, s) \subseteq Log
  BY DEF SnapCopies, TypeOK
<1>2. SentCopies(o, s) \subseteq Log
  <2> SUFFICES ASSUME NEW u \in msgs, u.type = "update"
               PROVE  [data |-> u.data, ver |-> u.ver] \in Log
    BY DEF SentCopies
  <2>1. u.data \in SUBSET Nat /\ u.ver \in Nat
    BY MessageFields DEF TypeOK
  <2> QED
    BY <2>1, LogRecord
<1>3. PendingCopies(o, s) \subseteq Log
  <2> SUFFICES ASSUME pending[o].on, pending[o].log # Live
               PROVE  [data |-> pending[o].log.data, ver |-> pending[o].ver] \in Log
    BY DEF PendingCopies, Answering
  <2>1. pending[o].ver \in Nat /\ pending[o].log \in Log
    BY DEF TypeOK, PendingState, PendingRefs
  <2>2. pending[o].log.data \in SUBSET Nat
    BY <2>1, Sentinels
  <2> QED
    BY <2>1, <2>2, LogRecord
<1>4. Fresh(o, s) \subseteq Log
  <2>1. pending[o].ver \in Nat
    BY DEF TypeOK, PendingState
  <2>2. CASE local[o][s] # NoLog
    <3>1. local[o][s] \in Log
      BY <2>2 DEF TypeOK
    <3> QED
      BY <2>1, <2>2, <3>1, LogRecord, Sentinels DEF Fresh
  <2>3. CASE local[o][s] = NoLog
    BY <2>3 DEF Fresh
  <2> QED
    BY <2>2, <2>3
<1> QED
  BY <1>1, <1>2, <1>3, <1>4 DEF Copies

\* What the origin hands out carries its data and a version it has had.
LEMMA FreshFields ==
    ASSUME NEW o \in Node, NEW s \in Stream, NEW x \in Fresh(o, s)
    PROVE  /\ local[o][s] # NoLog /\ x.data = local[o][s].data
           /\ \/ x.ver = local[o][s].ver
              \/ Answering(o, s) /\ x.ver = pending[o].ver
  BY DEF Fresh

\* No log is newer than the clock, wherever it is.
LEMMA LogsBoundedStep ==
    ASSUME TypeOK, PendingRefs, LogsBounded, TombsBounded, [Next]_vars
    PROVE  LogsBounded'
<1> SUFFICES ASSUME NEW o \in Node, NEW s \in Stream
             PROVE  /\ VerOf(local'[o][s]) <= clock' /\ VerOf(disk'[o][s]) <= clock'
                    /\ Answering(o, s)' => pending'[o].ver <= clock'
                    /\ \A x \in Copies(o, s)' : x.ver <= clock'
  BY DEF LogsBounded, VerOf
<1>1. clock \in Nat /\ clock' \in Nat /\ clock' >= clock
  BY ClockStep DEF TypeOK
<1>2. /\ VerOf(local[o][s]) \in Nat /\ VerOf(disk[o][s]) \in Nat
      /\ VerOf(local[o][s]) <= clock /\ VerOf(disk[o][s]) <= clock
  BY LogReaders DEF TypeOK, LogsBounded
<1>3. VerOf(local'[o][s]) <= clock' /\ VerOf(disk'[o][s]) <= clock'
  <2>1. CASE Untouched(o, s)
    BY <1>1, <1>2, <2>1 DEF Untouched
  <2>2. CASE Ingest(o, s)
    BY <1>1, <1>2, <2>2, IngestAt, Sentinels DEF VerOf
  <2>3. CASE Reload(o, s) \/ Save(o, s) \/ Evict(o, s)
    <3>1. /\ local'[o][s] \in {local[o][s], disk[o][s], NoLog}
          /\ disk'[o][s] \in {local[o][s], disk[o][s]}
      BY <2>3, MoveAt
    <3> QED
      BY <1>1, <1>2, <3>1 DEF VerOf
  <2>4. CASE BeginDeletion(o, s) \/ RollbackDeletion(o, s)
    BY <1>1, <1>2, <2>4, BeginAt, RollbackAt
  <2>5. CASE FinishDeletion(o, s) \/ Crash(o)
    BY <1>1, <1>2, <2>5, FinishAt, CrashAt DEF VerOf
  <2> QED
    BY <2>1, <2>2, <2>3, <2>4, <2>5, EntryCases
<1>4. Answering(o, s) => pending[o].ver \in Nat /\ pending[o].ver <= clock
  BY DEF TypeOK, PendingState, LogsBounded
<1>5. ASSUME Answering(o, s)' PROVE pending'[o].ver <= clock'
  <2>1. CASE Answering(o, s) /\ pending'[o].ver = pending[o].ver
    BY <1>1, <1>4, <2>1
  <2>2. CASE local[o][s] # NoLog /\ pending'[o].ver = local[o][s].ver
    BY <1>1, <1>2, <2>2 DEF VerOf
  <2> QED
    BY <1>5, <2>1, <2>2, PendingVersion
<1>6. ASSUME NEW x \in Copies(o, s)' PROVE x.ver <= clock'
  <2>1. x \in Copies(o, s) \union Fresh(o, s)
    BY <1>6, CopySource
  <2>2. x \in Log /\ x.ver \in Nat
    BY <2>1, CopiesAreLogs, Sentinels
  <2>3. CASE x \in Copies(o, s)
    BY <1>1, <2>2, <2>3 DEF LogsBounded
  <2>4. CASE x \in Fresh(o, s)
    BY <1>1, <1>2, <1>4, <2>2, <2>4, FreshFields DEF VerOf
  <2> QED
    BY <2>1, <2>3, <2>4
<1> QED
  BY <1>3, <1>5, <1>6

\* A peer's new tombstone arrived in a message.
LEMMA PtombSource ==
    ASSUME TypeOK, [Next]_vars, NEW n \in Node, NEW s \in Stream, NEW o \in Node
    PROVE  \/ ptomb'[n][s][o] \in {ptomb[n][s][o], 0}
           \/ \E u \in msgs : /\ u.type = "update" /\ u.tomb
                              /\ ptomb'[n][s][o] = u.ver
<1>1. ASSUME NEW m \in Crasher, Crash(m)
      PROVE  ptomb'[n][s][o] \in {ptomb[n][s][o], 0}
  BY <1>1, Sentinels DEF Crash, TypeOK
<1>2. ASSUME NEW u \in msgs, ReceiveSnapshot(u)
      PROVE  ptomb'[n][s][o] \in {ptomb[n][s][o], 0}
  <2>1. /\ u.dst \in Node /\ u.stream \in Stream /\ u.origin \in Node
        /\ ptomb' = [ptomb EXCEPT ![u.dst][u.stream][u.origin] = 0]
    BY <1>2, MessageFields DEF ReceiveSnapshot, TypeOK
  <2> QED
    BY <2>1 DEF TypeOK
<1>3. ASSUME NEW u \in msgs, ReceiveTombstone(u)
      PROVE  \/ ptomb'[n][s][o] = ptomb[n][s][o]
             \/ u.type = "update" /\ u.tomb /\ ptomb'[n][s][o] = u.ver
  <2>1. /\ u.dst \in Node /\ u.stream \in Stream /\ u.origin \in Node
        /\ u.type = "update" /\ u.tomb
        /\ ptomb' = [ptomb EXCEPT ![u.dst][u.stream][u.origin] = u.ver]
    BY <1>3, MessageFields DEF ReceiveTombstone, TypeOK
  <2> QED
    BY <2>1 DEF TypeOK
<1>4. ASSUME NEW m \in Origin, NEW t \in Stream, ClientStep(m, t)
      PROVE  UNCHANGED ptomb
  BY <1>4 DEF ClientStep, Ingest, Reload, Save, Evict, BeginDeletion,
              FinishDeletion, RollbackDeletion, peerVars
<1>5. ASSUME NEW m \in Node, NEW k \in Node, NEW p \in Origin, NEW t \in Stream,
             SendDigest(m, k, t, p)
      PROVE  UNCHANGED ptomb
  BY <1>5 DEF SendDigest, peerVars
<1>6. ASSUME NEW q \in msgs,
             HandleDigest(q) \/ FulfilRequest(q) \/ ReceiveIgnored(q) \/ Lose(q)
      PROVE  UNCHANGED ptomb
  BY <1>6 DEF HandleDigest, FulfilRequest, ReceiveIgnored, Lose, peerVars
<1>7. ASSUME NEW m \in Node, SendSnapshot(m)
      PROVE  UNCHANGED ptomb
  BY <1>7 DEF SendSnapshot, peerVars
<1>8. ASSUME NEW m \in Node, NEW p \in Origin, ForgetOrigin(m, p)
      PROVE  UNCHANGED ptomb
  BY <1>8 DEF ForgetOrigin
<1>9. CASE UNCHANGED vars
  BY <1>9 DEF vars, peerVars
<1> QED
  BY <1>1, <1>2, <1>3, <1>4, <1>5, <1>6, <1>7, <1>8, <1>9 DEF Next, Deliver

\* A tombstone that is sent is one the sender knows.
LEMMA TombstoneSource ==
    ASSUME TypeOK, PendingRefs, [Next]_vars, NEW u \in msgs',
           u.type = "update", u.tomb
    PROVE  \/ u \in msgs
           \/ \E n \in Node, s \in Stream, o \in Node :
                 u.ver \in {tomb[n][s], ptomb[n][s][o]}
<1>1. CASE msgs' \subseteq msgs
  BY <1>1
<1>2. ASSUME NEW n \in Node, NEW m \in Node, NEW p \in Origin, NEW t \in Stream,
             SendDigest(n, m, t, p)
      PROVE  u \in msgs
  BY <1>2 DEF SendDigest, Digest
<1>3. ASSUME NEW q \in msgs, HandleDigest(q) \/ FulfilRequest(q), u \notin msgs
      PROVE  \E n \in Node, s \in Stream, o \in Node :
                 u.ver \in {tomb[n][s], ptomb[n][s][o]}
  <2>1. q.dst \in Node /\ q.stream \in Stream /\ q.origin \in Node
    BY MessageFields DEF TypeOK
  <2>2. u.ver \in {tomb[q.dst][q.stream], ptomb[q.dst][q.stream][q.origin]}
    <3>1. CASE HandleDigest(q)
      <4>1. u \in DigestAnswer(q)
        BY <1>3, <3>1 DEF HandleDigest
      <4> QED
        BY <4>1 DEF DigestAnswer, Request, Tombstone, Snapshot
    <3>2. CASE FulfilRequest(q)
      <4> DEFINE t == IF q.origin = q.dst THEN tomb[q.dst][q.stream]
                      ELSE ptomb[q.dst][q.stream][q.origin]
      <4>1. \/ u = Tombstone(q.src, q.stream, q.origin, t)
            \/ \E v, d : u = Snapshot(q.src, q.stream, q.origin, v, d)
        BY <1>3, <3>2 DEF FulfilRequest
      <4>2. \A v, d : ~Snapshot(q.src, q.stream, q.origin, v, d).tomb
        BY DEF Snapshot
      <4>3. Tombstone(q.src, q.stream, q.origin, t).ver = t
        BY DEF Tombstone
      <4> QED
        BY <4>1, <4>2, <4>3
    <3> QED
      BY <1>3, <3>1, <3>2
  <2> QED
    BY <2>1, <2>2
<1>4. ASSUME NEW n \in Node, SendSnapshot(n)
      PROVE  u \in msgs
  BY <1>4 DEF SendSnapshot, Snapshot
<1>5. ASSUME NEW n \in Origin, NEW t \in Stream, ClientStep(n, t)
      PROVE  msgs' \subseteq msgs
  BY <1>5 DEF ClientStep, Ingest, Reload, Save, Evict, BeginDeletion,
              FinishDeletion, RollbackDeletion
<1>6. ASSUME NEW q \in msgs,
             ReceiveSnapshot(q) \/ ReceiveTombstone(q) \/ ReceiveIgnored(q) \/ Lose(q)
      PROVE  msgs' \subseteq msgs
  BY <1>6 DEF ReceiveSnapshot, ReceiveTombstone, ReceiveIgnored, Lose
<1>7. ASSUME NEW n \in Crasher, Crash(n)
      PROVE  msgs' \subseteq msgs
  BY <1>7 DEF Crash
<1>8. ASSUME NEW n \in Node, NEW p \in Origin, ForgetOrigin(n, p)
      PROVE  msgs' \subseteq msgs
  BY <1>8 DEF ForgetOrigin
<1>9. CASE UNCHANGED vars
  BY <1>1, <1>9 DEF vars
<1> QED
  BY <1>1, <1>2, <1>3, <1>4, <1>5, <1>6, <1>7, <1>8, <1>9 DEF Next, Deliver

\* No tombstone is newer than the clock, wherever it is.
LEMMA TombsBoundedStep ==
    ASSUME TypeOK, PendingRefs, TombsBounded, [Next]_vars
    PROVE  TombsBounded'
<1>1. clock \in Nat /\ clock' \in Nat /\ clock' >= clock
  BY ClockStep DEF TypeOK
<1>2. ASSUME NEW n \in Node, NEW s \in Stream
      PROVE  /\ tomb'[n][s] <= clock' /\ diskTomb'[n][s] <= clock'
             /\ del'[n][s].ver <= clock' /\ del'[n][s].previous <= clock'
  <2>1. /\ tomb[n][s] \in Nat /\ diskTomb[n][s] \in Nat
        /\ del[n][s].ver \in Nat /\ del[n][s].previous \in Nat
    BY DEF TypeOK, DelState
  <2>2. /\ tomb[n][s] <= clock /\ diskTomb[n][s] <= clock
        /\ del[n][s].ver <= clock /\ del[n][s].previous <= clock
    BY DEF TombsBounded
  <2>3. CASE Untouched(n, s)
    BY <1>1, <2>1, <2>2, <2>3 DEF Untouched
  <2>4. CASE Ingest(n, s)
    BY <1>1, <2>1, <2>2, <2>4, IngestAt
  <2>5. CASE Reload(n, s) \/ Save(n, s) \/ Evict(n, s)
    BY <1>1, <2>1, <2>2, <2>5, MoveAt
  <2>6. CASE BeginDeletion(n, s)
    BY <1>1, <2>1, <2>2, <2>6, BeginAt
  <2>7. CASE FinishDeletion(n, s)
    BY <1>1, <2>1, <2>2, <2>7, FinishAt DEF Max2
  <2>8. CASE RollbackDeletion(n, s)
    BY <1>1, <2>1, <2>2, <2>8, RollbackAt
  <2>9. CASE Crash(n)
    BY <1>1, <2>1, <2>2, <2>9, CrashAt
  <2> QED
    BY <2>3, <2>4, <2>5, <2>6, <2>7, <2>8, <2>9, EntryCases
<1>3. ASSUME NEW n \in Node, NEW s \in Stream, NEW o \in Node
      PROVE  ptomb'[n][s][o] <= clock'
  <2>1. ptomb[n][s][o] \in Nat /\ ptomb[n][s][o] <= clock
    BY DEF TypeOK, TombsBounded
  <2>2. \/ ptomb'[n][s][o] \in {ptomb[n][s][o], 0}
        \/ \E u \in msgs : /\ u.type = "update" /\ u.tomb
                           /\ ptomb'[n][s][o] = u.ver
    BY PtombSource
  <2> QED
    BY <1>1, <2>1, <2>2, MessageFields DEF TypeOK, TombsBounded
<1>4. ASSUME NEW u \in msgs', u.type = "update" /\ u.tomb
      PROVE  u.ver <= clock'
  <2>1. \/ u \in msgs
        \/ \E n \in Node, s \in Stream, o \in Node :
              u.ver \in {tomb[n][s], ptomb[n][s][o]}
    BY <1>4, TombstoneSource
  <2>2. CASE u \in msgs
    BY <1>1, <1>4, <2>2, MessageFields DEF TypeOK, TombsBounded
  <2>3. ASSUME NEW n \in Node, NEW s \in Stream, NEW o \in Node,
               u.ver \in {tomb[n][s], ptomb[n][s][o]}
        PROVE  u.ver <= clock'
    BY <1>1, <2>3 DEF TypeOK, TombsBounded
  <2> QED
    BY <2>1, <2>2, <2>3
<1> QED
  BY <1>2, <1>3, <1>4 DEF TombsBounded

\* No batch is newer than the clock.
LEMMA BatchesBoundedStep ==
    ASSUME TypeOK, BatchesBounded, TombsBounded, [Next]_vars
    PROVE  BatchesBounded'
<1> SUFFICES ASSUME NEW o \in Node, NEW s \in Stream,
                    NEW b \in live'[o][s] \union deleted'[o][s]
             PROVE  b <= clock'
  BY DEF BatchesBounded
<1>1. /\ clock \in Nat /\ clock' \in Nat /\ clock' >= clock
      /\ live[o][s] \subseteq Nat /\ deleted[o][s] \subseteq Nat
  BY ClockStep DEF TypeOK
<1>2. \/ b \in live[o][s] \union deleted[o][s]
      \/ Ingest(o, s) /\ b = clock + 1
  <2>1. CASE Untouched(o, s)
    BY <2>1 DEF Untouched
  <2>2. CASE Ingest(o, s)
    BY <2>2, IngestAt
  <2>3. CASE Reload(o, s) \/ Save(o, s) \/ Evict(o, s)
    BY <2>3, MoveAt DEF ghostVars
  <2>4. CASE BeginDeletion(o, s) \/ RollbackDeletion(o, s)
    BY <2>4, BeginAt, RollbackAt DEF ghostVars
  <2>5. CASE FinishDeletion(o, s) \/ Crash(o)
    BY <2>5, FinishAt, CrashAt
  <2> QED
    BY <2>1, <2>2, <2>3, <2>4, <2>5, EntryCases
<1> QED
  BY <1>1, <1>2, IngestAt DEF BatchesBounded

-----------------------------------------------------------------------------
(* A replica never claims a version it does not contain                     *)

\* The origin keeps its live batches: an ingest reloads an evicted stream
\* first, and an eviction saves before it removes.
LEMMA DurableStep ==
    ASSUME TypeOK, Durable, TombsBounded, [Next]_vars
    PROVE  Durable'
<1> SUFFICES ASSUME NEW o \in Node, NEW s \in Stream
             PROVE  live'[o][s] \subseteq
                        DataOf(IF local'[o][s] # NoLog THEN local'[o][s]
                               ELSE disk'[o][s])
  BY DEF Durable, DataOf
<1>1. live[o][s] \subseteq DataOf(IF local[o][s] # NoLog THEN local[o][s]
                                  ELSE disk[o][s])
  BY DEF Durable
<1>2. CASE Untouched(o, s)
  BY <1>1, <1>2 DEF Untouched
<1>3. CASE Ingest(o, s)
  <2>1. local'[o][s] # NoLog /\ DataOf(local'[o][s]) = local'[o][s].data
    BY <1>3, IngestAt, Sentinels DEF DataOf
  <2> QED
    BY <1>1, <1>3, <2>1, IngestAt
<1>4. CASE Reload(o, s) \/ Save(o, s) \/ Evict(o, s)
  BY <1>1, <1>4, MoveAt DEF ghostVars
<1>5. CASE BeginDeletion(o, s) \/ RollbackDeletion(o, s)
  BY <1>1, <1>5, BeginAt, RollbackAt DEF ghostVars
<1>6. CASE FinishDeletion(o, s) \/ Crash(o)
  BY <1>6, FinishAt, CrashAt
<1> QED
  BY <1>2, <1>3, <1>4, <1>5, <1>6, EntryCases

\* A step adds to the live batches at most one that is newer than the clock.
LEMMA LiveStep ==
    ASSUME TypeOK, TombsBounded, [Next]_vars, NEW o \in Node, NEW s \in Stream
    PROVE  live'[o][s] \subseteq live[o][s] \union {clock + 1}
<1>1. CASE Untouched(o, s)
  BY <1>1 DEF Untouched
<1>2. CASE Ingest(o, s)
  BY <1>2, IngestAt
<1>3. CASE Reload(o, s) \/ Save(o, s) \/ Evict(o, s)
  BY <1>3, MoveAt DEF ghostVars
<1>4. CASE BeginDeletion(o, s) \/ RollbackDeletion(o, s)
  BY <1>4, BeginAt, RollbackAt DEF ghostVars
<1>5. CASE FinishDeletion(o, s) \/ Crash(o)
  BY <1>5, FinishAt, CrashAt
<1> QED
  BY <1>1, <1>2, <1>3, <1>4, <1>5, EntryCases

\* A copy covers its version when it is made, since the resident log holds
\* everything, and keeps covering it, since later batches are newer.
LEMMA CopiesCoverStep ==
    ASSUME TypeOK, PendingRefs, LogsBounded, TombsBounded, Durable, CopiesCover,
           [Next]_vars
    PROVE  CopiesCover'
<1> SUFFICES ASSUME NEW o \in Node, NEW s \in Stream, NEW x \in Copies(o, s)',
                    NEW b \in live'[o][s], b <= x.ver
             PROVE  b \in x.data
  BY DEF CopiesCover, Covers
<1>1. x \in Copies(o, s) \union Fresh(o, s)
  BY CopySource
<1>2. x.ver \in Nat /\ clock \in Nat
  BY <1>1, CopiesAreLogs, Sentinels DEF TypeOK
<1>3. x.ver <= clock
  <2>1. CASE x \in Copies(o, s)
    BY <2>1 DEF LogsBounded
  <2>2. CASE x \in Fresh(o, s)
    BY <2>2, FreshFields DEF LogsBounded, VerOf
  <2> QED
    BY <1>1, <2>1, <2>2
<1>4. b \in live[o][s]
  BY <1>2, <1>3, LiveStep
<1>5. CASE x \in Copies(o, s)
  BY <1>4, <1>5 DEF CopiesCover, Covers
<1>6. CASE x \in Fresh(o, s)
  BY <1>4, <1>6, FreshFields DEF Durable, DataOf
<1> QED
  BY <1>1, <1>5, <1>6

\* The part of the inductive invariant that VersionCovers rests on.
CoverInv ==
    /\ TypeOK /\ PendingRefs
    /\ LogsBounded /\ TombsBounded /\ BatchesBounded
    /\ Durable /\ CopiesCover

\* An empty mesh has no copies.
LEMMA NoCopies ==
    ASSUME Init, NEW o \in Node, NEW s \in Stream
    PROVE  Copies(o, s) = {} /\ ~Answering(o, s)
  BY DEF Init, Copies, SnapCopies, SentCopies, PendingCopies, Answering, NoPending

\* The invariant holds of the empty mesh.
LEMMA CoverInit == Init => CoverInv
<1> SUFFICES ASSUME Init PROVE CoverInv
  OBVIOUS
<1>1. TypeOK /\ PendingRefs
  BY TypeInit
<1>2. LogsBounded
  BY NoCopies DEF Init, LogsBounded, VerOf
<1>3. TombsBounded
  BY DEF Init, TombsBounded, IdleDel
<1>4. BatchesBounded /\ Durable
  BY DEF Init, BatchesBounded, Durable
<1>5. CopiesCover
  BY NoCopies DEF CopiesCover
<1> QED
  BY <1>1, <1>2, <1>3, <1>4, <1>5 DEF CoverInv

\* Every step keeps the invariant.
LEMMA CoverStep == CoverInv /\ [Next]_vars => CoverInv'
<1> SUFFICES ASSUME CoverInv, [Next]_vars PROVE CoverInv'
  OBVIOUS
<1> USE DEF CoverInv
<1>1. TypeOK' /\ PendingRefs'
  BY TypeStep
<1>2. LogsBounded'
  BY LogsBoundedStep
<1>3. TombsBounded'
  BY TombsBoundedStep
<1>4. BatchesBounded'
  BY BatchesBoundedStep
<1>5. Durable'
  BY DurableStep
<1>6. CopiesCover'
  BY CopiesCoverStep
<1> QED
  BY <1>1, <1>2, <1>3, <1>4, <1>5, <1>6

\* Every snapshot at a peer or in a message is a copy.
LEMMA CoverImplies == CoverInv => VersionCovers
<1> SUFFICES ASSUME CoverInv PROVE VersionCovers
  OBVIOUS
<1>1. ASSUME NEW n \in Node, NEW o \in Node, NEW s \in Stream,
             snap[n][s][o] # NoLog
      PROVE  Covers(o, s, snap[n][s][o].data, snap[n][s][o].ver)
  <2>1. snap[n][s][o] \in Copies(o, s)
    BY <1>1 DEF Copies, SnapCopies
  <2> QED
    BY <2>1 DEF CoverInv, CopiesCover
<1>2. ASSUME NEW u \in msgs, u.type = "update", ~u.tomb
      PROVE  Covers(u.origin, u.stream, u.data, u.ver)
  <2>1. u.origin \in Node /\ u.stream \in Stream
    BY MessageFields DEF CoverInv, TypeOK
  <2>2. [data |-> u.data, ver |-> u.ver] \in Copies(u.origin, u.stream)
    BY <1>2 DEF Copies, SentCopies
  <2> QED
    BY <2>1, <2>2 DEF CoverInv, CopiesCover
<1> QED
  BY <1>1, <1>2 DEF VersionCovers

\* In every mesh, however messages are delayed, relayed, reordered or lost
\* and nodes crash, a snapshot of version v, held by a peer or on its way,
\* contains every live batch of its origin up to v: the version comparison of
\* receive_snapshot never hides a batch (_gossip_state, handle_gossip_digest,
\* receive_snapshot).
THEOREM ReplicasCoverTheirVersion == Spec => []VersionCovers
<1>1. Init => CoverInv
  BY CoverInit
<1>2. CoverInv /\ [Next]_vars => CoverInv'
  BY CoverStep
<1>3. CoverInv => VersionCovers
  BY CoverImplies
<1> QED
  BY <1>1, <1>2, <1>3, PTL DEF Spec

-----------------------------------------------------------------------------
(* A committed tombstone dominates stale relays                             *)

\* The commit of a deletion removes the batches it deletes from the origin,
\* and new batches are not among them.
LEMMA OriginCleanStep ==
    ASSUME TypeOK, TombsBounded, BatchesBounded, OriginClean, [Next]_vars
    PROVE  OriginClean'
<1> SUFFICES ASSUME NEW o \in Node, NEW s \in Stream
             PROVE  /\ DataOf(local'[o][s]) \intersect deleted'[o][s] = {}
                    /\ DataOf(disk'[o][s]) \intersect deleted'[o][s] = {}
  BY DEF OriginClean, DataOf
<1>1. /\ DataOf(local[o][s]) \intersect deleted[o][s] = {}
      /\ DataOf(disk[o][s]) \intersect deleted[o][s] = {}
  BY DEF OriginClean
<1>2. CASE Untouched(o, s)
  BY <1>1, <1>2 DEF Untouched
<1>3. CASE Ingest(o, s)
  <2>1. DataOf(local'[o][s]) \subseteq
            DataOf(local[o][s]) \union DataOf(disk[o][s]) \union {clock + 1}
    BY <1>3, IngestAt, Sentinels DEF DataOf
  <2>2. clock + 1 \notin deleted[o][s]
    BY DEF TypeOK, BatchesBounded
  <2> QED
    BY <1>1, <1>3, <2>1, <2>2, IngestAt
<1>4. CASE Reload(o, s) \/ Save(o, s) \/ Evict(o, s)
  <2>1. /\ local'[o][s] \in {local[o][s], disk[o][s], NoLog}
        /\ disk'[o][s] \in {local[o][s], disk[o][s]}
        /\ deleted' = deleted
    BY <1>4, MoveAt DEF ghostVars
  <2> QED
    BY <1>1, <2>1 DEF DataOf
<1>5. CASE BeginDeletion(o, s) \/ RollbackDeletion(o, s)
  BY <1>1, <1>5, BeginAt, RollbackAt DEF ghostVars
<1>6. CASE FinishDeletion(o, s) \/ Crash(o)
  BY <1>1, <1>6, FinishAt, CrashAt DEF DataOf
<1> QED
  BY <1>2, <1>3, <1>4, <1>5, <1>6, EntryCases

\* Everything of an entry that exists after a step, outside the origin's
\* registry and storage, is older than what bounds the entry before it.
LEMMA CopiesBelow ==
    ASSUME TypeOK, PendingRefs, [Next]_vars, NEW o \in Node, NEW s \in Stream,
           NEW bound \in Nat,
           VerOf(local[o][s]) < bound,
           Answering(o, s) => pending[o].ver < bound,
           \A x \in Copies(o, s) : x.ver < bound
    PROVE  /\ Answering(o, s)' => pending'[o].ver < bound
           /\ \A x \in Copies(o, s)' : x.ver < bound
<1>1. ASSUME NEW x \in Copies(o, s)' PROVE x.ver < bound
  <2>1. CASE x \in Copies(o, s)
    BY <2>1
  <2>2. CASE x \in Fresh(o, s)
    BY <2>2, FreshFields DEF VerOf
  <2> QED
    BY <1>1, <2>1, <2>2, CopySource
<1>2. ASSUME Answering(o, s)' PROVE pending'[o].ver < bound
  BY <1>2, PendingVersion DEF VerOf
<1> QED
  BY <1>1, <1>2

\* A deletion starts after everything that exists; until it ends only an
\* ingest, which then races with it, makes something newer.
LEMMA WindowStep ==
    ASSUME TypeOK, PendingRefs, LogsBounded, TombsBounded, Window, [Next]_vars
    PROVE  Window'
<1> SUFFICES ASSUME NEW o \in Node, NEW s \in Stream,
                    del'[o][s].on, ~raced'[o][s]
             PROVE  /\ VerOf(local'[o][s]) < del'[o][s].ver
                    /\ VerOf(disk'[o][s]) < del'[o][s].ver
                    /\ Answering(o, s)' => pending'[o].ver < del'[o][s].ver
                    /\ \A x \in Copies(o, s)' : x.ver < del'[o][s].ver
  BY DEF Window, VerOf
<1>1. del[o][s].ver \in Nat /\ clock \in Nat
  BY DEF TypeOK, DelState
<1>2. ASSUME del[o][s].on, ~raced[o][s]
      PROVE  /\ VerOf(local[o][s]) < del[o][s].ver
             /\ VerOf(disk[o][s]) < del[o][s].ver
             /\ Answering(o, s)' => pending'[o].ver < del[o][s].ver
             /\ \A x \in Copies(o, s)' : x.ver < del[o][s].ver
  <2>1. /\ VerOf(local[o][s]) < del[o][s].ver
        /\ VerOf(disk[o][s]) < del[o][s].ver
        /\ Answering(o, s) => pending[o].ver < del[o][s].ver
        /\ \A x \in Copies(o, s) : x.ver < del[o][s].ver
    BY <1>2 DEF Window
  <2> DEFINE bound == del[o][s].ver
  <2>2. /\ Answering(o, s)' => pending'[o].ver < bound
        /\ \A x \in Copies(o, s)' : x.ver < bound
    BY <1>1, <2>1, CopiesBelow
  <2> QED
    BY <2>1, <2>2
<1>3. CASE Untouched(o, s)
  BY <1>2, <1>3 DEF Untouched
<1>4. CASE Ingest(o, s)
  BY <1>4, IngestAt
<1>5. CASE Reload(o, s) \/ Save(o, s) \/ Evict(o, s)
  <2>1. /\ local'[o][s] \in {local[o][s], disk[o][s], NoLog}
        /\ disk'[o][s] \in {local[o][s], disk[o][s]}
        /\ del' = del /\ raced' = raced
    BY <1>5, MoveAt DEF ghostVars
  <2>2. VerOf(local[o][s]) \in Nat
    BY LogReaders DEF TypeOK
  <2> QED
    BY <1>1, <1>2, <2>1, <2>2 DEF VerOf
<1>6. CASE BeginDeletion(o, s)
  <2> DEFINE bound == clock + 1
  <2>1. /\ VerOf(local[o][s]) \in Nat /\ VerOf(disk[o][s]) \in Nat
        /\ VerOf(local[o][s]) < bound /\ VerOf(disk[o][s]) < bound
    BY <1>1, LogReaders DEF TypeOK, LogsBounded
  <2>2. Answering(o, s) => pending[o].ver < bound
    BY <1>1 DEF TypeOK, PendingState, LogsBounded
  <2>3. ASSUME NEW x \in Copies(o, s) PROVE x.ver < bound
    <3>1. x.ver \in Nat /\ x.ver <= clock
      BY CopiesAreLogs, Sentinels DEF LogsBounded
    <3> QED
      BY <1>1, <3>1
  <2>4. bound \in Nat
    BY <1>1
  <2>5. del'[o][s].ver = bound /\ local' = local /\ disk' = disk
    BY <1>6, BeginAt
  <2> HIDE DEF bound
  <2>6. /\ Answering(o, s)' => pending'[o].ver < bound
        /\ \A x \in Copies(o, s)' : x.ver < bound
    BY <2>1, <2>2, <2>3, <2>4, CopiesBelow
  <2> QED
    BY <2>1, <2>5, <2>6
<1>7. CASE FinishDeletion(o, s) \/ RollbackDeletion(o, s) \/ Crash(o)
  BY <1>7, FinishAt, RollbackAt, CrashAt
<1> QED
  BY <1>3, <1>4, <1>5, <1>6, <1>7, EntryCases

\* A copy above the tombstone was made after the deletion, of a clean log.
LEMMA CopiesDominatedStep ==
    ASSUME TypeOK, PendingRefs, TombsBounded, OriginClean, Window,
           CopiesDominated, [Next]_vars
    PROVE  CopiesDominated'
<1> SUFFICES ASSUME NEW o \in Node, NEW s \in Stream, ~raced'[o][s],
                    NEW x \in Copies(o, s)', x.ver > delVer'[o][s]
             PROVE  x.data \intersect deleted'[o][s] = {}
  BY DEF CopiesDominated
<1>1. x \in Copies(o, s) \union Fresh(o, s)
  BY CopySource
<1>2. x.ver \in Nat
  BY <1>1, CopiesAreLogs, Sentinels
<1>3. CASE deleted'[o][s] = deleted[o][s] /\ delVer'[o][s] = delVer[o][s]
           /\ ~raced[o][s]
  <2>1. CASE x \in Copies(o, s)
    BY <1>3, <2>1 DEF CopiesDominated
  <2>2. CASE x \in Fresh(o, s)
    BY <1>3, <2>2, FreshFields DEF OriginClean, DataOf
  <2> QED
    BY <1>1, <2>1, <2>2
<1>4. CASE FinishDeletion(o, s)
  <2>1. del[o][s].on /\ ~raced[o][s] /\ delVer'[o][s] = del[o][s].ver
    BY <1>4, FinishAt
  <2>2. /\ VerOf(local[o][s]) < del[o][s].ver
        /\ Answering(o, s) => pending[o].ver < del[o][s].ver
        /\ \A y \in Copies(o, s) : y.ver < del[o][s].ver
    BY <2>1 DEF Window
  <2>3. x.ver < del[o][s].ver
    BY <1>1, <2>2, FreshFields DEF VerOf
  <2>4. del[o][s].ver \in Nat
    BY DEF TypeOK, DelState
  <2> QED
    BY <1>2, <2>1, <2>3, <2>4
<1>5. CASE Untouched(o, s)
  BY <1>3, <1>5 DEF Untouched
<1>6. CASE Ingest(o, s)
  BY <1>3, <1>6, IngestAt
<1>7. CASE Reload(o, s) \/ Save(o, s) \/ Evict(o, s)
  BY <1>3, <1>7, MoveAt DEF ghostVars
<1>8. CASE BeginDeletion(o, s) \/ RollbackDeletion(o, s) \/ Crash(o)
  BY <1>3, <1>8, BeginAt, RollbackAt, CrashAt DEF ghostVars
<1> QED
  BY <1>4, <1>5, <1>6, <1>7, <1>8, EntryCases

\* The part of the inductive invariant that TombstoneDominates rests on.
DominateInv == CoverInv /\ OriginClean /\ Window /\ CopiesDominated

\* The invariant holds of the empty mesh.
LEMMA DominateInit == Init => DominateInv
<1> SUFFICES ASSUME Init PROVE DominateInv
  OBVIOUS
<1>1. OriginClean /\ Window
  BY DEF Init, OriginClean, Window, DataOf, IdleDel
<1>2. CopiesDominated
  BY NoCopies DEF CopiesDominated
<1> QED
  BY <1>1, <1>2, CoverInit DEF DominateInv

\* Every step keeps the invariant.
LEMMA DominateStep == DominateInv /\ [Next]_vars => DominateInv'
<1> SUFFICES ASSUME DominateInv, [Next]_vars PROVE DominateInv'
  OBVIOUS
<1>1. CoverInv'
  BY CoverStep DEF DominateInv
<1>2. OriginClean' /\ Window' /\ CopiesDominated'
  BY OriginCleanStep, WindowStep, CopiesDominatedStep DEF DominateInv, CoverInv
<1> QED
  BY <1>1, <1>2 DEF DominateInv

\* In every mesh, once a deletion that no ingest raced with has committed at
\* the origin, no snapshot that can still win against its tombstone in
\* receive_snapshot brings a deleted batch back, whatever stale copies are
\* still relayed (begin_deletion stamps the tombstone after every version
\* issued before).
THEOREM TombstonesDominate == Spec => []TombstoneDominates
<1>1. Init => DominateInv
  BY DominateInit
<1>2. DominateInv /\ [Next]_vars => DominateInv'
  BY DominateStep
<1>3. DominateInv => TombstoneDominates
  <2> SUFFICES ASSUME DominateInv, NEW n \in Node, NEW o \in Node, NEW s \in Stream,
                      ~raced[o][s], VerOf(snap[n][s][o]) > delVer[o][s]
               PROVE  DataOf(snap[n][s][o]) \intersect deleted[o][s] = {}
    BY DEF TombstoneDominates
  <2>1. CASE snap[n][s][o] = NoLog
    BY <2>1 DEF DataOf
  <2>2. CASE snap[n][s][o] # NoLog
    <3>1. snap[n][s][o] \in Copies(o, s)
      BY <2>2 DEF Copies, SnapCopies
    <3> QED
      BY <2>2, <3>1 DEF DominateInv, CopiesDominated, DataOf, VerOf
  <2> QED
    BY <2>1, <2>2
<1> QED
  BY <1>1, <1>2, <1>3, PTL DEF Spec

-----------------------------------------------------------------------------
(* The exchange implements one register per entry                           *)

\* The steps that touch what a node holds of its peers.
LEMMA PeersIdle ==
    ASSUME [Next]_vars,
           ~(\/ \E m \in Crasher : Crash(m)
             \/ \E m \in Node, p \in Origin : ForgetOrigin(m, p)
             \/ \E u \in msgs : ReceiveSnapshot(u) \/ ReceiveTombstone(u))
    PROVE  UNCHANGED <<snap, ptomb>>
<1> USE DEF peerVars
<1>1. ASSUME NEW n \in Origin, NEW t \in Stream, ClientStep(n, t)
      PROVE  UNCHANGED <<snap, ptomb>>
  BY <1>1 DEF ClientStep, Ingest, Reload, Save, Evict, BeginDeletion,
              FinishDeletion, RollbackDeletion
<1>2. ASSUME NEW n \in Node, NEW m \in Node, NEW p \in Origin, NEW t \in Stream,
             SendDigest(n, m, t, p)
      PROVE  UNCHANGED <<snap, ptomb>>
  BY <1>2 DEF SendDigest
<1>3. ASSUME NEW q \in msgs,
             HandleDigest(q) \/ FulfilRequest(q) \/ ReceiveIgnored(q) \/ Lose(q)
      PROVE  UNCHANGED <<snap, ptomb>>
  BY <1>3 DEF HandleDigest, FulfilRequest, ReceiveIgnored, Lose
<1>4. ASSUME NEW n \in Node, SendSnapshot(n)
      PROVE  UNCHANGED <<snap, ptomb>>
  BY <1>4 DEF SendSnapshot
<1>5. CASE UNCHANGED vars
  BY <1>5 DEF vars
<1> QED
  BY <1>1, <1>2, <1>3, <1>4, <1>5 DEF Next, Deliver

\* A node drops its tombstone when it takes a snapshot, and the other way.
LEMMA OneOfBothStep ==
    ASSUME TypeOK, OneOfBoth, [Next]_vars
    PROVE  OneOfBoth'
<1> SUFFICES ASSUME NEW n \in Node, NEW o \in Node, NEW s \in Stream
             PROVE  snap'[n][s][o] = NoLog \/ ptomb'[n][s][o] = 0
  BY DEF OneOfBoth
<1>1. snap[n][s][o] = NoLog \/ ptomb[n][s][o] = 0
  BY DEF OneOfBoth
<1>2. CASE UNCHANGED <<snap, ptomb>>
  BY <1>1, <1>2
<1>3. ASSUME NEW m \in Crasher, Crash(m)
      PROVE  snap'[n][s][o] = NoLog \/ ptomb'[n][s][o] = 0
  BY <1>1, <1>3, Sentinels DEF Crash, TypeOK
<1>4. ASSUME NEW m \in Node, NEW p \in Origin, ForgetOrigin(m, p)
      PROVE  snap'[n][s][o] = NoLog \/ ptomb'[n][s][o] = 0
  BY <1>1, <1>4, Sentinels DEF ForgetOrigin, TypeOK
<1>5. ASSUME NEW u \in msgs, ReceiveSnapshot(u) \/ ReceiveTombstone(u)
      PROVE  snap'[n][s][o] = NoLog \/ ptomb'[n][s][o] = 0
  <2>1. u.dst \in Node /\ u.stream \in Stream /\ u.origin \in Node
    BY MessageFields DEF TypeOK
  <2>2. \E x, v : /\ x = NoLog \/ v = 0
                  /\ snap' = [snap EXCEPT ![u.dst][u.stream][u.origin] = x]
                  /\ ptomb' = [ptomb EXCEPT ![u.dst][u.stream][u.origin] = v]
    BY <1>5 DEF ReceiveSnapshot, ReceiveTombstone
  <2> QED
    BY <1>1, <2>1, <2>2 DEF TypeOK
<1>6. ~(\/ \E m \in Crasher : Crash(m)
        \/ \E m \in Node, p \in Origin : ForgetOrigin(m, p)
        \/ \E u \in msgs : ReceiveSnapshot(u) \/ ReceiveTombstone(u))
      => UNCHANGED <<snap, ptomb>>
  BY PeersIdle
<1> QED
  BY <1>2, <1>3, <1>4, <1>5, <1>6

\* What the registers show of an empty entry, a snapshot and a tombstone.
LEMMA CopyValues ==
    ASSUME TypeOK, OneOfBoth, NEW n \in Node, NEW s \in Stream, NEW o \in Node
    PROVE  /\ snap[n][s][o] = NoLog /\ ptomb[n][s][o] = 0
                => Copy(n, s, o) = Register!Nothing
           /\ snap[n][s][o] # NoLog
                => /\ Copy(n, s, o) = [ver |-> snap[n][s][o].ver, dead |-> FALSE,
                                       data |-> snap[n][s][o].data]
                   /\ ptomb[n][s][o] = 0
           /\ ptomb[n][s][o] # 0
                => /\ Copy(n, s, o) = [ver |-> ptomb[n][s][o], dead |-> TRUE,
                                       data |-> {}]
                   /\ snap[n][s][o] = NoLog
<1>1. ptomb[n][s][o] \in Nat
  BY DEF TypeOK
<1>2. snap[n][s][o] # NoLog => snap[n][s][o].ver \in Nat /\ ptomb[n][s][o] = 0
  BY Sentinels DEF TypeOK, OneOfBoth
<1>3. ASSUME snap[n][s][o] = NoLog, ptomb[n][s][o] = 0
      PROVE  Copy(n, s, o) = Register!Nothing
  <2>1. /\ Known(n, s, o) = 0 /\ DataOf(snap[n][s][o]) = {}
        /\ (ptomb[n][s][o] > VerOf(snap[n][s][o])) = FALSE
    BY <1>3 DEF Known, Max2, VerOf, DataOf
  <2> QED
    BY <2>1 DEF Copy, Register!Nothing
<1>4. ASSUME snap[n][s][o] # NoLog
      PROVE  Copy(n, s, o) = [ver |-> snap[n][s][o].ver, dead |-> FALSE,
                              data |-> snap[n][s][o].data]
  <2>1. /\ Known(n, s, o) = snap[n][s][o].ver
        /\ DataOf(snap[n][s][o]) = snap[n][s][o].data
        /\ (ptomb[n][s][o] > VerOf(snap[n][s][o])) = FALSE
    BY <1>2, <1>4 DEF Known, Max2, VerOf, DataOf
  <2> QED
    BY <2>1 DEF Copy
<1>5. ASSUME ptomb[n][s][o] # 0
      PROVE  /\ Copy(n, s, o) = [ver |-> ptomb[n][s][o], dead |-> TRUE,
                                 data |-> {}]
             /\ snap[n][s][o] = NoLog
  <2>1. /\ snap[n][s][o] = NoLog
        /\ Known(n, s, o) = ptomb[n][s][o]
        /\ DataOf(snap[n][s][o]) = {}
        /\ (ptomb[n][s][o] > VerOf(snap[n][s][o])) = TRUE
    BY <1>1, <1>2, <1>5 DEF Known, Max2, VerOf, DataOf
  <2> QED
    BY <2>1 DEF Copy
<1> QED
  BY <1>2, <1>3, <1>4, <1>5

\* The registers' copies, as MeshSync's refinement mapping defines them.
Entries ==
    [n \in Node |-> [s \in Stream |-> [o \in Origin |-> Copy(n, s, o)]]]

\* Reading an entry, before and after a step.
LEMMA EntryAt ==
    ASSUME NEW n \in Node, NEW s \in Stream, NEW o \in Origin
    PROVE  /\ Entries[n][s][o] = Copy(n, s, o)
           /\ Entries'[n][s][o] = Copy(n, s, o)'
  BY DEF Entries

\* A step that leaves a node's snapshots and tombstones alone leaves its
\* copies alone.
LEMMA CopySame ==
    ASSUME NEW n, NEW s, NEW o,
           snap'[n][s][o] = snap[n][s][o], ptomb'[n][s][o] = ptomb[n][s][o]
    PROVE  Copy(n, s, o)' = Copy(n, s, o)
  BY DEF Copy, Known

\* Copies that do not change leave the whole mapping unchanged.
LEMMA EntriesSame ==
    ASSUME \A n \in Node, s \in Stream, o \in Origin :
               Copy(n, s, o)' = Copy(n, s, o)
    PROVE  Entries' = Entries
  BY DEF Entries

\* Two functions of three arguments that agree but at one place.
LEMMA ExceptAtOne ==
    ASSUME NEW A, NEW B, NEW C, NEW T,
           NEW f \in [A -> [B -> [C -> T]]], NEW g \in [A -> [B -> [C -> T]]],
           NEW a \in A, NEW b \in B, NEW c \in C,
           \A x \in A, y \in B, z \in C :
               ~(x = a /\ y = b /\ z = c) => g[x][y][z] = f[x][y][z]
    PROVE  g = [f EXCEPT ![a][b][c] = g[a][b][c]]
<1>1. g[a][b] = [f[a][b] EXCEPT ![c] = g[a][b][c]]
  <2>1. g[a][b] \in [C -> T] /\ f[a][b] \in [C -> T]
    OBVIOUS
  <2>2. \A z \in C : z # c => g[a][b][z] = f[a][b][z]
    OBVIOUS
  <2> QED
    BY <2>1, <2>2
<1>2. g[a] = [f[a] EXCEPT ![b] = g[a][b]]
  <2>1. g[a] \in [B -> [C -> T]] /\ f[a] \in [B -> [C -> T]]
    OBVIOUS
  <2>2. ASSUME NEW y \in B, y # b PROVE g[a][y] = f[a][y]
    <3>1. g[a][y] \in [C -> T] /\ f[a][y] \in [C -> T]
      OBVIOUS
    <3>2. \A z \in C : g[a][y][z] = f[a][y][z]
      BY <2>2
    <3> QED
      BY <3>1, <3>2
  <2> QED
    BY <2>1, <2>2
<1>3. g = [f EXCEPT ![a] = g[a]]
  <2>1. ASSUME NEW x \in A, x # a PROVE g[x] = f[x]
    <3>1. g[x] \in [B -> [C -> T]] /\ f[x] \in [B -> [C -> T]]
      OBVIOUS
    <3>2. ASSUME NEW y \in B PROVE g[x][y] = f[x][y]
      <4>1. g[x][y] \in [C -> T] /\ f[x][y] \in [C -> T]
        BY <3>1
      <4>2. \A z \in C : g[x][y][z] = f[x][y][z]
        BY <2>1
      <4> QED
        BY <4>1, <4>2
    <3> QED
      BY <3>1, <3>2
  <2> QED
    BY <2>1
<1>4. g = [f EXCEPT ![a] = [f[a] EXCEPT ![b] = [f[a][b] EXCEPT ![c] = g[a][b][c]]]]
  BY <1>1, <1>2, <1>3
<1> QED
  BY <1>4

\* Copies that change at one place only change the mapping there.
LEMMA EntriesAtOne ==
    ASSUME NEW n \in Node, NEW s \in Stream, NEW o \in Origin,
           \A m \in Node, t \in Stream, p \in Origin :
               ~(m = n /\ t = s /\ p = o) => Copy(m, t, p)' = Copy(m, t, p)
    PROVE  Entries' = [Entries EXCEPT ![n][s][o] = Entries'[n][s][o]]
<1> DEFINE T == {Copy(m, t, p) : m \in Node, t \in Stream, p \in Origin}
                \union {Copy(m, t, p)' : m \in Node, t \in Stream, p \in Origin}
<1>1. /\ Entries \in [Node -> [Stream -> [Origin -> T]]]
      /\ Entries' \in [Node -> [Stream -> [Origin -> T]]]
  BY DEF Entries
<1>2. \A m \in Node, t \in Stream, p \in Origin :
          ~(m = n /\ t = s /\ p = o) => Entries'[m][t][p] = Entries[m][t][p]
  BY EntryAt
<1> HIDE DEF T
<1> QED
  BY <1>1, <1>2, ExceptAtOne

\* Copies that change at one node only change the mapping there.
LEMMA EntriesAtNode ==
    ASSUME NEW n \in Node,
           \A m \in Node, t \in Stream, p \in Origin :
               m # n => Copy(m, t, p)' = Copy(m, t, p)
    PROVE  Entries' = [Entries EXCEPT ![n] =
                          [t \in Stream |-> [p \in Origin |-> Copy(n, t, p)']]]
  BY DEF Entries

\* What the refinement rests on.
RefInv == CoverInv /\ OneOfBoth

\* The same of all entries.
CopyReads ==
    \A n \in Node, s \in Stream, o \in Node :
        /\ snap[n][s][o] = NoLog /\ ptomb[n][s][o] = 0
             => Copy(n, s, o) = [ver |-> 0, dead |-> FALSE, data |-> {}]
        /\ snap[n][s][o] # NoLog
             => Copy(n, s, o) = [ver |-> snap[n][s][o].ver, dead |-> FALSE,
                                 data |-> snap[n][s][o].data]
        /\ ptomb[n][s][o] # 0
             => Copy(n, s, o) = [ver |-> ptomb[n][s][o], dead |-> TRUE, data |-> {}]

\* What a step leaves is read the same way.
LEMMA CopyValuesNext == (TypeOK /\ OneOfBoth)' => CopyReads'
<1>1. TypeOK /\ OneOfBoth => CopyReads
  BY CopyValues DEF CopyReads, Register!Nothing
<1> QED
  BY <1>1, PTL

\* A newer entry that a peer takes moves its copy forward.
LEMMA AdoptStep ==
    ASSUME RefInv, RefInv', NEW u \in msgs, u.origin \in Origin,
           ReceiveSnapshot(u) \/ ReceiveTombstone(u)
    PROVE  Register!Adopt(u.dst, u.stream, u.origin)
<1> DEFINE n == u.dst
           s == u.stream
           o == u.origin
<1>1. /\ n \in Node /\ s \in Stream /\ o \in Node /\ o \in Origin /\ n # o
      /\ u.ver \in Nat /\ u.type = "update"
      /\ TypeOK /\ TypeOK' /\ OneOfBoth /\ OneOfBoth'
  BY MessageFields
     DEF RefInv, CoverInv, TypeOK, ReceiveSnapshot, ReceiveTombstone, Accepts
<1>2. u.ver > Known(n, s, o) /\ UNCHANGED <<clock, live>>
  BY DEF ReceiveSnapshot, ReceiveTombstone, Accepts, ghostVars
<1>3. Known(n, s, o) \in Nat
  BY <1>1, LogReaders DEF TypeOK, Known, Max2
<1>4. \A m \in Node, t \in Stream, p \in Origin :
          ~(m = n /\ t = s /\ p = o) => Copy(m, t, p)' = Copy(m, t, p)
  <2> SUFFICES ASSUME NEW m \in Node, NEW t \in Stream, NEW p \in Origin,
                      ~(m = n /\ t = s /\ p = o)
               PROVE  Copy(m, t, p)' = Copy(m, t, p)
    OBVIOUS
  <2>1. \E x, v : /\ snap' = [snap EXCEPT ![n][s][o] = x]
                  /\ ptomb' = [ptomb EXCEPT ![n][s][o] = v]
    BY DEF ReceiveSnapshot, ReceiveTombstone
  <2>2. snap'[m][t][p] = snap[m][t][p] /\ ptomb'[m][t][p] = ptomb[m][t][p]
    BY <1>1, <2>1, Sentinels DEF TypeOK
  <2> QED
    BY <2>2, CopySame
<1>5. /\ Copy(n, s, o)'.ver = u.ver
      /\ u.ver <= clock
      /\ IF Copy(n, s, o)'.dead THEN Copy(n, s, o)'.data = {}
         ELSE \A b \in live[o][s] : b <= u.ver => b \in Copy(n, s, o)'.data
  <2>1. CASE ReceiveSnapshot(u)
    <3> DEFINE x == [data |-> u.data, ver |-> u.ver]
    <3>1. x \in Log /\ ~u.tomb
      BY <1>1, <2>1, MessageFields, LogRecord DEF TypeOK, ReceiveSnapshot
    <3>2. x \in Copies(o, s)
      BY <1>1, <3>1 DEF Copies, SentCopies
    <3>3. u.ver <= clock /\ Covers(o, s, u.data, u.ver)
      BY <1>1, <3>2 DEF RefInv, CoverInv, LogsBounded, CopiesCover
    <3>4. snap'[n][s][o] = x
      BY <1>1, <2>1 DEF ReceiveSnapshot, TypeOK
    <3>5. snap'[n][s][o] # NoLog
      BY <3>1, <3>4, Sentinels
    <3>6. Copy(n, s, o)' = [ver |-> snap'[n][s][o].ver, dead |-> FALSE,
                            data |-> snap'[n][s][o].data]
      BY <1>1, <3>5, CopyValuesNext DEF CopyReads
    <3> QED
      BY <3>3, <3>4, <3>6 DEF Covers
  <2>2. CASE ReceiveTombstone(u)
    <3>1. u.ver <= clock
      BY <1>1, <2>2 DEF RefInv, CoverInv, TombsBounded, ReceiveTombstone
    <3>2. ptomb'[n][s][o] = u.ver
      BY <1>1, <2>2 DEF ReceiveTombstone, TypeOK
    <3>3. ptomb'[n][s][o] # 0
      BY <1>1, <1>2, <1>3, <3>2
    <3>4. Copy(n, s, o)' = [ver |-> ptomb'[n][s][o], dead |-> TRUE, data |-> {}]
      BY <1>1, <3>3, CopyValuesNext DEF CopyReads
    <3> QED
      BY <3>1, <3>2, <3>4
  <2> QED
    BY <2>1, <2>2
<1> HIDE DEF n, s, o
<1>6. Entries' = [Entries EXCEPT ![n][s][o] = Entries'[n][s][o]]
  BY <1>1, <1>4, EntriesAtOne
<1>7. /\ Entries[n][s][o].ver = Known(n, s, o)
      /\ Entries'[n][s][o] = Copy(n, s, o)'
  <2>1. Copy(n, s, o).ver = Known(n, s, o)
    BY DEF Copy
  <2> QED
    BY <1>1, <2>1, EntryAt
<1>8. /\ n # o
      /\ UNCHANGED <<clock, live>>
      /\ Entries'[n][s][o].ver > Entries[n][s][o].ver
      /\ Entries'[n][s][o].ver <= clock
      /\ IF Entries'[n][s][o].dead THEN Entries'[n][s][o].data = {}
         ELSE \A b \in live[o][s] :
                 b <= Entries'[n][s][o].ver => b \in Entries'[n][s][o].data
      /\ Entries' = [Entries EXCEPT ![n][s][o] = Entries'[n][s][o]]
  BY <1>1, <1>2, <1>5, <1>6, <1>7
<1> QED
  BY <1>8 DEF Register!Adopt, Register!Sound, Entries, n, s, o

\* A node that drops a dead origin forgets its snapshots, not its tombstones.
LEMMA ForgetStep ==
    ASSUME RefInv, RefInv', NEW n \in Node, NEW o \in Origin, ForgetOrigin(n, o)
    PROVE  Register!Forget(n, o)
<1> DEFINE kept == [s \in Stream |->
               IF Entries[n][s][o].dead THEN Entries[n][s]
               ELSE [Entries[n][s] EXCEPT ![o] = [ver |-> 0, dead |-> FALSE,
                                                  data |-> {}]]]
<1>1. /\ TypeOK /\ OneOfBoth /\ CopyReads' /\ CopyReads
      /\ o \in Node
  BY CopyValues, CopyValuesNext, Sentinels
     DEF RefInv, CoverInv, CopyReads, Register!Nothing
<1>2. /\ UNCHANGED <<clock, live, ptomb>>
      /\ \A m \in Node, s \in Stream, p \in Node :
            snap'[m][s][p] = IF m = n /\ p = o THEN NoLog ELSE snap[m][s][p]
  BY <1>1 DEF ForgetOrigin, ghostVars, TypeOK
<1>3. \A m \in Node, s \in Stream, p \in Origin :
          ~(m = n /\ p = o) => Copy(m, s, p)' = Copy(m, s, p)
  <2> SUFFICES ASSUME NEW m \in Node, NEW s \in Stream, NEW p \in Origin,
                      ~(m = n /\ p = o)
               PROVE  Copy(m, s, p)' = Copy(m, s, p)
    OBVIOUS
  <2> QED
    BY <1>2, CopySame, Sentinels
<1>4. \A s \in Stream :
          Copy(n, s, o)' = IF Copy(n, s, o).dead THEN Copy(n, s, o)
                           ELSE [ver |-> 0, dead |-> FALSE, data |-> {}]
  <2> SUFFICES ASSUME NEW s \in Stream
               PROVE  Copy(n, s, o)' = IF Copy(n, s, o).dead THEN Copy(n, s, o)
                                ELSE [ver |-> 0, dead |-> FALSE, data |-> {}]
    OBVIOUS
  <2>1. snap'[n][s][o] = NoLog /\ ptomb'[n][s][o] = ptomb[n][s][o]
    BY <1>1, <1>2
  <2>2. CASE ptomb[n][s][o] # 0
    <3>1. snap[n][s][o] = NoLog
      BY <1>1, <2>2 DEF OneOfBoth
    <3>2. Copy(n, s, o)' = Copy(n, s, o)
      BY <2>1, <3>1, CopySame
    <3>3. Copy(n, s, o).dead
      BY <1>1, <2>2 DEF CopyReads
    <3> QED
      BY <3>2, <3>3
  <2>3. CASE ptomb[n][s][o] = 0
    <3>1. Copy(n, s, o)' = [ver |-> 0, dead |-> FALSE, data |-> {}]
      BY <1>1, <2>1, <2>3 DEF CopyReads
    <3>2. ~Copy(n, s, o).dead
      BY <1>1, <2>3 DEF CopyReads
    <3> QED
      BY <3>1, <3>2
  <2> QED
    BY <2>2, <2>3
<1>5. [s \in Stream |-> [p \in Origin |-> Copy(n, s, p)']] = kept
  <2> SUFFICES ASSUME NEW s \in Stream
               PROVE  [p \in Origin |-> Copy(n, s, p)'] = kept[s]
    OBVIOUS
  <2>1. Entries[n][s] = [p \in Origin |-> Copy(n, s, p)]
    BY DEF Entries
  <2>2. CASE Copy(n, s, o).dead
    <3>1. \A p \in Origin : Copy(n, s, p)' = Copy(n, s, p)
      BY <1>3, <1>4, <2>2
    <3> QED
      BY <2>1, <2>2, <3>1
  <2>3. CASE ~Copy(n, s, o).dead
    <3>1. \A p \in Origin :
             Copy(n, s, p)' = IF p = o THEN [ver |-> 0, dead |-> FALSE, data |-> {}]
                              ELSE Copy(n, s, p)
      BY <1>3, <1>4, <2>3
    <3> QED
      BY <2>1, <2>3, <3>1
  <2> QED
    BY <2>2, <2>3
<1>6. Entries' = [Entries EXCEPT ![n] =
                     [s \in Stream |-> [p \in Origin |-> Copy(n, s, p)']]]
  BY <1>3, EntriesAtNode
<1>7. UNCHANGED <<clock, live>> /\ Entries' = [Entries EXCEPT ![n] = kept]
  BY <1>2, <1>5, <1>6
<1> QED
  BY <1>7 DEF Register!Forget, Register!Nothing, Entries

\* A crash takes a node's copies and what it had not saved.
LEMMA AmnesiaStep ==
    ASSUME RefInv, RefInv', NEW n \in Node, Crash(n)
    PROVE  Register!Amnesia(n)
<1>1. TypeOK /\ OneOfBoth /\ CopyReads' /\ Origin \subseteq Node
  BY CopyValuesNext, Sentinels DEF RefInv, CoverInv
<1>2. /\ clock' = clock
      /\ live' = [live EXCEPT ![n] =
                     [s \in Stream |-> live[n][s] \intersect DataOf(disk[n][s])]]
      /\ snap' = [snap EXCEPT ![n] = [s \in Stream |-> [o \in Node |-> NoLog]]]
      /\ ptomb' = [ptomb EXCEPT ![n] = [s \in Stream |-> [o \in Node |-> 0]]]
  BY DEF Crash
<1>3. /\ \A s \in Stream : live'[n][s] \subseteq live[n][s]
      /\ live' = [live EXCEPT ![n] = live'[n]]
  BY <1>1, <1>2 DEF TypeOK
<1>4. \A m \in Node, s \in Stream, p \in Origin :
          m # n => Copy(m, s, p)' = Copy(m, s, p)
  <2> SUFFICES ASSUME NEW m \in Node, NEW s \in Stream, NEW p \in Origin, m # n
               PROVE  Copy(m, s, p)' = Copy(m, s, p)
    OBVIOUS
  <2>1. snap'[m][s][p] = snap[m][s][p] /\ ptomb'[m][s][p] = ptomb[m][s][p]
    BY <1>1, <1>2 DEF TypeOK
  <2> QED
    BY <2>1, CopySame
<1>5. \A s \in Stream, p \in Origin :
          Copy(n, s, p)' = [ver |-> 0, dead |-> FALSE, data |-> {}]
  <2>1. \A s \in Stream, p \in Node : snap'[n][s][p] = NoLog /\ ptomb'[n][s][p] = 0
    BY <1>1, <1>2 DEF TypeOK
  <2> QED
    BY <1>1, <2>1 DEF CopyReads
<1>6. Entries' = [Entries EXCEPT ![n] =
                     [s \in Stream |-> [p \in Origin |-> Copy(n, s, p)']]]
  BY <1>4, EntriesAtNode
<1>7. Entries' = [Entries EXCEPT ![n] = [s \in Stream |-> [p \in Origin |->
                     [ver |-> 0, dead |-> FALSE, data |-> {}]]]]
  BY <1>5, <1>6
<1> QED
  BY <1>2, <1>3, <1>7 DEF Register!Amnesia, Register!Nothing, Entries

\* Every step of the mesh is a step of the registers, or none.
LEMMA RegisterStep ==
    ASSUME RefInv, RefInv', [Next]_vars
    PROVE  [Register!RegisterNext]_(Register!registerVars)
<1> DEFINE Goal == Register!RegisterNext \/ UNCHANGED Register!registerVars
<1>1. Origin \subseteq Node /\ Crasher \subseteq Node /\ TypeOK
  BY Sentinels DEF RefInv, CoverInv
<1>2. ASSUME UNCHANGED <<snap, ptomb>> PROVE Entries' = Entries
  BY <1>2, CopySame, EntriesSame
<1>3. ASSUME Entries' = Entries, UNCHANGED <<clock, live>> PROVE Goal
  BY <1>3 DEF Register!registerVars, Entries
<1>4. ASSUME NEW n \in Origin, NEW s \in Stream, Ingest(n, s)
      PROVE  Register!Write(n, s)
  <2>1. Entries' = Entries
    BY <1>2, <1>4 DEF Ingest, peerVars
  <2>2. clock' = clock + 1 /\ live' = [live EXCEPT ![n][s] = @ \union {clock + 1}]
    BY <1>4 DEF Ingest
  <2> QED
    BY <2>1, <2>2 DEF Register!Write, Entries
<1>5. ASSUME NEW n \in Origin, NEW s \in Stream, BeginDeletion(n, s)
      PROVE  Register!Issue
  <2>1. Entries' = Entries
    BY <1>2, <1>5 DEF BeginDeletion, peerVars
  <2> QED
    BY <1>5, <2>1 DEF BeginDeletion, ghostVars, Register!Issue, Entries
<1>6. ASSUME NEW n \in Origin, NEW s \in Stream, FinishDeletion(n, s)
      PROVE  Goal
  <2>1. Entries' = Entries
    BY <1>2, <1>6 DEF FinishDeletion, peerVars
  <2>2. clock' = clock /\ live' = [live EXCEPT ![n][s] = {}]
    BY <1>6 DEF FinishDeletion
  <2>3. CASE live[n][s] = {}
    <3>1. live' = live
      BY <1>1, <2>2, <2>3 DEF TypeOK
    <3> QED
      BY <1>3, <2>1, <2>2, <3>1
  <2>4. CASE live[n][s] # {}
    <3>1. Register!Delete(n, s)
      BY <2>1, <2>2, <2>4 DEF Register!Delete, Entries
    <3> QED
      BY <3>1 DEF Register!RegisterNext
  <2> QED
    BY <2>3, <2>4
<1>7. ASSUME NEW n \in Origin, NEW s \in Stream,
             Reload(n, s) \/ Save(n, s) \/ Evict(n, s) \/ RollbackDeletion(n, s)
      PROVE  Goal
  BY <1>2, <1>3, <1>7
     DEF Reload, Save, Evict, RollbackDeletion, peerVars, ghostVars
<1>8. ASSUME NEW n \in Crasher, Crash(n)
      PROVE  Goal
  BY <1>1, <1>8, AmnesiaStep DEF Register!RegisterNext
<1>9. ASSUME NEW n \in Node, NEW m \in Node, NEW o \in Origin, NEW s \in Stream,
             SendDigest(n, m, s, o)
      PROVE  Goal
  BY <1>2, <1>3, <1>9 DEF SendDigest, peerVars, ghostVars
<1>10. ASSUME NEW q \in msgs,
              HandleDigest(q) \/ FulfilRequest(q) \/ ReceiveIgnored(q) \/ Lose(q)
       PROVE  Goal
  BY <1>2, <1>3, <1>10
     DEF HandleDigest, FulfilRequest, ReceiveIgnored, Lose, peerVars, ghostVars
<1>11. ASSUME NEW u \in msgs, ReceiveSnapshot(u) \/ ReceiveTombstone(u)
       PROVE  Goal
  <2>1. u.dst \in Node /\ u.stream \in Stream /\ u.origin \in Node
    BY <1>1, MessageFields DEF TypeOK
  <2>2. CASE u.origin \in Origin
    <3>1. Register!Adopt(u.dst, u.stream, u.origin)
      BY <1>11, <2>2, AdoptStep
    <3> QED
      BY <2>1, <2>2, <3>1 DEF Register!RegisterNext
  <2>3. CASE u.origin \notin Origin
    <3>1. \E x, v :
             /\ snap' = [snap EXCEPT ![u.dst][u.stream][u.origin] = x]
             /\ ptomb' = [ptomb EXCEPT ![u.dst][u.stream][u.origin] = v]
      BY <1>11 DEF ReceiveSnapshot, ReceiveTombstone
    <3>2. \A m \in Node, t \in Stream, p \in Origin :
             /\ snap'[m][t][p] = snap[m][t][p]
             /\ ptomb'[m][t][p] = ptomb[m][t][p]
      BY <1>1, <2>1, <2>3, <3>1 DEF TypeOK
    <3>3. Entries' = Entries
      BY <3>2, CopySame, EntriesSame
    <3>4. UNCHANGED <<clock, live>>
      BY <1>11 DEF ReceiveSnapshot, ReceiveTombstone, ghostVars
    <3> QED
      BY <1>3, <3>3, <3>4
  <2> QED
    BY <2>2, <2>3
<1>12. ASSUME NEW n \in Node, SendSnapshot(n)
       PROVE  Goal
  BY <1>2, <1>3, <1>12 DEF SendSnapshot, peerVars, ghostVars
<1>13. ASSUME NEW n \in Node, NEW o \in Origin, ForgetOrigin(n, o)
       PROVE  Goal
  BY <1>13, ForgetStep DEF Register!RegisterNext
<1>14. ASSUME UNCHANGED vars PROVE Goal
  BY <1>2, <1>3, <1>14 DEF vars, peerVars, ghostVars
<1>15. ASSUME NEW n \in Origin, NEW s \in Stream,
              Ingest(n, s) \/ BeginDeletion(n, s)
       PROVE  Goal
  BY <1>4, <1>5, <1>15 DEF Register!RegisterNext
<1>16. Goal
  <2> HIDE DEF Goal
  <2> QED
    BY <1>6, <1>7, <1>8, <1>9, <1>10, <1>11, <1>12, <1>13, <1>14, <1>15
       DEF Next, ClientStep, Deliver
<1> QED
  BY <1>16

\* For every mesh: the gossip exchange implements the registers that
\* OriginRegister promises.  A step of any handler moves at most one copy,
\* only forward, only to an issued version and only with everything that
\* version claims; nothing but a crash or a forgotten origin takes a copy
\* away.
THEOREM MeshImplementsRegister == Spec => ImplementsRegister
<1>1. Init => RefInv
  <2>1. Init => OneOfBoth
    BY DEF Init, OneOfBoth
  <2> QED
    BY <2>1, CoverInit DEF RefInv
<1>2. RefInv /\ [Next]_vars => RefInv'
  <2> SUFFICES ASSUME RefInv, [Next]_vars PROVE RefInv'
    OBVIOUS
  <2> QED
    BY CoverStep, OneOfBothStep DEF RefInv, CoverInv
<1>3. Init => Register!RegisterInit
  <2> SUFFICES ASSUME Init PROVE Register!RegisterInit
    OBVIOUS
  <2>1. \A n \in Node, s \in Stream, o \in Origin :
            Copy(n, s, o) = Register!Nothing
    <3>1. TypeOK /\ OneOfBoth /\ Origin \subseteq Node
      BY TypeInit, Sentinels DEF Init, OneOfBoth
    <3> QED
      BY <3>1, CopyValues DEF Init
  <2> QED
    BY <2>1 DEF Init, Register!RegisterInit
<1>4. RefInv /\ RefInv' /\ [Next]_vars
          => [Register!RegisterNext]_(Register!registerVars)
  BY RegisterStep
<1> QED
  BY <1>1, <1>2, <1>3, <1>4, PTL DEF Spec, ImplementsRegister, Register!RegisterSpec

=============================================================================
