------------------------------ MODULE MeshSync ------------------------------
(***************************************************************************)
(* Sketch Mesh anti-entropy: ClusterManager's digest / request / update    *)
(* exchange, which replicates every node's own ("origin") streams and      *)
(* their deletion tombstones to all peers, directly or through relays.     *)
(*                                                                         *)
(* Every (stream, origin) entry of a digest, of its answer and of a sync   *)
(* payload is decided on its own and, in receive_snapshot, applied under   *)
(* its own lock region, so a message here carries one entry.  Messages are *)
(* a set: they may be delayed and reordered at will, and lost.  A payload  *)
(* that is truncated at the size limit omits an entry, which the receiver  *)
(* reads as version 0.                                                     *)
(*                                                                         *)
(* The registry and its storage are taken in their race-free form (a save  *)
(* is one step); StreamRegistry looks into their interleavings.  Data is   *)
(* the set of batches a sketch holds, a batch is named by the clock value  *)
(* that stamped it, a version is the last_updated of a log.                *)
(***************************************************************************)
EXTENDS Naturals, FiniteSets

CONSTANTS
    Node,          \* the members of the mesh
    Origin,        \* the members whose clients write and delete
    Crasher,       \* the members that may crash
    Stream,        \* the stream keys
    MaxStreams,    \* MAX_PEER_STREAMS
    MaxOrigins,    \* MAX_ORIGINS_PER_STREAM
    MaxClock,      \* bound: stamped events
    MaxMessages,   \* bound: messages in flight
    Faults,        \* the kinds of fault that happen
    MaxFaults,     \* bound: faults of one behaviour
    NoLog,         \* None in place of a log
    Live           \* the log of a pending answer is still the registry's own

Log == [data : SUBSET Nat, ver : Nat]

ASSUME MeshAssumption ==
    /\ IsFiniteSet(Node) /\ IsFiniteSet(Stream)
    /\ Origin \subseteq Node /\ Crasher \subseteq Node
    /\ Faults \subseteq {"crash", "rollback", "lose", "forget"}
    /\ MaxStreams \in Nat /\ MaxOrigins \in Nat
    /\ MaxClock \in Nat /\ MaxMessages \in Nat /\ MaxFaults \in Nat
    /\ NoLog \notin Log /\ Live \notin Log /\ Live # NoLog

VARIABLES
    local,      \* local[n][s]: the registry's resident stream
    disk,       \* disk[n][s]: the durable row
    tomb,       \* tomb[n][s]: local_tombstones, 0 = none
    diskTomb,   \* diskTomb[n][s]: durable tombstone, 0 = none
    del,        \* del[n][s]: the DELETE request between begin_deletion and end
    snap,       \* snap[n][s][o]: peer_snapshots
    ptomb,      \* ptomb[n][s][o]: peer_tombstones, 0 = none
    snapKeys,   \* snapKeys[n]: the stream keys of the peer_snapshots dict
    pending,    \* pending[n]: the own stream the gossip thread is answering with
    msgs,       \* messages in flight
    clock,      \* time.time() of the last stamped event
    faults,     \* faults so far
    live,       \* ghost live[o][s]: batches neither deleted nor lost in a crash
    deleted,    \* ghost deleted[o][s]: batches removed by a committed delete
    delVer,     \* ghost delVer[o][s]: version of the last committed tombstone
    raced       \* ghost raced[o][s]: an ingest fell into a deletion window

localVars == <<local, disk, tomb, diskTomb, del>>
peerVars == <<snap, ptomb, snapKeys>>
ghostVars == <<live, deleted, delVer, raced>>
vars == <<localVars, peerVars, pending, msgs, clock, faults, ghostVars>>

IdleDel == [on |-> FALSE, ver |-> 0, previous |-> 0]
NoPending == [on |-> FALSE, dst |-> NoLog, stream |-> NoLog, ver |-> 0,
              log |-> NoLog]

Init ==
    /\ local = [n \in Node |-> [s \in Stream |-> NoLog]]
    /\ disk = [n \in Node |-> [s \in Stream |-> NoLog]]
    /\ tomb = [n \in Node |-> [s \in Stream |-> 0]]
    /\ diskTomb = [n \in Node |-> [s \in Stream |-> 0]]
    /\ del = [n \in Node |-> [s \in Stream |-> IdleDel]]
    /\ snap = [n \in Node |-> [s \in Stream |-> [o \in Node |-> NoLog]]]
    /\ ptomb = [n \in Node |-> [s \in Stream |-> [o \in Node |-> 0]]]
    /\ snapKeys = [n \in Node |-> {}]
    /\ pending = [n \in Node |-> NoPending]
    /\ msgs = {}
    /\ clock = 0
    /\ faults = 0
    /\ live = [n \in Node |-> [s \in Stream |-> {}]]
    /\ deleted = [n \in Node |-> [s \in Stream |-> {}]]
    /\ delVer = [n \in Node |-> [s \in Stream |-> 0]]
    /\ raced = [n \in Node |-> [s \in Stream |-> FALSE]]

-----------------------------------------------------------------------------
(* Helpers *)

Max2(a, b) == IF a >= b THEN a ELSE b
DataOf(log) == IF log = NoLog THEN {} ELSE log.data
VerOf(log) == IF log = NoLog THEN 0 ELSE log.ver

\* The version a node knows of an entry: snapshot or tombstone.
Known(n, s, o) == Max2(VerOf(snap[n][s][o]), ptomb[n][s][o])

\* The version vector of _gossip_state: own streams and tombstones, and what
\* is known of the peers.
Version(n, s, o) == IF o = n THEN Max2(VerOf(local[n][s]), tomb[n][s])
                    ELSE Known(n, s, o)

Digest(n, m, s, o, v) == [type |-> "digest", src |-> n, dst |-> m, stream |-> s,
                          origin |-> o, ver |-> v]
Request(n, m, s, o) == [type |-> "request", src |-> n, dst |-> m, stream |-> s,
                        origin |-> o]
Snapshot(m, s, o, v, d) == [type |-> "update", dst |-> m, stream |-> s,
                            origin |-> o, tomb |-> FALSE, ver |-> v, data |-> d]
Tombstone(m, s, o, v) == [type |-> "update", dst |-> m, stream |-> s,
                          origin |-> o, tomb |-> TRUE, ver |-> v, data |-> {}]

\* A fault of the given kind happens.
Fault(kind) ==
    /\ kind \in Faults
    /\ faults < MaxFaults
    /\ faults' = faults + 1

\* The stream object leaves the registry: a pending answer keeps it.
Detach(n, s) ==
    IF pending[n].on /\ pending[n].stream = s /\ pending[n].log = Live
    THEN [pending EXCEPT ![n].log = local[n][s]]
    ELSE pending

-----------------------------------------------------------------------------
(* The origin's clients, registry and storage *)

\* ingest_events: get_or_create (reloading an evicted stream) and add.
Ingest(n, s) ==
    LET now == clock + 1
        old == IF local[n][s] # NoLog THEN local[n][s] ELSE disk[n][s]
    IN  /\ clock < MaxClock
        /\ clock' = now
        /\ local' = [local EXCEPT ![n][s] = [data |-> DataOf(old) \union {now},
                                             ver |-> now]]
        /\ live' = [live EXCEPT ![n][s] = @ \union {now}]
        /\ raced' = [raced EXCEPT ![n][s] = @ \/ del[n][s].on]
        /\ UNCHANGED <<disk, tomb, diskTomb, del, peerVars, pending, msgs,
                       faults, deleted, delVer>>

\* registry.get of an evicted stream.
Reload(n, s) ==
    /\ local[n][s] = NoLog /\ disk[n][s] # NoLog
    /\ local' = [local EXCEPT ![n][s] = disk[n][s]]
    /\ UNCHANGED <<disk, tomb, diskTomb, del, peerVars, pending, msgs, clock,
                   faults, ghostVars>>

\* The flush loop saves the stream.
Save(n, s) ==
    /\ VerOf(local[n][s]) > VerOf(disk[n][s])
    /\ disk' = [disk EXCEPT ![n][s] = local[n][s]]
    /\ UNCHANGED <<local, tomb, diskTomb, del, peerVars, pending, msgs, clock,
                   faults, ghostVars>>

\* _evict_if_needed: saved, then removed from the registry.
Evict(n, s) ==
    /\ local[n][s] # NoLog
    /\ disk' = [disk EXCEPT ![n][s] = local[n][s]]
    /\ local' = [local EXCEPT ![n][s] = NoLog]
    /\ pending' = Detach(n, s)
    /\ UNCHANGED <<tomb, diskTomb, del, peerVars, msgs, clock, faults,
                   ghostVars>>

\* reset_stream up to begin_deletion: the tombstone is visible to gossip
\* from here on.
BeginDeletion(n, s) ==
    LET version == Max2(clock + 1, tomb[n][s] + 1)
    IN  /\ local[n][s] # NoLog /\ ~del[n][s].on
        /\ clock < MaxClock
        /\ clock' = clock + 1
        /\ tomb' = [tomb EXCEPT ![n][s] = version]
        /\ del' = [del EXCEPT ![n][s] = [on |-> TRUE, ver |-> version,
                                         previous |-> tomb[n][s]]]
        /\ UNCHANGED <<local, disk, diskTomb, peerVars, pending, msgs, faults,
                       ghostVars>>

\* Mutant: the tombstone is written but the durable row stays.
FinishDeletionKeepsRow(n, s) ==
    /\ del[n][s].on
    /\ del' = [del EXCEPT ![n][s] = IdleDel]
    /\ diskTomb' = [diskTomb EXCEPT ![n][s] = Max2(@, del[n][s].ver)]
    /\ local' = [local EXCEPT ![n][s] = NoLog]
    /\ pending' = Detach(n, s)
    /\ live' = [live EXCEPT ![n][s] = {}]
    /\ deleted' = [deleted EXCEPT ![n][s] = @ \union live[n][s]]
    /\ delVer' = [delVer EXCEPT ![n][s] = del[n][s].ver]
    /\ UNCHANGED <<disk, tomb, peerVars, msgs, clock, faults, raced>>

\* delete_with_tombstone commits and registry.delete removes the resident.
FinishDeletion(n, s) ==
    /\ del[n][s].on
    /\ del' = [del EXCEPT ![n][s] = IdleDel]
    /\ disk' = [disk EXCEPT ![n][s] = NoLog]
    /\ diskTomb' = [diskTomb EXCEPT ![n][s] = Max2(@, del[n][s].ver)]
    /\ local' = [local EXCEPT ![n][s] = NoLog]
    /\ pending' = Detach(n, s)
    /\ live' = [live EXCEPT ![n][s] = {}]
    /\ deleted' = [deleted EXCEPT ![n][s] = @ \union live[n][s]]
    /\ delVer' = [delVer EXCEPT ![n][s] = del[n][s].ver]
    /\ UNCHANGED <<tomb, peerVars, msgs, clock, faults, raced>>

\* Mutant: the rollback of a first tombstone stores None instead of popping.
RollbackStoresNone(n, s) ==
    /\ del[n][s].on
    /\ Fault("rollback")
    /\ del' = [del EXCEPT ![n][s] = IdleDel]
    /\ tomb' = [tomb EXCEPT ![n][s] = IF del[n][s].previous = 0 THEN NoLog
                                      ELSE del[n][s].previous]
    /\ UNCHANGED <<local, disk, diskTomb, peerVars, pending, msgs, clock,
                   ghostVars>>

\* delete_with_tombstone raises: rollback_deletion.
RollbackDeletion(n, s) ==
    /\ del[n][s].on
    /\ Fault("rollback")
    /\ del' = [del EXCEPT ![n][s] = IdleDel]
    /\ tomb' = [tomb EXCEPT ![n][s] = del[n][s].previous]
    /\ UNCHANGED <<local, disk, diskTomb, peerVars, pending, msgs, clock,
                   ghostVars>>

\* A crash and restart of the node: memory is lost, restore_local_tombstones.
Crash(n) ==
    /\ Fault("crash")
    /\ local' = [local EXCEPT ![n] = [s \in Stream |-> NoLog]]
    /\ tomb' = [tomb EXCEPT ![n] = diskTomb[n]]
    /\ del' = [del EXCEPT ![n] = [s \in Stream |-> IdleDel]]
    /\ snap' = [snap EXCEPT ![n] = [s \in Stream |-> [o \in Node |-> NoLog]]]
    /\ ptomb' = [ptomb EXCEPT ![n] = [s \in Stream |-> [o \in Node |-> 0]]]
    /\ snapKeys' = [snapKeys EXCEPT ![n] = {}]
    /\ pending' = [pending EXCEPT ![n] = NoPending]
    /\ live' = [live EXCEPT ![n] =
                    [s \in Stream |-> live[n][s] \intersect DataOf(disk[n][s])]]
    /\ UNCHANGED <<disk, diskTomb, msgs, clock, deleted, delVer, raced>>

-----------------------------------------------------------------------------
(* Gossip *)

\* _gossip_state: the gossip thread sends an entry of its version vector; an
\* entry cut off by _bounded_version_vector, or a snapshot of an origin that
\* the node believes dead, counts as version 0 (or as its tombstone only).
SendDigest(n, m, s, o) ==
    /\ n # m
    /\ Cardinality(msgs) < MaxMessages
    /\ \E v \in {0, Version(n, s, o)} :
          msgs' = msgs \union {Digest(n, m, s, o, v)}
    /\ UNCHANGED <<localVars, peerVars, pending, clock, faults, ghostVars>>

\* The answer of handle_gossip_digest to one entry.  A tombstone that is not
\* older than the snapshot replaces it in the answer.
DigestAnswer(q) ==
    LET m == q.dst
        s == q.stream
        o == q.origin
        log == IF o = m THEN local[m][s] ELSE snap[m][s][o]
        t == IF o = m THEN tomb[m][s] ELSE ptomb[m][s][o]
    IN  (IF o # m /\ q.ver > Known(m, s, o)
         THEN {Request(m, q.src, s, o)} ELSE {})
        \union
        (IF t > q.ver /\ t >= VerOf(log) THEN {Tombstone(q.src, s, o, t)}
         ELSE IF VerOf(log) > q.ver
         THEN {Snapshot(q.src, s, o, log.ver, log.data)} ELSE {})

HandleDigest(q) ==
    /\ q.type = "digest"
    /\ msgs' = (msgs \ {q}) \union DigestAnswer(q)
    /\ UNCHANGED <<localVars, peerVars, pending, clock, faults, ghostVars>>

\* _gossip_state fulfils a request.  For an own stream the version is read
\* first and the snapshot is taken later, while clients keep writing.
FulfilRequest(q) ==
    LET n == q.dst
        s == q.stream
        o == q.origin
        log == IF o = n THEN local[n][s] ELSE snap[n][s][o]
        t == IF o = n THEN tomb[n][s] ELSE ptomb[n][s][o]
    IN  /\ q.type = "request"
        /\ IF t >= VerOf(log)
           THEN /\ msgs' = (msgs \ {q}) \union {Tombstone(q.src, s, o, t)}
                /\ UNCHANGED pending
           ELSE IF o = n
           THEN /\ ~pending[n].on
                /\ pending' = [pending EXCEPT ![n] =
                        [on |-> TRUE, dst |-> q.src, stream |-> s,
                         ver |-> log.ver, log |-> Live]]
                /\ msgs' = msgs \ {q}
           ELSE /\ msgs' = (msgs \ {q}) \union
                               {Snapshot(q.src, s, o, log.ver, log.data)}
                /\ UNCHANGED pending
        /\ UNCHANGED <<localVars, peerVars, clock, faults, ghostVars>>

\* Mutant: the version is read again from the registry when the snapshot of
\* the captured object is sent.
SendSnapshotRestamped(n) ==
    LET p == pending[n]
        log == IF p.log = Live THEN local[n][p.stream] ELSE p.log
    IN  /\ p.on
        /\ msgs' = msgs \union {Snapshot(p.dst, p.stream, n,
                                         Version(n, p.stream, n), log.data)}
        /\ pending' = [pending EXCEPT ![n] = NoPending]
        /\ UNCHANGED <<localVars, peerVars, clock, faults, ghostVars>>

\* stream.get_snapshot() of the pending answer, and its sync post.
SendSnapshot(n) ==
    LET p == pending[n]
        log == IF p.log = Live THEN local[n][p.stream] ELSE p.log
    IN  /\ p.on
        /\ msgs' = msgs \union {Snapshot(p.dst, p.stream, n, p.ver, log.data)}
        /\ pending' = [pending EXCEPT ![n] = NoPending]
        /\ UNCHANGED <<localVars, peerVars, clock, faults, ghostVars>>

\* receive_snapshot: the limits on tracked streams and origins.
KnownStreams(n) ==
    snapKeys[n] \union {s \in Stream : \E o \in Node : ptomb[n][s][o] # 0}
KnownOrigins(n, s) ==
    {o \in Node : snap[n][s][o] # NoLog \/ ptomb[n][s][o] # 0}

HasRoom(n, s, o) ==
    /\ s \in KnownStreams(n) \/ Cardinality(KnownStreams(n)) < MaxStreams
    /\ o \in KnownOrigins(n, s) \/ Cardinality(KnownOrigins(n, s)) < MaxOrigins

\* Mutant: a known tombstone rejects every later snapshot.
AcceptsNothingDeleted(u) ==
    /\ u.origin # u.dst
    /\ HasRoom(u.dst, u.stream, u.origin)
    /\ u.ver > Known(u.dst, u.stream, u.origin)
    /\ ~u.tomb => ptomb[u.dst][u.stream][u.origin] = 0

\* receive_snapshot takes an entry only when it is newer than both the
\* snapshot and the tombstone it knows.
Accepts(u) ==
    /\ u.origin # u.dst
    /\ HasRoom(u.dst, u.stream, u.origin)
    /\ u.ver > Known(u.dst, u.stream, u.origin)

\* receive_snapshot of a newer snapshot: it replaces the tombstone.
ReceiveSnapshot(u) ==
    LET n == u.dst
        s == u.stream
        o == u.origin
    IN  /\ u.type = "update" /\ ~u.tomb
        /\ Accepts(u)
        /\ msgs' = msgs \ {u}
        /\ snap' = [snap EXCEPT ![n][s][o] = [data |-> u.data, ver |-> u.ver]]
        /\ ptomb' = [ptomb EXCEPT ![n][s][o] = 0]
        /\ snapKeys' = [snapKeys EXCEPT ![n] = @ \union {s}]
        /\ UNCHANGED <<localVars, pending, clock, faults, ghostVars>>

\* Mutant: the tombstone is recorded but the snapshot stays.
ReceiveTombstoneKeeps(u) ==
    /\ u.type = "update" /\ u.tomb
    /\ Accepts(u)
    /\ msgs' = msgs \ {u}
    /\ ptomb' = [ptomb EXCEPT ![u.dst][u.stream][u.origin] = u.ver]
    /\ UNCHANGED <<localVars, snap, snapKeys, pending, clock, faults, ghostVars>>

\* receive_snapshot of a newer tombstone: it drops the snapshot, and the
\* stream's dict when no origin is left in it.
ReceiveTombstone(u) ==
    LET n == u.dst
        s == u.stream
        o == u.origin
    IN  /\ u.type = "update" /\ u.tomb
        /\ Accepts(u)
        /\ msgs' = msgs \ {u}
        /\ snap' = [snap EXCEPT ![n][s][o] = NoLog]
        /\ ptomb' = [ptomb EXCEPT ![n][s][o] = u.ver]
        /\ snapKeys' = IF \A p \in Node \ {o} : snap[n][s][p] = NoLog
                       THEN [snapKeys EXCEPT ![n] = @ \ {s}]
                       ELSE snapKeys
        /\ UNCHANGED <<localVars, pending, clock, faults, ghostVars>>

\* receive_snapshot skips the entry: echoed, stale, or no room for it.
ReceiveIgnored(u) ==
    /\ u.type = "update"
    /\ ~Accepts(u)
    /\ msgs' = msgs \ {u}
    /\ UNCHANGED <<localVars, peerVars, pending, clock, faults, ghostVars>>

\* A request or an answer is lost, or times out.
Lose(q) ==
    /\ Fault("lose")
    /\ msgs' = msgs \ {q}
    /\ UNCHANGED <<localVars, peerVars, pending, clock, ghostVars>>

\* _check_timeouts: an origin that stayed dead is dropped with its
\* snapshots; tombstones and emptied stream dicts stay.
ForgetOrigin(n, o) ==
    /\ n # o
    /\ Fault("forget")
    /\ snap' = [snap EXCEPT ![n] =
                    [s \in Stream |-> [snap[n][s] EXCEPT ![o] = NoLog]]]
    /\ UNCHANGED <<localVars, ptomb, snapKeys, pending, msgs, clock, ghostVars>>

-----------------------------------------------------------------------------
ClientStep(n, s) ==
    \/ Ingest(n, s) \/ Reload(n, s) \/ Save(n, s) \/ Evict(n, s)
    \/ BeginDeletion(n, s) \/ FinishDeletion(n, s) \/ RollbackDeletion(n, s)

Deliver(q) ==
    \/ HandleDigest(q) \/ FulfilRequest(q)
    \/ ReceiveSnapshot(q) \/ ReceiveTombstone(q) \/ ReceiveIgnored(q)

Next ==
    \/ \E n \in Origin, s \in Stream : ClientStep(n, s)
    \/ \E n \in Crasher : Crash(n)
    \/ \E n, m \in Node, o \in Origin, s \in Stream : SendDigest(n, m, s, o)
    \/ \E q \in msgs : Deliver(q)
    \/ \E n \in Node : SendSnapshot(n)
    \/ \E q \in msgs : Lose(q)
    \/ \E n \in Node, o \in Origin : ForgetOrigin(n, o)

Spec == Init /\ [][Next]_vars

\* The gossip thread of every node runs for ever and picks its peer at
\* random, the server answers what it is sent, and a DELETE request ends.
\* Digests compete for the bounded channel, hence strong fairness; messages
\* about different entries do not hold each other up.
Fairness ==
    /\ \A n, m \in Node, o \in Origin, s \in Stream :
          SF_vars(SendDigest(n, m, s, o))
    /\ \A n \in Node, o \in Origin, s \in Stream :
          \A type \in {"digest", "request", "update"} :
              WF_vars(\E q \in msgs : /\ q.dst = n /\ q.type = type
                                      /\ q.stream = s /\ q.origin = o
                                      /\ Deliver(q))
    /\ \A n \in Node : WF_vars(SendSnapshot(n))
    /\ \A n \in Origin, s \in Stream : WF_vars(FinishDeletion(n, s))

FairSpec == Spec /\ Fairness

-----------------------------------------------------------------------------
(* Properties *)

DelState == [on : BOOLEAN, ver : Nat, previous : Nat]
PendingState == [on : BOOLEAN, dst : Node \union {NoLog},
                 stream : Stream \union {NoLog}, ver : Nat,
                 log : Log \union {NoLog, Live}]
Message ==
    [type : {"digest"}, src : Node, dst : Node, stream : Stream, origin : Node,
     ver : Nat]
    \union [type : {"request"}, src : Node, dst : Node, stream : Stream,
            origin : Node]
    \union [type : {"update"}, dst : Node, stream : Stream, origin : Node,
            tomb : BOOLEAN, ver : Nat, data : SUBSET Nat]

\* The type invariant of the mesh state.
TypeOK ==
    /\ local \in [Node -> [Stream -> Log \union {NoLog}]]
    /\ disk \in [Node -> [Stream -> Log \union {NoLog}]]
    /\ tomb \in [Node -> [Stream -> Nat]]
    /\ diskTomb \in [Node -> [Stream -> Nat]]
    /\ del \in [Node -> [Stream -> DelState]]
    /\ snap \in [Node -> [Stream -> [Node -> Log \union {NoLog}]]]
    /\ ptomb \in [Node -> [Stream -> [Node -> Nat]]]
    /\ snapKeys \in [Node -> SUBSET Stream]
    /\ pending \in [Node -> PendingState]
    /\ msgs \subseteq Message
    /\ clock \in Nat /\ faults \in Nat
    /\ live \in [Node -> [Stream -> SUBSET Nat]]
    /\ deleted \in [Node -> [Stream -> SUBSET Nat]]
    /\ delVer \in [Node -> [Stream -> Nat]]
    /\ raced \in [Node -> [Stream -> BOOLEAN]]

Covers(o, s, data, ver) == \A b \in live[o][s] : b <= ver => b \in data

\* A replica never claims a version it does not contain: every snapshot of
\* an origin's stream, at a peer or on its way, holds all the origin's
\* batches up to the snapshot's version that were not deleted or lost in a
\* crash.  Otherwise the version comparison of receive_snapshot would hide
\* the missing batches for ever.
VersionCovers ==
    /\ \A n, o \in Node, s \in Stream :
          snap[n][s][o] # NoLog
              => Covers(o, s, snap[n][s][o].data, snap[n][s][o].ver)
    /\ \A u \in msgs : u.type = "update" /\ ~u.tomb
              => Covers(u.origin, u.stream, u.data, u.ver)

\* A tombstone dominates stale relays: outside the race of an ingest with
\* the deletion, no peer holds batches of a deleted stream at a version
\* above the committed tombstone.
TombstoneDominates ==
    \A n, o \in Node, s \in Stream :
        ~raced[o][s] /\ VerOf(snap[n][s][o]) > delVer[o][s]
            => DataOf(snap[n][s][o]) \intersect deleted[o][s] = {}

\* What a node holds of an entry, as the register of OriginRegister: of a
\* snapshot and a tombstone the newer one counts.
Copy(n, s, o) ==
    [ver |-> Known(n, s, o),
     dead |-> ptomb[n][s][o] > VerOf(snap[n][s][o]),
     data |-> DataOf(snap[n][s][o])]

Register == INSTANCE OriginRegister WITH
    copy <- [n \in Node |-> [s \in Stream |-> [o \in Origin |-> Copy(n, s, o)]]]

\* The digest, request and update exchange, with its delays, relays and
\* faults, implements one register per (stream, origin): every step of the
\* mesh moves at most one copy, forward, to a version that was issued and
\* with all it claims to hold; a tombstone leaves nothing beside it.
ImplementsRegister == Register!RegisterSpec

Settled(o, s) ==
    local[o][s] # NoLog /\ local[o][s].ver > tomb[o][s] /\ ~del[o][s].on

\* A stream that stays resident and unchanged at its origin reaches every
\* other node.
SnapshotConverges ==
    \A o \in Origin, n \in Node, s \in Stream :
        n # o /\ <>[]Settled(o, s) => <>[](snap[n][s][o] = local[o][s])

Gone(o, s) ==
    /\ local[o][s] = NoLog /\ disk[o][s] = NoLog
    /\ tomb[o][s] # 0 /\ ~del[o][s].on

\* A stream that stays deleted at its origin disappears from every other
\* node, unless an ingest raced with a deletion.
DeletionConverges ==
    \A o \in Origin, n \in Node, s \in Stream :
        <>[](Gone(o, s) /\ ~raced[o][s]) => <>[](snap[n][s][o] = NoLog)

\* The same without the exception, as the documentation states it.
DeletionReachesPeers ==
    \A o \in Origin, n \in Node, s \in Stream :
        <>[]Gone(o, s) => <>[](snap[n][s][o] = NoLog)

=============================================================================
