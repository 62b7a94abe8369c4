----------------------------- MODULE Membership -----------------------------
(***************************************************************************)
(* Membership of the Sketch Mesh: the SWIM-like failure detector of        *)
(* ClusterManager.  The membership thread of every node pings one random   *)
(* member that it does not hold for dead, both sides merge the other's     *)
(* member table, a failed ping makes the member suspect, and two timeouts  *)
(* make a suspect dead and forget a dead member.                           *)
(*                                                                         *)
(* A node starts with itself and with its seeds under temporary ids; the   *)
(* real id of a seed is learned from its answer.  Every node advertises    *)
(* its address.  A table entry is a status and an incarnation; the clock   *)
(* values of last_updated are abstracted: a timeout may fire at any time,  *)
(* or, with Timely, only while the member is out of reach.                 *)
(***************************************************************************)
EXTENDS Naturals, FiniteSets

CONSTANTS
    Node,         \* the nodes
    Seeds,        \* Seeds[n]: the nodes configured in SKETCHLOG_PEERS of n
    Allowed,      \* Allowed[n]: the nodes in SKETCHLOG_PEER_ALLOWLIST of n
    GossipLimit,  \* entries per payload: 10
    MaxMembers,   \* MAX_MEMBERS
    Timely,       \* a reachable member is pinged before heartbeat_timeout
    MaxFaults,    \* bound: partitions and crashes of one behaviour
    MaxInc,       \* bound: refutations of a suspicion
    None          \* no entry

\* seed-<address>: the temporary id of a seed.
SeedId(m) == <<"seed", m>>
SeedIds == {SeedId(m) : m \in UNION {Seeds[n] : n \in Node}}
Id == Node \union SeedIds

AddressOf(id) == IF id \in Node THEN id ELSE id[2]

Entry == [status : {"alive", "suspect", "dead"}, inc : Nat]
Table == [Id -> Entry \union {None}]

ASSUME MembershipAssumption ==
    /\ IsFiniteSet(Node)
    /\ Seeds \in [Node -> SUBSET Node]
    /\ Node \intersect SeedIds = {}
    /\ Allowed \in [Node -> SUBSET Node]
    /\ GossipLimit \in Nat /\ MaxMembers \in Nat
    /\ Timely \in BOOLEAN
    /\ MaxFaults \in Nat /\ MaxInc \in Nat
    /\ None \notin Entry

VARIABLES
    up,       \* the running nodes
    cut,      \* the pairs of nodes that a partition separates
    members,  \* members[n]: the member table
    ping,     \* ping[n]: the ping of n's membership thread
    faults    \* partitions and crashes so far

vars == <<up, cut, members, ping, faults>>

Alive(i) == [status |-> "alive", inc |-> i]

NoTable == [id \in Id |-> None]
IdlePing == [pc |-> "idle", target |-> None, list |-> NoTable]

\* __init__: the node itself and its seeds, all alive with incarnation 0.
StartTable(n) ==
    [id \in Id |-> IF id = n \/ \E m \in Seeds[n] \intersect Allowed[n] :
                                    id = SeedId(m)
                   THEN Alive(0) ELSE None]

Init ==
    /\ up = Node
    /\ cut = {}
    /\ members = [n \in Node |-> StartTable(n)]
    /\ ping = [n \in Node |-> IdlePing]
    /\ faults = 0

-----------------------------------------------------------------------------
(* Helpers *)

Members(t) == {id \in Id : t[id] # None}

Reachable(n, m) == m \in up /\ {n, m} \notin cut

\* gossip_list: the GossipLimit entries updated last; all of them in a mesh
\* of at most ten.
GossipList(t) ==
    {[id \in Id |-> IF id \in sent THEN t[id] ELSE None] :
        sent \in {s \in SUBSET Members(t) :
                    \/ s = Members(t) /\ Cardinality(s) <= GossipLimit
                    \/ Cardinality(s) = GossipLimit}}

\* Mutant: an equal incarnation also replaces the entry.
NewerOrEqual(old, new) == IF new.inc >= old.inc THEN new ELSE old

\* The entry of another member after hearing new: a higher incarnation
\* replaces it, an equal one may only take an alive member down.
Newer(old, new) ==
    IF new.inc > old.inc THEN new
    ELSE IF new.inc = old.inc /\ old.status = "alive" /\ new.status # "alive"
    THEN [old EXCEPT !.status = new.status]
    ELSE old

\* Mutant: the refutation takes over the incarnation without exceeding it.
RefuteWithoutBump(own, heard) ==
    IF heard # None /\ heard.status # "alive" /\ heard.inc >= own.inc
    THEN Alive(heard.inc)
    ELSE own

\* A node that hears that it is suspect or dead refutes it with a higher
\* incarnation.
Refute(own, heard) ==
    IF heard # None /\ heard.status # "alive" /\ heard.inc >= own.inc
    THEN Alive(heard.inc + 1)
    ELSE own

\* The entries that _merge_membership of n looks at.
Heard(n, list) == {id \in Members(list) : id = n \/ AddressOf(id) \in Allowed[n]}

\* _merge_membership: all tables that n may end up with; new members are
\* admitted while there is room, in the order of the payload.
Merged(n, t, list) ==
    LET unknown == {id \in Heard(n, list) : t[id] = None}
        room == IF Cardinality(Members(t)) >= MaxMembers THEN 0
                ELSE MaxMembers - Cardinality(Members(t))
    IN  {[id \in Id |->
            IF id = n THEN Refute(t[n], list[n])
            ELSE IF id \notin Heard(n, list) THEN t[id]
            ELSE IF t[id] # None THEN Newer(t[id], list[id])
            ELSE IF id \in admitted THEN list[id]
            ELSE None] :
            admitted \in {s \in SUBSET unknown :
                            \/ s = unknown /\ Cardinality(s) <= room
                            \/ Cardinality(s) = room}}

-----------------------------------------------------------------------------
(* _ping_random_member and handle_ping *)

\* The membership thread picks a member that is not dead and posts its
\* gossip list.
PingSend(n, id) ==
    /\ n \in up /\ ping[n].pc = "idle"
    /\ id # n /\ members[n][id] # None
    /\ members[n][id].status # "dead"
    /\ \E list \in GossipList(members[n]) :
          ping' = [ping EXCEPT ![n] = [pc |-> "sent", target |-> id,
                                       list |-> list]]
    /\ UNCHANGED <<up, cut, members, faults>>

\* handle_ping at the address of the target: it merges the list and answers
\* with its own.
PingHandle(n) ==
    LET m == AddressOf(ping[n].target)
    IN  /\ ping[n].pc = "sent"
        /\ Reachable(n, m)
        /\ \E t \in Merged(m, members[m], ping[n].list) :
              /\ members' = [members EXCEPT ![m] = t]
              /\ \E list \in GossipList(t) :
                    ping' = [ping EXCEPT ![n] =
                        [pc |-> "answered", target |-> ping[n].target,
                         list |-> list]]
        /\ UNCHANGED <<up, cut, faults>>

\* The answer is merged, and the temporary id of a seed is dropped.
PingReply(n) ==
    /\ ping[n].pc = "answered"
    /\ Reachable(n, AddressOf(ping[n].target))
    /\ \E t \in Merged(n, members[n], ping[n].list) :
          members' = [members EXCEPT ![n] =
                        IF ping[n].target \in SeedIds
                        THEN [t EXCEPT ![ping[n].target] = None]
                        ELSE t]
    /\ ping' = [ping EXCEPT ![n] = IdlePing]
    /\ UNCHANGED <<up, cut, faults>>

\* The post raises: an alive member becomes suspect.
PingFail(n) ==
    LET id == ping[n].target
        old == members[n][id]
    IN  /\ ping[n].pc # "idle"
        /\ ~Reachable(n, AddressOf(id))
        /\ old # None /\ AddressOf(id) \in up => old.inc < MaxInc
        /\ members' = IF old # None /\ old.status = "alive"
                      THEN [members EXCEPT ![n][id].status = "suspect"]
                      ELSE members
        /\ ping' = [ping EXCEPT ![n] = IdlePing]
        /\ UNCHANGED <<up, cut, faults>>

-----------------------------------------------------------------------------
(* _check_timeouts *)

\* With Timely, a member in reach answers a ping before the timeout fires.
TimeoutDue(n, id) ==
    n \in up /\ (Timely => ~Reachable(n, AddressOf(id)))

\* Mutant: the entry is replaced by one without an incarnation.
MarkDeadOverwrites(n, id) ==
    /\ TimeoutDue(n, id)
    /\ id # n /\ members[n][id] # None
    /\ members[n][id].status = "suspect"
    /\ members' = [members EXCEPT ![n][id] = [status |-> "dead",
                                                 inc |-> None]]
    /\ UNCHANGED <<up, cut, ping, faults>>

\* Suspect for heartbeat_timeout.
MarkDead(n, id) ==
    /\ TimeoutDue(n, id)
    /\ id # n /\ members[n][id] # None
    /\ members[n][id].status = "suspect"
    /\ members' = [members EXCEPT ![n][id].status = "dead"]
    /\ UNCHANGED <<up, cut, ping, faults>>

\* Dead for five times heartbeat_timeout.  The code also drops the member's
\* peer snapshots here: ForgetOrigin of MeshSync.
Remove(n, id) ==
    /\ n \in up
    /\ id # n /\ members[n][id] # None
    /\ members[n][id].status = "dead"
    /\ members' = [members EXCEPT ![n][id] = None]
    /\ UNCHANGED <<up, cut, ping, faults>>

-----------------------------------------------------------------------------
(* The environment *)

Cut(n, m) ==
    /\ n # m /\ {n, m} \notin cut
    /\ faults < MaxFaults
    /\ faults' = faults + 1
    /\ cut' = cut \union {{n, m}}
    /\ UNCHANGED <<up, members, ping>>

Heal(n, m) ==
    /\ {n, m} \in cut
    /\ cut' = cut \ {{n, m}}
    /\ UNCHANGED <<up, members, ping, faults>>

Crash(n) ==
    /\ n \in up
    /\ faults < MaxFaults
    /\ faults' = faults + 1
    /\ up' = up \ {n}
    /\ ping' = [ping EXCEPT ![n] = IdlePing]
    /\ members' = [members EXCEPT ![n] = NoTable]
    /\ UNCHANGED cut

\* A new process with the same node id.
Restart(n) ==
    /\ n \notin up
    /\ up' = up \union {n}
    /\ members' = [members EXCEPT ![n] = StartTable(n)]
    /\ UNCHANGED <<cut, ping, faults>>

-----------------------------------------------------------------------------
Next ==
    \/ \E n \in Node, id \in Id : PingSend(n, id)
    \/ \E n \in Node : PingHandle(n)
    \/ \E n \in Node : PingReply(n)
    \/ \E n \in Node : PingFail(n)
    \/ \E n \in Node, id \in Id : MarkDead(n, id)
    \/ \E n \in Node, id \in Id : Remove(n, id)
    \/ \E n, m \in Node : Cut(n, m)
    \/ \E n, m \in Node : Heal(n, m)
    \/ \E n \in Node : Crash(n)
    \/ \E n \in Node : Restart(n)

Spec == Init /\ [][Next]_vars

\* The membership thread of a running node never stops; random.choice picks
\* every candidate again and again (strong fairness), and a post ends within
\* its timeout.
Fairness ==
    /\ \A n \in Node : \A id \in Id \ {n} : SF_vars(PingSend(n, id))
    /\ \A n \in Node : WF_vars(PingHandle(n) \/ PingReply(n) \/ PingFail(n))

FairSpec == Spec /\ Fairness

-----------------------------------------------------------------------------
(* Properties *)

PingState == [pc : {"idle", "sent", "answered"}, target : Id \union {None},
              list : Table]

\* The type invariant of the membership state.
TypeOK ==
    /\ up \subseteq Node
    /\ cut \subseteq {{n, m} : n, m \in Node}
    /\ members \in [Node -> Table]
    /\ ping \in [Node -> PingState]
    /\ faults \in Nat

Rank(e) == CASE e.status = "alive" -> 0
             [] e.status = "suspect" -> 1
             [] e.status = "dead" -> 2

NotOlder(new, old) ==
    new.inc > old.inc \/ (new.inc = old.inc /\ Rank(new) >= Rank(old))

BeliefStep ==
    \A n \in up \intersect up', id \in Id :
        members[n][id] # None /\ members'[n][id] # None
            => NotOlder(members'[n][id], members[n][id])

\* What a running node believes of a member never goes back: gossip that
\* arrives late, from whichever node, cannot undo a later suspicion or
\* refutation while the member stays in the table.
BeliefMonotone == [][BeliefStep]_vars

Healthy(n, m) == n \in up /\ m \in up /\ {n, m} \notin cut

Pingable(n, m) == members[n][m] # None /\ members[n][m].status # "dead"

\* A node that others suspect, or hold for dead by mistake, is taken back:
\* once both run and no partition separates them, and as long as m itself
\* still pings n, node n comes to hold m for alive and stays with it.
Recovers ==
    \A n, m \in Node :
        n # m => \/ ~<>[](Healthy(n, m) /\ Pingable(m, n))
                 \/ <>[](members[n][m] # None /\ members[n][m].status = "alive")

\* "After rejoin, newer snapshots and tombstones converge": when all nodes
\* run and no partition is left, they hold each other for alive again.
Rejoins ==
    (<>[](\A n, m \in Node : Healthy(n, m)))
        => <>[](\A n, m \in Node :
                    members[n][m] # None /\ members[n][m].status = "alive")

=============================================================================
