-------------------------- MODULE MembershipProofs --------------------------
(***************************************************************************)
(* Proofs about Membership: the type invariant and the monotonicity of     *)
(* every node's beliefs, for any number of nodes, any seeds, limits and    *)
(* allowlists, with and without timely pings.                              *)
(***************************************************************************)
EXTENDS Membership, TLAPS

\* A ping in flight has a target in the table's index set.
PingTargets == \A n \in Node : ping[n].pc # "idle" => ping[n].target \in Id

MemberInv == TypeOK /\ PingTargets

\* The entries of the start table and of the idle ping are well formed.
LEMMA StartTables ==
    /\ NoTable \in Table
    /\ IdlePing \in PingState
    /\ \A n \in Node : StartTable(n) \in Table
BY DEF NoTable, IdlePing, PingState, StartTable, Table, Alive, Entry

\* A gossip list is a table.
LEMMA GossipListType ==
    ASSUME NEW t \in Table, NEW list \in GossipList(t)
    PROVE  list \in Table
BY DEF GossipList, Table

\* Newer returns an entry that is not older than the one it replaces.
LEMMA NewerResult ==
    ASSUME NEW old \in Entry, NEW new \in Entry
    PROVE  Newer(old, new) \in Entry /\ NotOlder(Newer(old, new), old)
BY DEF Newer, NotOlder, Rank, Entry

\* Refute returns an entry that is not older than the own one.
LEMMA RefuteResult ==
    ASSUME NEW own \in Entry \union {None}, NEW heard \in Entry \union {None}
    PROVE  /\ Refute(own, heard) \in Entry \union {None}
           /\ own # None => NotOlder(Refute(own, heard), own)
BY MembershipAssumption DEF Refute, Alive, NotOlder, Rank, Entry

\* _merge_membership yields a table in which no entry that stays has become
\* older.
LEMMA MergedResult ==
    ASSUME NEW n \in Node, NEW t \in Table, NEW list \in Table,
           NEW res \in Merged(n, t, list)
    PROVE  /\ res \in Table
           /\ \A id \in Id : t[id] # None /\ res[id] # None
                                => NotOlder(res[id], t[id])
<1>1. PICK admitted :
        res = [id \in Id |->
            IF id = n THEN Refute(t[n], list[n])
            ELSE IF id \notin Heard(n, list) THEN t[id]
            ELSE IF t[id] # None THEN Newer(t[id], list[id])
            ELSE IF id \in admitted THEN list[id]
            ELSE None]
  BY DEF Merged
<1>2. \A id \in Id : /\ t[id] \in Entry \union {None}
                     /\ list[id] \in Entry \union {None}
  BY DEF Table
<1>3. n \in Id
  BY DEF Id
<1>4. ASSUME NEW id \in Id
      PROVE  /\ res[id] \in Entry \union {None}
             /\ t[id] # None /\ res[id] # None => NotOlder(res[id], t[id])
  <2>1. CASE id = n
    <3>1. res[id] = Refute(t[id], list[id])
      BY <1>1, <2>1
    <3> QED
      BY <3>1, <1>2, RefuteResult
  <2>2. CASE id # n /\ id \notin Heard(n, list)
    <3>1. res[id] = t[id]
      BY <1>1, <2>2
    <3>2. t[id] \in Entry => NotOlder(t[id], t[id])
      BY DEF NotOlder, Rank, Entry
    <3> QED
      BY <3>1, <3>2, <1>2
  <2>3. CASE id # n /\ id \in Heard(n, list) /\ t[id] # None
    <3>1. res[id] = Newer(t[id], list[id])
      BY <1>1, <2>3
    <3>2. t[id] \in Entry /\ list[id] \in Entry
      BY <1>2, <2>3 DEF Heard, Members
    <3> QED
      BY <3>1, <3>2, NewerResult
  <2>4. CASE id # n /\ id \in Heard(n, list) /\ t[id] = None
    BY <1>1, <1>2, <2>4
  <2> QED
    BY <2>1, <2>2, <2>3, <2>4
<1> QED
  BY <1>1, <1>4 DEF Table

-----------------------------------------------------------------------------
\* The initial state is well formed.
LEMMA MemberInit == Init => MemberInv
<1> SUFFICES ASSUME Init PROVE MemberInv
  OBVIOUS
<1> QED
  BY StartTables DEF Init, MemberInv, TypeOK, PingTargets, IdlePing

\* Every step keeps the tables and the pings well formed and moves no belief
\* backwards.
LEMMA MemberStep == MemberInv /\ [Next]_vars => MemberInv' /\ [BeliefStep]_vars
<1> SUFFICES ASSUME MemberInv, [Next]_vars
             PROVE  MemberInv' /\ (BeliefStep \/ UNCHANGED vars)
  OBVIOUS
<1> USE DEF MemberInv
<1>same. ASSUME NEW n \in Node, NEW id \in Id, members[n][id] # None
         PROVE  NotOlder(members[n][id], members[n][id])
  <2>1. members[n][id] \in Entry
    BY <1>same DEF TypeOK, Table
  <2> QED
    BY <2>1 DEF NotOlder, Rank, Entry
<1>keep. UNCHANGED members => BeliefStep
  BY <1>same DEF BeliefStep, TypeOK
<1>1. ASSUME NEW n \in Node, NEW id \in Id, PingSend(n, id)
      PROVE  MemberInv' /\ BeliefStep
  <2>1. PICK list \in GossipList(members[n]) :
            ping' = [ping EXCEPT ![n] = [pc |-> "sent", target |-> id,
                                         list |-> list]]
    BY <1>1 DEF PingSend
  <2>2. list \in Table
    BY GossipListType DEF TypeOK
  <2> QED
    BY <1>1, <2>1, <2>2, <1>keep DEF PingSend, TypeOK, PingState, PingTargets
<1>2. ASSUME NEW n \in Node, PingHandle(n)
      PROVE  MemberInv' /\ BeliefStep
  <2> DEFINE m == AddressOf(ping[n].target)
  <2>1. m \in Node /\ ping[n].list \in Table /\ members[m] \in Table
    BY <1>2 DEF PingHandle, Reachable, TypeOK, PingState
  <2>2. PICK t \in Merged(m, members[m], ping[n].list) :
            /\ members' = [members EXCEPT ![m] = t]
            /\ \E list \in GossipList(t) :
                  ping' = [ping EXCEPT ![n] =
                        [pc |-> "answered", target |-> ping[n].target,
                         list |-> list]]
    BY <1>2 DEF PingHandle
  <2>3. /\ t \in Table
        /\ \A id \in Id : members[m][id] # None /\ t[id] # None
                            => NotOlder(t[id], members[m][id])
    BY <2>1, MergedResult
  <2>4. PICK list \in GossipList(t) :
            ping' = [ping EXCEPT ![n] =
                        [pc |-> "answered", target |-> ping[n].target,
                         list |-> list]]
    BY <2>2
  <2>5. list \in Table
    BY <2>3, GossipListType
  <2>6. MemberInv'
    <3>1. up' = up /\ cut' = cut /\ faults' = faults /\ ping[n].pc = "sent"
      BY <1>2 DEF PingHandle
    <3>2. members' \in [Node -> Table]
      <4>1. members \in [Node -> Table]
        BY DEF TypeOK
      <4> HIDE DEF m
      <4> QED
        BY <2>2, <2>3, <4>1
    <3>3. ping' \in [Node -> PingState]
      BY <2>4, <2>5 DEF TypeOK, PingState
    <3>4. PingTargets'
      BY <2>4, <3>1 DEF TypeOK, PingState, PingTargets
    <3> QED
      BY <3>1, <3>2, <3>3, <3>4 DEF TypeOK
  <2>7. BeliefStep
    BY <2>1, <2>2, <2>3, <1>same DEF BeliefStep, TypeOK
  <2> QED
    BY <2>6, <2>7
<1>3. ASSUME NEW n \in Node, PingReply(n)
      PROVE  MemberInv' /\ BeliefStep
  <2>1. ping[n].list \in Table /\ members[n] \in Table
    BY DEF TypeOK, PingState
  <2>2. PICK t \in Merged(n, members[n], ping[n].list) :
            members' = [members EXCEPT ![n] =
                          IF ping[n].target \in SeedIds
                          THEN [t EXCEPT ![ping[n].target] = None]
                          ELSE t]
    BY <1>3 DEF PingReply
  <2>3. /\ t \in Table
        /\ \A id \in Id : members[n][id] # None /\ t[id] # None
                            => NotOlder(t[id], members[n][id])
    BY <2>1, MergedResult
  <2> DEFINE res == IF ping[n].target \in SeedIds
                    THEN [t EXCEPT ![ping[n].target] = None]
                    ELSE t
  <2>4. /\ res \in Table
        /\ \A id \in Id : res[id] # None => res[id] = t[id]
    BY <2>3 DEF Table
  <2> HIDE DEF res
  <2>5. members' = [members EXCEPT ![n] = res]
    BY <2>2 DEF res
  <2>6. MemberInv'
    BY <1>3, <2>4, <2>5, StartTables DEF PingReply, TypeOK, PingTargets, IdlePing
  <2>7. BeliefStep
    BY <2>3, <2>4, <2>5, <1>same DEF BeliefStep, TypeOK
  <2> QED
    BY <2>6, <2>7
<1>4. ASSUME NEW n \in Node, PingFail(n)
      PROVE  MemberInv' /\ BeliefStep
  <2> DEFINE id == ping[n].target
  <2>1. id \in Id /\ members[n][id] \in Entry \union {None}
    BY <1>4 DEF PingFail, PingTargets, TypeOK, Table
  <2>2. CASE ~(members[n][id] # None /\ members[n][id].status = "alive")
    <3>1. UNCHANGED members
      BY <1>4, <2>2 DEF PingFail
    <3> QED
      BY <1>4, <3>1, <1>keep, StartTables
         DEF PingFail, TypeOK, PingTargets, IdlePing
  <2>3. CASE members[n][id] # None /\ members[n][id].status = "alive"
    <3> DEFINE new == [members[n][id] EXCEPT !.status = "suspect"]
    <3>1. new \in Entry /\ NotOlder(new, members[n][id])
      BY <2>1, <2>3 DEF Entry, NotOlder, Rank
    <3>2. members' = [members EXCEPT ![n][id] = new]
      BY <1>4, <2>1, <2>3 DEF PingFail, TypeOK, Table
    <3> HIDE DEF new
    <3>3. MemberInv'
      BY <1>4, <2>1, <3>1, <3>2, StartTables
         DEF PingFail, TypeOK, Table, PingTargets, IdlePing
    <3>4. BeliefStep
      BY <2>1, <3>1, <3>2, <1>same DEF BeliefStep, TypeOK, Table
    <3> QED
      BY <3>3, <3>4
  <2> QED
    BY <2>2, <2>3
<1>5. ASSUME NEW n \in Node, NEW id \in Id, MarkDead(n, id)
      PROVE  MemberInv' /\ BeliefStep
  <2> DEFINE new == [members[n][id] EXCEPT !.status = "dead"]
  <2>1. members[n][id] \in Entry /\ members[n][id].status = "suspect"
    BY <1>5 DEF MarkDead, TypeOK, Table
  <2>2. new \in Entry /\ NotOlder(new, members[n][id])
    BY <2>1 DEF Entry, NotOlder, Rank
  <2>3. members' = [members EXCEPT ![n][id] = new]
    BY <1>5 DEF MarkDead, TypeOK, Table
  <2> HIDE DEF new
  <2>4. MemberInv'
    BY <1>5, <2>2, <2>3 DEF MarkDead, TypeOK, Table, PingTargets
  <2>5. BeliefStep
    BY <2>2, <2>3, <1>same DEF BeliefStep, TypeOK, Table
  <2> QED
    BY <2>4, <2>5
<1>6. ASSUME NEW n \in Node, NEW id \in Id, Remove(n, id)
      PROVE  MemberInv' /\ BeliefStep
  <2>1. members' = [members EXCEPT ![n][id] = None]
    BY <1>6 DEF Remove
  <2>2. MemberInv'
    BY <1>6, <2>1 DEF Remove, TypeOK, Table, PingTargets
  <2>3. BeliefStep
    BY <2>1, <1>same DEF BeliefStep, TypeOK, Table
  <2> QED
    BY <2>2, <2>3
<1>7. ASSUME NEW n \in Node, NEW m \in Node, Cut(n, m) \/ Heal(n, m)
      PROVE  MemberInv' /\ BeliefStep
  BY <1>7, <1>keep DEF Cut, Heal, TypeOK, PingTargets
<1>8. ASSUME NEW n \in Node, Crash(n)
      PROVE  MemberInv' /\ BeliefStep
  <2>1. MemberInv'
    BY <1>8, StartTables DEF Crash, TypeOK, PingTargets, IdlePing
  <2>2. BeliefStep
    BY <1>8, <1>same DEF Crash, BeliefStep, TypeOK
  <2> QED
    BY <2>1, <2>2
<1>9. ASSUME NEW n \in Node, Restart(n)
      PROVE  MemberInv' /\ BeliefStep
  <2>1. MemberInv'
    BY <1>9, StartTables DEF Restart, TypeOK, PingTargets
  <2>2. BeliefStep
    BY <1>9, <1>same DEF Restart, BeliefStep, TypeOK
  <2> QED
    BY <2>1, <2>2
<1>10. CASE UNCHANGED vars
  BY <1>10 DEF vars, TypeOK, PingTargets
<1> QED
  BY <1>1, <1>2, <1>3, <1>4, <1>5, <1>6, <1>7, <1>8, <1>9, <1>10 DEF Next

-----------------------------------------------------------------------------
\* The membership state keeps its type.
THEOREM MembershipTypeCorrect == Spec => []TypeOK
<1>1. Init => MemberInv
  BY MemberInit
<1>2. MemberInv /\ [Next]_vars => MemberInv'
  BY MemberStep
<1>3. MemberInv => TypeOK
  BY DEF MemberInv
<1> QED
  BY <1>1, <1>2, <1>3, PTL DEF Spec

\* No gossip, in whatever order it arrives, moves a node's belief about a
\* member backwards while the member stays in its table: _merge_membership
\* keeps the order of incarnations and, within one, of statuses.
THEOREM BeliefsNeverGoBack == Spec => BeliefMonotone
<1>1. Init => MemberInv
  BY MemberInit
<1>2. MemberInv /\ [Next]_vars => MemberInv' /\ [BeliefStep]_vars
  BY MemberStep
<1> QED
  BY <1>1, <1>2, PTL DEF Spec, BeliefMonotone

=============================================================================
