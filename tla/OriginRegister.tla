--------------------------- MODULE OriginRegister ---------------------------
(***************************************************************************)
(* What the Sketch Mesh promises, without gossip: every (stream, origin)   *)
(* pair is a register that its origin writes and every other node keeps a  *)
(* copy of.  A copy changes only by moving forward, to a version the       *)
(* origin has issued, and a copy of version v holds every live batch the   *)
(* origin accepted up to v, or is a tombstone and holds nothing.  Only the *)
(* loss of a node's memory, or its decision to forget a dead origin, takes *)
(* a copy away.  MeshSync implements it.                                   *)
(***************************************************************************)
EXTENDS Naturals

CONSTANTS Node, Origin, Stream

VARIABLES
    clock,   \* the last version issued, by any origin
    live,    \* live[o][s]: the batches of o that are neither deleted nor lost
    copy     \* copy[n][s][o]: what node n holds of the entry

registerVars == <<clock, live, copy>>

Nothing == [ver |-> 0, dead |-> FALSE, data |-> {}]

RegisterInit ==
    /\ clock = 0
    /\ live = [o \in Node |-> [s \in Stream |-> {}]]
    /\ copy = [n \in Node |-> [s \in Stream |-> [o \in Origin |-> Nothing]]]

\* The origin accepts a batch, named by the version it gets.
Write(o, s) ==
    /\ clock' = clock + 1
    /\ live' = [live EXCEPT ![o][s] = @ \union {clock + 1}]
    /\ UNCHANGED copy

\* The origin issues a version for a deletion.
Issue ==
    /\ clock' = clock + 1
    /\ UNCHANGED <<live, copy>>

\* The origin deletes the stream.
Delete(o, s) ==
    /\ live[o][s] # {}
    /\ live' = [live EXCEPT ![o][s] = {}]
    /\ UNCHANGED <<clock, copy>>

\* A copy that the origin can have issued and that holds what it claims.
Sound(c, o, s) ==
    /\ c.ver <= clock
    /\ IF c.dead THEN c.data = {}
       ELSE \A b \in live[o][s] : b <= c.ver => b \in c.data

\* A node replaces its copy by a newer one.
Adopt(n, s, o) ==
    /\ n # o
    /\ UNCHANGED <<clock, live>>
    /\ copy'[n][s][o].ver > copy[n][s][o].ver
    /\ Sound(copy'[n][s][o], o, s)
    /\ copy' = [copy EXCEPT ![n][s][o] = copy'[n][s][o]]

\* A node forgets a dead origin; what it knows to be deleted it keeps.
Forget(n, o) ==
    /\ UNCHANGED <<clock, live>>
    /\ copy' = [copy EXCEPT ![n] = [s \in Stream |->
                   IF copy[n][s][o].dead THEN copy[n][s]
                   ELSE [copy[n][s] EXCEPT ![o] = Nothing]]]

\* A node loses its copies, and the batches it had not made durable.
Amnesia(n) ==
    /\ UNCHANGED clock
    /\ \A s \in Stream : live'[n][s] \subseteq live[n][s]
    /\ live' = [live EXCEPT ![n] = live'[n]]
    /\ copy' = [copy EXCEPT ![n] = [s \in Stream |-> [o \in Origin |-> Nothing]]]

RegisterNext ==
    \/ \E o \in Origin, s \in Stream : Write(o, s) \/ Delete(o, s)
    \/ Issue
    \/ \E n \in Node, s \in Stream, o \in Origin : Adopt(n, s, o)
    \/ \E n \in Node, o \in Origin : Forget(n, o)
    \/ \E n \in Node : Amnesia(n)

RegisterSpec == RegisterInit /\ [][RegisterNext]_registerVars

=============================================================================
