---------------------------- MODULE AmoebotModel ----------------------------
(***************************************************************************)
(* What the simulator promises to the algorithms written for it, with      *)
(* nothing said of labels, compasses or the node-to-particle map: every    *)
(* particle occupies one node or two adjacent ones, no node is shared,     *)
(* a handover moves one node from one neighbour to the other whichever of  *)
(* the two starts it, and a round ends when every particle has taken part  *)
(* since the last one did.  AmoebotSystem is shown to implement this.      *)
(***************************************************************************)
EXTENDS Lattice, FiniteSets

CONSTANTS
  Particle,
  NoParticle,
  Site        \* the nodes that can be occupied

VARIABLES
  occ,        \* the nodes each particle of the system occupies
  waiting,    \* the particles that have yet to take part in this round
  rounds,     \* the rounds completed
  active      \* the particle that acts, if one does

vars == <<occ, waiting, rounds, active>>

Alive == DOMAIN occ
Free(n) == \A p \in Alive : n \notin occ[p]

\* p takes part in the current round; the last one to do so ends it.
TakesPart(p) ==
  IF waiting \subseteq {p}
  THEN rounds' = rounds + 1 /\ waiting' = Alive
  ELSE rounds' = rounds     /\ waiting' = waiting \ {p}

Init ==
  /\ occ = << >>
  /\ waiting = {}
  /\ rounds = 0
  /\ active = NoParticle

Activate(p) ==
  /\ active = NoParticle
  /\ active' = p
  /\ TakesPart(p)
  /\ UNCHANGED occ

Return ==
  /\ active' = NoParticle
  /\ UNCHANGED <<occ, waiting, rounds>>

Grow(p) ==
  /\ \E n \in occ[p] :
       /\ occ[p] = {n}
       /\ \E m \in Nbrs(n) : Free(m) /\ occ' = [occ EXCEPT ![p] = {n, m}]
  /\ UNCHANGED <<waiting, rounds, active>>

Shrink(p) ==
  /\ Cardinality(occ[p]) = 2
  /\ \E n \in occ[p] : occ' = [occ EXCEPT ![p] = {n}]
  /\ UNCHANGED <<waiting, rounds, active>>

\* giver has two nodes and hands n over to the neighbour taker, who has one.
Gives(giver, taker, n) ==
  /\ Cardinality(occ[giver]) = 2
  /\ n \in occ[giver]
  /\ \E m \in occ[taker] :
       /\ occ[taker] = {m}
       /\ Adjacent(m, n)
       /\ occ' = [occ EXCEPT ![giver] = @ \ {n}, ![taker] = {m, n}]

Handover(p) ==
  \E q \in Alive \ {p} :
    /\ \/ \E n \in occ[p] : Gives(p, q, n)
       \/ \E n \in occ[q] : Gives(q, p, n)
    /\ TakesPart(q)
    /\ UNCHANGED active

Insert(p) ==
  /\ p \notin Alive
  /\ \E n \in Site :
       /\ Free(n)
       /\ \E S \in {{n}} \cup {{n, m} : m \in {k \in Nbrs(n) : Free(k)}} :
            occ' = [q \in Alive \cup {p} |-> IF q = p THEN S ELSE occ[q]]
  /\ waiting' = waiting \cup {p}
  /\ UNCHANGED <<rounds, active>>

Remove(p) ==
  /\ occ' = [q \in Alive \ {p} |-> occ[q]]
  /\ waiting' = waiting \ {p}
  /\ active' = NoParticle
  /\ UNCHANGED rounds

\* Only the active particle moves, itself and in a handover one neighbour.
Next ==
  \/ \E p \in Alive : Activate(p)
  \/ \E p \in Alive : active = p /\ (Grow(p) \/ Shrink(p) \/ Handover(p) \/ Remove(p))
  \/ \E p \in Particle : Insert(p)
  \/ Return

Spec == Init /\ [][Next]_vars
=============================================================================
