------------------------------ MODULE StartShapes ------------------------------
(***************************************************************************)
(* The shapes in which several constructors place their particles: a       *)
(* hexagonal spiral, whose i-th particle is the position-th node of a      *)
(* layer, and a tree grown at random from a seed at the origin.            *)
(***************************************************************************)
EXTENDS Lattice

\* The layer of particle i: the code subtracts 6, 12, 18... while it can.
LayerOf(i) == CHOOSE k \in 1..i : 3 * k * (k - 1) <= i - 1 /\ i - 1 < 3 * k * (k + 1)

HexNode(i) ==
  LET layer    == LayerOf(i)
      position == i - 1 - 3 * layer * (layer - 1)
      offset   == position % layer
  IN  CASE position = 0           -> <<layer - 1, 1 - layer>>
        [] position \in 1 .. layer - 1 -> <<layer, offset - layer>>
        [] position \div layer = 1 -> <<layer - offset, offset>>
        [] position \div layer = 2 -> <<-offset, layer>>
        [] position \div layer = 3 -> <<-layer, layer - offset>>
        [] position \div layer = 4 -> <<offset - layer, -offset>>
        [] position \div layer = 5 -> <<offset, -layer>>

HexShape(numParticles) == {HexNode(i) : i \in 1..numParticles}

\* Each further particle takes a free node next to an earlier one.
Trees(numParticles) ==
  LET grown[k \in 1 .. numParticles] ==
        IF k = 1 THEN {{<<0, 0>>}}
                 ELSE UNION {{S \cup {n} : n \in NbrsOfSet(S)} : S \in grown[k - 1]}
  IN  grown[numParticles]
===============================================================================
