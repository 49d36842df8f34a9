---------------------------- MODULE LatticeFigures ----------------------------
(***************************************************************************)
(* The figures that the formation algorithms promise, as sets of nodes.    *)
(* Each is filled node by node: a set is such a figure if it is a whole    *)
(* one and the first nodes of a row along one of its sides, without which  *)
(* the next whole one would not come about.                                *)
(***************************************************************************)
EXTENDS Lattice, FiniteSets

\* The node i steps from n in direction d.
Far(n, d, i) == <<n[1] + i * xOffset[d + 1], n[2] + i * yOffset[d + 1]>>

\* m nodes in a row that starts at n.
Row(n, d, m) == {Far(n, d, i) : i \in 0 .. m - 1}

\* l rows of m nodes, and k rows each shorter by one than the last, side by side.
Block(n, d, m, e, l) == UNION {Row(Far(n, e, j), d, m) : j \in 0 .. l - 1}
Triangle(n, d, e, k)   == UNION {Row(Far(n, e, j), d, k - j) : j \in 0 .. k - 1}

\* The nodes at most k steps from the origin.
Ball(k) == {n \in (-k .. k) \X (-k .. k) : n[1] + n[2] \in -k .. k}

\* A line.
IsLine(S) ==
  \E n \in S, d \in Dir, m \in 1 .. Cardinality(S) : S = Row(n, d, m)

\* A square, or one side short of the next square, and the nodes that have been
\* added along the longer side.
IsSquare(S) ==
  \E k \in {i \in 1 .. Cardinality(S) : i * i <= Cardinality(S)} :
    \E n \in S, d \in Dir, turn \in {1, 2, 4, 5}, m \in k .. k + 1 :
      LET e     == (d + turn) % 6
          whole == Block(n, d, m, e, k)
      IN  /\ whole \subseteq S
          /\ \E added \in 0 .. m - 1 : S = whole \cup Row(Far(n, e, k), d, added)

\* A triangle, and the nodes that have been added along its third side.
IsTriangle(S) ==
  \E k \in {i \in 1 .. Cardinality(S) : i * (i + 1) <= 2 * Cardinality(S)} :
    \E n \in S, d \in Dir, turn \in {1, 5} :
      LET whole == Triangle(n, d, (d + turn) % 6, k)
      IN  /\ whole \subseteq S
          /\ \E added \in 0 .. k :
               S = whole \cup Row(Far(n, d, k), (d + 2 * turn) % 6, added)

\* The side of the ring of the nodes k steps from the origin that follows on its
\* corner in direction d: its first m nodes.
Side(d, turn, k, m) ==
  LET e == (d + 2 * turn) % 6
  IN  Row(Far(Far(<<0, 0>>, d, k), e, 1), e, m)

\* A hexagon round the origin, and the nodes that have been added in the next
\* ring: whole sides one after the other, and a part of one.
IsHexagon(S) ==
  \E k \in {i \in 1 .. Cardinality(S) : 3 * i * (i - 1) < Cardinality(S)} :
    /\ Ball(k - 1) \subseteq S
    /\ \E d \in Dir, turn \in {1, 5}, sides \in 0..5, added \in 0 .. k - 1 :
         S = Ball(k - 1)
               \cup (UNION {Side((d + i * turn) % 6, turn, k, k) : i \in 0 .. sides - 1})
               \cup Side((d + sides * turn) % 6, turn, k, added)
=============================================================================
