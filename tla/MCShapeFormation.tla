--------------------------- MODULE MCShapeFormation ---------------------------
EXTENDS ShapeFormation, StartShapes

\* The nodes of a start, the seed's first.
SeedFirst(nodes) == <<(<<0, 0>>)>> \o SetToSortSeq(nodes \ {<<0, 0>>}, Before)

\* k nodes in direction d, the seed's first.
Line(k, d) == [i \in 1 .. k |-> Far(<<0, 0>>, d, i - 1)]

\* Every tree of three; a fork long enough to turn a corner of each figure; and
\* two lines: seven particles make the first ring round the seed, and begin the
\* third row of a square and the fourth of a triangle; the eighth begins the
\* second ring.
MCStarts ==
  {SeedFirst(nodes) : nodes \in Trees(3) \cup {{<<0, 0>>, <<1, 0>>, <<2, 0>>, <<0, 1>>, <<0, 2>>}}}
    \cup {Line(7, 0), Line(8, 0)}

MCLine == {Line(5, 0)}

\* Eight particles only form the hexagon.
MCInit == Init /\ (Cardinality(particles) = 8 => mode = "h")
MCSpec == MCInit /\ [][Next]_vars /\ WF_vars(Next)
=============================================================================
