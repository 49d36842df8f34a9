--------------------------- MODULE MCInfObjCoating ---------------------------
EXTENDS InfObjCoating

\* All placements of three particles on the objects of six with these lines.
BuildsOn(lines) ==
  UNION {{<<ObjectLine(s), SetToSortSeq(P, Before)>> : P \in Placements(ObjectLine(s), 3)} : s \in lines}

\* Flat, with a bump, with a pit, steep.
MCBuilds ==
  BuildsOn({<<0, 0, 0, 0, 0>>, <<0, 0, 1, 0, 5>>, <<0, 5, 5, 0, 1>>, <<1, 1, 0, 5, 1>>})

\* Compasses that agree, and compasses that do not.
MCCompasses == {<<0, 0, 0>>, <<4, 0, 1>>}
=============================================================================
