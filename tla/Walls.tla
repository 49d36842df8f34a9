--------------------------------- MODULE Walls ---------------------------------
(***************************************************************************)
(* The closed walls of objects that the constructors of the demos build:   *)
(* from the origin, sideLen steps in each of some directions.              *)
(***************************************************************************)
EXTENDS Lattice, Sequences

Wall(dirs, sideLen) ==
  LET boundNode[k \in 0 .. sideLen * Len(dirs)] ==
        IF k = 0 THEN <<0, 0>> ELSE NodeInDir(boundNode[k - 1], dirs[(k - 1) \div sideLen + 1])
  IN  {boundNode[k] : k \in 0 .. sideLen * Len(dirs) - 1}

Hexagon(sideLen) == Wall(<<0, 1, 2, 3, 4, 5>>, sideLen)
Rhombus(sideLen) == Wall(<<0, 1, 3, 4>>, sideLen)

\* What lies strictly within them.
InHexagon(sideLen) ==
  {n \in (-sideLen + 1 .. sideLen - 1) \X (1 .. 2 * sideLen - 1) : n[1] + n[2] \in 1 .. 2 * sideLen - 1}
InRhombus(sideLen) == (1 .. sideLen - 1) \X (1 .. sideLen - 1)
=============================================================================
