--------------------------- MODULE MCAmoebotSystem ---------------------------
(* Small instances of AmoebotSystem, and of the tables of Ports.           *)
EXTENDS Ports, TLC

\* A triangle of the lattice and one node beyond it.
MCRegion == {<<0, 0>>, <<1, 0>>, <<0, 1>>, <<2, 0>>}
MCSite == {<<0, 1>>}

\* Every pair of bodies on a hexagon of the lattice.
MCHexagon == {<<0, 0>>, <<1, 0>>, <<0, 1>>, <<-1, 1>>, <<-1, 0>>, <<0, -1>>, <<1, -1>>}

\* What every constructor of alg/ passes for globalTailDir, and all it may be.
MCContracted == {-1}
MCAnyTail == {-1} \cup Dir

ParticleSymmetry == Permutations(Particle)
=============================================================================
