------------------------------- MODULE Erosion -------------------------------
(***************************************************************************)
(* What the erosion algorithms promise: particles leave a connected shape  *)
(* one by one without disconnecting what remains, and the last one left is *)
(* the only leader.  SinglePoint and LeaderElectionByErosion are shown to  *)
(* implement this.                                                         *)
(***************************************************************************)
EXTENDS Lattice

CONSTANT Shapes     \* the shapes the constructors can build

VARIABLES alive, leaders

vars == <<alive, leaders>>

Init == alive \in Shapes /\ leaders = {}

\* A particle whose remaining neighbours hang together without it leaves.
Erode(n) ==
  /\ alive # {n}
  /\ Connected(alive \ {n})
  /\ alive' = alive \ {n}
  /\ UNCHANGED leaders

\* The last particle declares itself.
Declare(n) ==
  /\ alive = {n}
  /\ leaders' = {n}
  /\ UNCHANGED alive

Next == \E n \in alive : Erode(n) \/ Declare(n)

SafeSpec == Init /\ [][Next]_vars
Spec == SafeSpec /\ WF_vars(Next)
=============================================================================
