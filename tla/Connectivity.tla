----------------------------- MODULE Connectivity -----------------------------
(***************************************************************************)
(* System::isConnected (core/system.h): the breadth-first search with      *)
(* which compression, shape formation and leader election watch, in debug  *)
(* builds, that the system stays in one piece.                             *)
(***************************************************************************)
EXTENDS Lattice, Sequences, FiniteSets, SequencesExt

CONSTANT Systems     \* the sets of nodes that the particles may occupy

VARIABLES
  nodes,           \* the nodes of the particles
  occupiedNodes,   \* the nodes the search has still to reach
  queue,           \* the nodes reached and not yet expanded
  answer           \* what is returned; "none" while the search runs

vars == <<nodes, occupiedNodes, queue, answer>>

FirstNode(S) == CHOOSE m \in S : \A n \in S \ {m} : Before(m, n)

\* The search starts at the first node of the set, and the set is cleared.
Init ==
  /\ nodes \in Systems
  /\ queue = <<FirstNode(nodes)>>
  /\ occupiedNodes = {}
  /\ answer = "none"

Visit ==
  /\ queue # << >>
  /\ LET found == Nbrs(Head(queue)) \cap occupiedNodes
     IN  /\ queue' = Tail(queue) \o SetToSortSeq(found, Before)
         /\ occupiedNodes' = occupiedNodes \ found
  /\ UNCHANGED <<nodes, answer>>

Answer ==
  /\ queue = << >>
  /\ answer = "none"
  /\ answer' = (IF occupiedNodes = {} THEN "connected" ELSE "split")
  /\ UNCHANGED <<nodes, occupiedNodes, queue>>

Next == Visit \/ Answer

Spec == Init /\ [][Next]_vars

-----------------------------------------------------------------------------
\* "Checks whether the particle system forms one connected component"
\* (core/system.h:80): the answer is right.
ChecksConnected ==
  answer # "none" => (answer = "connected") = Connected(nodes)
=============================================================================
