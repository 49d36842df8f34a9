----------------------- MODULE LeaderElectionByErosion -----------------------
(***************************************************************************)
(* alg/leaderelectionbyerosion.cpp: leader election by erosion with a      *)
(* setup phase.  The particles are contracted and never move; each has a   *)
(* compass of its own, so the first candidate its scan meets may be any.   *)
(***************************************************************************)
EXTENDS Lattice, FiniteSets

CONSTANT Shapes     \* the sets of nodes the constructor fills

ASSUME ShapesAssumption ==
  \A S \in Shapes : S \subseteq Node /\ IsFiniteSet(S) /\ S # {} /\ Connected(S)

VARIABLE state      \* _state of each particle

vars == <<state>>

particles == DOMAIN state

InState(s) == {n \in particles : state[n] = s}

HasNbrInState(n, states) == \E m \in Nbrs(n) \cap particles : state[m] \in states

CandNbrs(n) == {d \in Dir : NodeInDir(n, d) \in InState("Candidate")}

\* The two sweeps of canErode from the candidate in direction c, each up to
\* the first position that has none.
Sweep(D, c) ==
  {(c + k) % 6 : k \in {j \in 0..5 : \A i \in 0..j : (c + i) % 6 \in D}}
    \cup {(c - k + 6) % 6 : k \in {j \in 0..5 : \A i \in 0..j : (c - i + 6) % 6 \in D}}

\* Mutant: the sweeps are not compared.
CanErodeUnswept(D) == Cardinality(D) \in 1..5

\* canErode(): rule 1, then rule 2.
CanErode(D) ==
  \/ Cardinality(D) = 1
  \/ \E c \in D : /\ Cardinality(D) \in 2..5
                  /\ Cardinality(D) = Cardinality(Sweep(D, c))

Init == \E S \in Shapes : state = [n \in S |-> "Null"]

\* Mutant: an eroded particle next to a candidate joins again.
SetupAgain(n) ==
  /\ state[n] = "Null" \/ (state[n] = "Eroded" /\ HasNbrInState(n, {"Candidate"}))
  /\ state' = [state EXCEPT ![n] = "Candidate"]

Setup(n) ==
  /\ state[n] = "Null"
  /\ state' = [state EXCEPT ![n] = "Candidate"]

\* Mutant: the setup of the neighbours is not awaited.
ErodeEarly(n) ==
  /\ state[n] = "Candidate"
  /\ CanErode(CandNbrs(n))
  /\ state' = [state EXCEPT ![n] = "Eroded"]

Erode(n) ==
  /\ state[n] = "Candidate"
  /\ ~ HasNbrInState(n, {"Null"})
  /\ CanErode(CandNbrs(n))
  /\ state' = [state EXCEPT ![n] = "Eroded"]

\* Mutant: other candidates are not looked for.
DeclareLeaderEarly(n) ==
  /\ state[n] = "Candidate"
  /\ HasNbrInState(n, {"Null"}) \/ ~ CanErode(CandNbrs(n))
  /\ ~ HasNbrInState(n, {"Null"})
  /\ state' = [state EXCEPT ![n] = "Leader"]

DeclareLeader(n) ==
  /\ state[n] = "Candidate"
  /\ HasNbrInState(n, {"Null"}) \/ ~ CanErode(CandNbrs(n))
  /\ ~ HasNbrInState(n, {"Null", "Candidate"})
  /\ state' = [state EXCEPT ![n] = "Leader"]

\* activate(); in every other case it changes nothing.
Activate(n) == Setup(n) \/ Erode(n) \/ DeclareLeader(n)

HasTerminated == InState("Leader") # {}

Next == \E n \in particles : Activate(n)

\* The system activates particles at random for ever, so no particle waits for
\* ever for an activation.
Spec ==
  Init /\ [][Next]_vars /\ \A n \in UNION Shapes : WF_vars(n \in particles /\ Activate(n))

-----------------------------------------------------------------------------
(* Properties                                                              *)

States == {"Null", "Candidate", "Eroded", "Leader"}

\* The type invariant.
TypeOK == particles \in Shapes /\ state \in [particles -> States]

\* A particle erodes once, and never before all its neighbours are set up:
\* while a neighbour of an eroded particle is still Null the erosion rule was
\* applied to half a neighbourhood.
NoEarlyErosion ==
  \A n \in InState("Eroded") \cup InState("Leader") : ~ HasNbrInState(n, {"Null"})

\* Erosion never disconnects what remains, whatever the order of activations
\* and however far the setup has come.
RestConnected == Connected(particles \ InState("Eroded"))

\* When the run ends because there is a leader, nobody else is in the race:
\* the other particles have all eroded.
ElectionOver ==
  HasTerminated => \E n \in particles : state = [m \in particles |->
                                          IF m = n THEN "Leader" ELSE "Eroded"]

\* The run ends.
Terminates == <>HasTerminated

Abstract == INSTANCE Erosion
  WITH alive <- particles \ InState("Eroded"), leaders <- InState("Leader")

\* The algorithm implements erosion: every step is one of its steps or leaves
\* it alone, as the setup does.
ImplementsErosion == Abstract!Spec
=============================================================================
