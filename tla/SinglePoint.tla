----------------------------- MODULE SinglePoint -----------------------------
(***************************************************************************)
(* alg/singlepoint.cpp: leader election by erosion, in which a particle    *)
(* that erodes keeps a pointer to one of its active neighbours.  The       *)
(* particles are contracted, never move and share the global compass, so   *)
(* a particle is named by its node and its labels are global directions.   *)
(***************************************************************************)
EXTENDS Lattice, FiniteSets

CONSTANT Shapes     \* the sets of nodes the constructor fills

\* What an instance has to assume.
ShapesAssumption ==
  \A S \in Shapes : S \subseteq Node /\ IsFiniteSet(S) /\ S # {} /\ Connected(S)

VARIABLES
  state,     \* _state of each particle
  pointAt    \* _pointAt of each particle

vars == <<state, pointAt>>

shape == DOMAIN state

InState(s) == {n \in shape : state[n] = s}

ActiveNbrs(n) == {d \in Dir : NodeInDir(n, d) \in InState("Active")}

\* Mutant: two gaps are accepted.
IsConsecutiveTwoGaps(D) ==
  Cardinality(D) <= 1 \/ Cardinality({d \in D : (d + 1) % 6 \notin D}) <= 2

\* isConsecutive, over the sorted directions of the neighbours: an error is a
\* direction whose successor on the compass is missing.
IsConsecutive(D) ==
  Cardinality(D) <= 1 \/ Cardinality({d \in D : (d + 1) % 6 \notin D}) <= 1

First(D) == CHOOSE d \in D : \A e \in D : d <= e

\* Mutant: the pointer points away from the active neighbour.
ErodeAway(D) ==
  IF Cardinality(D) = 6 \/ ~ IsConsecutive(D) THEN -1 ELSE Opposite(First(D))

\* erode(): the direction to point at, or -1.
Erode(D) ==
  IF Cardinality(D) = 6 \/ ~ IsConsecutive(D) THEN -1 ELSE First(D)

Init ==
  \E S \in Shapes :
    /\ state = [n \in S |-> "Active"]
    /\ pointAt = [n \in S |-> -1]

BecomeLeader(n) ==
  /\ state[n] = "Active"
  /\ ActiveNbrs(n) = {}
  /\ state' = [state EXCEPT ![n] = "Leader"]
  /\ UNCHANGED pointAt

BecomeIdle(n) ==
  /\ state[n] = "Active"
  /\ ActiveNbrs(n) # {}
  /\ Erode(ActiveNbrs(n)) # -1
  /\ state' = [state EXCEPT ![n] = "Idle"]
  /\ pointAt' = [pointAt EXCEPT ![n] = Erode(ActiveNbrs(n))]

\* activate(); in every other case it changes nothing.
Activate(n) == BecomeLeader(n) \/ BecomeIdle(n)

Next == \E n \in shape : Activate(n)

\* The system activates particles at random for ever, so no particle waits for
\* ever for an activation.
Spec == Init /\ [][Next]_vars /\ \A n \in UNION Shapes : WF_vars(n \in shape /\ Activate(n))

-----------------------------------------------------------------------------
(* Properties                                                              *)

States == {"Active", "Idle", "Leader"}

\* The type invariant.
TypeOK ==
  /\ state \in [shape -> States]
  /\ pointAt \in [shape -> {-1} \cup Dir]
  /\ shape \in Shapes

\* The pointers of the eroded particles lead out of them: they point at
\* particles of the system and no set of them points only into itself, so once
\* there is a leader, following the pointers from anywhere ends at it.
PointersLeadOut ==
  /\ \A n \in InState("Idle") : pointAt[n] # -1 /\ NodeInDir(n, pointAt[n]) \in shape
  /\ \A C \in SUBSET InState("Idle") :
       C # {} => \E n \in C : NodeInDir(n, pointAt[n]) \notin C

Abstract == INSTANCE Erosion
  WITH alive <- shape \ InState("Idle"), leaders <- InState("Leader")

\* The algorithm implements erosion, its progress included.
ImplementsErosion == Abstract!Spec
=============================================================================
