---------------------- MODULE EDFLeaderElectionByErosion ----------------------
(***************************************************************************)
(* alg/edfleaderelectionbyerosion.cpp: leader election by erosion among    *)
(* particles that pay for each of its actions with energy, which sources   *)
(* harvest and share along a forest they grow over the others.             *)
(*                                                                         *)
(* The actions of LeaderElectionByErosion are those of the source; its     *)
(* state is _lState here.  The parents are kept as directions on the       *)
(* compasses of the children.                                              *)
(***************************************************************************)
EXTENDS LeaderElectionByErosion, LocalParticle, EnergyFramework

CONSTANTS
  Compasses,         \* the draws of randDir(), one direction per node
  SourceSets         \* the sets of nodes whose particles may be the sources

ASSUME CompassAssumption == Compasses \subseteq [UNION Shapes -> Dir]

VARIABLES
  compass,           \* the orientation of each particle
  eState,            \* _eState, _eParentDir and _battery of each particle
  eParentDir,
  battery

edfVars == <<vars, compass, eState, eParentDir, battery>>

BodyAt(n) == [head |-> n, globalTailDir |-> -1, orientation |-> compass[n]]

Energy == [state |-> eState, up |-> eParentDir, battery |-> battery]
SetEnergy(energy) ==
  eState' = energy.state /\ eParentDir' = energy.up /\ battery' = energy.battery

NbrParticles(n) == Nbrs(n) \cap particles

EDFInit ==
  /\ Init
  /\ compass \in Compasses
  /\ \E sources \in SourceSets :
       /\ sources \subseteq particles
       /\ \E energy \in {NewEnergy(sources, particles)} :
            eState = energy.state /\ eParentDir = energy.up /\ battery = energy.battery

\* childLabels()
Children(n) ==
  {m \in NbrParticles(n) : /\ eParentDir[m] # -1
                           /\ PointsAtMe(BodyAt(n), BodyAt(m), eParentDir[m])}

CanAct(n) == MaySpend(n, Energy, NbrParticles(n))

\* The setup, the erosion or the declaration, paid for.
Act(n) ==
  /\ CanAct(n)
  /\ Activate(n)
  /\ SetEnergy(Spent(n, Energy))
  /\ UNCHANGED compass

\* One of the three guards holds.
HasWork(n) ==
  \/ state[n] = "Null"
  \/ /\ state[n] = "Candidate"
     /\ ~ HasNbrInState(n, {"Null"})
     /\ CanErode(CandNbrs(n)) \/ CandNbrs(n) = {}

\* Mutant: the direction is not turned round.
DirAlong(n, m) ==
  LET label == CHOOSE l \in UniqueLabels(BodyAt(n)) : NbrNode(BodyAt(n), l) = m
  IN  DirToNbrDir(BodyAt(n), BodyAt(m), LabelToDir(BodyAt(n), label))

\* The direction to n from its neighbour m, for m.
DirBack(n, m) ==
  LET label == CHOOSE l \in UniqueLabels(BodyAt(n)) : NbrNode(BodyAt(n), l) = m
  IN  DirToNbrDir(BodyAt(n), BodyAt(m), Opposite(LabelToDir(BodyAt(n), label)))

DistributeEnergy(n) ==
  /\ ~ (CanAct(n) /\ HasWork(n))
  /\ LET adopted == [m \in {q \in NbrParticles(n) : eState[q] = "Idle"} |-> DirBack(n, m)]
     IN  \E energy \in Distributed(n, Energy, Children(n), adopted) :
           energy # Energy /\ SetEnergy(energy)
  /\ UNCHANGED <<vars, compass>>

\* activate(); in every other case it changes nothing.
EDFActivate(n) == Act(n) \/ DistributeEnergy(n)

EDFNext == \E n \in particles : EDFActivate(n)

EDFHasTerminated == FullyCharged(Energy) /\ HasTerminated

\* The system activates particles at random for ever, so while one of them can
\* do something, something happens.
EDFSpec == EDFInit /\ [][EDFNext]_edfVars /\ WF_edfVars(EDFNext)

-----------------------------------------------------------------------------
(* Properties                                                              *)

\* The type invariant.
EDFTypeOK ==
  /\ TypeOK
  /\ eState \in [particles -> EnergyStates \ {"Pruning"}]
  /\ eParentDir \in [particles -> {-1} \cup Dir]
  /\ battery \in [particles -> 0 .. Capacity + TransferRate - 1]
=============================================================================
