------------------------------- MODULE MCEnergy -------------------------------
(***************************************************************************)
(* Hexagon formation, plain, under the energy distribution framework, and  *)
(* as shape formation with shared energy, and energy sharing alone: one    *)
(* instance that starts as a system of any of the four.                    *)
(***************************************************************************)
EXTENDS EDFHexagonFormation, StartShapes, SequencesExt

CONSTANTS
  PlainStarts,       \* the starts of the plain algorithm
  PayingStarts,      \* and of EnergyShape
  PayingRoots,
  SharingStarts,     \* and of EnergySharing
  SharingRoots,
  SharingOrientation,
  MaxParticles       \* the bound on its reproduction

VARIABLES
  algorithm,         \* which of the four the system runs
  energy,            \* of EnergyShape and EnergySharing
  moveDir,           \* EnergyShape's
  usage,             \* EnergySharing's
  watched            \* the particle of it that EnergyReachesAll is about

mcVars == <<edfVars, algorithm, energy, moveDir, usage, watched>>

Plain  == INSTANCE HexagonFormation WITH Starts <- PlainStarts
Paying == INSTANCE EnergyShape
  WITH Starts <- PayingStarts, EnergyRoots <- PayingRoots,
       sState <- state, constructionDir <- hexagonDir, followDir <- parentDir
Sharing == INSTANCE EnergySharing
  WITH Starts <- SharingStarts, Orientation <- SharingOrientation,
       EnergyRoots <- SharingRoots, Usages <- {"Uniform", "Reproduce"}

ASSUME InstancesAssumption ==
  /\ Plain!StartsAssumption /\ Paying!StartsAssumption /\ Sharing!StartsAssumption
  /\ Paying!EnergyAssumption

NoBattery == eState = << >> /\ eParentLabel = << >> /\ battery = << >>
NoEnergy  == energy = << >>
NoWalk    == moveDir = << >>
NoShape   == state = << >> /\ parentDir = << >> /\ hexagonDir = << >>
NoUsage   == usage = "None" /\ watched = 0

MCInit ==
  \/ algorithm = "HexagonFormation" /\ Plain!Init /\ NoBattery /\ NoEnergy /\ NoWalk /\ NoUsage
  \/ algorithm = "EDFHexagonFormation" /\ EDFInit /\ NoEnergy /\ NoWalk /\ NoUsage
  \/ algorithm = "EnergyShape" /\ Paying!Init /\ NoBattery /\ NoUsage
  \/ algorithm = "EnergySharing" /\ Sharing!Init /\ watched \in particles
       /\ NoBattery /\ NoWalk /\ NoShape

PlainActivation(p) ==
  /\ algorithm = "HexagonFormation"
  /\ Activate(p)
  /\ UNCHANGED <<algorithm, energyVars, energy, moveDir, usage, watched>>

EDFActivation(p) ==
  /\ algorithm = "EDFHexagonFormation"
  /\ EDFActivate(p)
  /\ UNCHANGED <<algorithm, energy, moveDir, usage, watched>>

PayingActivation(p) ==
  /\ algorithm = "EnergyShape"
  /\ Paying!Activate(p)
  /\ UNCHANGED <<algorithm, energyVars, usage, watched>>

SharingActivation(p) ==
  /\ algorithm = "EnergySharing"
  /\ Sharing!Activate(p)
  /\ UNCHANGED <<algorithm, energyVars, state, parentDir, hexagonDir, moveDir, watched>>

Activation(p) ==
  PlainActivation(p) \/ EDFActivation(p) \/ PayingActivation(p) \/ SharingActivation(p)

MCNext == \E p \in particles : Activation(p)

\* The specifications of the four, with the fairness of all but EnergyShape.
MCSpec ==
  /\ MCInit /\ [][MCNext]_mcVars
  /\ WF_mcVars(\E p \in particles : PlainActivation(p) \/ EDFActivation(p))
  /\ \A p \in 1 .. MaxParticles : WF_mcVars(p \in particles /\ SharingActivation(p))

-----------------------------------------------------------------------------
\* The algorithms that name their states as HexagonFormation does; EnergyShape's
\* hexagon is that of ShapeFormation.
FormsHexagon == algorithm \in {"HexagonFormation", "EDFHexagonFormation"}

\* HexagonFormation's HexagonIsFull.
HexagonsAreFull == FormsHexagon => HexagonIsFull

\* HexagonFormation's WalkersLed and StaysConnected, with its TypeOK or
\* EDFHexagonFormation's.
HexagonWalkersLed ==
  /\ algorithm = "HexagonFormation" => TypeOK
  /\ algorithm = "EDFHexagonFormation" => EDFTypeOK
  /\ FormsHexagon => WalkersLed /\ StaysConnected

\* EDFHexagonFormation's ForestRooted.
EnergyForestRooted == algorithm = "EDFHexagonFormation" => ForestRooted

\* EnergyShape's TypeOK and ForestStands, and EnergySharing's.
SharingForestStands ==
  /\ algorithm = "EnergyShape" => Paying!TypeOK /\ Paying!ForestStands
  /\ algorithm = "EnergySharing" => Sharing!TypeOK /\ Sharing!ForestStands

\* EnergyShape's ImplementsShapeFormation.
PayingImplementsShapeFormation ==
  /\ algorithm = "EnergyShape" => Paying!Shape!Init
  /\ [][algorithm = "EnergyShape" => Paying!Shape!Next]_(Paying!Shape!vars)

\* HexagonFormation's Terminates and EDFHexagonFormation's EDFTerminates.
HexagonsTerminate ==
  FormsHexagon ~>
    \/ algorithm = "HexagonFormation" /\ HasTerminated
    \/ algorithm = "EDFHexagonFormation" /\ EDFHasTerminated

\* EnergySharing's EnergyReachesAll, of one particle that any may be.
EnergyReachesAll ==
  (algorithm = "EnergySharing" /\ usage = "Uniform")
    ~> (algorithm = "EnergySharing" /\ Sharing!HasEnergy(watched))

-----------------------------------------------------------------------------
\* The nodes of a start, the seed's first.
SeedFirst(nodes) == <<(<<0, 0>>)>> \o SetToSortSeq(nodes \ {<<0, 0>>}, Before)

\* k nodes to the east, the seed's first.
Line(k) == [i \in 1 .. k |-> <<i - 1, 0>>]

\* Compasses that differ.
MCCompasses == {[p \in 1..9 |-> (5 * p * p + 3) % 6]}

\* A line for a hexagon with one ring round the seed and the next begun, and a
\* fork for one that is reached from two sides.
MCPlainStarts == {Line(8), SeedFirst({<<0, 0>>, <<1, 0>>, <<2, 0>>, <<0, 1>>, <<0, 2>>})}
MCStarts == {Line(3), SeedFirst({<<0, 0>>, <<0, 1>>, <<-1, 1>>}),
             SeedFirst({<<0, 0>>, <<-1, 0>>, <<-2, 1>>})}
MCPayingStarts == {Line(3)}
MCPayingRoots == {{1}, {2}}
MCSharingStarts == {[i \in 1 .. k |-> HexNode(i)] : k \in {2, 3}}
=============================================================================
