-------------------------------- MODULE MCDemos --------------------------------
(***************************************************************************)
(* The small algorithms and the demos: one instance that starts as a       *)
(* system of any of them.  The bodies and the objects are those of all but *)
(* SinglePoint.                                                            *)
(***************************************************************************)
EXTENDS BallroomDemo, StartShapes, SequencesExt

CONSTANTS
  Shapes,            \* SinglePoint's
  RingSide,          \* TokenDemo's
  RingCompasses,
  TokensPerColor,
  Lifetime,
  FillerStarts,      \* HoleFiller's
  FloorWidth,        \* columns of the rhombus that BallroomDemo's pairs keep to
  NumDancers,        \* particles of DiscoDemo and MetricsDemo
  CounterMax,
  Colors,
  MaxBumps

VARIABLES
  demo,              \* which of them the system runs
  state,             \* of SinglePoint, DiscoDemo and MetricsDemo
  pointAt,           \* SinglePoint's
  tokens,            \* TokenDemo's
  counter,           \* of DiscoDemo and MetricsDemo
  wallBumps          \* MetricsDemo's

mcVars == <<vars, demo, state, pointAt, tokens, counter, wallBumps>>

Point   == INSTANCE SinglePoint
Ring    == INSTANCE TokenDemo WITH SideLen <- RingSide, Compasses <- RingCompasses
Filler  == INSTANCE HoleFiller WITH Starts <- FillerStarts
Disco   == INSTANCE DiscoDemo WITH NumParticles <- NumDancers

ASSUME DemosAssumption ==
  /\ Point!ShapesAssumption /\ Ring!RingAssumption /\ Filler!StartsAssumption
  /\ BallAssumption /\ Disco!DiscoAssumption

\* The columns next to one side of the rhombus bound the dance.
OnFloor(nodes) == \A n \in nodes : n[1] <= FloorWidth

NoBody    == body = << >> /\ objects = {}
NoPoint   == state = << >> /\ pointAt = << >>
NoTokens  == tokens = << >>
NoBall    == partnerLbl = << >>
NoDisco   == counter = << >>
NoBumps   == wallBumps = 0

MCInit ==
  \/ demo = "SinglePoint" /\ Point!Init /\ NoBody /\ NoTokens /\ NoBall /\ NoDisco /\ NoBumps
  \/ demo = "TokenDemo" /\ Ring!Init /\ NoPoint /\ NoBall /\ NoDisco /\ NoBumps
  \/ demo = "HoleFiller" /\ Filler!Init /\ NoPoint /\ NoTokens /\ NoBall /\ NoDisco /\ NoBumps
  \/ demo = "BallroomDemo" /\ Init /\ OnFloor(Occupied) /\ NoPoint /\ NoTokens /\ NoDisco /\ NoBumps
  \/ demo = "DiscoDemo" /\ Disco!Init /\ pointAt = << >> /\ NoTokens /\ NoBall /\ NoBumps
  \/ demo = "MetricsDemo" /\ Disco!MetricsInit /\ pointAt = << >> /\ NoTokens /\ NoBall

PointStep ==
  /\ demo = "SinglePoint"
  /\ Point!Next
  /\ UNCHANGED <<demo, body, objects, tokens, partnerLbl, counter, wallBumps>>
RingStep ==
  /\ demo = "TokenDemo"
  /\ Ring!Next
  /\ UNCHANGED <<demo, state, pointAt, partnerLbl, counter, wallBumps>>
FillerStep ==
  /\ demo = "HoleFiller"
  /\ Filler!Next
  /\ UNCHANGED <<demo, state, pointAt, tokens, partnerLbl, counter, wallBumps>>
BallStep ==
  /\ demo = "BallroomDemo"
  /\ Next
  /\ OnFloor(Occupied')
  /\ UNCHANGED <<demo, state, pointAt, tokens, counter, wallBumps>>
DiscoStep ==
  /\ demo = "DiscoDemo"
  /\ Disco!Next
  /\ UNCHANGED <<demo, pointAt, tokens, partnerLbl, wallBumps>>
BumpingStep ==
  /\ demo = "MetricsDemo"
  /\ Disco!MetricsNext
  /\ UNCHANGED <<demo, pointAt, tokens, partnerLbl>>

MCNext ==
  \/ PointStep \/ RingStep \/ FillerStep
  \/ BallStep \/ DiscoStep \/ BumpingStep

\* The specifications of all, with the fairness of the first three.
MCSpec ==
  /\ MCInit /\ [][MCNext]_mcVars
  /\ WF_mcVars(PointStep \/ RingStep \/ FillerStep)

-----------------------------------------------------------------------------
\* SinglePoint's TypeOK and PointersLeadOut.
PointersLeadOut == demo = "SinglePoint" => Point!TypeOK /\ Point!PointersLeadOut

\* SinglePoint's ImplementsErosion.
ImplementsErosion ==
  /\ demo = "SinglePoint" => Point!Abstract!Init
  /\ [][demo = "SinglePoint" => Point!Abstract!Next]_(Point!Abstract!vars)
  /\ (demo = "SinglePoint") ~> (Point!InState("Leader") # {})

\* TokenDemo's TypeOK, Orderly and TokensKept.
TokensGoRound ==
  /\ [](demo = "TokenDemo" => Ring!TypeOK /\ Ring!Orderly)
  /\ [][demo = "TokenDemo" => Ring!KeepsTokens]_(Ring!vars)

\* HoleFiller's TypeOK and FillersHoldTogether.
FillersHoldTogether == demo = "HoleFiller" => Filler!TypeOK /\ Filler!FillersHoldTogether

\* BallroomDemo's TypeOK and PartnersStay, and the walls of the three demos
\* that have one hold, with the types of DiscoDemo.
DancersStay ==
  /\ demo = "BallroomDemo" => TypeOK /\ PartnersStay /\ WallHolds
  /\ demo \in {"DiscoDemo", "MetricsDemo"} => Disco!TypeOK /\ Disco!WallHolds

\* TokenDemo's Terminates and HoleFiller's Settles.
DemosEnd ==
  (demo \in {"TokenDemo", "HoleFiller"}) ~>
    IF demo = "TokenDemo" THEN Ring!HasTerminated ELSE Filler!AtRest

-----------------------------------------------------------------------------
\* The shapes of SinglePoint's constructor, up to one layer and a part of the
\* second.
MCShapes == {HexShape(k) : k \in 1..9}

\* Compasses that agree, that turn with the ring and that are mixed.
MixedCompass(p) == (5 * p * p + 3) % 6
MCRingCompasses ==
  { [p \in 0 .. 6 * RingSide - 1 |-> 0],
    [p \in 0 .. 6 * RingSide - 1 |-> p % 6],
    [p \in 0 .. 6 * RingSide - 1 |-> MixedCompass(p)] }
MixedCompasses == {[p \in 1 .. 20 |-> MixedCompass(p)]}

\* The trees of four, the seed's node first.
MCFillerStarts ==
  {<<(<<0, 0>>)>> \o SetToSortSeq(nodes \ {<<0, 0>>}, Before) : nodes \in Trees(4)}
=============================================================================
