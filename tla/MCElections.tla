----------------------------- MODULE MCElections -----------------------------
(***************************************************************************)
(* The elections.  Leader election by erosion, plain and under the energy  *)
(* distribution framework, is one instance that starts as a system of      *)
(* either; the election by tokens, whose state is that of no other, is a   *)
(* second one.                                                             *)
(***************************************************************************)
EXTENDS EDFLeaderElectionByErosion, StartShapes

CONSTANTS
  MaxPowered,          \* particles of the largest system that needs energy
  AgentShapes,         \* the Shapes and Retrying of LeaderElection
  Retrying

VARIABLES
  powered,             \* whether the particles need energy
  body, objects,       \* the variables of LeaderElection, with state
  currentAgent, agents, tokens

LE == INSTANCE LeaderElection WITH Shapes <- AgentShapes

ASSUME AgentsAssumption == LE!ShapesAssumption

agentVars == <<body, objects, currentAgent, agents, tokens>>
mcVars == <<edfVars, powered, agentVars>>

NoEnergy == compass = << >> /\ eState = << >> /\ eParentDir = << >> /\ battery = << >>
NoAgents == body = << >> /\ objects = {} /\ currentAgent = << >> /\ agents = << >> /\ tokens = << >>

MCInit ==
  /\ \/ powered = FALSE /\ Init /\ NoEnergy
     \/ powered = TRUE /\ EDFInit /\ Cardinality(particles) <= MaxPowered
  /\ NoAgents

PlainActivation(n) ==
  /\ ~ powered
  /\ Activate(n)
  /\ UNCHANGED <<powered, compass, eState, eParentDir, battery, agentVars>>

PaidActivation(n) ==
  /\ powered
  /\ EDFActivate(n)
  /\ UNCHANGED <<powered, agentVars>>

MCNext == \E n \in particles : PlainActivation(n) \/ PaidActivation(n)

\* The specifications of the two, with their fairness.
MCSpec ==
  /\ MCInit /\ [][MCNext]_mcVars
  /\ WF_mcVars(MCNext)

AgentsInit == LE!Init /\ NoEnergy /\ powered = FALSE

AgentsNext == LE!Next /\ UNCHANGED <<compass, eState, eParentDir, battery, powered>>

\* The specification of the election by tokens.
AgentsSpec == AgentsInit /\ [][AgentsNext]_mcVars

\* With energy or without it, the election ends: with energy all particles have
\* joined the forest by then and have full batteries (hasTerminated), and no
\* battery has ever been overdrawn (EDFTypeOK).
RunsEnd ==
  /\ [](powered => EDFTypeOK)
  /\ <>(IF powered THEN EDFHasTerminated ELSE HasTerminated)

\* What the election by tokens promises.
WellFormed     == LE!WellFormed
SoleIsAlone    == LE!SoleIsAlone
AnswerUnderWay == LE!AnswerUnderWay

\* The shapes of the constructor, up to one layer and a part of the second.
MCShapes == {HexShape(k) : k \in 1..9}

\* Compasses that differ.
MCCompasses == {[n \in UNION MCShapes |-> (n[1] + 4 * n[2] + 3) % 6]}

\* A source at the end, one in the middle, two.
MCSourceSets == {{HexNode(1)}, {HexNode(2)}, {HexNode(1), HexNode(4)}}

BodiesOf(nodes, compasses) ==
  [p \in DOMAIN nodes |-> [head |-> nodes[p], globalTailDir |-> -1, orientation |-> compasses[p]]]

\* One particle, two, and a triangle, whose compasses differ.
MCSmall ==
  { BodiesOf(<< <<0, 0>> >>, <<1>>),
    BodiesOf(<< <<0, 0>>, <<1, 0>> >>, <<0, 4>>),
    BodiesOf(<< <<0, 0>>, <<1, 0>>, <<0, 1>> >>, <<0, 2, 5>>) }

\* Three in a bent row: the one in the middle has two agents.
MCRow == BodiesOf(<< <<0, 0>>, <<1, 0>>, <<1, 1>> >>, <<3, 0, 1>>)

MCAgentShapes == MCSmall \cup {MCRow}
=============================================================================
