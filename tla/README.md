# AmoebotSim, modelled and verified in TLA+

AmoebotSim simulates systems of *amoebot* particles on the triangular lattice. A particle
occupies one node (contracted) or two adjacent nodes (expanded), sees only its neighbours,
numbers its ports on a compass of its own, and is activated at random, again and again. The
simulator (`core/`) keeps the particles, the map from nodes to particles and the metrics; each
algorithm (`alg/`) is a class of particles with an `activate()` and a class of systems with a
constructor and often a `hasTerminated()`.

The modules here model the core and every algorithm but Aggregation and DynamicDemo. TLC
checks them on small instances; TLAPS proves the central safety properties of the core, of the
erosion algorithms, of `Compression`, of the coating, of the shapes, of the hexagons by pulls and
their energy, of shared energy, of the hole fillers, the tokens and the dances for all instances.

## 1. Inventory

| Part | Source | State | Operations | Correct when |
|---|---|---|---|---|
| Lattice | `core/node.h` | none | `nodeInDir`, the order of nodes | |
| Particle, LocalParticle | `core/particle.*`, `core/localparticle.*` | head, tail direction, compass | labels to directions and nodes and back, predictions after an expansion, comparison of two compasses | the tables agree with the geometry |
| AmoebotParticle | `core/amoebotparticle.*` | tokens | `expand`, `contract*`, `push`, `pull`, looking at neighbours, tokens | moves keep bodies and the node map in step |
| AmoebotSystem | `core/amoebotsystem.*` | particle vector, node map, object map, activated set | `activate`, `activateParticleAt`, `insert`, `remove`, `register*` | map is exact, rounds are counted |
| Count, Measure | `core/metric.*` | values, histories | `record`, `calculate` | one entry a round, or every few rounds |
| System | `core/system.*` | mutex | `isConnected` | answers what it says |
| Simulator | `core/simulator.*` | timer, shared system | `step`, `start`, `stop`, `setSystem`, `runUntilTermination` | nothing runs after the end, nobody uses a system that was replaced |
| SinglePoint | `alg/singlepoint.*` | state, pointer | erosion to one leader | one leader, pointers lead to it |
| LeaderElectionByErosion | `alg/leaderelectionbyerosion.*` | state | setup, erosion, declaration | one leader, candidates stay connected, ends |
| InfObjCoating | `alg/infobjcoating.*` | state, pointer, complaints | forest of followers, walk on the surface | nobody is lost, comes to rest |
| ShapeFormation | `alg/shapeformation.*` | state, three directions, signal | the same, round a growing shape | the shape is the one asked for, ends |
| Compression | `alg/compression.*` | neighbour count, flag | expand, go on or go back | connected, no holes, simulates the Markov chain |
| LeaderElection | `alg/leaderelection.*` | agents and their states, tokens | segment comparison, coin flipping, solitude test, border test | no assertion fails, tokens come to the agent they are for, one leader, tokens are not lost that somebody waits for |
| HexagonFormation | `alg/hexagonformation.*` | state, two directions | forest of followers, walk round the hexagon, pulls | the hexagon is full at every moment, ends |
| EDFHexagonFormation, EDFLeaderElectionByErosion | `alg/edf*.*` | the above, energy state, parent, battery | the energy distribution framework round another algorithm | the energy forest survives the moves, ends |
| EnergyShape, EnergySharing | `alg/energyshape.*`, `alg/energysharing.*` | energy state, parent, battery, stress, inhibition | harvest, share, use; insertion of particles | the forest survives moves and insertions; nobody is left without energy |
| GlobalParticle, HoleFiller | `core/globalparticle.*`, `alg/holefiller.*` | none but the body | sink, pull, turn | stay together, come to rest |
| TokenDemo | `alg/demo/tokendemo.*` | tokens | pass the tokens round the ring | none lost, in order, all die |
| BallroomDemo | `alg/demo/ballroomdemo.*` | pointer of the follower | handovers of pairs | partners stay together |
| DiscoDemo, MetricsDemo | `alg/demo/` | colour, counter, a count | random walk in a hexagon | nobody gets out |
| DynamicDemo, Aggregation | `alg/` | | | section 7 |
| User interface, scripting, start-up, random numbers | `ui/`, `script/`, `main/`, `helper/`, `res/` | | | section 7 |

How they interact: the Simulator's timer calls `System::activate()` under the system's mutex,
the renderer and the scripts read under the same mutex. `AmoebotSystem::activate()` picks a
random particle, registers the activation (which may end a round and record the metrics) and
calls its `activate()`, which looks at neighbours through ports and calls the moves; these
change one or two bodies, the node map and the movement count. Activations never overlap: what
makes the algorithms hard is the *order* of activations, in which information read in one
activation is used in a later one.

Hard behaviours, with the line where each bites, are listed in `PROJECT.json` under
`hazards`. The main ones are: handovers that change two bodies and the map; rounds found by
comparing the sizes of two containers that a removal changes; label tables; pointers that
must be redirected in handovers; contractions that must wait for somebody; neighbour counts
that are taken in one activation and used in another; termination read off the state of
particles.

## 2. The modules

| Module | Models | Remarks |
|---|---|---|
| `Lattice` | nodes, directions | a node is a pair of integers |
| `LatticeFigures` | line, square, triangle, hexagon as sets of nodes | models no code: the properties of `ShapeFormation` and `HexagonFormation` say with it what the code builds |
| `LocalParticle` | bodies, labels, compasses | all of `core/localparticle.cpp`; a body is a record; the searches round a contracted body (`FirstFrom`, `FreeClockwise`) |
| `Metrics` | rounds, counts, one measure | operators on a record `log`, used by `AmoebotSystem` |
| `AmoebotSystem` | the particle system | the algorithm is left open: an activation makes any sequence of calls whose assertions hold |
| `AmoebotModel` | *abstract*: the amoebot model | sets of nodes; moves without labels, compass or map; rounds |
| `Ports` | properties of labels | over the bodies reachable in `AmoebotSystem` |
| `Amoebots` | the same interface, for algorithms | an activation is one step; extended by the algorithms with bodies |
| `Erosion` | *abstract*: erosion of a connected shape | implemented by the next two |
| `SinglePoint`, `LeaderElectionByErosion` | the two erosion algorithms | particles never move, so a particle is its node |
| `LeaderElection` | the election by tokens | an agent is a record in its particle; a token is a record that says from which neighbour it came, and so for which agent it is |
| `StartShapes` | the hexagon and the random tree the constructors fill | |
| `InfObjCoating` | the coating and what its constructor builds | |
| `ShapeFormation` | the five shapes | a start is a sequence of nodes, the seed's first; the compasses are any |
| `CompressionChain` | *abstract*: the sequential Markov chain | one particle jumps at a time |
| `Compression` | the local, asynchronous algorithm | implements the chain |
| `HexagonFormation` | hexagons by pulls | the actions `Alpha1` to `Alpha6` are the source's |
| `EnergyFramework` | the energy distribution framework | what one activation does to the energy of all, as operators; the two sources repeat it word for word |
| `EDFHexagonFormation`, `EDFLeaderElectionByErosion` | the framework round the two algorithms | extend the modules of these, whose actions are taken or paid for unchanged |
| `SharedEnergy` | harvest, sharing, stress, inhibition | what the next two have in common |
| `EnergyShape` | hexagon formation paid from shared energy | implements mode `h` of `ShapeFormation` |
| `EnergySharing` | shared energy alone, with insertions | a start is a sequence of nodes, in the order of the particles' numbers |
| `HoleFiller` | particles that know the global directions | one activation may contract, pull, expand again; a start is a sequence of nodes, in the order of the particles' numbers |
| `TokenDemo`, `BallroomDemo`, `DiscoDemo`, `Walls` | the demos and the objects round them | `DiscoDemo` holds `MetricsDemo` too, which moves alike |
| `Connectivity` | the traversal in `System::isConnected` | |
| `Geometry_proofs`, `AmoebotSystem_proofs`, `LeaderElectionByErosion_proofs`, `Compression_proofs`, `InfObjCoating_proofs`, `ShapeFormation_proofs`, `Energy_proofs`, `Demos_proofs` | theorems | section 5; `AmoebotSystem_proofs` is also about `Ports`, `LeaderElectionByErosion_proofs` also about the election with energy and `LeaderElection`, `Energy_proofs` about `HexagonFormation`, `EDFHexagonFormation`, `EnergyShape` and `EnergySharing`, `Demos_proofs` about `SinglePoint`, `HoleFiller`, `TokenDemo` and the dances |

An `MC...` module and a `.cfg` of the run's name give each run its instance. Three of them
compose algorithms that do not interact into one run: a variable (`algorithm`, `demo`,
`powered`) says which of them the system runs, each has its initial states and its steps, and
the variables of the others stay empty. Their properties are the conjunctions of the
properties of the components, with the conjunct's condition in front.

How state and actions correspond:

- `body` holds the `head`, `globalTailDir` and `orientation` of each particle; its domain is
  the vector `particles`. `particleMap`, `objects` are the two maps. `log` is the activated set,
  the three counts that every system has and the histories. `current` is the particle whose
  `activate()` is running, so that `insert` and `remove` happen inside an activation.
- In the algorithms, every disjunct of `Activate(p)` is a path through `activate()`; a path
  that changes nothing is left out, because it is a stuttering step. A random draw is a choice.
- A call's assertions are the conditions `CanX`. In `AmoebotSystem` calls are made when they
  hold; in the algorithms the guards come from the code.
- The particle an iterator or a pointer names is an identity. Algorithms whose particles stay
  where they are, or come back to a node of their own, name particles by nodes.
- Names (`Expand`, `Push`, `registerActivation` as `RegisterActivation`, ...) follow the code.

Operators whose comment says *Mutant* are not part of the model. Each is a definition with a
mistake that could be made in the code; replacing the right one by it must break a property,
which shows that the property depends on that line.

## 3. The runs

| Run | Instance | Question |
|---|---|---|
| `AmoebotSystem` | 2 identities, 4 nodes, 1 object site, 4 activations, 5 moves, measure every 2 rounds | do map, rounds, histories stay right, and does each step implement the amoebot model? |
| `Ports` | every two bodies that fit on a hexagon of 7 nodes, all compasses | do the label tables agree with the lattice? |
| `LeaderElectionByErosion` | hexagons of 1 to 9 particles; with energy 1 to 4, sources at the end, in the middle, two | setup before erosion, connected candidates, one leader, termination, implements erosion; under the framework also full batteries |
| `LeaderElection` | one particle, two, a triangle, a bent row of three | does an assertion fail, does a token go astray, can two take themselves for the last, is an answer lost? |
| `InfObjCoating` | 3 particles, objects flat, with a bump, a pit and a slope, equal and different compasses | do followers always have somebody to follow, leaders the surface; does it come to rest? |
| `ShapeFormation` | 5 modes; trees of 3, a fork of 5, lines of 7 and, for the hexagon, of 8 | is the shape full at every moment, the system connected, and does everybody finish? |
| `Compression` | a line of 4 and a dented hexagon of 6, on 12 nodes | does the asynchronous algorithm implement the chain, and is the perimeter right? |
| `Energy` | hexagons by pulls from a line of 8 and a fork of 5; with the framework three trees of 3, each particle the source; paid from shared energy a line of 3, root at an end or in the middle; sharing alone 2 and 3 particles | is the figure full, is everybody led, do the energy forests survive, do they end, does everybody get energy? |
| `Demos` | hexagons of 1 to 9 eroding; a ring of 6 sides of 2 (`RingSide`), 2 tokens a colour, 6 passes; every tree of 4 sinking; 2 pairs; 2 dancers | the small algorithms and the demos, see below |
| `Connectivity` | every system on 6 nodes | *violated*: `isConnected` always answers yes |
| `CoatingStops` | as `InfObjCoating` | *violated*: the coating can stop before it is completed |
| `TurnSignal` | a line of 5, squares | *violated*: an uninitialised member stops the square |

Bounds. The region, the objects and the numbers of particles are small because labels, moves
and rules look one or two nodes far: two bodies have every relative position on the hexagon of
`Ports`, and rounds, handovers and removals need two particles. `MaxActivations` and `MaxMoves`
bound counters that only grow; they allow two full rounds, a handover in both directions and a
removal in the middle of a round. The coating needs three: a leader, one that becomes a leader
by itself and a follower (`CoatingStops` needs exactly these). The shapes need seven and the hexagon eight: the second row of square
and the third of the triangle are complete at 4 and 6, seven close the first ring of the hexagon,
and the eighth begins the second (`MCInit` leaves the line of 8 to mode `h`). In
`Compression` both connectivity conditions are met and refused on six particles, and a hole
could appear. `HexShape(9)` adds a partial layer, in which rules for corners and edges apply.

`LeaderElection` starts after the particles have been placed. The bent row gives the particle
in the middle two agents, so that two candidates of one particle meet; the triangle has three
candidates. In the particles of `Retrying` (the smaller three shapes) a candidate that is not
alone goes back to comparing segments, as in the code; in the row a new comparison is left
out, so the run sees the first comparison, flip and solitude test of each candidate there.

The line of 8 in `Energy` closes the first ring and begins the second, with handovers that run
through several followers; in the fork two branches meet. `Capacity`, `TransferRate` and `Demand` are
2, 1 and 1, so that a battery can be empty, enough and full; batteries are integers (the code
has doubles, whose values here are sums of the three). `MaxParticles` ends the reproduction of
`EnergySharing`: two particles may become three. Its starts are the first two and the first three
nodes of the spiral that its constructor follows (`SharingStarts`); one root (`SharingRoots`) and
one compass for the inserted particle (`SharingOrientation`) are enough, since the roots of a
small hexagon are alike and an idle particle's compass is only used to read its neighbours. Its
property `EnergyReachesAll` is checked for the other way of using energy, which has no such bound.

`FigureIsFull` and `HexagonIsFull` compare the shape with the figures of `LatticeFigures`: the
nodes of the particles that have finished are exactly a whole line, square, triangle or hexagon
and the first nodes of its next side or, in the hexagon, of the next ring. A count of the nodes
in a bounding figure would let gaps pass.

In `Demos`, two tokens of each colour meet and queue in one particle; four fillers are enough
for each of the four cases of `activate()`, the contraction and the turn. `FloorWidth` keeps the
pairs to three columns of the rhombus, with the wall on two sides; `NumDancers` is two, so
that dancers are in each other's way; `MaxBumps` bounds a count.

Larger instances were checked outside the runs, which have to stay short: `Energy` with all 33
trees of three and four and with lines of 7 for the plain algorithm, all trees of three with all
sources for the framework, all 99 starts of three particles for `EnergyShape`, `EnergySharing`
with other shapes, roots, four particles and batteries of 3 with demand 2; the `HoleFiller` with
all 930 starts of five particles, four of six and seven; two pairs on the whole floor; the
straight row of three in `LeaderElection`, also with retries (without `AnswerUnderWay`, for which
that instance was explored in part).

Fairness. `AmoebotSystem::activate()` draws a particle at random for ever, so with
probability one every particle is activated infinitely often. `LeaderElectionByErosion` states
weak fairness per particle, and so does `EnergySharing`, also in its run. The others, and the
other parts of the composed runs, use the weaker condition that while somebody can do something, something happens (`WF` of the
step relation of the algorithm). `Compression`, `AmoebotSystem`, `EnergyShape`, `LeaderElection`
and the dances have no liveness property and no fairness in the runs.

`watched` in `MCEnergy` is a particle chosen in the initial state that no step looks at: a
property of it is a property of every particle.

`CHECK_DEADLOCK FALSE` stands where a system may stop: when it has terminated, or at a bound.

`LeaderElectionByErosion` and `LeaderElection` are two specifications of `MCElections`: in the run
of one, the variables of the other stay empty. The particles' `state` is the same variable.

What the composed properties say is with their definitions: `HexagonWalkersLed` is
`WalkersLed`, `StaysConnected` and the type invariants of `HexagonFormation` and
`EDFHexagonFormation`, `SharingForestStands` the `ForestStands` of `EnergyShape` and `EnergySharing`,
`DancersStay` the partners of `BallroomDemo` and the walls of all three dances, `TokensGoRound`
the order and number of the tokens, `DemosEnd` their end and that of `HoleFiller`.

## 4. What the violated runs show

- `isConnected` (`core/system.h:100`) clears the whole set where its comment means to remove the
  first node; the traversal has nothing left to find. Debug builds rely on it to stop a run
  that has become disconnected.
- The coating (`alg/infobjcoating.cpp`) can come to rest early. An expanded leader contracts only
  when it gets a complaint, complaints come from the leader behind it, and only if that one
  has followers. If the particle behind became a leader by itself while a follower points at
  the *head* of the expanded leader, nobody complains and nobody moves. What does hold is
  checked in `InfObjCoating`: every particle joins, the walk comes to rest, and nothing
  happens after `hasTerminated()` says yes. It may say yes while a leader is
  expanded, though the comment at :256 says they have contracted.
- `turnSignal` (`alg/shapeformation.h`) is never initialised and is read at
  `alg/shapeformation.cpp:216`. With a value other than 0 and 1 the square is never completed.
  The run `ShapeFormation` gives it 0 (`FreshTurnSignal`), what fresh zeroed memory holds.

Observations without a run of their own:

- `insert()` checks the tail of an expanded particle against the particles but not against
  the objects (`core/amoebotsystem.cpp:73`). No constructor inserts expanded particles.
- `remove()` can leave every remaining particle activated; the round then ends with the next
  activation, which is why `RoundFound` speaks about activations only.
- `activate()` registers the activation before the particle acts (`core/amoebotsystem.cpp:38`):
  a measure at the end of a round does not see what the last activation of the round does,
  though `docs/source/tutorials/tutorials.rst:1582` says it is calculated at the end.
- `alg/leaderelection.h:14-18` says that two last candidates can both be demoted in the segment
  comparison. They can also when one of them flips its coin already: its announcement demotes
  the one that is still comparing, which demotes the other by its comparison.
- A particle one of whose agents is the leader returns before its other agents are activated
  again (`alg/leaderelection.cpp:79-82`), so a second boundary at that particle never finishes.
- In `EnergyShape` a leader that is blocked pays for staying where it is
  (`alg/energyshape.cpp:275`). A schedule that is fair to everybody can keep the others starved
  for ever; only chance ends the run. In `EnergySharing` the schedule can also let a particle
  look only at moments when it is inhibited: that everybody gets enough energy holds
  (`EnergyReachesAll`), that everybody uses it again and again does not.
- Under the energy distribution framework a source harvests a whole `_transferRate` while its
  battery is not full, and overshoots the capacity when that is no multiple of the rate
  (`alg/edfleaderelectionbyerosion.cpp:89-90`).

## 5. What is proved

`tlapm` checks these for all values of the constants, under the assumptions named in the
modules (`NoParticleAssumption`, `FiniteAssumption`, `RegionAssumption`, `CompassAssumption`,
`EnergyAssumption`, `BallAssumption`, `RingAssumption`, `BuildsAssumption`, `StartsAssumption`, and that
shapes are finite, nonempty and connected). Where one module runs several algorithms, `InstancesAssumption`,
`DemosAssumption` and `AgentsAssumption` assume the same of each instance. The shapes that
erode, the compasses of the ring and the starts of the fillers are constants of `MCDemos`, so
the theorems about it hold for any of them, whatever `Demos.cfg` chooses. The assumptions on starts say what the
constructors give: distinct nodes, a compass per particle, and for the hexagon and the shapes
the seed first, at the origin, in a connected system. Those of `SinglePoint` and `BallroomDemo`,
and that `Compression` starts from a line or a hexagon, are hypotheses of their theorems.

`AmoebotSystem_proofs`:

- `InvCorrect` — `IInv == TypeOK /\ MapConsistent /\ ActivatedAlive` is inductive. The
  three need one another: a handover keeps the map right only if the neighbour found in the
  map really lies on that node, a removal keeps the round right only if the map and the bodies
  have the same particles. One lemma (`OneMoves`) covers every move of one body, one
  (`TwoMove`) both handovers; the lemmas `...Agrees` show that each call is an instance.
- `TypeCorrect`, `MapCorrect`, `ActivatedCorrect` — the parts of the invariant.
- `RoundsFound` — the action property `RoundFound`, from `RegisterActivationLog`.
- `ObjectsAvoided` — particles keep off objects, if only contracted ones are inserted.
- `HistoryCorrect`, `RoundCostCorrect` — from a second invariant, `LogInv`, about the log alone:
  the snapshots follow the rounds in order and never exceed the counts (`Coherent`), a measure
  has been taken as often as its frequency says (`Measured`), and since the last snapshot
  (`Committed`: the activations it counted) at least as many activations were counted as
  particles are logged (`Counted`). A removal in the middle of a round makes both the logged
  and the living fewer, so the invariant counts the logged ones.
- `ModelImplemented` — `AmoebotModel` seen through `occupied` and `waiting`, step by step: each of
  the seven moves of labelled bodies is one of the moves of sets of nodes, each registration the
  end of a round there or not.
- `PortTablesCorrect`, `PredictionCorrect`, `PairsCorrect` — the label tables. They are finite
  in the frame of the body (direction of the tail, label), where the solver looks them up;
  `ExpandedFrame` and the compass lemmas carry the frame to any node and orientation, and
  `PortsMeet` says that two ports reach one node only where the labels go over from one end to
  the other. The reachable bodies come from `InvCorrect`.

`Geometry_proofs` holds what these proofs and the next share: steps on the lattice, moves of a
body, the frame of the ports, pointers and forests of pointers, bodies that keep apart, and
connectivity: the directions of two neighbours of a node differ by one exactly when they are
adjacent, and a run of consecutive directions cannot be split. `SurfaceWalk` is the walk along a
surface, which the coating and the shapes share: it stops just before a taken direction, so the
node it leads to has that neighbour beside it too.

`LeaderElectionByErosion_proofs`:

- `InvCorrect` — `IInv == TypeOK /\ NoEarlyErosion /\ RestConnected /\ LeaderAlone`. Connectivity
  is not inductive alone: `canErode` looks at *candidate* neighbours, and these are all that
  remain next to a particle only because everybody there has set up and nobody is a leader
  yet (`CandidatesAreRest`). If the rule accepts (`CanErodeUnsplit`), a split of the rest would
  split the neighbourhood.
- `SetupFirst`, `StaysConnected`, `UniqueLeader` — its parts.
- `RefinesErosion` — the algorithm implements `Erosion!SafeSpec`.

The second half of the module takes the erosion election through the energy distribution
framework. Every step is a step of the election or leaves it alone (`StepOfElection`), so its
invariant stays one and `EDFElectionCorrect` and `EDFRefinesErosion` follow from the lemmas
before. `BatteriesCorrect` needs one lemma per phase of `Distributed`: a particle
pays `Demand` and shares `TransferRate` only when it has that much, a child receives and a source
harvests only below the capacity. The type of the new parent directions needs the geometry: the
adopting particle finds a port that reaches the adopted one (`DirBackType`).

Its last part is about `LeaderElection`, on every shape, whatever its holes and boundaries:

- `AgentsCorrect` — `WellFormed`. An agent stands in a gap between two rows of neighbours
  (`NewAgentsAre`: one for each gap, three at most). The nodes beside a particle and its neighbour
  are the same two (`NbrBack`), so where a row ends for one it ends for the other: the neighbour
  has exactly one agent there (`AgentsBetween`), and the agents form rings. The invariant
  `AgentInv` says that agents stand so and that the tokens of a particle are `Letters`: what goes
  ahead has come from the end of a row, what goes back from its other end, so each is for one agent.
  Every function of an agent keeps that (`Acting`): the lemmas go through them from taking and
  passing a token up to a whole activation (`AgentActs`). A solitude token turns round when it gets
  a number, the only one whose way is not told by its type. That no vector of a candidate is
  unsettled when it verifies does not depend on the invariant: `SettleVectors` settles the first
  of each type, and settling one leaves the others where they lie (`SettledStays`).

`Demos_proofs`, about `SinglePoint`:

- `PointInvCorrect` — `PointInv` is `TypeOK`, `Connected(Rest)`, `LeaderAlone` and
  `PointersLeadOut`. The rule accepts only consecutive directions (`RunsUnsplit`), so the rest
  stays connected.
- `PointersCorrect`, and `PointersInDemos` for the run — a particle that erodes points at one that
  has not. When that one erodes later its own pointer leads on, so a set of eroded particles
  always has a pointer out of it.
- `RefinesErosion` — the steps are those of `Erosion!SafeSpec`.

and about the dances:

- `PartnersCorrect`. The invariant `BallInv` says more than `PartnersStay`: bodies are apart, and
  the pointer of a follower leads to the *anchor* of its leader, its tail when it is expanded and
  its head otherwise. That is what makes a handover safe: the contracted particle at a tail label
  that points back at the leader can then only be its own follower, and whom the follower pushes
  can only be its own leader. Both handovers are one lemma (`HandoverInv`).
- `BallWallCorrect` — nobody gets through the wall. The constructors build it by walking; a wall
  in closed form satisfies the same steps, so by a least counterexample the walks are
  equal, for floors of any size. A neighbour of a node inside is inside or on the wall, and
  moves keep off objects. The same argument serves `DiscoDemo` and `MetricsDemo`.
- `DancersCorrect` — both together, for the run (`DancersStay`).

about `HoleFiller`:

- `FillersCorrect`, and `FillersInDemos` for the run. The invariant `FillerInv` says that there are finitely
  many particles, that an expanded one has its head under or beside its tail (`Filled`), that bodies are
  apart, and that the nodes are connected. `FillerDeeds` lists what one activation may come to,
  up to three moves in a row. A node that is given up, at the tail of the particle or of the one it
  turns away from, leaves neighbours that follow on one another (`Leaves`), so nobody is cut off.
  Nobody is left stretched out at rest: an expanded particle only waits for one
  above it that hangs on (`Beyond`), and of finitely many particles one has nobody above it
  (`FiniteTop`).

about `TokenDemo`:

- `TokensCorrect`, and `TokensInDemos` for the run (`TokensGoRound`). The walk of the constructor in
  closed form (`HexagonNode`) meets no node twice and leads back, and two of its nodes are adjacent
  only when they follow on one another (`HexagonMeets`, `HexagonBeside`). So each particle has
  two neighbours, on whatever labels, and the scan that begins after the label a token came
  from finds the other one (`PassToIs`). The invariant `TokenInv` says where each token is by
  how often it has been passed (`OnWay`), with the label it came from, and that two tokens of
  a colour are in line (`InLine`): the one with the smaller id has been passed further, or as far and
  is ahead in the same queue. A token that is passed goes behind those that were passed before it
  and stays ahead of those that were not, because a queue is left in the order it is joined.

`Compression_proofs`, for every connected start unless said otherwise:

- `IInv == TypeOK /\ objects = {} /\ Apart /\ FlaggedExclude /\ CountsCurrent` is inductive. What
  an expanded particle counted stays current only because of `FlaggedExclude`: no two particles
  whose flags allow them to go on are next to each other, since the second to expand has seen
  the first. `KnowledgeCorrect` follows.
- `ChainImplemented` — the tests `checkProp1` and `checkProp2` run along the ring of unique labels
  round an expanded body; that they decide the chain's conditions, which speak about sets of
  nodes, is the longest part: the ring is followed by hand through its eight positions. A
  particle that goes on makes one jump of the chain, everything else stutters.
- `ConnectedCorrect` — a cut of the settled nodes after a jump is turned into one before it.
- `PerimeterCorrect` and `NoHoleForms` — the measure is `3V - E - 3` for `V` settled nodes with
  `E` edges, whatever is expanded (`PerimeterIs`; the fold over the particles counts each edge
  twice, in any order), and that is `2E - 3T` for `T` triangles exactly when Euler's number
  `V - E + T` is 1. So the invariant is `Solid`: Euler's number is 1 and no finite part of the
  free nodes is shut off. Neither half holds by itself: a node that joins changes Euler's
  number by 1 less the number of runs its neighbours make round it (`EulerAdded`), so a
  jump keeps it when these runs are as many round the old node as round the new
  (`JumpKeepsSolid`); the chain's conditions say so, except that a particle with five
  neighbours may not move. No hole forms where the neighbours of the new node are one run; where
  they are two, both nodes next to the two ends are taken, the free nodes round the new node,
  the old one aside, are one run, and the old one had a free node beside it (`NoHoleJumped`).
  The hypothesis `Constructed` is what the constructor does: a line or a hexagon of any
  number of particles. They are solid because each node joins beside one run of
  earlier ones; for the hexagon that is followed along the spiral by layer, side and offset
  (`SpiralRun`), and `HexNodeIs` shows that the constructor's quotients and remainders are these.

`InfObjCoating_proofs`: `ForestCorrect`. The invariant adds to `ForestOnSurface` that bodies are
apart and off the objects, and that nobody's head is walled in by objects: a head comes from a
node that was occupied, so that node is free of objects. The pointers are kept as a function
`Up` from followers to particles. A contraction keeps it, because `hasFollowerChild` sees every
neighbour with a port (`NoChildAtTail`); a new follower is pointed at by nobody (`ForestJoined`); a
follower that pushes its parent takes over those that pointed at the parent's tail and turns
to its head (`TurnedRound`, `ForestPushed`); a leader that pushes takes them off the ring they
might have closed (`ForestLeft`). `SurfaceDir` is the walk round the object, by `SurfaceWalk`.

`ShapeFormation_proofs`: the invariant has two halves that need each other.

- `Core` is about the particles that move, whatever the shape: bodies are apart, the shape holds
  the seed at the origin and is connected, each leader's head is beside the shape, followers
  point at active particles, their pointers close no ring, the system is connected. A leader
  has a way on as long as the shape walls no free node in (`ShapeOpen`). One lemma per path
  through `activate()` (`...Keeps`) shows that `Core` stays; for the paths that leave the shape
  alone they also show that they do (`Still`).
- `Grown` is about the shape, and gives `ShapeOpen`: its nodes are exactly the figure of the mode at
  some stage, round `k`, side `s`, node `j` of the side. The construction directions that point off
  the shape all point at the one node that comes next, in the direction and with the turn signal
  that belong to the stage. All this is said as the seed sees it: nothing in the
  algorithm depends on the other compasses, since directions are handed on translated
  (`TurnsAlike`), and `Rotated` turns the lattice to the seed's. The figures are
  explicit sets of nodes, so that each of the lemmas `...Grow`, `...Open` and `...Turns`
  is linear arithmetic: a side, the next side, the next round; no free node walled in;
  and the turn of the particle that has just finished. In mode `l` the shape is
  an interval that grows at both ends (`LineAt`).
- `ForestCorrect` follows from `Core` with `ShapeOpen`.
- `FiguresCorrect` follows from `Grown`. In the seed's view the nodes of each stage are one of the
  figures of `LatticeFigures` (`SquareFigure`, `ConeFigure`, `SpiralFigure`), and turning or
  mirroring the lattice maps rows to rows (`SquareIs`, `ConeIs`, `SpiralIs`, `LineIs`), so that
  the shape itself is such a figure (`ShapeTurned`, `GrownFull`).
- `ShapeStep` is the inductive step by itself, for `Energy_proofs`.

Both are proved under `SignalsSet`: in the modes `s` and `t1`, which read `turnSignal`, it starts at zero.
The code does not see to that (section 4), and with other values the square is not even finished.
The other three modes need no such hypothesis.

`Energy_proofs` has four parts.

- *Hexagon formation* (`HexagonCorrect`, `HexagonsCorrect`, `WalkersInMC`). `HexInv` is again
  `Core` and `Grown`, for a hexagon that grows by particles that are pulled along. In `Core` a root
  has the hexagon counter-clockwise of where it points (`Ahead`), and an expanded one points
  straight on; that is why it always finds a way on along a hexagon that walls no node in, and never
  leaves it. `Grown` is the spiral (`GrownAt`): every particle of the hexagon that points off it
  points at the node that is next; `HexagonFull` makes of it the figure, as for the shapes. `StaysConnected` is not kept by a pull alone; the proof keeps
  `ActiveTogether`: a closed part of the system that contains the hexagon contains everybody who is
  active, since followers hang on them.
- *The framework* (`PaidForestCorrect`, `ForestInMC`). Its steps are those of hexagon formation or leave
  the particles alone, so `HexInv` stays. `PaidInv` adds the types of the energy and `Standing`: the
  members of the energy forest, and nobody else, have a label that leads to a particle that
  is not idle, and the labels close no ring. A particle that moves while others point at it is
  pruned: its children ask for a new parent in the same step. The second half of the work is
  that labels change their meaning when a body does, which `LabelToDirAfterExpansion` and
  `ExpandedFrame` take care of. The type bounds a battery by `Capacity + TransferRate - 1`,
  which is the overshoot of section 4.
- *EnergyShape* (`PayingCorrect`, `PayingStepsCorrect`, `PayingForestCorrect`). Its theorems take
  `ShapeFormation_proofs` as an instance, `Steps`, in mode `h`. Each handler that is paid for, or
  that is put off, is one of shape formation's or leaves its particles alone: that is the
  refinement, and with `ShapeStep` the invariant of the shapes holds here too. It says what
  the tree needs to know of the bodies. `Shared` is the tree: each
  member that has not been told to leave (`prune`) has a label that leads to a particle that is
  not idle, and no ring. Before somebody moves it has told its children and left, so nobody hangs on it
  and it hangs on nobody (`Loose`), wherever it goes then (`...Loosens`, `...Shares`).
- *EnergySharing* (`SharingForestCorrect`, `ForestsStandInMC`). `SharingHolds` adds to the forest
  (`Spread`) that particles are contracted, apart, and numbered without gaps, which is why a
  new particle is a new one and the nodes of the others are theirs still.

## 6. What is only model-checked

Liveness and the refinements with fairness (`Terminates`, `RunsEnd`, `AllJoin`, `WalkStops`,
`HexagonsTerminate`, `EnergyReachesAll`, `DemosEnd`, `ImplementsErosion` in full), which are out
of the prover's reach; and `SoleIsAlone` and `AnswerUnderWay` of
`LeaderElection`: they speak about where the tokens of several passes are in the ring of agents,
and an inductive form of them needs what each pass has established for every stretch of the
ring.

## 7. What is not modelled, and why

- `Aggregation`: the moves depend on sight lines, centres of mass and smallest enclosing circles
  in floating point, which TLC and TLAPS do not have. With a nondeterministic choice in their
  place nothing would be left but a random walk.
- `DynamicDemo`: random growth and death. Each activation is one `Insert` or one `Remove` of
  `AmoebotSystem`, which that module allows any particle, in any order.
- `Simulator`: a timer that calls `activate()` under the system's mutex. Its hard question, a
  system that is replaced while somebody uses the old one, is decided by Qt's event loop and
  render thread, which are not in the repository.
- Rendering, forms and scripts (`ui/`, `script/`, `res/`), start-up, the JSON text of the metrics,
  colours and inspection texts, the quality of the random numbers.
- In what is modelled: the count of actions of the energy algorithms, which nothing reads; the
  measures of `MetricsDemo`; random draws are nondeterministic, so nothing is said about
  probabilities, and in `Compression` the comparison with a power of lambda may go either way.
- `LeaderElection`: systems with holes, where particles with agents on two boundaries occur, and
  particles that are surrounded; that the election ends, which depends on coin flips. The
  solitude tokens of a candidate that has been demoted stay where they are until somebody
  takes them; `SoleIsAlone` says that nobody is misled by them.

Next: a hole in `LeaderElection` and a probabilistic argument (two coins that differ infinitely
often) for its end; `BallroomDemo` in the code's own floor width.

Theorems worth adding: which tokens of `LeaderElection` are in which stretch of a ring, on the
way to `SoleIsAlone`.
