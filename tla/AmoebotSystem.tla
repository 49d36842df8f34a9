---------------------------- MODULE AmoebotSystem ----------------------------
(***************************************************************************)
(* The particle system and the interface an algorithm has to it            *)
(* (core/amoebotsystem.cpp, core/amoebotparticle.cpp).                     *)
(*                                                                         *)
(* One particle at a time is activated; what its activate() does is any    *)
(* sequence of the interface's calls whose Q_ASSERT preconditions hold.    *)
(* An algorithm is a restriction of this behaviour, so what holds here     *)
(* holds for every algorithm.                                              *)
(***************************************************************************)
EXTENDS LocalParticle, Metrics

CONSTANTS
  Particle,         \* the particle objects there can be at one time
  NoParticle,       \* no activation is running
  Region,           \* bound: the nodes that can be occupied
  ObjectSite,       \* bound: the nodes at which objects can be inserted
  Orientation,      \* the compass offsets particles are made with
  InsertTailDir,    \* the globalTailDir particles are made with (-1: contracted)
  MaxActivations,   \* bound: activations started
  MaxMoves          \* bound: movements made

ASSUME NoParticleAssumption == NoParticle \notin Particle
ASSUME FiniteAssumption == IsFiniteSet(Particle)
ASSUME RegionAssumption == Region \subseteq Node
ASSUME CompassAssumption == Orientation \subseteq Dir /\ InsertTailDir \subseteq {-1} \cup Dir

VARIABLES
  body,          \* the bodies of the particles in the system
  particleMap,   \* which particle occupies a node
  objects,       \* the nodes of objectMap
  log,           \* counts, measures and activatedParticles
  current        \* the particle whose activate() is running

vars == <<body, particleMap, objects, log, current>>

particles == DOMAIN body

\* Assignment to and erasure from a std::map.
Put(f, x, v) == [y \in DOMAIN f \cup {x} |-> IF y = x THEN v ELSE f[y]]
Erase(f, S)  == [y \in DOMAIN f \ S |-> f[y]]

\* A measure of the whole system: here, how many particles are expanded.
Calculate(bodies) == Cardinality({p \in DOMAIN bodies : IsExpanded(bodies[p])})

HasNbrAtLabel(p, l)    == NbrNode(body[p], l) \in DOMAIN particleMap
NbrAtLabel(p, l)       == particleMap[NbrNode(body[p], l)]
HasObjectAtLabel(p, l) == NbrNode(body[p], l) \in objects

HasHeadAtLabel(p, l) ==
  HasNbrAtLabel(p, l) /\ body[NbrAtLabel(p, l)].head = NbrNode(body[p], l)
HasTailAtLabel(p, l) ==
  /\ HasNbrAtLabel(p, l)
  /\ IsExpanded(body[NbrAtLabel(p, l)])
  /\ TailNode(body[NbrAtLabel(p, l)]) = NbrNode(body[p], l)

CanExpand(p, l) ==
  IsContracted(body[p]) /\ ~ HasNbrAtLabel(p, l) /\ ~ HasObjectAtLabel(p, l)
CanPush(p, l) ==
  IsContracted(body[p]) /\ HasNbrAtLabel(p, l) /\ IsExpanded(body[NbrAtLabel(p, l)])
CanPull(p, l) ==
  IsExpanded(body[p]) /\ HasNbrAtLabel(p, l) /\ IsContracted(body[NbrAtLabel(p, l)])

\* The bodies after push(l) and pull(l).
Pushed(p, l) ==
  LET q == NbrAtLabel(p, l)
      n == NbrNode(body[p], l)
  IN  [body EXCEPT ![p] = Expanded(@, l), ![q] = Released(@, n)]
Pulled(p, l) ==
  LET q == NbrAtLabel(p, l)
      n == OccupiedNodeIncidentToLabel(body[p], l)
  IN  [body EXCEPT ![p] = Released(@, n),
                   ![q] = PulledOnto(@, n, LabelToGlobalDir(body[p], l))]

-----------------------------------------------------------------------------
Init ==
  /\ body = << >>
  /\ particleMap = << >>
  /\ objects = {}
  /\ log = NewLog
  /\ current = NoParticle

\* insert(AmoebotParticle*): in a constructor, or while a particle is active.
\* The assertions look for objects under the head only.
Insert(p, b) ==
  /\ p \notin particles
  /\ b.head \notin DOMAIN particleMap
  /\ b.head \notin objects
  /\ IsExpanded(b) => TailNode(b) \notin DOMAIN particleMap
  /\ Nodes(b) \subseteq Region
  /\ body' = Put(body, p, b)
  /\ particleMap' = IF IsExpanded(b) THEN Put(Put(particleMap, b.head, p), TailNode(b), p)
                                     ELSE Put(particleMap, b.head, p)
  /\ UNCHANGED <<objects, log, current>>

\* insert(Object*)
InsertObject(n) ==
  /\ n \notin objects
  /\ n \notin DOMAIN particleMap
  /\ objects' = objects \cup {n}
  /\ UNCHANGED <<body, particleMap, log, current>>

\* activate(): a random particle; the activation is logged before it runs.
Activate(p) ==
  /\ current = NoParticle
  /\ log.activations < MaxActivations
  /\ log' = RegisterActivation(log, p, particles, Calculate(body))
  /\ current' = p
  /\ UNCHANGED <<body, particleMap, objects>>

\* activateParticleAt(node): the particle the map names, if there is one.
ActivateParticleAt(n) ==
  /\ n \in DOMAIN particleMap
  /\ Activate(particleMap[n])

\* The particle's activate() returns.
Return ==
  /\ current # NoParticle
  /\ current' = NoParticle
  /\ UNCHANGED <<body, particleMap, objects, log>>

Expand(p, l) ==
  /\ log.moves < MaxMoves
  /\ CanExpand(p, l)
  /\ NbrNode(body[p], l) \in Region
  /\ body' = [body EXCEPT ![p] = Expanded(@, l)]
  /\ particleMap' = Put(particleMap, NbrNode(body[p], l), p)
  /\ log' = RegisterMovement(log, 1)
  /\ UNCHANGED <<objects, current>>

\* Mutant: the particle that pushes is logged again, not the one it pushes.
PushLoggingItself(p, l) ==
  /\ log.moves < MaxMoves
  /\ CanPush(p, l)
  /\ body' = Pushed(p, l)
  /\ particleMap' = Put(particleMap, NbrNode(body[p], l), p)
  /\ log' = RegisterActivation(RegisterMovement(log, 2), p, particles, Calculate(body'))
  /\ UNCHANGED <<objects, current>>

Push(p, l) ==
  /\ log.moves < MaxMoves
  /\ CanPush(p, l)
  /\ body' = Pushed(p, l)
  /\ particleMap' = Put(particleMap, NbrNode(body[p], l), p)
  /\ log' = RegisterActivation(RegisterMovement(log, 2), NbrAtLabel(p, l), particles,
                               Calculate(body'))
  /\ UNCHANGED <<objects, current>>

\* Mutant: the map is changed after the head.
ContractHeadErasingLate(p) ==
  /\ log.moves < MaxMoves
  /\ IsExpanded(body[p])
  /\ body' = [body EXCEPT ![p] = HeadContracted(@)]
  /\ particleMap' = Erase(particleMap, {body'[p].head})
  /\ log' = RegisterMovement(log, 1)
  /\ UNCHANGED <<objects, current>>

ContractHead(p) ==
  /\ log.moves < MaxMoves
  /\ IsExpanded(body[p])
  /\ particleMap' = Erase(particleMap, {body[p].head})
  /\ body' = [body EXCEPT ![p] = HeadContracted(@)]
  /\ log' = RegisterMovement(log, 1)
  /\ UNCHANGED <<objects, current>>

ContractTail(p) ==
  /\ log.moves < MaxMoves
  /\ IsExpanded(body[p])
  /\ particleMap' = Erase(particleMap, {TailNode(body[p])})
  /\ body' = [body EXCEPT ![p] = TailContracted(@)]
  /\ log' = RegisterMovement(log, 1)
  /\ UNCHANGED <<objects, current>>

\* contract(l): l is one of the two contraction labels.
Contract(p, l) ==
  /\ IsExpanded(body[p])
  /\ l \in {HeadContractionLabel(body[p]), TailContractionLabel(body[p])}
  /\ IF l = HeadContractionLabel(body[p]) THEN ContractHead(p) ELSE ContractTail(p)

Pull(p, l) ==
  /\ log.moves < MaxMoves
  /\ CanPull(p, l)
  /\ body' = Pulled(p, l)
  /\ particleMap' = Put(particleMap, OccupiedNodeIncidentToLabel(body[p], l),
                        NbrAtLabel(p, l))
  /\ log' = RegisterActivation(RegisterMovement(log, 2), NbrAtLabel(p, l), particles,
                               Calculate(body'))
  /\ UNCHANGED <<objects, current>>

\* Mutant: remove leaves activatedParticles alone.
RemoveStillLogged(p) ==
  /\ body' = Erase(body, {p})
  /\ particleMap' = Erase(particleMap, {n \in DOMAIN particleMap : particleMap[n] = p})
  /\ current' = NoParticle
  /\ UNCHANGED <<objects, log>>

\* remove(this), the only use the algorithms make of remove: the activation
\* ends with it.
Remove(p) ==
  /\ body' = Erase(body, {p})
  /\ particleMap' = Erase(particleMap, {n \in DOMAIN particleMap : particleMap[n] = p})
  /\ log' = [log EXCEPT !.activated = @ \ {p}]
  /\ current' = NoParticle
  /\ UNCHANGED objects

\* The calls the active particle can make on itself.
Call(p) ==
  \/ \E l \in Labels(body[p]) :
       Expand(p, l) \/ Push(p, l) \/ Pull(p, l) \/ Contract(p, l)
  \/ ContractHead(p)
  \/ ContractTail(p)
  \/ Remove(p)

NewBody == [head : Region, globalTailDir : InsertTailDir, orientation : Orientation]

Next ==
  \/ \E p \in Particle, b \in NewBody : Insert(p, b)
  \/ \E n \in ObjectSite : InsertObject(n)
  \/ \E p \in particles : Activate(p)
  \/ \E n \in Region : ActivateParticleAt(n)
  \/ \E p \in particles : current = p /\ Call(p)
  \/ Return

Spec == Init /\ [][Next]_vars

-----------------------------------------------------------------------------
(* Properties                                                              *)

Snapshot == [rounds : Nat, activations : Nat, moves : Nat]

Log ==
  [activated : SUBSET Particle, rounds : Nat, activations : Nat, moves : Nat,
   countHistory : Seq(Snapshot), measureHistory : Seq(Nat)]

\* The type invariant.
TypeOK ==
  /\ particles \subseteq Particle
  /\ body \in [particles -> Body]
  /\ particleMap \in [DOMAIN particleMap -> particles]
  /\ objects \subseteq ObjectSite
  /\ log \in Log
  /\ current \in particles \cup {NoParticle}

\* particleMap has exactly the occupied nodes and names their occupant, so no
\* two particles share a node, after any sequence of moves and handovers.
MapConsistent ==
  /\ DOMAIN particleMap = UNION {Nodes(body[p]) : p \in particles}
  /\ \A p \in particles : \A n \in Nodes(body[p]) : particleMap[n] = p

\* Objects are obstacles: no particle lies on one.
OffObjects == objects \cap UNION {Nodes(body[p]) : p \in particles} = {}

\* activatedParticles never keeps a pointer to a particle that is gone, though
\* remove() runs in the middle of an activation and a new particle can get the
\* address of a deleted one.
ActivatedAlive == log.activated \subseteq particles

\* registerActivation compares the sizes of two containers for equality: no
\* call of it may leave every particle activated and the round uncommitted.
RoundFound ==
  [][log'.activations # log.activations => log'.activated # particles']_vars

LastActivations ==
  IF log.countHistory = << >> THEN 0
  ELSE log.countHistory[Len(log.countHistory)].activations

\* When a round ends, at least as many activations have been counted in it as
\* there are particles.
RoundCost ==
  [][log'.rounds # log.rounds
       => log'.activations - LastActivations >= Cardinality(particles)]_vars

\* The histories agree with the counts: one committed snapshot per round, in
\* order, and one value of the measure every MeasureFreq rounds.
HistoryAgrees ==
  /\ Len(log.countHistory) = log.rounds
  /\ \A i \in 1 .. log.rounds : log.countHistory[i].rounds = i - 1
  /\ \A i \in 1 .. log.rounds : \A j \in 1 .. i :
       /\ log.countHistory[j].activations <= log.countHistory[i].activations
       /\ log.countHistory[j].moves <= log.countHistory[i].moves
  /\ Len(log.measureHistory) * MeasureFreq \in log.rounds .. log.rounds + MeasureFreq - 1

\* A push and the pull its neighbour could have made instead have the same
\* outcome, whatever the compasses of the two (tutorials.rst:611).
HandoverSymmetric ==
  \A p \in particles : \A l \in Labels(body[p]) :
    CanPush(p, l) =>
      LET q == NbrAtLabel(p, l)
      IN  /\ \E k \in Labels(body[q]) : CanPull(q, k) /\ NbrAtLabel(q, k) = p
          /\ \A k \in Labels(body[q]) :
               ( /\ OccupiedNodeIncidentToLabel(body[q], k) = NbrNode(body[p], l)
                 /\ NbrNode(body[q], k) = body[p].head )
               => Pulled(q, k) = Pushed(p, l)

\* The state of AmoebotModel, read off the bodies and the log.
occupied == [p \in particles |-> Nodes(body[p])]
waiting  == particles \ log.activated

Model == INSTANCE AmoebotModel
  WITH occ <- occupied, rounds <- log.rounds, active <- current, Site <- Region

\* The system implements the amoebot model.
ImplementsModel == Model!Spec
=============================================================================
