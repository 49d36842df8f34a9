------------------------ MODULE AmoebotSystem_proofs ------------------------
(***************************************************************************)
(* Theorems about AmoebotSystem, for every set of particles, every region, *)
(* every set of compass offsets and every bound; and about the port labels *)
(* of the bodies that such a system can come to hold.                      *)
(***************************************************************************)
EXTENDS Ports, Geometry_proofs, FiniteSetTheorems

\* What the steps preserve: the types, the agreement of the map with the
\* bodies, and that only live particles are logged as activated.
IInv == TypeOK /\ MapConsistent /\ ActivatedAlive

-----------------------------------------------------------------------------
(* The log                                                                 *)

\* The number of expanded particles is a number.
LEMMA CalculateType ==
  ASSUME NEW bodies, DOMAIN bodies \subseteq Particle
  PROVE  Calculate(bodies) \in Nat
<1>1. IsFiniteSet({p \in DOMAIN bodies : IsExpanded(bodies[p])})
  BY FiniteAssumption, FS_Subset
<1> QED
  BY <1>1, FS_CardinalityType DEF Calculate

\* The fields of a log, one by one.
LEMMA LogFields ==
  ASSUME NEW lg \in Log
  PROVE  /\ lg.activated \subseteq Particle
         /\ lg.rounds \in Nat /\ lg.activations \in Nat /\ lg.moves \in Nat
         /\ lg.countHistory \in Seq(Snapshot) /\ lg.measureHistory \in Seq(Nat)
  BY DEF Log

\* Logging a movement changes one count.
LEMMA RegisterMovementType ==
  ASSUME NEW lg \in Log, NEW n \in Nat
  PROVE  /\ RegisterMovement(lg, n) \in Log
         /\ RegisterMovement(lg, n).activated = lg.activated
         /\ RegisterMovement(lg, n).activations = lg.activations
         /\ RegisterMovement(lg, n).rounds = lg.rounds
         /\ RegisterMovement(lg, n).moves = lg.moves + n
         /\ RegisterMovement(lg, n).countHistory = lg.countHistory
         /\ RegisterMovement(lg, n).measureHistory = lg.measureHistory
<1>1. lg.moves + n \in Nat
  BY LogFields
<1>2. [lg EXCEPT !.moves = lg.moves + n] \in Log
  BY <1>1 DEF Log
<1>3. RegisterMovement(lg, n) \in Log
  BY <1>2 DEF RegisterMovement
<1> QED
  BY <1>3 DEF RegisterMovement, Log

\* Committing a round keeps the log well-formed.
LEMMA RegisterRoundType ==
  ASSUME NEW lg \in Log, NEW m \in Nat
  PROVE  /\ RegisterRound(lg, m) \in Log
         /\ RegisterRound(lg, m).activated = lg.activated
         /\ RegisterRound(lg, m).activations = lg.activations
         /\ RegisterRound(lg, m).rounds = lg.rounds + 1
         /\ RegisterRound(lg, m).moves = lg.moves
<1> DEFINE snapshot == [rounds |-> lg.rounds, activations |-> lg.activations,
                        moves |-> lg.moves]
           counted  == Append(lg.countHistory, snapshot)
           measured == IF lg.rounds % MeasureFreq = 0
                       THEN Append(lg.measureHistory, m) ELSE lg.measureHistory
           next     == lg.rounds + 1
<1>1. snapshot \in Snapshot
  BY LogFields DEF Snapshot
<1>2. counted \in Seq(Snapshot) /\ measured \in Seq(Nat) /\ next \in Nat
  BY <1>1, LogFields
<1>3. RegisterRound(lg, m)
        = [lg EXCEPT !.countHistory = counted, !.measureHistory = measured, !.rounds = next]
  BY DEF RegisterRound
<1> HIDE DEF counted, measured, next
<1>4. [lg EXCEPT !.countHistory = counted, !.measureHistory = measured, !.rounds = next]
        \in Log
  BY <1>2 DEF Log
<1>5. RegisterRound(lg, m).rounds = next
  BY <1>3 DEF Log
<1>6. RegisterRound(lg, m).rounds = lg.rounds + 1
  BY <1>5 DEF next
<1> QED
  BY <1>3, <1>4, <1>6 DEF Log

\* Logging the activation of a live particle keeps the log well-formed, leaves
\* only live particles in activatedParticles, and never all of them.
LEMMA RegisterActivationLog ==
  ASSUME NEW lg \in Log, NEW S \in SUBSET Particle, NEW p \in S, NEW m \in Nat,
         lg.activated \subseteq S
  PROVE  /\ RegisterActivation(lg, p, S, m) \in Log
         /\ RegisterActivation(lg, p, S, m).activated \subseteq S
         /\ RegisterActivation(lg, p, S, m).activated # S
         /\ RegisterActivation(lg, p, S, m).moves = lg.moves
         /\ RegisterActivation(lg, p, S, m).activations = lg.activations + 1
<1> DEFINE count  == lg.activations + 1
           marked == lg.activated \cup {p}
           logged == [lg EXCEPT !.activations = count, !.activated = marked]
           round  == RegisterRound(logged, m)
<1>1. count \in Nat /\ marked \in SUBSET Particle /\ marked \subseteq S
  BY LogFields
<1>2. RegisterActivation(lg, p, S, m)
        = IF Cardinality(logged.activated) = Cardinality(S)
          THEN [round EXCEPT !.activated = {}] ELSE logged
  BY DEF RegisterActivation
<1>3. /\ logged \in Log
      /\ logged.activated = marked
      /\ logged.activations = count
      /\ logged.moves = lg.moves
  <2> HIDE DEF count, marked
  <2> QED
    BY <1>1 DEF Log
<1> HIDE DEF logged
<1>4. CASE Cardinality(logged.activated) = Cardinality(S)
  <2>1. RegisterActivation(lg, p, S, m) = [round EXCEPT !.activated = {}]
    BY <1>2, <1>4
  <2>2. /\ round \in Log
        /\ round.activations = count
        /\ round.moves = lg.moves
    BY <1>3, RegisterRoundType
  <2> HIDE DEF round
  <2> QED
    BY <2>1, <2>2 DEF Log
<1>5. CASE Cardinality(logged.activated) # Cardinality(S)
  <2>1. RegisterActivation(lg, p, S, m) = logged
    BY <1>2, <1>5
  <2>2. logged.activated # S
    BY <1>5
  <2> QED
    BY <1>1, <1>3, <2>1, <2>2
<1> QED
  BY <1>4, <1>5

-----------------------------------------------------------------------------
(* The map                                                                 *)

\* The particle the map names for a node lies on that node.
LEMMA Occupant ==
  ASSUME IInv, NEW n \in DOMAIN particleMap
  PROVE  /\ particleMap[n] \in particles
         /\ n \in Nodes(body[particleMap[n]])
<1>1. particleMap[n] \in particles
  BY DEF IInv, TypeOK
<1>2. PICK p \in particles : n \in Nodes(body[p])
  BY DEF IInv, MapConsistent
<1>3. particleMap[n] = p
  BY <1>2 DEF IInv, MapConsistent
<1> QED
  BY <1>1, <1>2, <1>3

\* No two particles share a node.
LEMMA Disjoint ==
  ASSUME IInv, NEW p \in particles, NEW q \in particles, p # q
  PROVE  Nodes(body[p]) \cap Nodes(body[q]) = {}
  BY DEF IInv, MapConsistent

\* One particle moves: from its old nodes to S, where it meets nobody, and the
\* map is changed to match.  The other bodies stay.
LEMMA OneMoves ==
  ASSUME IInv, NEW p \in particles, NEW b \in Body,
         body' = [body EXCEPT ![p] = b],
         DOMAIN particleMap' = (DOMAIN particleMap \ Nodes(body[p])) \cup Nodes(b),
         \A n \in DOMAIN particleMap' :
           particleMap'[n] = IF n \in Nodes(b) THEN p ELSE particleMap[n],
         particleMap' \in [DOMAIN particleMap' -> particles],
         \A n \in Nodes(b) : n \in DOMAIN particleMap => particleMap[n] = p
  PROVE  /\ DOMAIN body' = DOMAIN body
         /\ body' \in [particles -> Body]
         /\ MapConsistent'
<1>1. /\ DOMAIN body' = DOMAIN body
      /\ body' \in [particles -> Body]
      /\ body'[p] = b
      /\ \A q \in particles \ {p} : body'[q] = body[q]
  BY DEF IInv, TypeOK
<1>2. DOMAIN particleMap' = UNION {Nodes(body'[q]) : q \in DOMAIN body'}
  <2>1. ASSUME NEW n \in DOMAIN particleMap'
        PROVE  \E q \in particles : n \in Nodes(body'[q])
    <3>1. CASE n \in Nodes(b)
      BY <1>1, <3>1
    <3>2. CASE n \in DOMAIN particleMap \ Nodes(body[p])
      BY <1>1, <3>2, Occupant
    <3> QED
      BY <2>1, <3>1, <3>2
  <2>2. ASSUME NEW q \in particles, NEW n \in Nodes(body'[q])
        PROVE  n \in DOMAIN particleMap'
    <3>1. CASE q = p
      BY <1>1, <3>1
    <3>2. CASE q # p
      <4>1. n \in Nodes(body[q]) /\ n \in DOMAIN particleMap
        BY <1>1, <3>2 DEF IInv, MapConsistent
      <4> QED
        BY <3>2, <4>1, Disjoint
    <3> QED
      BY <3>1, <3>2
  <2> QED
    BY <1>1, <2>1, <2>2
<1>3. ASSUME NEW q \in particles, NEW n \in Nodes(body'[q])
      PROVE  particleMap'[n] = q
  <2>1. n \in DOMAIN particleMap'
    BY <1>1, <1>2
  <2>2. CASE q = p
    BY <1>1, <2>1, <2>2
  <2>3. CASE q # p
    <3>1. n \in Nodes(body[q]) /\ n \in DOMAIN particleMap /\ particleMap[n] = q
      BY <1>1, <2>3 DEF IInv, MapConsistent
    <3>2. n \notin Nodes(b)
      BY <2>3, <3>1
    <3> QED
      BY <2>1, <3>1, <3>2
  <2> QED
    BY <2>2, <2>3
<1>4. particles' = particles /\ particles' = DOMAIN body'
  BY <1>1 DEF particles
<1> QED
  BY <1>1, <1>2, <1>3, <1>4 DEF MapConsistent

\* A handover: giver leaves node n to taker, which keeps its own; only the
\* entry of n changes in the map.
LEMMA TwoMove ==
  ASSUME IInv, NEW giver \in particles, NEW taker \in particles, giver # taker,
         NEW n \in Nodes(body[giver]),
         NEW g \in Body, Nodes(g) = Nodes(body[giver]) \ {n},
         NEW t \in Body, Nodes(t) = Nodes(body[taker]) \cup {n},
         body' = [body EXCEPT ![giver] = g, ![taker] = t],
         particleMap' = Put(particleMap, n, taker)
  PROVE  /\ DOMAIN body' = DOMAIN body
         /\ body' \in [particles -> Body]
         /\ particleMap' \in [DOMAIN particleMap' -> particles]
         /\ MapConsistent'
<1>1. /\ DOMAIN body' = DOMAIN body
      /\ body' \in [particles -> Body]
      /\ body'[giver] = g
      /\ body'[taker] = t
      /\ \A q \in particles \ {giver, taker} : body'[q] = body[q]
  BY DEF IInv, TypeOK
<1>2. n \in DOMAIN particleMap
  BY DEF IInv, MapConsistent
<1>3. /\ DOMAIN particleMap' = DOMAIN particleMap
      /\ particleMap'[n] = taker
      /\ \A m \in DOMAIN particleMap \ {n} : particleMap'[m] = particleMap[m]
  BY <1>2 DEF Put
<1>4. particleMap' \in [DOMAIN particleMap' -> particles]
  BY <1>3 DEF IInv, TypeOK, Put
<1>5. \A q \in particles : n \in Nodes(body[q]) => q = giver
  BY Disjoint
<1>6. UNION {Nodes(body'[q]) : q \in particles} = UNION {Nodes(body[q]) : q \in particles}
  <2>1. ASSUME NEW q \in particles, NEW m \in Nodes(body[q])
        PROVE  \E r \in particles : m \in Nodes(body'[r])
    <3>1. CASE q = giver
      BY <1>1, <3>1
    <3>2. CASE q # giver
      BY <1>1, <3>2
    <3> QED
      BY <3>1, <3>2
  <2>2. ASSUME NEW q \in particles, NEW m \in Nodes(body'[q])
        PROVE  \E r \in particles : m \in Nodes(body[r])
    BY <1>1
  <2> DEFINE old == {Nodes(body[q]) : q \in particles}
             new == {Nodes(body'[q]) : q \in particles}
  <2>3. \A m : m \in UNION old <=> \E q \in particles : m \in Nodes(body[q])
    OBVIOUS
  <2>4. \A m : m \in UNION new <=> \E q \in particles : m \in Nodes(body'[q])
    OBVIOUS
  <2> HIDE DEF old, new
  <2>5. UNION new = UNION old
    BY <2>1, <2>2, <2>3, <2>4
  <2> QED
    BY <2>5 DEF old, new
<1>7. ASSUME NEW q \in particles, NEW m \in Nodes(body'[q])
      PROVE  particleMap'[m] = q
  <2>1. CASE m = n
    BY <1>1, <1>3, <1>5, <2>1
  <2>2. CASE m # n
    <3>1. m \in Nodes(body[q])
      BY <1>1, <2>2
    <3>2. m \in DOMAIN particleMap /\ particleMap[m] = q
      BY <3>1 DEF IInv, MapConsistent
    <3> QED
      BY <1>3, <2>2, <3>2
  <2> QED
    BY <2>1, <2>2
<1>8. particles' = particles
  BY <1>1 DEF particles
<1>9. DOMAIN particleMap' = UNION {Nodes(body'[q]) : q \in particles'}
  BY <1>3, <1>6, <1>8 DEF IInv, MapConsistent
<1> QED
  BY <1>1, <1>4, <1>7, <1>8, <1>9 DEF MapConsistent

-----------------------------------------------------------------------------
(* One lemma per call: it keeps the types of the bodies and of the map, and *)
(* their agreement.                                                        *)

\* What a call on existing particles establishes about bodies and map.
Agrees == /\ DOMAIN body' = DOMAIN body
          /\ body' \in [particles -> Body]
          /\ particleMap' \in [DOMAIN particleMap' -> particles]
          /\ MapConsistent'

\* The bodies of live particles are bodies.
LEMMA BodyType ==
  ASSUME IInv, NEW p \in particles
  PROVE  body[p] \in Body
  BY DEF IInv, TypeOK

\* expand puts the new head into the map and leaves the rest to the particle.
LEMMA ExpandAgrees ==
  ASSUME IInv, NEW p \in particles, NEW l \in Labels(body[p]), Expand(p, l)
  PROVE  Agrees
<1> DEFINE n == NbrNode(body[p], l)
           b == Expanded(body[p], l)
<1>1. IsContracted(body[p]) /\ n \notin DOMAIN particleMap
  BY DEF Expand, CanExpand, HasNbrAtLabel
<1>2. b \in Body /\ Nodes(b) = {n, body[p].head} /\ Nodes(body[p]) = {body[p].head}
  BY <1>1, BodyType, ExpandedBody, NodesType
<1>3. body' = [body EXCEPT ![p] = b] /\ particleMap' = Put(particleMap, n, p)
  BY DEF Expand
<1>4. body[p].head \in DOMAIN particleMap /\ particleMap[body[p].head] = p
  BY <1>2 DEF IInv, MapConsistent
<1> HIDE DEF n, b
<1>5. DOMAIN particleMap' = (DOMAIN particleMap \ Nodes(body[p])) \cup Nodes(b)
  BY <1>2, <1>3, <1>4 DEF Put
<1>6. \A m \in DOMAIN particleMap' :
        particleMap'[m] = IF m \in Nodes(b) THEN p ELSE particleMap[m]
  BY <1>2, <1>3, <1>4 DEF Put
<1>7. particleMap' \in [DOMAIN particleMap' -> particles]
  BY <1>3 DEF IInv, TypeOK, Put
<1>8. \A m \in Nodes(b) : m \in DOMAIN particleMap => particleMap[m] = p
  BY <1>1, <1>2, <1>4 DEF n
<1> QED
  BY <1>2, <1>3, <1>5, <1>6, <1>7, <1>8, OneMoves DEF Agrees

\* Both contractions: the body shrinks to S, the node it leaves is erased.
LEMMA ShrinkAgrees ==
  ASSUME IInv, NEW p \in particles, NEW b \in Body, NEW n \in Nodes(body[p]),
         Nodes(b) = Nodes(body[p]) \ {n},
         body' = [body EXCEPT ![p] = b],
         particleMap' = Erase(particleMap, {n})
  PROVE  Agrees
<1>1. \A m \in Nodes(body[p]) : m \in DOMAIN particleMap /\ particleMap[m] = p
  BY DEF IInv, MapConsistent
<1>2. DOMAIN particleMap' = DOMAIN particleMap \ {n}
  BY DEF Erase
<1>3. DOMAIN particleMap' = (DOMAIN particleMap \ Nodes(body[p])) \cup Nodes(b)
  BY <1>1, <1>2
<1>4. \A m \in DOMAIN particleMap' :
        particleMap'[m] = IF m \in Nodes(b) THEN p ELSE particleMap[m]
  BY <1>1, <1>2 DEF Erase
<1>5. particleMap' \in [DOMAIN particleMap' -> particles]
  BY DEF IInv, TypeOK, Erase
<1> QED
  BY <1>1, <1>3, <1>4, <1>5, OneMoves DEF Agrees

\* contractHead erases the node of the old head, though the head has moved by
\* the time the body is contracted.
LEMMA ContractHeadAgrees ==
  ASSUME IInv, NEW p \in particles, ContractHead(p)
  PROVE  Agrees
<1>1. IsExpanded(body[p]) /\ body[p] \in Body
  BY BodyType DEF ContractHead
<1>2. Nodes(HeadContracted(body[p])) = Nodes(body[p]) \ {body[p].head}
  BY <1>1, NodesType, ContractedBody
<1>3. body[p].head \in Nodes(body[p]) /\ HeadContracted(body[p]) \in Body
  BY <1>1, NodesType, ContractedBody
<1> QED
  BY <1>2, <1>3, ShrinkAgrees DEF ContractHead

\* contractTail erases the node of the tail.
LEMMA ContractTailAgrees ==
  ASSUME IInv, NEW p \in particles, ContractTail(p)
  PROVE  Agrees
<1>1. IsExpanded(body[p]) /\ body[p] \in Body
  BY BodyType DEF ContractTail
<1>2. Nodes(TailContracted(body[p])) = Nodes(body[p]) \ {TailNode(body[p])}
  BY <1>1, NodesType, ContractedBody
<1>3. TailNode(body[p]) \in Nodes(body[p]) /\ TailContracted(body[p]) \in Body
  BY <1>1, NodesType, ContractedBody
<1> QED
  BY <1>2, <1>3, ShrinkAgrees DEF ContractTail

\* A push: the neighbour leaves the node that the particle expands into, and
\* one overwritten entry of the map is all that changes.
LEMMA PushAgrees ==
  ASSUME IInv, NEW p \in particles, NEW l \in Labels(body[p]), Push(p, l)
  PROVE  Agrees
<1> DEFINE n == NbrNode(body[p], l)
           q == NbrAtLabel(p, l)
           t == Expanded(body[p], l)
           g == Released(body[q], n)
<1>1. IsContracted(body[p]) /\ n \in DOMAIN particleMap /\ IsExpanded(body[q])
  BY DEF Push, CanPush, HasNbrAtLabel
<1>2. q \in particles /\ n \in Nodes(body[q]) /\ q # p
  BY <1>1, Occupant DEF NbrAtLabel, IsExpanded
<1>3. t \in Body /\ Nodes(t) = Nodes(body[p]) \cup {n}
  BY <1>1, BodyType, ExpandedBody, NodesType
<1>4. g \in Body /\ Nodes(g) = Nodes(body[q]) \ {n}
  BY <1>1, <1>2, BodyType, ReleasedBody
<1>5. body' = [body EXCEPT ![p] = t, ![q] = g]
  BY DEF Push, Pushed
<1>6. particleMap' = Put(particleMap, n, p)
  BY DEF Push
<1> HIDE DEF n, q, t, g
<1>7. body' = [body EXCEPT ![q] = g, ![p] = t]
  BY <1>2, <1>5
<1> QED
  BY <1>2, <1>3, <1>4, <1>6, <1>7, TwoMove DEF Agrees

\* A pull: the neighbour is put onto the node that the particle leaves.
LEMMA PullAgrees ==
  ASSUME IInv, NEW p \in particles, NEW l \in Labels(body[p]), Pull(p, l)
  PROVE  Agrees
<1> DEFINE n == OccupiedNodeIncidentToLabel(body[p], l)
           d == LabelToGlobalDir(body[p], l)
           q == NbrAtLabel(p, l)
           g == Released(body[p], n)
           t == PulledOnto(body[q], n, d)
<1>1. IsExpanded(body[p]) /\ NbrNode(body[p], l) \in DOMAIN particleMap
      /\ IsContracted(body[q])
  BY DEF Pull, CanPull, HasNbrAtLabel
<1>2. q \in particles /\ NbrNode(body[p], l) \in Nodes(body[q]) /\ q # p
  BY <1>1, Occupant DEF NbrAtLabel, IsExpanded
<1>3. body[p] \in Body /\ body[q] \in Body
  BY <1>2, BodyType
<1>4. n \in Nodes(body[p]) /\ n \in Node /\ d \in Dir
  BY <1>3, NbrNodeType, NodesType, LabelToGlobalDirType
<1>5. g \in Body /\ Nodes(g) = Nodes(body[p]) \ {n}
  BY <1>1, <1>3, <1>4, ReleasedBody
<1>6. NodeInDir(n, d) = body[q].head /\ Nodes(body[q]) = {body[q].head}
  BY <1>1, <1>2, <1>3, NodesType DEF NbrNode
<1>7. t \in Body /\ Nodes(t) = Nodes(body[q]) \cup {n}
  BY <1>1, <1>3, <1>4, <1>6, PulledBody
<1>8. body' = [body EXCEPT ![p] = g, ![q] = t]
  BY DEF Pull, Pulled
<1>9. particleMap' = Put(particleMap, n, q)
  BY DEF Pull
<1> HIDE DEF n, d, q, g, t
<1> QED
  BY <1>2, <1>4, <1>5, <1>7, <1>8, <1>9, TwoMove DEF Agrees

-----------------------------------------------------------------------------
(* Insertion and removal change the set of particles.                      *)

\* A new particle meets nobody: the assertions of insert see to it.
LEMMA InsertAgrees ==
  ASSUME IInv, NEW p \in Particle, NEW b \in NewBody, Insert(p, b)
  PROVE  /\ particles' = particles \cup {p}
         /\ body' \in [particles' -> Body]
         /\ particleMap' \in [DOMAIN particleMap' -> particles']
         /\ MapConsistent'
<1>1. b \in Body
  BY RegionAssumption, CompassAssumption DEF NewBody, Body
<1>2. /\ DOMAIN body' = particles \cup {p}
      /\ body'[p] = b
      /\ \A q \in particles : body'[q] = body[q]
      /\ body' \in [particles \cup {p} -> Body]
  BY <1>1 DEF Insert, Put, IInv, TypeOK, particles
<1>3. particles' = particles \cup {p}
  BY <1>2 DEF particles
<1>4. \A m \in Nodes(b) : m \notin DOMAIN particleMap
  BY DEF Insert, Nodes, IsExpanded
<1>5. /\ DOMAIN particleMap' = DOMAIN particleMap \cup Nodes(b)
      /\ \A m \in DOMAIN particleMap' :
           particleMap'[m] = IF m \in Nodes(b) THEN p ELSE particleMap[m]
  <2>1. CASE IsExpanded(b)
    <3>1. Nodes(b) = {b.head, TailNode(b)}
      BY <2>1 DEF Nodes, IsExpanded
    <3> QED
      BY <2>1, <3>1 DEF Insert, Put
  <2>2. CASE ~ IsExpanded(b)
    <3>1. Nodes(b) = {b.head}
      BY <2>2 DEF Nodes, IsExpanded
    <3> QED
      BY <2>2, <3>1 DEF Insert, Put
  <2> QED
    BY <2>1, <2>2
<1>6. particleMap' \in [DOMAIN particleMap' -> particles']
  <2>1. particleMap' = [m \in DOMAIN particleMap' |-> particleMap'[m]]
    BY DEF Insert, Put
  <2>2. \A m \in DOMAIN particleMap' : particleMap'[m] \in particles'
    BY <1>3, <1>5 DEF IInv, TypeOK
  <2> QED
    BY <2>1, <2>2
<1>7. p \notin particles
  BY DEF Insert
<1>8. DOMAIN particleMap' = UNION {Nodes(body'[q]) : q \in particles'}
  <2>1. \A m \in DOMAIN particleMap' : \E q \in particles' : m \in Nodes(body'[q])
    BY <1>2, <1>3, <1>5, Occupant
  <2>2. \A q \in particles' : \A m \in Nodes(body'[q]) : m \in DOMAIN particleMap'
    BY <1>2, <1>3, <1>5, <1>7 DEF IInv, MapConsistent
  <2> QED
    BY <2>1, <2>2
<1>9. ASSUME NEW q \in particles', NEW m \in Nodes(body'[q])
      PROVE  particleMap'[m] = q
  <2>1. m \in DOMAIN particleMap'
    BY <1>8
  <2>2. CASE q = p
    BY <1>2, <1>5, <2>1, <2>2
  <2>3. CASE q # p
    <3>1. m \in Nodes(body[q]) /\ m \in DOMAIN particleMap /\ particleMap[m] = q
      BY <1>2, <1>3, <2>3 DEF IInv, MapConsistent
    <3>2. m \notin Nodes(b)
      BY <1>4, <3>1
    <3> QED
      BY <1>5, <2>1, <3>1, <3>2
  <2> QED
    BY <2>2, <2>3
<1> QED
  BY <1>2, <1>3, <1>6, <1>8, <1>9 DEF MapConsistent

\* remove erases every entry of the particle, and only those.
LEMMA RemoveAgrees ==
  ASSUME IInv, NEW p \in particles, Remove(p)
  PROVE  /\ particles' = particles \ {p}
         /\ body' \in [particles' -> Body]
         /\ particleMap' \in [DOMAIN particleMap' -> particles']
         /\ MapConsistent'
<1>1. /\ DOMAIN body' = particles \ {p}
      /\ \A q \in particles \ {p} : body'[q] = body[q]
      /\ body' \in [particles \ {p} -> Body]
  BY DEF Remove, Erase, IInv, TypeOK, particles
<1>2. particles' = particles \ {p}
  BY <1>1 DEF particles
<1>3. /\ DOMAIN particleMap' = {m \in DOMAIN particleMap : particleMap[m] # p}
      /\ \A m \in DOMAIN particleMap' : particleMap'[m] = particleMap[m]
  BY DEF Remove, Erase
<1>4. particleMap' \in [DOMAIN particleMap' -> particles']
  BY <1>2, <1>3 DEF Remove, Erase, IInv, TypeOK
<1>5. \A m \in DOMAIN particleMap' : \E q \in particles' : m \in Nodes(body'[q])
  BY <1>1, <1>2, <1>3, Occupant
<1>6. ASSUME NEW q \in particles', NEW m \in Nodes(body'[q])
      PROVE  m \in DOMAIN particleMap' /\ particleMap'[m] = q
  <2>1. m \in DOMAIN particleMap /\ particleMap[m] = q /\ q # p
    BY <1>1, <1>2 DEF IInv, MapConsistent
  <2> QED
    BY <1>3, <2>1
<1>7. DOMAIN particleMap' = UNION {Nodes(body'[q]) : q \in particles'}
  BY <1>5, <1>6
<1> QED
  BY <1>1, <1>2, <1>4, <1>6, <1>7 DEF MapConsistent

-----------------------------------------------------------------------------
(* The log after a call                                                    *)

\* What a step does for the log when it calls registerActivation once.
Registers ==
  /\ log' \in Log
  /\ log'.activated \subseteq particles
  /\ log'.activated # particles

\* An activation logs a live particle.
LEMMA ActivateLog ==
  ASSUME IInv, NEW p \in particles, Activate(p)
  PROVE  Registers
<1>1. Calculate(body) \in Nat
  BY CalculateType DEF IInv, TypeOK, particles
<1> QED
  BY <1>1, RegisterActivationLog DEF Activate, Registers, IInv, TypeOK, ActivatedAlive

\* The neighbour of a handover is logged.
LEMMA HandoverLog ==
  ASSUME IInv, NEW q \in particles, DOMAIN body' = DOMAIN body,
         log' = RegisterActivation(RegisterMovement(log, 2), q, particles, Calculate(body'))
  PROVE  Registers
<1>1. Calculate(body') \in Nat
  BY CalculateType DEF IInv, TypeOK, particles
<1>2. RegisterMovement(log, 2) \in Log
      /\ RegisterMovement(log, 2).activated \subseteq particles
  BY RegisterMovementType DEF IInv, TypeOK, ActivatedAlive
<1>3. particles \in SUBSET Particle
  BY DEF IInv, TypeOK
<1> DEFINE moved == RegisterMovement(log, 2)
           m == Calculate(body')
<1> HIDE DEF moved, m
<1>4. moved \in Log /\ moved.activated \subseteq particles /\ m \in Nat
  BY <1>1, <1>2 DEF moved, m
<1>5. log' = RegisterActivation(moved, q, particles, m)
  BY DEF moved, m
<1> QED
  BY <1>3, <1>4, <1>5, RegisterActivationLog DEF Registers

\* The neighbour a handover is made with is a particle of the system.
LEMMA NeighbourIsParticle ==
  ASSUME IInv, NEW p \in particles, NEW l \in Labels(body[p]), HasNbrAtLabel(p, l)
  PROVE  NbrAtLabel(p, l) \in particles
  BY Occupant DEF HasNbrAtLabel, NbrAtLabel

-----------------------------------------------------------------------------
(* The invariant                                                           *)

\* The empty system satisfies the invariant.
LEMMA InitInv == Init => IInv
<1> SUFFICES ASSUME Init PROVE IInv
  OBVIOUS
<1>1. DOMAIN body = {} /\ DOMAIN particleMap = {} /\ particles = {}
  BY DEF Init, particles
<1>2. body \in [particles -> Body] /\ particleMap \in [DOMAIN particleMap -> particles]
  BY <1>1 DEF Init
<1>3. log \in Log /\ log.activated = {}
  BY DEF Init, NewLog, Log
<1> QED
  BY <1>1, <1>2, <1>3 DEF Init, IInv, TypeOK, MapConsistent, ActivatedAlive

\* A call of the active particle that moves bodies and logs it.
LEMMA MoveInv ==
  ASSUME IInv, Agrees, log' \in Log, log'.activated \subseteq particles,
         UNCHANGED <<objects, current>>
  PROVE  IInv'
<1>1. particles' = particles
  BY DEF Agrees, particles
<1> QED
  BY <1>1 DEF Agrees, IInv, TypeOK, ActivatedAlive

\* Every call of the active particle preserves the invariant.
LEMMA CallInv ==
  ASSUME IInv, NEW p \in particles, Call(p)
  PROVE  IInv'
<1>0. ASSUME log' = RegisterMovement(log, 1)
      PROVE  log' \in Log /\ log'.activated \subseteq particles
  BY <1>0, RegisterMovementType DEF IInv, TypeOK, ActivatedAlive
<1>1. ASSUME NEW l \in Labels(body[p]), Expand(p, l)
      PROVE  IInv'
  BY <1>0, <1>1, ExpandAgrees, MoveInv DEF Expand
<1>2. ASSUME NEW l \in Labels(body[p]), Push(p, l)
      PROVE  IInv'
  <2>1. Agrees
    BY <1>2, PushAgrees
  <2>2. Registers
    BY <1>2, <2>1, HandoverLog, NeighbourIsParticle DEF Push, CanPush, Agrees
  <2> QED
    BY <1>2, <2>1, <2>2, MoveInv DEF Push, Registers
<1>3. ASSUME NEW l \in Labels(body[p]), Pull(p, l)
      PROVE  IInv'
  <2>1. Agrees
    BY <1>3, PullAgrees
  <2>2. Registers
    BY <1>3, <2>1, HandoverLog, NeighbourIsParticle DEF Pull, CanPull, Agrees
  <2> QED
    BY <1>3, <2>1, <2>2, MoveInv DEF Pull, Registers
<1>4. ASSUME ContractHead(p)
      PROVE  IInv'
  BY <1>0, <1>4, ContractHeadAgrees, MoveInv DEF ContractHead
<1>5. ASSUME ContractTail(p)
      PROVE  IInv'
  BY <1>0, <1>5, ContractTailAgrees, MoveInv DEF ContractTail
<1>6. ASSUME NEW l \in Labels(body[p]), Contract(p, l)
      PROVE  IInv'
  BY <1>4, <1>5, <1>6 DEF Contract
<1>7. ASSUME Remove(p)
      PROVE  IInv'
  <2> DEFINE left == log.activated \ {p}
  <2>1. left \in SUBSET Particle /\ left \subseteq particles \ {p}
    BY DEF IInv, TypeOK, ActivatedAlive
  <2>2. log' = [log EXCEPT !.activated = left]
    BY <1>7 DEF Remove
  <2> HIDE DEF left
  <2>3. log' \in Log /\ log'.activated = left
    BY <2>1, <2>2 DEF IInv, TypeOK, Log
  <2> QED
    BY <1>7, <2>1, <2>3, RemoveAgrees DEF Remove, IInv, TypeOK, ActivatedAlive
<1> QED
  BY <1>1, <1>2, <1>3, <1>4, <1>5, <1>6, <1>7 DEF Call

\* Every step preserves the invariant.
LEMMA StepInv == IInv /\ [Next]_vars => IInv'
<1> SUFFICES ASSUME IInv, [Next]_vars PROVE IInv'
  OBVIOUS
<1>1. ASSUME NEW p \in Particle, NEW b \in NewBody, Insert(p, b)
      PROVE  IInv'
  BY <1>1, InsertAgrees DEF Insert, IInv, TypeOK, ActivatedAlive
<1>2. ASSUME NEW n \in ObjectSite, InsertObject(n)
      PROVE  IInv'
  BY <1>2 DEF InsertObject, IInv, TypeOK, MapConsistent, ActivatedAlive, particles
<1>3. ASSUME NEW p \in particles, Activate(p)
      PROVE  IInv'
  <2>1. Registers
    BY <1>3, ActivateLog
  <2> QED
    BY <1>3, <2>1
    DEF Activate, Registers, IInv, TypeOK, MapConsistent, ActivatedAlive, particles
<1>4. ASSUME NEW n \in Region, ActivateParticleAt(n)
      PROVE  IInv'
  BY <1>3, <1>4, Occupant DEF ActivateParticleAt
<1>5. ASSUME Return
      PROVE  IInv'
  BY <1>5 DEF Return, IInv, TypeOK, MapConsistent, ActivatedAlive, particles
<1>6. CASE UNCHANGED vars
  BY <1>6 DEF vars, IInv, TypeOK, MapConsistent, ActivatedAlive, particles
<1> QED
  BY <1>1, <1>2, <1>3, <1>4, <1>5, <1>6, CallInv DEF Next

\* In every behaviour the bodies, the map and the log are well-formed, the map
\* has exactly the occupied nodes, and only live particles are logged.
THEOREM InvCorrect == Spec => []IInv
  BY InitInv, StepInv, PTL DEF Spec

\* The variables keep their types.
THEOREM TypeCorrect == Spec => []TypeOK
<1>1. IInv => TypeOK
  BY DEF IInv
<1> QED
  BY <1>1, InvCorrect, PTL

\* particleMap agrees with the bodies whatever calls algorithms make, so two
\* particles never occupy one node.
THEOREM MapCorrect == Spec => []MapConsistent
<1>1. IInv => MapConsistent
  BY DEF IInv
<1> QED
  BY <1>1, InvCorrect, PTL

\* activatedParticles holds no pointer to a removed particle.
THEOREM ActivatedCorrect == Spec => []ActivatedAlive
<1>1. IInv => ActivatedAlive
  BY DEF IInv
<1> QED
  BY <1>1, InvCorrect, PTL

-----------------------------------------------------------------------------
(* Rounds                                                                  *)

\* The calls that log no activation leave that count alone.
LEMMA OnlyRegistrations ==
  ASSUME IInv, [Next]_vars
  PROVE  \/ log'.activations = log.activations
         \/ Registers /\ particles' = particles
<1>0. ASSUME log' = RegisterMovement(log, 1)
      PROVE  log'.activations = log.activations
  BY <1>0, RegisterMovementType DEF IInv, TypeOK
<1>1. ASSUME NEW p \in particles, Activate(p)
      PROVE  Registers /\ particles' = particles
  BY <1>1, ActivateLog DEF Activate, particles
<1>2. ASSUME NEW n \in Region, ActivateParticleAt(n)
      PROVE  Registers /\ particles' = particles
  BY <1>1, <1>2, Occupant DEF ActivateParticleAt
<1>3. ASSUME NEW p \in particles, NEW l \in Labels(body[p]), Push(p, l)
      PROVE  Registers /\ particles' = particles
  BY <1>3, PushAgrees, HandoverLog, NeighbourIsParticle DEF Push, CanPush, Agrees, particles
<1>4. ASSUME NEW p \in particles, NEW l \in Labels(body[p]), Pull(p, l)
      PROVE  Registers /\ particles' = particles
  BY <1>4, PullAgrees, HandoverLog, NeighbourIsParticle DEF Pull, CanPull, Agrees, particles
<1>5. ASSUME NEW p \in particles, ContractHead(p) \/ ContractTail(p)
      PROVE  log'.activations = log.activations
  BY <1>0, <1>5 DEF ContractHead, ContractTail
<1>6. ASSUME NEW p \in particles, NEW l \in Labels(body[p]), Expand(p, l) \/ Contract(p, l)
      PROVE  log'.activations = log.activations
  BY <1>0, <1>5, <1>6 DEF Expand, Contract
<1>7. ASSUME NEW p \in particles, Remove(p)
      PROVE  log'.activations = log.activations
  BY <1>7 DEF Remove, IInv, TypeOK, Log
<1>8. ASSUME \/ \E p \in Particle, b \in NewBody : Insert(p, b)
             \/ \E n \in ObjectSite : InsertObject(n)
             \/ Return
             \/ UNCHANGED vars
      PROVE  log'.activations = log.activations
  BY <1>8 DEF Insert, InsertObject, Return, vars
<1> QED
  BY <1>1, <1>2, <1>3, <1>4, <1>5, <1>6, <1>7, <1>8 DEF Next, Call

\* The comparison of sizes in registerActivation finds every round: no
\* registration leaves all particles activated.
THEOREM RoundsFound == Spec => RoundFound
<1>1. IInv /\ [Next]_vars
        => [log'.activations # log.activations => log'.activated # particles']_vars
  BY OnlyRegistrations DEF Registers
<1> QED
  BY <1>1, InvCorrect, PTL DEF Spec, RoundFound

-----------------------------------------------------------------------------
(* Objects                                                                 *)

\* Said of the map: no occupied node is an object's.
Apart == objects \cap DOMAIN particleMap = {}

\* With contracted insertions no step puts a particle on an object: expand
\* checks for one, and a handover stays on occupied nodes.
LEMMA ApartStep ==
  ASSUME InsertTailDir = {-1}, IInv, Apart, [Next]_vars
  PROVE  Apart'
<1>1. ASSUME NEW p \in Particle, NEW b \in NewBody, Insert(p, b)
      PROVE  Apart'
  <2>1. ~ IsExpanded(b)
    BY DEF NewBody, IsExpanded, IsContracted
  <2> QED
    BY <1>1, <2>1 DEF Insert, Put, Apart
<1>2. ASSUME NEW p \in particles, NEW l \in Labels(body[p]), Expand(p, l)
      PROVE  Apart'
  BY <1>2 DEF Expand, CanExpand, HasObjectAtLabel, Put, Apart
<1>3. ASSUME NEW p \in particles, NEW l \in Labels(body[p]), Push(p, l)
      PROVE  Apart'
  BY <1>3 DEF Push, CanPush, HasNbrAtLabel, Put, Apart
<1>4. ASSUME NEW p \in particles, NEW l \in Labels(body[p]), Pull(p, l)
      PROVE  Apart'
  <2>1. OccupiedNodeIncidentToLabel(body[p], l) \in DOMAIN particleMap
    BY BodyType, NbrNodeType DEF IInv, MapConsistent
  <2> QED
    BY <1>4, <2>1 DEF Pull, Put, Apart
<1>5. ASSUME NEW p \in particles, ContractHead(p) \/ ContractTail(p)
      PROVE  Apart'
  BY <1>5 DEF ContractHead, ContractTail, Erase, Apart
<1>6. ASSUME NEW p \in particles, NEW l \in Labels(body[p]), Contract(p, l)
      PROVE  Apart'
  BY <1>5, <1>6 DEF Contract
<1>7. ASSUME NEW p \in particles, Remove(p)
      PROVE  Apart'
  BY <1>7 DEF Remove, Erase, Apart
<1>8. ASSUME NEW n \in ObjectSite, InsertObject(n)
      PROVE  Apart'
  BY <1>8 DEF InsertObject, Apart
<1>9. ASSUME \/ \E p \in particles : Activate(p)
             \/ \E n \in Region : ActivateParticleAt(n)
             \/ Return
             \/ UNCHANGED vars
      PROVE  Apart'
  BY <1>9 DEF Activate, ActivateParticleAt, Return, vars, Apart
<1> QED
  BY <1>1, <1>2, <1>3, <1>4, <1>5, <1>6, <1>7, <1>8, <1>9 DEF Next, Call

\* When every particle is inserted contracted, as all of alg/ does, no particle
\* ever lies on an object.
THEOREM ObjectsAvoided ==
  ASSUME InsertTailDir = {-1}
  PROVE  Spec => []OffObjects
<1>1. Init => Apart
  BY DEF Init, Apart
<1>2. IInv /\ Apart /\ [Next]_vars => Apart'
  BY ApartStep
<1>3. IInv /\ Apart => OffObjects
  BY DEF IInv, MapConsistent, Apart, OffObjects
<1> QED
  BY <1>1, <1>2, <1>3, InvCorrect, PTL DEF Spec

-----------------------------------------------------------------------------
(* The histories                                                           *)

\* Division with remainder, and that a multiple leaves none.
LEMMA DivMod ==
  ASSUME NEW a \in Nat, NEW b \in Nat \ {0}
  PROVE  a \div b \in Nat /\ a % b \in 0 .. b - 1 /\ a = b * (a \div b) + (a % b)
  OBVIOUS
LEMMA MultipleMod ==
  ASSUME NEW k \in Nat, NEW b \in Nat \ {0}
  PROVE  (k * b) % b = 0
  OBVIOUS

\* Of the multiples of f only 0 is between 0 and f - 1.
LEMMA SmallMultiple ==
  ASSUME NEW f \in Nat \ {0}, NEW d \in Int, f * d \in 0 .. f - 1
  PROVE  d = 0
<1>1. CASE d >= 1
  <2>1. f * d >= f
    BY <1>1
  <2> QED
    BY <2>1
<1>2. CASE d <= -1
  <2>1. f * d <= -f
    BY <1>2
  <2> QED
    BY <2>1
<1> QED
  BY <1>1, <1>2

\* r is the number of rounds and k the number of measures taken in them.
Measured(k, r) == k * MeasureFreq \in r .. r + MeasureFreq - 1

\* A measure taken in the rounds whose number is a multiple of the frequency
\* is taken as often as one every MeasureFreq rounds.
LEMMA MeasuredStep ==
  ASSUME NEW k \in Nat, NEW r \in Nat, Measured(k, r)
  PROVE  IF r % MeasureFreq = 0 THEN Measured(k + 1, r + 1) ELSE Measured(k, r + 1)
<1> DEFINE f == MeasureFreq
           c == k * f
<1>0. f \in Nat \ {0}
  BY MeasureFreqAssumption
<1>1. c \in Nat /\ c \in r .. r + f - 1 /\ (k + 1) * f = c + f
  BY <1>0 DEF Measured
<1>2. CASE r % f = 0
  <2>0. r \div f \in Nat /\ r = f * (r \div f) + (r % f)
    BY <1>0, DivMod
  <2>1. PICK d \in Nat : r = f * d
    BY <1>0, <1>2, <2>0
  <2>2. c - r = f * (k - d) /\ k - d \in Int
    BY <1>0, <2>1
  <2>3. c - r \in 0 .. f - 1
    <3> HIDE DEF c, f
    <3> QED
      BY <1>0, <1>1
  <2>4. k - d = 0
    BY <1>0, <2>2, <2>3, SmallMultiple
  <2>5. c = r
    BY <1>0, <1>1, <2>2, <2>4
  <2>6. (k + 1) * f \in r + 1 .. (r + 1) + f - 1
    <3> HIDE DEF c, f
    <3> QED
      BY <1>0, <1>1, <2>5
  <2> QED
    BY <1>2, <2>6 DEF Measured
<1>3. CASE r % f # 0
  <2>1. c # r
    BY <1>0, <1>3, MultipleMod
  <2>2. c \in r + 1 .. (r + 1) + f - 1
    <3> HIDE DEF c, f
    <3> QED
      BY <1>0, <1>1, <2>1
  <2> QED
    BY <1>3, <2>2 DEF Measured
<1> QED
  BY <1>2, <1>3

\* What HistoryAgrees says of the log, for any log, and what keeps it true: the
\* counts committed last are not above the counts of now.
Coherent(lg) ==
  /\ Len(lg.countHistory) = lg.rounds
  /\ \A i \in 1 .. lg.rounds : lg.countHistory[i].rounds = i - 1
  /\ \A i \in 1 .. lg.rounds : \A j \in 1 .. i :
       /\ lg.countHistory[j].activations <= lg.countHistory[i].activations
       /\ lg.countHistory[j].moves <= lg.countHistory[i].moves
  /\ \A i \in 1 .. lg.rounds :
       /\ lg.countHistory[i].activations <= lg.activations
       /\ lg.countHistory[i].moves <= lg.moves
  /\ Measured(Len(lg.measureHistory), lg.rounds)

\* The activations that the last round was committed with, and that every
\* particle activated since then has been counted.
Committed(lg) ==
  IF lg.countHistory = << >> THEN 0 ELSE lg.countHistory[Len(lg.countHistory)].activations
Counted(lg) == Committed(lg) + Cardinality(lg.activated) <= lg.activations

\* The fields of a committed snapshot.
LEMMA CommittedType ==
  ASSUME NEW h \in Seq(Snapshot), NEW i \in 1 .. Len(h)
  PROVE  h[i].rounds \in Nat /\ h[i].activations \in Nat /\ h[i].moves \in Nat
<1>1. h[i] \in Snapshot
  OBVIOUS
<1> QED
  BY <1>1 DEF Snapshot

\* Counting alone leaves the histories as they are.
LEMMA CountsGrow ==
  ASSUME NEW lg \in Log, NEW new \in Log, Coherent(lg),
         new.countHistory = lg.countHistory, new.measureHistory = lg.measureHistory,
         new.rounds = lg.rounds, new.activations >= lg.activations, new.moves >= lg.moves
  PROVE  Coherent(new)
<1>1. lg.countHistory \in Seq(Snapshot) /\ lg.activations \in Nat /\ lg.moves \in Nat
      /\ new.activations \in Nat /\ new.moves \in Nat /\ lg.rounds \in Nat
  BY LogFields
<1>2. \A i \in 1 .. lg.rounds :
        lg.countHistory[i].activations \in Nat /\ lg.countHistory[i].moves \in Nat
  BY <1>1, CommittedType DEF Coherent
<1> QED
  BY <1>1, <1>2 DEF Coherent

\* Committing the counts of now keeps the histories in order, whatever becomes
\* of activatedParticles.
LEMMA RoundCoherent ==
  ASSUME NEW lg \in Log, Coherent(lg), NEW m \in Nat
  PROVE  Coherent(RegisterRound(lg, m))
<1> DEFINE snapshot == [rounds |-> lg.rounds, activations |-> lg.activations,
                        moves |-> lg.moves]
           counted  == Append(lg.countHistory, snapshot)
           measured == IF lg.rounds % MeasureFreq = 0
                       THEN Append(lg.measureHistory, m) ELSE lg.measureHistory
           next     == lg.rounds + 1
           r        == RegisterRound(lg, m)
<1>1. /\ lg.rounds \in Nat /\ lg.activations \in Nat /\ lg.moves \in Nat
      /\ lg.countHistory \in Seq(Snapshot) /\ lg.measureHistory \in Seq(Nat)
      /\ Len(lg.countHistory) = lg.rounds
  BY LogFields DEF Coherent
<1>2. r.countHistory = counted /\ r.measureHistory = measured
      /\ r.rounds = next /\ r.activations = lg.activations /\ r.moves = lg.moves
  BY DEF RegisterRound, Log
<1>3. /\ Len(counted) = next
      /\ counted[next] = snapshot
      /\ \A i \in 1 .. lg.rounds : counted[i] = lg.countHistory[i]
  BY <1>1
<1>4. \A i \in 1 .. lg.rounds :
        lg.countHistory[i].activations \in Nat /\ lg.countHistory[i].moves \in Nat
  BY <1>1, CommittedType
<1>5. Measured(Len(measured), next)
  <2>1. Len(lg.measureHistory) \in Nat /\ Measured(Len(lg.measureHistory), lg.rounds)
    BY <1>1 DEF Coherent
  <2>2. Len(measured) = IF lg.rounds % MeasureFreq = 0
                        THEN Len(lg.measureHistory) + 1 ELSE Len(lg.measureHistory)
    BY <1>1
  <2> QED
    BY <1>1, <2>1, <2>2, MeasuredStep
<1> HIDE DEF counted
<1>6. \A i \in 1 .. next : counted[i].rounds = i - 1
  <2>1. \A i \in 1 .. lg.rounds : counted[i].rounds = i - 1
    BY <1>3 DEF Coherent
  <2>2. counted[next].rounds = next - 1
    BY <1>1, <1>3
  <2> QED
    BY <1>1, <2>1, <2>2
<1>7. \A i \in 1 .. next : /\ counted[i].activations <= lg.activations
                           /\ counted[i].moves <= lg.moves
  <2>1. \A i \in 1 .. lg.rounds : /\ counted[i].activations <= lg.activations
                                  /\ counted[i].moves <= lg.moves
    BY <1>3 DEF Coherent
  <2>2. counted[next].activations <= lg.activations /\ counted[next].moves <= lg.moves
    BY <1>1, <1>3
  <2> QED
    BY <1>1, <2>1, <2>2
<1>8. \A i \in 1 .. next : \A j \in 1 .. i :
        /\ counted[j].activations <= counted[i].activations
        /\ counted[j].moves <= counted[i].moves
  <2>1. ASSUME NEW i \in 1 .. lg.rounds, NEW j \in 1 .. i
        PROVE  /\ counted[j].activations <= counted[i].activations
               /\ counted[j].moves <= counted[i].moves
    <3>1. j \in 1 .. lg.rounds
      BY <1>1
    <3> QED
      BY <1>3, <3>1 DEF Coherent
  <2>2. ASSUME NEW j \in 1 .. next
        PROVE  /\ counted[j].activations <= counted[next].activations
               /\ counted[j].moves <= counted[next].moves
    BY <1>3, <1>7
  <2>3. ASSUME NEW i \in 1 .. next, i # next PROVE i \in 1 .. lg.rounds
    BY <1>1, <2>3
  <2> HIDE DEF counted, next
  <2> QED
    BY <2>1, <2>2, <2>3
<1> HIDE DEF measured, next, r
<1>9. Coherent(r)
  BY <1>2, <1>3, <1>5, <1>6, <1>7, <1>8 DEF Coherent
<1> QED
  BY <1>9 DEF r

\* An activation counted and the particle marked; the round it ends.
Logged(lg, p) ==
  [lg EXCEPT !.activations = lg.activations + 1, !.activated = lg.activated \cup {p}]
RoundEnded(lg, p, m) == [RegisterRound(Logged(lg, p), m) EXCEPT !.activated = {}]

\* The two outcomes of registerActivation: the activation is counted, or it is
\* the last one of its round and is committed with it.
LEMMA RegistrationCases ==
  ASSUME NEW lg \in Log, NEW S \in SUBSET Particle, NEW p \in S, NEW m \in Nat,
         lg.activated \subseteq S
  PROVE  /\ Logged(lg, p) \in Log
         /\ RegisterRound(Logged(lg, p), m) \in Log
         /\ lg.activated \cup {p} = S
              => RegisterActivation(lg, p, S, m) = RoundEnded(lg, p, m)
         /\ lg.activated \cup {p} # S
              => RegisterActivation(lg, p, S, m) = Logged(lg, p)
<1> DEFINE count  == lg.activations + 1
           marked == lg.activated \cup {p}
<1>1. count \in Nat /\ marked \in SUBSET Particle /\ marked \subseteq S
  BY LogFields
<1>2. RegisterActivation(lg, p, S, m)
        = IF Cardinality(Logged(lg, p).activated) = Cardinality(S)
          THEN RoundEnded(lg, p, m)
          ELSE Logged(lg, p)
  BY DEF RegisterActivation, RoundEnded, Logged
<1>3. Logged(lg, p) \in Log /\ Logged(lg, p).activated = marked
  <2>1. Logged(lg, p) = [lg EXCEPT !.activations = count, !.activated = marked]
    BY DEF Logged
  <2> HIDE DEF count, marked
  <2> QED
    BY <1>1, <2>1 DEF Log
<1>4. IsFiniteSet(S)
  BY FiniteAssumption, FS_Subset
<1>5. Cardinality(marked) = Cardinality(S) <=> marked = S
  BY <1>1, <1>4, FS_Subset
<1>6. RegisterRound(Logged(lg, p), m) \in Log
  BY <1>3, RegisterRoundType
<1> QED
  BY <1>2, <1>3, <1>5, <1>6

\* Histories and counts stay in order over an activation, and one more particle
\* is counted for.
LEMMA RegistrationCoherent ==
  ASSUME NEW lg \in Log, NEW S \in SUBSET Particle, NEW p \in S, NEW m \in Nat,
         lg.activated \subseteq S, Coherent(lg), Counted(lg)
  PROVE  LET new == RegisterActivation(lg, p, S, m)
         IN  /\ Coherent(new) /\ Counted(new)
             /\ new.rounds # lg.rounds
                  => new.activations - Committed(lg) >= Cardinality(S)
<1> DEFINE marked == lg.activated \cup {p}
           logged == Logged(lg, p)
           round  == RegisterRound(logged, m)
           new    == RegisterActivation(lg, p, S, m)
<1>1. /\ lg.activated \subseteq Particle /\ lg.rounds \in Nat /\ lg.activations \in Nat
      /\ lg.countHistory \in Seq(Snapshot) /\ lg.moves \in Nat
  BY LogFields
<1>2. /\ logged \in Log
      /\ round \in Log
      /\ marked = S => new = [round EXCEPT !.activated = {}]
      /\ marked # S => new = logged
  <2>1. /\ Logged(lg, p) \in Log
        /\ RegisterRound(Logged(lg, p), m) \in Log
        /\ marked = S => RegisterActivation(lg, p, S, m) = RoundEnded(lg, p, m)
        /\ marked # S => RegisterActivation(lg, p, S, m) = Logged(lg, p)
    BY RegistrationCases
  <2> QED
    BY <2>1 DEF RoundEnded
<1>3. /\ logged.countHistory = lg.countHistory
      /\ logged.measureHistory = lg.measureHistory
      /\ logged.rounds = lg.rounds
      /\ logged.activations = lg.activations + 1
      /\ logged.moves = lg.moves
      /\ logged.activated = marked
  BY DEF Logged, Log
<1> HIDE DEF logged
<1>4. Coherent(logged)
  BY <1>1, <1>2, <1>3, CountsGrow
<1>5. IsFiniteSet(lg.activated)
  BY <1>1, FiniteAssumption, FS_Subset
<1>6. /\ Cardinality(lg.activated) \in Nat
      /\ Cardinality(marked) \in Nat
      /\ Cardinality(marked) <= Cardinality(lg.activated) + 1
  <2>1. Cardinality(lg.activated) \in Nat
    BY <1>5, FS_CardinalityType
  <2>2. Cardinality(marked) = IF p \in lg.activated THEN Cardinality(lg.activated)
                              ELSE Cardinality(lg.activated) + 1
    BY <1>5, FS_AddElement
  <2> QED
    BY <2>1, <2>2
<1>7. Committed(lg) \in Nat
  BY <1>1, CommittedType DEF Committed
<1>8. CASE marked = S
  <2>1. /\ Coherent(round)
        /\ round.rounds = lg.rounds + 1
        /\ round.activations = lg.activations + 1
        /\ round.countHistory = Append(lg.countHistory,
             [rounds |-> lg.rounds, activations |-> lg.activations + 1, moves |-> lg.moves])
    <3>1. round.countHistory = Append(logged.countHistory,
             [rounds |-> logged.rounds, activations |-> logged.activations,
              moves |-> logged.moves])
      BY <1>2 DEF RegisterRound, Log
    <3> QED
      BY <1>2, <1>3, <1>4, <3>1, RoundCoherent, RegisterRoundType
  <2> HIDE DEF round
  <2>2. /\ new \in Log
        /\ new.countHistory = round.countHistory
        /\ new.measureHistory = round.measureHistory
        /\ new.rounds = round.rounds
        /\ new.activations = round.activations
        /\ new.moves = round.moves
        /\ new.activated = {}
    <3> HIDE DEF new
    <3> QED
      BY <1>2, <1>8 DEF Log
  <2> HIDE DEF new
  <2>3. Coherent(new)
    BY <2>1, <2>2 DEF Coherent
  <2>4. Committed(new) = lg.activations + 1
    BY <1>1, <2>1, <2>2 DEF Committed
  <2>5. Counted(new)
    BY <1>1, <2>1, <2>2, <2>4, FS_EmptySet DEF Counted
  <2>6. new.activations - Committed(lg) >= Cardinality(S)
    <3>1. /\ Committed(lg) + Cardinality(lg.activated) <= lg.activations
          /\ Cardinality(marked) = Cardinality(S)
          /\ new.activations = lg.activations + 1
      BY <1>8, <2>1, <2>2 DEF Counted
    <3> QED
      BY <1>1, <1>6, <1>7, <3>1
  <2> QED
    BY <2>3, <2>5, <2>6 DEF new
<1>9. CASE marked # S
  <2>1. new = logged
    BY <1>2, <1>9
  <2>2. Committed(logged) = Committed(lg)
    BY <1>3 DEF Committed
  <2>3. Counted(logged)
    <3> HIDE DEF marked
    <3> QED
      BY <1>1, <1>3, <1>6, <1>7, <2>2 DEF Counted
  <2> QED
    BY <1>3, <1>4, <2>1, <2>3
<1> QED
  BY <1>8, <1>9

\* What a step does to the log, whichever action it is.
LogStep ==
  \/ log' = log
  \/ log' = RegisterMovement(log, 1)
  \/ \E p \in particles : log' = [log EXCEPT !.activated = log.activated \ {p}]
  \/ \E p \in particles : log' = RegisterActivation(log, p, particles, Calculate(body))
  \/ /\ DOMAIN body' = DOMAIN body
     /\ \E p \in particles :
          log' = RegisterActivation(RegisterMovement(log, 2), p, particles, Calculate(body'))

LEMMA EveryLogStep ==
  ASSUME IInv, [Next]_vars
  PROVE  LogStep
<1>1. ASSUME NEW p \in particles, Activate(p)
      PROVE  LogStep
  BY <1>1 DEF Activate, LogStep
<1>2. ASSUME NEW n \in Region, ActivateParticleAt(n)
      PROVE  LogStep
  BY <1>1, <1>2, Occupant DEF ActivateParticleAt
<1>3. ASSUME NEW p \in particles, NEW l \in Labels(body[p]), Push(p, l) \/ Pull(p, l)
      PROVE  LogStep
  BY <1>3, PushAgrees, PullAgrees, NeighbourIsParticle
  DEF Push, CanPush, Pull, CanPull, Agrees, LogStep
<1>4. ASSUME NEW p \in particles, ContractHead(p) \/ ContractTail(p)
      PROVE  LogStep
  BY <1>4 DEF ContractHead, ContractTail, LogStep
<1>5. ASSUME NEW p \in particles, NEW l \in Labels(body[p]), Expand(p, l) \/ Contract(p, l)
      PROVE  LogStep
  BY <1>4, <1>5 DEF Expand, Contract, LogStep
<1>6. ASSUME NEW p \in particles, Remove(p)
      PROVE  LogStep
  BY <1>6 DEF Remove, LogStep
<1>7. ASSUME \/ \E p \in Particle, b \in NewBody : Insert(p, b)
             \/ \E n \in ObjectSite : InsertObject(n)
             \/ Return
             \/ UNCHANGED vars
      PROVE  LogStep
  BY <1>7 DEF Insert, InsertObject, Return, vars, LogStep
<1> QED
  BY <1>1, <1>2, <1>3, <1>4, <1>5, <1>6, <1>7 DEF Next, Call

\* What must hold of the log for HistoryAgrees and RoundCost.
LogInv == Coherent(log) /\ Counted(log)

\* Every step keeps the histories in order; one that ends a round has counted
\* an activation for every particle since the round before.
LEMMA LogInvStep ==
  ASSUME IInv, LogInv, [Next]_vars
  PROVE  /\ LogInv'
         /\ log'.rounds # log.rounds
              => log'.activations - LastActivations >= Cardinality(particles)
<1>0. /\ log \in Log /\ particles \in SUBSET Particle /\ log.activated \subseteq particles
      /\ LastActivations = Committed(log)
  BY DEF IInv, TypeOK, ActivatedAlive, LastActivations, Committed
<1>1. CASE log' = log
  BY <1>1 DEF LogInv, Coherent, Counted, Committed
<1>2. ASSUME NEW n \in Nat, NEW lg \in Log, lg = RegisterMovement(log, n)
      PROVE  Coherent(lg) /\ Counted(lg) /\ Committed(lg) = Committed(log)
             /\ lg.rounds = log.rounds /\ lg.activated = log.activated
  <2>1. /\ lg.activated = log.activated
        /\ lg.activations = log.activations
        /\ lg.rounds = log.rounds
        /\ lg.moves = log.moves + n
        /\ lg.countHistory = log.countHistory
        /\ lg.measureHistory = log.measureHistory
    BY <1>0, <1>2, RegisterMovementType
  <2>2. log.activations \in Nat /\ log.moves \in Nat
    BY <1>0, LogFields
  <2> QED
    BY <1>0, <2>1, <2>2, CountsGrow DEF LogInv, Counted, Committed
<1>3. CASE log' = RegisterMovement(log, 1)
  <2>1. log' \in Log
    BY <1>0, <1>3, RegisterMovementType
  <2> QED
    BY <1>2, <1>3, <2>1 DEF LogInv, Coherent, Counted, Committed
<1>4. ASSUME NEW p \in particles, log' = [log EXCEPT !.activated = log.activated \ {p}]
      PROVE  LogInv' /\ log'.rounds = log.rounds
  <2> DEFINE left == log.activated \ {p}
  <2>1. IsFiniteSet(log.activated)
    BY <1>0, FiniteAssumption, FS_Subset
  <2>2. /\ Cardinality(left) \in Nat /\ Cardinality(log.activated) \in Nat
        /\ Cardinality(left) <= Cardinality(log.activated)
    BY <2>1, FS_Subset, FS_CardinalityType
  <2>3. left \in SUBSET Particle
    BY <1>0
  <2>4. log' = [log EXCEPT !.activated = left]
    BY <1>4
  <2> HIDE DEF left
  <2>5. /\ log'.activated = left
        /\ log'.activations = log.activations
        /\ log'.rounds = log.rounds
        /\ log'.moves = log.moves
        /\ log'.countHistory = log.countHistory
        /\ log'.measureHistory = log.measureHistory
    BY <1>0, <2>4 DEF Log
  <2>6. Committed(log) \in Nat /\ log.activations \in Nat
    BY <1>0, LogFields, CommittedType DEF Committed
  <2>7. Committed(log') = Committed(log)
    BY <2>5 DEF Committed
  <2>8. Counted(log')
    BY <2>2, <2>5, <2>6, <2>7 DEF LogInv, Counted
  <2>9. Coherent(log')
    BY <2>5 DEF LogInv, Coherent
  <2> QED
    BY <2>5, <2>8, <2>9 DEF LogInv, Coherent, Counted, Committed
<1>5. ASSUME NEW p \in particles, NEW m \in Nat, NEW lg \in Log,
             Coherent(lg), Counted(lg), Committed(lg) = Committed(log),
             lg.rounds = log.rounds, lg.activated = log.activated,
             log' = RegisterActivation(lg, p, particles, m)
      PROVE  /\ LogInv'
             /\ log'.rounds # log.rounds
                  => log'.activations - LastActivations >= Cardinality(particles)
  <2>1. /\ Coherent(log') /\ Counted(log')
        /\ log'.rounds # lg.rounds
             => log'.activations - Committed(lg) >= Cardinality(particles)
    BY <1>0, <1>5, RegistrationCoherent
  <2> QED
    BY <1>0, <1>5, <2>1 DEF LogInv, Coherent, Counted, Committed
<1>6. ASSUME NEW p \in particles,
             log' = RegisterActivation(log, p, particles, Calculate(body))
      PROVE  /\ LogInv'
             /\ log'.rounds # log.rounds
                  => log'.activations - LastActivations >= Cardinality(particles)
  <2>1. Calculate(body) \in Nat
    BY CalculateType DEF IInv, TypeOK, particles
  <2> QED
    BY <1>0, <1>5, <1>6, <2>1 DEF LogInv
<1>7. ASSUME DOMAIN body' = DOMAIN body, NEW p \in particles,
             log' = RegisterActivation(RegisterMovement(log, 2), p, particles,
                                       Calculate(body'))
      PROVE  /\ LogInv'
             /\ log'.rounds # log.rounds
                  => log'.activations - LastActivations >= Cardinality(particles)
  <2>1. Calculate(body') \in Nat
    BY <1>7, CalculateType DEF IInv, TypeOK, particles
  <2>2. RegisterMovement(log, 2) \in Log
    BY <1>0, RegisterMovementType
  <2> DEFINE moved == RegisterMovement(log, 2)
  <2>3. /\ Coherent(moved) /\ Counted(moved) /\ Committed(moved) = Committed(log)
        /\ moved.rounds = log.rounds /\ moved.activated = log.activated
    BY <1>2, <2>2
  <2> HIDE DEF moved
  <2> QED
    BY <1>5, <1>7, <2>1, <2>2, <2>3 DEF moved
<1> QED
  BY <1>0, <1>1, <1>3, <1>4, <1>6, <1>7, <1>2, EveryLogStep, RegisterMovementType DEF LogStep

\* The empty log is in order.
LEMMA LogInvInit == Init => LogInv
  BY MeasureFreqAssumption, FS_EmptySet
  DEF Init, NewLog, LogInv, Coherent, Counted, Committed, Measured

\* The histories agree with the counts: a snapshot for every round, in the
\* order of the rounds, with counts that never fall, and one value of the
\* measure every MeasureFreq rounds.
THEOREM HistoryCorrect == Spec => []HistoryAgrees
<1>1. IInv /\ LogInv /\ [Next]_vars => LogInv'
  BY LogInvStep
<1>2. LogInv => HistoryAgrees
  BY DEF LogInv, Coherent, Measured, HistoryAgrees
<1> QED
  BY <1>1, <1>2, LogInvInit, InvCorrect, PTL DEF Spec

\* A round is only committed after as many activations as there are particles,
\* whatever handovers, removals and insertions happen in it.
THEOREM RoundCostCorrect == Spec => RoundCost
<1>1. IInv /\ LogInv /\ [Next]_vars => LogInv'
  BY LogInvStep
<1>2. IInv /\ LogInv /\ [Next]_vars
        => [log'.rounds # log.rounds
              => log'.activations - LastActivations >= Cardinality(particles)]_vars
  BY LogInvStep
<1> QED
  BY <1>1, <1>2, LogInvInit, InvCorrect, PTL DEF Spec, RoundCost

-----------------------------------------------------------------------------
(* The amoebot model                                                       *)

\* The lattice of AmoebotModel is this one.
LEMMA SameLattice ==
  /\ \A n : Model!Nbrs(n) = Nbrs(n)
  /\ \A m, n : Model!Adjacent(m, n) <=> Adjacent(m, n)
  BY DEF Model!Nbrs, Nbrs, Model!Adjacent, Adjacent, Model!NodeInDir, NodeInDir,
         Model!Dir, Dir, Model!xOffset, xOffset, Model!yOffset, yOffset

\* And it counts as this one does.
LEMMA SameCardinality ==
  ASSUME NEW S
  PROVE  Model!Cardinality(S) = Cardinality(S)
  BY DEF Model!Cardinality, Cardinality, Model!IsFiniteSet, IsFiniteSet

\* The nodes of a body: one, or two adjacent ones.
LEMMA BodyNodes ==
  ASSUME NEW b \in Body
  PROVE  /\ IsContracted(b) => Nodes(b) = {b.head}
         /\ IsExpanded(b) => /\ Cardinality(Nodes(b)) = 2
                             /\ Nodes(b) = {b.head, TailNode(b)}
                             /\ TailNode(b) \in Nbrs(b.head)
<1>1. CASE IsExpanded(b)
  <2>1. TailNode(b) # b.head /\ Nodes(b) = {b.head, TailNode(b)}
    BY <1>1, NodesType
  <2>2. Cardinality({b.head, TailNode(b)}) = 2
    <3>1. IsFiniteSet({b.head}) /\ Cardinality({b.head}) = 1
      BY FS_Singleton
    <3>2. Cardinality({b.head} \cup {TailNode(b)}) = 2
      BY <2>1, <3>1, FS_AddElement
    <3>3. {b.head} \cup {TailNode(b)} = {b.head, TailNode(b)}
      OBVIOUS
    <3> QED
      BY <3>2, <3>3
  <2>3. b.globalTailDir \in Dir
    BY <1>1 DEF Body, IsExpanded, IsContracted
  <2> QED
    BY <1>1, <2>1, <2>2, <2>3 DEF TailNode, Nbrs, IsExpanded
<1>2. CASE IsContracted(b)
  BY <1>2, NodesType DEF IsExpanded
<1> QED
  BY <1>1, <1>2 DEF IsExpanded

\* What a port reaches is adjacent to the node it belongs to.
LEMMA PortAdjacent ==
  ASSUME NEW b \in Body, NEW l \in Labels(b)
  PROVE  NbrNode(b, l) \in Nbrs(OccupiedNodeIncidentToLabel(b, l))
  BY LabelToGlobalDirType DEF NbrNode, Nbrs

\* A node is free in the model when the map has no entry for it.
LEMMA FreeNode ==
  ASSUME IInv, NEW n, n \notin DOMAIN particleMap
  PROVE  Model!Free(n)
  BY DEF IInv, MapConsistent, Model!Free, Model!Alive, occupied

\* One body changes.
LEMMA OneOccupies ==
  ASSUME NEW p \in particles, NEW b, body' = [body EXCEPT ![p] = b]
  PROVE  occupied' = [occupied EXCEPT ![p] = Nodes(b)]
<1>1. DOMAIN body' = DOMAIN body
  OBVIOUS
<1> QED
  BY <1>1 DEF occupied, particles

\* registerActivation is the model's taking part in a round: comparing the
\* sizes of two containers decides whether everyone else already has.
LEMMA RegistrationTakesPart ==
  ASSUME IInv, particles' = particles, NEW p \in particles, NEW m \in Nat,
         NEW lg \in Log, lg.activated = log.activated, lg.rounds = log.rounds,
         log' = RegisterActivation(lg, p, particles, m)
  PROVE  Model!TakesPart(p)
<1>1. particles \in SUBSET Particle /\ log.activated \subseteq particles
  BY DEF IInv, TypeOK, ActivatedAlive
<1>2. waiting \subseteq {p} <=> log.activated \cup {p} = particles
  BY <1>1 DEF waiting
<1>3. DOMAIN occupied = particles
  BY DEF occupied
<1>4. /\ lg.activated \cup {p} = particles => log' = RoundEnded(lg, p, m)
      /\ lg.activated \cup {p} # particles => log' = Logged(lg, p)
      /\ Logged(lg, p) \in Log
      /\ RegisterRound(Logged(lg, p), m) \in Log
  BY <1>1, RegistrationCases
<1>5. Logged(lg, p).activated = log.activated \cup {p}
      /\ Logged(lg, p).rounds = log.rounds
  BY DEF Logged, Log
<1>6. CASE log.activated \cup {p} = particles
  <2>1. RegisterRound(Logged(lg, p), m).rounds = log.rounds + 1
    BY <1>4, <1>5, RegisterRoundType
  <2> DEFINE round == RegisterRound(Logged(lg, p), m)
  <2>2. log' = [round EXCEPT !.activated = {}] /\ round \in Log /\ round.rounds = log.rounds + 1
    BY <1>4, <1>6, <2>1 DEF RoundEnded
  <2> HIDE DEF round
  <2>3. log'.rounds = log.rounds + 1 /\ log'.activated = {}
    BY <2>2 DEF Log
  <2>4. waiting' = particles
    BY <2>3 DEF waiting
  <2> QED
    BY <1>2, <1>3, <1>6, <2>3, <2>4 DEF Model!TakesPart, Model!Alive
<1>7. CASE log.activated \cup {p} # particles
  <2>1. log'.rounds = log.rounds /\ log'.activated = log.activated \cup {p}
    BY <1>4, <1>5, <1>7
  <2>2. waiting' = waiting \ {p}
    BY <2>1 DEF waiting
  <2> QED
    BY <1>2, <1>7, <2>1, <2>2 DEF Model!TakesPart
<1> QED
  BY <1>6, <1>7

\* A step that moves one body and logs one movement leaves the round alone.
LEMMA MovementKeepsRound ==
  ASSUME IInv, DOMAIN body' = DOMAIN body, log' = RegisterMovement(log, 1)
  PROVE  waiting' = waiting /\ log'.rounds = log.rounds
<1>1. log \in Log
  BY DEF IInv, TypeOK
<1>2. log'.activated = log.activated /\ log'.rounds = log.rounds
  BY <1>1, RegisterMovementType
<1> QED
  BY <1>2 DEF waiting, particles

\* expand is the model's growth into a free neighbouring node.
LEMMA ExpandGrows ==
  ASSUME IInv, NEW p \in particles, NEW l \in Labels(body[p]), Expand(p, l)
  PROVE  Model!Grow(p)
<1> DEFINE n == body[p].head
           m == NbrNode(body[p], l)
           b == Expanded(body[p], l)
<1>1. IsContracted(body[p]) /\ m \notin DOMAIN particleMap /\ body[p] \in Body
  BY BodyType DEF Expand, CanExpand, HasNbrAtLabel
<1>2. occupied[p] = {n} /\ Nodes(b) = {n, m}
  BY <1>1, BodyNodes, ExpandedBody DEF occupied
<1>3. m \in Model!Nbrs(n)
  <2>1. OccupiedNodeIncidentToLabel(body[p], l) = n
    BY <1>1, NbrNodeType, BodyNodes
  <2> QED
    BY <1>1, <2>1, PortAdjacent, SameLattice
<1>4. body' = [body EXCEPT ![p] = b]
  BY DEF Expand
<1>5. occupied' = [occupied EXCEPT ![p] = {n, m}]
  BY <1>2, <1>4, OneOccupies
<1>6. DOMAIN body' = DOMAIN body
  BY <1>4
<1>7. waiting' = waiting /\ log'.rounds = log.rounds /\ current' = current
  BY <1>6, MovementKeepsRound DEF Expand
<1>8. Model!Free(m)
  BY <1>1, FreeNode
<1> HIDE DEF n, m, b
<1> QED
  BY <1>2, <1>3, <1>5, <1>7, <1>8 DEF Model!Grow

\* Both contractions are the model's shrinking.
LEMMA ContractShrinks ==
  ASSUME IInv, NEW p \in particles, ContractHead(p) \/ ContractTail(p)
  PROVE  Model!Shrink(p)
<1> DEFINE b == IF ContractHead(p) THEN HeadContracted(body[p]) ELSE TailContracted(body[p])
<1>1. IsExpanded(body[p]) /\ body[p] \in Body
  BY BodyType DEF ContractHead, ContractTail
<1>2. Cardinality(occupied[p]) = 2
  BY <1>1, BodyNodes DEF occupied
<1>3. \E n \in occupied[p] : Nodes(b) = {n}
  BY <1>1, BodyNodes, ContractedBody DEF occupied
<1>4. body' = [body EXCEPT ![p] = b]
  BY DEF ContractHead, ContractTail
<1>5. occupied' = [occupied EXCEPT ![p] = Nodes(b)]
  <2> HIDE DEF b
  <2> QED
    BY <1>4, OneOccupies
<1>6. DOMAIN body' = DOMAIN body
  BY <1>4
<1>7. log' = RegisterMovement(log, 1) /\ current' = current
  BY DEF ContractHead, ContractTail
<1>8. waiting' = waiting /\ log'.rounds = log.rounds
  BY <1>6, <1>7, MovementKeepsRound
<1> HIDE DEF b
<1>9. \E n \in occupied[p] : occupied' = [occupied EXCEPT ![p] = {n}]
  BY <1>3, <1>5
<1> QED
  BY <1>2, <1>7, <1>8, <1>9, SameCardinality DEF Model!Shrink

\* A handover of node n, whoever starts it: the giver is left with its other
\* node, the taker has n and the adjacent node it had.
LEMMA HandoverGives ==
  ASSUME IInv, NEW giver \in particles, NEW taker \in particles, giver # taker,
         IsExpanded(body[giver]), IsContracted(body[taker]),
         NEW n \in Nodes(body[giver]), Adjacent(body[taker].head, n),
         NEW g, Nodes(g) = Nodes(body[giver]) \ {n},
         NEW t, Nodes(t) = {body[taker].head, n},
         body' = [body EXCEPT ![giver] = g, ![taker] = t]
  PROVE  Model!Gives(giver, taker, n)
<1>1. /\ occupied[giver] = Nodes(body[giver])
      /\ Cardinality(occupied[giver]) = 2
      /\ occupied[taker] = {body[taker].head}
  BY BodyType, BodyNodes DEF occupied
<1>2. /\ DOMAIN body' = DOMAIN body
      /\ body'[giver] = g
      /\ body'[taker] = t
      /\ \A q \in particles \ {giver, taker} : body'[q] = body[q]
  BY DEF particles
<1> DEFINE m == body[taker].head
           left == occupied[giver] \ {n}
<1>3. Model!Adjacent(m, n)
  BY SameLattice
<1>4. Nodes(g) = left /\ Nodes(t) = {m, n}
  BY <1>1
<1> HIDE DEF m, left
<1>5. occupied' = [occupied EXCEPT ![giver] = left, ![taker] = {m, n}]
  BY <1>2, <1>4 DEF occupied, particles
<1>6. occupied' = [occupied EXCEPT ![giver] = occupied[giver] \ {n}, ![taker] = {m, n}]
  BY <1>5 DEF left
<1>7. m \in occupied[taker] /\ occupied[taker] = {m}
  BY <1>1 DEF m
<1>8. n \in occupied[giver]
  BY <1>1
<1> QED
  BY <1>1, <1>3, <1>6, <1>7, <1>8, SameCardinality DEF Model!Gives

\* A handover logs the neighbour as activated, so the round may end with it.
LEMMA HandoverTakesPart ==
  ASSUME IInv, NEW q \in particles, DOMAIN body' = DOMAIN body,
         log' = RegisterActivation(RegisterMovement(log, 2), q, particles, Calculate(body'))
  PROVE  Model!TakesPart(q)
<1> DEFINE moved == RegisterMovement(log, 2)
           m == Calculate(body')
<1>1. m \in Nat
  BY CalculateType DEF IInv, TypeOK, particles
<1>2. log \in Log
  BY DEF IInv, TypeOK
<1>3. moved \in Log /\ moved.activated = log.activated /\ moved.rounds = log.rounds
  BY <1>2, RegisterMovementType
<1>4. particles' = particles /\ log' = RegisterActivation(moved, q, particles, m)
  BY DEF particles
<1> HIDE DEF moved, m
<1> QED
  BY <1>1, <1>3, <1>4, RegistrationTakesPart

\* A push is the model's handover, given by the neighbour.
LEMMA PushHandsOver ==
  ASSUME IInv, NEW p \in particles, NEW l \in Labels(body[p]), Push(p, l)
  PROVE  Model!Handover(p)
<1> DEFINE n == NbrNode(body[p], l)
           q == NbrAtLabel(p, l)
           t == Expanded(body[p], l)
           g == Released(body[q], n)
<1>1. IsContracted(body[p]) /\ n \in DOMAIN particleMap /\ IsExpanded(body[q])
  BY DEF Push, CanPush, HasNbrAtLabel
<1>2. q \in particles /\ n \in Nodes(body[q]) /\ q # p
  BY <1>1, Occupant DEF NbrAtLabel, IsExpanded
<1>3. Nodes(t) = {body[p].head, n}
  BY <1>1, BodyType, ExpandedBody
<1>4. Nodes(g) = Nodes(body[q]) \ {n}
  BY <1>1, <1>2, BodyType, ReleasedBody
<1>5. Adjacent(body[p].head, n)
  <2>1. OccupiedNodeIncidentToLabel(body[p], l) = body[p].head
    BY <1>1, BodyType, NbrNodeType, BodyNodes
  <2> QED
    BY <2>1, BodyType, PortAdjacent DEF Adjacent
<1>6. body' = [body EXCEPT ![p] = t, ![q] = g]
  BY DEF Push, Pushed
<1>7. DOMAIN body' = DOMAIN body
  BY <1>6
<1>8. log' = RegisterActivation(RegisterMovement(log, 2), q, particles, Calculate(body'))
      /\ current' = current
  BY DEF Push
<1> HIDE DEF n, q, t, g
<1>9. body' = [body EXCEPT ![q] = g, ![p] = t]
  BY <1>2, <1>6
<1>10. Model!Gives(q, p, n)
  BY <1>1, <1>2, <1>3, <1>4, <1>5, <1>9, HandoverGives
<1>11. Model!TakesPart(q)
  BY <1>2, <1>7, <1>8, HandoverTakesPart
<1>12. occupied[q] = Nodes(body[q]) /\ DOMAIN occupied = particles
  BY <1>2 DEF occupied
<1> QED
  BY <1>2, <1>8, <1>10, <1>11, <1>12 DEF Model!Handover, Model!Alive

\* So is a pull, given by the particle that pulls.
LEMMA PullHandsOver ==
  ASSUME IInv, NEW p \in particles, NEW l \in Labels(body[p]), Pull(p, l)
  PROVE  Model!Handover(p)
<1> DEFINE n == OccupiedNodeIncidentToLabel(body[p], l)
           d == LabelToGlobalDir(body[p], l)
           q == NbrAtLabel(p, l)
           g == Released(body[p], n)
           t == PulledOnto(body[q], n, d)
<1>1. IsExpanded(body[p]) /\ NbrNode(body[p], l) \in DOMAIN particleMap
      /\ IsContracted(body[q])
  BY DEF Pull, CanPull, HasNbrAtLabel
<1>2. q \in particles /\ NbrNode(body[p], l) \in Nodes(body[q]) /\ q # p
  BY <1>1, Occupant DEF NbrAtLabel, IsExpanded
<1>3. body[p] \in Body /\ body[q] \in Body
  BY <1>2, BodyType
<1>4. n \in Nodes(body[p]) /\ n \in Node /\ d \in Dir
  BY <1>3, NbrNodeType, NodesType, LabelToGlobalDirType
<1>5. Nodes(g) = Nodes(body[p]) \ {n}
  BY <1>1, <1>3, <1>4, ReleasedBody
<1>6. NodeInDir(n, d) = body[q].head
  BY <1>1, <1>2, <1>3, NodesType DEF NbrNode
<1>7. Nodes(t) = {body[q].head, n}
  BY <1>1, <1>3, <1>4, <1>6, PulledBody
<1>8. Adjacent(body[q].head, n)
  <2>1. Adjacent(n, body[q].head)
    BY <1>4, <1>6 DEF Adjacent, Nbrs
  <2> QED
    BY <1>3, <1>4, <2>1, NodesType, AdjacentSymmetric
<1>9. body' = [body EXCEPT ![p] = g, ![q] = t]
  BY DEF Pull, Pulled
<1>10. DOMAIN body' = DOMAIN body
  BY <1>9
<1>11. log' = RegisterActivation(RegisterMovement(log, 2), q, particles, Calculate(body'))
       /\ current' = current
  BY DEF Pull
<1> HIDE DEF n, d, q, g, t
<1>12. Model!Gives(p, q, n)
  BY <1>1, <1>2, <1>4, <1>5, <1>7, <1>8, <1>9, HandoverGives
<1>13. Model!TakesPart(q)
  BY <1>2, <1>10, <1>11, HandoverTakesPart
<1>14. occupied[p] = Nodes(body[p]) /\ DOMAIN occupied = particles
  BY DEF occupied
<1> QED
  BY <1>2, <1>4, <1>11, <1>12, <1>13, <1>14 DEF Model!Handover, Model!Alive

\* remove is the model's removal.
LEMMA RemoveRemoves ==
  ASSUME IInv, NEW p \in particles, Remove(p)
  PROVE  Model!Remove(p)
<1>1. /\ DOMAIN body' = particles \ {p}
      /\ \A q \in particles \ {p} : body'[q] = body[q]
  BY DEF Remove, Erase, particles
<1>2. DOMAIN occupied = particles /\ \A q \in particles : occupied[q] = Nodes(body[q])
  BY DEF occupied
<1>3. occupied' = [q \in particles \ {p} |-> occupied[q]]
  BY <1>1, <1>2 DEF occupied, particles
<1> DEFINE left == log.activated \ {p}
<1>4. log' = [log EXCEPT !.activated = left] /\ log \in Log
  BY DEF Remove, IInv, TypeOK
<1> HIDE DEF left
<1>5. log'.activated = left /\ log'.rounds = log.rounds
  BY <1>4 DEF Log
<1>6. waiting' = waiting \ {p}
  BY <1>1, <1>5 DEF waiting, particles, left
<1> QED
  BY <1>2, <1>3, <1>5, <1>6 DEF Remove, Model!Remove, Model!Alive

\* insert puts a particle on free nodes and into the current round.
LEMMA InsertInserts ==
  ASSUME IInv, NEW p \in Particle, NEW b \in NewBody, Insert(p, b)
  PROVE  Model!Insert(p)
<1>1. b \in Body
  BY RegionAssumption, CompassAssumption DEF NewBody, Body
<1>2. /\ DOMAIN body' = particles \cup {p}
      /\ body'[p] = b
      /\ \A q \in particles : body'[q] = body[q]
      /\ p \notin particles
  BY DEF Insert, Put, particles
<1>3. DOMAIN occupied = particles /\ \A q \in particles : occupied[q] = Nodes(body[q])
  BY DEF occupied
<1>4. occupied' = [q \in particles \cup {p} |-> IF q = p THEN Nodes(b) ELSE occupied[q]]
  BY <1>2, <1>3 DEF occupied, particles
<1>5. waiting' = waiting \cup {p}
  BY <1>2 DEF Insert, waiting, particles, IInv, ActivatedAlive
<1> DEFINE n == b.head
           spots == {{n}} \cup {{n, m} : m \in {k \in Model!Nbrs(n) : Model!Free(k)}}
<1>6. n \in Region
  BY DEF NewBody
<1>7. Model!Free(n)
  BY FreeNode DEF Insert
<1>8. Nodes(b) \in spots
  <2>1. CASE IsContracted(b)
    BY <1>1, <2>1, BodyNodes
  <2>2. CASE IsExpanded(b)
    <3>1. TailNode(b) \in Model!Nbrs(n) /\ Nodes(b) = {n, TailNode(b)}
      BY <1>1, <2>2, BodyNodes, SameLattice
    <3>2. Model!Free(TailNode(b))
      BY <2>2, FreeNode DEF Insert
    <3> QED
      BY <3>1, <3>2
  <2> QED
    BY <2>1, <2>2 DEF IsExpanded
<1> HIDE DEF n
<1>9. \E S \in spots : occupied'
        = [q \in particles \cup {p} |-> IF q = p THEN S ELSE occupied[q]]
  BY <1>4, <1>8
<1>10. log' = log /\ current' = current
  BY DEF Insert
<1> QED
  BY <1>2, <1>3, <1>5, <1>6, <1>7, <1>9, <1>10 DEF Model!Insert, Model!Alive

\* An activation is the model's.
LEMMA ActivateActivates ==
  ASSUME IInv, NEW p \in particles, Activate(p)
  PROVE  Model!Activate(p)
<1>1. Calculate(body) \in Nat
  BY CalculateType DEF IInv, TypeOK, particles
<1>2. particles' = particles /\ occupied' = occupied
  BY DEF Activate, particles, occupied
<1>3. log \in Log /\ log' = RegisterActivation(log, p, particles, Calculate(body))
  BY DEF Activate, IInv, TypeOK
<1>4. Model!TakesPart(p)
  BY <1>1, <1>2, <1>3, RegistrationTakesPart
<1> QED
  BY <1>2, <1>4 DEF Activate, Model!Activate

\* Every step of the system is a step of the model or changes nothing it sees.
LEMMA ModelStep ==
  ASSUME IInv, [Next]_vars
  PROVE  [Model!Next]_Model!vars
<1>0. DOMAIN occupied = particles /\ Model!Alive = particles
  BY DEF occupied, Model!Alive
<1>1. ASSUME NEW p \in Particle, NEW b \in NewBody, Insert(p, b)
      PROVE  Model!Next
  BY <1>1, InsertInserts DEF Model!Next
<1>2. ASSUME NEW p \in particles, Activate(p)
      PROVE  Model!Next
  BY <1>0, <1>2, ActivateActivates DEF Model!Next
<1>3. ASSUME NEW n \in Region, ActivateParticleAt(n)
      PROVE  Model!Next
  BY <1>2, <1>3, Occupant DEF ActivateParticleAt
<1>4. ASSUME NEW p \in particles, current = p, Call(p)
      PROVE  Model!Next
  <2>1. ASSUME ContractHead(p) \/ ContractTail(p)
        PROVE  Model!Shrink(p)
    BY <2>1, ContractShrinks
  <2>2. ASSUME NEW l \in Labels(body[p]),
               Expand(p, l) \/ Push(p, l) \/ Pull(p, l) \/ Contract(p, l)
        PROVE  Model!Grow(p) \/ Model!Handover(p) \/ Model!Shrink(p)
    BY <2>1, <2>2, ExpandGrows, PushHandsOver, PullHandsOver DEF Contract
  <2>3. ASSUME Remove(p)
        PROVE  Model!Remove(p)
    BY <2>3, RemoveRemoves
  <2>4. Model!Grow(p) \/ Model!Shrink(p) \/ Model!Handover(p) \/ Model!Remove(p)
    BY <1>4, <2>1, <2>2, <2>3 DEF Call
  <2> QED
    BY <1>0, <1>4, <2>4 DEF Model!Next
<1>5. ASSUME Return
      PROVE  Model!Return
  BY <1>5 DEF Return, Model!Return, occupied, waiting, particles
<1>6. ASSUME UNCHANGED vars \/ \E n \in ObjectSite : InsertObject(n)
      PROVE  UNCHANGED Model!vars
  BY <1>6 DEF InsertObject, vars, Model!vars, occupied, waiting, particles
<1> QED
  BY <1>1, <1>2, <1>3, <1>4, <1>5, <1>6 DEF Next, Model!Next

\* The empty system is the model's.
LEMMA ModelInit == Init => Model!Init
<1> SUFFICES ASSUME Init PROVE Model!Init
  OBVIOUS
<1>1. particles = {} /\ occupied = << >>
  BY DEF Init, particles, occupied
<1>2. waiting = {}
  BY <1>1 DEF waiting
<1> QED
  BY <1>1, <1>2 DEF Init, NewLog, Model!Init

\* The system implements the amoebot model: labels, compasses, the map and the
\* container of activated particles change nothing about which nodes particles
\* can come to occupy and when a round ends.
THEOREM ModelImplemented == Spec => ImplementsModel
<1>1. Init => Model!Init
  BY ModelInit
<1>2. IInv /\ [Next]_vars => [Model!Next]_Model!vars
  BY ModelStep
<1> QED
  BY <1>1, <1>2, InvCorrect, PTL DEF Spec, ImplementsModel, Model!Spec

-----------------------------------------------------------------------------
(* The ports of one body                                                   *)

\* A port is found again by the node and the direction it reaches.
LEMMA FoundAgain ==
  ASSUME NEW b \in Body, NEW l \in Labels(b)
  PROVE  LabelOfNbrNodeInGlobalDir(b, NbrNode(b, l), LabelToGlobalDir(b, l)) = l
<1>1. ASSUME NEW k \in Labels(b), LabelToGlobalDir(b, k) = LabelToGlobalDir(b, l),
             NbrNode(b, k) = NbrNode(b, l)
      PROVE  k = l
  <2>1. OccupiedNodeIncidentToLabel(b, k) \in Node
        /\ OccupiedNodeIncidentToLabel(b, l) \in Node
    BY NbrNodeType, NodesType
  <2>2. OccupiedNodeIncidentToLabel(b, k) = OccupiedNodeIncidentToLabel(b, l)
    BY <1>1, <2>1, LabelToGlobalDirType, StepFrom DEF NbrNode
  <2> QED
    BY <1>1, <2>2, PortUnique
<1> QED
  BY <1>1 DEF LabelOfNbrNodeInGlobalDir

\* So has the tail.
LEMMA TailLabelOf ==
  ASSUME NEW b \in Body, IsExpanded(b), NEW d \in Dir, Opposite(d) # TailDir(b)
  PROVE  /\ DirToTailLabel(b, d) \in TailLabels(b)
         /\ LabelToDir(b, DirToTailLabel(b, d)) = d
         /\ \A l \in TailLabels(b) : LabelToDir(b, l) = d => l = DirToTailLabel(b, d)
<1> DEFINE t == TailDir(b)
<1>1. /\ t \in Dir /\ TailLabels(b) = labels[Opposite(t) + 1]
      /\ \A i : LabelToDir(b, i) = labelDir[t + 1][i + 1]
  BY ExpandedFrame DEF TailLabels
<1>2. d # Opposite(t)
  BY <1>1, OppositeType
<1>3. \E l \in TailLabels(b) : LabelToDir(b, l) = d
  BY <1>1, <1>2, TailPorts
<1>4. \A k, l \in TailLabels(b) : LabelToDir(b, k) = LabelToDir(b, l) => k = l
  BY <1>1, TailPorts
<1> QED
  BY <1>3, <1>4 DEF DirToTailLabel

\* The contraction labels.
LEMMA ContractionLabels ==
  ASSUME NEW b \in Body, IsExpanded(b)
  PROVE  /\ NbrNode(b, HeadContractionLabel(b)) = NodeInDir(TailNode(b), b.globalTailDir)
         /\ NbrNode(b, TailContractionLabel(b))
              = NodeInDir(b.head, Opposite(b.globalTailDir))
         /\ HeadContractionLabel(b) # TailContractionLabel(b)
<1> DEFINE t == TailDir(b)
           h == HeadContractionLabel(b)
           l == TailContractionLabel(b)
<1>1. /\ t \in Dir /\ HeadLabels(b) = labels[t + 1]
      /\ LocalToGlobalDir(b, t) = b.globalTailDir
      /\ \A i : LabelToDir(b, i) = labelDir[t + 1][i + 1]
  BY ExpandedFrame
<1>2. /\ h \notin HeadLabels(b) /\ LabelToDir(b, h) = t
      /\ l \in HeadLabels(b) /\ LabelToDir(b, l) = Opposite(t)
  BY <1>1, ContractPorts DEF HeadContractionLabel, TailContractionLabel
<1>3. LocalToGlobalDir(b, Opposite(t)) = Opposite(b.globalTailDir)
  BY <1>1, CompassInverse
<1> QED
  BY <1>1, <1>2, <1>3 DEF NbrNode, OccupiedNodeIncidentToLabel, LabelToGlobalDir

\* All the tables of a body.
LEMMA TablesRight ==
  ASSUME Bodies \subseteq Body
  PROVE  PortTables
<1>1. PortsCircleBody
  <2> SUFFICES ASSUME NEW b \in Bodies
               PROVE  /\ {NbrNode(b, l) : l \in Labels(b)} = NbrsOfSet(Nodes(b))
                      /\ \A l \in Labels(b) :
                           LET m == (l + 1) % LabelLimit(b)
                           IN  IF OccupiedNodeIncidentToLabel(b, l)
                                    = OccupiedNodeIncidentToLabel(b, m)
                               THEN LabelToGlobalDir(b, m) = (LabelToGlobalDir(b, l) + 1) % 6
                               ELSE NbrNode(b, m) = NbrNode(b, l)
    BY DEF PortsCircleBody
  <2>1. {NbrNode(b, l) : l \in Labels(b)} = NbrsOfSet(Nodes(b))
    BY NextToPort, PortNextTo
  <2> QED
    BY <2>1, LabelsCircle
<1>2. UniqueLabelsExact
  <2> SUFFICES ASSUME NEW b \in Bodies
               PROVE  /\ {NbrNode(b, l) : l \in UniqueLabels(b)} = NbrsOfSet(Nodes(b))
                      /\ \A k, l \in UniqueLabels(b) :
                           NbrNode(b, k) = NbrNode(b, l) => k = l
    BY DEF UniqueLabelsExact
  <2>1. UniqueLabels(b) \subseteq Labels(b)
    BY DEF UniqueLabels
  <2>2. \A m \in NbrsOfSet(Nodes(b)) : \E u \in UniqueLabels(b) : NbrNode(b, u) = m
    BY NextToPort, UniqueReaches
  <2>3. {NbrNode(b, l) : l \in UniqueLabels(b)} = NbrsOfSet(Nodes(b))
    BY <2>1, <2>2, PortNextTo
  <2> QED
    BY <2>3, UniqueApart
<1>3. DirLabelInverse
  <2>1. ASSUME NEW b \in Body, NEW d \in Dir, d # TailDir(b)
        PROVE  /\ \E l \in HeadLabels(b) : LabelToDir(b, l) = d
               /\ NbrNode(b, DirToHeadLabel(b, d))
                    = NodeInDir(b.head, LocalToGlobalDir(b, d))
    BY <2>1, HeadLabelOf DEF NbrNode, OccupiedNodeIncidentToLabel, LabelToGlobalDir
  <2>2. ASSUME NEW b \in Body, NEW d \in Dir, IsExpanded(b), Opposite(d) # TailDir(b)
        PROVE  /\ \E l \in TailLabels(b) : LabelToDir(b, l) = d
               /\ NbrNode(b, DirToTailLabel(b, d))
                    = NodeInDir(TailNode(b), LocalToGlobalDir(b, d))
    <3> DEFINE l == DirToTailLabel(b, d)
    <3>1. l \in TailLabels(b) /\ LabelToDir(b, l) = d
      BY <2>2, TailLabelOf
    <3>2. OccupiedNodeIncidentToLabel(b, l) = TailNode(b)
      BY <2>2, <3>1, ExpandedFrame DEF OccupiedNodeIncidentToLabel
    <3> QED
      BY <3>1, <3>2 DEF NbrNode, LabelToGlobalDir
  <2> QED
    BY <2>1, <2>2, FoundAgain DEF DirLabelInverse
<1>4. ContractionInLine
  <2>1. ASSUME NEW b \in Body, IsExpanded(b)
        PROVE  /\ Nodes(Contracted(b, HeadContractionLabel(b))) = {TailNode(b)}
               /\ Nodes(Contracted(b, TailContractionLabel(b))) = {b.head}
    BY <2>1, ContractionLabels, ContractedBody DEF Contracted
  <2> QED
    BY <2>1, ContractionLabels DEF ContractionInLine
<1> QED
  BY <1>1, <1>2, <1>3, <1>4 DEF PortTables

\* The frame a contracted body will have once it has expanded.
LEMMA ExpandedTail ==
  ASSUME NEW b \in Body, IsContracted(b), NEW e \in Dir
  PROVE  /\ Expanded(b, e) \in Body
         /\ IsExpanded(Expanded(b, e))
         /\ TailDir(Expanded(b, e)) = Opposite(e)
         /\ Opposite(e) \in Dir
<1> DEFINE x == Expanded(b, e)
           d == LocalToGlobalDir(b, e)
<1>1. x \in Body /\ IsExpanded(x)
  BY ContractedFrame, ExpandedBody
<1>2. x.globalTailDir = Opposite(d) /\ x.orientation = b.orientation
  BY DEF Expanded, Body
<1>3. TailDir(x) = GlobalToLocalDir(b, Opposite(d))
  BY <1>1, <1>2 DEF TailDir, IsExpanded, GlobalToLocalDir
<1>4. GlobalToLocalDir(b, Opposite(d)) = Opposite(e)
  BY CompassType, CompassInverse
<1> QED
  BY <1>1, <1>3, <1>4, OppositeType

\* A contracted particle predicts its ports correctly.
LEMMA PredictionsRight ==
  ASSUME Bodies \subseteq Body
  PROVE  PredictionRight
<1> SUFFICES ASSUME NEW b \in Body, IsContracted(b), NEW e \in Dir
             PROVE  LET x == Expanded(b, e)
                    IN  /\ HeadLabelsAfterExpansion(e) = HeadLabels(x)
                        /\ TailLabelsAfterExpansion(e) = TailLabels(x)
                        /\ HeadContractionLabelAfterExpansion(e) = HeadContractionLabel(x)
                        /\ TailContractionLabelAfterExpansion(e) = TailContractionLabel(x)
                        /\ \A l \in Labels(x) :
                             LabelToDirAfterExpansion(l, e) = LabelToDir(x, l)
                        /\ \A d \in Dir :
                             /\ d # TailDir(x) =>
                                  DirToHeadLabelAfterExpansion(d, e) = DirToHeadLabel(x, d)
                             /\ Opposite(d) # TailDir(x) =>
                                  DirToTailLabelAfterExpansion(d, e) = DirToTailLabel(x, d)
  BY DEF PredictionRight
<1> DEFINE x == Expanded(b, e)
<1>1. x \in Body /\ IsExpanded(x) /\ TailDir(x) = Opposite(e)
  BY ExpandedTail
<1> HIDE DEF x
<1>2. /\ HeadLabelsAfterExpansion(e) = HeadLabels(x)
      /\ TailLabelsAfterExpansion(e) = TailLabels(x)
      /\ HeadContractionLabelAfterExpansion(e) = HeadContractionLabel(x)
      /\ \A l : LabelToDirAfterExpansion(l, e) = LabelToDir(x, l)
  BY <1>1 DEF HeadLabelsAfterExpansion, HeadLabels, TailLabelsAfterExpansion, TailLabels,
              HeadContractionLabelAfterExpansion, HeadContractionLabel,
              LabelToDirAfterExpansion, LabelToDir, IsExpanded
<1>3. TailContractionLabelAfterExpansion(e) = TailContractionLabel(x)
  BY <1>1, OppositeType DEF TailContractionLabelAfterExpansion, TailContractionLabel
<1>4. ASSUME NEW d \in Dir, d # TailDir(x)
      PROVE  DirToHeadLabelAfterExpansion(d, e) = DirToHeadLabel(x, d)
  <2> DEFINE H == HeadLabels(x)
             Points(l) == LabelToDirAfterExpansion(l, e) = d
  <2>1. DirToHeadLabel(x, d) \in H /\ Points(DirToHeadLabel(x, d))
        /\ \A l \in H : Points(l) => l = DirToHeadLabel(x, d)
    BY <1>1, <1>2, <1>4, HeadLabelOf
  <2>2. DirToHeadLabelAfterExpansion(d, e) = CHOOSE l \in H : Points(l)
    BY <1>2 DEF DirToHeadLabelAfterExpansion
  <2> HIDE DEF Points, H
  <2> QED
    BY <2>1, <2>2
<1>5. ASSUME NEW d \in Dir, Opposite(d) # TailDir(x)
      PROVE  DirToTailLabelAfterExpansion(d, e) = DirToTailLabel(x, d)
  <2> DEFINE T == TailLabels(x)
             Points(l) == LabelToDirAfterExpansion(l, e) = d
  <2>1. DirToTailLabel(x, d) \in T /\ Points(DirToTailLabel(x, d))
        /\ \A l \in T : Points(l) => l = DirToTailLabel(x, d)
    BY <1>1, <1>2, <1>5, TailLabelOf
  <2>2. DirToTailLabelAfterExpansion(d, e) = CHOOSE l \in T : Points(l)
    BY <1>2 DEF DirToTailLabelAfterExpansion
  <2> HIDE DEF Points, T
  <2> QED
    BY <2>1, <2>2
<1> QED
  BY <1>2, <1>3, <1>4, <1>5 DEF x

-----------------------------------------------------------------------------
(* Two bodies                                                              *)

\* A port that reaches another body is faced by one of that body's ports.
LEMMA FacingPort ==
  ASSUME NEW b \in Body, NEW nb \in Body, Nodes(b) \cap Nodes(nb) = {},
         NEW l \in Labels(b), NbrNode(b, l) \in Nodes(nb)
  PROVE  \E k \in Labels(nb) :
           /\ OccupiedNodeIncidentToLabel(nb, k) = NbrNode(b, l)
           /\ LabelToGlobalDir(nb, k) = Opposite(LabelToGlobalDir(b, l))
           /\ NbrNode(nb, k) = OccupiedNodeIncidentToLabel(b, l)
<1> DEFINE n == OccupiedNodeIncidentToLabel(b, l)
           d == LabelToGlobalDir(b, l)
<1>1. n \in Nodes(b) /\ n \in Node /\ d \in Dir /\ Opposite(d) \in Dir
  BY NbrNodeType, NodesType, LabelToGlobalDirType, OppositeType
<1>2. NbrNode(b, l) = NodeInDir(n, d) /\ NodeInDir(NbrNode(b, l), Opposite(d)) = n
  BY <1>1, NodeInDirBack DEF NbrNode
<1>3. n \notin Nodes(nb)
  BY <1>1
<1> HIDE DEF n, d
<1>4. PICK k \in Labels(nb) : /\ OccupiedNodeIncidentToLabel(nb, k) = NbrNode(b, l)
                              /\ LabelToGlobalDir(nb, k) = Opposite(d)
  BY <1>1, <1>2, <1>3, PortExists
<1>5. NbrNode(nb, k) = n
  BY <1>2, <1>4 DEF NbrNode
<1> QED
  BY <1>4, <1>5 DEF n, d

\* A port that points at a body reaches one of its nodes.
LEMMA PointsAtNodes ==
  ASSUME NEW b \in Body, NEW nb \in Body, NEW l
  PROVE  PointsAtMe(nb, b, l) <=> NbrNode(b, l) \in Nodes(nb)
<1>1. CASE IsExpanded(nb)
  BY <1>1, NodesType DEF PointsAtMe, PointsAtMyHead, PointsAtMyTail
<1>2. CASE IsContracted(nb)
  BY <1>2, NodesType DEF PointsAtMe, PointsAtMyHead, IsExpanded
<1> QED
  BY <1>1, <1>2 DEF IsExpanded

\* Neighbours see each other.
LEMMA FaceEachOther == IInv => PortsFaceEachOther
<1> SUFFICES ASSUME IInv, NEW p \in particles, NEW q \in particles,
                    NEW b, b = body[p], NEW nb, nb = body[q],
                    NEW l \in Labels(b), p # q, PointsAtMe(nb, b, l)
             PROVE  \E k \in Labels(nb) :
                      /\ PointsAtMe(b, nb, k)
                      /\ NbrNode(nb, k) = OccupiedNodeIncidentToLabel(b, l)
                      /\ NbrDirToDir(b, nb, LabelToDir(nb, k)) = Opposite(LabelToDir(b, l))
                      /\ DirToNbrDir(b, nb, LabelToDir(b, l)) = Opposite(LabelToDir(nb, k))
                      /\ CASE HasHeadAtLabel(p, l) -> PointsAtMyHead(nb, b, l)
                           [] HasTailAtLabel(p, l) -> PointsAtMyTail(nb, b, l)
                           [] OTHER -> FALSE
  BY DEF PortsFaceEachOther
<1> DEFINE m == NbrNode(b, l)
<1>1. b \in Body /\ nb \in Body /\ Nodes(b) \cap Nodes(nb) = {}
  BY BodyType, Disjoint
<1>2. m \in Nodes(nb)
  BY <1>1, PointsAtNodes
<1>3. PICK k \in Labels(nb) : /\ OccupiedNodeIncidentToLabel(nb, k) = m
                              /\ LabelToGlobalDir(nb, k) = Opposite(LabelToGlobalDir(b, l))
                              /\ NbrNode(nb, k) = OccupiedNodeIncidentToLabel(b, l)
  BY <1>1, <1>2, FacingPort
<1>4. PointsAtMe(b, nb, k)
  BY <1>1, <1>3, NbrNodeType, PointsAtNodes
<1>5. /\ LabelToDir(b, l) \in Dir /\ LabelToDir(nb, k) \in Dir
      /\ LabelToGlobalDir(b, l) = LocalToGlobalDir(b, LabelToDir(b, l))
      /\ LabelToGlobalDir(nb, k) = LocalToGlobalDir(nb, LabelToDir(nb, k))
      /\ LabelToGlobalDir(b, l) \in Dir /\ LabelToGlobalDir(nb, k) \in Dir
  BY <1>1, LabelToDirType, LabelToGlobalDirType DEF LabelToGlobalDir
<1>6. NbrDirToDir(b, nb, LabelToDir(nb, k)) = Opposite(LabelToDir(b, l))
  <2>1. GlobalToLocalDir(b, Opposite(LabelToGlobalDir(b, l)))
          = Opposite(GlobalToLocalDir(b, LabelToGlobalDir(b, l)))
    BY <1>1, <1>5, CompassInverse
  <2>2. GlobalToLocalDir(b, LabelToGlobalDir(b, l)) = LabelToDir(b, l)
    BY <1>1, <1>5, CompassInverse
  <2> QED
    BY <1>3, <1>5, <2>1, <2>2 DEF NbrDirToDir
<1>7. DirToNbrDir(b, nb, LabelToDir(b, l)) = Opposite(LabelToDir(nb, k))
  <2>1. LabelToGlobalDir(b, l) = Opposite(LabelToGlobalDir(nb, k))
    BY <1>3, <1>5, OppositeType
  <2>2. GlobalToLocalDir(nb, Opposite(LabelToGlobalDir(nb, k)))
          = Opposite(GlobalToLocalDir(nb, LabelToGlobalDir(nb, k)))
    BY <1>1, <1>5, CompassInverse
  <2>3. GlobalToLocalDir(nb, LabelToGlobalDir(nb, k)) = LabelToDir(nb, k)
    BY <1>1, <1>5, CompassInverse
  <2> QED
    BY <1>5, <2>1, <2>2, <2>3 DEF DirToNbrDir
<1>8. HasNbrAtLabel(p, l) /\ NbrAtLabel(p, l) = q
  BY <1>2 DEF IInv, MapConsistent, HasNbrAtLabel, NbrAtLabel
<1>9. ( CASE HasHeadAtLabel(p, l) -> PointsAtMyHead(nb, b, l)
          [] HasTailAtLabel(p, l) -> PointsAtMyTail(nb, b, l)
          [] OTHER -> FALSE )
  <2>1. HasHeadAtLabel(p, l) <=> PointsAtMyHead(nb, b, l)
    BY <1>8 DEF HasHeadAtLabel, PointsAtMyHead
  <2>2. HasTailAtLabel(p, l) => PointsAtMyTail(nb, b, l)
    BY <1>8 DEF HasTailAtLabel, PointsAtMyTail
  <2>3. HasHeadAtLabel(p, l) \/ HasTailAtLabel(p, l)
    <3>1. CASE IsExpanded(nb)
      BY <1>1, <1>2, <1>8, <3>1, NodesType DEF HasHeadAtLabel, HasTailAtLabel
    <3>2. CASE IsContracted(nb)
      BY <1>1, <1>2, <1>8, <3>2, NodesType DEF HasHeadAtLabel
    <3> QED
      BY <3>1, <3>2 DEF IsExpanded
  <2> QED
    BY <2>1, <2>2, <2>3
<1> QED
  BY <1>3, <1>4, <1>6, <1>7, <1>9

\* A push and the pull of the neighbour that faces it have one outcome.
LEMMA HandoversAgree == IInv => HandoverSymmetric
<1> SUFFICES ASSUME IInv, NEW p \in particles, NEW l \in Labels(body[p]), CanPush(p, l),
                    NEW q, q = NbrAtLabel(p, l)
             PROVE  /\ \E k \in Labels(body[q]) : CanPull(q, k) /\ NbrAtLabel(q, k) = p
                    /\ \A k \in Labels(body[q]) :
                         ( /\ OccupiedNodeIncidentToLabel(body[q], k) = NbrNode(body[p], l)
                           /\ NbrNode(body[q], k) = body[p].head )
                         => Pulled(q, k) = Pushed(p, l)
  BY DEF HandoverSymmetric
<1> DEFINE n == NbrNode(body[p], l)
           d == LabelToGlobalDir(body[p], l)
<1>1. IsContracted(body[p]) /\ n \in DOMAIN particleMap /\ IsExpanded(body[q])
  BY DEF CanPush, HasNbrAtLabel
<1>2. q \in particles /\ n \in Nodes(body[q]) /\ q # p
  BY <1>1, Occupant DEF NbrAtLabel, IsExpanded
<1>3. body[p] \in Body /\ body[q] \in Body /\ Nodes(body[p]) \cap Nodes(body[q]) = {}
  BY <1>2, BodyType, Disjoint
<1>4. OccupiedNodeIncidentToLabel(body[p], l) = body[p].head
  BY <1>1, <1>3, ContractedFrame
<1>5. body[p].head \in DOMAIN particleMap /\ particleMap[body[p].head] = p
  BY <1>3, NodesType DEF IInv, MapConsistent
<1>6. \A k \in Labels(body[q]) : NbrNode(body[q], k) = body[p].head
        => CanPull(q, k) /\ NbrAtLabel(q, k) = p
  BY <1>1, <1>5 DEF CanPull, HasNbrAtLabel, NbrAtLabel
<1>7. \E k \in Labels(body[q]) : NbrNode(body[q], k) = body[p].head
  BY <1>2, <1>3, <1>4, FacingPort
<1>8. ASSUME NEW k \in Labels(body[q]),
             OccupiedNodeIncidentToLabel(body[q], k) = n,
             NbrNode(body[q], k) = body[p].head
      PROVE  Pulled(q, k) = Pushed(p, l)
  <2> DEFINE e == LabelToGlobalDir(body[q], k)
  <2>1. /\ d \in Dir /\ e \in Dir /\ n \in Node /\ body[p].head \in Node
        /\ Opposite(d) \in Dir
    BY <1>3, LabelToGlobalDirType, NbrNodeType, NodesType, OppositeType
  <2>2. n = NodeInDir(body[p].head, d) /\ NodeInDir(n, e) = body[p].head
    BY <1>4, <1>8 DEF NbrNode
  <2>3. e = Opposite(d)
    BY <2>1, <2>2, NodeInDirBack, NodeInDirInjective
  <2>4. Expanded(body[p], l) = PulledOnto(body[p], n, e)
    <3>1. d = LocalToGlobalDir(body[p], l)
      BY <1>1, <1>3, ContractedFrame
    <3> QED
      BY <2>2, <2>3, <3>1 DEF Expanded, PulledOnto
  <2>5. Pulled(q, k) = [body EXCEPT ![q] = Released(body[q], n),
                                    ![p] = PulledOnto(body[p], n, e)]
    BY <1>6, <1>8 DEF Pulled
  <2>6. Pushed(p, l) = [body EXCEPT ![p] = Expanded(body[p], l),
                                    ![q] = Released(body[q], n)]
    BY DEF Pushed
  <2> DEFINE g == Released(body[q], n)
             t == PulledOnto(body[p], n, e)
  <2> HIDE DEF g, t
  <2>7. [body EXCEPT ![q] = g, ![p] = t] = [body EXCEPT ![p] = t, ![q] = g]
    BY <1>2
  <2> QED
    BY <2>4, <2>5, <2>6, <2>7 DEF g, t
<1> QED
  BY <1>6, <1>7, <1>8

-----------------------------------------------------------------------------
\* The bodies in a system are bodies.
LEMMA BodiesType == IInv => Bodies \subseteq Body
  BY BodyType DEF Bodies

\* The label tables are right for every body a system can hold: labels circle
\* the body, unique labels miss and repeat no neighbour, labels and directions
\* translate into each other, and contraction labels are in line.
THEOREM PortTablesCorrect == Spec => []PortTables
<1>1. IInv => PortTables
  BY BodiesType, TablesRight
<1> QED
  BY <1>1, InvCorrect, PTL

\* What a contracted particle predicts about its ports holds once it has
\* expanded.
THEOREM PredictionCorrect == Spec => []PredictionRight
<1>1. IInv => PredictionRight
  BY BodiesType, PredictionsRight
<1> QED
  BY <1>1, InvCorrect, PTL

\* Neighbours with different compasses agree about the ports between them, and
\* a push has the outcome of the pull it stands for.
THEOREM PairsCorrect == Spec => []PairsAgree
<1>1. IInv => PairsAgree
  BY FaceEachOther, HandoversAgree DEF PairsAgree
<1> QED
  BY <1>1, InvCorrect, PTL
=============================================================================
