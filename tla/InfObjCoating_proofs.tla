------------------------- MODULE InfObjCoating_proofs -------------------------
(***************************************************************************)
(* InfObjCoating, proved for every object and placement, all compasses and *)
(* every order of activations: the leaders never leave the surface, and    *)
(* the followers' pointers remain a forest through every handover.         *)
(***************************************************************************)
EXTENDS InfObjCoating, Geometry_proofs

Followers == InState({"Follower"})
Active    == InState({"Leader", "Follower"})

\* The particles keep off the objects, and none is walled in by them.
OffObjects == \A p \in particles : Nodes(body[p]) \cap objects = {}
NotWalled  == \A p \in particles : ~ (Nbrs(body[p].head) \subseteq objects)
AtObject   == \A p \in InState({"Leader"}) : Nbrs(body[p].head) \cap objects # {}

\* The node a particle's pointer leads to, and who is there.
Target(p) == Pointed(body[p], moveDir[p])
Up == [q \in particles |-> ParticleAt(Target(q))]

\* A follower's pointer leaves its body and leads to an active particle.
Led ==
  \A q \in Followers : /\ moveDir[q] \in Dir /\ moveDir[q] # TailDir(body[q])
                       /\ \E r \in Active : Target(q) \in Nodes(body[r])

Rooted == ForestOf(Followers, Up)

IInv ==
  /\ TypeOK
  /\ ApartIn(body) /\ OffObjects /\ NotWalled
  /\ AtObject
  /\ Led /\ Rooted

-----------------------------------------------------------------------------
(* Who is where                                                            *)

LEMMA ParticleFound ==
  ASSUME ApartIn(body), NEW r \in particles, NEW n \in Nodes(body[r])
  PROVE  ParticleAt(n) = r
  BY FoundOn DEF particles, ParticleAt

Finds == \A q, r \in particles : Target(q) \in Nodes(body[r]) => Up[q] = r

LEMMA UpFinds == ApartIn(body) => Finds
  BY ParticleFound DEF Finds, Up

LEMMA UpNext ==
  ASSUME ApartIn(body'), NEW q \in particles', NEW r \in particles',
         Target(q)' \in Nodes(body'[r])
  PROVE  Up'[q] = r
<1>1. (ApartIn(body) => Finds)'
  BY UpFinds, PTL
<1> QED
  BY <1>1 DEF Finds

\* A follower points at another particle.
LEMMA FollowerPoints ==
  ASSUME IInv, NEW q \in Followers
  PROVE  /\ q \in particles /\ body[q] \in Body /\ moveDir[q] \in Dir
         /\ Target(q) \notin Nodes(body[q])
         /\ Up[q] \in Active /\ Up[q] \in particles /\ Up[q] # q
         /\ Target(q) \in Nodes(body[Up[q]])
         /\ NbrNode(body[q], ParentLabel(q)) = Target(q)
         /\ \E l \in HeadLabels(body[q]) : LabelToDir(body[q], l) = moveDir[q]
<1>1. q \in particles /\ body[q] \in Body /\ moveDir[q] \in Dir /\ moveDir[q] # TailDir(body[q])
  BY DEF IInv, TypeOK, Led, Followers, InState
<1>2. PICK r \in Active : Target(q) \in Nodes(body[r])
  BY DEF IInv, Led
<1>3. r \in particles
  BY DEF Active, InState
<1>4. Up[q] = r
  BY <1>1, <1>2, <1>3, UpFinds DEF IInv, Finds
<1>5. /\ Target(q) \notin Nodes(body[q])
      /\ NbrNode(body[q], ParentLabel(q)) = Target(q)
      /\ \E l \in HeadLabels(body[q]) : LabelToDir(body[q], l) = moveDir[q]
  BY <1>1, PointerPort DEF Target, ParentLabel
<1> QED
  BY <1>1, <1>2, <1>3, <1>4, <1>5

\* What the inductive invariant says of the pointers is what the runs check.
LEMMA InvCorrect == IInv => ForestOnSurface
<1> SUFFICES ASSUME IInv PROVE ForestOnSurface
  OBVIOUS
<1>1. LeadersOnSurface
  BY DEF IInv, LeadersOnSurface, AtObject, NotWalled, InState
<1>2. ASSUME NEW q \in Followers
      PROVE  /\ \E l \in HeadLabels(body[q]) : LabelToDir(body[q], l) = moveDir[q]
             /\ ParentNode(q) \in Occupied
             /\ ParticleAt(ParentNode(q)) \in Active
             /\ ParticleAt(ParentNode(q)) = Up[q]
  BY FollowerPoints DEF ParentNode, Occupied, Up
<1>3. ASSUME NEW C \in SUBSET Followers, C # {}
      PROVE  \E q \in C : ParticleAt(ParentNode(q)) \notin C
  <2>1. PICK q \in C : Up[q] \notin C
    BY <1>3 DEF IInv, Rooted, ForestOf
  <2> QED
    BY <1>2, <2>1
<1>4. FollowersLed
  BY <1>2, <1>3 DEF FollowersLed, Followers, Active
<1> QED
  BY <1>1, <1>4 DEF ForestOnSurface, IInv

-----------------------------------------------------------------------------
(* The surface                                                             *)

\* nextSurfaceDir of a particle next to an object: a free direction, and the
\* object goes on beside the node it leads to.
LEMMA SurfaceDir ==
  ASSUME IInv, NEW p \in particles, IsContracted(body[p]),
         Nbrs(body[p].head) \cap objects # {}
  PROVE  /\ NextSurfaceDir(p) \in Dir
         /\ NbrNode(body[p], NextSurfaceDir(p)) \in Node
         /\ NbrNode(body[p], NextSurfaceDir(p)) \notin objects
         /\ Nbrs(NbrNode(body[p], NextSurfaceDir(p))) \cap objects # {}
<1> DEFINE L == {l \in Dir : NbrNode(body[p], l) \in objects}
<1>1. body[p] \in Body /\ ~ (Nbrs(body[p].head) \subseteq objects)
  BY DEF IInv, TypeOK, NotWalled
<1>2. NextSurfaceDir(p) = FreeClockwise[L]
  BY DEF NextSurfaceDir, HasObjectAtLabel
<1>3. /\ FreeClockwise[L] \in Dir
      /\ NbrNode(body[p], FreeClockwise[L]) \in Node
      /\ NbrNode(body[p], FreeClockwise[L]) \notin objects
      /\ Nbrs(NbrNode(body[p], FreeClockwise[L])) \cap objects # {}
  BY <1>1, SurfaceWalk
<1> QED
  BY <1>2, <1>3

\* hasObjectNbr of a contracted particle.
LEMMA ObjectNbr ==
  ASSUME NEW p \in particles, body[p] \in Body, IsContracted(body[p]), HasObjectNbr(p)
  PROVE  Nbrs(body[p].head) \cap objects # {}
<1>1. PICK l \in Labels(body[p]) : NbrNode(body[p], l) \in objects
  BY DEF HasObjectNbr, HasObjectAtLabel
<1> QED
  BY <1>1, ContractedPorts

-----------------------------------------------------------------------------
(* The start                                                               *)

LEMMA InvInit == Init => IInv
<1> SUFFICES ASSUME Init PROVE IInv
  OBVIOUS
<1>1. PICK b \in Builds, compass \in Compasses :
        /\ objects = b[1]
        /\ body = [p \in 1 .. Len(b[2]) |-> [head |-> b[2][p], globalTailDir |-> -1,
                                             orientation |-> compass[p]]]
        /\ state = [p \in 1 .. Len(b[2]) |-> "Inactive"]
        /\ moveDir = [p \in 1 .. Len(b[2]) |-> -1]
        /\ complaints = [p \in 1 .. Len(b[2]) |-> 0]
  BY DEF Init
<1> DEFINE ids == 1 .. Len(b[2])
<1>2. /\ objects \subseteq Node
      /\ \A p \in ids : /\ b[2][p] \in Node \ objects
                        /\ \A q \in ids : b[2][p] = b[2][q] => p = q
                        /\ ~ (Nbrs(b[2][p]) \subseteq objects)
                        /\ compass[p] \in Dir
  BY <1>1, BuildsAssumption
<1>3. particles = ids
  BY <1>1 DEF particles
<1> HIDE DEF ids
<1>4. \A p \in particles : /\ body[p] \in Body
                           /\ body[p].head = b[2][p]
                           /\ IsContracted(body[p])
  BY <1>1, <1>2, <1>3 DEF Body, IsContracted, ids
<1>5. \A p \in particles : Nodes(body[p]) = {b[2][p]}
  BY <1>4 DEF Nodes
<1>6. body \in [particles -> Body]
  BY <1>1, <1>3, <1>4 DEF ids
<1>7. TypeOK
  <2>1. state \in [particles -> States]
    BY <1>1, <1>3 DEF States, ids
  <2>2. moveDir \in [particles -> {-1} \cup Dir] /\ complaints \in [particles -> 0..1]
    BY <1>1, <1>3 DEF ids
  <2> QED
    BY <1>2, <1>6, <2>1, <2>2 DEF TypeOK
<1>8. ApartIn(body) /\ OffObjects /\ NotWalled
  BY <1>2, <1>3, <1>4, <1>5 DEF ApartIn, OffObjects, NotWalled, particles
<1>9. InState({"Leader"}) = {} /\ Followers = {}
  BY <1>1, <1>3 DEF InState, Followers, ids
<1> QED
  BY <1>7, <1>8, <1>9 DEF IInv, AtObject, Led, Rooted, ForestOf

-----------------------------------------------------------------------------
(* The pointers through a step                                             *)

\* A particle whose tail no follower points at: hasFollowerChild looks at every
\* neighbour.
LEMMA NoChildAtTail ==
  ASSUME IInv, NEW p \in particles, IsExpanded(body[p]), ~ HasFollowerChild(p),
         NEW q \in Followers
  PROVE  Target(q) # TailNode(body[p])
<1> SUFFICES ASSUME Target(q) = TailNode(body[p]) PROVE FALSE
  OBVIOUS
<1>1. /\ body[p] \in Body /\ body[q] \in Body /\ q \in particles
      /\ moveDir[q] \in Dir
      /\ Target(q) \notin Nodes(body[q])
      /\ NbrNode(body[q], ParentLabel(q)) = Target(q)
  BY FollowerPoints DEF IInv, TypeOK
<1>2. TailNode(body[p]) \in Nodes(body[p]) /\ TailNode(body[p]) \in Node
  BY <1>1, NodesType
<1>3. p # q
  BY <1>1, <1>2
<1>4. body[q].head \in Nodes(body[q]) /\ body[q].head \in Node
  BY <1>1, NodesType
<1>5. body[q].head \notin Nodes(body[p])
  BY <1>1, <1>3, <1>4 DEF IInv, ApartIn, particles
<1> DEFINE g == LocalToGlobalDir(body[q], moveDir[q])
<1>6. g \in Dir /\ TailNode(body[p]) = NodeInDir(body[q].head, g)
  BY <1>1, CompassType DEF Target, Pointed
<1>7. Opposite(g) \in Dir /\ NodeInDir(TailNode(body[p]), Opposite(g)) = body[q].head
  BY <1>4, <1>6, NodeInDirBack, OppositeType
<1> HIDE DEF g
<1>8. PICK l \in Labels(body[p]) : /\ OccupiedNodeIncidentToLabel(body[p], l) = TailNode(body[p])
                                   /\ LabelToGlobalDir(body[p], l) = Opposite(g)
  BY <1>1, <1>2, <1>5, <1>7, PortExists
<1>9. NbrNode(body[p], l) = body[q].head
  BY <1>7, <1>8 DEF NbrNode
<1>10. l \in LabelsOfNbrs(p, InState({"Follower"}))
  BY <1>4, <1>9 DEF LabelsOfNbrs, Followers
<1>11. NbrAtLabel(p, l) = q
  BY <1>1, <1>4, <1>9, ParticleFound DEF NbrAtLabel, IInv
<1>12. PointsAtMyTail(body[p], body[q], ParentLabel(q))
  BY <1>1 DEF PointsAtMyTail
<1> QED
  BY <1>10, <1>11, <1>12 DEF HasFollowerChild, IsExpanded

\* Contracting a tail no follower points at leaves all pointers as they are.
LEMMA ContractKeeps ==
  ASSUME IInv, NEW p \in particles, IsExpanded(body[p]), ~ HasFollowerChild(p),
         body' = AfterContractTail(p), UNCHANGED <<objects, state, moveDir>>,
         complaints' \in [particles -> 0..1]
  PROVE  IInv'
<1> DEFINE x == TailContracted(body[p])
<1>1. body \in [particles -> Body] /\ body[p] \in Body
  BY DEF IInv, TypeOK
<1>2. /\ x \in Body /\ IsContracted(x) /\ Nodes(x) = {body[p].head}
      /\ x.head = body[p].head /\ x.orientation = body[p].orientation
  <2>1. x.head = body[p].head /\ x.orientation = body[p].orientation
    BY <1>1 DEF TailContracted, Body
  <2> QED
    BY <1>1, <2>1, ContractedBody
<1>3. body' = [body EXCEPT ![p] = x]
  BY DEF AfterContractTail
<1> HIDE DEF x
<1>4. /\ particles' = particles /\ body' \in [particles -> Body]
      /\ body'[p] = x /\ \A q \in particles \ {p} : body'[q] = body[q]
  BY <1>1, <1>2, <1>3 DEF particles
<1>5. Nodes(body[p]) = {body[p].head, TailNode(body[p])}
  BY <1>1, NodesType
<1>6. \A q \in particles : /\ body'[q].head = body[q].head
                           /\ body'[q].orientation = body[q].orientation
                           /\ Nodes(body'[q]) \subseteq Nodes(body[q])
  BY <1>2, <1>4, <1>5
<1>7. /\ Followers' = Followers /\ Active' = Active
      /\ InState({"Leader"})' = InState({"Leader"})
      /\ InState({"Leader"}) \subseteq particles
  BY <1>4 DEF Followers, Active, InState
<1>8. TypeOK'
  BY <1>4 DEF TypeOK, IInv
<1>9. ApartIn(body')
  <2>1. DOMAIN body' = particles
    BY <1>4
  <2> QED
    BY <1>6, <2>1 DEF ApartIn, IInv, particles
<1>10. OffObjects' /\ NotWalled' /\ AtObject'
  BY <1>4, <1>6, <1>7 DEF OffObjects, NotWalled, AtObject, IInv
<1>11. ASSUME NEW q \in Followers
       PROVE  /\ moveDir'[q] \in Dir /\ moveDir'[q] # TailDir(body'[q])
              /\ Up[q] \in Active /\ Target(q)' \in Nodes(body'[Up[q]])
              /\ q \in particles /\ Up[q] \in particles
  <2>1. /\ q \in particles /\ moveDir[q] \in Dir
        /\ Up[q] \in Active /\ Up[q] \in particles
        /\ Target(q) \in Nodes(body[Up[q]])
    BY FollowerPoints
  <2>2. Target(q)' = Target(q)
    BY <1>6, <2>1 DEF Target, Pointed, LocalToGlobalDir
  <2>3. Target(q) # TailNode(body[p])
    BY NoChildAtTail
  <2>4. Target(q) \in Nodes(body'[Up[q]])
    BY <1>2, <1>4, <1>5, <2>1, <2>3
  <2>5. moveDir[q] # TailDir(body'[q])
    <3>1. CASE q = p
      BY <1>2, <1>4, <2>1, <3>1, ContractedFrame DEF Dir
    <3>2. CASE q # p
      BY <1>4, <2>1, <3>2 DEF IInv, Led
    <3> QED
      BY <3>1, <3>2
  <2> QED
    BY <2>1, <2>2, <2>4, <2>5
<1>12. Led'
  BY <1>7, <1>11 DEF Led
<1>13. \A q \in Followers : Up'[q] = Up[q]
  BY <1>4, <1>9, <1>11, UpNext
<1>14. Rooted'
  BY <1>7, <1>13 DEF Rooted, ForestOf, IInv
<1> QED
  BY <1>8, <1>9, <1>10, <1>12, <1>14 DEF IInv

\* Becoming a leader takes a particle off the forest.
LEMMA BecomeLeaderKeeps ==
  ASSUME IInv, NEW p \in particles, BecomeLeader(p)
  PROVE  IInv'
<1>1. /\ body[p] \in Body /\ IsContracted(body[p]) /\ HasObjectNbr(p)
      /\ body' = body /\ objects' = objects /\ complaints' = complaints
      /\ state' = [state EXCEPT ![p] = "Leader"]
      /\ moveDir' = [moveDir EXCEPT ![p] = NextSurfaceDir(p)]
  BY DEF BecomeLeader, IInv, TypeOK
<1>2. Nbrs(body[p].head) \cap objects # {}
  BY <1>1, ObjectNbr
<1>3. NextSurfaceDir(p) \in Dir
  BY <1>1, <1>2, SurfaceDir
<1>4. /\ particles' = particles
      /\ state' \in [particles -> States]
      /\ state'[p] = "Leader" /\ \A q \in particles \ {p} : state'[q] = state[q]
      /\ moveDir' \in [particles -> {-1} \cup Dir]
      /\ \A q \in particles \ {p} : moveDir'[q] = moveDir[q]
  BY <1>1, <1>3 DEF particles, IInv, TypeOK, States
<1>5. TypeOK'
  BY <1>1, <1>4 DEF IInv, TypeOK
<1>6. /\ Followers' \subseteq Followers \ {p} /\ Active \subseteq Active'
      /\ InState({"Leader"})' \subseteq InState({"Leader"}) \cup {p}
  BY <1>4 DEF Followers, Active, InState
<1>7. ApartIn(body') /\ OffObjects' /\ NotWalled'
  BY <1>1, <1>4 DEF IInv, OffObjects, NotWalled
<1>8. AtObject'
  BY <1>1, <1>2, <1>6 DEF IInv, AtObject
<1>9. \A q \in Followers' : /\ q \in Followers /\ q \in particles
                            /\ moveDir'[q] = moveDir[q] /\ Target(q)' = Target(q)
  BY <1>1, <1>4, <1>6, FollowerPoints DEF Target
<1>10. Led'
  BY <1>1, <1>6, <1>9 DEF Led, IInv
<1>11. \A q \in Followers' : Up'[q] = Up[q]
  BY <1>1, <1>4, <1>7, <1>9, FollowerPoints, UpNext
<1>12. Rooted'
  BY <1>6, <1>11 DEF Rooted, ForestOf, IInv
<1> QED
  BY <1>5, <1>7, <1>8, <1>10, <1>12 DEF IInv

\* A new follower points at one that is in the forest, and nobody at it.
LEMMA BecomeFollowerKeeps ==
  ASSUME IInv, NEW p \in particles, BecomeFollower(p)
  PROVE  IInv'
<1> DEFINE L == LabelsOfNbrs(p, Active)
           d == LabelOfFirstNbr(p, Active, 0)
<1>1. /\ body[p] \in Body /\ IsContracted(body[p]) /\ state[p] = "Inactive"
      /\ L # {}
      /\ body' = body /\ objects' = objects /\ complaints' = complaints
      /\ state' = [state EXCEPT ![p] = "Follower"]
      /\ moveDir' = [moveDir EXCEPT ![p] = d]
  BY DEF BecomeFollower, HasNbrInState, IInv, TypeOK, Active
<1>2. d \in L /\ L \subseteq Dir
  <2>1. Labels(body[p]) = Dir /\ LabelLimit(body[p]) = 6
    BY <1>1, ContractedFrame
  <2>2. L \subseteq Dir /\ d = FirstFrom(L, 0, 6)
    BY <2>1 DEF LabelsOfNbrs, LabelOfFirstNbr
  <2> HIDE DEF L, d
  <2> QED
    BY <1>1, <2>2, FirstFound
<1>3. PICK r \in Active : NbrNode(body[p], d) \in Nodes(body[r])
  BY <1>2 DEF LabelsOfNbrs
<1> HIDE DEF d, L
<1>4. /\ d \in Dir /\ NbrNode(body[p], d) = Pointed(body[p], d)
      /\ TailDir(body[p]) = -1 /\ d # -1
      /\ Pointed(body[p], d) \notin Nodes(body[p])
  <2>1. d \in Dir /\ TailDir(body[p]) = -1 /\ d # -1
    BY <1>1, <1>2, ContractedFrame DEF Dir
  <2> QED
    BY <1>1, <2>1, ContractedPorts, PointerPort
<1>5. /\ particles' = particles
      /\ state' \in [particles -> States]
      /\ state'[p] = "Follower" /\ \A q \in particles \ {p} : state'[q] = state[q]
      /\ moveDir' \in [particles -> {-1} \cup Dir]
      /\ moveDir'[p] = d /\ \A q \in particles \ {p} : moveDir'[q] = moveDir[q]
  BY <1>1, <1>4 DEF particles, IInv, TypeOK, States
<1>6. TypeOK'
  BY <1>1, <1>5 DEF IInv, TypeOK
<1>7. /\ Followers' = Followers \cup {p} /\ p \notin Followers /\ p \notin Active
      /\ Active' = Active \cup {p}
      /\ InState({"Leader"})' = InState({"Leader"})
      /\ r \in particles
  BY <1>1, <1>5 DEF Followers, Active, InState
<1>8. ApartIn(body') /\ OffObjects' /\ NotWalled' /\ AtObject'
  BY <1>1, <1>5, <1>7 DEF IInv, OffObjects, NotWalled, AtObject
<1>9. Target(p)' = NbrNode(body[p], d)
  BY <1>1, <1>4, <1>5 DEF Target
<1>10. ASSUME NEW q \in Followers
       PROVE  /\ q \in particles /\ moveDir'[q] = moveDir[q] /\ Target(q)' = Target(q)
              /\ Up[q] \in particles /\ Target(q) \in Nodes(body'[Up[q]]) /\ Up[q] # p
  <2>1. q # p /\ q \in particles
    BY <1>7, FollowerPoints
  <2> QED
    BY <1>1, <1>5, <1>7, <2>1, FollowerPoints DEF Target
<1>11. Led'
  <2>1. /\ moveDir'[p] \in Dir /\ moveDir'[p] # TailDir(body'[p])
        /\ Target(p)' \in Nodes(body'[r]) /\ r \in Active'
    BY <1>1, <1>3, <1>4, <1>5, <1>7, <1>9
  <2>2. ASSUME NEW q \in Followers
        PROVE  /\ moveDir'[q] \in Dir /\ moveDir'[q] # TailDir(body'[q])
               /\ \E s \in Active' : Target(q)' \in Nodes(body'[s])
    BY <1>1, <1>7, <1>10 DEF IInv, Led
  <2> QED
    BY <1>7, <2>1, <2>2 DEF Led
<1>12. Up'[p] = r /\ r # p
  BY <1>1, <1>3, <1>5, <1>7, <1>8, <1>9, UpNext
<1>13. \A q \in Followers : Up'[q] = Up[q]
  BY <1>5, <1>8, <1>10, UpNext
<1>14. Rooted'
  <2>1. \A q \in Followers : Up'[q] = Up[q] /\ Up[q] # p
    BY <1>10, <1>13
  <2>2. ForestOf(Followers, Up)
    BY DEF IInv, Rooted
  <2>3. ForestOf(Followers \cup {p}, Up')
    BY <1>12, <2>1, <2>2, ForestJoined
  <2> QED
    BY <1>7, <2>3 DEF Rooted
<1> QED
  BY <1>6, <1>8, <1>11, <1>14 DEF IInv

-----------------------------------------------------------------------------
(* Handovers and expansions                                                *)

\* Where the two bodies of a handover end up.
LEMMA PushMoves ==
  ASSUME IInv, NEW p \in particles, IsContracted(body[p]), NEW l \in Dir,
         HasTailAtLabel(p, l), NEW r, r = NbrAtLabel(p, l), body' = AfterPush(p, l)
  PROVE  /\ r \in particles /\ r # p /\ body[r] \in Body /\ IsExpanded(body[r])
         /\ TailNode(body[r]) = NbrNode(body[p], l)
         /\ Nodes(body[r]) = {body[r].head, TailNode(body[r])}
         /\ particles' = particles /\ body' \in [particles -> Body] /\ ApartIn(body')
         /\ body'[p].head = TailNode(body[r]) /\ body'[p].orientation = body[p].orientation
         /\ Nodes(body'[p]) = {TailNode(body[r]), body[p].head}
         /\ body'[r].head = body[r].head /\ body'[r].orientation = body[r].orientation
         /\ IsContracted(body'[r]) /\ Nodes(body'[r]) = {body[r].head}
         /\ \A q \in particles \ {p, r} : body'[q] = body[q]
<1>1. /\ body \in [particles -> Body] /\ ApartIn(body)
      /\ body[p] \in Body /\ l \in Labels(body[p])
  BY ContractedFrame DEF IInv, TypeOK
<1>2. PICK q \in particles : NbrNode(body[p], l) \in Nodes(body[q])
  BY DEF HasTailAtLabel, HasNbrAtLabel, Occupied
<1>3. r = q
  BY <1>1, <1>2, ParticleFound DEF NbrAtLabel
<1>4. /\ r \in particles /\ body[r] \in Body /\ IsExpanded(body[r])
      /\ TailNode(body[r]) = NbrNode(body[p], l)
  BY <1>1, <1>2, <1>3 DEF HasTailAtLabel
<1>5. body' = PushOff(body, p, r, l)
  <2>1. r # p
    BY <1>4 DEF IsExpanded
  <2> QED
    BY <1>1, <1>4, <2>1 DEF AfterPush, PushOff
<1>6. /\ p # r /\ body' \in [particles -> Body] /\ ApartIn(body')
      /\ body'[p].head = TailNode(body[r]) /\ body'[p].orientation = body[p].orientation
      /\ Nodes(body'[p]) = {TailNode(body[r]), body[p].head}
      /\ body'[r].head = body[r].head /\ body'[r].orientation = body[r].orientation
      /\ IsContracted(body'[r]) /\ Nodes(body'[r]) = {body[r].head}
      /\ \A q1 \in particles \ {p, r} : body'[q1] = body[q1]
  BY <1>1, <1>4, <1>5, PushedOff
<1>7. particles' = particles
  BY <1>6 DEF particles
<1>8. Nodes(body[r]) = {body[r].head, TailNode(body[r])}
  BY <1>4, NodesType
<1> QED
  BY <1>4, <1>6, <1>7, <1>8

\* And those of an expansion.
LEMMA ExpandMoves ==
  ASSUME IInv, NEW p \in particles, IsContracted(body[p]), NEW l \in Dir,
         ~ HasNbrAtLabel(p, l), body' = AfterExpand(p, l)
  PROVE  /\ particles' = particles /\ body' \in [particles -> Body] /\ ApartIn(body')
         /\ body'[p].head = NbrNode(body[p], l)
         /\ Nodes(body'[p]) = {NbrNode(body[p], l), body[p].head}
         /\ \A q \in particles \ {p} : body'[q] = body[q]
<1> DEFINE x == Expanded(body[p], l)
<1>1. /\ body \in [particles -> Body] /\ ApartIn(body)
      /\ body[p] \in Body /\ l \in Labels(body[p])
  BY ContractedFrame DEF IInv, TypeOK
<1>2. x \in Body /\ x.head = NbrNode(body[p], l) /\ Nodes(x) = {NbrNode(body[p], l), body[p].head}
  BY <1>1, ExpandedBody
<1>3. body' = [body EXCEPT ![p] = x]
  BY DEF AfterExpand
<1> HIDE DEF x
<1>4. Nodes(body[p]) = {body[p].head}
  BY <1>1, NodesType
<1>5. \A r \in particles \ {p} : Nodes(x) \cap Nodes(body[r]) = {}
  BY <1>1, <1>2, <1>4 DEF HasNbrAtLabel, Occupied, ApartIn, particles
<1>6. body' \in [particles -> Body] /\ body'[p] = x /\ \A q \in particles \ {p} : body'[q] = body[q]
  BY <1>1, <1>2, <1>3
<1>7. particles' = particles
  BY <1>6 DEF particles
<1>8. ApartIn(body')
  <2>1. DOMAIN body' = particles
    BY <1>6
  <2>2. ASSUME NEW r \in particles, NEW s \in particles, r # s
        PROVE  Nodes(body'[r]) \cap Nodes(body'[s]) = {}
    BY <1>1, <1>5, <1>6, <2>2 DEF ApartIn, particles
  <2> QED
    BY <2>1, <2>2 DEF ApartIn
<1> QED
  BY <1>2, <1>6, <1>7, <1>8

\* A particle that moves its head by one node to one that is no object keeps a
\* way out: the node it comes from.
LEMMA MovedOff ==
  ASSUME IInv, NEW p \in particles, IsContracted(body[p]), NEW l \in Dir,
         objects' = objects, particles' = particles,
         body'[p].head = NbrNode(body[p], l), NbrNode(body[p], l) \notin objects,
         Nodes(body'[p]) = {NbrNode(body[p], l), body[p].head},
         \A q \in particles \ {p} : /\ body'[q].head = body[q].head
                                    /\ Nodes(body'[q]) \subseteq Nodes(body[q])
  PROVE  OffObjects' /\ NotWalled'
<1>1. body[p] \in Body /\ body[p].head \in Nodes(body[p])
  BY NodesType DEF IInv, TypeOK
<1>2. body[p].head \notin objects
  BY <1>1 DEF IInv, OffObjects
<1>3. OffObjects'
  BY <1>2 DEF OffObjects, IInv
<1>4. body[p].head \in Nbrs(body'[p].head)
  BY <1>1, ContractedPorts
<1>5. NotWalled'
  BY <1>2, <1>4 DEF NotWalled, IInv
<1> QED
  BY <1>3, <1>5

\* What becomes of the other pointers in a handover: those at the tail that is
\* pushed off now lead to the one that pushes, all others to whom they did.
LEMMA PushReroutes ==
  ASSUME IInv, NEW p \in particles, IsContracted(body[p]), NEW l \in Dir,
         HasTailAtLabel(p, l), NEW r, r = NbrAtLabel(p, l), body' = AfterPush(p, l),
         NEW q \in Followers, q # p, moveDir'[q] = moveDir[q]
  PROVE  /\ q \in particles /\ moveDir'[q] \in Dir /\ moveDir'[q] # TailDir(body'[q])
         /\ Up'[q] = Up[q] \/ (Up'[q] = p /\ Up[q] = r)
         /\ Up'[q] \in Active \cup {p} /\ Target(q)' \in Nodes(body'[Up'[q]])
<1>1. /\ r \in particles /\ r # p /\ particles' = particles /\ ApartIn(body')
      /\ Nodes(body[r]) = {body[r].head, TailNode(body[r])}
      /\ Nodes(body'[p]) = {TailNode(body[r]), body[p].head}
      /\ body'[r].head = body[r].head /\ body'[r].orientation = body[r].orientation
      /\ IsContracted(body'[r]) /\ Nodes(body'[r]) = {body[r].head}
      /\ body'[r] \in Body
      /\ \A s \in particles \ {p, r} : body'[s] = body[s]
  BY PushMoves
<1>2. /\ q \in particles /\ moveDir[q] \in Dir
      /\ Up[q] \in Active /\ Up[q] \in particles
      /\ Target(q) \in Nodes(body[Up[q]])
  BY FollowerPoints
<1>3. Target(q)' = Target(q)
  BY <1>1, <1>2 DEF Target, Pointed, LocalToGlobalDir
<1>4. moveDir[q] # TailDir(body'[q])
  <2>1. CASE q = r
    BY <1>1, <1>2, <2>1, ContractedFrame DEF Dir
  <2>2. CASE q # r
    BY <1>1, <1>2, <2>2 DEF IInv, Led
  <2> QED
    BY <2>1, <2>2
<1>5. Nodes(body[p]) = {body[p].head}
  BY NodesType DEF IInv, TypeOK
<1>6. CASE Up[q] = r /\ Target(q) = TailNode(body[r])
  <2>1. Up'[q] = p
    BY <1>1, <1>2, <1>3, <1>6, UpNext
  <2> QED
    BY <1>1, <1>2, <1>3, <1>4, <1>6, <2>1
<1>7. CASE ~ (Up[q] = r /\ Target(q) = TailNode(body[r]))
  <2>1. Target(q) \in Nodes(body'[Up[q]])
    BY <1>1, <1>2, <1>5, <1>7
  <2>2. Up'[q] = Up[q]
    BY <1>1, <1>2, <1>3, <2>1, UpNext
  <2> QED
    BY <1>2, <1>3, <1>4, <2>1, <2>2
<1> QED
  BY <1>6, <1>7

\* A follower that pushes its parent off its tail turns its pointer to the
\* parent's head.
LEMMA FollowerPushKeeps ==
  ASSUME IInv, NEW p \in particles, FollowerPushes(p)
  PROVE  IInv'
<1> DEFINE l == moveDir[p]
           r == NbrAtLabel(p, l)
           d == NbrDirToDir(body[p], body[r], Opposite(TailDir(body[r])))
<1>1. /\ IsContracted(body[p]) /\ p \in Followers
      /\ HasTailAtLabel(p, l) /\ body' = AfterPush(p, l)
      /\ moveDir' = [moveDir EXCEPT ![p] = d]
      /\ objects' = objects /\ state' = state /\ complaints' = complaints
  BY DEF FollowerPushes, Followers, InState
<1>2. /\ body[p] \in Body /\ l \in Dir /\ Up[p] \in Active
      /\ Target(p) \in Nodes(body[Up[p]]) /\ Up[p] \in particles
  BY <1>1, FollowerPoints
<1> HIDE DEF l
<1>3. /\ r \in particles /\ r # p /\ body[r] \in Body /\ IsExpanded(body[r])
      /\ TailNode(body[r]) = NbrNode(body[p], l)
      /\ Nodes(body[r]) = {body[r].head, TailNode(body[r])}
      /\ particles' = particles /\ body' \in [particles -> Body] /\ ApartIn(body')
      /\ body'[p].head = TailNode(body[r]) /\ body'[p].orientation = body[p].orientation
      /\ Nodes(body'[p]) = {TailNode(body[r]), body[p].head}
      /\ body'[r].head = body[r].head /\ Nodes(body'[r]) = {body[r].head}
      /\ \A q \in particles \ {p, r} : body'[q] = body[q]
  <2> HIDE DEF r
  <2> QED
    BY <1>1, <1>2, PushMoves DEF r
<1>4. Target(p) = TailNode(body[r])
  BY <1>1, <1>2, <1>3, ContractedPorts DEF Target, l
<1>5. Up[p] = r /\ r \in Active
  BY <1>2, <1>3, <1>4, ParticleFound DEF IInv, Up
<1>6. d \in Dir /\ NodeInDir(TailNode(body[r]), LocalToGlobalDir(body[p], d)) = body[r].head
  BY <1>2, <1>3, TurnedRound
<1>7. \A q \in Followers \ {p} :
        moveDir'[q] = moveDir[q] =>
          /\ q \in particles /\ moveDir'[q] \in Dir /\ moveDir'[q] # TailDir(body'[q])
          /\ Up'[q] = Up[q] \/ (Up'[q] = p /\ Up[q] = r)
          /\ Up'[q] \in Active \cup {p} /\ Target(q)' \in Nodes(body'[Up'[q]])
  <2> HIDE DEF r
  <2> QED
    BY <1>1, <1>2, PushReroutes DEF r
<1> HIDE DEF r, d
<1>8. /\ moveDir' \in [particles -> {-1} \cup Dir]
      /\ moveDir'[p] = d /\ \A q \in particles \ {p} : moveDir'[q] = moveDir[q]
  BY <1>1, <1>6 DEF IInv, TypeOK
<1>9. TypeOK'
  BY <1>1, <1>3, <1>8 DEF IInv, TypeOK
<1>10. /\ Followers' = Followers /\ Active' = Active /\ Followers \subseteq Active
       /\ Followers \subseteq particles
       /\ InState({"Leader"})' = InState({"Leader"}) /\ p \notin InState({"Leader"})
  BY <1>1, <1>3 DEF Followers, Active, InState
<1>11. OffObjects' /\ NotWalled'
  <2>1. NbrNode(body[p], l) \notin objects
    BY <1>3 DEF IInv, OffObjects
  <2>2. \A q \in particles \ {p} : /\ body'[q].head = body[q].head
                                   /\ Nodes(body'[q]) \subseteq Nodes(body[q])
    BY <1>3
  <2> QED
    BY <1>1, <1>2, <1>3, <2>1, <2>2, MovedOff
<1>12. AtObject'
  BY <1>1, <1>3, <1>10 DEF AtObject, IInv, InState
<1>13. Target(p)' = body[r].head
  BY <1>3, <1>6, <1>8 DEF Target, Pointed, LocalToGlobalDir
<1>14. /\ Up'[p] = r
       /\ moveDir'[p] # TailDir(body'[p])
  <2>1. Target(p)' \in Nodes(body'[r])
    BY <1>3, <1>13
  <2>2. Target(p)' \notin Nodes(body'[p])
    BY <1>3, <2>1 DEF ApartIn
  <2>3. body'[p] \in Body /\ Target(p)' = Pointed(body'[p], d)
    BY <1>3, <1>8 DEF Target
  <2>4. d # TailDir(body'[p])
    BY <1>6, <2>2, <2>3, PointerPort
  <2> QED
    BY <1>3, <1>8, <2>1, <2>4, UpNext
<1>15. Led'
  <2>1. ASSUME NEW q \in Followers, q # p
        PROVE  /\ moveDir'[q] \in Dir /\ moveDir'[q] # TailDir(body'[q])
               /\ \E s \in Active : Target(q)' \in Nodes(body'[s])
    BY <1>1, <1>7, <1>8, <1>10, <2>1
  <2>2. /\ moveDir'[p] \in Dir /\ moveDir'[p] # TailDir(body'[p])
        /\ r \in Active /\ Target(p)' \in Nodes(body'[r])
    BY <1>3, <1>5, <1>6, <1>8, <1>13, <1>14
  <2> QED
    BY <1>10, <2>1, <2>2 DEF Led
<1>16. Rooted'
  <2>1. \A q \in Followers : Up'[q] = Up[q] \/ (Up'[q] = p /\ Up[q] = r)
    BY <1>5, <1>7, <1>8, <1>10, <1>14
  <2>2. ForestOf(Followers, Up)
    BY DEF IInv, Rooted
  <2>3. ForestOf(Followers, Up')
    BY <1>1, <1>5, <1>14, <2>1, <2>2, ForestPushed
  <2> QED
    BY <1>10, <2>3 DEF Rooted
<1> QED
  BY <1>3, <1>9, <1>11, <1>12, <1>15, <1>16 DEF IInv

\* A step of a leader to a node beside the object disturbs only the pointers at
\* a tail it pushes off, and those now end at the leader.
LEMMA LeaderKeeps ==
  ASSUME IInv, NEW p \in InState({"Leader"}), NEW d, d = NextSurfaceDir(p),
         NbrNode(body[p], d) \notin objects,
         Nbrs(NbrNode(body[p], d)) \cap objects # {},
         body'[p].head = NbrNode(body[p], d),
         Nodes(body'[p]) = {NbrNode(body[p], d), body[p].head},
         \A q \in particles \ {p} : /\ body'[q].head = body[q].head
                                    /\ Nodes(body'[q]) \subseteq Nodes(body[q]),
         IsContracted(body[p]), d \in Dir,
         particles' = particles, body' \in [particles -> Body], ApartIn(body'),
         state' = state, objects' = objects, moveDir' = [moveDir EXCEPT ![p] = d],
         complaints' \in [particles -> 0..1],
         \A q \in Followers :
           /\ moveDir'[q] \in Dir /\ moveDir'[q] # TailDir(body'[q])
           /\ Up'[q] = Up[q] \/ Up'[q] = p
           /\ Up'[q] \in Active /\ Target(q)' \in Nodes(body'[Up'[q]])
  PROVE  IInv'
<1>1. p \in particles /\ p \notin Followers
  BY DEF InState, Followers
<1>2. TypeOK'
  BY DEF IInv, TypeOK
<1>3. OffObjects' /\ NotWalled'
  BY <1>1, MovedOff
<1>4. /\ Followers' = Followers /\ Active' = Active
      /\ InState({"Leader"})' = InState({"Leader"}) /\ InState({"Leader"}) \subseteq particles
  BY DEF Followers, Active, InState
<1>5. AtObject'
  BY <1>4 DEF AtObject, IInv
<1>6. Led'
  BY <1>4 DEF Led
<1>7. Rooted'
  <2>1. ForestOf(Followers, Up) /\ Followers \in SUBSET Followers
    BY DEF IInv, Rooted
  <2>2. \A q \in Followers : Up'[q] = Up[q] \/ Up'[q] \notin Followers
    BY <1>1
  <2>3. ForestOf(Followers, Up')
    BY <2>1, <2>2, ForestLeft
  <2> QED
    BY <1>4, <2>3 DEF Rooted
<1> QED
  BY <1>2, <1>3, <1>5, <1>6, <1>7 DEF IInv

LEMMA LeaderActsKeeps ==
  ASSUME IInv, NEW p \in particles, LeaderActs(p)
  PROVE  IInv'
<1> DEFINE d == NextSurfaceDir(p)
           Go == ~ HasNbrAtLabel(p, d) /\ body' = AfterExpand(p, d)
           Push == HasTailAtLabel(p, d) /\ body' = AfterPush(p, d)
<1>1. /\ IsContracted(body[p]) /\ state[p] = "Leader" /\ p \in InState({"Leader"})
      /\ body[p] \in Body
      /\ moveDir' = [moveDir EXCEPT ![p] = d]
      /\ objects' = objects /\ state' = state
      /\ Go \/ Push \/ body' = body
      /\ complaints' \in [particles -> 0..1]
  <2>1. complaints \in [particles -> 0..1]
    BY DEF IInv, TypeOK
  <2>2. PICK held \in {IF complaints[p] > 0 THEN complaints[p] ELSE 1} :
          \/ Go /\ complaints' = TakeComplaint(p, held)
          \/ Push /\ complaints' = TakeComplaint(p, held)
          \/ /\ body' = body
             /\ LET nbr == NbrAtLabel(p, d)
                IN  complaints' = IF state[nbr] = "Leader" /\ complaints[nbr] = 0
                                  THEN [TakeComplaint(p, held) EXCEPT ![nbr] = 1]
                                  ELSE [complaints EXCEPT ![p] = held]
    BY DEF LeaderActs
  <2>3. held = 1
    BY <2>1, <2>2
  <2>4. complaints' \in [particles -> 0..1]
    <3> HIDE DEF Go, Push
    <3> QED
      BY <2>1, <2>2, <2>3 DEF TakeComplaint
  <2>5. Go \/ Push \/ body' = body
    BY <2>2
  <2> QED
    BY <2>4, <2>5 DEF LeaderActs, InState, IInv, TypeOK
<1>2. /\ d \in Dir
      /\ NbrNode(body[p], d) \notin objects
      /\ Nbrs(NbrNode(body[p], d)) \cap objects # {}
  <2>1. Nbrs(body[p].head) \cap objects # {}
    BY <1>1 DEF IInv, AtObject
  <2> HIDE DEF d
  <2> QED
    BY <1>1, <2>1, SurfaceDir DEF d
<1>3. \A q \in Followers : /\ q \in particles /\ q # p /\ moveDir'[q] = moveDir[q]
                           /\ Up[q] \in Active /\ Up[q] \in particles
                           /\ moveDir[q] \in Dir /\ moveDir[q] # TailDir(body[q])
                           /\ Target(q) \in Nodes(body[Up[q]])
  <2>1. moveDir \in [particles -> {-1} \cup Dir]
    BY DEF IInv, TypeOK
  <2>2. \A q \in Followers : q # p
    BY <1>1 DEF Followers, InState
  <2> HIDE DEF d
  <2> QED
    BY <1>1, <2>1, <2>2, FollowerPoints DEF IInv, Led
<1> HIDE DEF d
<1>4. CASE Go
  <2>1. /\ particles' = particles /\ body' \in [particles -> Body] /\ ApartIn(body')
        /\ body'[p].head = NbrNode(body[p], d)
        /\ Nodes(body'[p]) = {NbrNode(body[p], d), body[p].head}
        /\ \A q \in particles \ {p} : body'[q] = body[q]
    BY <1>1, <1>2, <1>4, ExpandMoves
  <2>2. Nodes(body[p]) = {body[p].head}
    BY <1>1, NodesType
  <2>3. ASSUME NEW q \in Followers
        PROVE  /\ moveDir'[q] \in Dir /\ moveDir'[q] # TailDir(body'[q])
               /\ Up'[q] = Up[q] \/ Up'[q] = p
               /\ Up'[q] \in Active /\ Target(q)' \in Nodes(body'[Up'[q]])
    <3>1. Target(q)' = Target(q)
      BY <1>3, <2>1 DEF Target
    <3>2. Target(q) \in Nodes(body'[Up[q]])
      BY <1>3, <2>1, <2>2
    <3>3. Up'[q] = Up[q]
      BY <1>3, <2>1, <3>1, <3>2, UpNext
    <3> QED
      BY <1>3, <2>1, <3>1, <3>2, <3>3
  <2>4. \A q \in particles \ {p} : /\ body'[q].head = body[q].head
                                   /\ Nodes(body'[q]) \subseteq Nodes(body[q])
    BY <2>1
  <2> QED
    BY <1>1, <1>2, <2>1, <2>3, <2>4, LeaderKeeps DEF d
<1>5. CASE Push
  <2> DEFINE r == NbrAtLabel(p, d)
  <2>1. /\ r \in particles /\ r # p
        /\ TailNode(body[r]) = NbrNode(body[p], d)
        /\ Nodes(body[r]) = {body[r].head, TailNode(body[r])}
        /\ particles' = particles /\ body' \in [particles -> Body] /\ ApartIn(body')
        /\ body'[p].head = NbrNode(body[p], d)
        /\ Nodes(body'[p]) = {NbrNode(body[p], d), body[p].head}
        /\ body'[r].head = body[r].head /\ Nodes(body'[r]) = {body[r].head}
        /\ \A q \in particles \ {p, r} : body'[q] = body[q]
    <3> HIDE DEF r
    <3> QED
      BY <1>1, <1>2, <1>5, PushMoves DEF r
  <2>2. ASSUME NEW q \in Followers
        PROVE  /\ moveDir'[q] \in Dir /\ moveDir'[q] # TailDir(body'[q])
               /\ Up'[q] = Up[q] \/ Up'[q] = p
               /\ Up'[q] \in Active /\ Target(q)' \in Nodes(body'[Up'[q]])
    <3>1. p \in Active
      BY <1>1 DEF Active, InState
    <3> HIDE DEF r
    <3> QED
      BY <1>1, <1>2, <1>3, <1>5, <3>1, PushReroutes DEF r
  <2>3. \A q \in particles \ {p} : /\ body'[q].head = body[q].head
                                   /\ Nodes(body'[q]) \subseteq Nodes(body[q])
    <3> HIDE DEF r
    <3> QED
      BY <2>1
  <2> QED
    BY <1>1, <1>2, <2>1, <2>2, <2>3, LeaderKeeps DEF d
<1>6. CASE body' = body
  <2>1. /\ particles' = particles /\ Followers' = Followers /\ Active' = Active
        /\ InState({"Leader"})' = InState({"Leader"})
    BY <1>1, <1>6 DEF particles, Followers, Active, InState
  <2>2. TypeOK'
    BY <1>1, <1>2, <1>6, <2>1 DEF IInv, TypeOK
  <2>3. ApartIn(body') /\ OffObjects' /\ NotWalled' /\ AtObject'
    BY <1>1, <1>6, <2>1 DEF IInv, OffObjects, NotWalled, AtObject
  <2>4. \A q \in Followers : Target(q)' = Target(q)
    BY <1>3, <1>6 DEF Target
  <2>5. Led'
    BY <1>3, <1>6, <2>1, <2>4 DEF Led
  <2>6. \A q \in Followers : Up'[q] = Up[q]
    BY <1>3, <1>6, <2>1, <2>3, <2>4, UpNext
  <2>7. Rooted'
    BY <2>1, <2>6 DEF Rooted, ForestOf, IInv
  <2> QED
    BY <2>2, <2>3, <2>5, <2>7 DEF IInv
<1> QED
  BY <1>1, <1>4, <1>5, <1>6

-----------------------------------------------------------------------------
LEMMA InvStep == IInv /\ [Next]_vars => IInv'
<1> SUFFICES ASSUME IInv, [Next]_vars PROVE IInv'
  OBVIOUS
<1>1. CASE UNCHANGED vars
  BY <1>1 DEF vars, IInv, TypeOK, OffObjects, NotWalled, AtObject, Led, Rooted, Up, Target,
              Followers, Active, InState, particles, ParticleAt
<1>2. ASSUME NEW p \in particles, FollowerContracts(p) PROVE IInv'
  <2>1. complaints' \in [particles -> 0..1]
    BY <1>2 DEF FollowerContracts, IInv, TypeOK
  <2> QED
    BY <1>2, <2>1, ContractKeeps DEF FollowerContracts
<1>3. ASSUME NEW p \in particles, LeaderContracts(p) PROVE IInv'
  <2>1. complaints' \in [particles -> 0..1]
    BY <1>3 DEF LeaderContracts, TakeComplaint, IInv, TypeOK
  <2> QED
    BY <1>3, <2>1, ContractKeeps DEF LeaderContracts
<1> QED
  BY <1>1, <1>2, <1>3, BecomeLeaderKeeps, BecomeFollowerKeeps, FollowerPushKeeps, LeaderActsKeeps
     DEF Next, Activate

\* On every object, from every placement beside it: a leader's walk always has
\* the object beside it and a way to go on, a follower always points at an
\* active particle, no ring of followers ever follows itself, and no particle
\* holds two complaints.
THEOREM ForestCorrect == Spec => []ForestOnSurface
  BY InvInit, InvStep, InvCorrect, PTL DEF Spec

=============================================================================
