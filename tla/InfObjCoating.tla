---------------------------- MODULE InfObjCoating ----------------------------
(***************************************************************************)
(* alg/infobjcoating.cpp: particles next to an object form a forest whose  *)
(* roots, the leaders, walk along the surface to make room; complaint      *)
(* tokens tell a leader that somebody behind it wants to move up.          *)
(*                                                                         *)
(* The particles are numbered.                                             *)
(***************************************************************************)
EXTENDS Amoebots, SequencesExt

CONSTANTS
  Builds,        \* what the constructor can make: the nodes of the objects, and
                 \* those of the particles in the order of their numbers
  Compasses      \* the compass offsets it draws for them

\* The line of objects goes to the right with every step and leaves each
\* particle a free node beside it.
ASSUME BuildsAssumption ==
  \A b \in Builds :
    /\ b[1] \subseteq Node
    /\ \A i \in 1 .. Len(b[2]) :
         /\ b[2][i] \in Node \ b[1]
         /\ \A j \in 1 .. Len(b[2]) : b[2][i] = b[2][j] => i = j
         /\ ~ (Nbrs(b[2][i]) \subseteq b[1])
         /\ \A c \in Compasses : c[i] \in Dir

-----------------------------------------------------------------------------
(* What the constructor builds: an object that is a line with turns, and   *)
(* particles in layers above its far end.                                  *)

\* The object that the steps of a line make from the origin.
ObjectLine(steps) ==
  LET at[k \in 0 .. Len(steps)] ==
        IF k = 0 THEN <<0, 0>> ELSE NodeInDir(at[k - 1], steps[k])
  IN  {at[k] : k \in 0 .. Len(steps)}

\* The free nodes above (directions 1 and 2) some nodes.
Above(S, objs) == {NodeInDir(n, d) : n \in S, d \in 1..2} \ objs

\* The objects are taken from the last one back, while the candidates number
\* at most the square root of numParticles.
FirstCandidates(objs, numParticles) ==
  LET After(n) == {m \in objs : Before(n, m)}
  IN  Above({n \in objs : Cardinality(Above(After(n), objs)) *
                          Cardinality(Above(After(n), objs)) <= numParticles}, objs)

\* Each layer is any part of the nodes above the layer before it.
Layered(P, objs, numParticles) ==
  \E layer \in [P -> 1 .. numParticles] :
    \A n \in P :
      IF layer[n] = 1 THEN n \in FirstCandidates(objs, numParticles)
                      ELSE \E m \in P : layer[m] = layer[n] - 1 /\ n \in Above({m}, objs)

\* Where a particle can be placed at all.
Reach(objs, numParticles) ==
  LET upTo[k \in 1 .. numParticles] ==
        IF k = 1 THEN FirstCandidates(objs, numParticles)
                 ELSE upTo[k - 1] \cup Above(upTo[k - 1], objs)
  IN  upTo[numParticles]

Placements(objs, numParticles) ==
  {P \in kSubset(numParticles, Reach(objs, numParticles)) : Layered(P, objs, numParticles)}

-----------------------------------------------------------------------------
VARIABLES
  state,       \* state of each particle
  moveDir,     \* moveDir of each particle, a local direction
  complaints   \* the number of complaint tokens each particle holds

vars == <<body, objects, state, moveDir, complaints>>

InState(S) == {p \in particles : state[p] \in S}

HasNbrInState(p, S) == LabelsOfNbrs(p, InState(S)) # {}

\* Mutant: any direction without an object.
AnyFreeDir(p) == CHOOSE d \in Dir : ~ HasObjectAtLabel(p, d)

\* The next direction along the object's surface.
NextSurfaceDir(p) == FreeClockwise[{l \in Dir : HasObjectAtLabel(p, l)}]

\* The port of a follower's head in the direction of its parent.
ParentLabel(q) == DirToHeadLabel(body[q], moveDir[q])
ParentNode(q)  == NbrNode(body[q], ParentLabel(q))

HasFollowerChild(p) ==
  \E q \in {NbrAtLabel(p, l) : l \in LabelsOfNbrs(p, InState({"Follower"}))} :
    IF IsContracted(body[p]) THEN PointsAtMyHead(body[p], body[q], ParentLabel(q))
                             ELSE PointsAtMyTail(body[p], body[q], ParentLabel(q))

\* takeToken, from the complaints held; mutant: the token stays.
LeaveComplaint(p, held) == [complaints EXCEPT ![p] = held]
TakeComplaint(p, held)  == [complaints EXCEPT ![p] = held - 1]

-----------------------------------------------------------------------------
Init ==
  \E b \in Builds :
    LET ids == 1 .. Len(b[2])
    IN  /\ objects = b[1]
        /\ \E compass \in Compasses :
             body = [p \in ids |-> [head |-> b[2][p], globalTailDir |-> -1,
                                   orientation |-> compass[p]]]
        /\ state = [p \in ids |-> "Inactive"]
        /\ moveDir = [p \in ids |-> -1]
        /\ complaints = [p \in ids |-> 0]

\* Mutant: the children are not looked for.
FollowerContractsChildless(p) ==
  /\ IsExpanded(body[p])
  /\ state[p] = "Follower"
  /\ ~ HasNbrInState(p, {"Inactive"})
  /\ body' = AfterContractTail(p)
  /\ UNCHANGED <<objects, state, moveDir, complaints>>

FollowerContracts(p) ==
  /\ IsExpanded(body[p])
  /\ state[p] = "Follower"
  /\ ~ HasFollowerChild(p)
  /\ ~ HasNbrInState(p, {"Inactive"})
  /\ body' = AfterContractTail(p)
  /\ UNCHANGED <<objects, state, moveDir, complaints>>

LeaderContracts(p) ==
  /\ IsExpanded(body[p])
  /\ state[p] = "Leader"
  /\ complaints[p] > 0
  /\ ~ HasNbrInState(p, {"Inactive"})
  /\ ~ HasFollowerChild(p)
  /\ body' = AfterContractTail(p)
  /\ complaints' = TakeComplaint(p, complaints[p])
  /\ UNCHANGED <<objects, state, moveDir>>

\* An inactive particle or a follower that has reached the surface.
BecomeLeader(p) ==
  /\ IsContracted(body[p])
  /\ state[p] \in {"Inactive", "Follower"}
  /\ HasObjectNbr(p)
  /\ state' = [state EXCEPT ![p] = "Leader"]
  /\ moveDir' = [moveDir EXCEPT ![p] = NextSurfaceDir(p)]
  /\ UNCHANGED <<body, objects, complaints>>

\* Mutant: only leaders are followed.
BecomeFollowerOfLeader(p) ==
  /\ IsContracted(body[p])
  /\ state[p] = "Inactive"
  /\ ~ HasObjectNbr(p)
  /\ HasNbrInState(p, {"Leader"})
  /\ state' = [state EXCEPT ![p] = "Follower"]
  /\ moveDir' = [moveDir EXCEPT ![p] = LabelOfFirstNbr(p, InState({"Leader"}), 0)]
  /\ UNCHANGED <<body, objects, complaints>>

BecomeFollower(p) ==
  /\ IsContracted(body[p])
  /\ state[p] = "Inactive"
  /\ ~ HasObjectNbr(p)
  /\ HasNbrInState(p, {"Leader", "Follower"})
  /\ state' = [state EXCEPT ![p] = "Follower"]
  /\ moveDir' = [moveDir EXCEPT ![p] = LabelOfFirstNbr(p, InState({"Leader", "Follower"}), 0)]
  /\ UNCHANGED <<body, objects, complaints>>

\* The direction to the parent's head is worked out from a copy of the parent
\* made before the handover.
FollowerPushes(p) ==
  /\ IsContracted(body[p])
  /\ state[p] = "Follower"
  /\ ~ HasObjectNbr(p)
  /\ HasTailAtLabel(p, moveDir[p])
  /\ LET nbr == body[NbrAtLabel(p, moveDir[p])]
     IN  moveDir' = [moveDir EXCEPT ![p] = NbrDirToDir(body[p], nbr, Opposite(TailDir(nbr)))]
  /\ body' = AfterPush(p, moveDir[p])
  /\ UNCHANGED <<objects, state, complaints>>

\* A contracted leader that has, or now generates, a complaint.
LeaderActs(p) ==
  /\ IsContracted(body[p])
  /\ state[p] = "Leader"
  /\ complaints[p] > 0 \/ HasFollowerChild(p)
  /\ \E dir \in {NextSurfaceDir(p)},
        held \in {IF complaints[p] > 0 THEN complaints[p] ELSE 1} :
         /\ moveDir' = [moveDir EXCEPT ![p] = dir]
         /\ \/ /\ ~ HasNbrAtLabel(p, dir)
               /\ body' = AfterExpand(p, dir)
               /\ complaints' = TakeComplaint(p, held)
            \/ /\ HasTailAtLabel(p, dir)
               /\ body' = AfterPush(p, dir)
               /\ complaints' = TakeComplaint(p, held)
            \/ /\ HasNbrAtLabel(p, dir) /\ ~ HasTailAtLabel(p, dir)
               /\ LET nbr == NbrAtLabel(p, dir)
                  IN  complaints' = IF state[nbr] = "Leader" /\ complaints[nbr] = 0
                                    THEN [TakeComplaint(p, held) EXCEPT ![nbr] = 1]
                                    ELSE [complaints EXCEPT ![p] = held]
               /\ UNCHANGED body
  /\ UNCHANGED <<objects, state>>

\* activate(); in every other case it changes nothing.
Activate(p) ==
  \/ FollowerContracts(p) \/ LeaderContracts(p)
  \/ BecomeLeader(p) \/ BecomeFollower(p)
  \/ FollowerPushes(p) \/ LeaderActs(p)

Next == \E p \in particles : Activate(p)

HasTerminated == \A p \in particles : state[p] = "Leader" /\ complaints[p] = 0

\* The system activates particles at random for ever, so while one of them can
\* do something, something happens.
Spec == Init /\ [][Next]_vars /\ WF_vars(Next)

-----------------------------------------------------------------------------
(* Properties                                                              *)

States == {"Inactive", "Follower", "Leader"}

\* The type invariant; no particle ever holds two complaints.
TypeOK ==
  /\ body \in [particles -> Body]
  /\ state \in [particles -> States]
  /\ moveDir \in [particles -> {-1} \cup Dir]
  /\ complaints \in [particles -> 0..1]
  /\ objects \subseteq Node

\* Wherever a leader's walk takes it, its head is next to the object, and not
\* walled in by it: nextSurfaceDir always has an object to start from and a
\* free direction to stop at.
LeadersOnSurface ==
  \A p \in InState({"Leader"}) : Nbrs(body[p].head) \cap objects \notin {{}, Nbrs(body[p].head)}

\* However handovers re-route them, the followers' pointers make a forest: each
\* points at a node of an active particle, and no set of followers points only
\* into itself.
FollowersLed ==
  /\ \A q \in InState({"Follower"}) :
       /\ \E l \in HeadLabels(body[q]) : LabelToDir(body[q], l) = moveDir[q]
       /\ ParentNode(q) \in Occupied
       /\ ParticleAt(ParentNode(q)) \in InState({"Leader", "Follower"})
  /\ \A C \in SUBSET InState({"Follower"}) :
       C # {} => \E q \in C : ParticleAt(ParentNode(q)) \notin C

\* The three together.
ForestOnSurface == TypeOK /\ LeadersOnSurface /\ FollowersLed

\* Every particle joins the forest.
AllJoin == <>(InState({"Inactive"}) = {})

\* Nothing happens once hasTerminated() lets the run stop; and the complaints
\* stop "the leader particles from traversing the object's surface forever"
\* (infobjcoating.h:74): from some time on nothing moves.
WalkStops == [][~ HasTerminated]_vars /\ <>[][FALSE]_vars

\* The coating is completed (infobjcoating.h:95).
Coats == <>HasTerminated

=============================================================================
