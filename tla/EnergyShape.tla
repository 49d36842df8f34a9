----------------------------- MODULE EnergyShape -----------------------------
(***************************************************************************)
(* alg/energyshape.cpp: a hexagon is formed by particles that pay for each *)
(* activation of shape formation with energy, which roots harvest and a    *)
(* spanning forest shares.  Stress of a descendant makes a root inhibit    *)
(* its whole tree; a particle whose body leaves a node prunes its tree.    *)
(*                                                                         *)
(* The particles are numbered, the seed is number 1.                       *)
(***************************************************************************)
EXTENDS SharedEnergy, Sequences

CONSTANTS
  Starts,            \* the nodes the constructor fills, in the order of the numbers
  Compasses,         \* the draws of randDir(), one direction per particle
  EnergyRoots        \* the sets of particles that may be the energy roots

\* What an instance has to assume; the constructor puts every further particle
\* next to an earlier one.
StartsAssumption ==
  \A places \in Starts :
    /\ places \in Seq(Node) /\ places # << >> /\ places[1] = <<0, 0>>
    /\ \A i, j \in 1 .. Len(places) : places[i] = places[j] => i = j
    /\ Connected({places[i] : i \in 1 .. Len(places)})
    /\ \A compass \in Compasses : \A p \in 1 .. Len(places) : compass[p] \in Dir

VARIABLES
  sState,            \* _sState, _constructionDir, _moveDir and _followDir
  constructionDir,
  moveDir,
  followDir,
  energy             \* the other members of each particle

shapeVars == <<body, sState, constructionDir, moveDir, followDir>>
vars      == <<objects, energy, shapeVars>>

InState(S) == {p \in particles : sState[p] \in S}
HasNbrInState(p, S) == LabelsOfNbrs(p, InState(S)) # {}

NewEnergy(p, roots) ==
  [state |-> IF p \in roots THEN "Root" ELSE "Idle", parentLabel |-> -1, lastParent |-> 0,
   battery |-> 0, stress |-> FALSE, inhibit |-> FALSE, prune |-> FALSE]

Init ==
  /\ objects = {}
  /\ \E places \in Starts :
       LET ids == 1 .. Len(places)
       IN  /\ \E compass \in Compasses :
                body = [p \in ids |-> [head |-> places[p], globalTailDir |-> -1,
                                      orientation |-> compass[p]]]
           /\ \E roots \in EnergyRoots :
                roots \subseteq ids /\ energy = [p \in ids |-> NewEnergy(p, roots)]
           /\ sState = [p \in ids |-> IF p = 1 THEN "Seed" ELSE "Idle"]
           /\ constructionDir = [p \in ids |-> IF p = 1 THEN 0 ELSE -1]
           /\ moveDir = [p \in ids |-> -1]
           /\ followDir = [p \in ids |-> -1]

-----------------------------------------------------------------------------
(* The energy forest; e is the energy of all particles.                    *)

\* prune()
Pruned(p, e) ==
  LET children == Children(p, e)
  IN  [q \in particles |->
        IF q = p THEN [e[p] EXCEPT !.stress = FALSE, !.inhibit = FALSE, !.prune = FALSE,
                                   !.parentLabel = -1, !.state = IF @ = "Root" THEN @ ELSE "Idle"]
        ELSE IF q \in children THEN [e[q] EXCEPT !.prune = TRUE] ELSE e[q]]

\* The pruning of an expanded particle that is about to contract, of one that is
\* about to expand in direction d.
PrunedToContract(p, e) ==
  [Pruned(p, e) EXCEPT ![p].lastParent = LabelToDir(body[p], @)]
PrunedToExpand(p, e, d) ==
  [Pruned(p, e) EXCEPT ![p].lastParent = LabelToDirAfterExpansion(@, d)]

-----------------------------------------------------------------------------
(* Shape formation.                                                        *)

ShapeLabels(p) == LabelsOfNbrs(p, InState({"Seed", "Finish"}))

\* updateMoveDir()
NextMoveDir(p) == FreeClockwise[ShapeLabels(p)]

\* constructionReceiveDir() of a contracted particle, where there is one.
ReceiveLabels(p) ==
  {l \in ShapeLabels(p) :
     LET q == NbrAtLabel(p, l) IN PointsAtMe(body[p], body[q], constructionDir[q])}
CanFinish(p) == IsContracted(body[p]) /\ ReceiveLabels(p) # {}

\* Mutant: the turn after the seed is that of the later particles.
NextConstructionDirLater(p) ==
  LET r == FirstFrom(ReceiveLabels(p), 0, 6)
      d == (r + 2) % 6
  IN  IF HasNbrAtLabel(p, d) /\ sState[NbrAtLabel(p, d)] = "Finish" THEN (d + 1) % 6 ELSE d

\* updateConstructionDir()
NextConstructionDir(p) ==
  LET r == FirstFrom(ReceiveLabels(p), 0, 6)
      d == IF sState[NbrAtLabel(p, r)] = "Seed" THEN (r + 1) % 6 ELSE (r + 2) % 6
  IN  IF HasNbrAtLabel(p, d) /\ sState[NbrAtLabel(p, d)] = "Finish" THEN (d + 1) % 6 ELSE d

HasTailFollower(p) ==
  \E q \in InState({"Follow"}) \ {p} :
    PointsAtMyTail(body[p], body[q], DirToHeadLabel(body[q], followDir[q]))

\* The guards of the paths of useEnergy() that do an action.
MayContract(p) ==
  /\ IsExpanded(body[p])
  /\ sState[p] \in {"Follow", "Lead"}
  /\ ~ HasNbrInState(p, {"Idle"})
  /\ ~ HasTailFollower(p)
MayLead(p) ==
  /\ IsContracted(body[p])
  /\ sState[p] \in {"Idle", "Follow"}
  /\ ShapeLabels(p) # {}
MayFollow(p) ==
  /\ IsContracted(body[p])
  /\ sState[p] = "Idle"
  /\ ShapeLabels(p) = {}
  /\ HasNbrInState(p, {"Lead", "Follow"})
MayPush(p) ==
  /\ IsContracted(body[p])
  /\ sState[p] = "Follow"
  /\ ShapeLabels(p) = {}
  /\ HasTailAtLabel(p, followDir[p])
IsWalking(p) == IsContracted(body[p]) /\ sState[p] = "Lead"

MayAct(p) == MayContract(p) \/ MayLead(p) \/ MayFollow(p) \/ MayPush(p) \/ IsWalking(p)

Contract(p, e) ==
  /\ MayContract(p)
  /\ energy' = Paid(p, PrunedToContract(p, e))
  /\ body' = AfterContractTail(p)
  /\ UNCHANGED <<objects, sState, constructionDir, followDir>>
  /\ moveDir' = IF sState[p] = "Lead" THEN [moveDir EXCEPT ![p] = NextMoveDir(p)'] ELSE moveDir

BecomeLead(p, e) ==
  /\ MayLead(p)
  /\ energy' = Paid(p, e)
  /\ sState' = [sState EXCEPT ![p] = "Lead"]
  /\ moveDir' = [moveDir EXCEPT ![p] = NextMoveDir(p)]
  /\ UNCHANGED <<body, objects, constructionDir, followDir>>

BecomeFollow(p, e) ==
  /\ MayFollow(p)
  /\ energy' = Paid(p, e)
  /\ sState' = [sState EXCEPT ![p] = "Follow"]
  /\ followDir' = [followDir EXCEPT ![p] = LabelOfFirstNbr(p, InState({"Lead", "Follow"}), 0)]
  /\ UNCHANGED <<body, objects, constructionDir, moveDir>>

\* Mutant: the particle that is pushed keeps its place in the forest.
HandedOverAlone(p, e, d) == Paid(p, PrunedToExpand(p, e, d))

\* The energy after a push in direction d: first the particle that is pushed is
\* pruned, then the one that pushes.
HandedOver(p, e, d) == Paid(p, PrunedToExpand(p, PrunedToContract(NbrAtLabel(p, d), e), d))

Push(p, e) ==
  /\ MayPush(p)
  /\ energy' = HandedOver(p, e, followDir[p])
  /\ body' = AfterPush(p, followDir[p])
  /\ LET nbr == body[NbrAtLabel(p, followDir[p])]
     IN  followDir' = [followDir EXCEPT ![p] = NbrDirToDir(body[p], nbr, Opposite(TailDir(nbr)))]
  /\ UNCHANGED <<objects, sState, constructionDir, moveDir>>

Finish(p, e) ==
  /\ IsWalking(p)
  /\ CanFinish(p)
  /\ energy' = Paid(p, e)
  /\ sState' = [sState EXCEPT ![p] = "Finish"]
  /\ constructionDir' = [constructionDir EXCEPT ![p] = NextConstructionDir(p)]
  /\ UNCHANGED <<body, objects, moveDir, followDir>>

\* A leader that cannot move pays, too.
Walk(p, e) ==
  /\ IsWalking(p)
  /\ ~ CanFinish(p)
  /\ \E d \in {NextMoveDir(p)} :
       /\ moveDir' = [moveDir EXCEPT ![p] = d]
       /\ \/ /\ ~ HasNbrAtLabel(p, d)
             /\ energy' = Paid(p, PrunedToExpand(p, e, d))
             /\ body' = AfterExpand(p, d)
          \/ /\ HasTailAtLabel(p, d)
             /\ energy' = HandedOver(p, e, d)
             /\ body' = AfterPush(p, d)
          \/ /\ HasNbrAtLabel(p, d) /\ ~ HasTailAtLabel(p, d)
             /\ energy' = Paid(p, e)
             /\ UNCHANGED body
  /\ UNCHANGED <<objects, sState, constructionDir, followDir>>

-----------------------------------------------------------------------------
Adopters == {q \in particles : energy[q].state \in {"Root", "Active"} /\ ~ energy[q].prune}

Join(p) ==
  /\ energy[p].state = "Idle"
  /\ LabelsOfNbrs(p, Adopters) # {}
  /\ \E l \in {LabelOfFirstNbr(p, Adopters, energy[p].lastParent)} :
       energy' = [energy EXCEPT ![p].state = "Active", ![p].parentLabel = l, ![p].lastParent = l]
  /\ UNCHANGED <<objects, shapeVars>>

PassPruneOn(p) ==
  /\ energy[p].state # "Idle"
  /\ energy[p].prune
  /\ energy' = Pruned(p, energy)
  /\ UNCHANGED <<objects, shapeVars>>

\* useEnergy()
UseEnergy(p, e) ==
  IF ~ e[p].inhibit /\ e[p].battery >= Demand /\ MayAct(p)
  THEN \/ Contract(p, e) \/ BecomeLead(p, e) \/ BecomeFollow(p, e)
       \/ Push(p, e) \/ Finish(p, e) \/ Walk(p, e)
  ELSE energy' = e /\ UNCHANGED <<objects, shapeVars>>

\* communicate(), shareEnergy() and useEnergy().
Live(p) ==
  /\ energy[p].state # "Idle"
  /\ ~ energy[p].prune
  /\ \E e \in AfterSharing(p, energy) : UseEnergy(p, e)

Activate(p) == Join(p) \/ PassPruneOn(p) \/ Live(p)

Next == \E p \in particles : Activate(p)

HasTerminated ==
  /\ InState({"Seed", "Finish"}) = particles
  /\ \A p \in particles : ~ energy[p].stress /\ ~ energy[p].inhibit

\* What the system does for ever at random; nothing is claimed about its end.
Spec == Init /\ [][Next]_vars

-----------------------------------------------------------------------------
(* Properties                                                              *)

EnergyRecord ==
  [state : {"Root", "Idle", "Active"}, parentLabel : {-1} \cup 0..9, lastParent : 0..9,
   battery : 0 .. Capacity, stress : BOOLEAN, inhibit : BOOLEAN, prune : BOOLEAN]

\* The type invariant; a label that is kept is one the particle has.
TypeOK ==
  /\ body \in [particles -> Body]
  /\ energy \in [particles -> EnergyRecord]
  /\ \A p \in particles :
       {energy[p].parentLabel, energy[p].lastParent} \subseteq {-1} \cup Labels(body[p])
  /\ sState \in [particles -> {"Seed", "Idle", "Follow", "Lead", "Finish"}]
  /\ {constructionDir, moveDir, followDir} \subseteq [particles -> {-1} \cup Dir]

ParentNode(p) == NbrNode(body[p], energy[p].parentLabel)
Members == {p \in particles : energy[p].state = "Active" /\ ~ energy[p].prune}

\* Whatever moves, a particle that has not been told to leave the energy forest
\* (prune) has a parent to read from in communicate(), which has not left it
\* either, and no parents point in a circle but for one who knows.
ForestStands ==
  /\ \A p \in Members :
       /\ ParentNode(p) \in Occupied \ Nodes(body[p])
       /\ energy[ParticleAt(ParentNode(p))].state # "Idle"
  /\ \A C \in SUBSET Members : C # {} => \E p \in C : ParticleAt(ParentNode(p)) \notin C

Shape == INSTANCE ShapeFormation
  WITH Modes <- {"h"}, Orientation <- Dir, FreshTurnSignal <- {0}, mode <- "h", state <- sState,
       turnSignal <- [p \in particles |-> 0]

\* With the energy left out it is the hexagon mode of shape formation, step by
\* step (useEnergy).
ImplementsShapeFormation == Shape!Init /\ [][Shape!Next]_(Shape!vars)
=============================================================================
