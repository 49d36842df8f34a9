--------------------------- MODULE HexagonFormation ---------------------------
(***************************************************************************)
(* alg/hexagonformation.cpp: followers walk behind roots in a forest,      *)
(* roots walk clockwise round the hexagon that grows from the seed, and a  *)
(* root retires where the last particle of the hexagon points.             *)
(*                                                                         *)
(* The particles are numbered, the seed is number 1.                       *)
(***************************************************************************)
EXTENDS Amoebots, LatticeFigures, Sequences

CONSTANTS
  Starts,            \* the nodes the constructor fills, in the order of the numbers
  Compasses          \* the draws of randDir(), one direction per particle

\* The constructor puts every further particle next to an earlier one.
ASSUME StartsAssumption ==
  \A places \in Starts :
    /\ places \in Seq(Node) /\ places # << >> /\ places[1] = <<0, 0>>
    /\ \A i, j \in 1 .. Len(places) : places[i] = places[j] => i = j
    /\ Connected({places[i] : i \in 1 .. Len(places)})
    /\ \A compass \in Compasses : \A p \in 1 .. Len(places) : compass[p] \in Dir

VARIABLES
  state,             \* _state, _parentDir and _hexagonDir of each particle
  parentDir,
  hexagonDir

vars == <<body, objects, state, parentDir, hexagonDir>>

InState(S) == {p \in particles : state[p] \in S}
HasNbrInState(p, S) == LabelsOfNbrs(p, InState(S)) # {}

InHexagon == InState({"Seed", "Retired"})
HexagonLabels(p) == LabelsOfNbrs(p, InHexagon)

\* headLabels() and tailLabels() list labels that lie side by side from here.
FirstLabel(L) == CHOOSE l \in L : (l + 9) % 10 \notin L

\* nextHexagonDir(turn): from the first head label at the hexagon, the first
\* label in the turning direction that is not.  The code reads an unset
\* variable if no head label is at the hexagon, and does not return if all are.
NextHexagonDir(p, turn) ==
  LET limit == LabelLimit(body[p])
      heads == HeadLabels(body[p])
      walls == HexagonLabels(p)
      start == FirstFrom(walls \cap heads, FirstLabel(heads), limit)
      ahead(i) == (start + i * turn) % limit
      steps == CHOOSE i \in 1 .. limit - 1 :
                 ahead(i) \notin walls /\ \A j \in 1 .. i - 1 : ahead(j) \in walls
  IN  LabelToDir(body[p], ahead(steps))

CanRetire(p) == \E q \in {NbrAtLabel(p, l) : l \in HexagonLabels(p)} :
                  PointsAtMe(body[p], body[q], hexagonDir[q])

\* The pointer of a follower is a direction of its head.
ParentLabel(q) == DirToHeadLabel(body[q], parentDir[q])
ParentNode(q)  == NbrNode(body[q], ParentLabel(q))

HasTailChild(p) ==
  \E q \in particles \ {p} : parentDir[q] # -1 /\ PointsAtMyTail(body[p], body[q], ParentLabel(q))

ConTailChildren(p) ==
  {q \in particles : /\ IsContracted(body[q])
                     /\ parentDir[q] # -1
                     /\ PointsAtMyTail(body[p], body[q], parentDir[q])}

ConTailChildLabels(p) == TailLabels(body[p]) \cap LabelsOfNbrs(p, ConTailChildren(p))

-----------------------------------------------------------------------------
(* The guards of activate(), each with the earlier ones refused.           *)

Walks(p) == IsExpanded(body[p]) /\ state[p] \in {"Follower", "Root"} /\ ~ HasNbrInState(p, {"Idle"})

Alpha1(p) == /\ IsContracted(body[p])
             /\ state[p] \in {"Idle", "Follower"}
             /\ HexagonLabels(p) # {}
Alpha2(p) == state[p] = "Idle" /\ ~ Alpha1(p) /\ HasNbrInState(p, {"Follower", "Root"})
\* Mutant: it is not asked whether the place is the next of the hexagon.
Alpha3Anywhere(p) == /\ IsContracted(body[p])
                     /\ state[p] = "Root"
                     /\ ~ HasNbrInState(p, {"Idle"})
Alpha3(p) == /\ IsContracted(body[p])
             /\ state[p] = "Root"
             /\ ~ HasNbrInState(p, {"Idle"})
             /\ CanRetire(p)
Alpha4(p) == /\ IsContracted(body[p])
             /\ state[p] = "Root"
             /\ ~ Alpha3(p)
             /\ ~ HasNbrAtLabel(p, hexagonDir[p])
Alpha5(p) == Walks(p) /\ ConTailChildLabels(p) # {}
Alpha6(p) == Walks(p) /\ ConTailChildLabels(p) = {} /\ ~ HasTailChild(p)

-----------------------------------------------------------------------------
Init ==
  /\ objects = {}
  /\ \E places \in Starts :
       LET ids == 1 .. Len(places)
       IN  /\ \E compass \in Compasses :
                body = [p \in ids |-> [head |-> places[p], globalTailDir |-> -1,
                                      orientation |-> compass[p]]]
           /\ state = [p \in ids |-> IF p = 1 THEN "Seed" ELSE "Idle"]
           /\ parentDir = [p \in ids |-> -1]
           /\ hexagonDir = [p \in ids |-> IF p = 1 THEN 0 ELSE -1]

BecomeRoot(p) ==
  /\ Alpha1(p)
  /\ state' = [state EXCEPT ![p] = "Root"]
  /\ parentDir' = [parentDir EXCEPT ![p] = -1]
  /\ hexagonDir' = [hexagonDir EXCEPT ![p] = NextHexagonDir(p, 1)]
  /\ UNCHANGED <<body, objects>>

BecomeFollower(p) ==
  /\ Alpha2(p)
  /\ state' = [state EXCEPT ![p] = "Follower"]
  /\ parentDir' = [parentDir EXCEPT ![p] = LabelOfFirstNbr(p, InState({"Follower", "Root"}), 0)]
  /\ UNCHANGED <<body, objects, hexagonDir>>

Retire(p) ==
  /\ Alpha3(p)
  /\ state' = [state EXCEPT ![p] = "Retired"]
  /\ hexagonDir' = [hexagonDir EXCEPT ![p] = NextHexagonDir(p, -1)]
  /\ UNCHANGED <<body, objects, parentDir>>

Expand(p) ==
  /\ Alpha4(p)
  /\ body' = AfterExpand(p, hexagonDir[p])
  /\ UNCHANGED <<objects, state, parentDir, hexagonDir>>

\* A root that is about to leave its tail looks where to go on.
TurnRoot(p) ==
  hexagonDir' = IF state[p] = "Root" THEN [hexagonDir EXCEPT ![p] = NextHexagonDir(p, 1)] ELSE hexagonDir

PulledLabel(p) == FirstFrom(ConTailChildLabels(p), FirstLabel(TailLabels(body[p])), 10)

\* Mutant: the child goes on pointing as it did.
PullAsIs(p) ==
  /\ Alpha5(p)
  /\ TurnRoot(p)
  /\ body' = AfterPull(p, PulledLabel(p))
  /\ UNCHANGED <<objects, state, parentDir>>

Pull(p) ==
  /\ Alpha5(p)
  /\ TurnRoot(p)
  /\ LET child == NbrAtLabel(p, PulledLabel(p))
     IN  parentDir' = [parentDir EXCEPT ![child] =
                         DirToNbrDir(body[p], body[child], Opposite(TailDir(body[p])))]
  /\ body' = AfterPull(p, PulledLabel(p))
  /\ UNCHANGED <<objects, state>>

ContractTail(p) ==
  /\ Alpha6(p)
  /\ TurnRoot(p)
  /\ body' = AfterContractTail(p)
  /\ UNCHANGED <<objects, state, parentDir>>

\* activate(); in every other case it changes nothing.
Activate(p) ==
  \/ BecomeRoot(p) \/ BecomeFollower(p) \/ Retire(p)
  \/ Expand(p) \/ Pull(p) \/ ContractTail(p)

Next == \E p \in particles : Activate(p)

HasTerminated == InHexagon = particles

\* The system activates particles at random for ever, so while one of them can
\* do something, something happens.
Spec == Init /\ [][Next]_vars /\ WF_vars(Next)

-----------------------------------------------------------------------------
(* Properties                                                              *)

States == {"Seed", "Idle", "Follower", "Root", "Retired"}

\* The type invariant; only followers and roots are ever expanded.
TypeOK ==
  /\ body \in [particles -> Body]
  /\ state \in [particles -> States]
  /\ parentDir \in [particles -> {-1} \cup Dir]
  /\ hexagonDir \in [particles -> {-1} \cup Dir]
  /\ \A p \in InState({"Seed", "Idle", "Retired"}) : IsContracted(body[p])

Hexagon == {body[p].head : p \in InHexagon}

\* The hexagon is full at every moment (alpha_3, nextHexagonDir): a whole one
\* round the seed with no hole in it, and the first nodes of the next ring, one
\* after the other.
HexagonIsFull == IsHexagon(Hexagon)

\* However handovers re-route them (alpha_5), roots keep the hexagon at their
\* head with room to walk on, so that nextHexagonDir finds where to start and
\* where to stop, and the followers' pointers make a forest under the roots.
WalkersLed ==
  /\ \A p \in InState({"Root"}) : Nbrs(body[p].head) \cap Hexagon \notin {{}, Nbrs(body[p].head)}
  /\ \A q \in InState({"Follower"}) :
       /\ \E l \in HeadLabels(body[q]) : LabelToDir(body[q], l) = parentDir[q]
       /\ ParentNode(q) \in Occupied
       /\ state[ParticleAt(ParentNode(q))] # "Idle"
  /\ \A C \in SUBSET InState({"Follower"}) :
       C # {} => \E q \in C : ParticleAt(ParentNode(q)) \notin C

\* The system stays connected, whatever contracts (alpha_5, alpha_6).
StaysConnected == Connected(Occupied)

\* The hexagon is completed.
Terminates == <>HasTerminated
=============================================================================
