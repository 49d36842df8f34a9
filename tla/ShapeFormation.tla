---------------------------- MODULE ShapeFormation ----------------------------
(***************************************************************************)
(* alg/shapeformation.cpp: particles follow one another in a forest to the *)
(* shape that grows from the seed, walk along its surface as leaders and   *)
(* finish where the last finished particle points.                         *)
(*                                                                         *)
(* The particles are numbered, the seed is number 1.                       *)
(***************************************************************************)
EXTENDS Amoebots, LatticeFigures, SequencesExt

CONSTANTS
  Modes,             \* the modes to look at: h, s, t1, t2, l
  Starts,            \* the nodes the constructor fills, in the order of the numbers
  Orientation,       \* the compass offsets it draws from
  FreshTurnSignal    \* what turnSignal holds before it is first assigned to

\* The constructor puts every further particle next to an earlier one.
ASSUME StartsAssumption ==
  /\ \A places \in Starts :
       /\ places \in Seq(Node) /\ places # << >> /\ places[1] = <<0, 0>>
       /\ \A i, j \in 1 .. Len(places) : places[i] = places[j] => i = j
       /\ Connected({places[i] : i \in 1 .. Len(places)})
  /\ Orientation \subseteq Dir
ASSUME ModesAssumption == Modes \subseteq {"h", "s", "t1", "t2", "l"}

VARIABLES
  mode,              \* the same for all particles
  state,             \* state of each particle
  turnSignal,        \* turnSignal of each particle, not initialised by the code
  constructionDir,   \* constructionDir, moveDir and followDir of each particle
  moveDir,
  followDir

vars == <<body, objects, mode, state, turnSignal, constructionDir, moveDir, followDir>>

InState(S) == {p \in particles : state[p] \in S}

HasNbrInState(p, S) == LabelsOfNbrs(p, InState(S)) # {}
StateAt(p, l, S)    == HasNbrAtLabel(p, l) /\ state[NbrAtLabel(p, l)] \in S

\* The ports that point at the shape.
ShapeLabels(p) == LabelsOfNbrs(p, InState({"Seed", "Finish"}))

\* Mutant: one turn too many.
NextMoveDirBeyond(p) == (FreeClockwise[ShapeLabels(p)] + 5) % 6

\* updateMoveDir()
NextMoveDir(p) == FreeClockwise[ShapeLabels(p)]

\* constructionReceiveDir() of a contracted particle, where there is one.
ReceiveLabels(p) ==
  {l \in ShapeLabels(p) :
     LET q == NbrAtLabel(p, l)
     IN  \/ PointsAtMe(body[p], body[q], constructionDir[q])
         \/ mode = "l" /\ PointsAtMe(body[p], body[q], Opposite(constructionDir[q]))}

CanFinish(p) == IsContracted(body[p]) /\ ReceiveLabels(p) # {}

ParentLabel(q) == DirToHeadLabel(body[q], followDir[q])
ParentNode(q)  == NbrNode(body[q], ParentLabel(q))

HasTailFollower(p) ==
  \E q \in {NbrAtLabel(p, l) : l \in LabelsOfNbrs(p, InState({"Follow"}))} :
    PointsAtMyTail(body[p], body[q], ParentLabel(q))

-----------------------------------------------------------------------------
(* updateConstructionDir(), mode by mode: the direction to point in and    *)
(* the turn signal to leave, when the particle finishes next to q, which   *)
(* it sees in direction r.                                                 *)

Turn(d, k) == (d + k) % 6

\* Mutant: the turn after the seed is that of the later particles.
HexagonTurnTwice(p, q, r) ==
  LET d == Turn(r, 2)
  IN  <<IF StateAt(p, d, {"Finish"}) THEN Turn(d, 1) ELSE d, turnSignal[p]>>

HexagonTurn(p, q, r) ==
  LET d == IF state[q] = "Seed" THEN Turn(r, 1) ELSE Turn(r, 2)
  IN  <<IF StateAt(p, d, {"Finish"}) THEN Turn(d, 1) ELSE d, turnSignal[p]>>

SquareTurn(p, q, r) ==
  LET first == CASE state[q] = "Seed"   -> <<Turn(r, 1), turnSignal[p]>>
                 [] state[q] # "Seed" /\ turnSignal[q] = 0 -> <<Turn(r, 2), 1>>
                 [] state[q] # "Seed" /\ turnSignal[q] = 1 -> <<Turn(r, 1), 0>>
                 [] OTHER               -> <<r, turnSignal[p]>>
  IN  CASE ~ StateAt(p, first[1], {"Finish", "Seed"}) -> first
        [] StateAt(p, first[1], {"Finish", "Seed"}) /\ first[2] = 1 -> <<Turn(first[1], 1), 0>>
        [] StateAt(p, first[1], {"Finish", "Seed"}) /\ first[2] = 0 -> <<Turn(first[1], 2), 1>>
        [] OTHER -> first

\* Beside the shape, with one or two particles of the last row in reach, or at
\* the start of a new row.
VertexTriangleTurn(p, q, r) ==
  LET left  == StateAt(p, Turn(r, 5), {"Finish", "Seed"})
      right == ~ left /\ StateAt(p, Turn(r, 1), {"Finish"})
      inRow == \/ left  /\ StateAt(p, Turn(r, 4), {"Finish"})
               \/ right /\ StateAt(p, Turn(r, 2), {"Finish"})
  IN  IF state[q] = "Seed"       THEN <<Turn(r, 5), turnSignal[p]>>
      ELSE IF inRow              THEN <<Turn(r, 3), turnSignal[p]>>
      ELSE IF left               THEN <<Turn(r, 2), 1>>
      ELSE IF right              THEN <<Turn(r, 4), 0>>
      ELSE IF turnSignal[q] = 0  THEN <<Turn(r, 5), turnSignal[p]>>
      ELSE IF turnSignal[q] = 1  THEN <<Turn(r, 1), turnSignal[p]>>
      ELSE <<r, turnSignal[p]>>

CenterTriangleTurn(p, q, r) ==
  LET d == Turn(r, 1)
  IN  <<IF StateAt(p, d, {"Seed", "Finish"}) THEN Turn(d, 2) ELSE d, turnSignal[p]>>

LineTurn(p, q, r) == <<Turn(r, 3), turnSignal[p]>>

ConstructionTurn(p, r) ==
  LET q == NbrAtLabel(p, r)
  IN  CASE mode = "h"  -> HexagonTurn(p, q, r)
        [] mode = "s"  -> SquareTurn(p, q, r)
        [] mode = "t1" -> VertexTriangleTurn(p, q, r)
        [] mode = "t2" -> CenterTriangleTurn(p, q, r)
        [] mode = "l"  -> LineTurn(p, q, r)

-----------------------------------------------------------------------------
Init ==
  /\ mode \in Modes
  /\ objects = {}
  /\ \E places \in Starts :
       LET ids == 1 .. Len(places)
       IN  /\ \E compass \in [ids -> Orientation] :
                body = [p \in ids |-> [head |-> places[p], globalTailDir |-> -1,
                                      orientation |-> compass[p]]]
           /\ state = [p \in ids |-> IF p = 1 THEN "Seed" ELSE "Idle"]
           /\ turnSignal \in [ids -> FreshTurnSignal]
           /\ constructionDir = [p \in ids |-> IF p = 1 THEN 0 ELSE -1]
           /\ moveDir = [p \in ids |-> -1]
           /\ followDir = [p \in ids |-> -1]

FollowContracts(p) ==
  /\ IsExpanded(body[p])
  /\ state[p] = "Follow"
  /\ ~ HasNbrInState(p, {"Idle"})
  /\ ~ HasTailFollower(p)
  /\ body' = AfterContractTail(p)
  /\ UNCHANGED <<objects, mode, state, turnSignal, constructionDir, moveDir, followDir>>

\* Mutant: followers are not waited for.
LeadContractsChildless(p) ==
  /\ IsExpanded(body[p])
  /\ state[p] = "Lead"
  /\ ~ HasNbrInState(p, {"Idle"})
  /\ body' = AfterContractTail(p)
  /\ UNCHANGED <<objects, mode, state, turnSignal, constructionDir, followDir>>
  /\ moveDir' = [moveDir EXCEPT ![p] = NextMoveDir(p)']

LeadContracts(p) ==
  /\ IsExpanded(body[p])
  /\ state[p] = "Lead"
  /\ ~ HasNbrInState(p, {"Idle"})
  /\ ~ HasTailFollower(p)
  /\ body' = AfterContractTail(p)
  /\ UNCHANGED <<objects, mode, state, turnSignal, constructionDir, followDir>>
  /\ moveDir' = [moveDir EXCEPT ![p] = NextMoveDir(p)']

BecomeLead(p) ==
  /\ IsContracted(body[p])
  /\ state[p] \in {"Idle", "Follow"}
  /\ ShapeLabels(p) # {}
  /\ state' = [state EXCEPT ![p] = "Lead"]
  /\ moveDir' = [moveDir EXCEPT ![p] = NextMoveDir(p)]
  /\ UNCHANGED <<body, objects, mode, turnSignal, constructionDir, followDir>>

\* Mutant: only leaders are followed.
BecomeFollowOfLead(p) ==
  /\ IsContracted(body[p])
  /\ state[p] = "Idle"
  /\ ShapeLabels(p) = {}
  /\ HasNbrInState(p, {"Lead"})
  /\ state' = [state EXCEPT ![p] = "Follow"]
  /\ followDir' = [followDir EXCEPT ![p] = LabelOfFirstNbr(p, InState({"Lead"}), 0)]
  /\ UNCHANGED <<body, objects, mode, turnSignal, constructionDir, moveDir>>

BecomeFollow(p) ==
  /\ IsContracted(body[p])
  /\ state[p] = "Idle"
  /\ ShapeLabels(p) = {}
  /\ HasNbrInState(p, {"Lead", "Follow"})
  /\ state' = [state EXCEPT ![p] = "Follow"]
  /\ followDir' = [followDir EXCEPT ![p] = LabelOfFirstNbr(p, InState({"Lead", "Follow"}), 0)]
  /\ UNCHANGED <<body, objects, mode, turnSignal, constructionDir, moveDir>>

FollowPushes(p) ==
  /\ IsContracted(body[p])
  /\ state[p] = "Follow"
  /\ ShapeLabels(p) = {}
  /\ HasTailAtLabel(p, followDir[p])
  /\ LET nbr == body[NbrAtLabel(p, followDir[p])]
     IN  followDir' = [followDir EXCEPT ![p] = NbrDirToDir(body[p], nbr, Opposite(TailDir(nbr)))]
  /\ body' = AfterPush(p, followDir[p])
  /\ UNCHANGED <<objects, mode, state, turnSignal, constructionDir, moveDir>>

Finish(p) ==
  /\ state[p] = "Lead"
  /\ IsContracted(body[p])
  /\ \E r \in ReceiveLabels(p) :
       /\ \A l \in ReceiveLabels(p) : r <= l
       /\ \E turn \in {ConstructionTurn(p, r)} :
            /\ constructionDir' = [constructionDir EXCEPT ![p] = turn[1]]
            /\ turnSignal' = [turnSignal EXCEPT ![p] = turn[2]]
  /\ state' = [state EXCEPT ![p] = "Finish"]
  /\ UNCHANGED <<body, objects, mode, moveDir, followDir>>

\* A leader that cannot finish goes on, into the free node ahead or into the
\* tail of the particle ahead.
LeadMoves(p) ==
  /\ IsContracted(body[p])
  /\ state[p] = "Lead"
  /\ ~ CanFinish(p)
  /\ \E dir \in Dir :
       /\ dir = NextMoveDir(p)
       /\ moveDir' = [moveDir EXCEPT ![p] = dir]
       /\ \/ ~ HasNbrAtLabel(p, dir) /\ body' = AfterExpand(p, dir)
          \/ HasTailAtLabel(p, dir)  /\ body' = AfterPush(p, dir)
          \/ HasNbrAtLabel(p, dir) /\ ~ HasTailAtLabel(p, dir) /\ UNCHANGED body
  /\ UNCHANGED <<objects, mode, state, turnSignal, constructionDir, followDir>>

\* activate(); in every other case it changes nothing.
Activate(p) ==
  \/ FollowContracts(p) \/ LeadContracts(p)
  \/ BecomeLead(p) \/ BecomeFollow(p)
  \/ FollowPushes(p) \/ Finish(p) \/ LeadMoves(p)

Next == \E p \in particles : Activate(p)

HasTerminated == InState({"Seed", "Finish"}) = particles

\* The system activates particles at random for ever, so while one of them can
\* do something, something happens.
Spec == Init /\ [][Next]_vars /\ WF_vars(Next)

-----------------------------------------------------------------------------
(* Properties                                                              *)

States == {"Seed", "Idle", "Follow", "Lead", "Finish"}
MaybeDir == {-1} \cup Dir

\* The type invariant; the shape's particles stay contracted.
TypeOK ==
  /\ body \in [particles -> Body]
  /\ state \in [particles -> States]
  /\ turnSignal \in [particles -> FreshTurnSignal \cup {0, 1}]
  /\ constructionDir \in [particles -> MaybeDir]
  /\ moveDir \in [particles -> MaybeDir]
  /\ followDir \in [particles -> MaybeDir]
  /\ \A p \in InState({"Seed", "Finish", "Idle"}) : IsContracted(body[p])

Shape == {body[p].head : p \in InState({"Seed", "Finish"})}

\* Leaders never lose the surface: the head of each is next to the shape and
\* not walled in by it, so updateMoveDir finds where to start and to stop.
LeadersOnSurface ==
  \A p \in InState({"Lead"}) : Nbrs(body[p].head) \cap Shape \notin {{}, Nbrs(body[p].head)}

\* However handovers re-route them, the followers' pointers make a forest.
FollowersLed ==
  /\ \A q \in InState({"Follow"}) :
       /\ \E l \in HeadLabels(body[q]) : LabelToDir(body[q], l) = followDir[q]
       /\ ParentNode(q) \in Occupied
       /\ state[ParticleAt(ParentNode(q))] # "Idle"
  /\ \A C \in SUBSET InState({"Follow"}) :
       C # {} => \E q \in C : ParticleAt(ParentNode(q)) \notin C

\* The system stays connected, whatever contracts.
StaysConnected == Connected(Occupied)

\* The four together: through every handover and contraction (LeadContracts,
\* FollowContracts) nobody loses the surface, the way to it or the others.
ForestOnSurface == TypeOK /\ LeadersOnSurface /\ FollowersLed /\ StaysConnected

\* At every moment the shape is its mode's figure, filled node by node: a whole
\* one with no hole in it, and the part of its next side that is one row from a
\* corner on.  The figures lie in any of the directions of the lattice, the
\* hexagon round the seed.
FigureIsFull ==
  CASE mode = "h"            -> IsHexagon(Shape)
    [] mode = "s"            -> IsSquare(Shape)
    [] mode \in {"t1", "t2"} -> IsTriangle(Shape)
    [] mode = "l"            -> IsLine(Shape)

\* The shape is completed.
Terminates == <>HasTerminated
=============================================================================
