---------------------------- MODULE LocalParticle ----------------------------
(***************************************************************************)
(* The local view of one particle (core/particle.h, core/localparticle.h): *)
(* where its body lies, the labels of its ports, and the translation       *)
(* between its own compass, its labels and the global directions.          *)
(*                                                                         *)
(* A body is a record: the node of the head, the global direction from     *)
(* head to tail (-1 when contracted) and the offset of the local compass.  *)
(* Every operator here is a const member function of the code; the moves   *)
(* at the end are what AmoebotParticle does to the two mutable fields.     *)
(***************************************************************************)
EXTENDS Lattice

Body == [head : Node, globalTailDir : {-1} \cup Dir, orientation : Dir]

IsContracted(b) == b.globalTailDir = -1
IsExpanded(b)   == ~ IsContracted(b)

TailNode(b) == NodeInDir(b.head, b.globalTailDir)

\* The nodes a body occupies.
Nodes(b) == IF IsContracted(b) THEN {b.head} ELSE {b.head, TailNode(b)}

-----------------------------------------------------------------------------
(* The compass of a particle against the global one.                       *)

LocalToGlobalDir(b, d) == (b.orientation + d) % 6
GlobalToLocalDir(b, d) == (d - b.orientation + 6) % 6

TailDir(b) == IF IsContracted(b) THEN -1 ELSE GlobalToLocalDir(b, b.globalTailDir)

-----------------------------------------------------------------------------
(* Ports.  A contracted particle has labels 0..5, an expanded one 0..9;    *)
(* the tables are indexed by the local direction of the tail.              *)

labels ==
  << {3, 4, 5, 6, 7}, {4, 5, 6, 7, 8}, {7, 8, 9, 0, 1},
     {8, 9, 0, 1, 2}, {9, 0, 1, 2, 3}, {2, 3, 4, 5, 6} >>

contractLabels == <<0, 1, 4, 5, 6, 9>>

labelDir ==
  << <<0, 1, 2, 1, 2, 3, 4, 5, 4, 5>>,
     <<0, 1, 2, 3, 2, 3, 4, 5, 0, 5>>,
     <<0, 1, 0, 1, 2, 3, 4, 3, 4, 5>>,
     <<0, 1, 2, 1, 2, 3, 4, 5, 4, 5>>,
     <<0, 1, 2, 3, 2, 3, 4, 5, 0, 5>>,
     <<0, 1, 0, 1, 2, 3, 4, 3, 4, 5>> >>

LabelLimit(b) == IF IsContracted(b) THEN 6 ELSE 10
Labels(b)     == 0 .. LabelLimit(b) - 1

LabelToDir(b, l) == IF IsContracted(b) THEN l ELSE labelDir[TailDir(b) + 1][l + 1]

LabelToGlobalDir(b, l) == LocalToGlobalDir(b, LabelToDir(b, l))

HeadLabels(b) == IF IsContracted(b) THEN Labels(b) ELSE labels[TailDir(b) + 1]
TailLabels(b) == labels[Opposite(TailDir(b)) + 1]

OccupiedNodeIncidentToLabel(b, l) ==
  IF l \in HeadLabels(b) THEN b.head ELSE TailNode(b)

NbrNode(b, l) == NodeInDir(OccupiedNodeIncidentToLabel(b, l), LabelToGlobalDir(b, l))

\* Mutant: each label is compared with the one before the one before it.
UniqueLabelsTwoBack(b) ==
  IF IsContracted(b)
  THEN Labels(b)
  ELSE {l \in Labels(b) : NbrNode(b, l) # NbrNode(b, (l + 8) % 10)}

\* The labels that reach a node no earlier label of the same corner reaches.
UniqueLabels(b) ==
  IF IsContracted(b)
  THEN Labels(b)
  ELSE {l \in Labels(b) : NbrNode(b, l) # NbrNode(b, (l + 9) % 10)}

\* Defined only for directions that some head (tail) port has: the code
\* asserts that one exists.
DirToHeadLabel(b, d) == CHOOSE l \in HeadLabels(b) : LabelToDir(b, l) = d
DirToTailLabel(b, d) == CHOOSE l \in TailLabels(b) : LabelToDir(b, l) = d

LabelOfNbrNodeInGlobalDir(b, n, d) ==
  CHOOSE l \in Labels(b) : LabelToGlobalDir(b, l) = d /\ NbrNode(b, l) = n

HeadContractionLabel(b) == contractLabels[TailDir(b) + 1]
TailContractionLabel(b) == contractLabels[Opposite(TailDir(b)) + 1]

-----------------------------------------------------------------------------
(* Searches among ports and directions.                                    *)

\* The first of a set of labels in a counter-clockwise scan from start; the
\* code returns -1 where there is none.
FirstFrom(L, start, limit) ==
  CHOOSE l \in L : \A m \in L : (l - start + limit) % limit <= (m - start + limit) % limit

\* The walk along a surface: the first direction that has none of the surface,
\* clockwise from the first that has; L holds the directions that have.
FreeClockwise ==
  [L \in (SUBSET Dir) \ {{}, Dir} |->
     CHOOSE d \in Dir \ L :
       \E k \in 1..5 : \A i \in 1..k :
         /\ (d + i) % 6 \in L
         /\ i = k => \A l \in L : (d + i) % 6 <= l]

-----------------------------------------------------------------------------
(* What a contracted particle predicts about its ports once it has         *)
(* expanded in local direction e.                                          *)

LabelToDirAfterExpansion(l, e)   == labelDir[Opposite(e) + 1][l + 1]
HeadLabelsAfterExpansion(e)      == labels[Opposite(e) + 1]
TailLabelsAfterExpansion(e)      == labels[Opposite(Opposite(e)) + 1]

DirToHeadLabelAfterExpansion(d, e) ==
  CHOOSE l \in HeadLabelsAfterExpansion(e) : LabelToDirAfterExpansion(l, e) = d
DirToTailLabelAfterExpansion(d, e) ==
  CHOOSE l \in TailLabelsAfterExpansion(e) : LabelToDirAfterExpansion(l, e) = d

HeadContractionLabelAfterExpansion(e) == contractLabels[Opposite(e) + 1]
\* Mutant: turned round once too often.
TailContractionLabelAfterExpansionOfHead(e) == contractLabels[Opposite(e) + 1]
TailContractionLabelAfterExpansion(e) == contractLabels[e + 1]

-----------------------------------------------------------------------------
(* Two particles.                                                          *)

\* Mutant: the compasses are swapped.
NbrDirToDirSwapped(b, nb, d) == GlobalToLocalDir(nb, LocalToGlobalDir(b, d))

NbrDirToDir(b, nb, d) == GlobalToLocalDir(b, LocalToGlobalDir(nb, d))
DirToNbrDir(b, nb, d) == GlobalToLocalDir(nb, LocalToGlobalDir(b, d))

PointsAtMyHead(b, nb, l) == NbrNode(nb, l) = b.head
PointsAtMyTail(b, nb, l) == NbrNode(nb, l) = TailNode(b)
PointsAtMe(b, nb, l) ==
  PointsAtMyHead(b, nb, l) \/ (IsExpanded(b) /\ PointsAtMyTail(b, nb, l))

-----------------------------------------------------------------------------
(* The effect of the moves on the body that moves.                         *)

\* expand(l) and the body that pushes; l is a label of a contracted body.
Expanded(b, l) ==
  [b EXCEPT !.head = NodeInDir(@, LocalToGlobalDir(b, l)),
            !.globalTailDir = Opposite(LocalToGlobalDir(b, l))]

\* contractHead() and contractTail(): the body left on the tail, on the head.
HeadContracted(b) == [b EXCEPT !.head = TailNode(b), !.globalTailDir = -1]
TailContracted(b) == [b EXCEPT !.globalTailDir = -1]

\* contract(l)
Contracted(b, l) == IF l = HeadContractionLabel(b) THEN HeadContracted(b) ELSE TailContracted(b)

\* The expanded body that hands node n over.
Released(b, n) == IF n = b.head THEN HeadContracted(b) ELSE TailContracted(b)

\* The contracted body that is pulled onto node n, tail in global direction d.
PulledOnto(b, n, d) == [b EXCEPT !.head = n, !.globalTailDir = d]
=============================================================================
