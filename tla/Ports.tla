-------------------------------- MODULE Ports --------------------------------
(***************************************************************************)
(* The port labels and compasses of core/localparticle.cpp against the     *)
(* geometry they stand for, over the bodies a system can hold.             *)
(***************************************************************************)
EXTENDS AmoebotSystem

Bodies == {body[p] : p \in particles}

\* Going up the labels walks round the body counter-clockwise: at one node the
\* next port points one direction further, and where the walk changes from
\* head to tail the next port reaches the same neighbour from the other end;
\* no node next to the body is missed.
PortsCircleBody ==
  \A b \in Bodies :
    /\ {NbrNode(b, l) : l \in Labels(b)} = NbrsOfSet(Nodes(b))
    /\ \A l \in Labels(b) :
         LET m == (l + 1) % LabelLimit(b)
         IN  IF OccupiedNodeIncidentToLabel(b, l) = OccupiedNodeIncidentToLabel(b, m)
             THEN LabelToGlobalDir(b, m) = (LabelToGlobalDir(b, l) + 1) % 6
             ELSE NbrNode(b, m) = NbrNode(b, l)

\* uniqueLabels reaches every node next to the body, and none of them twice.
UniqueLabelsExact ==
  \A b \in Bodies :
    /\ {NbrNode(b, l) : l \in UniqueLabels(b)} = NbrsOfSet(Nodes(b))
    /\ \A k, l \in UniqueLabels(b) : NbrNode(b, k) = NbrNode(b, l) => k = l

\* dirToHeadLabel and dirToTailLabel never reach their failing assertion for a
\* direction that leaves the body, and give back the port of that direction;
\* labelOfNbrNodeInGlobalDir inverts the two functions it searches.
DirLabelInverse ==
  \A b \in Bodies :
    /\ \A d \in Dir :
         /\ d # TailDir(b) =>
              /\ \E l \in HeadLabels(b) : LabelToDir(b, l) = d
              /\ NbrNode(b, DirToHeadLabel(b, d)) = NodeInDir(b.head, LocalToGlobalDir(b, d))
         /\ (IsExpanded(b) /\ Opposite(d) # TailDir(b)) =>
              /\ \E l \in TailLabels(b) : LabelToDir(b, l) = d
              /\ NbrNode(b, DirToTailLabel(b, d))
                   = NodeInDir(TailNode(b), LocalToGlobalDir(b, d))
    /\ \A l \in Labels(b) :
         LabelOfNbrNodeInGlobalDir(b, NbrNode(b, l), LabelToGlobalDir(b, l)) = l

\* contract(label) takes the label on the far side of the node that is kept:
\* the head contraction label lies beyond the tail, in line with the body.
ContractionInLine ==
  \A b \in Bodies : IsExpanded(b) =>
    /\ NbrNode(b, HeadContractionLabel(b)) = NodeInDir(TailNode(b), b.globalTailDir)
    /\ NbrNode(b, TailContractionLabel(b)) = NodeInDir(b.head, Opposite(b.globalTailDir))
    /\ Nodes(Contracted(b, HeadContractionLabel(b))) = {TailNode(b)}
    /\ Nodes(Contracted(b, TailContractionLabel(b))) = {b.head}

\* What a contracted particle computes with the ...AfterExpansion functions is
\* what it finds once it has expanded, in every direction.
PredictionRight ==
  \A b \in Bodies : IsContracted(b) =>
    \A e \in Dir :
      LET x == Expanded(b, e)
      IN  /\ HeadLabelsAfterExpansion(e) = HeadLabels(x)
          /\ TailLabelsAfterExpansion(e) = TailLabels(x)
          /\ HeadContractionLabelAfterExpansion(e) = HeadContractionLabel(x)
          /\ TailContractionLabelAfterExpansion(e) = TailContractionLabel(x)
          /\ \A l \in Labels(x) : LabelToDirAfterExpansion(l, e) = LabelToDir(x, l)
          /\ \A d \in Dir :
               /\ d # TailDir(x) =>
                    DirToHeadLabelAfterExpansion(d, e) = DirToHeadLabel(x, d)
               /\ Opposite(d) # TailDir(x) =>
                    DirToTailLabelAfterExpansion(d, e) = DirToTailLabel(x, d)

\* Neighbours see each other: a port that reaches a neighbour's node is faced
\* by a port of the neighbour that points back at it, in the opposite
\* direction of either compass.
PortsFaceEachOther ==
  \A p \in particles, q \in particles :
    LET b  == body[p]
        nb == body[q]
    IN  \A l \in Labels(b) :
          (p # q /\ PointsAtMe(nb, b, l)) =>
            \E k \in Labels(nb) :
              /\ PointsAtMe(b, nb, k)
              /\ NbrNode(nb, k) = OccupiedNodeIncidentToLabel(b, l)
              /\ NbrDirToDir(b, nb, LabelToDir(nb, k)) = Opposite(LabelToDir(b, l))
              /\ DirToNbrDir(b, nb, LabelToDir(b, l)) = Opposite(LabelToDir(nb, k))
              /\ CASE HasHeadAtLabel(p, l) -> PointsAtMyHead(nb, b, l)
                   [] HasTailAtLabel(p, l) -> PointsAtMyTail(nb, b, l)
                   [] OTHER -> FALSE

\* The label tables of a single body mean what the lattice says.
PortTables == PortsCircleBody /\ UniqueLabelsExact /\ DirLabelInverse /\ ContractionInLine

\* Two bodies agree about the ports between them and about a handover.
PairsAgree == PortsFaceEachOther /\ HandoverSymmetric
=============================================================================
