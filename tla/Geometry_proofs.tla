--------------------------- MODULE Geometry_proofs ---------------------------
(***************************************************************************)
(* Geometry of the lattice and of the bodies of particles: the facts on    *)
(* which the proofs about the system and the algorithms rest.              *)
(***************************************************************************)
EXTENDS LocalParticle, LatticeFigures, TLAPS, WellFoundedInduction

-----------------------------------------------------------------------------
(* The lattice                                                             *)

\* A step in any direction stays on the lattice (Node::nodeInDir).
LEMMA NodeInDirType ==
  ASSUME NEW n \in Node, NEW d \in Dir
  PROVE  NodeInDir(n, d) \in Node
<1>1. xOffset[d + 1] \in Int /\ yOffset[d + 1] \in Int
  BY DEF Dir, xOffset, yOffset
<1>2. n[1] \in Int /\ n[2] \in Int
  BY DEF Node
<1> QED
  BY <1>1, <1>2 DEF NodeInDir, Node

\* (d + 3) % 6 is a direction, and it is not d.
LEMMA OppositeType ==
  ASSUME NEW d \in Dir
  PROVE  /\ Opposite(d) \in Dir
         /\ Opposite(d) # d
         /\ Opposite(Opposite(d)) = d
  BY DEF Dir, Opposite

\* A step leaves the node.
LEMMA NodeInDirMoves ==
  ASSUME NEW n \in Node, NEW d \in Dir
  PROVE  NodeInDir(n, d) # n
<1>1. n[1] \in Int /\ n[2] \in Int
  BY DEF Node
<1>2. xOffset[d + 1] \in Int /\ yOffset[d + 1] \in Int
  BY DEF Dir, xOffset, yOffset
<1>3. xOffset[d + 1] # 0 \/ yOffset[d + 1] # 0
  BY DEF Dir, xOffset, yOffset
<1>4. SUFFICES ASSUME NodeInDir(n, d) = n PROVE FALSE
  OBVIOUS
<1>5. n[1] + xOffset[d + 1] = n[1] /\ n[2] + yOffset[d + 1] = n[2]
  BY <1>4 DEF NodeInDir
<1> QED
  BY <1>1, <1>2, <1>3, <1>5

\* A step and a step in the opposite direction lead back.
LEMMA NodeInDirBack ==
  ASSUME NEW n \in Node, NEW d \in Dir
  PROVE  NodeInDir(NodeInDir(n, d), Opposite(d)) = n
<1>1. n[1] \in Int /\ n[2] \in Int /\ n = <<n[1], n[2]>>
  BY DEF Node
<1>2. /\ xOffset[d + 1] \in Int /\ yOffset[d + 1] \in Int
      /\ xOffset[Opposite(d) + 1] = 0 - xOffset[d + 1]
      /\ yOffset[Opposite(d) + 1] = 0 - yOffset[d + 1]
  BY DEF Dir, xOffset, yOffset, Opposite
<1>3. NodeInDir(n, d)[1] = n[1] + xOffset[d + 1] /\ NodeInDir(n, d)[2] = n[2] + yOffset[d + 1]
  BY DEF NodeInDir
<1>4. NodeInDir(NodeInDir(n, d), Opposite(d))
        = <<n[1] + xOffset[d + 1] + xOffset[Opposite(d) + 1],
            n[2] + yOffset[d + 1] + yOffset[Opposite(d) + 1]>>
  BY <1>3 DEF NodeInDir
<1>5. /\ n[1] + xOffset[d + 1] + xOffset[Opposite(d) + 1] = n[1]
      /\ n[2] + yOffset[d + 1] + yOffset[Opposite(d) + 1] = n[2]
  BY <1>1, <1>2
<1> QED
  BY <1>1, <1>4, <1>5

-----------------------------------------------------------------------------
(* Labels and directions                                                   *)

\* Every entry of the direction table is a direction.
LEMMA LabelDirType ==
  ASSUME NEW t \in Dir, NEW l \in 0..9
  PROVE  labelDir[t + 1][l + 1] \in Dir
  BY DEF Dir, labelDir

\* The compass translations yield directions.
LEMMA CompassType ==
  ASSUME NEW b \in Body, NEW d \in Dir
  PROVE  LocalToGlobalDir(b, d) \in Dir /\ GlobalToLocalDir(b, d) \in Dir
  BY DEF Body, Dir, LocalToGlobalDir, GlobalToLocalDir

\* Every port of a body points in a global direction.
LEMMA LabelToGlobalDirType ==
  ASSUME NEW b \in Body, NEW l \in Labels(b)
  PROVE  LabelToGlobalDir(b, l) \in Dir
<1>1. CASE IsContracted(b)
  <2>1. l \in Dir
    BY <1>1 DEF Labels, LabelLimit, Dir
  <2>2. LabelToGlobalDir(b, l) = LocalToGlobalDir(b, l)
    BY <1>1 DEF LabelToGlobalDir, LabelToDir
  <2> QED
    BY <2>1, <2>2, CompassType
<1>2. CASE ~ IsContracted(b)
  <2>1. b.globalTailDir \in Dir
    BY <1>2 DEF Body, IsContracted
  <2>2. TailDir(b) \in Dir
    BY <1>2, <2>1, CompassType DEF TailDir
  <2>3. l \in 0..9
    BY <1>2 DEF Labels, LabelLimit
  <2>4. LabelToDir(b, l) \in Dir
    BY <1>2, <2>2, <2>3, LabelDirType DEF LabelToDir
  <2> QED
    BY <2>4, CompassType DEF LabelToGlobalDir
<1> QED
  BY <1>1, <1>2

-----------------------------------------------------------------------------
(* Bodies                                                                  *)

\* The nodes of a body are nodes of the lattice: one, or two different ones.
LEMMA NodesType ==
  ASSUME NEW b \in Body
  PROVE  /\ b.head \in Node
         /\ Nodes(b) \subseteq Node
         /\ b.head \in Nodes(b)
         /\ IsContracted(b) => Nodes(b) = {b.head}
         /\ IsExpanded(b) => /\ TailNode(b) \in Node
                             /\ TailNode(b) # b.head
                             /\ Nodes(b) = {b.head, TailNode(b)}
<1>1. b.head \in Node
  BY DEF Body
<1>2. ASSUME IsExpanded(b)
      PROVE  TailNode(b) \in Node /\ TailNode(b) # b.head
  <2>1. b.globalTailDir \in Dir
    BY <1>2 DEF Body, IsExpanded, IsContracted
  <2> QED
    BY <1>1, <2>1, NodeInDirType, NodeInDirMoves DEF TailNode
<1> QED
  BY <1>1, <1>2 DEF Nodes, IsExpanded

\* A port is at a node of the body and reaches a node of the lattice.
LEMMA NbrNodeType ==
  ASSUME NEW b \in Body, NEW l \in Labels(b)
  PROVE  /\ OccupiedNodeIncidentToLabel(b, l) \in Nodes(b)
         /\ NbrNode(b, l) \in Node
<1>1. OccupiedNodeIncidentToLabel(b, l) \in Nodes(b)
  <2>1. CASE IsContracted(b)
    BY <2>1 DEF OccupiedNodeIncidentToLabel, HeadLabels, Nodes
  <2>2. CASE ~ IsContracted(b)
    BY <2>2 DEF OccupiedNodeIncidentToLabel, Nodes
  <2> QED
    BY <2>1, <2>2
<1> QED
  BY <1>1, NodesType, LabelToGlobalDirType, NodeInDirType DEF NbrNode

\* An expansion adds the node its label reaches and keeps the old one as the
\* tail (AmoebotParticle::expand, push).
LEMMA ExpandedBody ==
  ASSUME NEW b \in Body, IsContracted(b), NEW l \in Labels(b)
  PROVE  /\ Expanded(b, l) \in Body
         /\ IsExpanded(Expanded(b, l))
         /\ Expanded(b, l).head = NbrNode(b, l)
         /\ Nodes(Expanded(b, l)) = {NbrNode(b, l), b.head}
<1> DEFINE d == LocalToGlobalDir(b, l)
           x == Expanded(b, l)
<1>1. l \in Dir
  BY DEF Labels, LabelLimit, Dir
<1>2. d \in Dir /\ Opposite(d) \in Dir
  BY <1>1, CompassType, OppositeType
<1>3. b.head \in Node /\ b.orientation \in Dir
  BY DEF Body
<1>4. NbrNode(b, l) = NodeInDir(b.head, d)
  BY DEF NbrNode, OccupiedNodeIncidentToLabel, HeadLabels, LabelToGlobalDir, LabelToDir
<1>5. x.head = NodeInDir(b.head, d) /\ x.globalTailDir = Opposite(d)
  BY DEF Expanded, Body
<1>6. NodeInDir(b.head, d) \in Node
  BY <1>2, <1>3, NodeInDirType
<1>7. x \in Body
  BY <1>2, <1>6 DEF Expanded, Body
<1>8. IsExpanded(x)
  BY <1>2, <1>5 DEF IsExpanded, IsContracted, Dir
<1>9. TailNode(x) = b.head
  BY <1>2, <1>3, <1>5, NodeInDirBack DEF TailNode
<1> QED
  BY <1>4, <1>5, <1>7, <1>8, <1>9 DEF Nodes, IsExpanded

\* A contraction keeps one of the two nodes (contractHead, contractTail, and
\* the expanded particle of a handover).
LEMMA ContractedBody ==
  ASSUME NEW b \in Body, IsExpanded(b)
  PROVE  /\ HeadContracted(b) \in Body /\ Nodes(HeadContracted(b)) = {TailNode(b)}
         /\ TailContracted(b) \in Body /\ Nodes(TailContracted(b)) = {b.head}
         /\ IsContracted(HeadContracted(b)) /\ IsContracted(TailContracted(b))
<1>1. b.head \in Node /\ b.orientation \in Dir /\ TailNode(b) \in Node
  BY NodesType DEF Body
<1>2. /\ HeadContracted(b) \in Body
      /\ HeadContracted(b).head = TailNode(b)
      /\ HeadContracted(b).globalTailDir = -1
  BY <1>1 DEF HeadContracted, Body
<1>3. /\ TailContracted(b) \in Body
      /\ TailContracted(b).head = b.head
      /\ TailContracted(b).globalTailDir = -1
  BY <1>1 DEF TailContracted, Body
<1> QED
  BY <1>2, <1>3 DEF Nodes, IsContracted

\* The body that hands one of its nodes over keeps the other one.
LEMMA ReleasedBody ==
  ASSUME NEW b \in Body, IsExpanded(b), NEW n \in Nodes(b)
  PROVE  /\ Released(b, n) \in Body
         /\ IsContracted(Released(b, n))
         /\ Nodes(Released(b, n)) = Nodes(b) \ {n}
<1>1. Nodes(b) = {b.head, TailNode(b)} /\ TailNode(b) # b.head
  BY NodesType
<1> QED
  BY <1>1, ContractedBody DEF Released

\* The contracted particle of a pull ends on the node handed over, its tail
\* where it stood.
LEMMA PulledBody ==
  ASSUME NEW b \in Body, IsContracted(b),
         NEW n \in Node, NEW d \in Dir, NodeInDir(n, d) = b.head
  PROVE  /\ PulledOnto(b, n, d) \in Body
         /\ IsExpanded(PulledOnto(b, n, d))
         /\ Nodes(PulledOnto(b, n, d)) = {n, b.head}
<1>1. /\ PulledOnto(b, n, d) \in Body
      /\ PulledOnto(b, n, d).head = n
      /\ PulledOnto(b, n, d).globalTailDir = d
  BY DEF PulledOnto, Body
<1>2. IsExpanded(PulledOnto(b, n, d))
  BY <1>1 DEF IsExpanded, IsContracted, Dir
<1> QED
  BY <1>1, <1>2 DEF Nodes, IsExpanded, TailNode

-----------------------------------------------------------------------------
(* Ports: the label tables in the frame of the body, then against the      *)
(* lattice.                                                                *)

\* The ports at the two ends of an expanded body, its tail in local direction
\* t: all ten of them, each at one end.
LEMMA EndsSplitLabels ==
  ASSUME NEW t \in Dir
  PROVE  /\ labels[t + 1] \subseteq 0..9
         /\ labels[Opposite(t) + 1] = (0..9) \ labels[t + 1]
  BY DEF Dir, Opposite, labels

\* The head has a port in every direction but the one to the tail.
LEMMA HeadPorts ==
  ASSUME NEW t \in Dir
  PROVE  /\ \A l \in labels[t + 1] : labelDir[t + 1][l + 1] # t
         /\ \A d \in Dir \ {t} : \E l \in labels[t + 1] : labelDir[t + 1][l + 1] = d
         /\ \A k, l \in labels[t + 1] :
              labelDir[t + 1][k + 1] = labelDir[t + 1][l + 1] => k = l
  BY DEF Dir, labels, labelDir

\* The tail has a port in every direction but the one to the head.
LEMMA TailPorts ==
  ASSUME NEW t \in Dir
  PROVE  /\ \A l \in labels[Opposite(t) + 1] : labelDir[t + 1][l + 1] # Opposite(t)
         /\ \A d \in Dir \ {Opposite(t)} :
              \E l \in labels[Opposite(t) + 1] : labelDir[t + 1][l + 1] = d
         /\ \A k, l \in labels[Opposite(t) + 1] :
              labelDir[t + 1][k + 1] = labelDir[t + 1][l + 1] => k = l
  BY DEF Dir, Opposite, labels, labelDir

\* From one label to the next: at one end the next port points one direction
\* further; from one end to the other it points at the node between the two.
LEMMA NextPort ==
  ASSUME NEW t \in Dir, NEW l \in 0..9, NEW m, m = (l + 1) % 10
  PROVE  /\ m \in 0..9
         /\ (l \in labels[t + 1] <=> m \in labels[t + 1])
              => labelDir[t + 1][m + 1] = (labelDir[t + 1][l + 1] + 1) % 6
         /\ l \in labels[t + 1] /\ m \notin labels[t + 1]
              => labelDir[t + 1][l + 1] = (t + 5) % 6 /\ labelDir[t + 1][m + 1] = (t + 4) % 6
         /\ l \notin labels[t + 1] /\ m \in labels[t + 1]
              => labelDir[t + 1][l + 1] = (t + 2) % 6 /\ labelDir[t + 1][m + 1] = (t + 1) % 6
  BY DEF Dir, labels, labelDir

\* The label that contracts the head lies beyond the tail, in line with the
\* body, and the one that contracts the tail beyond the head.
LEMMA ContractPorts ==
  ASSUME NEW t \in Dir
  PROVE  /\ contractLabels[t + 1] \in (0..9) \ labels[t + 1]
         /\ labelDir[t + 1][contractLabels[t + 1] + 1] = t
         /\ contractLabels[Opposite(t) + 1] \in labels[t + 1]
         /\ labelDir[t + 1][contractLabels[Opposite(t) + 1] + 1] = Opposite(t)
  BY DEF Dir, Opposite, labels, labelDir, contractLabels

\* A port of the head and one of the tail point at the node between the two
\* exactly where the labels go on from one end to the other.
LEMMA CornerPorts ==
  ASSUME NEW t \in Dir, NEW k \in labels[t + 1], NEW l \in (0..9) \ labels[t + 1]
  PROVE  /\ labelDir[t + 1][k + 1] = (t + 1) % 6 /\ labelDir[t + 1][l + 1] = (t + 2) % 6
              <=> k = (l + 1) % 10
         /\ labelDir[t + 1][k + 1] = (t + 5) % 6 /\ labelDir[t + 1][l + 1] = (t + 4) % 6
              <=> l = (k + 1) % 10
  BY DEF Dir, labels, labelDir

\* The step in direction a is the sum of those in directions b and c only if b
\* and c are next to a, on either side.
LEMMA StepSums ==
  ASSUME NEW a \in Dir, NEW b \in Dir, NEW c \in Dir
  PROVE  /\ xOffset[a + 1] = xOffset[b + 1] + xOffset[c + 1]
         /\ yOffset[a + 1] = yOffset[b + 1] + yOffset[c + 1]
         <=> \/ a = (b + 1) % 6 /\ c = (b + 2) % 6
             \/ a = (b + 5) % 6 /\ c = (b + 4) % 6
  BY DEF Dir, xOffset, yOffset

\* Steps in different directions lead to different nodes.
LEMMA NodeInDirInjective ==
  ASSUME NEW n \in Node, NEW d \in Dir, NEW e \in Dir, NodeInDir(n, d) = NodeInDir(n, e)
  PROVE  d = e
<1>1. n[1] \in Int /\ n[2] \in Int
  BY DEF Node
<1>2. /\ xOffset[d + 1] \in Int /\ yOffset[d + 1] \in Int
      /\ xOffset[e + 1] \in Int /\ yOffset[e + 1] \in Int
      /\ (xOffset[d + 1] = xOffset[e + 1] /\ yOffset[d + 1] = yOffset[e + 1]) => d = e
  BY DEF Dir, xOffset, yOffset
<1>3. n[1] + xOffset[d + 1] = n[1] + xOffset[e + 1] /\ n[2] + yOffset[d + 1] = n[2] + yOffset[e + 1]
  BY DEF NodeInDir
<1> DEFINE x == n[1]
           y == n[2]
           dx == xOffset[d + 1]
           ex == xOffset[e + 1]
           dy == yOffset[d + 1]
           ey == yOffset[e + 1]
<1> HIDE DEF x, y, dx, ex, dy, ey
<1>4. dx = ex /\ dy = ey
  <2>1. x \in Int /\ y \in Int /\ dx \in Int /\ ex \in Int /\ dy \in Int /\ ey \in Int
    BY <1>1, <1>2 DEF x, y, dx, ex, dy, ey
  <2>2. x + dx = x + ex /\ y + dy = y + ey
    BY <1>3 DEF x, y, dx, ex, dy, ey
  <2> QED
    BY <2>1, <2>2
<1> QED
  BY <1>2, <1>4 DEF dx, ex, dy, ey

\* The two compass translations undo each other and keep turns.
LEMMA CompassInverse ==
  ASSUME NEW b \in Body, NEW d \in Dir
  PROVE  /\ GlobalToLocalDir(b, LocalToGlobalDir(b, d)) = d
         /\ LocalToGlobalDir(b, GlobalToLocalDir(b, d)) = d
         /\ \A k \in Dir : LocalToGlobalDir(b, (d + k) % 6) = (LocalToGlobalDir(b, d) + k) % 6
         /\ LocalToGlobalDir(b, Opposite(d)) = Opposite(LocalToGlobalDir(b, d))
         /\ GlobalToLocalDir(b, Opposite(d)) = Opposite(GlobalToLocalDir(b, d))
<1> DEFINE o == b.orientation
<1>1. o \in Dir
  BY DEF Body
<1> HIDE DEF o
<1>2. (((o + d) % 6) - o + 6) % 6 = d /\ (o + ((d - o + 6) % 6)) % 6 = d
  BY <1>1 DEF Dir
<1>3. ASSUME NEW k \in Dir
      PROVE  (o + ((d + k) % 6)) % 6 = (((o + d) % 6) + k) % 6
  BY <1>1 DEF Dir
<1>4. (((d + 3) % 6) - o + 6) % 6 = (((d - o + 6) % 6) + 3) % 6
  BY <1>1 DEF Dir
<1>5. 3 \in Dir
  BY DEF Dir
<1> QED
  BY <1>2, <1>3, <1>4, <1>5 DEF o, LocalToGlobalDir, GlobalToLocalDir, Opposite

\* A step undone names the node it came from.
LEMMA StepFrom ==
  ASSUME NEW m \in Node, NEW n \in Node, NEW d \in Dir, NodeInDir(m, d) = NodeInDir(n, d)
  PROVE  m = n
  BY NodeInDirBack

\* Two steps that meet: from n in direction b + 1, or first in direction b.
LEMMA StepsMeet ==
  ASSUME NEW n \in Node, NEW a \in Dir, NEW b \in Dir, NEW c \in Dir
  PROVE  NodeInDir(n, a) = NodeInDir(NodeInDir(n, b), c)
           <=> \/ a = (b + 1) % 6 /\ c = (b + 2) % 6
               \/ a = (b + 5) % 6 /\ c = (b + 4) % 6
<1>1. n[1] \in Int /\ n[2] \in Int
  BY DEF Node
<1>2. /\ xOffset[a + 1] \in Int /\ yOffset[a + 1] \in Int
      /\ xOffset[b + 1] \in Int /\ yOffset[b + 1] \in Int
      /\ xOffset[c + 1] \in Int /\ yOffset[c + 1] \in Int
  BY DEF Dir, xOffset, yOffset
<1>3. /\ NodeInDir(n, a) = <<n[1] + xOffset[a + 1], n[2] + yOffset[a + 1]>>
      /\ NodeInDir(NodeInDir(n, b), c)
           = <<n[1] + xOffset[b + 1] + xOffset[c + 1], n[2] + yOffset[b + 1] + yOffset[c + 1]>>
  BY DEF NodeInDir
<1> DEFINE x == n[1]
           y == n[2]
           ax == xOffset[a + 1]
           bx == xOffset[b + 1]
           cx == xOffset[c + 1]
           ay == yOffset[a + 1]
           by == yOffset[b + 1]
           cy == yOffset[c + 1]
<1>4. NodeInDir(n, a) = NodeInDir(NodeInDir(n, b), c) <=> ax = bx + cx /\ ay = by + cy
  <2>1. NodeInDir(n, a) = NodeInDir(NodeInDir(n, b), c)
          <=> x + ax = x + bx + cx /\ y + ay = y + by + cy
    BY <1>3
  <2> HIDE DEF x, y, ax, bx, cx, ay, by, cy
  <2>2. /\ x \in Int /\ ax \in Int /\ bx \in Int /\ cx \in Int
        /\ y \in Int /\ ay \in Int /\ by \in Int /\ cy \in Int
    BY <1>1, <1>2 DEF x, y, ax, bx, cx, ay, by, cy
  <2> QED
    BY <2>1, <2>2
<1> QED
  BY <1>4, StepSums

\* The frame of an expanded body: its tail direction, its two ends and their ports.
LEMMA ExpandedFrame ==
  ASSUME NEW b \in Body, IsExpanded(b)
  PROVE  /\ TailDir(b) \in Dir
         /\ b.globalTailDir \in Dir
         /\ LocalToGlobalDir(b, TailDir(b)) = b.globalTailDir
         /\ TailNode(b) = NodeInDir(b.head, b.globalTailDir)
         /\ b.head = NodeInDir(TailNode(b), Opposite(b.globalTailDir))
         /\ Labels(b) = 0..9
         /\ LabelLimit(b) = 10
         /\ HeadLabels(b) = labels[TailDir(b) + 1]
         /\ TailLabels(b) = (0..9) \ HeadLabels(b)
         /\ \A l : LabelToDir(b, l) = labelDir[TailDir(b) + 1][l + 1]
<1>1. b.globalTailDir \in Dir /\ b.head \in Node
  BY DEF Body, IsExpanded, IsContracted
<1>2. TailDir(b) = GlobalToLocalDir(b, b.globalTailDir)
  BY DEF TailDir, IsExpanded
<1>3. TailDir(b) \in Dir /\ LocalToGlobalDir(b, TailDir(b)) = b.globalTailDir
  BY <1>1, <1>2, CompassType, CompassInverse
<1>4. b.head = NodeInDir(TailNode(b), Opposite(b.globalTailDir))
  BY <1>1, NodeInDirBack DEF TailNode
<1>5. LabelLimit(b) = 10 /\ Labels(b) = 0..9
  BY DEF Labels, LabelLimit, IsExpanded
<1>6. TailLabels(b) = (0..9) \ labels[TailDir(b) + 1]
  BY <1>3, EndsSplitLabels DEF TailLabels
<1> QED
  BY <1>1, <1>3, <1>4, <1>5, <1>6 DEF TailNode, HeadLabels, LabelToDir, IsExpanded

\* A contracted body has one port in every direction.
LEMMA ContractedFrame ==
  ASSUME NEW b \in Body, IsContracted(b)
  PROVE  /\ Labels(b) = Dir
         /\ LabelLimit(b) = 6
         /\ TailDir(b) = -1
         /\ \A l \in Labels(b) : /\ LabelToDir(b, l) = l
                                 /\ LabelToGlobalDir(b, l) = LocalToGlobalDir(b, l)
                                 /\ OccupiedNodeIncidentToLabel(b, l) = b.head
  BY DEF Labels, LabelLimit, Dir, LabelToDir, LabelToGlobalDir, OccupiedNodeIncidentToLabel,
         HeadLabels, TailDir

\* From a node of the body there is a port in every direction that leaves the
\* body.
LEMMA PortExists ==
  ASSUME NEW b \in Body, NEW n \in Nodes(b), NEW d \in Dir, NodeInDir(n, d) \notin Nodes(b)
  PROVE  \E l \in Labels(b) : /\ OccupiedNodeIncidentToLabel(b, l) = n
                              /\ LabelToGlobalDir(b, l) = d
<1> DEFINE e == GlobalToLocalDir(b, d)
           t == TailDir(b)
<1>1. e \in Dir /\ LocalToGlobalDir(b, e) = d
  BY CompassType, CompassInverse
<1>2. CASE IsContracted(b)
  <2>1. n = b.head
    BY <1>2, NodesType
  <2> QED
    BY <1>1, <1>2, <2>1, ContractedFrame
<1>3. CASE IsExpanded(b)
  <2>1. /\ t \in Dir /\ LocalToGlobalDir(b, t) = b.globalTailDir
        /\ Labels(b) = 0..9 /\ HeadLabels(b) = labels[t + 1]
        /\ \A l : LabelToDir(b, l) = labelDir[t + 1][l + 1]
        /\ b.head = NodeInDir(TailNode(b), Opposite(b.globalTailDir))
        /\ TailNode(b) = NodeInDir(b.head, b.globalTailDir)
    BY <1>3, ExpandedFrame
  <2>2. Nodes(b) = {b.head, TailNode(b)}
    BY <1>3, NodesType
  <2>3. labels[t + 1] \subseteq 0..9 /\ labels[Opposite(t) + 1] = (0..9) \ labels[t + 1]
    BY <2>1, EndsSplitLabels
  <2> HIDE DEF e, t
  <2>4. CASE n = b.head
    <3>1. e # t
      BY <1>1, <2>1, <2>2, <2>4
    <3>2. PICK l \in labels[t + 1] : labelDir[t + 1][l + 1] = e
      BY <1>1, <2>1, <3>1, HeadPorts
    <3> QED
      BY <1>1, <2>1, <2>3, <2>4, <3>2 DEF OccupiedNodeIncidentToLabel, LabelToGlobalDir
  <2>5. CASE n = TailNode(b)
    <3>1. e # Opposite(t)
      <4>1. LocalToGlobalDir(b, Opposite(t)) = Opposite(b.globalTailDir)
        BY <2>1, CompassInverse
      <4> QED
        BY <1>1, <2>1, <2>2, <2>5, <4>1
    <3>2. PICK l \in labels[Opposite(t) + 1] : labelDir[t + 1][l + 1] = e
      BY <1>1, <2>1, <3>1, TailPorts
    <3> QED
      BY <1>1, <2>1, <2>3, <2>5, <3>2 DEF OccupiedNodeIncidentToLabel, LabelToGlobalDir
  <2> QED
    BY <2>2, <2>4, <2>5
<1> QED
  BY <1>2, <1>3 DEF IsExpanded

\* The local direction of a port.
LEMMA LabelToDirType ==
  ASSUME NEW b \in Body, NEW l \in Labels(b)
  PROVE  LabelToDir(b, l) \in Dir
<1>1. CASE IsContracted(b)
  BY <1>1, ContractedFrame
<1>2. CASE IsExpanded(b)
  BY <1>2, ExpandedFrame, LabelDirType
<1> QED
  BY <1>1, <1>2 DEF IsExpanded

\* No two ports of a node point in one direction.
LEMMA PortUnique ==
  ASSUME NEW b \in Body, NEW k \in Labels(b), NEW l \in Labels(b),
         OccupiedNodeIncidentToLabel(b, k) = OccupiedNodeIncidentToLabel(b, l),
         LabelToGlobalDir(b, k) = LabelToGlobalDir(b, l)
  PROVE  k = l
<1>1. LabelToDir(b, k) = LabelToDir(b, l)
  BY LabelToDirType, CompassInverse DEF LabelToGlobalDir
<1>2. CASE IsContracted(b)
  BY <1>1, <1>2, ContractedFrame
<1>3. CASE IsExpanded(b)
  <2> DEFINE t == TailDir(b)
  <2>1. /\ t \in Dir /\ Labels(b) = 0..9 /\ HeadLabels(b) = labels[t + 1]
        /\ \A i : LabelToDir(b, i) = labelDir[t + 1][i + 1]
    BY <1>3, ExpandedFrame
  <2>2. labels[Opposite(t) + 1] = (0..9) \ labels[t + 1]
    BY <2>1, EndsSplitLabels
  <2>3. TailNode(b) # b.head
    BY <1>3, NodesType
  <2>4. k \in HeadLabels(b) <=> l \in HeadLabels(b)
    BY <2>3 DEF OccupiedNodeIncidentToLabel
  <2> HIDE DEF t
  <2>5. CASE k \in HeadLabels(b)
    BY <1>1, <2>1, <2>4, <2>5, HeadPorts
  <2>6. CASE k \notin HeadLabels(b)
    BY <1>1, <2>1, <2>2, <2>4, <2>6, TailPorts
  <2> QED
    BY <2>5, <2>6
<1> QED
  BY <1>2, <1>3 DEF IsExpanded

\* Every port leaves the body.
LEMMA PortLeaves ==
  ASSUME NEW b \in Body, NEW l \in Labels(b)
  PROVE  NbrNode(b, l) \notin Nodes(b)
<1> DEFINE d == LabelToGlobalDir(b, l)
<1>1. d \in Dir /\ b.head \in Node
  BY LabelToGlobalDirType, NodesType
<1>2. CASE IsContracted(b)
  BY <1>1, <1>2, ContractedFrame, NodesType, NodeInDirMoves DEF NbrNode
<1>3. CASE IsExpanded(b)
  <2> DEFINE t == TailDir(b)
             g == b.globalTailDir
  <2>1. /\ t \in Dir /\ g \in Dir /\ LocalToGlobalDir(b, t) = g
        /\ Labels(b) = 0..9 /\ HeadLabels(b) = labels[t + 1]
        /\ \A i : LabelToDir(b, i) = labelDir[t + 1][i + 1]
        /\ b.head = NodeInDir(TailNode(b), Opposite(g))
        /\ TailNode(b) = NodeInDir(b.head, g)
    BY <1>3, ExpandedFrame
  <2>2. labels[Opposite(t) + 1] = (0..9) \ labels[t + 1]
    BY <2>1, EndsSplitLabels
  <2>3. TailNode(b) \in Node /\ Nodes(b) = {b.head, TailNode(b)}
    BY <1>3, NodesType
  <2>4. d = LocalToGlobalDir(b, LabelToDir(b, l)) /\ LabelToDir(b, l) \in Dir
    BY LabelToDirType DEF LabelToGlobalDir
  <2>5. Opposite(g) \in Dir /\ LocalToGlobalDir(b, Opposite(t)) = Opposite(g)
        /\ Opposite(t) \in Dir
    BY <2>1, OppositeType, CompassInverse
  <2> HIDE DEF t, g, d
  <2>6. CASE l \in HeadLabels(b)
    <3>1. LabelToDir(b, l) # t
      BY <2>1, <2>6, HeadPorts
    <3>2. d # g
      BY <2>1, <2>4, <3>1, CompassInverse
    <3>3. NodeInDir(b.head, d) # TailNode(b)
      BY <1>1, <2>1, <3>2, NodeInDirInjective
    <3>4. NbrNode(b, l) = NodeInDir(b.head, d)
      BY <2>6 DEF NbrNode, OccupiedNodeIncidentToLabel, d
    <3> QED
      BY <1>1, <2>3, <3>3, <3>4, NodeInDirMoves
  <2>7. CASE l \notin HeadLabels(b)
    <3>1. LabelToDir(b, l) # Opposite(t)
      BY <2>1, <2>2, <2>7, TailPorts
    <3>2. d # Opposite(g)
      BY <2>4, <2>5, <3>1, CompassInverse
    <3>3. NodeInDir(TailNode(b), d) # b.head
      BY <1>1, <2>1, <2>3, <2>5, <3>2, NodeInDirInjective
    <3>4. NbrNode(b, l) = NodeInDir(TailNode(b), d)
      BY <2>7 DEF NbrNode, OccupiedNodeIncidentToLabel, d
    <3> QED
      BY <1>1, <2>3, <3>3, <3>4, NodeInDirMoves
  <2> QED
    BY <2>6, <2>7
<1> QED
  BY <1>2, <1>3 DEF IsExpanded

\* The nodes next to a body.
LEMMA NextToBody ==
  ASSUME NEW b \in Body, NEW m
  PROVE  m \in NbrsOfSet(Nodes(b))
           <=> m \notin Nodes(b) /\ \E n \in Nodes(b), d \in Dir : m = NodeInDir(n, d)
  BY DEF NbrsOfSet, Nbrs

\* Every node next to a body is reached by a port of it.
LEMMA NextToPort ==
  ASSUME NEW b \in Body, NEW m \in NbrsOfSet(Nodes(b))
  PROVE  \E l \in Labels(b) : NbrNode(b, l) = m
<1>1. PICK n \in Nodes(b), d \in Dir : m = NodeInDir(n, d) /\ m \notin Nodes(b)
  BY NextToBody
<1>2. PICK l \in Labels(b) : OccupiedNodeIncidentToLabel(b, l) = n /\ LabelToGlobalDir(b, l) = d
  BY <1>1, PortExists
<1> QED
  BY <1>1, <1>2 DEF NbrNode

\* And a port only reaches nodes next to the body.
LEMMA PortNextTo ==
  ASSUME NEW b \in Body, NEW l \in Labels(b)
  PROVE  NbrNode(b, l) \in NbrsOfSet(Nodes(b))
  BY NextToBody, PortLeaves, NbrNodeType, LabelToGlobalDirType DEF NbrNode

\* Two ports of one node reach different nodes.
LEMMA OneEndApart ==
  ASSUME NEW b \in Body, NEW k \in Labels(b), NEW l \in Labels(b),
         OccupiedNodeIncidentToLabel(b, k) = OccupiedNodeIncidentToLabel(b, l),
         NbrNode(b, k) = NbrNode(b, l)
  PROVE  k = l
<1>1. OccupiedNodeIncidentToLabel(b, k) \in Node
  BY NbrNodeType, NodesType
<1>2. LabelToGlobalDir(b, k) \in Dir /\ LabelToGlobalDir(b, l) \in Dir
  BY LabelToGlobalDirType
<1>3. LabelToGlobalDir(b, k) = LabelToGlobalDir(b, l)
  BY <1>1, <1>2, NodeInDirInjective DEF NbrNode
<1> QED
  BY <1>3, PortUnique

\* A port of the head and one of the tail reach the same neighbour exactly
\* where the labels change from one end to the other.
LEMMA EndsMeet ==
  ASSUME NEW b \in Body, IsExpanded(b), NEW k \in HeadLabels(b), NEW l \in TailLabels(b)
  PROVE  /\ k \in Labels(b) /\ l \in Labels(b)
         /\ OccupiedNodeIncidentToLabel(b, k) = b.head
         /\ OccupiedNodeIncidentToLabel(b, l) = TailNode(b)
         /\ NbrNode(b, k) = NbrNode(b, l) <=> k = (l + 1) % 10 \/ l = (k + 1) % 10
<1> DEFINE t == TailDir(b)
           g == b.globalTailDir
           x == LabelToDir(b, k)
           y == LabelToDir(b, l)
<1>1. /\ t \in Dir /\ g \in Dir /\ LocalToGlobalDir(b, t) = g
      /\ Labels(b) = 0..9 /\ HeadLabels(b) = labels[t + 1]
      /\ TailLabels(b) = (0..9) \ HeadLabels(b)
      /\ \A i : LabelToDir(b, i) = labelDir[t + 1][i + 1]
      /\ TailNode(b) = NodeInDir(b.head, g)
  BY ExpandedFrame
<1>2. labels[t + 1] \subseteq 0..9 /\ b.head \in Node
  BY <1>1, EndsSplitLabels, NodesType
<1>3. k \in Labels(b) /\ l \in Labels(b) /\ k \in HeadLabels(b) /\ l \notin HeadLabels(b)
  BY <1>1, <1>2
<1>4. /\ OccupiedNodeIncidentToLabel(b, k) = b.head
      /\ OccupiedNodeIncidentToLabel(b, l) = TailNode(b)
  BY <1>3 DEF OccupiedNodeIncidentToLabel
<1>5. x \in Dir /\ y \in Dir
  BY <1>3, LabelToDirType
<1>6. NbrNode(b, k) = NodeInDir(b.head, LocalToGlobalDir(b, x))
      /\ NbrNode(b, l) = NodeInDir(NodeInDir(b.head, g), LocalToGlobalDir(b, y))
  BY <1>1, <1>4 DEF NbrNode, LabelToGlobalDir
<1>7. /\ x = (t + 1) % 6 /\ y = (t + 2) % 6 <=> k = (l + 1) % 10
      /\ x = (t + 5) % 6 /\ y = (t + 4) % 6 <=> l = (k + 1) % 10
  BY <1>1, <1>2, <1>3, CornerPorts
<1>8. \A z \in Dir, i \in Dir : LocalToGlobalDir(b, z) = (g + i) % 6 <=> z = (t + i) % 6
  <2>1. ASSUME NEW z \in Dir, NEW i \in Dir
        PROVE  LocalToGlobalDir(b, z) = (g + i) % 6 <=> z = (t + i) % 6
    <3>1. LocalToGlobalDir(b, (t + i) % 6) = (g + i) % 6
      BY <1>1, CompassInverse
    <3>2. (t + i) % 6 \in Dir
      BY <1>1 DEF Dir
    <3> QED
      BY <3>1, <3>2, CompassInverse
  <2> QED
    BY <2>1
<1>9. LocalToGlobalDir(b, x) \in Dir /\ LocalToGlobalDir(b, y) \in Dir
  BY <1>5, CompassType
<1> HIDE DEF t, g, x, y
<1>10. NbrNode(b, k) = NbrNode(b, l)
         <=> \/ LocalToGlobalDir(b, x) = (g + 1) % 6 /\ LocalToGlobalDir(b, y) = (g + 2) % 6
             \/ LocalToGlobalDir(b, x) = (g + 5) % 6 /\ LocalToGlobalDir(b, y) = (g + 4) % 6
  BY <1>1, <1>2, <1>6, <1>9, StepsMeet
<1>11. 1 \in Dir /\ 2 \in Dir /\ 4 \in Dir /\ 5 \in Dir
  BY DEF Dir
<1> QED
  BY <1>3, <1>4, <1>5, <1>7, <1>8, <1>10, <1>11

\* Every label is one of the head or one of the tail.
LEMMA EndOfLabel ==
  ASSUME NEW b \in Body, IsExpanded(b), NEW l \in Labels(b)
  PROVE  /\ l \in HeadLabels(b) \/ l \in TailLabels(b)
         /\ OccupiedNodeIncidentToLabel(b, l) = b.head <=> l \in HeadLabels(b)
         /\ TailNode(b) # b.head
  BY ExpandedFrame, NodesType DEF OccupiedNodeIncidentToLabel

\* Two different ports that reach the same node are successive ones, at the two
\* ends of an expanded body.
LEMMA PortsMeet ==
  ASSUME NEW b \in Body, NEW k \in Labels(b), NEW l \in Labels(b), k # l,
         NbrNode(b, k) = NbrNode(b, l)
  PROVE  /\ IsExpanded(b)
         /\ OccupiedNodeIncidentToLabel(b, k) # OccupiedNodeIncidentToLabel(b, l)
         /\ k = (l + 1) % 10 \/ l = (k + 1) % 10
<1>1. OccupiedNodeIncidentToLabel(b, k) # OccupiedNodeIncidentToLabel(b, l)
  BY OneEndApart
<1>2. IsExpanded(b)
  BY <1>1, ContractedFrame DEF IsExpanded
<1>3. \/ k \in HeadLabels(b) /\ l \in TailLabels(b)
      \/ l \in HeadLabels(b) /\ k \in TailLabels(b)
  BY <1>1, <1>2, EndOfLabel DEF OccupiedNodeIncidentToLabel
<1> QED
  BY <1>1, <1>2, <1>3, EndsMeet

\* The labels walk round the body.
LEMMA LabelsCircle ==
  ASSUME NEW b \in Body, NEW l \in Labels(b), NEW m, m = (l + 1) % LabelLimit(b)
  PROVE  IF OccupiedNodeIncidentToLabel(b, l) = OccupiedNodeIncidentToLabel(b, m)
         THEN LabelToGlobalDir(b, m) = (LabelToGlobalDir(b, l) + 1) % 6
         ELSE NbrNode(b, m) = NbrNode(b, l)
<1>0. 1 \in Dir
  BY DEF Dir
<1>1. CASE IsContracted(b)
  <2>1. l \in Dir /\ m = (l + 1) % 6 /\ m \in Labels(b)
    BY <1>1, ContractedFrame DEF Dir
  <2>2. LabelToGlobalDir(b, l) = LocalToGlobalDir(b, l)
        /\ LabelToGlobalDir(b, m) = LocalToGlobalDir(b, (l + 1) % 6)
        /\ OccupiedNodeIncidentToLabel(b, l) = OccupiedNodeIncidentToLabel(b, m)
    BY <1>1, <2>1, ContractedFrame
  <2> QED
    BY <1>0, <2>1, <2>2, CompassInverse
<1>2. CASE IsExpanded(b)
  <2> DEFINE t == TailDir(b)
  <2>1. /\ t \in Dir /\ Labels(b) = 0..9 /\ LabelLimit(b) = 10
        /\ HeadLabels(b) = labels[t + 1]
        /\ TailLabels(b) = (0..9) \ HeadLabels(b)
        /\ \A i : LabelToDir(b, i) = labelDir[t + 1][i + 1]
    BY <1>2, ExpandedFrame
  <2>2. m = (l + 1) % 10 /\ m \in Labels(b) /\ l \in 0..9
    BY <2>1
  <2> HIDE DEF t
  <2>3. CASE l \in HeadLabels(b) <=> m \in HeadLabels(b)
    <3>0. l \in labels[t + 1] <=> m \in labels[t + 1]
      BY <2>1, <2>3
    <3>1. labelDir[t + 1][m + 1] = (labelDir[t + 1][l + 1] + 1) % 6
      BY <2>1, <2>2, <3>0, NextPort
    <3>2. LabelToDir(b, m) = (LabelToDir(b, l) + 1) % 6 /\ LabelToDir(b, l) \in Dir
      BY <2>1, <3>1, LabelToDirType
    <3>3. LabelToGlobalDir(b, m) = (LabelToGlobalDir(b, l) + 1) % 6
      BY <1>0, <3>2, CompassInverse DEF LabelToGlobalDir
    <3>4. OccupiedNodeIncidentToLabel(b, l) = OccupiedNodeIncidentToLabel(b, m)
      BY <2>3 DEF OccupiedNodeIncidentToLabel
    <3> QED
      BY <3>3, <3>4
  <2>4. CASE ~ (l \in HeadLabels(b) <=> m \in HeadLabels(b))
    <3>1. \/ l \in HeadLabels(b) /\ m \in TailLabels(b)
          \/ m \in HeadLabels(b) /\ l \in TailLabels(b)
      BY <1>2, <2>2, <2>4, EndOfLabel
    <3>2. NbrNode(b, l) = NbrNode(b, m)
      BY <1>2, <2>2, <3>1, EndsMeet
    <3>3. OccupiedNodeIncidentToLabel(b, l) # OccupiedNodeIncidentToLabel(b, m)
      BY <1>2, <2>2, <2>4, EndOfLabel DEF OccupiedNodeIncidentToLabel
    <3> QED
      BY <3>2, <3>3
  <2> QED
    BY <2>3, <2>4
<1> QED
  BY <1>1, <1>2 DEF IsExpanded

\* The label before the one before a label is another one, and each label comes
\* after the one before it.
LEMMA LabelBefore ==
  ASSUME NEW l \in 0..9
  PROVE  LET k == (l + 9) % 10
             j == (k + 9) % 10
         IN  /\ k \in 0..9 /\ l = (k + 1) % 10 /\ k # l
             /\ j \in 0..9 /\ j # l
             /\ \A i \in 0..9 : l = (i + 1) % 10 => i = k
  OBVIOUS

\* uniqueLabels leaves out the second of two ports that reach one node.
LEMMA UniqueIs ==
  ASSUME NEW b \in Body, IsExpanded(b), NEW l \in Labels(b)
  PROVE  l \in UniqueLabels(b) <=> NbrNode(b, l) # NbrNode(b, (l + 9) % 10)
  BY DEF UniqueLabels, IsExpanded

\* What a port reaches, one of the unique ports reaches.
LEMMA UniqueReaches ==
  ASSUME NEW b \in Body, NEW l \in Labels(b)
  PROVE  \E u \in UniqueLabels(b) : NbrNode(b, u) = NbrNode(b, l)
<1> DEFINE k == (l + 9) % 10
           j == (k + 9) % 10
<1>1. CASE IsContracted(b) \/ l \in UniqueLabels(b)
  BY <1>1 DEF UniqueLabels
<1>2. CASE IsExpanded(b) /\ l \notin UniqueLabels(b)
  <2>1. Labels(b) = 0..9
    BY <1>2, ExpandedFrame
  <2>2. k \in Labels(b) /\ k # l /\ j \in Labels(b) /\ j # l /\ j # k
    BY <2>1, LabelBefore
  <2>3. NbrNode(b, l) = NbrNode(b, k)
    BY <1>2, UniqueIs
  <2> HIDE DEF j
  <2>4. CASE k \in UniqueLabels(b)
    BY <2>3, <2>4
  <2>5. CASE k \notin UniqueLabels(b)
    <3> HIDE DEF k
    <3>1. NbrNode(b, k) = NbrNode(b, j)
      BY <1>2, <2>2, <2>5, UniqueIs DEF j
    <3>2. OccupiedNodeIncidentToLabel(b, l) # OccupiedNodeIncidentToLabel(b, k)
          /\ OccupiedNodeIncidentToLabel(b, j) # OccupiedNodeIncidentToLabel(b, k)
      BY <2>2, <2>3, <3>1, PortsMeet
    <3>3. OccupiedNodeIncidentToLabel(b, l) = OccupiedNodeIncidentToLabel(b, j)
      BY <3>2 DEF OccupiedNodeIncidentToLabel
    <3> QED
      BY <2>2, <2>3, <3>1, <3>3, OneEndApart
  <2> QED
    BY <2>4, <2>5
<1> QED
  BY <1>1, <1>2 DEF IsExpanded

\* No two unique ports reach the same node.
LEMMA UniqueApart ==
  ASSUME NEW b \in Body, NEW k \in UniqueLabels(b), NEW l \in UniqueLabels(b),
         NbrNode(b, k) = NbrNode(b, l)
  PROVE  k = l
<1>1. k \in Labels(b) /\ l \in Labels(b)
  BY DEF UniqueLabels
<1>2. SUFFICES ASSUME k # l PROVE FALSE
  OBVIOUS
<1>3. IsExpanded(b) /\ (k = (l + 1) % 10 \/ l = (k + 1) % 10)
  BY <1>1, <1>2, PortsMeet
<1>4. k \in 0..9 /\ l \in 0..9
  BY <1>1, <1>3, ExpandedFrame
<1>5. l = (k + 9) % 10 \/ k = (l + 9) % 10
  BY <1>3, <1>4, LabelBefore
<1> QED
  BY <1>1, <1>3, <1>5, UniqueIs

\* The head has one port in each direction that leaves the body.
LEMMA HeadLabelOf ==
  ASSUME NEW b \in Body, NEW d \in Dir, d # TailDir(b)
  PROVE  /\ DirToHeadLabel(b, d) \in HeadLabels(b)
         /\ LabelToDir(b, DirToHeadLabel(b, d)) = d
         /\ \A l \in HeadLabels(b) : LabelToDir(b, l) = d => l = DirToHeadLabel(b, d)
         /\ HeadLabels(b) \subseteq Labels(b)
<1>1. CASE IsContracted(b)
  <2>1. HeadLabels(b) = Dir /\ \A l \in Dir : LabelToDir(b, l) = l
    BY <1>1, ContractedFrame DEF HeadLabels
  <2> QED
    BY <1>1, <2>1, ContractedFrame DEF DirToHeadLabel
<1>2. CASE IsExpanded(b)
  <2> DEFINE t == TailDir(b)
  <2>1. /\ t \in Dir /\ Labels(b) = 0..9 /\ HeadLabels(b) = labels[t + 1]
        /\ \A i : LabelToDir(b, i) = labelDir[t + 1][i + 1]
    BY <1>2, ExpandedFrame
  <2>2. HeadLabels(b) \subseteq Labels(b)
    BY <2>1, EndsSplitLabels
  <2>3. \E l \in HeadLabels(b) : LabelToDir(b, l) = d
    BY <2>1, HeadPorts
  <2>4. \A k, l \in HeadLabels(b) : LabelToDir(b, k) = LabelToDir(b, l) => k = l
    BY <2>1, HeadPorts
  <2> QED
    BY <2>2, <2>3, <2>4 DEF DirToHeadLabel
<1> QED
  BY <1>1, <1>2 DEF IsExpanded

-----------------------------------------------------------------------------
(* Pointers: a head and a direction of its compass                         *)

Pointed(b, d) == NodeInDir(b.head, LocalToGlobalDir(b, d))

\* A pointer that leaves the body is a port of the head.
LEMMA PointerPort ==
  ASSUME NEW b \in Body, NEW d \in Dir
  PROVE  /\ Pointed(b, d) \in Node
         /\ Pointed(b, d) \notin Nodes(b) <=> d # TailDir(b)
         /\ d # TailDir(b) => /\ DirToHeadLabel(b, d) \in HeadLabels(b)
                              /\ DirToHeadLabel(b, d) \in Labels(b)
                              /\ LabelToDir(b, DirToHeadLabel(b, d)) = d
                              /\ NbrNode(b, DirToHeadLabel(b, d)) = Pointed(b, d)
<1>1. b.head \in Node /\ LocalToGlobalDir(b, d) \in Dir
  BY NodesType, CompassType
<1>2. Pointed(b, d) \in Node /\ Pointed(b, d) # b.head
  BY <1>1, NodeInDirType, NodeInDirMoves DEF Pointed
<1>3. Pointed(b, d) \notin Nodes(b) <=> d # TailDir(b)
  <2>1. CASE IsContracted(b)
    <3>1. d # -1
      BY DEF Dir
    <3> QED
      BY <1>2, <2>1, <3>1, ContractedFrame, NodesType
  <2>2. CASE IsExpanded(b)
    <3>1. /\ TailDir(b) \in Dir /\ LocalToGlobalDir(b, TailDir(b)) = b.globalTailDir
          /\ b.globalTailDir \in Dir /\ TailNode(b) = NodeInDir(b.head, b.globalTailDir)
          /\ Nodes(b) = {b.head, TailNode(b)}
      BY <2>2, ExpandedFrame, NodesType
    <3>2. Pointed(b, d) = TailNode(b) => LocalToGlobalDir(b, d) = b.globalTailDir
      BY <1>1, <3>1, NodeInDirInjective DEF Pointed
    <3>3. LocalToGlobalDir(b, d) = b.globalTailDir => d = TailDir(b)
      BY <3>1, CompassInverse
    <3>4. d = TailDir(b) => Pointed(b, d) = TailNode(b)
      BY <3>1 DEF Pointed
    <3> QED
      BY <1>2, <3>1, <3>2, <3>3, <3>4
  <2> QED
    BY <2>1, <2>2 DEF IsExpanded
<1>4. ASSUME d # TailDir(b)
      PROVE  /\ DirToHeadLabel(b, d) \in HeadLabels(b)
             /\ DirToHeadLabel(b, d) \in Labels(b)
             /\ LabelToDir(b, DirToHeadLabel(b, d)) = d
             /\ NbrNode(b, DirToHeadLabel(b, d)) = Pointed(b, d)
  <2>1. /\ DirToHeadLabel(b, d) \in HeadLabels(b)
        /\ LabelToDir(b, DirToHeadLabel(b, d)) = d
        /\ HeadLabels(b) \subseteq Labels(b)
    BY <1>4, HeadLabelOf
  <2> QED
    BY <2>1 DEF NbrNode, OccupiedNodeIncidentToLabel, LabelToGlobalDir, Pointed
<1> QED
  BY <1>2, <1>3, <1>4

\* Moving the tail away or up leaves a pointer where it is.
LEMMA PointerStays ==
  ASSUME NEW b, NEW x, x.head = b.head, x.orientation = b.orientation, NEW d
  PROVE  Pointed(x, d) = Pointed(b, d)
  BY DEF Pointed, LocalToGlobalDir

\* From the node a body is pushed off, the direction of its tail turned round
\* leads to its head, on whatever compass it is read.
LEMMA TurnedRound ==
  ASSUME NEW b \in Body, NEW nb \in Body, IsExpanded(nb)
  PROVE  LET d == NbrDirToDir(b, nb, Opposite(TailDir(nb)))
         IN  d \in Dir /\ NodeInDir(TailNode(nb), LocalToGlobalDir(b, d)) = nb.head
<1>1. /\ TailDir(nb) \in Dir /\ LocalToGlobalDir(nb, TailDir(nb)) = nb.globalTailDir
      /\ nb.head = NodeInDir(TailNode(nb), Opposite(nb.globalTailDir))
  BY ExpandedFrame
<1>2. Opposite(TailDir(nb)) \in Dir
      /\ LocalToGlobalDir(nb, Opposite(TailDir(nb))) = Opposite(nb.globalTailDir)
  BY <1>1, OppositeType, CompassInverse
<1>3. Opposite(nb.globalTailDir) \in Dir
  BY <1>2, CompassType
<1> QED
  BY <1>1, <1>2, <1>3, CompassType, CompassInverse DEF NbrDirToDir

\* Pointers that make a forest: no part of F points only into itself.
ForestOf(F, up) == \A C \in SUBSET F : C # {} => \E q \in C : up[q] \notin C

LEMMA ForestLeft ==
  ASSUME NEW F, NEW up, ForestOf(F, up), NEW G \in SUBSET F, NEW new,
         \A q \in G : new[q] = up[q] \/ new[q] \notin G
  PROVE  ForestOf(G, new)
<1> SUFFICES ASSUME NEW C \in SUBSET G, C # {} PROVE \E q \in C : new[q] \notin C
  BY DEF ForestOf
<1>1. PICK q \in C : up[q] \notin C
  BY DEF ForestOf
<1> QED
  BY <1>1

LEMMA ForestJoined ==
  ASSUME NEW F, NEW up, ForestOf(F, up), NEW p, NEW new, new[p] # p,
         \A q \in F : new[q] = up[q] /\ up[q] # p
  PROVE  ForestOf(F \cup {p}, new)
<1> SUFFICES ASSUME NEW C \in SUBSET (F \cup {p}), C # {} PROVE \E q \in C : new[q] \notin C
  BY DEF ForestOf
<1>1. CASE C \ {p} = {}
  BY <1>1
<1>2. CASE C \ {p} # {}
  <2>1. C \ {p} \in SUBSET F
    OBVIOUS
  <2>2. PICK q \in C \ {p} : up[q] \notin C \ {p}
    BY <1>2, <2>1 DEF ForestOf
  <2> QED
    BY <2>1, <2>2
<1> QED
  BY <1>1, <1>2

\* One that pushes its parent r off a node takes over those that pointed there.
LEMMA ForestPushed ==
  ASSUME NEW F, NEW up, ForestOf(F, up), NEW p \in F, NEW r, NEW new,
         up[p] = r, new[p] = r,
         \A q \in F : new[q] = up[q] \/ (new[q] = p /\ up[q] = r)
  PROVE  ForestOf(F, new)
<1> SUFFICES ASSUME NEW C \in SUBSET F, C # {}, \A q \in C : new[q] \in C PROVE FALSE
  BY DEF ForestOf
<1>1. PICK q \in C : up[q] \notin C
  BY DEF ForestOf
<1>2. new[q] = p /\ up[q] = r
  BY <1>1
<1> QED
  BY <1>1, <1>2

-----------------------------------------------------------------------------
(* Bodies that keep apart                                                  *)

ApartIn(B) == \A p, q \in DOMAIN B : p # q => Nodes(B[p]) \cap Nodes(B[q]) = {}

\* What lies on a node is found there.
LEMMA FoundOn ==
  ASSUME NEW B, ApartIn(B), NEW p \in DOMAIN B, NEW n \in Nodes(B[p])
  PROVE  (CHOOSE q \in DOMAIN B : n \in Nodes(B[q])) = p
<1>1. \A q \in DOMAIN B : n \in Nodes(B[q]) => q = p
  BY DEF ApartIn
<1> QED
  BY <1>1

\* Bodies stay apart when one takes over what another gives up.
TakesOver(P, B, C, p, q) ==
  /\ B \in [P -> Body] /\ C \in [P -> Body]
  /\ \A r \in P \ {p, q} : C[r] = B[r]
  /\ p \in P /\ q \in P /\ p # q
  /\ Nodes(C[q]) \subseteq Nodes(B[q])
  /\ Nodes(C[p]) \subseteq Nodes(B[p]) \cup (Nodes(B[q]) \ Nodes(C[q]))

LEMMA HandedOver ==
  ASSUME NEW P, NEW B, NEW C, NEW p, NEW q, TakesOver(P, B, C, p, q), ApartIn(B)
  PROVE  ApartIn(C)
<1> USE DEF TakesOver
<1>1. \A r \in P \ {p, q} : /\ Nodes(C[p]) \cap Nodes(B[r]) = {}
                            /\ Nodes(C[q]) \cap Nodes(B[r]) = {}
  BY DEF ApartIn
<1>2. Nodes(C[p]) \cap Nodes(C[q]) = {}
  BY DEF ApartIn
<1>3. ASSUME NEW r \in P, NEW s \in P, r # s PROVE Nodes(C[r]) \cap Nodes(C[s]) = {}
  BY <1>1, <1>2, <1>3 DEF ApartIn
<1> QED
  BY <1>3 DEF ApartIn

\* A contracted one that pushes an expanded one off its tail.
PushOff(B, p, q, l) ==
  [B EXCEPT ![p] = Expanded(B[p], l), ![q] = Released(B[q], TailNode(B[q]))]

LEMMA PushedOff ==
  ASSUME NEW P, NEW B \in [P -> Body], ApartIn(B), NEW p \in P, NEW q \in P,
         IsContracted(B[p]), IsExpanded(B[q]),
         NEW l \in Labels(B[p]), NbrNode(B[p], l) = TailNode(B[q]),
         NEW C, C = PushOff(B, p, q, l)
  PROVE  /\ p # q /\ C \in [P -> Body] /\ ApartIn(C)
         /\ C[p].head = TailNode(B[q]) /\ C[p].orientation = B[p].orientation
         /\ IsExpanded(C[p]) /\ Nodes(C[p]) = {TailNode(B[q]), B[p].head}
         /\ C[q].head = B[q].head /\ C[q].orientation = B[q].orientation
         /\ IsContracted(C[q]) /\ Nodes(C[q]) = {B[q].head}
         /\ \A r \in P \ {p, q} : C[r] = B[r]
<1> DEFINE x == Expanded(B[p], l)
           y == Released(B[q], TailNode(B[q]))
<1>1. p # q /\ B[p] \in Body /\ B[q] \in Body
  BY DEF IsExpanded
<1>2. /\ x \in Body /\ IsExpanded(x) /\ x.head = TailNode(B[q])
      /\ Nodes(x) = {TailNode(B[q]), B[p].head}
  BY <1>1, ExpandedBody
<1>3. TailNode(B[q]) # B[q].head /\ Nodes(B[q]) = {B[q].head, TailNode(B[q])}
  BY <1>1, NodesType
<1>4. y = TailContracted(B[q])
  BY <1>3 DEF Released
<1>5. y \in Body /\ IsContracted(y) /\ Nodes(y) = {B[q].head}
  BY <1>1, <1>4, ContractedBody
<1>6. x.orientation = B[p].orientation
  BY <1>1 DEF Expanded, Body
<1>7. y.head = B[q].head /\ y.orientation = B[q].orientation
  BY <1>1, <1>4 DEF TailContracted, Body
<1>8. B[p].head \in Nodes(B[p])
  BY <1>1, NodesType
<1> HIDE DEF x, y
<1>9. C \in [P -> Body] /\ C[p] = x /\ C[q] = y /\ \A r \in P \ {p, q} : C[r] = B[r]
  <2>1. C = [B EXCEPT ![p] = x, ![q] = y]
    BY DEF x, y, PushOff
  <2> QED
    BY <1>1, <1>2, <1>5, <2>1
<1>10. ApartIn(C)
  <2>1. Nodes(C[q]) \subseteq Nodes(B[q])
    BY <1>3, <1>5, <1>9
  <2>2. Nodes(C[p]) \subseteq Nodes(B[p]) \cup (Nodes(B[q]) \ Nodes(C[q]))
    BY <1>2, <1>3, <1>5, <1>8, <1>9
  <2>3. TakesOver(P, B, C, p, q)
    BY <1>1, <1>9, <2>1, <2>2 DEF TakesOver
  <2> QED
    BY <2>3, HandedOver
<1> QED
  BY <1>1, <1>2, <1>5, <1>6, <1>7, <1>9, <1>10

-----------------------------------------------------------------------------
(* Connectivity                                                            *)

\* Adjacency is symmetric.
LEMMA AdjacentSymmetric ==
  ASSUME NEW m \in Node, NEW n \in Node, Adjacent(m, n)
  PROVE  Adjacent(n, m)
<1>1. PICK d \in Dir : n = NodeInDir(m, d)
  BY DEF Adjacent, Nbrs
<1> QED
  BY <1>1, NodeInDirBack, OppositeType DEF Adjacent, Nbrs

\* Two neighbours of a node in successive directions are adjacent.
LEMMA SuccessorsAdjacent ==
  ASSUME NEW n \in Node, NEW d \in Dir
  PROVE  Adjacent(NodeInDir(n, d), NodeInDir(n, (d + 1) % 6))
<1> DEFINE e == (d + 1) % 6
           f == (d + 2) % 6
<1>1. n[1] \in Int /\ n[2] \in Int
  BY DEF Node
<1>2. /\ e \in Dir /\ f \in Dir
      /\ xOffset[d + 1] \in Int /\ yOffset[d + 1] \in Int
      /\ xOffset[f + 1] \in Int /\ yOffset[f + 1] \in Int
      /\ xOffset[e + 1] = xOffset[d + 1] + xOffset[f + 1]
      /\ yOffset[e + 1] = yOffset[d + 1] + yOffset[f + 1]
  BY DEF Dir, xOffset, yOffset
<1> HIDE DEF e, f
<1>3. NodeInDir(n, d)[1] = n[1] + xOffset[d + 1] /\ NodeInDir(n, d)[2] = n[2] + yOffset[d + 1]
  BY DEF NodeInDir
<1>4. NodeInDir(NodeInDir(n, d), f)
        = <<n[1] + xOffset[d + 1] + xOffset[f + 1], n[2] + yOffset[d + 1] + yOffset[f + 1]>>
  BY <1>3 DEF NodeInDir
<1>5. /\ n[1] + xOffset[d + 1] + xOffset[f + 1] = n[1] + xOffset[e + 1]
      /\ n[2] + yOffset[d + 1] + yOffset[f + 1] = n[2] + yOffset[e + 1]
  BY <1>1, <1>2
<1>6. NodeInDir(NodeInDir(n, d), f) = NodeInDir(n, e)
  BY <1>4, <1>5 DEF NodeInDir
<1> QED
  BY <1>2, <1>6 DEF Adjacent, Nbrs, e

\* A set of directions that no labelling by two labels can split, when
\* successive directions of the set must have the same label.
Unsplit(D) ==
  \A X \in SUBSET Dir :
    (\A d \in D : (d + 1) % 6 \in D => (d \in X <=> (d + 1) % 6 \in X))
      => D \subseteq X \/ D \cap X = {}

\* Taking a node out of a connected set leaves it connected when the directions
\* of its neighbours are unsplit: the geometry under both erosion rules.
LEMMA ErosionKeepsConnected ==
  ASSUME NEW S \in SUBSET Node, Connected(S), NEW v \in S,
         Unsplit({d \in Dir : NodeInDir(v, d) \in S})
  PROVE  Connected(S \ {v})
<1> DEFINE D == {d \in Dir : NodeInDir(v, d) \in S}
<1> SUFFICES ASSUME NEW T \in SUBSET (S \ {v}), T # {}, T # S \ {v},
                    \A m \in T, n \in (S \ {v}) \ T : ~ Adjacent(m, n)
             PROVE  FALSE
  BY DEF Connected
<1> DEFINE X == {d \in Dir : NodeInDir(v, d) \in T}
<1>1. \A d \in D : (d + 1) % 6 \in D => (d \in X <=> (d + 1) % 6 \in X)
  <2> SUFFICES ASSUME NEW d \in D, (d + 1) % 6 \in D
               PROVE  d \in X <=> (d + 1) % 6 \in X
    OBVIOUS
  <2> DEFINE m == NodeInDir(v, d)
             n == NodeInDir(v, (d + 1) % 6)
  <2>1. m \in S \ {v} /\ n \in S \ {v} /\ m \in Node /\ n \in Node
    BY NodeInDirMoves
  <2>2. Adjacent(m, n) /\ Adjacent(n, m)
    BY <2>1, SuccessorsAdjacent, AdjacentSymmetric
  <2>3. m \in T <=> n \in T
    BY <2>1, <2>2
  <2> QED
    BY <2>3
<1>2. X \in SUBSET Dir
  OBVIOUS
<1>3. D \subseteq X \/ D \cap X = {}
  BY <1>1, <1>2 DEF Unsplit
<1>4. ASSUME NEW n \in S, Adjacent(v, n)
      PROVE  \E d \in D : n = NodeInDir(v, d)
  BY <1>4 DEF Adjacent, Nbrs
<1>5. CASE D \subseteq X
  <2>1. T \cup {v} # {} /\ T \cup {v} # S /\ T \cup {v} \in SUBSET S
    OBVIOUS
  <2>2. PICK m \in T \cup {v}, n \in S \ (T \cup {v}) : Adjacent(m, n)
    BY <2>1 DEF Connected
  <2>3. m = v
    BY <2>2
  <2> QED
    BY <1>4, <1>5, <2>2, <2>3
<1>6. CASE D \cap X = {}
  <2>1. T # S /\ T \in SUBSET S
    OBVIOUS
  <2>2. PICK m \in T, n \in S \ T : Adjacent(m, n)
    BY <2>1 DEF Connected
  <2>3. n = v
    BY <2>2
  <2>4. Adjacent(v, m)
    BY <2>2, <2>3, AdjacentSymmetric
  <2> QED
    BY <1>4, <1>6, <2>2, <2>4
<1> QED
  BY <1>3, <1>5, <1>6

\* Directions with at most one end, counter-clockwise, are unsplit.
LEMMA OneEndUnsplit ==
  ASSUME NEW D \in SUBSET Dir,
         \A d, e \in D : (d + 1) % 6 \notin D /\ (e + 1) % 6 \notin D => d = e
  PROVE  Unsplit(D)
<1> SUFFICES ASSUME NEW X \in SUBSET Dir,
                    \A d \in D : (d + 1) % 6 \in D => (d \in X <=> (d + 1) % 6 \in X)
             PROVE  D \subseteq X \/ D \cap X = {}
  BY DEF Unsplit
<1> DEFINE s(d) == (d + 1) % 6
<1>1. s(0) = 1 /\ s(1) = 2 /\ s(2) = 3 /\ s(3) = 4 /\ s(4) = 5 /\ s(5) = 0
  OBVIOUS
<1>2. \A d, e \in D : s(d) \notin D /\ s(e) \notin D => d = e
  OBVIOUS
<1>3. \A d \in D : s(d) \in D => (d \in X <=> s(d) \in X)
  OBVIOUS
<1>4. \A d \in D : d = 0 \/ d = 1 \/ d = 2 \/ d = 3 \/ d = 4 \/ d = 5
  BY DEF Dir
<1> HIDE DEF s
<1> QED
  BY <1>1, <1>2, <1>3, <1>4

\* Directions each joined to one of them by a run of successors are unsplit.
LEMMA RunsUnsplit ==
  ASSUME NEW D \in SUBSET Dir, NEW c \in D,
         \A d \in D : \/ \E k \in 0..5 : /\ d = (c + k) % 6
                                         /\ \A i \in 0..k : (c + i) % 6 \in D
                      \/ \E k \in 0..5 : /\ d = (c - k + 6) % 6
                                         /\ \A i \in 0..k : (c - i + 6) % 6 \in D
  PROVE  Unsplit(D)
<1> SUFFICES ASSUME NEW X \in SUBSET Dir,
                    \A d \in D : (d + 1) % 6 \in D => (d \in X <=> (d + 1) % 6 \in X)
             PROVE  \A d \in D : d \in X <=> c \in X
  BY DEF Unsplit
<1> DEFINE up(k) == (c + k) % 6
           dn(k) == (c - k + 6) % 6
<1>0. c \in 0..5
  BY DEF Dir
<1>1. /\ up(0) = c /\ dn(0) = c
      /\ \A k \in 0..4 : (up(k) + 1) % 6 = up(k + 1)
      /\ \A k \in 0..4 : (dn(k + 1) + 1) % 6 = dn(k)
  BY <1>0
<1>2. ASSUME NEW d \in D, NEW k \in 0..5, d = up(k), \A i \in 0..k : up(i) \in D
      PROVE  d \in X <=> c \in X
  <2>1. \A i \in 0..4 : i + 1 <= k => (up(i) \in X <=> up(i + 1) \in X)
    <3> SUFFICES ASSUME NEW i \in 0..4, i + 1 <= k
                 PROVE  up(i) \in X <=> up(i + 1) \in X
      OBVIOUS
    <3>1. i \in 0..k /\ i + 1 \in 0..k
      OBVIOUS
    <3>2. \A j \in 0..k : up(j) \in D
      BY <1>2
    <3> HIDE DEF up
    <3>3. up(i) \in D /\ up(i + 1) \in D
      BY <3>1, <3>2
    <3> QED
      BY <1>1, <3>3
  <2> HIDE DEF up
  <2>2. /\ 1 <= k => (up(0) \in X <=> up(1) \in X)
        /\ 2 <= k => (up(1) \in X <=> up(2) \in X)
        /\ 3 <= k => (up(2) \in X <=> up(3) \in X)
        /\ 4 <= k => (up(3) \in X <=> up(4) \in X)
        /\ 5 <= k => (up(4) \in X <=> up(5) \in X)
    BY <2>1
  <2> QED
    BY <1>1, <1>2, <2>2
<1>3. ASSUME NEW d \in D, NEW k \in 0..5, d = dn(k), \A i \in 0..k : dn(i) \in D
      PROVE  d \in X <=> c \in X
  <2>1. \A i \in 0..4 : i + 1 <= k => (dn(i) \in X <=> dn(i + 1) \in X)
    <3> SUFFICES ASSUME NEW i \in 0..4, i + 1 <= k
                 PROVE  dn(i) \in X <=> dn(i + 1) \in X
      OBVIOUS
    <3>1. i \in 0..k /\ i + 1 \in 0..k
      OBVIOUS
    <3>2. \A j \in 0..k : dn(j) \in D
      BY <1>3
    <3> HIDE DEF dn
    <3>3. dn(i) \in D /\ dn(i + 1) \in D
      BY <3>1, <3>2
    <3> QED
      BY <1>1, <3>3
  <2> HIDE DEF dn
  <2>2. /\ 1 <= k => (dn(0) \in X <=> dn(1) \in X)
        /\ 2 <= k => (dn(1) \in X <=> dn(2) \in X)
        /\ 3 <= k => (dn(2) \in X <=> dn(3) \in X)
        /\ 4 <= k => (dn(3) \in X <=> dn(4) \in X)
        /\ 5 <= k => (dn(4) \in X <=> dn(5) \in X)
    BY <2>1
  <2> QED
    BY <1>1, <1>3, <2>2
<1> QED
  BY <1>2, <1>3

\* In a connected set a node without a neighbour is the whole set.
LEMMA AloneIsAll ==
  ASSUME NEW S \in SUBSET Node, Connected(S), NEW v \in S,
         \A d \in Dir : NodeInDir(v, d) \notin S
  PROVE  S = {v}
<1> SUFFICES ASSUME S # {v} PROVE FALSE
  OBVIOUS
<1>1. PICK m \in {v}, n \in S \ {v} : Adjacent(m, n)
  BY DEF Connected
<1> QED
  BY <1>1 DEF Adjacent, Nbrs

-----------------------------------------------------------------------------
(* The directions round a contracted particle                              *)

\* The ports of a contracted particle reach the neighbours of its node.
LEMMA ContractedPorts ==
  ASSUME NEW b \in Body, IsContracted(b)
  PROVE  /\ Labels(b) = Dir
         /\ \A l \in Dir : /\ NbrNode(b, l) = Pointed(b, l)
                           /\ NbrNode(b, l) \in Node
                           /\ NbrNode(b, l) \in Nbrs(b.head)
                           /\ b.head \in Nbrs(NbrNode(b, l))
                           /\ NbrNode(b, (l + 1) % 6) \in Nbrs(NbrNode(b, l))
         /\ \A n \in Nbrs(b.head) : \E l \in Dir : NbrNode(b, l) = n
<1>1. Labels(b) = Dir /\ b.head \in Node
  BY ContractedFrame, NodesType
<1>2. ASSUME NEW l \in Dir
      PROVE  /\ LocalToGlobalDir(b, l) \in Dir
             /\ NbrNode(b, l) = NodeInDir(b.head, LocalToGlobalDir(b, l))
  BY <1>1, CompassType, ContractedFrame DEF NbrNode
<1>3. ASSUME NEW l \in Dir
      PROVE  /\ NbrNode(b, l) = Pointed(b, l)
             /\ NbrNode(b, l) \in Node
             /\ NbrNode(b, l) \in Nbrs(b.head)
  BY <1>1, <1>2, NodeInDirType DEF Pointed, Nbrs
<1>4. ASSUME NEW l \in Dir
      PROVE  b.head \in Nbrs(NbrNode(b, l))
  BY <1>1, <1>3, AdjacentSymmetric DEF Adjacent
<1>5. ASSUME NEW l \in Dir
      PROVE  NbrNode(b, (l + 1) % 6) \in Nbrs(NbrNode(b, l))
  <2>1. (l + 1) % 6 \in Dir /\ 1 \in Dir
    BY DEF Dir
  <2>2. LocalToGlobalDir(b, (l + 1) % 6) = (LocalToGlobalDir(b, l) + 1) % 6
    BY <2>1, CompassInverse
  <2> QED
    BY <1>1, <1>2, <2>1, <2>2, SuccessorsAdjacent DEF Adjacent
<1>6. ASSUME NEW n \in Nbrs(b.head) PROVE \E l \in Dir : NbrNode(b, l) = n
  <2>1. PICK d \in Dir : n = NodeInDir(b.head, d)
    BY DEF Nbrs
  <2>2. GlobalToLocalDir(b, d) \in Dir /\ LocalToGlobalDir(b, GlobalToLocalDir(b, d)) = d
    BY CompassType, CompassInverse
  <2> QED
    BY <1>2, <2>1, <2>2
<1> QED
  BY <1>1, <1>3, <1>4, <1>5, <1>6

LEMMA LeastDir ==
  ASSUME NEW L \in SUBSET Dir, L # {}
  PROVE  \E m \in L : \A l \in L : m <= l
<1>1. \A l \in L : l = 0 \/ l = 1 \/ l = 2 \/ l = 3 \/ l = 4 \/ l = 5
  BY DEF Dir
<1>2. \/ 0 \in L
      \/ 0 \notin L /\ 1 \in L
      \/ 0 \notin L /\ 1 \notin L /\ 2 \in L
      \/ 0 \notin L /\ 1 \notin L /\ 2 \notin L /\ 3 \in L
      \/ 0 \notin L /\ 1 \notin L /\ 2 \notin L /\ 3 \notin L /\ 4 \in L
      \/ L = {5}
  BY <1>1
<1> QED
  BY <1>1, <1>2

\* The walk along a surface stops at a free direction, just before one that is
\* not free.
LEMMA WalkStopsFree ==
  ASSUME NEW L \in SUBSET Dir, L # {}, L # Dir
  PROVE  FreeClockwise[L] \in Dir \ L /\ (FreeClockwise[L] + 1) % 6 \in L
<1> DEFINE Stops(d) == \E k \in 1..5 : \A i \in 1..k :
                         /\ (d + i) % 6 \in L
                         /\ i = k => \A l \in L : (d + i) % 6 <= l
<1>1. PICK m \in L : \A l \in L : m <= l
  BY LeastDir
<1>2. m \in 0..5
  BY DEF Dir
<1> DEFINE back(k) == (m - k + 6) % 6
<1>3. PICK k \in 1..5 : back(k) \notin L /\ \A j \in 1..5 : j < k => back(j) \in L
  <2>1. \A d \in Dir : d = back(0) \/ d = back(1) \/ d = back(2) \/ d = back(3)
                       \/ d = back(4) \/ d = back(5)
    BY <1>2 DEF Dir
  <2>2. back(0) \in L
    BY <1>2
  <2> HIDE DEF back
  <2>3. \/ back(1) \notin L
        \/ back(1) \in L /\ back(2) \notin L
        \/ back(1) \in L /\ back(2) \in L /\ back(3) \notin L
        \/ back(1) \in L /\ back(2) \in L /\ back(3) \in L /\ back(4) \notin L
        \/ back(1) \in L /\ back(2) \in L /\ back(3) \in L /\ back(4) \in L /\ back(5) \notin L
    BY <2>1, <2>2
  <2> QED
    BY <2>3
<1> DEFINE d == back(k)
<1>4. d \in Dir \ L
  BY <1>2, <1>3 DEF Dir
<1>5. \A i \in 1..k : (d + i) % 6 = back(k - i)
  BY <1>2
<1>6. back(0) = m
  BY <1>2
<1>7. Stops(d)
  <2> SUFFICES ASSUME NEW i \in 1..k
               PROVE  (d + i) % 6 \in L /\ (i = k => \A l \in L : (d + i) % 6 <= l)
    OBVIOUS
  <2>1. (d + i) % 6 = back(k - i)
    BY <1>5
  <2>2. CASE i = k
    BY <1>1, <1>6, <2>1, <2>2
  <2>3. CASE i # k
    <3>1. k - i \in 1..5 /\ k - i < k
      BY <2>3
    <3> HIDE DEF back
    <3> QED
      BY <1>3, <2>1, <2>3, <3>1
  <2> QED
    BY <2>2, <2>3
<1> DEFINE e == FreeClockwise[L]
<1>8. e = CHOOSE f \in Dir \ L : Stops(f)
  BY DEF FreeClockwise
<1>9. e \in Dir \ L /\ Stops(e)
  <2> HIDE DEF Stops, d
  <2> QED
    BY <1>4, <1>7, <1>8
<1>10. 1 \in 1..5
  OBVIOUS
<1>11. (e + 1) % 6 \in L
  <2> HIDE DEF e
  <2> QED
    BY <1>9
<1> QED
  BY <1>9, <1>11

\* A scan from label 0 finds one of the labels, when there is one.
LEMMA FirstFound ==
  ASSUME NEW L \in SUBSET Dir, L # {}
  PROVE  FirstFrom(L, 0, 6) \in L
<1>1. PICK m \in L : \A l \in L : m <= l
  BY LeastDir
<1>2. \A l \in L : (l - 0 + 6) % 6 = l
  BY DEF Dir
<1> QED
  BY <1>1, <1>2 DEF FirstFrom

\* A walk along a set: the direction FreeClockwise finds for a contracted
\* particle beside the set leads off it, to a node beside it.
LEMMA SurfaceWalk ==
  ASSUME NEW b \in Body, IsContracted(b), NEW S,
         Nbrs(b.head) \cap S # {}, ~ (Nbrs(b.head) \subseteq S)
  PROVE  LET d == FreeClockwise[{l \in Dir : NbrNode(b, l) \in S}]
         IN  /\ d \in Dir
             /\ NbrNode(b, d) \in Node /\ NbrNode(b, d) \notin S
             /\ Nbrs(NbrNode(b, d)) \cap S # {}
<1> DEFINE L == {l \in Dir : NbrNode(b, l) \in S}
           d == FreeClockwise[L]
<1> SUFFICES /\ d \in Dir
             /\ NbrNode(b, d) \in Node /\ NbrNode(b, d) \notin S
             /\ Nbrs(NbrNode(b, d)) \cap S # {}
  OBVIOUS
<1>1. L # {}
  <2>1. PICK n \in Nbrs(b.head) : n \in S
    OBVIOUS
  <2> QED
    BY <2>1, ContractedPorts
<1>2. L # Dir
  <2>1. PICK n \in Nbrs(b.head) : n \notin S
    OBVIOUS
  <2> QED
    BY <2>1, ContractedPorts
<1>3. d \in Dir \ L /\ (d + 1) % 6 \in L
  <2>1. L \in SUBSET Dir
    OBVIOUS
  <2> HIDE DEF L
  <2> QED
    BY <1>1, <1>2, <2>1, WalkStopsFree
<1>4. d \in Dir /\ NbrNode(b, d) \notin S /\ NbrNode(b, (d + 1) % 6) \in S
  <2> HIDE DEF d
  <2> QED
    BY <1>3
<1> HIDE DEF d, L
<1>5. NbrNode(b, d) \in Node /\ NbrNode(b, (d + 1) % 6) \in Nbrs(NbrNode(b, d))
  BY <1>4, ContractedPorts
<1> QED
  BY <1>4, <1>5

\* A connected set stays connected when a node next to it joins.
LEMMA ConnectedJoined ==
  ASSUME NEW S \in SUBSET Node, Connected(S), NEW a \in S, NEW n \in Node, Adjacent(a, n)
  PROVE  Connected(S \cup {n})
<1>1. Adjacent(n, a)
  BY AdjacentSymmetric
<1> SUFFICES ASSUME NEW T \in SUBSET (S \cup {n}), T # {}, T # S \cup {n},
                    \A x \in T, y \in (S \cup {n}) \ T : ~ Adjacent(x, y)
             PROVE  FALSE
  BY DEF Connected
<1>2. T \cap S = {} \/ S \subseteq T
  <2> DEFINE C == T \cap S
  <2>1. C \in SUBSET S
    OBVIOUS
  <2>2. \A x \in C, y \in S \ C : ~ Adjacent(x, y)
    OBVIOUS
  <2>3. C = {} \/ C = S
    <3> HIDE DEF C
    <3> QED
      BY <2>1, <2>2 DEF Connected
  <2> QED
    BY <2>3
<1>3. CASE T \cap S = {}
  <2>1. n \in T /\ a \in (S \cup {n}) \ T
    BY <1>3
  <2> QED
    BY <1>1, <2>1
<1>4. CASE S \subseteq T
  <2>1. a \in T /\ n \in (S \cup {n}) \ T
    BY <1>4
  <2> QED
    BY <2>1
<1> QED
  BY <1>2, <1>3, <1>4

-----------------------------------------------------------------------------
(* The hexagon                                                             *)
(*                                                                         *)
(* The hexagon grows round the origin in rounds k = 1, 2, ... of sides     *)
(* s = 0, 1, ..., 5 of nodes j = 1, 2, ..., k: at stage (k, s, j) the      *)
(* rounds before k, the sides before s and the nodes before j of this side *)
(* are filled, and node j of the side is the one to be filled.             *)

\* The hexagon: how far a node lies out beyond side s; a side has its end, not
\* its start.
Out(s, n) == <<n[1] + n[2], n[1], - n[2], - n[1] - n[2], - n[1], n[2]>>[s + 1]
Inside(k, n)    == \A t \in 0..5 : Out(t, n) <= k
OnSide(k, t, n) == Out(t, n) = k /\ Out((t + 5) % 6, n) \in 0 .. k - 1

\* Its side length, the node to be filled and the direction that leads to it, the
\* nodes filled, and twice their number.
HexLength(k, s) == k
HexNext(k, s, j) ==
  << <<j, k - j>>, <<k, -j>>, <<k - j, -k>>, <<-j, j - k>>, <<-k, j>>, <<j - k, k>> >>[s + 1]
HexDir(s, j) == IF s = 0 /\ j = 1 THEN 0 ELSE 5 - s
HexFilled(k, s, j, n) ==
  \/ Inside(k - 1, n)
  \/ \E t \in 0..5 : OnSide(k, t, n) /\ (t < s \/ (t = s /\ Out((s + 5) % 6, n) > k - j))
HexTwice(k, s, j) == 6 * (k * (k - 1)) + 2 * (s * k + j)

\* The stage after stage (k, s, j).
Advanced(k, s, j, length, end) ==
  IF j < length THEN <<k, s, j + 1>>
  ELSE IF s < end THEN <<k, s + 1, 1>> ELSE <<k + 1, 0, 1>>

\* The six steps of the lattice, written out.
LEMMA StepsAre ==
  ASSUME NEW x \in Int, NEW y \in Int
  PROVE  /\ NodeInDir(<<x, y>>, 0) = <<x + 1, y>> /\ NodeInDir(<<x, y>>, 1) = <<x, y + 1>>
         /\ NodeInDir(<<x, y>>, 2) = <<x - 1, y + 1>> /\ NodeInDir(<<x, y>>, 3) = <<x - 1, y>>
         /\ NodeInDir(<<x, y>>, 4) = <<x, y - 1>> /\ NodeInDir(<<x, y>>, 5) = <<x + 1, y - 1>>
  BY DEF NodeInDir, xOffset, yOffset

\* The hexagon: the node to be filled is free.
LEMMA HexNextIs ==
  ASSUME NEW k \in Nat \ {0}, NEW s \in 0..5, NEW j \in 1..HexLength(k, s)
  PROVE  /\ HexNext(k, s, j) \in Node
         /\ ~ HexFilled(k, s, j, HexNext(k, s, j))
  BY DEF HexNext, HexLength, HexFilled, Inside, OnSide, Out, Node

\* The next node of the same side fills just the node to be filled.
LEMMA HexGrow1 ==
  ASSUME NEW k \in Nat \ {0}, NEW s \in 0..5, NEW j \in 1..HexLength(k, s),
         j < HexLength(k, s), NEW n \in Node
  PROVE  /\ HexFilled(k, s, j + 1, n) <=> HexFilled(k, s, j, n) \/ n = HexNext(k, s, j)
         /\ HexTwice(k, s, j + 1) = HexTwice(k, s, j) + 2
<1>1. HexFilled(k, s, j + 1, n) <=> HexFilled(k, s, j, n) \/ n = HexNext(k, s, j)
  BY DEF HexNext, HexFilled, HexLength, Inside, OnSide, Out, Node
<1>2. HexTwice(k, s, j + 1) = HexTwice(k, s, j) + 2
  BY DEF HexTwice, HexLength
<1> QED
  BY <1>1, <1>2

\* So does the first node of the next side.
LEMMA HexGrow2 ==
  ASSUME NEW k \in Nat \ {0}, NEW s \in 0..4, NEW j, j = HexLength(k, s), NEW n \in Node
  PROVE  /\ HexFilled(k, s + 1, 1, n) <=> HexFilled(k, s, j, n) \/ n = HexNext(k, s, j)
         /\ HexTwice(k, s + 1, 1) = HexTwice(k, s, j) + 2
<1>1. HexFilled(k, s + 1, 1, n) <=> HexFilled(k, s, j, n) \/ n = HexNext(k, s, j)
  BY DEF HexNext, HexFilled, HexLength, Inside, OnSide, Out, Node
<1>2. HexTwice(k, s + 1, 1) = HexTwice(k, s, j) + 2
  BY DEF HexTwice, HexLength
<1> QED
  BY <1>1, <1>2

\* So does the first node of the next round.
LEMMA HexGrow3 ==
  ASSUME NEW k \in Nat \ {0}, NEW j, j = HexLength(k, 5), NEW n \in Node
  PROVE  /\ HexFilled(k + 1, 0, 1, n) <=> HexFilled(k, 5, j, n) \/ n = HexNext(k, 5, j)
         /\ HexTwice(k + 1, 0, 1) = HexTwice(k, 5, j) + 2
<1>1. HexFilled(k + 1, 0, 1, n) <=> HexFilled(k, 5, j, n) \/ n = HexNext(k, 5, j)
  BY DEF HexNext, HexFilled, HexLength, Inside, OnSide, Out, Node
<1>2. HexTwice(k + 1, 0, 1) = HexTwice(k, 5, j) + 2
  BY DEF HexTwice, HexLength
<1> QED
  BY <1>1, <1>2

\* From each free node some step leads to a free node.
LEMMA HexOpen ==
  ASSUME NEW k \in Nat \ {0}, NEW s \in 0..5, NEW j \in 1..HexLength(k, s), NEW n \in Node,
         ~ HexFilled(k, s, j, n)
  PROVE  \E d \in Dir : ~ HexFilled(k, s, j, NodeInDir(n, d))
<1>1. PICK t \in 0..5 : Out(t, n) >= k
  BY DEF HexFilled, Inside, Out, Node
<1> DEFINE d == (6 - t) % 6
           m == NodeInDir(n, d)
<1>2. d \in Dir /\ Out(t, m) = Out(t, n) + 1
  <2>1. PICK x \in Int, y \in Int : n = <<x, y>>
    BY DEF Node
  <2>2. t = 0 \/ t = 1 \/ t = 2 \/ t = 3 \/ t = 4 \/ t = 5
    OBVIOUS
  <2> QED
    BY <2>1, <2>2, StepsAre DEF Dir, Out
<1>3. \A i \in Node : HexFilled(k, s, j, i) => \A e \in 0..5 : Out(e, i) <= k
  BY DEF HexFilled, Inside, OnSide, Out, Node
<1>4. m \in Node
  BY <1>2, NodeInDirType
<1>5. Out(t, n) \in Int
  BY DEF Out, Node
<1> HIDE DEF m
<1>6. ~ HexFilled(k, s, j, m)
  BY <1>1, <1>2, <1>3, <1>4, <1>5
<1> QED
  BY <1>2, <1>6 DEF m

\* Two steps lead from a free node to free nodes, so some step does that is not
\* the one it came by.
LEMMA HexWide ==
  ASSUME NEW k \in Nat \ {0}, NEW s \in 0..5, NEW j \in 1..HexLength(k, s), NEW n \in Node,
         ~ HexFilled(k, s, j, n), NEW e
  PROVE  \E d \in Dir \ {e} : ~ HexFilled(k, s, j, NodeInDir(n, d))
<1>1. PICK t \in 0..5 : Out(t, n) >= k
  BY DEF HexFilled, Inside, Out, Node
<1>2. PICK a \in Dir, b \in Dir :
        /\ a # b
        /\ Out(t, NodeInDir(n, a)) = Out(t, n) + 1 /\ Out(t, NodeInDir(n, b)) = Out(t, n) + 1
  <2>1. PICK x \in Int, y \in Int : n = <<x, y>>
    BY DEF Node
  <2>2. 0 \in Dir /\ 1 \in Dir /\ 2 \in Dir /\ 3 \in Dir /\ 4 \in Dir /\ 5 \in Dir
    BY DEF Dir
  <2>3. CASE t = 0
    <3>1. /\ Out(0, NodeInDir(n, 0)) = Out(0, n) + 1
          /\ Out(0, NodeInDir(n, 1)) = Out(0, n) + 1
      BY <2>1, StepsAre DEF Out
    <3> QED
      BY <2>2, <2>3, <3>1
  <2>4. CASE t = 1
    <3>1. /\ Out(1, NodeInDir(n, 5)) = Out(1, n) + 1
          /\ Out(1, NodeInDir(n, 0)) = Out(1, n) + 1
      BY <2>1, StepsAre DEF Out
    <3> QED
      BY <2>2, <2>4, <3>1
  <2>5. CASE t = 2
    <3>1. /\ Out(2, NodeInDir(n, 4)) = Out(2, n) + 1
          /\ Out(2, NodeInDir(n, 5)) = Out(2, n) + 1
      BY <2>1, StepsAre DEF Out
    <3> QED
      BY <2>2, <2>5, <3>1
  <2>6. CASE t = 3
    <3>1. /\ Out(3, NodeInDir(n, 3)) = Out(3, n) + 1
          /\ Out(3, NodeInDir(n, 4)) = Out(3, n) + 1
      BY <2>1, StepsAre DEF Out
    <3> QED
      BY <2>2, <2>6, <3>1
  <2>7. CASE t = 4
    <3>1. /\ Out(4, NodeInDir(n, 2)) = Out(4, n) + 1
          /\ Out(4, NodeInDir(n, 3)) = Out(4, n) + 1
      BY <2>1, StepsAre DEF Out
    <3> QED
      BY <2>2, <2>7, <3>1
  <2>8. CASE t = 5
    <3>1. /\ Out(5, NodeInDir(n, 1)) = Out(5, n) + 1
          /\ Out(5, NodeInDir(n, 2)) = Out(5, n) + 1
      BY <2>1, StepsAre DEF Out
    <3> QED
      BY <2>2, <2>8, <3>1
  <2>9. t = 0 \/ t = 1 \/ t = 2 \/ t = 3 \/ t = 4 \/ t = 5
    OBVIOUS
  <2> QED
    BY <2>3, <2>4, <2>5, <2>6, <2>7, <2>8, <2>9
<1>3. \A i \in Node : HexFilled(k, s, j, i) => \A f \in 0..5 : Out(f, i) <= k
  BY DEF HexFilled, Inside, OnSide, Out, Node
<1>4. NodeInDir(n, a) \in Node /\ NodeInDir(n, b) \in Node
  BY <1>2, NodeInDirType
<1>5. Out(t, n) \in Int
  BY DEF Out, Node
<1>6. ~ HexFilled(k, s, j, NodeInDir(n, a)) /\ ~ HexFilled(k, s, j, NodeInDir(n, b))
  BY <1>1, <1>2, <1>3, <1>4, <1>5
<1> QED
  BY <1>2, <1>6

\* Its first stage is the seed alone.
LEMMA HexFirst ==
  ASSUME NEW n \in Node
  PROVE  (HexFilled(1, 0, 1, n) <=> n = <<0, 0>>) /\ HexTwice(1, 0, 1) = 2
  BY DEF HexTwice, HexFilled, Inside, OnSide, Out, Node

\* The filled nodes round the node to be filled make one run: the free node at
\* its counter-clockwise end is the next to be filled.
LEMMA HexRun ==
  ASSUME NEW k \in Nat \ {0}, NEW s \in 0..5, NEW j \in 1..HexLength(k, s),
         NEW a, a = Advanced(k, s, j, HexLength(k, s), 5), NEW n, n = HexNext(k, s, j),
         NEW d \in Dir, ~ HexFilled(k, s, j, NodeInDir(n, d)),
         HexFilled(k, s, j, NodeInDir(n, (d + 5) % 6))
  PROVE  d = HexDir(a[2], a[3]) /\ NodeInDir(n, d) = HexNext(a[1], a[2], a[3])
<1>1. j \in 1..k
  BY DEF HexLength
<1>2. d = 0 \/ d = 1 \/ d = 2 \/ d = 3 \/ d = 4 \/ d = 5
  BY DEF Dir
<1>3. CASE s = 0
  <2>1. n = <<j, k - j>> /\ j \in Int /\ k - j \in Int
    BY <1>3 DEF HexNext
  <2>2. /\ NodeInDir(n, 0) = <<j + 1, k - j>>
        /\ NodeInDir(n, 1) = <<j, k - j + 1>>
        /\ NodeInDir(n, 3) = <<j - 1, k - j>>
        /\ NodeInDir(n, 4) = <<j, k - j - 1>>
        /\ NodeInDir(n, 5) = <<j + 1, k - j - 1>>
    BY <2>1, StepsAre
  <2>3. /\ ~ HexFilled(k, 0, j, <<j + 1, k - j>>) /\ ~ HexFilled(k, 0, j, <<j, k - j + 1>>)
        /\ ~ HexFilled(k, 0, j, <<j + 1, k - j - 1>>)
    BY <1>1 DEF HexFilled, Inside, OnSide, Out, Node
  <2>4. HexFilled(k, 0, j, <<j - 1, k - j>>)
    BY <1>1 DEF HexFilled, Inside, OnSide, Out, Node
  <2>5. HexFilled(k, 0, j, <<j, k - j - 1>>) <=> j < k
    BY <1>1 DEF HexFilled, Inside, OnSide, Out, Node
  <2>6. (d = 4 /\ j = k) \/ (d = 5 /\ j < k)
    BY <1>1, <1>2, <1>3, <2>2, <2>3, <2>4, <2>5
  <2> QED
    BY <1>1, <1>3, <2>2, <2>6 DEF Advanced, HexLength, HexNext, HexDir
<1>4. CASE s = 1
  <2>1. n = <<k, -j>> /\ k \in Int /\ -j \in Int
    BY <1>4 DEF HexNext
  <2>2. /\ NodeInDir(n, 0) = <<k + 1, -j>>
        /\ NodeInDir(n, 2) = <<k - 1, -j + 1>>
        /\ NodeInDir(n, 3) = <<k - 1, -j>>
        /\ NodeInDir(n, 4) = <<k, -j - 1>>
        /\ NodeInDir(n, 5) = <<k + 1, -j - 1>>
    BY <2>1, StepsAre
  <2>3. /\ ~ HexFilled(k, 1, j, <<k + 1, -j - 1>>) /\ ~ HexFilled(k, 1, j, <<k + 1, -j>>)
        /\ ~ HexFilled(k, 1, j, <<k, -j - 1>>)
    BY <1>1 DEF HexFilled, Inside, OnSide, Out, Node
  <2>4. HexFilled(k, 1, j, <<k - 1, -j + 1>>)
    BY <1>1 DEF HexFilled, Inside, OnSide, Out, Node
  <2>5. HexFilled(k, 1, j, <<k - 1, -j>>) <=> j < k
    BY <1>1 DEF HexFilled, Inside, OnSide, Out, Node
  <2>6. (d = 3 /\ j = k) \/ (d = 4 /\ j < k)
    BY <1>1, <1>2, <1>4, <2>2, <2>3, <2>4, <2>5
  <2> QED
    BY <1>1, <1>4, <2>2, <2>6 DEF Advanced, HexLength, HexNext, HexDir
<1>5. CASE s = 2
  <2>1. n = <<k - j, -k>> /\ k - j \in Int /\ -k \in Int
    BY <1>5 DEF HexNext
  <2>2. /\ NodeInDir(n, 1) = <<k - j, -k + 1>>
        /\ NodeInDir(n, 2) = <<k - j - 1, -k + 1>>
        /\ NodeInDir(n, 3) = <<k - j - 1, -k>>
        /\ NodeInDir(n, 4) = <<k - j, -k - 1>>
        /\ NodeInDir(n, 5) = <<k - j + 1, -k - 1>>
    BY <2>1, StepsAre
  <2>3. /\ ~ HexFilled(k, 2, j, <<k - j, -k - 1>>) /\ ~ HexFilled(k, 2, j, <<k - j + 1, -k - 1>>)
        /\ ~ HexFilled(k, 2, j, <<k - j - 1, -k>>)
    BY <1>1 DEF HexFilled, Inside, OnSide, Out, Node
  <2>4. HexFilled(k, 2, j, <<k - j, -k + 1>>)
    BY <1>1 DEF HexFilled, Inside, OnSide, Out, Node
  <2>5. HexFilled(k, 2, j, <<k - j - 1, -k + 1>>) <=> j < k
    BY <1>1 DEF HexFilled, Inside, OnSide, Out, Node
  <2>6. (d = 2 /\ j = k) \/ (d = 3 /\ j < k)
    BY <1>1, <1>2, <1>5, <2>2, <2>3, <2>4, <2>5
  <2> QED
    BY <1>1, <1>5, <2>2, <2>6 DEF Advanced, HexLength, HexNext, HexDir
<1>6. CASE s = 3
  <2>1. n = <<-j, j - k>> /\ -j \in Int /\ j - k \in Int
    BY <1>6 DEF HexNext
  <2>2. /\ NodeInDir(n, 0) = <<-j + 1, j - k>>
        /\ NodeInDir(n, 1) = <<-j, j - k + 1>>
        /\ NodeInDir(n, 2) = <<-j - 1, j - k + 1>>
        /\ NodeInDir(n, 3) = <<-j - 1, j - k>>
        /\ NodeInDir(n, 4) = <<-j, j - k - 1>>
    BY <2>1, StepsAre
  <2>3. /\ ~ HexFilled(k, 3, j, <<-j - 1, j - k>>) /\ ~ HexFilled(k, 3, j, <<-j, j - k - 1>>)
        /\ ~ HexFilled(k, 3, j, <<-j - 1, j - k + 1>>)
    BY <1>1 DEF HexFilled, Inside, OnSide, Out, Node
  <2>4. HexFilled(k, 3, j, <<-j + 1, j - k>>)
    BY <1>1 DEF HexFilled, Inside, OnSide, Out, Node
  <2>5. HexFilled(k, 3, j, <<-j, j - k + 1>>) <=> j < k
    BY <1>1 DEF HexFilled, Inside, OnSide, Out, Node
  <2>6. (d = 1 /\ j = k) \/ (d = 2 /\ j < k)
    BY <1>1, <1>2, <1>6, <2>2, <2>3, <2>4, <2>5
  <2> QED
    BY <1>1, <1>6, <2>2, <2>6 DEF Advanced, HexLength, HexNext, HexDir
<1>7. CASE s = 4
  <2>1. n = <<-k, j>> /\ -k \in Int /\ j \in Int
    BY <1>7 DEF HexNext
  <2>2. /\ NodeInDir(n, 0) = <<-k + 1, j>>
        /\ NodeInDir(n, 1) = <<-k, j + 1>>
        /\ NodeInDir(n, 2) = <<-k - 1, j + 1>>
        /\ NodeInDir(n, 3) = <<-k - 1, j>>
        /\ NodeInDir(n, 5) = <<-k + 1, j - 1>>
    BY <2>1, StepsAre
  <2>3. /\ ~ HexFilled(k, 4, j, <<-k - 1, j + 1>>) /\ ~ HexFilled(k, 4, j, <<-k - 1, j>>)
        /\ ~ HexFilled(k, 4, j, <<-k, j + 1>>)
    BY <1>1 DEF HexFilled, Inside, OnSide, Out, Node
  <2>4. HexFilled(k, 4, j, <<-k + 1, j - 1>>)
    BY <1>1 DEF HexFilled, Inside, OnSide, Out, Node
  <2>5. HexFilled(k, 4, j, <<-k + 1, j>>) <=> j < k
    BY <1>1 DEF HexFilled, Inside, OnSide, Out, Node
  <2>6. (d = 0 /\ j = k) \/ (d = 1 /\ j < k)
    BY <1>1, <1>2, <1>7, <2>2, <2>3, <2>4, <2>5
  <2> QED
    BY <1>1, <1>7, <2>2, <2>6 DEF Advanced, HexLength, HexNext, HexDir
<1>8. CASE s = 5
  <2>1. n = <<j - k, k>> /\ j - k \in Int /\ k \in Int
    BY <1>8 DEF HexNext
  <2>2. /\ NodeInDir(n, 0) = <<j - k + 1, k>>
        /\ NodeInDir(n, 1) = <<j - k, k + 1>>
        /\ NodeInDir(n, 2) = <<j - k - 1, k + 1>>
        /\ NodeInDir(n, 4) = <<j - k, k - 1>>
        /\ NodeInDir(n, 5) = <<j - k + 1, k - 1>>
    BY <2>1, StepsAre
  <2>3. /\ ~ HexFilled(k, 5, j, <<j - k, k + 1>>) /\ ~ HexFilled(k, 5, j, <<j - k - 1, k + 1>>)
        /\ ~ HexFilled(k, 5, j, <<j - k + 1, k>>)
    BY <1>1 DEF HexFilled, Inside, OnSide, Out, Node
  <2>4. HexFilled(k, 5, j, <<j - k, k - 1>>)
    BY <1>1 DEF HexFilled, Inside, OnSide, Out, Node
  <2>5. HexFilled(k, 5, j, <<j - k + 1, k - 1>>)
    BY <1>1 DEF HexFilled, Inside, OnSide, Out, Node
  <2>6. d = 0
    BY <1>2, <1>8, <2>2, <2>3, <2>4, <2>5
  <2> QED
    BY <1>1, <1>8, <2>2, <2>6 DEF Advanced, HexLength, HexNext, HexDir
<1> QED
  BY <1>3, <1>4, <1>5, <1>6, <1>7, <1>8

\* The one fact about products the prover wants told.
LEMMA Squares == \A k \in Nat \ {0} : k * k >= k
  OBVIOUS

\* A node as it is seen from the origin with compass offset g.
Rotated(g, n) ==
  << <<n[1], n[2]>>, <<n[1] + n[2], - n[1]>>, <<n[2], - n[1] - n[2]>>,
     <<- n[1], - n[2]>>, <<- n[1] - n[2], n[1]>>, <<- n[2], n[1] + n[2]>> >>[g + 1]

\* The six turns, written out.
LEMMA RotatedIs ==
  ASSUME NEW x \in Int, NEW y \in Int
  PROVE  /\ Rotated(0, <<x, y>>) = <<x, y>>          /\ Rotated(1, <<x, y>>) = <<x + y, - x>>
         /\ Rotated(2, <<x, y>>) = <<y, - x - y>>    /\ Rotated(3, <<x, y>>) = <<- x, - y>>
         /\ Rotated(4, <<x, y>>) = <<- x - y, x>>    /\ Rotated(5, <<x, y>>) = <<- y, x + y>>
  BY DEF Rotated

\* A turn is undone by the turn back.
LEMMA RotatedNode ==
  ASSUME NEW g \in Dir, NEW n \in Node
  PROVE  /\ Rotated(g, n) \in Node
         /\ Rotated(g, n) = <<0, 0>> <=> n = <<0, 0>>
         /\ Rotated((6 - g) % 6, n) \in Node /\ Rotated(g, Rotated((6 - g) % 6, n)) = n
         /\ Rotated((6 - g) % 6, Rotated(g, n)) = n
<1>1. PICK x \in Int, y \in Int : n = <<x, y>>
  BY DEF Node
<1>2. g = 0 \/ g = 1 \/ g = 2 \/ g = 3 \/ g = 4 \/ g = 5
  BY DEF Dir
<1>3. x + y \in Int /\ - x \in Int /\ - x - y \in Int /\ - y \in Int
  OBVIOUS
<1>4. /\ Rotated(g, n) \in Node
      /\ Rotated((6 - g) % 6, n) \in Node
  BY <1>1, <1>2, RotatedIs DEF Node
<1>5. CASE g = 0
  <2>1. (6 - g) % 6 = 0
    BY <1>5
  <2>2. \A a, b \in Int : /\ Rotated(0, <<a, b>>) = <<a, b>>
                        /\ Rotated(0, <<a, b>>) = <<a, b>>
    BY RotatedIs
  <2>3. Rotated(0, <<x, y>>) = <<x, y>> /\ Rotated(0, <<x, y>>) = <<x, y>>
    BY <1>3, <2>2
  <2>4. <<x, y>> = <<0, 0>> <=> <<x, y>> = <<0, 0>>
    OBVIOUS
  <2> QED
    BY <1>1, <1>4, <1>5, <2>1, <2>2, <2>3, <2>4
<1>6. CASE g = 1
  <2>1. (6 - g) % 6 = 5
    BY <1>6
  <2>2. \A a, b \in Int : /\ Rotated(1, <<a, b>>) = <<a + b, - a>>
                        /\ Rotated(5, <<a, b>>) = <<- b, a + b>>
    BY RotatedIs
  <2>3. Rotated(5, <<x + y, - x>>) = <<x, y>> /\ Rotated(1, <<- y, x + y>>) = <<x, y>>
    BY <1>3, <2>2
  <2>4. <<x + y, - x>> = <<0, 0>> <=> <<x, y>> = <<0, 0>>
    OBVIOUS
  <2> QED
    BY <1>1, <1>4, <1>6, <2>1, <2>2, <2>3, <2>4
<1>7. CASE g = 2
  <2>1. (6 - g) % 6 = 4
    BY <1>7
  <2>2. \A a, b \in Int : /\ Rotated(2, <<a, b>>) = <<b, - a - b>>
                        /\ Rotated(4, <<a, b>>) = <<- a - b, a>>
    BY RotatedIs
  <2>3. Rotated(4, <<y, - x - y>>) = <<x, y>> /\ Rotated(2, <<- x - y, x>>) = <<x, y>>
    BY <1>3, <2>2
  <2>4. <<y, - x - y>> = <<0, 0>> <=> <<x, y>> = <<0, 0>>
    OBVIOUS
  <2> QED
    BY <1>1, <1>4, <1>7, <2>1, <2>2, <2>3, <2>4
<1>8. CASE g = 3
  <2>1. (6 - g) % 6 = 3
    BY <1>8
  <2>2. \A a, b \in Int : /\ Rotated(3, <<a, b>>) = <<- a, - b>>
                        /\ Rotated(3, <<a, b>>) = <<- a, - b>>
    BY RotatedIs
  <2>3. Rotated(3, <<- x, - y>>) = <<x, y>> /\ Rotated(3, <<- x, - y>>) = <<x, y>>
    BY <1>3, <2>2
  <2>4. <<- x, - y>> = <<0, 0>> <=> <<x, y>> = <<0, 0>>
    OBVIOUS
  <2> QED
    BY <1>1, <1>4, <1>8, <2>1, <2>2, <2>3, <2>4
<1>9. CASE g = 4
  <2>1. (6 - g) % 6 = 2
    BY <1>9
  <2>2. \A a, b \in Int : /\ Rotated(4, <<a, b>>) = <<- a - b, a>>
                        /\ Rotated(2, <<a, b>>) = <<b, - a - b>>
    BY RotatedIs
  <2>3. Rotated(2, <<- x - y, x>>) = <<x, y>> /\ Rotated(4, <<y, - x - y>>) = <<x, y>>
    BY <1>3, <2>2
  <2>4. <<- x - y, x>> = <<0, 0>> <=> <<x, y>> = <<0, 0>>
    OBVIOUS
  <2> QED
    BY <1>1, <1>4, <1>9, <2>1, <2>2, <2>3, <2>4
<1>10. CASE g = 5
  <2>1. (6 - g) % 6 = 1
    BY <1>10
  <2>2. \A a, b \in Int : /\ Rotated(5, <<a, b>>) = <<- b, a + b>>
                        /\ Rotated(1, <<a, b>>) = <<a + b, - a>>
    BY RotatedIs
  <2>3. Rotated(1, <<- y, x + y>>) = <<x, y>> /\ Rotated(5, <<x + y, - x>>) = <<x, y>>
    BY <1>3, <2>2
  <2>4. <<- y, x + y>> = <<0, 0>> <=> <<x, y>> = <<0, 0>>
    OBVIOUS
  <2> QED
    BY <1>1, <1>4, <1>10, <2>1, <2>2, <2>3, <2>4
<1> QED
  BY <1>2, <1>5, <1>6, <1>7, <1>8, <1>9, <1>10

\* A step turned is the step in the turned direction.
LEMMA RotatedStep ==
  ASSUME NEW g \in Dir, NEW n \in Node, NEW d \in Dir
  PROVE  Rotated(g, NodeInDir(n, (g + d) % 6)) = NodeInDir(Rotated(g, n), d)
<1>1. PICK x \in Int, y \in Int : n = <<x, y>>
  BY DEF Node
<1>2. g = 0 \/ g = 1 \/ g = 2 \/ g = 3 \/ g = 4 \/ g = 5
  BY DEF Dir
<1>3. d = 0 \/ d = 1 \/ d = 2 \/ d = 3 \/ d = 4 \/ d = 5
  BY DEF Dir
<1> DEFINE a(f) == x + xOffset[f + 1]
           b(f) == y + yOffset[f + 1]
<1>4. \A f \in Dir : NodeInDir(n, f) = <<a(f), b(f)>> /\ a(f) \in Int /\ b(f) \in Int
  BY <1>1 DEF NodeInDir, Dir, xOffset, yOffset
<1> DEFINE f == (g + d) % 6
<1> SUFFICES Rotated(g, NodeInDir(n, f)) = NodeInDir(Rotated(g, n), d)
  OBVIOUS
<1>5. f \in Dir
  BY DEF Dir
<1>6. Rotated(g, NodeInDir(n, f)) = Rotated(g, <<a(f), b(f)>>)
  BY <1>4, <1>5
<1>7. CASE g = 0
  <2>1. Rotated(0, <<a(f), b(f)>>) = <<a(f), b(f)>>
    BY <1>4, <1>5, RotatedIs
  <2>2. a(f) = x + xOffset[d + 1] /\ b(f) = y + yOffset[d + 1]
    BY <1>3, <1>7 DEF xOffset, yOffset
  <2>3. Rotated(0, n) = <<x, y>>
    BY <1>1, RotatedIs
  <2> HIDE DEF a, b, f
  <2> QED
    BY <1>6, <1>7, <2>1, <2>2, <2>3 DEF NodeInDir
<1>8. CASE g = 1
  <2>1. Rotated(1, <<a(f), b(f)>>) = <<a(f) + b(f), - a(f)>>
    BY <1>4, <1>5, RotatedIs
  <2>2. a(f) + b(f) = x + y + xOffset[d + 1] /\ - a(f) = - x + yOffset[d + 1]
    BY <1>3, <1>8 DEF xOffset, yOffset
  <2>3. Rotated(1, n) = <<x + y, - x>>
    BY <1>1, RotatedIs
  <2> HIDE DEF a, b, f
  <2> QED
    BY <1>6, <1>8, <2>1, <2>2, <2>3 DEF NodeInDir
<1>9. CASE g = 2
  <2>1. Rotated(2, <<a(f), b(f)>>) = <<b(f), - a(f) - b(f)>>
    BY <1>4, <1>5, RotatedIs
  <2>2. b(f) = y + xOffset[d + 1] /\ - a(f) - b(f) = - x - y + yOffset[d + 1]
    BY <1>3, <1>9 DEF xOffset, yOffset
  <2>3. Rotated(2, n) = <<y, - x - y>>
    BY <1>1, RotatedIs
  <2> HIDE DEF a, b, f
  <2> QED
    BY <1>6, <1>9, <2>1, <2>2, <2>3 DEF NodeInDir
<1>10. CASE g = 3
  <2>1. Rotated(3, <<a(f), b(f)>>) = <<- a(f), - b(f)>>
    BY <1>4, <1>5, RotatedIs
  <2>2. - a(f) = - x + xOffset[d + 1] /\ - b(f) = - y + yOffset[d + 1]
    BY <1>3, <1>10 DEF xOffset, yOffset
  <2>3. Rotated(3, n) = <<- x, - y>>
    BY <1>1, RotatedIs
  <2> HIDE DEF a, b, f
  <2> QED
    BY <1>6, <1>10, <2>1, <2>2, <2>3 DEF NodeInDir
<1>11. CASE g = 4
  <2>1. Rotated(4, <<a(f), b(f)>>) = <<- a(f) - b(f), a(f)>>
    BY <1>4, <1>5, RotatedIs
  <2>2. - a(f) - b(f) = - x - y + xOffset[d + 1] /\ a(f) = x + yOffset[d + 1]
    BY <1>3, <1>11 DEF xOffset, yOffset
  <2>3. Rotated(4, n) = <<- x - y, x>>
    BY <1>1, RotatedIs
  <2> HIDE DEF a, b, f
  <2> QED
    BY <1>6, <1>11, <2>1, <2>2, <2>3 DEF NodeInDir
<1>12. CASE g = 5
  <2>1. Rotated(5, <<a(f), b(f)>>) = <<- b(f), a(f) + b(f)>>
    BY <1>4, <1>5, RotatedIs
  <2>2. - b(f) = - y + xOffset[d + 1] /\ a(f) + b(f) = x + y + yOffset[d + 1]
    BY <1>3, <1>12 DEF xOffset, yOffset
  <2>3. Rotated(5, n) = <<- y, x + y>>
    BY <1>1, RotatedIs
  <2> HIDE DEF a, b, f
  <2> QED
    BY <1>6, <1>12, <2>1, <2>2, <2>3 DEF NodeInDir
<1> QED
  BY <1>2, <1>7, <1>8, <1>9, <1>10, <1>11, <1>12

\* A node as it is seen in a mirror that lies along the first direction.
Mirrored(n) == <<n[1] + n[2], - n[2]>>

\* Mirrored twice a node is itself, and the seed is where it was.
LEMMA MirroredNode ==
  ASSUME NEW n \in Node
  PROVE  /\ Mirrored(n) \in Node /\ Mirrored(Mirrored(n)) = n
         /\ Mirrored(n) = <<0, 0>> <=> n = <<0, 0>>
  BY DEF Mirrored, Node

\* A step mirrored is the step in the mirrored direction.
LEMMA MirroredStep ==
  ASSUME NEW n \in Node, NEW d \in Dir
  PROVE  (6 - d) % 6 \in Dir /\ Mirrored(NodeInDir(n, d)) = NodeInDir(Mirrored(n), (6 - d) % 6)
<1>1. PICK x \in Int, y \in Int : n = <<x, y>>
  BY DEF Node
<1>2. d = 0 \/ d = 1 \/ d = 2 \/ d = 3 \/ d = 4 \/ d = 5
  BY DEF Dir
<1>3. x + y \in Int /\ - y \in Int /\ Mirrored(n) = <<x + y, - y>>
  BY <1>1 DEF Mirrored
<1>4. /\ NodeInDir(<<x + y, - y>>, 0) = <<x + y + 1, - y>>
      /\ NodeInDir(<<x + y, - y>>, 1) = <<x + y, - y + 1>>
      /\ NodeInDir(<<x + y, - y>>, 2) = <<x + y - 1, - y + 1>>
      /\ NodeInDir(<<x + y, - y>>, 3) = <<x + y - 1, - y>>
      /\ NodeInDir(<<x + y, - y>>, 4) = <<x + y, - y - 1>>
      /\ NodeInDir(<<x + y, - y>>, 5) = <<x + y + 1, - y - 1>>
  BY <1>3, StepsAre
<1>5. (6 - d) % 6 \in Dir
  BY DEF Dir
<1>6. Mirrored(NodeInDir(n, d)) = NodeInDir(Mirrored(n), (6 - d) % 6)
  <2>1. CASE d = 0
    <3>1. NodeInDir(n, 0) = <<x + 1, y>> /\ (6 - d) % 6 = 0
      BY <1>1, <2>1, StepsAre
    <3>2. Mirrored(<<x + 1, y>>) = <<x + y + 1, - y>>
      BY <1>1 DEF Mirrored
    <3> QED
      BY <1>3, <1>4, <2>1, <3>1, <3>2
  <2>2. CASE d = 1
    <3>1. NodeInDir(n, 1) = <<x, y + 1>> /\ (6 - d) % 6 = 5
      BY <1>1, <2>2, StepsAre
    <3>2. Mirrored(<<x, y + 1>>) = <<x + y + 1, - y - 1>>
      BY <1>1 DEF Mirrored
    <3> QED
      BY <1>3, <1>4, <2>2, <3>1, <3>2
  <2>3. CASE d = 2
    <3>1. NodeInDir(n, 2) = <<x - 1, y + 1>> /\ (6 - d) % 6 = 4
      BY <1>1, <2>3, StepsAre
    <3>2. Mirrored(<<x - 1, y + 1>>) = <<x + y, - y - 1>>
      BY <1>1 DEF Mirrored
    <3> QED
      BY <1>3, <1>4, <2>3, <3>1, <3>2
  <2>4. CASE d = 3
    <3>1. NodeInDir(n, 3) = <<x - 1, y>> /\ (6 - d) % 6 = 3
      BY <1>1, <2>4, StepsAre
    <3>2. Mirrored(<<x - 1, y>>) = <<x + y - 1, - y>>
      BY <1>1 DEF Mirrored
    <3> QED
      BY <1>3, <1>4, <2>4, <3>1, <3>2
  <2>5. CASE d = 4
    <3>1. NodeInDir(n, 4) = <<x, y - 1>> /\ (6 - d) % 6 = 2
      BY <1>1, <2>5, StepsAre
    <3>2. Mirrored(<<x, y - 1>>) = <<x + y - 1, - y + 1>>
      BY <1>1 DEF Mirrored
    <3> QED
      BY <1>3, <1>4, <2>5, <3>1, <3>2
  <2>6. CASE d = 5
    <3>1. NodeInDir(n, 5) = <<x + 1, y - 1>> /\ (6 - d) % 6 = 1
      BY <1>1, <2>6, StepsAre
    <3>2. Mirrored(<<x + 1, y - 1>>) = <<x + y, - y + 1>>
      BY <1>1 DEF Mirrored
    <3> QED
      BY <1>3, <1>4, <2>6, <3>1, <3>2
  <2> QED
    BY <1>2, <2>1, <2>2, <2>3, <2>4, <2>5, <2>6
<1> QED
  BY <1>5, <1>6

\* A set of numbers has a least one.
LEMMA NatLeast ==
  ASSUME NEW T \in SUBSET Nat, T # {}
  PROVE  \E x \in T : \A y \in T : x <= y
<1> DEFINE R == OpToRel(<, Nat)
<1>1. IsWellFoundedOn(R, Nat)
  BY NatLessThanWellFounded
<1>2. \A x, y \in Nat : <<y, x>> \in R <=> y < x
  BY DEF OpToRel
<1> HIDE DEF R
<1>3. \E x \in T : \A y \in T : ~ (<<y, x>> \in R)
  BY <1>1, WFMin, Zenon
<1>4. PICK x \in T : \A y \in T : ~ (<<y, x>> \in R)
  BY <1>3
<1>5. \A y \in T : x <= y
  <2> TAKE y \in T
  <2>1. x \in Nat /\ y \in Nat /\ ~ (y < x)
    BY <1>2, <1>4
  <2> QED
    BY <2>1
<1> QED
  BY <1>5

-----------------------------------------------------------------------------
(* The figures of LatticeFigures                                           *)

\* i steps in each of the six directions, written out.
LEMMA FarIs ==
  ASSUME NEW x \in Int, NEW y \in Int, NEW i \in Int
  PROVE  /\ Far(<<x, y>>, 0, i) = <<x + i, y>>      /\ Far(<<x, y>>, 1, i) = <<x, y + i>>
         /\ Far(<<x, y>>, 2, i) = <<x - i, y + i>>  /\ Far(<<x, y>>, 3, i) = <<x - i, y>>
         /\ Far(<<x, y>>, 4, i) = <<x, y - i>>      /\ Far(<<x, y>>, 5, i) = <<x + i, y - i>>
  BY DEF Far, xOffset, yOffset

\* They stay on the lattice.
LEMMA FarType ==
  ASSUME NEW n \in Node, NEW d \in Dir, NEW i \in Int
  PROVE  Far(n, d, i) \in Node
<1>1. xOffset[d + 1] \in Int /\ yOffset[d + 1] \in Int
  BY DEF Dir, xOffset, yOffset
<1>2. n[1] \in Int /\ n[2] \in Int
  BY DEF Node
<1>3. i * xOffset[d + 1] \in Int /\ i * yOffset[d + 1] \in Int
  BY <1>1
<1>4. n[1] + i * xOffset[d + 1] \in Int /\ n[2] + i * yOffset[d + 1] \in Int
  BY <1>2, <1>3
<1> QED
  BY <1>4 DEF Far, Node

\* No step leads nowhere.
LEMMA FarNowhere ==
  ASSUME NEW n \in Node, NEW d \in Dir
  PROVE  n = Far(n, d, 0)
<1>1. xOffset[d + 1] \in Int /\ yOffset[d + 1] \in Int
  BY DEF Dir, xOffset, yOffset
<1>2. PICK x \in Int, y \in Int : n = <<x, y>>
  BY DEF Node
<1>3. x + 0 * xOffset[d + 1] = x /\ y + 0 * yOffset[d + 1] = y
  BY <1>1
<1> QED
  BY <1>2, <1>3 DEF Far

\* A turn of the lattice by one direction turns the steps.
LEMMA FarRotatedOnce ==
  ASSUME NEW n \in Node, NEW d \in Dir, NEW i \in Int
  PROVE  Rotated(1, Far(n, (1 + d) % 6, i)) = Far(Rotated(1, n), d, i)
<1>1. PICK x \in Int, y \in Int : n = <<x, y>>
  BY DEF Node
<1>2. d = 0 \/ d = 1 \/ d = 2 \/ d = 3 \/ d = 4 \/ d = 5
  BY DEF Dir
<1>3. \A u, v \in Int : Rotated(1, <<u, v>>) = <<u + v, - u>>
  BY RotatedIs
<1>4. /\ x + y \in Int /\ - x \in Int
      /\ x + i \in Int /\ y + i \in Int /\ x - i \in Int /\ y - i \in Int
  OBVIOUS
<1>5. /\ Far(<<x, y>>, 0, i) = <<x + i, y>>      /\ Far(<<x, y>>, 1, i) = <<x, y + i>>
      /\ Far(<<x, y>>, 2, i) = <<x - i, y + i>>  /\ Far(<<x, y>>, 3, i) = <<x - i, y>>
      /\ Far(<<x, y>>, 4, i) = <<x, y - i>>      /\ Far(<<x, y>>, 5, i) = <<x + i, y - i>>
  BY FarIs
<1> DEFINE z == x + y  w == - x
<1>6. z \in Int /\ w \in Int
  BY <1>4
<1>7. /\ Far(<<z, w>>, 0, i) = <<z + i, w>>      /\ Far(<<z, w>>, 1, i) = <<z, w + i>>
      /\ Far(<<z, w>>, 2, i) = <<z - i, w + i>>  /\ Far(<<z, w>>, 3, i) = <<z - i, w>>
      /\ Far(<<z, w>>, 4, i) = <<z, w - i>>      /\ Far(<<z, w>>, 5, i) = <<z + i, w - i>>
  <2> HIDE DEF z, w
  <2> QED
    BY <1>6, FarIs
<1>8. /\ Rotated(1, Far(n, 1, i)) = Far(Rotated(1, n), 0, i)
      /\ Rotated(1, Far(n, 2, i)) = Far(Rotated(1, n), 1, i)
      /\ Rotated(1, Far(n, 3, i)) = Far(Rotated(1, n), 2, i)
      /\ Rotated(1, Far(n, 4, i)) = Far(Rotated(1, n), 3, i)
      /\ Rotated(1, Far(n, 5, i)) = Far(Rotated(1, n), 4, i)
      /\ Rotated(1, Far(n, 0, i)) = Far(Rotated(1, n), 5, i)
  <2>1. Rotated(1, n) = <<z, w>>
    BY <1>1, <1>3
  <2>2. /\ Rotated(1, <<x, y + i>>) = <<z + i, w>>      /\ Rotated(1, <<x - i, y + i>>) = <<z, w + i>>
        /\ Rotated(1, <<x - i, y>>) = <<z - i, w + i>>  /\ Rotated(1, <<x, y - i>>) = <<z - i, w>>
        /\ Rotated(1, <<x + i, y - i>>) = <<z, w - i>>  /\ Rotated(1, <<x + i, y>>) = <<z + i, w - i>>
    BY <1>3, <1>4
  <2> HIDE DEF z, w
  <2> QED
    BY <1>1, <1>5, <1>7, <2>1, <2>2
<1> QED
  BY <1>2, <1>8

\* And so does any turn.
LEMMA FarRotated ==
  ASSUME NEW g \in Dir, NEW n \in Node, NEW d \in Dir, NEW i \in Int
  PROVE  Rotated(g, Far(n, (g + d) % 6, i)) = Far(Rotated(g, n), d, i)
<1> DEFINE Turns(a) == \A m \in Node, e \in Dir :
                         Rotated(a, Far(m, (a + e) % 6, i)) = Far(Rotated(a, m), e, i)
<1>1. Turns(0)
  <2>1. ASSUME NEW m \in Node PROVE Rotated(0, m) = m
    BY RotatedIs DEF Node, Rotated
  <2>2. \A e \in Dir : (0 + e) % 6 = e
    BY DEF Dir
  <2> QED
    BY <2>1, <2>2, FarType
<1>2. ASSUME NEW a \in 0..4, Turns(a) PROVE Turns(a + 1)
  <2> SUFFICES ASSUME NEW m \in Node, NEW e \in Dir
               PROVE  Rotated(a + 1, Far(m, (a + 1 + e) % 6, i)) = Far(Rotated(a + 1, m), e, i)
    OBVIOUS
  <2> DEFINE b == (1 + e) % 6
             p == Far(m, (a + b) % 6, i)
  <2>1. b \in Dir /\ (a + b) % 6 = (a + 1 + e) % 6 /\ (a + b) % 6 \in Dir /\ a \in Dir
    BY DEF Dir
  <2>2. ASSUME NEW q \in Node PROVE Rotated(a + 1, q) = Rotated(1, Rotated(a, q))
    <3>1. a = 0 \/ a = 1 \/ a = 2 \/ a = 3 \/ a = 4
      OBVIOUS
    <3>2. PICK x \in Int, y \in Int : q = <<x, y>>
      BY DEF Node
    <3>3. \A u, v \in Int : Rotated(1, <<u, v>>) = <<u + v, - u>>
      BY RotatedIs
    <3>4. /\ Rotated(1, <<x, y>>) = <<x + y, - x>>
          /\ Rotated(1, <<x + y, - x>>) = <<y, - x - y>>
          /\ Rotated(1, <<y, - x - y>>) = <<- x, - y>>
          /\ Rotated(1, <<- x, - y>>) = <<- x - y, x>>
          /\ Rotated(1, <<- x - y, x>>) = <<- y, x + y>>
      <4>1. x + y \in Int /\ - x \in Int /\ - x - y \in Int /\ - y \in Int
        OBVIOUS
      <4> QED
        BY <3>3, <4>1
    <3>5. /\ Rotated(0, q) = <<x, y>>        /\ Rotated(1, q) = <<x + y, - x>>
          /\ Rotated(2, q) = <<y, - x - y>>  /\ Rotated(3, q) = <<- x, - y>>
          /\ Rotated(4, q) = <<- x - y, x>>  /\ Rotated(5, q) = <<- y, x + y>>
      BY <3>2, RotatedIs
    <3> QED
      BY <3>1, <3>2, <3>4, <3>5
  <2>3. p \in Node /\ Rotated(a, m) \in Node
    BY <2>1, FarType, RotatedNode
  <2>4. Rotated(a, p) = Far(Rotated(a, m), b, i)
    BY <1>2, <2>1
  <2>5. Rotated(1, Far(Rotated(a, m), b, i)) = Far(Rotated(1, Rotated(a, m)), e, i)
    BY <2>3, FarRotatedOnce
  <2>6. Rotated(a + 1, p) = Rotated(1, Rotated(a, p))
    BY <2>2, <2>3
  <2>7. Rotated(a + 1, m) = Rotated(1, Rotated(a, m))
    BY <2>2
  <2>8. p = Far(m, (a + 1 + e) % 6, i)
    BY <2>1
  <2> QED
    BY <2>4, <2>5, <2>6, <2>7, <2>8
<1> HIDE DEF Turns
<1>3. Turns(1) /\ Turns(2) /\ Turns(3) /\ Turns(4) /\ Turns(5)
  <2>1. Turns(0 + 1)
    BY <1>1, <1>2
  <2>2. Turns(1 + 1)
    BY <1>2, <2>1
  <2>3. Turns(2 + 1)
    BY <1>2, <2>2
  <2>4. Turns(3 + 1)
    BY <1>2, <2>3
  <2>5. Turns(4 + 1)
    BY <1>2, <2>4
  <2> QED
    BY <2>1, <2>2, <2>3, <2>4, <2>5
<1>4. Turns(g)
  BY <1>1, <1>3 DEF Dir
<1> QED
  BY <1>4 DEF Turns

\* A mirror mirrors them.
LEMMA FarMirrored ==
  ASSUME NEW n \in Node, NEW d \in Dir, NEW i \in Int
  PROVE  Mirrored(Far(n, (6 - d) % 6, i)) = Far(Mirrored(n), d, i)
<1>1. PICK x \in Int, y \in Int : n = <<x, y>>
  BY DEF Node
<1>2. d = 0 \/ d = 1 \/ d = 2 \/ d = 3 \/ d = 4 \/ d = 5
  BY DEF Dir
<1>3. \A u, v \in Int : Mirrored(<<u, v>>) = <<u + v, - v>>
  BY DEF Mirrored
<1>4. /\ x + y \in Int /\ - y \in Int
      /\ x + i \in Int /\ y + i \in Int /\ x - i \in Int /\ y - i \in Int
  OBVIOUS
<1>5. /\ Far(<<x, y>>, 0, i) = <<x + i, y>>      /\ Far(<<x, y>>, 1, i) = <<x, y + i>>
      /\ Far(<<x, y>>, 2, i) = <<x - i, y + i>>  /\ Far(<<x, y>>, 3, i) = <<x - i, y>>
      /\ Far(<<x, y>>, 4, i) = <<x, y - i>>      /\ Far(<<x, y>>, 5, i) = <<x + i, y - i>>
  BY FarIs
<1> DEFINE z == x + y  w == - y
<1>6. z \in Int /\ w \in Int
  BY <1>4
<1>7. /\ Far(<<z, w>>, 0, i) = <<z + i, w>>      /\ Far(<<z, w>>, 1, i) = <<z, w + i>>
      /\ Far(<<z, w>>, 2, i) = <<z - i, w + i>>  /\ Far(<<z, w>>, 3, i) = <<z - i, w>>
      /\ Far(<<z, w>>, 4, i) = <<z, w - i>>      /\ Far(<<z, w>>, 5, i) = <<z + i, w - i>>
  <2> HIDE DEF z, w
  <2> QED
    BY <1>6, FarIs
<1>8. /\ Mirrored(Far(n, 0, i)) = Far(Mirrored(n), 0, i)
      /\ Mirrored(Far(n, 5, i)) = Far(Mirrored(n), 1, i)
      /\ Mirrored(Far(n, 4, i)) = Far(Mirrored(n), 2, i)
      /\ Mirrored(Far(n, 3, i)) = Far(Mirrored(n), 3, i)
      /\ Mirrored(Far(n, 2, i)) = Far(Mirrored(n), 4, i)
      /\ Mirrored(Far(n, 1, i)) = Far(Mirrored(n), 5, i)
  <2>1. Mirrored(n) = <<z, w>>
    BY <1>1, <1>3
  <2>2. /\ Mirrored(<<x + i, y>>) = <<z + i, w>>  /\ Mirrored(<<x + i, y - i>>) = <<z, w + i>>
        /\ Mirrored(<<x, y - i>>) = <<z - i, w + i>>  /\ Mirrored(<<x - i, y>>) = <<z - i, w>>
        /\ Mirrored(<<x - i, y + i>>) = <<z, w - i>>  /\ Mirrored(<<x, y + i>>) = <<z + i, w - i>>
    BY <1>3, <1>4
  <2> HIDE DEF z, w
  <2> QED
    BY <1>1, <1>5, <1>7, <2>1, <2>2
<1> QED
  BY <1>2, <1>8

\* The nodes of a row, written out.
LEMMA RowIs ==
  ASSUME NEW a \in Int, NEW b \in Int, NEW x \in Int, NEW y \in Int, NEW m \in Int
  PROVE  /\ <<x, y>> \in Row(<<a, b>>, 0, m) <=> y = b /\ x \in a .. a + m - 1
         /\ <<x, y>> \in Row(<<a, b>>, 1, m) <=> x = a /\ y \in b .. b + m - 1
         /\ <<x, y>> \in Row(<<a, b>>, 2, m) <=> x + y = a + b /\ x \in a - m + 1 .. a
         /\ <<x, y>> \in Row(<<a, b>>, 3, m) <=> y = b /\ x \in a - m + 1 .. a
         /\ <<x, y>> \in Row(<<a, b>>, 4, m) <=> x = a /\ y \in b - m + 1 .. b
         /\ <<x, y>> \in Row(<<a, b>>, 5, m) <=> x + y = a + b /\ x \in a .. a + m - 1
<1>1. \A d : <<x, y>> \in Row(<<a, b>>, d, m) <=> \E i \in 0 .. m - 1 : <<x, y>> = Far(<<a, b>>, d, i)
  BY DEF Row
<1>2. <<x, y>> \in Row(<<a, b>>, 0, m) <=> y = b /\ x \in a .. a + m - 1
  <2>1. \A i \in 0 .. m - 1 : Far(<<a, b>>, 0, i) = <<a + i, b>>
    BY DEF Far, xOffset, yOffset
  <2>2. \A i \in 0 .. m - 1 : <<x, y>> = Far(<<a, b>>, 0, i) <=> x = a + i /\ y = b
    BY <2>1
  <2>3. (\E i \in 0 .. m - 1 : x = a + i /\ y = b) <=> y = b /\ x \in a .. a + m - 1
    <3>1. x - a \in Int
      OBVIOUS
    <3> QED
      BY <3>1
  <2>4. <<x, y>> \in Row(<<a, b>>, 0, m) <=> \E i \in 0 .. m - 1 : x = a + i /\ y = b
    BY <1>1, <2>2
  <2> QED
    BY <2>3, <2>4
<1>3. <<x, y>> \in Row(<<a, b>>, 1, m) <=> x = a /\ y \in b .. b + m - 1
  <2>1. \A i \in 0 .. m - 1 : Far(<<a, b>>, 1, i) = <<a, b + i>>
    BY DEF Far, xOffset, yOffset
  <2>2. \A i \in 0 .. m - 1 : <<x, y>> = Far(<<a, b>>, 1, i) <=> x = a /\ y = b + i
    BY <2>1
  <2>3. (\E i \in 0 .. m - 1 : x = a /\ y = b + i) <=> x = a /\ y \in b .. b + m - 1
    <3>1. y - b \in Int
      OBVIOUS
    <3> QED
      BY <3>1
  <2>4. <<x, y>> \in Row(<<a, b>>, 1, m) <=> \E i \in 0 .. m - 1 : x = a /\ y = b + i
    BY <1>1, <2>2
  <2> QED
    BY <2>3, <2>4
<1>4. <<x, y>> \in Row(<<a, b>>, 2, m) <=> x + y = a + b /\ x \in a - m + 1 .. a
  <2>1. \A i \in 0 .. m - 1 : Far(<<a, b>>, 2, i) = <<a - i, b + i>>
    BY DEF Far, xOffset, yOffset
  <2>2. \A i \in 0 .. m - 1 : <<x, y>> = Far(<<a, b>>, 2, i) <=> x = a - i /\ y = b + i
    BY <2>1
  <2>3. (\E i \in 0 .. m - 1 : x = a - i /\ y = b + i) <=> x + y = a + b /\ x \in a - m + 1 .. a
    <3>1. a - x \in Int
      OBVIOUS
    <3> QED
      BY <3>1
  <2>4. <<x, y>> \in Row(<<a, b>>, 2, m) <=> \E i \in 0 .. m - 1 : x = a - i /\ y = b + i
    BY <1>1, <2>2
  <2> QED
    BY <2>3, <2>4
<1>5. <<x, y>> \in Row(<<a, b>>, 3, m) <=> y = b /\ x \in a - m + 1 .. a
  <2>1. \A i \in 0 .. m - 1 : Far(<<a, b>>, 3, i) = <<a - i, b>>
    BY DEF Far, xOffset, yOffset
  <2>2. \A i \in 0 .. m - 1 : <<x, y>> = Far(<<a, b>>, 3, i) <=> x = a - i /\ y = b
    BY <2>1
  <2>3. (\E i \in 0 .. m - 1 : x = a - i /\ y = b) <=> y = b /\ x \in a - m + 1 .. a
    <3>1. a - x \in Int
      OBVIOUS
    <3> QED
      BY <3>1
  <2>4. <<x, y>> \in Row(<<a, b>>, 3, m) <=> \E i \in 0 .. m - 1 : x = a - i /\ y = b
    BY <1>1, <2>2
  <2> QED
    BY <2>3, <2>4
<1>6. <<x, y>> \in Row(<<a, b>>, 4, m) <=> x = a /\ y \in b - m + 1 .. b
  <2>1. \A i \in 0 .. m - 1 : Far(<<a, b>>, 4, i) = <<a, b - i>>
    BY DEF Far, xOffset, yOffset
  <2>2. \A i \in 0 .. m - 1 : <<x, y>> = Far(<<a, b>>, 4, i) <=> x = a /\ y = b - i
    BY <2>1
  <2>3. (\E i \in 0 .. m - 1 : x = a /\ y = b - i) <=> x = a /\ y \in b - m + 1 .. b
    <3>1. b - y \in Int
      OBVIOUS
    <3> QED
      BY <3>1
  <2>4. <<x, y>> \in Row(<<a, b>>, 4, m) <=> \E i \in 0 .. m - 1 : x = a /\ y = b - i
    BY <1>1, <2>2
  <2> QED
    BY <2>3, <2>4
<1>7. <<x, y>> \in Row(<<a, b>>, 5, m) <=> x + y = a + b /\ x \in a .. a + m - 1
  <2>1. \A i \in 0 .. m - 1 : Far(<<a, b>>, 5, i) = <<a + i, b - i>>
    BY DEF Far, xOffset, yOffset
  <2>2. \A i \in 0 .. m - 1 : <<x, y>> = Far(<<a, b>>, 5, i) <=> x = a + i /\ y = b - i
    BY <2>1
  <2>3. (\E i \in 0 .. m - 1 : x = a + i /\ y = b - i) <=> x + y = a + b /\ x \in a .. a + m - 1
    <3>1. x - a \in Int
      OBVIOUS
    <3> QED
      BY <3>1
  <2>4. <<x, y>> \in Row(<<a, b>>, 5, m) <=> \E i \in 0 .. m - 1 : x = a + i /\ y = b - i
    BY <1>1, <2>2
  <2> QED
    BY <2>3, <2>4
<1> QED
  BY <1>2, <1>3, <1>4, <1>5, <1>6, <1>7

\* f maps the nodes one to one, and steps in direction h[d] to steps in
\* direction d; sense tells whether it keeps the sense of turns.
Symmetry(f, h, sense) ==
  /\ sense \in {1, 5}
  /\ \A n \in Node : f[n] \in Node
  /\ \A m, n \in Node : f[m] = f[n] => m = n
  /\ \A w \in Node : \E n \in Node : f[n] = w
  /\ \A d \in Dir : h[d] \in Dir /\ \A i \in 0..30 : h[(d + i) % 6] = (h[d] + sense * i) % 6
  /\ \A n \in Node, d \in Dir, i \in Int : f[Far(n, h[d], i)] = Far(f[n], d, i)

\* Such a map takes a step in a direction to the same step in the direction's image.
LEMMA SymmetryStep ==
  ASSUME NEW f, NEW h, NEW sense, Symmetry(f, h, sense),
         NEW n \in Node, NEW d \in Dir, NEW i \in Int
  PROVE  h[d] \in Dir /\ Far(n, h[d], i) \in Node /\ f[Far(n, h[d], i)] = Far(f[n], d, i)
<1>1. h[d] \in Dir
  BY DEF Symmetry
<1>2. f[Far(n, h[d], i)] = Far(f[n], d, i)
  <2>1. \A c \in Node, e \in Dir, j \in Int : f[Far(c, h[e], j)] = Far(f[c], e, j)
    BY DEF Symmetry
  <2> QED
    BY <2>1
<1>3. Far(n, h[d], i) \in Node
  BY <1>1, FarType
<1> QED
  BY <1>1, <1>2, <1>3

\* It takes different nodes to different nodes.
LEMMA SymmetryIsOneToOne ==
  ASSUME NEW f, NEW h, NEW sense, Symmetry(f, h, sense), NEW m \in Node, NEW n \in Node
  PROVE  m = n <=> f[m] = f[n]
BY DEF Symmetry

\* Rows, blocks and triangles are mapped to such.
LEMMA RowsAlike ==
  ASSUME NEW f, NEW h, NEW sense, Symmetry(f, h, sense),
         NEW n \in Node, NEW d \in Dir, NEW m \in Int
  PROVE  /\ Row(n, h[d], m) \subseteq Node
         /\ \A w \in Node : w \in Row(n, h[d], m) <=> f[w] \in Row(f[n], d, m)
<1>1. \A i \in 0 .. m - 1 : Far(n, h[d], i) \in Node /\ f[Far(n, h[d], i)] = Far(f[n], d, i)
  <2>1. \A i \in 0 .. m - 1 : i \in Int
    OBVIOUS
  <2> QED
    BY <2>1, SymmetryStep
<1>2. ASSUME NEW w \in Node PROVE w \in Row(n, h[d], m) <=> f[w] \in Row(f[n], d, m)
  <2>1. \A i \in 0 .. m - 1 : w = Far(n, h[d], i) <=> f[w] = Far(f[n], d, i)
    BY <1>1, SymmetryIsOneToOne
  <2> QED
    BY <2>1 DEF Row
<1> QED
  BY <1>1, <1>2 DEF Row

\* It takes rows, blocks and triangles to such.
LEMMA BlocksAlike ==
  ASSUME NEW f, NEW h, NEW sense, Symmetry(f, h, sense),
         NEW n \in Node, NEW d \in Dir, NEW m \in Int, NEW e \in Dir, NEW k \in Int
  PROVE  /\ Block(n, h[d], m, h[e], k) \subseteq Node
         /\ \A w \in Node : w \in Block(n, h[d], m, h[e], k) <=> f[w] \in Block(f[n], d, m, e, k)
         /\ Triangle(n, h[d], h[e], k) \subseteq Node
         /\ \A w \in Node : w \in Triangle(n, h[d], h[e], k) <=> f[w] \in Triangle(f[n], d, e, k)
<1>1. \A j \in 0 .. k - 1 : Far(n, h[e], j) \in Node /\ f[Far(n, h[e], j)] = Far(f[n], e, j)
  <2>1. \A j \in 0 .. k - 1 : j \in Int
    OBVIOUS
  <2> QED
    BY <2>1, SymmetryStep
<1>2. ASSUME NEW j \in 0 .. k - 1, NEW l \in Int
      PROVE  /\ Row(Far(n, h[e], j), h[d], l) \subseteq Node
             /\ \A w \in Node : w \in Row(Far(n, h[e], j), h[d], l) <=> f[w] \in Row(Far(f[n], e, j), d, l)
  <2> DEFINE c == Far(n, h[e], j)
  <2>1. c \in Node /\ f[c] = Far(f[n], e, j)
    BY <1>1
  <2> HIDE DEF c
  <2>2. /\ Row(c, h[d], l) \subseteq Node
        /\ \A w \in Node : w \in Row(c, h[d], l) <=> f[w] \in Row(f[c], d, l)
    BY <2>1, RowsAlike
  <2> QED
    BY <2>1, <2>2 DEF c
<1>3. /\ Block(n, h[d], m, h[e], k) \subseteq Node
      /\ \A w \in Node : w \in Block(n, h[d], m, h[e], k) <=> f[w] \in Block(f[n], d, m, e, k)
  BY <1>2 DEF Block
<1>4. \A j \in 0 .. k - 1 : k - j \in Int
  OBVIOUS
<1>5. /\ Triangle(n, h[d], h[e], k) \subseteq Node
      /\ \A w \in Node : w \in Triangle(n, h[d], h[e], k) <=> f[w] \in Triangle(f[n], d, e, k)
  BY <1>2, <1>4 DEF Triangle
<1> QED
  BY <1>3, <1>5

\* So a set that is mapped to a line, a square or a triangle is one.
LEMMA LineAlike ==
  ASSUME NEW f, NEW h, NEW sense, Symmetry(f, h, sense), NEW S \in SUBSET Node,
         NEW n \in Node, NEW d \in Dir, NEW m \in 1 .. Cardinality(S),
         \A w \in Node : w \in S <=> f[w] \in Row(n, d, m)
  PROVE  IsLine(S)
<1>1. PICK c \in Node : f[c] = n
  BY DEF Symmetry
<1>2. /\ Row(c, h[d], m) \subseteq Node
      /\ \A w \in Node : w \in Row(c, h[d], m) <=> f[w] \in Row(n, d, m)
  BY <1>1, RowsAlike
<1>3. S = Row(c, h[d], m) /\ h[d] \in Dir
  BY <1>2 DEF Symmetry
<1>4. n \in Row(n, d, m)
  BY FarNowhere DEF Row
<1> QED
  BY <1>1, <1>3, <1>4 DEF IsLine

\* What it takes to a square, whole or with nodes added, is such a square.
LEMMA SquareAlike ==
  ASSUME NEW f, NEW h, Symmetry(f, h, 1), NEW S \in SUBSET Node,
         NEW n \in Node, NEW d \in Dir, NEW turn \in {1, 2, 4, 5},
         NEW k \in 1 .. Cardinality(S), k * k <= Cardinality(S),
         NEW m \in k .. k + 1, NEW added \in 0 .. m - 1,
         NEW e, e = (d + turn) % 6, n \in Block(n, d, m, e, k),
         \A w \in Node : w \in S <=>
           f[w] \in Block(n, d, m, e, k) \cup Row(Far(n, e, k), d, added)
  PROVE  IsSquare(S)
<1>1. PICK c \in Node : f[c] = n
  BY DEF Symmetry
<1>2. e \in Dir /\ k \in Int /\ m \in Int /\ added \in Int
  BY DEF Dir
<1>3. h[d] \in Dir /\ h[e] = (h[d] + turn) % 6
  BY DEF Symmetry
<1>4. /\ Block(c, h[d], m, h[e], k) \subseteq Node
      /\ \A w \in Node : w \in Block(c, h[d], m, h[e], k) <=> f[w] \in Block(n, d, m, e, k)
  BY <1>1, <1>2, BlocksAlike
<1>5. Far(c, h[e], k) \in Node /\ f[Far(c, h[e], k)] = Far(n, e, k)
  BY <1>1, <1>2, SymmetryStep
<1>6. /\ Row(Far(c, h[e], k), h[d], added) \subseteq Node
      /\ \A w \in Node :
           w \in Row(Far(c, h[e], k), h[d], added) <=> f[w] \in Row(Far(n, e, k), d, added)
  BY <1>2, <1>5, RowsAlike
<1>7. S = Block(c, h[d], m, h[e], k) \cup Row(Far(c, h[e], k), h[d], added)
  BY <1>4, <1>6
<1>8. c \in S
  BY <1>1
<1> QED
  BY <1>3, <1>7, <1>8 DEF IsSquare

\* The same of triangles.
LEMMA TriangleAlike ==
  ASSUME NEW f, NEW h, Symmetry(f, h, 1), NEW S \in SUBSET Node,
         NEW n \in Node, NEW d \in Dir, NEW turn \in {1, 5},
         NEW k \in 1 .. Cardinality(S), k * (k + 1) <= 2 * Cardinality(S), NEW added \in 0 .. k,
         NEW e, e = (d + turn) % 6, NEW b, b = (d + 2 * turn) % 6, n \in Triangle(n, d, e, k),
         \A w \in Node : w \in S <=> f[w] \in Triangle(n, d, e, k) \cup Row(Far(n, d, k), b, added)
  PROVE  IsTriangle(S)
<1>1. PICK c \in Node : f[c] = n
  BY DEF Symmetry
<1>2. e \in Dir /\ b \in Dir /\ k \in Int /\ added \in Int
  BY DEF Dir
<1>3. h[d] \in Dir /\ h[e] = (h[d] + turn) % 6 /\ h[b] = (h[d] + 2 * turn) % 6
  BY DEF Symmetry
<1>4. /\ Triangle(c, h[d], h[e], k) \subseteq Node
      /\ \A w \in Node : w \in Triangle(c, h[d], h[e], k) <=> f[w] \in Triangle(n, d, e, k)
  BY <1>1, <1>2, BlocksAlike
<1>5. Far(c, h[d], k) \in Node /\ f[Far(c, h[d], k)] = Far(n, d, k)
  BY <1>1, <1>2, SymmetryStep
<1>6. /\ Row(Far(c, h[d], k), h[b], added) \subseteq Node
      /\ \A w \in Node :
           w \in Row(Far(c, h[d], k), h[b], added) <=> f[w] \in Row(Far(n, d, k), b, added)
  BY <1>2, <1>5, RowsAlike
<1>7. S = Triangle(c, h[d], h[e], k) \cup Row(Far(c, h[d], k), h[b], added)
  BY <1>4, <1>6
<1>8. c \in S
  BY <1>1
<1> QED
  BY <1>3, <1>7, <1>8 DEF IsTriangle

\* The nodes at most k steps from the origin lie on the inside of all sides, and
\* the sides of the ring are those of the hexagon that grows.
LEMMA BallIs ==
  ASSUME NEW k \in Nat, NEW n \in Node
  PROVE  n \in Ball(k) <=> Inside(k, n)
  BY DEF Ball, Inside, Out, Node

\* A side of the ring is the part of the ring that lies on one side of the hexagon.
LEMMA SideIs ==
  ASSUME NEW k \in Nat \ {0}, NEW t \in 0..5, NEW m \in 0 .. k, NEW n \in Node
  PROVE  n \in Side((1 + t * 5) % 6, 5, k, m) <=> OnSide(k, t, n) /\ Out((t + 5) % 6, n) > k - 1 - m
<1>1. PICK x \in Int, y \in Int : n = <<x, y>>
  BY DEF Node
<1>2. /\ Out(0, n) = x + y   /\ Out(1, n) = x    /\ Out(2, n) = - y
      /\ Out(3, n) = - x - y /\ Out(4, n) = - x  /\ Out(5, n) = y
  BY <1>1 DEF Out
<1>3. CASE t = 0
  <2>1. Far(<<0, 0>>, 1, k) = <<0, k>>
    BY DEF Far, xOffset, yOffset
  <2>2. Far(<<0, k>>, 5, 1) = <<1, k - 1>>
    BY DEF Far, xOffset, yOffset
  <2>3. (1 + t * 5) % 6 = 1 /\ (1 + 2 * 5) % 6 = 5
    BY <1>3
  <2>4. Side((1 + t * 5) % 6, 5, k, m) = Row(<<1, k - 1>>, 5, m)
    BY <2>1, <2>2, <2>3 DEF Side
  <2>5. <<x, y>> \in Row(<<1, k - 1>>, 5, m) <=> x + y = 1 + (k - 1) /\ x \in 1 .. 1 + m - 1
    <3>1. 1 \in Int /\ k - 1 \in Int /\ m \in Int
      OBVIOUS
    <3> QED
      BY <3>1, RowIs
  <2> QED
    BY <1>1, <1>2, <1>3, <2>4, <2>5 DEF OnSide
<1>4. CASE t = 1
  <2>1. Far(<<0, 0>>, 0, k) = <<k, 0>>
    BY DEF Far, xOffset, yOffset
  <2>2. Far(<<k, 0>>, 4, 1) = <<k, - 1>>
    BY DEF Far, xOffset, yOffset
  <2>3. (1 + t * 5) % 6 = 0 /\ (0 + 2 * 5) % 6 = 4
    BY <1>4
  <2>4. Side((1 + t * 5) % 6, 5, k, m) = Row(<<k, - 1>>, 4, m)
    BY <2>1, <2>2, <2>3 DEF Side
  <2>5. <<x, y>> \in Row(<<k, - 1>>, 4, m) <=> x = k /\ y \in (- 1) - m + 1 .. - 1
    <3>1. k \in Int /\ - 1 \in Int /\ m \in Int
      OBVIOUS
    <3> QED
      BY <3>1, RowIs
  <2> QED
    BY <1>1, <1>2, <1>4, <2>4, <2>5 DEF OnSide
<1>5. CASE t = 2
  <2>1. Far(<<0, 0>>, 5, k) = <<k, - k>>
    BY DEF Far, xOffset, yOffset
  <2>2. Far(<<k, - k>>, 3, 1) = <<k - 1, - k>>
    BY DEF Far, xOffset, yOffset
  <2>3. (1 + t * 5) % 6 = 5 /\ (5 + 2 * 5) % 6 = 3
    BY <1>5
  <2>4. Side((1 + t * 5) % 6, 5, k, m) = Row(<<k - 1, - k>>, 3, m)
    BY <2>1, <2>2, <2>3 DEF Side
  <2>5. <<x, y>> \in Row(<<k - 1, - k>>, 3, m) <=> y = - k /\ x \in (k - 1) - m + 1 .. k - 1
    <3>1. k - 1 \in Int /\ - k \in Int /\ m \in Int
      OBVIOUS
    <3> QED
      BY <3>1, RowIs
  <2> QED
    BY <1>1, <1>2, <1>5, <2>4, <2>5 DEF OnSide
<1>6. CASE t = 3
  <2>1. Far(<<0, 0>>, 4, k) = <<0, - k>>
    BY DEF Far, xOffset, yOffset
  <2>2. Far(<<0, - k>>, 2, 1) = <<- 1, 1 - k>>
    BY DEF Far, xOffset, yOffset
  <2>3. (1 + t * 5) % 6 = 4 /\ (4 + 2 * 5) % 6 = 2
    BY <1>6
  <2>4. Side((1 + t * 5) % 6, 5, k, m) = Row(<<- 1, 1 - k>>, 2, m)
    BY <2>1, <2>2, <2>3 DEF Side
  <2>5. <<x, y>> \in Row(<<- 1, 1 - k>>, 2, m) <=> x + y = (- 1) + (1 - k) /\ x \in (- 1) - m + 1 .. - 1
    <3>1. - 1 \in Int /\ 1 - k \in Int /\ m \in Int
      OBVIOUS
    <3> QED
      BY <3>1, RowIs
  <2> QED
    BY <1>1, <1>2, <1>6, <2>4, <2>5 DEF OnSide
<1>7. CASE t = 4
  <2>1. Far(<<0, 0>>, 3, k) = <<- k, 0>>
    BY DEF Far, xOffset, yOffset
  <2>2. Far(<<- k, 0>>, 1, 1) = <<- k, 1>>
    BY DEF Far, xOffset, yOffset
  <2>3. (1 + t * 5) % 6 = 3 /\ (3 + 2 * 5) % 6 = 1
    BY <1>7
  <2>4. Side((1 + t * 5) % 6, 5, k, m) = Row(<<- k, 1>>, 1, m)
    BY <2>1, <2>2, <2>3 DEF Side
  <2>5. <<x, y>> \in Row(<<- k, 1>>, 1, m) <=> x = - k /\ y \in 1 .. 1 + m - 1
    <3>1. - k \in Int /\ 1 \in Int /\ m \in Int
      OBVIOUS
    <3> QED
      BY <3>1, RowIs
  <2> QED
    BY <1>1, <1>2, <1>7, <2>4, <2>5 DEF OnSide
<1>8. CASE t = 5
  <2>1. Far(<<0, 0>>, 2, k) = <<- k, k>>
    BY DEF Far, xOffset, yOffset
  <2>2. Far(<<- k, k>>, 0, 1) = <<1 - k, k>>
    BY DEF Far, xOffset, yOffset
  <2>3. (1 + t * 5) % 6 = 2 /\ (2 + 2 * 5) % 6 = 0
    BY <1>8
  <2>4. Side((1 + t * 5) % 6, 5, k, m) = Row(<<1 - k, k>>, 0, m)
    BY <2>1, <2>2, <2>3 DEF Side
  <2>5. <<x, y>> \in Row(<<1 - k, k>>, 0, m) <=> y = k /\ x \in 1 - k .. (1 - k) + m - 1
    <3>1. 1 - k \in Int /\ k \in Int /\ m \in Int
      OBVIOUS
    <3> QED
      BY <3>1, RowIs
  <2> QED
    BY <1>1, <1>2, <1>8, <2>4, <2>5 DEF OnSide
<1> QED
  BY <1>3, <1>4, <1>5, <1>6, <1>7, <1>8

\* The sides of a ring are mapped to such, and with them the hexagon.
LEMMA SidesAlike ==
  ASSUME NEW f, NEW h, NEW sense, Symmetry(f, h, sense), f[<<0, 0>>] = <<0, 0>>,
         NEW turn, turn = (5 * sense) % 6,
         NEW d \in Dir, NEW k \in Int, NEW m \in Int
  PROVE  /\ Side(h[d], turn, k, m) \subseteq Node
         /\ \A w \in Node : w \in Side(h[d], turn, k, m) <=> f[w] \in Side(d, 5, k, m)
<1> DEFINE o == <<0, 0>>
           e == (d + 2 * 5) % 6
           c == Far(o, h[d], k)
           b == Far(c, h[e], 1)
<1>1. o \in Node
  BY DEF Node
<1>2. e \in Dir /\ h[e] = (h[d] + 2 * turn) % 6
  <2>1. sense \in {1, 5} /\ h[d] \in Dir /\ h[(d + 10) % 6] = (h[d] + sense * 10) % 6
    BY DEF Symmetry
  <2> QED
    BY <2>1 DEF Dir
<1> HIDE DEF o, e
<1>3. c \in Node /\ f[c] = Far(o, d, k)
  BY <1>1, SymmetryStep DEF o
<1> HIDE DEF c
<1>4. b \in Node /\ f[b] = Far(Far(o, d, k), e, 1)
  BY <1>2, <1>3, SymmetryStep
<1> HIDE DEF b
<1>5. /\ Row(b, h[e], m) \subseteq Node
      /\ \A w \in Node : w \in Row(b, h[e], m) <=> f[w] \in Row(f[b], e, m)
  BY <1>2, <1>4, RowsAlike
<1>6. Side(h[d], turn, k, m) = Row(b, h[e], m)
  BY <1>2 DEF Side, b, c, o
<1>7. Side(d, 5, k, m) = Row(f[b], e, m)
  BY <1>4 DEF Side, e, o
<1> QED
  BY <1>5, <1>6, <1>7

\* What such a map takes to a hexagon round the origin is a hexagon round it.
LEMMA HexagonAlike ==
  ASSUME NEW f, NEW h, NEW sense, Symmetry(f, h, sense), f[<<0, 0>>] = <<0, 0>>,
         \A l \in Nat, w \in Node : w \in Ball(l) <=> f[w] \in Ball(l),
         NEW S \in SUBSET Node, NEW k \in 1 .. Cardinality(S), 3 * k * (k - 1) < Cardinality(S),
         NEW s \in 0..5, NEW added \in 0 .. k - 1,
         \A w \in Node : w \in S <=>
           \/ f[w] \in Ball(k - 1)
           \/ \E t \in 0 .. s - 1 : f[w] \in Side((1 + t * 5) % 6, 5, k, k)
           \/ f[w] \in Side((1 + s * 5) % 6, 5, k, added)
  PROVE  IsHexagon(S)
<1> DEFINE turn == (5 * sense) % 6
           d == h[1]
           Ring == UNION {Side((d + t * turn) % 6, turn, k, k) : t \in 0 .. s - 1}
           Last == Side((d + s * turn) % 6, turn, k, added)
<1>1. turn \in {1, 5} /\ d \in Dir
  <2>1. sense \in {1, 5}
    BY DEF Symmetry
  <2>2. \A c \in Dir : h[c] \in Dir
    BY DEF Symmetry
  <2> QED
    BY <2>1, <2>2 DEF Dir
<1>2. ASSUME NEW t \in 0..5
      PROVE  (1 + t * 5) % 6 \in Dir /\ h[(1 + t * 5) % 6] = (d + t * turn) % 6
  <2>1. sense \in {1, 5} /\ \A i \in 0..30 : h[(1 + i) % 6] = (d + sense * i) % 6
    BY DEF Symmetry, Dir
  <2>2. h[(1 + t * 5) % 6] = (d + sense * (t * 5)) % 6
    BY <2>1
  <2>3. (d + sense * (t * 5)) % 6 = (d + t * turn) % 6
    <3>1. CASE sense = 1
      BY <3>1
    <3>2. CASE sense = 5
      BY <1>1, <3>2 DEF Dir
    <3> QED
      BY <2>1, <3>1, <3>2
  <2> QED
    BY <2>2, <2>3 DEF Dir
<1>3. ASSUME NEW t \in 0..5, NEW m \in Int
      PROVE  /\ Side((d + t * turn) % 6, turn, k, m) \subseteq Node
             /\ \A w \in Node : w \in Side((d + t * turn) % 6, turn, k, m)
                                  <=> f[w] \in Side((1 + t * 5) % 6, 5, k, m)
  <2> DEFINE e == (1 + t * 5) % 6
  <2>1. e \in Dir /\ h[e] = (d + t * turn) % 6
    BY <1>2
  <2>2. turn = (5 * sense) % 6
    OBVIOUS
  <2> HIDE DEF e, d, turn
  <2>3. /\ Side(h[e], turn, k, m) \subseteq Node
        /\ \A w \in Node : w \in Side(h[e], turn, k, m) <=> f[w] \in Side(e, 5, k, m)
    BY <2>1, <2>2, SidesAlike
  <2> QED
    BY <2>1, <2>3 DEF e
<1>4. k \in Int /\ added \in Int /\ k - 1 \in Nat
  OBVIOUS
<1> HIDE DEF turn, d
<1>5. Ball(k - 1) \subseteq Node /\ \A w \in Node : w \in Ball(k - 1) <=> f[w] \in Ball(k - 1)
  BY <1>4 DEF Ball, Node
<1>6. /\ Ring \subseteq Node
      /\ \A w \in Node : w \in Ring <=> \E t \in 0 .. s - 1 : f[w] \in Side((1 + t * 5) % 6, 5, k, k)
  <2>1. \A t \in 0 .. s - 1 : t \in 0..5
    OBVIOUS
  <2>2. \A t \in 0 .. s - 1 :
          /\ Side((d + t * turn) % 6, turn, k, k) \subseteq Node
          /\ \A w \in Node : w \in Side((d + t * turn) % 6, turn, k, k)
                               <=> f[w] \in Side((1 + t * 5) % 6, 5, k, k)
    BY <1>3, <1>4, <2>1
  <2> QED
    BY <2>2
<1>7. Last \subseteq Node /\ \A w \in Node : w \in Last <=> f[w] \in Side((1 + s * 5) % 6, 5, k, added)
  BY <1>3, <1>4
<1> HIDE DEF Ring, Last
<1>8. S = Ball(k - 1) \cup Ring \cup Last
  BY <1>5, <1>6, <1>7
<1>9. Ball(k - 1) \subseteq S
  BY <1>8
<1>10. k \in {i \in 1 .. Cardinality(S) : 3 * i * (i - 1) < Cardinality(S)}
  OBVIOUS
<1>11. S = Ball(k - 1) \cup (UNION {Side((d + t * turn) % 6, turn, k, k) : t \in 0 .. s - 1})
             \cup Side((d + s * turn) % 6, turn, k, added)
  BY <1>8 DEF Ring, Last
<1> QED
  BY <1>1, <1>9, <1>10, <1>11 DEF IsHexagon

\* The turns and the mirrored turns are such maps, and keep the balls.
LEMMA TurnedSymmetry ==
  ASSUME NEW g \in Dir
  PROVE  /\ Symmetry([n \in Node |-> Rotated(g, n)], [d \in Dir |-> (g + d) % 6], 1)
         /\ Symmetry([n \in Node |-> Mirrored(Rotated(g, n))],
                     [d \in Dir |-> (g + ((6 - d) % 6)) % 6], 5)
<1> DEFINE f == [n \in Node |-> Rotated(g, n)]
           q == [n \in Node |-> Mirrored(Rotated(g, n))]
           h == [d \in Dir |-> (g + d) % 6]
           r == [d \in Dir |-> (g + ((6 - d) % 6)) % 6]
<1>1. \A n \in Node : Rotated(g, n) \in Node /\ Mirrored(Rotated(g, n)) \in Node
  BY RotatedNode, MirroredNode
<1>2. ASSUME NEW m \in Node, NEW n \in Node
      PROVE  /\ Rotated(g, m) = Rotated(g, n) => m = n
             /\ Mirrored(Rotated(g, m)) = Mirrored(Rotated(g, n)) => m = n
  <2>1. Rotated(g, m) = Rotated(g, n) => m = n
    BY RotatedNode
  <2>2. Mirrored(Rotated(g, m)) = Mirrored(Rotated(g, n)) => Rotated(g, m) = Rotated(g, n)
    BY <1>1, MirroredNode
  <2> QED
    BY <2>1, <2>2
<1>3. ASSUME NEW w \in Node
      PROVE  /\ \E n \in Node : Rotated(g, n) = w
             /\ \E n \in Node : Mirrored(Rotated(g, n)) = w
  <2>1. \A v \in Node : \E n \in Node : Rotated(g, n) = v
    BY RotatedNode
  <2>2. Mirrored(w) \in Node /\ Mirrored(Mirrored(w)) = w
    BY MirroredNode
  <2> QED
    BY <2>1, <2>2
<1>4. \A d \in Dir : /\ (g + d) % 6 \in Dir /\ (6 - d) % 6 \in Dir
                     /\ (g + ((6 - d) % 6)) % 6 \in Dir
  BY DEF Dir
<1>5. ASSUME NEW d \in Dir, NEW i \in 0..30
      PROVE  /\ (d + i) % 6 \in Dir
             /\ (g + ((d + i) % 6)) % 6 = (((g + d) % 6) + 1 * i) % 6
             /\ (g + ((6 - ((d + i) % 6)) % 6)) % 6 = (((g + ((6 - d) % 6)) % 6) + 5 * i) % 6
  BY DEF Dir
<1>6. ASSUME NEW n \in Node, NEW d \in Dir, NEW i \in Int
      PROVE  /\ Far(n, (g + d) % 6, i) \in Node
             /\ Rotated(g, Far(n, (g + d) % 6, i)) = Far(Rotated(g, n), d, i)
             /\ Far(n, (g + ((6 - d) % 6)) % 6, i) \in Node
             /\ Mirrored(Rotated(g, Far(n, (g + ((6 - d) % 6)) % 6, i)))
                  = Far(Mirrored(Rotated(g, n)), d, i)
  <2>1. PICK e \in Dir : e = (6 - d) % 6
    BY <1>4
  <2>2. Rotated(g, Far(n, (g + d) % 6, i)) = Far(Rotated(g, n), d, i)
    BY FarRotated
  <2>3. Mirrored(Far(Rotated(g, n), e, i)) = Far(Mirrored(Rotated(g, n)), d, i)
    BY <1>1, <2>1, FarMirrored
  <2>4. Rotated(g, Far(n, (g + e) % 6, i)) = Far(Rotated(g, n), e, i)
    BY <2>1, FarRotated
  <2>5. Far(n, (g + d) % 6, i) \in Node /\ Far(n, (g + e) % 6, i) \in Node
    <3>1. (g + d) % 6 \in Dir /\ (g + e) % 6 \in Dir
      BY <2>1 DEF Dir
    <3> QED
      BY <3>1, FarType
  <2>6. Mirrored(Rotated(g, Far(n, (g + e) % 6, i))) = Far(Mirrored(Rotated(g, n)), d, i)
    BY <2>3, <2>4
  <2>7. /\ Far(n, (g + ((6 - d) % 6)) % 6, i) \in Node
        /\ Mirrored(Rotated(g, Far(n, (g + ((6 - d) % 6)) % 6, i))) = Far(Mirrored(Rotated(g, n)), d, i)
    BY <2>1, <2>5, <2>6
  <2> QED
    BY <2>2, <2>5, <2>7
<1>7. Symmetry(f, h, 1)
  <2>1. \A n \in Node : f[n] = Rotated(g, n)
    OBVIOUS
  <2>2. \A d \in Dir : h[d] = (g + d) % 6
    OBVIOUS
  <2> HIDE DEF f, h
  <2>3. \A n \in Node : f[n] \in Node
    BY <1>1, <2>1
  <2>4. \A m, n \in Node : f[m] = f[n] => m = n
    BY <1>2, <2>1
  <2>5. \A w \in Node : \E n \in Node : f[n] = w
    BY <1>3, <2>1
  <2>6. ASSUME NEW d \in Dir
        PROVE  h[d] \in Dir /\ \A i \in 0..30 : h[(d + i) % 6] = (h[d] + 1 * i) % 6
    <3>1. h[d] \in Dir
      BY <1>4, <2>2
    <3>2. ASSUME NEW i \in 0..30 PROVE h[(d + i) % 6] = (h[d] + 1 * i) % 6
      <4> DEFINE e == (d + i) % 6
      <4>1. e \in Dir /\ h[d] = (g + d) % 6
        BY <1>5, <2>2
      <4> HIDE DEF e
      <4>2. h[e] = (g + e) % 6
        BY <2>2, <4>1
      <4>3. (g + e) % 6 = (((g + d) % 6) + 1 * i) % 6
        BY DEF e, Dir
      <4>4. h[e] = (h[d] + 1 * i) % 6
        BY <4>1, <4>2, <4>3
      <4> QED
        BY <4>4 DEF e
    <3> QED
      BY <3>1, <3>2
  <2>7. \A n \in Node, d \in Dir, i \in Int : f[Far(n, h[d], i)] = Far(f[n], d, i)
    BY <1>6, <2>1, <2>2
  <2> QED
    BY <2>3, <2>4, <2>5, <2>6, <2>7 DEF Symmetry
<1>8. Symmetry(q, r, 5)
  <2>1. \A n \in Node : q[n] = Mirrored(Rotated(g, n))
    OBVIOUS
  <2>2. \A d \in Dir : r[d] = (g + ((6 - d) % 6)) % 6
    OBVIOUS
  <2> HIDE DEF q, r
  <2>3. \A n \in Node : q[n] \in Node
    BY <1>1, <2>1
  <2>4. \A m, n \in Node : q[m] = q[n] => m = n
    BY <1>2, <2>1
  <2>5. \A w \in Node : \E n \in Node : q[n] = w
    BY <1>3, <2>1
  <2>6. ASSUME NEW d \in Dir
        PROVE  r[d] \in Dir /\ \A i \in 0..30 : r[(d + i) % 6] = (r[d] + 5 * i) % 6
    <3>1. r[d] \in Dir
      BY <1>4, <2>2
    <3>2. ASSUME NEW i \in 0..30 PROVE r[(d + i) % 6] = (r[d] + 5 * i) % 6
      <4> DEFINE e == (d + i) % 6
      <4>1. e \in Dir /\ r[d] = (g + ((6 - d) % 6)) % 6
        BY <1>5, <2>2
      <4> HIDE DEF e
      <4>2. r[e] = (g + ((6 - e) % 6)) % 6
        BY <2>2, <4>1
      <4>3. (g + ((6 - e) % 6)) % 6 = (((g + ((6 - d) % 6)) % 6) + 5 * i) % 6
        BY DEF e, Dir
      <4>4. r[e] = (r[d] + 5 * i) % 6
        BY <4>1, <4>2, <4>3
      <4> QED
        BY <4>4 DEF e
    <3> QED
      BY <3>1, <3>2
  <2>7. \A n \in Node, d \in Dir, i \in Int : q[Far(n, r[d], i)] = Far(q[n], d, i)
    BY <1>6, <2>1, <2>2
  <2> QED
    BY <2>3, <2>4, <2>5, <2>6, <2>7 DEF Symmetry
<1> QED
  BY <1>7, <1>8

\* Turning and mirroring keep the distance from the origin.
LEMMA BallTurned ==
  ASSUME NEW k \in Nat, NEW n \in Node, NEW g \in Dir
  PROVE  /\ n \in Ball(k) <=> Rotated(g, n) \in Ball(k)
         /\ n \in Ball(k) <=> Mirrored(n) \in Ball(k)
<1>1. PICK x \in Int, y \in Int : n = <<x, y>>
  BY DEF Node
<1>2. \A u, v \in Int : <<u, v>> \in Ball(k) <=> u \in - k .. k /\ v \in - k .. k /\ u + v \in - k .. k
  BY DEF Ball
<1>3. g = 0 \/ g = 1 \/ g = 2 \/ g = 3 \/ g = 4 \/ g = 5
  BY DEF Dir
<1>4. n \in Ball(k) <=> Rotated(g, n) \in Ball(k)
  BY <1>1, <1>2, <1>3 DEF Rotated
<1>5. n \in Ball(k) <=> Mirrored(n) \in Ball(k)
  BY <1>1, <1>2 DEF Mirrored
<1> QED
  BY <1>4, <1>5

\* So a set that is a stage of the hexagon, turned or mirrored, is a hexagon.
LEMMA HexagonIs ==
  ASSUME NEW f, NEW h, NEW sense, Symmetry(f, h, sense), f[<<0, 0>>] = <<0, 0>>,
         \A l \in Nat, w \in Node : w \in Ball(l) <=> f[w] \in Ball(l),
         NEW S \in SUBSET Node, Cardinality(S) \in Nat,
         NEW k \in Nat \ {0}, NEW s \in 0..5, NEW j \in 1 .. HexLength(k, s),
         \A w \in Node : w \in S <=> HexFilled(k, s, j, f[w]),
         2 * Cardinality(S) = HexTwice(k, s, j)
  PROVE  IsHexagon(S)
<1> DEFINE size == Cardinality(S)
           added == j - 1
<1>1. size = 3 * (k * (k - 1)) + s * k + j /\ size \in Nat
  BY DEF HexTwice
<1>2. j \in 1 .. k /\ added \in 0 .. k - 1
  BY DEF HexLength
<1>3. s * k >= 0 /\ k * (k - 1) >= 0 /\ s * k \in Nat /\ k * (k - 1) \in Nat
  OBVIOUS
<1>4. 3 * k * (k - 1) < size
  <2>1. 3 * k * (k - 1) = 3 * (k * (k - 1))
    OBVIOUS
  <2> HIDE DEF size
  <2> QED
    BY <1>1, <1>2, <1>3, <2>1
<1>5. k \in 1 .. size
  <2>1. k = 1 \/ k * (k - 1) >= k
    <3>1. k = 1 \/ (k - 1 \in Nat /\ k - 1 >= 1)
      OBVIOUS
    <3> QED
      BY <3>1
  <2> HIDE DEF size
  <2> QED
    BY <1>1, <1>2, <1>3, <2>1
<1>6. ASSUME NEW w \in Node
      PROVE  w \in S <=>
               \/ f[w] \in Ball(k - 1)
               \/ \E t \in 0 .. s - 1 : f[w] \in Side((1 + t * 5) % 6, 5, k, k)
               \/ f[w] \in Side((1 + s * 5) % 6, 5, k, added)
  <2> DEFINE p == f[w]
  <2>1. p \in Node
    BY DEF Symmetry
  <2> HIDE DEF p
  <2>2. p \in Ball(k - 1) <=> Inside(k - 1, p)
    <3>1. k - 1 \in Nat
      OBVIOUS
    <3> QED
      BY <2>1, <3>1, BallIs
  <2>3. \A t \in 0..5 : p \in Side((1 + t * 5) % 6, 5, k, k) <=> OnSide(k, t, p)
    <3> TAKE t \in 0..5
    <3>1. p \in Side((1 + t * 5) % 6, 5, k, k) <=> OnSide(k, t, p) /\ Out((t + 5) % 6, p) > k - 1 - k
      <4>1. k \in 0 .. k
        OBVIOUS
      <4> QED
        BY <2>1, <4>1, SideIs
    <3>2. OnSide(k, t, p) => Out((t + 5) % 6, p) > k - 1 - k
      BY DEF OnSide
    <3> QED
      BY <3>1, <3>2
  <2>4. p \in Side((1 + s * 5) % 6, 5, k, added)
          <=> OnSide(k, s, p) /\ Out((s + 5) % 6, p) > k - 1 - added
    <3>1. added \in 0 .. k
      BY <1>2
    <3> QED
      BY <2>1, <3>1, SideIs
  <2>5. k - 1 - added = k - j
    OBVIOUS
  <2>6. HexFilled(k, s, j, p) <=>
          \/ Inside(k - 1, p)
          \/ \E t \in 0 .. s - 1 : OnSide(k, t, p)
          \/ OnSide(k, s, p) /\ Out((s + 5) % 6, p) > k - j
    <3>1. \A t \in 0..5 : t < s <=> t \in 0 .. s - 1
      OBVIOUS
    <3>2. \A t \in 0 .. s - 1 : t \in 0..5 /\ t < s
      OBVIOUS
    <3> QED
      BY <3>1, <3>2 DEF HexFilled
  <2>7. \A t \in 0 .. s - 1 : t \in 0..5
    OBVIOUS
  <2>8. w \in S <=> HexFilled(k, s, j, p)
    BY DEF p
  <2> HIDE DEF added
  <2>9. w \in S <=>
          \/ p \in Ball(k - 1)
          \/ \E t \in 0 .. s - 1 : p \in Side((1 + t * 5) % 6, 5, k, k)
          \/ p \in Side((1 + s * 5) % 6, 5, k, added)
    BY <2>2, <2>3, <2>4, <2>5, <2>6, <2>7, <2>8
  <2> QED
    BY <2>9 DEF p
<1> HIDE DEF added
<1> QED
  BY <1>2, <1>4, <1>5, <1>6, HexagonAlike

=============================================================================
