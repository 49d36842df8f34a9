----------------------------- MODULE Demos_proofs -----------------------------
(***************************************************************************)
(* The small algorithms and the demos, proved.  However many pairs dance   *)
(* in BallroomDemo, on whatever compasses, partners stay with each other:  *)
(* the pointer of a follower always leads to the node its leader stays on, *)
(* which is the one it pulls from and is pushed off.  On every connected   *)
(* shape SinglePoint implements erosion, and the pointers of the eroded    *)
(* particles always lead out of them.  The wall of a dance, which is built *)
(* by walking along it, is closed.  Fillers stay in one piece, and whoever *)
(* is kept stretched out is kept so by somebody above.  Tokens go round a  *)
(* ring of any size in order, and none is lost.                            *)
(***************************************************************************)
EXTENDS MCDemos, Geometry_proofs, FiniteSetTheorems

\* The node of a body that the partner behind it keeps to.
Anchor(b) == IF IsExpanded(b) THEN TailNode(b) ELSE b.head

\* Where the pointer of p leads, read as a direction from its head.
Pointee(p) == NodeInDir(body[p].head, LocalToGlobalDir(body[p], partnerLbl[p]))

Apart == \A p, q \in particles : p # q => Nodes(body[p]) \cap Nodes(body[q]) = {}

BallInv ==
  /\ body \in [1 .. 2 * NumPairs -> Body]
  /\ partnerLbl \in [1 .. 2 * NumPairs -> {-1} \cup Dir]
  /\ TypeOK
  /\ Apart
  /\ \A p \in particles : ~ Leads(p) => Pointee(p) = Anchor(body[p - 1])

-----------------------------------------------------------------------------
(* Pairs and bodies                                                        *)

\* Every follower has a leader.
LEMMA PairType ==
  ASSUME NumPairs \in Nat, NEW p \in 1 .. 2 * NumPairs, ~ Leads(p)
  PROVE  /\ p - 1 \in 1 .. 2 * NumPairs /\ Leads(p - 1)
         /\ p \div 2 \in 1 .. NumPairs
         /\ (p + 1) \div 2 = p \div 2
         /\ ((p - 1) + 1) \div 2 = p \div 2
  BY SMT DEF Leads

\* A leader is nobody's follower, and partners are two.
LEMMA PairDiffers ==
  ASSUME NumPairs \in Nat, NEW p \in 1 .. 2 * NumPairs, NEW q \in 1 .. 2 * NumPairs,
         ~ Leads(q), p = q - 1
  PROVE  Leads(p) /\ p # q
  BY SMT DEF Leads

\* The anchor is a node of the body.
LEMMA AnchorType ==
  ASSUME NEW b \in Body
  PROVE  Anchor(b) \in Nodes(b)
  BY NodesType DEF Anchor, IsExpanded

\* An expansion leaves the anchor where it is.
LEMMA AnchorStays ==
  ASSUME NEW b \in Body, IsContracted(b), NEW l \in Labels(b)
  PROVE  Anchor(Expanded(b, l)) = b.head
<1> DEFINE x == Expanded(b, l)
<1>1. x \in Body /\ IsExpanded(x) /\ Nodes(x) = {x.head, b.head}
  BY ExpandedBody
<1>2. TailNode(x) # x.head /\ Nodes(x) = {x.head, TailNode(x)}
  BY <1>1, NodesType
<1> HIDE DEF x
<1>3. Anchor(x) = b.head
  BY <1>1, <1>2 DEF Anchor
<1> QED
  BY <1>3 DEF x

\* The particle found at a node is the one on it.
LEMMA ParticleAtIs ==
  ASSUME Apart, NEW p \in particles, NEW n \in Nodes(body[p])
  PROVE  ParticleAt(n) = p
<1>1. \A q \in particles : n \in Nodes(body[q]) => q = p
  BY DEF Apart
<1> QED
  BY <1>1 DEF ParticleAt

\* The direction from the tail to the head of nb, on the compass of b.
LEMMA TurnRound ==
  ASSUME NEW b \in Body, NEW nb \in Body, IsExpanded(nb)
  PROVE  /\ GlobalToLocalDir(b, LocalToGlobalDir(nb, Opposite(TailDir(nb)))) \in Dir
         /\ LocalToGlobalDir(b, GlobalToLocalDir(b, LocalToGlobalDir(nb, Opposite(TailDir(nb)))))
              = Opposite(nb.globalTailDir)
<1>1. nb.globalTailDir \in Dir /\ nb.orientation \in Dir /\ b.orientation \in Dir
  BY DEF Body, IsExpanded, IsContracted
<1>2. TailDir(nb) = (nb.globalTailDir - nb.orientation + 6) % 6
  BY DEF TailDir, IsExpanded, GlobalToLocalDir
<1>3. \A g, o \in Dir : (o + ((((g - o + 6) % 6) + 3) % 6)) % 6 = (g + 3) % 6
  BY DEF Dir
<1>4. LocalToGlobalDir(nb, Opposite(TailDir(nb))) = Opposite(nb.globalTailDir)
  BY <1>1, <1>2, <1>3 DEF LocalToGlobalDir, Opposite
<1>5. Opposite(nb.globalTailDir) \in Dir
  BY <1>1, OppositeType
<1>6. \A g, o \in Dir : (g - o + 6) % 6 \in Dir /\ (o + ((g - o + 6) % 6)) % 6 = g
  BY DEF Dir
<1> QED
  BY <1>1, <1>4, <1>5, <1>6 DEF LocalToGlobalDir, GlobalToLocalDir

\* From the tail of a body that direction leads to its head.
LEMMA TailToHead ==
  ASSUME NEW b \in Body, IsExpanded(b)
  PROVE  NodeInDir(TailNode(b), Opposite(b.globalTailDir)) = b.head
<1>1. b.head \in Node /\ b.globalTailDir \in Dir
  BY DEF Body, IsExpanded, IsContracted
<1> QED
  BY <1>1, NodeInDirBack DEF TailNode

\* A body that keeps to free nodes stays apart from the others.
LEMMA MoveApart ==
  ASSUME body \in [1 .. 2 * NumPairs -> Body], Apart,
         NEW p \in particles, NEW x \in Body,
         Nodes(x) \cap (Occupied \ Nodes(body[p])) = {},
         body' = [body EXCEPT ![p] = x]
  PROVE  /\ body' \in [1 .. 2 * NumPairs -> Body] /\ Apart'
         /\ body'[p] = x
         /\ \A r \in particles \ {p} : body'[r] = body[r]
<1>1. /\ body' \in [1 .. 2 * NumPairs -> Body] /\ particles' = particles
      /\ body'[p] = x
      /\ \A r \in particles \ {p} : body'[r] = body[r]
  BY DEF particles
<1>2. \A r \in particles \ {p} : Nodes(body[r]) \cap Nodes(x) = {}
  <2> TAKE r \in particles \ {p}
  <2>1. Nodes(body[r]) \subseteq Occupied /\ Nodes(body[r]) \cap Nodes(body[p]) = {}
    BY DEF Occupied, Apart
  <2> QED
    BY <2>1
<1>3. ASSUME NEW r \in particles, NEW s \in particles, r # s
      PROVE  Nodes(body'[r]) \cap Nodes(body'[s]) = {}
  BY <1>1, <1>2, <1>3 DEF Apart
<1> QED
  BY <1>1, <1>3 DEF Apart

-----------------------------------------------------------------------------
(* The first tail label that points                                        *)

\* A scan over some labels of an expanded particle finds one of them.
LEMMA FirstFromType ==
  ASSUME NEW L \in SUBSET (0 .. 9), L # {}, NEW start \in 0 .. 9
  PROVE  FirstFrom(L, start, 10) \in L
<1> DEFINE turn(l) == (l - start + 10) % 10
           V == {turn(l) : l \in L}
<1>1. \A l \in L : turn(l) \in 0 .. 9
  OBVIOUS
<1>2. V \subseteq 0 .. 9 /\ V # {}
  BY <1>1
<1> HIDE DEF V
<1>3. \E v \in V : \A w \in V : v <= w
  <2>1. CASE V \cap 0 .. 4 # {}
    <3>1. \A w \in V : w \in Int /\ (w > 4 \/ w = 0 \/ w = 1 \/ w = 2 \/ w = 3 \/ w = 4)
      BY <1>2
    <3> QED
      BY <2>1, <3>1, SMTT(30)
  <2>2. CASE V \cap 0 .. 4 = {}
    <3>1. \A w \in V : w = 5 \/ w = 6 \/ w = 7 \/ w = 8 \/ w = 9
      BY <1>2, <2>2
    <3>2. 5 \in V \/ 6 \in V \/ 7 \in V \/ 8 \in V \/ 9 \in V
      BY <1>2, <3>1
    <3> QED
      BY <3>1, <3>2
  <2> QED
    BY <2>1, <2>2
<1>4. \E l \in L : \A k \in L : turn(l) <= turn(k)
  BY <1>3 DEF V
<1> QED
  BY <1>4 DEF FirstFrom

\* The ports of the two ends of a body are different ones, and those of the
\* tail have a first.
LEMMA TailLabelsType ==
  ASSUME NEW b \in Body, IsExpanded(b)
  PROVE  /\ TailLabels(b) \subseteq 0 .. 9 /\ TailLabels(b) \cap HeadLabels(b) = {}
         /\ \E l \in TailLabels(b) : (l + 9) % 10 \notin TailLabels(b)
<1>1. TailDir(b) \in Dir
  BY CompassType DEF TailDir, IsExpanded, IsContracted, Body
<1>2. \A t \in Dir : /\ labels[((t + 3) % 6) + 1] \subseteq 0 .. 9
                     /\ labels[((t + 3) % 6) + 1] \cap labels[t + 1] = {}
                     /\ \E l \in labels[((t + 3) % 6) + 1] : (l + 9) % 10 \notin labels[((t + 3) % 6) + 1]
  <2>1. \A u \in Dir : labels[u + 1] \subseteq 0 .. 9
    BY DEF Dir, labels
  <2>2. \A u \in Dir : \E l \in labels[u + 1] : (l + 9) % 10 \notin labels[u + 1]
    <3>1. 2 \notin labels[1] /\ 3 \notin labels[2] /\ 6 \notin labels[3] /\ 7 \notin labels[4]
          /\ 8 \notin labels[5] /\ 1 \notin labels[6]
      BY DEF labels
    <3>2. 3 \in labels[1] /\ 4 \in labels[2] /\ 7 \in labels[3] /\ 8 \in labels[4]
          /\ 9 \in labels[5] /\ 2 \in labels[6]
      BY DEF labels
    <3> QED
      BY <3>1, <3>2 DEF Dir
  <2>3. \A t \in Dir : labels[((t + 3) % 6) + 1] \cap labels[t + 1] = {}
    BY DEF Dir, labels
  <2>4. \A t \in Dir : (t + 3) % 6 \in Dir
    BY DEF Dir
  <2> QED
    BY <2>1, <2>2, <2>3, <2>4
<1> QED
  BY <1>1, <1>2 DEF TailLabels, HeadLabels, Opposite, IsExpanded

-----------------------------------------------------------------------------
(* The invariant                                                           *)

\* The pointers of the followers that a step leaves alone with their leaders.
LEMMA OthersStay ==
  ASSUME NumPairs \in Nat, BallInv, NEW f \in particles, ~ Leads(f),
         body'[f] = body[f], partnerLbl'[f] = partnerLbl[f],
         Anchor(body'[f - 1]) = Anchor(body[f - 1])
  PROVE  Pointee(f)' = Anchor(body[f - 1])'
  BY DEF BallInv, Pointee

\* The constructor places the pairs.
LEMMA BallInitInv ==
  ASSUME BallAssumption
  PROVE  Init => BallInv
<1> SUFFICES ASSUME Init PROVE BallInv
  OBVIOUS
<1>1. NumPairs \in Nat /\ SideLen \in Nat
  BY DEF BallAssumption
<1>2. PICK leaderNode \in [1 .. NumPairs -> (2 .. SideLen - 2) \X (2 .. SideLen - 2)],
           followerDir \in [1 .. NumPairs -> Dir], compass \in Compasses :
        \E place \in {[p \in 1 .. 2 * NumPairs |->
                         LET pair == (p + 1) \div 2
                         IN  IF Leads(p) THEN leaderNode[pair]
                                         ELSE NodeInDir(leaderNode[pair], followerDir[pair])]} :
          /\ \A p, q \in 1 .. 2 * NumPairs : p # q => place[p] # place[q]
          /\ body = [p \in 1 .. 2 * NumPairs |->
                      [head |-> place[p], globalTailDir |-> -1, orientation |-> compass[p]]]
          /\ partnerLbl = [p \in 1 .. 2 * NumPairs |->
                            IF Leads(p) THEN -1
                            ELSE GlobalToLocalDir(body[p], Opposite(followerDir[p \div 2]))]
  BY DEF Init
<1> DEFINE place == [p \in 1 .. 2 * NumPairs |->
                       IF Leads(p) THEN leaderNode[(p + 1) \div 2]
                       ELSE NodeInDir(leaderNode[(p + 1) \div 2], followerDir[(p + 1) \div 2])]
<1>3. /\ \A p, q \in 1 .. 2 * NumPairs : p # q => place[p] # place[q]
      /\ body = [p \in 1 .. 2 * NumPairs |->
                  [head |-> place[p], globalTailDir |-> -1, orientation |-> compass[p]]]
      /\ partnerLbl = [p \in 1 .. 2 * NumPairs |->
                        IF Leads(p) THEN -1
                        ELSE GlobalToLocalDir(body[p], Opposite(followerDir[p \div 2]))]
  BY <1>2
<1>4. \A p \in 1 .. 2 * NumPairs : (p + 1) \div 2 \in 1 .. NumPairs
  BY <1>1
<1>5. \A i \in 1 .. NumPairs : leaderNode[i] \in Node
  BY <1>1 DEF Node
<1>6. \A p \in 1 .. 2 * NumPairs : place[p] \in Node
  BY <1>4, <1>5, NodeInDirType
<1>7. \A p \in 1 .. 2 * NumPairs : compass[p] \in Dir
  BY DEF BallAssumption
<1>8. \A p \in 1 .. 2 * NumPairs : ~ Leads(p) =>
        /\ p - 1 \in 1 .. 2 * NumPairs /\ Leads(p - 1)
        /\ place[p] = NodeInDir(place[p - 1], followerDir[p \div 2])
        /\ followerDir[p \div 2] \in Dir
  <2> SUFFICES ASSUME NEW p \in 1 .. 2 * NumPairs, ~ Leads(p)
               PROVE  /\ p - 1 \in 1 .. 2 * NumPairs /\ Leads(p - 1)
                      /\ place[p] = NodeInDir(place[p - 1], followerDir[p \div 2])
                      /\ followerDir[p \div 2] \in Dir
    OBVIOUS
  <2>1. /\ p - 1 \in 1 .. 2 * NumPairs /\ Leads(p - 1) /\ p \div 2 \in 1 .. NumPairs
        /\ (p + 1) \div 2 = p \div 2 /\ ((p - 1) + 1) \div 2 = p \div 2
    BY <1>1, PairType
  <2>2. place[p] = NodeInDir(leaderNode[p \div 2], followerDir[p \div 2])
    BY <2>1
  <2>3. place[p - 1] = leaderNode[p \div 2]
    BY <2>1
  <2> QED
    BY <2>1, <2>2, <2>3
<1> HIDE DEF place
<1>9. body \in [1 .. 2 * NumPairs -> Body] /\ particles = 1 .. 2 * NumPairs
  BY <1>3, <1>6, <1>7 DEF Body, particles
<1>10. \A p \in particles : Nodes(body[p]) = {place[p]} /\ Anchor(body[p]) = place[p]
  BY <1>3, <1>9 DEF Nodes, Anchor, IsExpanded, IsContracted
<1>11. Apart
  BY <1>3, <1>9, <1>10 DEF Apart
<1>12. ASSUME NEW p \in particles, ~ Leads(p)
       PROVE  /\ partnerLbl[p] \in Dir
              /\ LocalToGlobalDir(body[p], partnerLbl[p]) = Opposite(followerDir[p \div 2])
  <2>1. body[p] \in Body /\ Opposite(followerDir[p \div 2]) \in Dir
    BY <1>8, <1>9, <1>12, OppositeType
  <2>2. partnerLbl[p] = GlobalToLocalDir(body[p], Opposite(followerDir[p \div 2]))
    BY <1>3, <1>9, <1>12
  <2>3. \A g, o \in Dir : (g - o + 6) % 6 \in Dir /\ (o + ((g - o + 6) % 6)) % 6 = g
    BY DEF Dir
  <2> QED
    BY <2>1, <2>2, <2>3 DEF Body, LocalToGlobalDir, GlobalToLocalDir
<1>13. partnerLbl \in [1 .. 2 * NumPairs -> {-1} \cup Dir] /\ TypeOK
  BY <1>3, <1>9, <1>12 DEF TypeOK
<1>14. ASSUME NEW p \in particles, ~ Leads(p)
       PROVE  Pointee(p) = Anchor(body[p - 1])
  <2>1. place[p - 1] \in Node /\ followerDir[p \div 2] \in Dir
        /\ place[p] = NodeInDir(place[p - 1], followerDir[p \div 2]) /\ p - 1 \in particles
    BY <1>6, <1>8, <1>9, <1>14
  <2>2. NodeInDir(place[p], Opposite(followerDir[p \div 2])) = place[p - 1]
    BY <2>1, NodeInDirBack
  <2>3. body[p].head = place[p]
    BY <1>3, <1>9
  <2> QED
    BY <1>10, <1>12, <1>14, <2>1, <2>2, <2>3 DEF Pointee
<1> QED
  BY <1>9, <1>11, <1>13, <1>14 DEF BallInv

\* A leader that expands keeps its anchor.
LEMMA BallExpandInv ==
  ASSUME NumPairs \in Nat, BallInv, NEW p \in particles, LeaderExpands(p)
  PROVE  BallInv'
<1>1. PICK d \in Dir : CanExpand(p, d) /\ body' = AfterExpand(p, d)
  BY DEF LeaderExpands
<1> DEFINE x == Expanded(body[p], d)
<1>2. Leads(p) /\ IsContracted(body[p]) /\ body[p] \in Body /\ d \in Labels(body[p])
      /\ particles = 1 .. 2 * NumPairs
  BY DEF LeaderExpands, BallInv, particles, Labels, LabelLimit, Dir
<1>3. /\ x \in Body /\ Nodes(x) = {NbrNode(body[p], d), body[p].head}
      /\ Anchor(x) = body[p].head /\ NbrNode(body[p], d) \notin Occupied
  BY <1>1, <1>2, ExpandedBody, AnchorStays DEF CanExpand, HasNbrAtLabel
<1>4. body[p].head \in Nodes(body[p])
  BY <1>2, NodesType
<1>5. body' = [body EXCEPT ![p] = x]
  BY <1>1 DEF AfterExpand
<1> HIDE DEF x
<1>6. /\ body' \in [1 .. 2 * NumPairs -> Body] /\ Apart'
      /\ body'[p] = x
      /\ \A r \in particles \ {p} : body'[r] = body[r]
  BY <1>3, <1>4, <1>5, MoveApart DEF BallInv
<1>7. partnerLbl' = partnerLbl /\ particles' = particles
  BY <1>2, <1>6 DEF LeaderExpands, particles
<1>8. ASSUME NEW f \in particles, ~ Leads(f)
      PROVE  Pointee(f)' = Anchor(body[f - 1])'
  <2>1. f - 1 \in particles /\ f # p
    BY <1>2, <1>8, PairType
  <2>2. Anchor(body'[f - 1]) = Anchor(body[f - 1])
    BY <1>2, <1>3, <1>6, <2>1 DEF Anchor, IsExpanded
  <2> QED
    BY <1>6, <1>7, <1>8, <2>1, <2>2, OthersStay
<1> QED
  BY <1>6, <1>7, <1>8 DEF BallInv, TypeOK

\* A follower that contracts keeps its head, with the pointer.
LEMMA BallContractInv ==
  ASSUME NumPairs \in Nat, BallInv, NEW p \in particles, FollowerContracts(p)
  PROVE  BallInv'
<1> DEFINE x == TailContracted(body[p])
<1>1. ~ Leads(p) /\ IsExpanded(body[p]) /\ body[p] \in Body /\ particles = 1 .. 2 * NumPairs
  BY DEF FollowerContracts, BallInv, particles
<1>2. /\ x \in Body /\ Nodes(x) = {body[p].head}
      /\ x.head = body[p].head /\ x.orientation = body[p].orientation
  BY <1>1, ContractedBody DEF TailContracted, Body
<1>3. body[p].head \in Nodes(body[p])
  BY <1>1, NodesType
<1>4. body' = [body EXCEPT ![p] = x]
  BY DEF FollowerContracts, AfterContractTail
<1> HIDE DEF x
<1>5. /\ body' \in [1 .. 2 * NumPairs -> Body] /\ Apart'
      /\ body'[p] = x
      /\ \A r \in particles \ {p} : body'[r] = body[r]
  <2>1. body \in [1 .. 2 * NumPairs -> Body] /\ Apart
    BY DEF BallInv
  <2>2. Nodes(x) \cap (Occupied \ Nodes(body[p])) = {}
    BY <1>2, <1>3
  <2> QED
    BY <1>2, <1>4, <2>1, <2>2, MoveApart
<1>6. partnerLbl' = partnerLbl /\ particles' = particles
  BY <1>1, <1>5 DEF FollowerContracts, particles
<1>7. ASSUME NEW f \in particles, ~ Leads(f)
      PROVE  Pointee(f)' = Anchor(body[f - 1])'
  <2>1. f - 1 \in particles /\ f - 1 # p
    BY <1>1, <1>7, PairType
  <2>2. body'[f - 1] = body[f - 1]
    BY <1>5, <2>1
  <2>3. CASE f = p
    BY <1>2, <1>5, <1>6, <1>7, <2>2, <2>3 DEF BallInv, Pointee, LocalToGlobalDir
  <2>4. CASE f # p
    BY <1>5, <1>6, <1>7, <2>2, <2>4, OthersStay
  <2> QED
    BY <2>3, <2>4
<1> QED
  BY <1>5, <1>6, <1>7 DEF BallInv, TypeOK

\* A handover within a pair that leaves the leader on its head and puts the
\* head of the follower on what was the leader's tail.
LEMMA HandoverInv ==
  ASSUME NumPairs \in Nat, BallInv, NEW q \in particles, ~ Leads(q),
         NEW p \in particles, p = q - 1, IsExpanded(body[p]),
         NEW x \in Body, x.head = TailNode(body[p]), x.orientation = body[q].orientation,
         Nodes(x) \subseteq Nodes(body[q]) \cup {TailNode(body[p])},
         NEW lbl, lbl = GlobalToLocalDir(body[q],
                          LocalToGlobalDir(body[p], Opposite(TailDir(body[p])))),
         body' = [body EXCEPT ![p] = Released(body[p], TailNode(body[p])), ![q] = x],
         partnerLbl' = [partnerLbl EXCEPT ![q] = lbl]
  PROVE  BallInv'
<1> DEFINE y == Released(body[p], TailNode(body[p]))
<1>1. /\ body[p] \in Body /\ body[q] \in Body /\ particles = 1 .. 2 * NumPairs
      /\ Leads(p) /\ p # q
  BY PairType DEF BallInv, particles
<1>2. /\ Nodes(body[p]) = {body[p].head, TailNode(body[p])}
      /\ TailNode(body[p]) # body[p].head
  BY <1>1, NodesType
<1>3. /\ y \in Body /\ Nodes(y) = {body[p].head} /\ IsContracted(y)
  BY <1>1, <1>2, ReleasedBody
<1>4. y.head = body[p].head
  BY <1>3, NodesType
<1>5. Nodes(body[p]) \cap Nodes(body[q]) = {}
  BY <1>1 DEF BallInv, Apart
<1> HIDE DEF y
<1>6. /\ Nodes(y) \cap Nodes(x) = {}
      /\ Nodes(y) \cup Nodes(x) \subseteq Nodes(body[p]) \cup Nodes(body[q])
  BY <1>2, <1>3, <1>5
<1>7. body' = [body EXCEPT ![p] = y, ![q] = x]
  BY DEF y
<1>8. /\ body' \in [1 .. 2 * NumPairs -> Body] /\ Apart' /\ particles' = particles
      /\ body'[p] = y /\ body'[q] = x
      /\ \A r \in particles \ {p, q} : body'[r] = body[r]
  <2>1. body \in [1 .. 2 * NumPairs -> Body] /\ Apart
    BY DEF BallInv
  <2>2. /\ body' \in [1 .. 2 * NumPairs -> Body] /\ particles' = particles
        /\ body'[p] = y /\ body'[q] = x
        /\ \A r \in particles \ {p, q} : body'[r] = body[r]
    BY <1>1, <1>3, <1>7, <2>1 DEF particles
  <2>3. \A r \in particles \ {p, q} : Nodes(body[r]) \cap (Nodes(x) \cup Nodes(y)) = {}
    BY <1>6, <2>1 DEF Apart
  <2>4. ASSUME NEW r \in particles, NEW s \in particles, r # s
        PROVE  Nodes(body'[r]) \cap Nodes(body'[s]) = {}
    <3>1. CASE r \in {p, q} /\ s \in {p, q}
      <4>1. (r = p /\ s = q) \/ (r = q /\ s = p)
        BY <2>4, <3>1
      <4> QED
        BY <1>6, <2>2, <4>1
    <3>2. CASE r \in {p, q} /\ s \notin {p, q}
      BY <2>2, <2>3, <3>2
    <3>3. CASE r \notin {p, q} /\ s \in {p, q}
      BY <2>2, <2>3, <3>3
    <3>4. CASE r \notin {p, q} /\ s \notin {p, q}
      BY <2>1, <2>2, <2>4, <3>4 DEF Apart
    <3> QED
      BY <3>1, <3>2, <3>3, <3>4
  <2> QED
    BY <2>2, <2>4 DEF Apart
<1>9. /\ lbl \in Dir
      /\ LocalToGlobalDir(body[q], lbl) = Opposite(body[p].globalTailDir)
  BY <1>1, TurnRound
<1>10. /\ particles' = particles /\ partnerLbl' \in [1 .. 2 * NumPairs -> {-1} \cup Dir]
       /\ partnerLbl'[q] = lbl
       /\ \A r \in particles \ {q} : partnerLbl'[r] = partnerLbl[r]
  BY <1>1, <1>8, <1>9 DEF BallInv, particles
<1>11. Pointee(q)' = Anchor(body[q - 1])'
  <2>1. LocalToGlobalDir(x, lbl) = Opposite(body[p].globalTailDir)
    BY <1>9 DEF LocalToGlobalDir
  <2>2. NodeInDir(x.head, LocalToGlobalDir(x, lbl)) = body[p].head
    BY <1>1, <2>1, TailToHead
  <2>3. Anchor(y) = body[p].head
    BY <1>3, <1>4 DEF Anchor, IsExpanded
  <2> QED
    BY <1>8, <1>10, <2>2, <2>3 DEF Pointee
<1>12. ASSUME NEW f \in particles, ~ Leads(f)
       PROVE  Pointee(f)' = Anchor(body[f - 1])'
  <2>1. CASE f = q
    BY <1>11, <2>1
  <2>2. CASE f # q
    <3>1. f - 1 \in particles /\ Leads(f - 1)
      BY <1>1, <1>12, PairType
    <3>2. f \in Int /\ q \in Int
      BY <1>1
    <3>3. f # p /\ f - 1 # p /\ f - 1 # q
      BY <1>1, <1>12, <2>2, <3>1, <3>2
    <3> QED
      BY <1>8, <1>10, <1>12, <2>2, <3>1, <3>3, OthersStay
  <2> QED
    BY <2>1, <2>2
<1>13. TypeOK'
  <2>1. \A r \in particles : partnerLbl'[r] \in IF Leads(r) THEN {-1} ELSE Dir
    <3> TAKE r \in particles
    <3>1. CASE r = q
      BY <1>9, <1>10, <3>1
    <3>2. CASE r # q
      BY <1>10, <3>2 DEF BallInv, TypeOK
    <3> QED
      BY <3>1, <3>2
  <2> QED
    BY <1>1, <1>8, <1>10, <2>1 DEF TypeOK
<1> QED
  BY <1>8, <1>10, <1>12, <1>13 DEF BallInv

\* Whoever a leader pulls by its tail is its own follower, since a contracted
\* follower points at its partner.
LEMMA BallPullInv ==
  ASSUME NumPairs \in Nat, BallInv, NEW p \in particles, LeaderPulls(p)
  PROVE  BallInv'
<1>1. /\ Leads(p) /\ IsExpanded(body[p]) /\ body[p] \in Body /\ particles = 1 .. 2 * NumPairs
      /\ PointingLabels(p) # {} /\ Apart
  BY DEF LeaderPulls, BallInv, particles
<1> DEFINE label == FirstFrom(PointingLabels(p), FirstTailLabel(p), 10)
           n == TailNode(body[p])
           q == NbrAtLabel(p, label)
<1>2. label \in PointingLabels(p)
  <2>1. /\ TailLabels(body[p]) \subseteq 0 .. 9
        /\ \E l \in TailLabels(body[p]) : (l + 9) % 10 \notin TailLabels(body[p])
    BY <1>1, TailLabelsType
  <2>2. FirstTailLabel(p) \in 0 .. 9
    BY <2>1 DEF FirstTailLabel
  <2>3. PointingLabels(p) \in SUBSET (0 .. 9)
    BY <2>1 DEF PointingLabels
  <2> QED
    BY <1>1, <2>2, <2>3, FirstFromType
<1>3. /\ CanPull(p, label)
      /\ partnerLbl' = [partnerLbl EXCEPT
                         ![q] = DirToNbrDir(body[p], body[q], Opposite(TailDir(body[p])))]
      /\ body' = AfterPull(p, label)
  BY DEF LeaderPulls
<1>4. /\ label \in TailLabels(body[p]) /\ HasNbrAtLabel(p, label)
      /\ partnerLbl[q] # -1 /\ PointsAtMe(body[p], body[q], partnerLbl[q])
      /\ IsContracted(body[q])
  BY <1>2, <1>3 DEF PointingLabels, CanPull
<1> HIDE DEF label
<1>5. /\ label \in Labels(body[p])
      /\ OccupiedNodeIncidentToLabel(body[p], label) = n
  BY <1>1, <1>4, TailLabelsType DEF OccupiedNodeIncidentToLabel, Labels, LabelLimit, IsExpanded
<1>6. q \in particles /\ NbrNode(body[p], label) \in Nodes(body[q])
  BY <1>4 DEF HasNbrAtLabel, Occupied, NbrAtLabel, ParticleAt
<1> HIDE DEF q
<1>7. body[q] \in Body /\ ~ Leads(q) /\ partnerLbl[q] \in Dir
  BY <1>4, <1>6 DEF BallInv, TypeOK, particles
<1>8. NbrNode(body[q], partnerLbl[q]) = Pointee(q)
  BY <1>4, <1>7 DEF NbrNode, OccupiedNodeIncidentToLabel, HeadLabels, Labels, LabelLimit, Dir,
                    LabelToGlobalDir, LabelToDir, Pointee
<1>9. p = q - 1
  <2>1. q - 1 \in particles
    BY <1>1, <1>6, <1>7, PairType
  <2>2. Pointee(q) \in Nodes(body[q - 1])
    BY <1>6, <1>7, <2>1, AnchorType DEF BallInv, particles
  <2>3. Pointee(q) \in Nodes(body[p])
    BY <1>1, <1>4, <1>8, NodesType DEF PointsAtMe, PointsAtMyHead, PointsAtMyTail
  <2> QED
    BY <1>1, <2>1, <2>2, <2>3 DEF Apart
<1> DEFINE d == LabelToGlobalDir(body[p], label)
           x == PulledOnto(body[q], n, d)
<1>10. /\ x \in Body /\ Nodes(x) = {n, body[q].head}
       /\ x.head = n /\ x.orientation = body[q].orientation
  <2>1. n \in Node /\ d \in Dir
    BY <1>1, <1>5, NodesType, LabelToGlobalDirType
  <2>2. NodeInDir(n, d) = body[q].head
    BY <1>4, <1>5, <1>6, <1>7, NodesType DEF NbrNode
  <2> HIDE DEF n, d
  <2>3. x \in Body /\ Nodes(x) = {n, body[q].head}
    BY <1>4, <1>7, <2>1, <2>2, PulledBody
  <2> QED
    BY <1>7, <2>3 DEF PulledOnto, Body
<1>11. body' = [body EXCEPT ![p] = Released(body[p], n), ![q] = x]
  <2>1. p # q
    BY <1>1, <1>7
  <2> QED
    BY <1>3, <1>5, <2>1 DEF AfterPull, q
<1>12. Nodes(x) \subseteq Nodes(body[q]) \cup {n}
  BY <1>7, <1>10, NodesType
<1>13. partnerLbl' = [partnerLbl EXCEPT
                       ![q] = GlobalToLocalDir(body[q],
                                LocalToGlobalDir(body[p], Opposite(TailDir(body[p]))))]
  BY <1>3 DEF DirToNbrDir
<1> HIDE DEF x
<1> QED
  BY <1>1, <1>6, <1>7, <1>9, <1>10, <1>11, <1>12, <1>13, HandoverInv

\* Whoever a follower pushes is its own leader.
LEMMA BallPushInv ==
  ASSUME NumPairs \in Nat, BallInv, NEW p \in particles, FollowerPushes(p)
  PROVE  BallInv'
<1> DEFINE lbl == partnerLbl[p]
           q == NbrAtLabel(p, lbl)
           x == Expanded(body[p], lbl)
<1>1. /\ ~ Leads(p) /\ IsContracted(body[p]) /\ HasNbrAtLabel(p, lbl) /\ IsExpanded(body[q])
      /\ body' = AfterPush(p, lbl)
      /\ partnerLbl' = [partnerLbl EXCEPT
                         ![p] = NbrDirToDir(body[p], body[q], Opposite(TailDir(body[q])))]
  BY DEF FollowerPushes, CanPush
<1>2. /\ body[p] \in Body /\ lbl \in Dir /\ lbl \in Labels(body[p])
      /\ particles = 1 .. 2 * NumPairs /\ Apart
  BY <1>1 DEF BallInv, TypeOK, particles, Labels, LabelLimit, Dir
<1> HIDE DEF lbl
<1>3. NbrNode(body[p], lbl) = Pointee(p)
  BY <1>1, <1>2 DEF NbrNode, OccupiedNodeIncidentToLabel, HeadLabels, LabelToGlobalDir,
                    LabelToDir, Pointee, lbl
<1>4. p - 1 \in particles /\ body[p - 1] \in Body
  BY <1>1, <1>2, PairType DEF BallInv
<1>5. Pointee(p) = Anchor(body[p - 1])
  BY <1>1 DEF BallInv
<1>6. q = p - 1
  BY <1>2, <1>3, <1>4, <1>5, AnchorType, ParticleAtIs DEF NbrAtLabel
<1>7. NbrNode(body[p], lbl) = TailNode(body[q])
  BY <1>1, <1>3, <1>5, <1>6 DEF Anchor
<1>8. /\ x \in Body /\ Nodes(x) = {TailNode(body[q]), body[p].head}
      /\ x.head = TailNode(body[q])
  BY <1>1, <1>2, <1>7, ExpandedBody
<1>9. x.orientation = body[p].orientation
  BY <1>2 DEF Expanded, Body
<1>10. body' = [body EXCEPT ![q] = Released(body[q], TailNode(body[q])), ![p] = x]
  <2>1. p # q
    BY <1>2, <1>6
  <2>2. body' = [body EXCEPT ![p] = x, ![q] = Released(body[q], TailNode(body[q]))]
    BY <1>1, <1>7, <2>1 DEF AfterPush
  <2>3. \A y : [body EXCEPT ![p] = x, ![q] = y] = [body EXCEPT ![q] = y, ![p] = x]
    BY <2>1
  <2> QED
    BY <2>2, <2>3
<1>11. Nodes(x) \subseteq Nodes(body[p]) \cup {TailNode(body[q])}
  BY <1>2, <1>8, NodesType
<1>12. partnerLbl' = [partnerLbl EXCEPT
                       ![p] = GlobalToLocalDir(body[p],
                                LocalToGlobalDir(body[q], Opposite(TailDir(body[q]))))]
  BY <1>1 DEF NbrDirToDir
<1>13. IsExpanded(body[q]) /\ q \in particles /\ ~ Leads(p)
  BY <1>1, <1>4, <1>6
<1> HIDE DEF x, q
<1> QED
  BY <1>6, <1>8, <1>9, <1>10, <1>11, <1>12, <1>13, HandoverInv

-----------------------------------------------------------------------------
(* The theorems                                                            *)

\* Every activation preserves the invariant.
LEMMA BallStepInv ==
  ASSUME BallAssumption, BallInv, [Next]_vars
  PROVE  BallInv'
<1>1. NumPairs \in Nat
  BY DEF BallAssumption
<1>2. ASSUME NEW p \in particles, Activate(p)
      PROVE  BallInv'
  BY <1>1, <1>2, BallExpandInv, BallPullInv, BallPushInv, BallContractInv DEF Activate
<1>3. CASE UNCHANGED vars
  BY <1>3 DEF vars, BallInv, TypeOK, Apart, Pointee, particles
<1> QED
  BY <1>2, <1>3 DEF Next

\* A follower that points at the node its leader stays on is with its leader.
LEMMA PartnersHeld ==
  ASSUME BallAssumption, BallInv
  PROVE  TypeOK /\ PartnersStay
<1> SUFFICES ASSUME NEW p \in particles, ~ Leads(p)
             PROVE  Pointee(p) \in Nodes(body[p - 1])
  BY DEF BallInv, PartnersStay, Pointee
<1>1. p - 1 \in particles /\ body[p - 1] \in Body
  BY PairType DEF BallInv, particles, BallAssumption
<1> QED
  BY <1>1, AnchorType DEF BallInv

\* The invariant holds in every behaviour, for any number of pairs.
THEOREM BallInvCorrect ==
  ASSUME BallAssumption
  PROVE  Spec => []BallInv
  BY BallInitInv, BallStepInv, PTL DEF Spec

\* Whoever redirects the pointer of a follower, the leader that pulls it or
\* the follower that pushes, partners stay with each other.
THEOREM PartnersCorrect ==
  ASSUME BallAssumption
  PROVE  Spec => [](TypeOK /\ PartnersStay)
  BY PartnersHeld, BallInvCorrect, PTL

-----------------------------------------------------------------------------
(* The walls                                                               *)

\* The walk g goes along a wall as the constructor does.
Step(g, dirs, s, k) == g[k] = NodeInDir(g[k - 1], dirs[(k - 1) \div s + 1])
WalksAlong(g, dirs, s, N) ==
  /\ N = s * Len(dirs) /\ g = [k \in 0 .. N |-> g[k]] /\ g[0] = <<0, 0>>
  /\ \A k \in 1 .. N : Step(g, dirs, s, k)

\* It meets all of the wall.
LEMMA WallIs ==
  ASSUME NEW dirs, NEW s \in Nat, NEW N \in Nat, NEW g, WalksAlong(g, dirs, s, N)
  PROVE  Wall(dirs, s) = {g[k] : k \in 0 .. N - 1}
<1>0. /\ N = s * Len(dirs) /\ g = [k \in 0 .. N |-> g[k]] /\ g[0] = <<0, 0>>
      /\ \A k \in 1 .. N : Step(g, dirs, s, k)
  BY DEF WalksAlong
<1> DEFINE next(f, k) == NodeInDir(f[k - 1], dirs[(k - 1) \div s + 1])
           walk(f) == [k \in 0 .. N |-> IF k = 0 THEN <<0, 0>> ELSE next(f, k)]
           b == CHOOSE f : f = walk(f)
<1>1. Wall(dirs, s) = {b[k] : k \in 0 .. N - 1}
  BY <1>0 DEF Wall
<1>2. \A k \in 0 .. N : g[k] = IF k = 0 THEN <<0, 0>> ELSE next(g, k)
  <2> TAKE k \in 0 .. N
  <2>1. k = 0 \/ k \in 1 .. N
    OBVIOUS
  <2> QED
    BY <1>0, <2>1 DEF Step
<1> HIDE DEF next
<1>3. g = walk(g)
  BY <1>0, <1>2
<1>4. b = walk(b)
  <2> HIDE DEF walk
  <2> QED
    BY <1>3
<1>5. b[0] = <<0, 0>> /\ \A k \in 1 .. N : b[k] = next(b, k)
  <2>1. \A f : \A k \in 0 .. N : walk(f)[k] = IF k = 0 THEN <<0, 0>> ELSE next(f, k)
    OBVIOUS
  <2> HIDE DEF b, walk
  <2>2. \A k \in 0 .. N : b[k] = IF k = 0 THEN <<0, 0>> ELSE next(b, k)
    BY <1>4, <2>1
  <2>3. 0 \in 0 .. N /\ \A k \in 1 .. N : k \in 0 .. N /\ k # 0
    OBVIOUS
  <2> QED
    BY <2>2, <2>3
<1> HIDE DEF b
<1> DEFINE T == {k \in 0 .. N : b[k] # g[k]}
<1>6. T = {}
  <2> SUFFICES ASSUME T # {} PROVE FALSE
    OBVIOUS
  <2>1. T \in SUBSET Nat
    OBVIOUS
  <2>2. PICK k \in T : \A j \in T : k <= j
    <3> HIDE DEF T
    <3> QED
      BY <2>1, NatLeast
  <2>3. k \in 1 .. N /\ b[k] # g[k]
    BY <1>0, <1>5
  <2>4. k - 1 \in 0 .. N /\ ~ (k <= k - 1)
    BY <2>3
  <2>5. b[k - 1] = g[k - 1]
    BY <2>2, <2>4
  <2>6. next(b, k) = next(g, k)
    BY <2>5 DEF next
  <2> QED
    BY <1>2, <1>5, <2>3, <2>6
<1>7. \A k \in 0 .. N - 1 : b[k] = g[k]
  <2> TAKE k \in 0 .. N - 1
  <2>1. k \in 0 .. N
    OBVIOUS
  <2>2. k \notin T
    BY <1>6
  <2> QED
    BY <2>1, <2>2
<1> QED
  BY <1>1, <1>7

\* The k-th node of the walk round the hexagon.
HexagonNode(s, k) ==
  IF k <= s THEN <<k, 0>>
  ELSE IF k <= 2 * s THEN <<s, k - s>>
  ELSE IF k <= 3 * s THEN <<3 * s - k, k - s>>
  ELSE IF k <= 4 * s THEN <<3 * s - k, 2 * s>>
  ELSE IF k <= 5 * s THEN <<- s, 6 * s - k>>
  ELSE <<k - 6 * s, 6 * s - k>>

\* It goes s steps in each direction, and back to where it began.
LEMMA HexagonSteps ==
  ASSUME NEW s \in Nat, NEW k \in 1 .. 6 * s
  PROVE  /\ (k - 1) \div s \in Dir
         /\ HexagonNode(s, k) = NodeInDir(HexagonNode(s, k - 1), (k - 1) \div s)
         /\ HexagonNode(s, 0) = <<0, 0>> /\ HexagonNode(s, 6 * s) = <<0, 0>>
<1>0. k - 1 \in 0 .. 6 * s /\ k \in 0 .. 6 * s /\ s > 0
  OBVIOUS
<1>7. HexagonNode(s, 0) = <<0, 0>> /\ HexagonNode(s, 6 * s) = <<0, 0>>
  BY <1>0 DEF HexagonNode
<1>1. CASE k - 1 < s
  <2>1. (k - 1) \div s = 0
    BY <1>0, <1>1
  <2> QED
    BY <1>0, <1>1, <1>7, <2>1 DEF HexagonNode, NodeInDir, xOffset, yOffset, Dir
<1>2. CASE s <= k - 1 /\ k - 1 < 2 * s
  <2>1. (k - 1) \div s = 1
    BY <1>0, <1>2
  <2> QED
    BY <1>0, <1>2, <1>7, <2>1 DEF HexagonNode, NodeInDir, xOffset, yOffset, Dir
<1>3. CASE 2 * s <= k - 1 /\ k - 1 < 3 * s
  <2>1. (k - 1) \div s = 2
    BY <1>0, <1>3
  <2> QED
    BY <1>0, <1>3, <1>7, <2>1 DEF HexagonNode, NodeInDir, xOffset, yOffset, Dir
<1>4. CASE 3 * s <= k - 1 /\ k - 1 < 4 * s
  <2>1. (k - 1) \div s = 3
    BY <1>0, <1>4
  <2> QED
    BY <1>0, <1>4, <1>7, <2>1 DEF HexagonNode, NodeInDir, xOffset, yOffset, Dir
<1>5. CASE 4 * s <= k - 1 /\ k - 1 < 5 * s
  <2>1. (k - 1) \div s = 4
    BY <1>0, <1>5
  <2> QED
    BY <1>0, <1>5, <1>7, <2>1 DEF HexagonNode, NodeInDir, xOffset, yOffset, Dir
<1>6. CASE 5 * s <= k - 1 /\ k - 1 < 6 * s
  <2>1. (k - 1) \div s = 5
    BY <1>0, <1>6
  <2> QED
    BY <1>0, <1>6, <1>7, <2>1 DEF HexagonNode, NodeInDir, xOffset, yOffset, Dir
<1> QED
  BY <1>0, <1>1, <1>2, <1>3, <1>4, <1>5, <1>6

\* The wall of DiscoDemo is closed: whoever steps from within it to a node that
\* has no object is within it still.
LEMMA HexagonCloses ==
  ASSUME NEW s \in Nat, NEW m \in InHexagon(s), NEW d \in Dir, NodeInDir(m, d) \notin Hexagon(s)
  PROVE  NodeInDir(m, d) \in InHexagon(s)
<1> DEFINE dirs == <<0, 1, 2, 3, 4, 5>>
           N == 6 * s
           g == [k \in 0 .. N |->
                   IF k <= s THEN <<k, 0>>
                   ELSE IF k <= 2 * s THEN <<s, k - s>>
                   ELSE IF k <= 3 * s THEN <<3 * s - k, k - s>>
                   ELSE IF k <= 4 * s THEN <<3 * s - k, 2 * s>>
                   ELSE IF k <= 5 * s THEN <<- s, 6 * s - k>>
                   ELSE <<k - 6 * s, 6 * s - k>>]
<1>1. Len(dirs) = 6 /\ N \in Nat /\ N = s * Len(dirs)
  OBVIOUS
<1>2. \A k \in 1 .. N : Step(g, dirs, s, k)
  <2> TAKE k \in 1 .. N
  <2>1. g[k] = HexagonNode(s, k) /\ g[k - 1] = HexagonNode(s, k - 1)
    BY DEF HexagonNode
  <2>2. \A e \in Dir : dirs[e + 1] = e
    BY DEF Dir
  <2> HIDE DEF g, dirs
  <2> QED
    BY <2>1, <2>2, HexagonSteps DEF Step, N
<1>3. Hexagon(s) = {g[k] : k \in 0 .. N - 1}
  <2>1. g = [k \in 0 .. N |-> g[k]] /\ g[0] = <<0, 0>>
    OBVIOUS
  <2> HIDE DEF dirs, N, g
  <2>2. WalksAlong(g, dirs, s, N)
    BY <1>1, <1>2, <2>1 DEF WalksAlong
  <2>3. Wall(dirs, s) = {g[k] : k \in 0 .. N - 1}
    BY <1>1, <2>2, WallIs
  <2> QED
    BY <2>3 DEF Hexagon, dirs
<1> DEFINE n == NodeInDir(m, d)
<1>12. m[1] \in Int /\ m[2] \in Int /\ n \in Node
  <2>1. m \in Node
    BY DEF InHexagon, Node
  <2> QED
    BY <2>1, NodeInDirType DEF Node
<1>13. /\ s # 0 /\ n[1] \in -s .. s /\ n[2] \in 0 .. 2 * s /\ n[1] + n[2] \in 0 .. 2 * s
  BY <1>12 DEF InHexagon, NodeInDir, xOffset, yOffset, Dir
<1> HIDE DEF n
<1> SUFFICES ASSUME n[1] \in {-s, s} \/ n[2] \in {0, 2 * s} \/ n[1] + n[2] \in {0, 2 * s}
             PROVE  \E k \in 0 .. N - 1 : g[k] = n
  <2>1. n = <<n[1], n[2]>> /\ n[1] \in Int /\ n[2] \in Int
    BY <1>12 DEF Node
  <2>2. CASE n[1] \in {-s, s} \/ n[2] \in {0, 2 * s} \/ n[1] + n[2] \in {0, 2 * s}
    <3>1. n \in Hexagon(s)
      BY <1>3, <2>2
    <3> QED
      BY <3>1 DEF n
  <2>3. CASE ~ (n[1] \in {-s, s} \/ n[2] \in {0, 2 * s} \/ n[1] + n[2] \in {0, 2 * s})
    <3>1. n[1] \in -s + 1 .. s - 1 /\ n[2] \in 1 .. 2 * s - 1 /\ n[1] + n[2] \in 1 .. 2 * s - 1
      BY <1>13, <2>1, <2>3
    <3>2. n \in InHexagon(s)
      BY <2>1, <3>1 DEF InHexagon
    <3> QED
      BY <3>2 DEF n
  <2> QED
    BY <2>2, <2>3
<1>4. n = <<n[1], n[2]>> /\ n[1] \in Int /\ n[2] \in Int
  BY <1>12 DEF Node
<1>11. /\ \A k \in 2 * s .. 3 * s : g[k] = <<3 * s - k, k - s>>
       /\ \A k \in 4 * s .. 5 * s : g[k] = <<- s, 6 * s - k>>
  <2>1. ASSUME NEW k \in 2 * s .. 3 * s PROVE g[k] = <<3 * s - k, k - s>>
    <3>1. k \in 0 .. N /\ ~ (k <= s)
      BY <1>13
    <3>2. CASE k = 2 * s
      BY <3>1, <3>2
    <3>3. CASE k # 2 * s
      BY <3>1, <3>3
    <3> QED
      BY <3>2, <3>3
  <2>2. ASSUME NEW k \in 4 * s .. 5 * s PROVE g[k] = <<- s, 6 * s - k>>
    <3>1. k \in 0 .. N /\ ~ (k <= 3 * s)
      BY <1>13
    <3>2. CASE k = 4 * s
      BY <3>1, <3>2
    <3>3. CASE k # 4 * s
      BY <3>1, <3>3
    <3> QED
      BY <3>2, <3>3
  <2> QED
    BY <2>1, <2>2
<1>5. CASE n[2] = 0
  <2>1. g[n[1]] = n /\ n[1] \in 0 .. N - 1
    BY <1>4, <1>13, <1>5
  <2> QED
    BY <2>1
<1>6. CASE n[1] = s
  <2>1. g[s + n[2]] = n /\ s + n[2] \in 0 .. N - 1
    BY <1>4, <1>13, <1>6
  <2> QED
    BY <2>1
<1>7. CASE n[1] + n[2] = 2 * s
  <2>0. n[2] = 2 * s - n[1] /\ n[1] \in 0 .. s
    BY <1>4, <1>13, <1>7
  <2>1. 3 * s - n[1] \in 2 * s .. 3 * s /\ 3 * s - n[1] \in 0 .. N - 1
    BY <1>4, <1>13, <2>0
  <2>2. \A k \in 2 * s .. 3 * s : k = 3 * s - n[1] => g[k] = <<n[1], 2 * s - n[1]>>
    <3> HIDE DEF g
    <3> QED
      BY <1>4, <1>13, <1>11, <2>0
  <2>3. g[3 * s - n[1]] = n
    BY <1>4, <1>13, <2>0, <2>1, <2>2
  <2> QED
    BY <2>1, <2>3
<1>8. CASE n[2] = 2 * s
  <2>1. g[3 * s - n[1]] = n /\ 3 * s - n[1] \in 0 .. N - 1
    BY <1>4, <1>13, <1>8
  <2> QED
    BY <2>1
<1>9. CASE n[1] = - s
  <2>1. g[6 * s - n[2]] = n /\ 6 * s - n[2] \in 0 .. N - 1
    <3>1. n[2] \in s .. 2 * s /\ 6 * s - n[2] \in 4 * s .. 5 * s /\ 6 * s - n[2] \in 0 .. N - 1
      BY <1>4, <1>13, <1>9
    <3>2. \A k \in 4 * s .. 5 * s : k = 6 * s - n[2] => g[k] = <<- s, n[2]>>
      <4> HIDE DEF g
      <4> QED
        BY <1>4, <1>13, <1>11
    <3> QED
      BY <1>4, <1>13, <1>9, <3>1, <3>2
  <2> QED
    BY <2>1
<1>10. CASE n[1] + n[2] = 0 /\ n[2] # 0
  <2>1. g[6 * s - n[2]] = n /\ 6 * s - n[2] \in 0 .. N - 1
    BY <1>4, <1>13, <1>10
  <2> QED
    BY <2>1
<1> QED
  BY <1>5, <1>6, <1>7, <1>8, <1>9, <1>10

\* The wall of BallroomDemo is closed, too.
LEMMA RhombusCloses ==
  ASSUME NEW s \in Nat, NEW m \in InRhombus(s), NEW d \in Dir, NodeInDir(m, d) \notin Rhombus(s)
  PROVE  NodeInDir(m, d) \in InRhombus(s)
<1> DEFINE dirs == <<0, 1, 3, 4>>
           N == 4 * s
           g == [k \in 0 .. N |->
                   IF k <= s THEN <<k, 0>>
                   ELSE IF k <= 2 * s THEN <<s, k - s>>
                   ELSE IF k <= 3 * s THEN <<3 * s - k, s>>
                   ELSE <<0, 4 * s - k>>]
<1>1. Len(dirs) = 4 /\ N \in Nat /\ N = s * Len(dirs)
  OBVIOUS
<1>2. \A k \in 1 .. N : Step(g, dirs, s, k)
  <2> TAKE k \in 1 .. N
  <2>0. k - 1 \in 0 .. N /\ k \in 0 .. N /\ s > 0
    OBVIOUS
  <2>1. CASE k - 1 < s
    <3>1. (k - 1) \div s = 0
      BY <2>0, <2>1
    <3> QED
      BY <2>0, <2>1, <3>1 DEF Step, NodeInDir, xOffset, yOffset
  <2>2. CASE s <= k - 1 /\ k - 1 < 2 * s
    <3>1. (k - 1) \div s = 1
      BY <2>0, <2>2
    <3> QED
      BY <2>0, <2>2, <3>1 DEF Step, NodeInDir, xOffset, yOffset
  <2>3. CASE 2 * s <= k - 1 /\ k - 1 < 3 * s
    <3>1. (k - 1) \div s = 2
      BY <2>0, <2>3
    <3> QED
      BY <2>0, <2>3, <3>1 DEF Step, NodeInDir, xOffset, yOffset
  <2>4. CASE 3 * s <= k - 1 /\ k - 1 < 4 * s
    <3>1. (k - 1) \div s = 3
      BY <2>0, <2>4
    <3> QED
      BY <2>0, <2>4, <3>1 DEF Step, NodeInDir, xOffset, yOffset
  <2> QED
    BY <2>0, <2>1, <2>2, <2>3, <2>4
<1>3. Rhombus(s) = {g[k] : k \in 0 .. N - 1}
  <2>1. g = [k \in 0 .. N |-> g[k]] /\ g[0] = <<0, 0>>
    OBVIOUS
  <2> HIDE DEF dirs, N, g
  <2>2. WalksAlong(g, dirs, s, N)
    BY <1>1, <1>2, <2>1 DEF WalksAlong
  <2>3. Wall(dirs, s) = {g[k] : k \in 0 .. N - 1}
    BY <1>1, <2>2, WallIs
  <2> QED
    BY <2>3 DEF Rhombus, dirs
<1> DEFINE n == NodeInDir(m, d)
<1>12. m[1] \in Int /\ m[2] \in Int /\ n \in Node
  <2>1. m \in Node
    BY DEF InRhombus, Node
  <2> QED
    BY <2>1, NodeInDirType DEF Node
<1>13. s # 0 /\ n[1] \in 0 .. s /\ n[2] \in 0 .. s
  BY <1>12 DEF InRhombus, NodeInDir, xOffset, yOffset, Dir
<1> HIDE DEF n
<1> SUFFICES ASSUME n[1] \in {0, s} \/ n[2] \in {0, s}
             PROVE  \E k \in 0 .. N - 1 : g[k] = n
  <2>1. n = <<n[1], n[2]>> /\ n[1] \in Int /\ n[2] \in Int
    BY <1>12 DEF Node
  <2>2. CASE n[1] \in {0, s} \/ n[2] \in {0, s}
    <3>1. n \in Rhombus(s)
      BY <1>3, <2>2
    <3> QED
      BY <3>1 DEF n
  <2>3. CASE ~ (n[1] \in {0, s} \/ n[2] \in {0, s})
    <3>1. n[1] \in 1 .. s - 1 /\ n[2] \in 1 .. s - 1
      BY <1>13, <2>1, <2>3
    <3>2. n \in InRhombus(s)
      BY <2>1, <3>1 DEF InRhombus
    <3> QED
      BY <3>2 DEF n
  <2> QED
    BY <2>2, <2>3
<1>4. n = <<n[1], n[2]>> /\ n[1] \in Int /\ n[2] \in Int
  BY <1>12 DEF Node
<1>5. CASE n[2] = 0
  <2>1. g[n[1]] = n /\ n[1] \in 0 .. N - 1
    BY <1>4, <1>13, <1>5
  <2> QED
    BY <2>1
<1>6. CASE n[1] = s
  <2>1. g[s + n[2]] = n /\ s + n[2] \in 0 .. N - 1
    BY <1>4, <1>13, <1>6
  <2> QED
    BY <2>1
<1>7. CASE n[2] = s
  <2>1. g[3 * s - n[1]] = n /\ 3 * s - n[1] \in 0 .. N - 1
    BY <1>4, <1>13, <1>7
  <2> QED
    BY <2>1
<1>8. CASE n[1] = 0 /\ n[2] # 0
  <2>1. g[4 * s - n[2]] = n /\ 4 * s - n[2] \in 0 .. N - 1
    BY <1>4, <1>13, <1>8
  <2> QED
    BY <2>1
<1> QED
  BY <1>5, <1>6, <1>7, <1>8

-----------------------------------------------------------------------------
(* Within the walls                                                        *)

\* Who contracts gives nodes up and takes none.
LEMMA ContractStays ==
  ASSUME body \in [particles -> Body], NEW p \in particles, IsExpanded(body[p]),
         body' = AfterContractTail(p)
  PROVE  particles' = particles /\ Occupied' \subseteq Occupied
<1>1. /\ particles' = particles /\ body'[p] = TailContracted(body[p])
      /\ \A r \in particles \ {p} : body'[r] = body[r]
  BY DEF AfterContractTail, particles
<1>2. Nodes(body'[p]) \subseteq Nodes(body[p])
  BY <1>1, ContractedBody, NodesType
<1> QED
  BY <1>1, <1>2 DEF Occupied

\* An expansion takes a free node beside the head.
LEMMA ExpandStays ==
  ASSUME body \in [particles -> Body], NEW p \in particles, NEW d \in Dir,
         CanExpand(p, d), body' = AfterExpand(p, d)
  PROVE  /\ particles' = particles
         /\ \E m \in Occupied, g \in Dir :
              NodeInDir(m, g) \notin objects /\ Occupied' \subseteq Occupied \cup {NodeInDir(m, g)}
<1>1. IsContracted(body[p]) /\ body[p] \in Body /\ NbrNode(body[p], d) \notin objects
  BY DEF CanExpand, HasObjectAtLabel
<1>2. /\ particles' = particles /\ body'[p] = Expanded(body[p], d)
      /\ \A r \in particles \ {p} : body'[r] = body[r]
  BY DEF AfterExpand, particles
<1>3. /\ NbrNode(body[p], d) = NodeInDir(body[p].head, LabelToGlobalDir(body[p], d))
      /\ d \in Labels(body[p]) /\ LabelToGlobalDir(body[p], d) \in Dir
  BY <1>1, ContractedFrame, LabelToGlobalDirType DEF NbrNode
<1>4. Nodes(body'[p]) = {NbrNode(body[p], d), body[p].head} /\ body[p].head \in Nodes(body[p])
  BY <1>1, <1>2, <1>3, ExpandedBody, NodesType
<1>5. Occupied' \subseteq Occupied \cup {NbrNode(body[p], d)}
  BY <1>2, <1>4 DEF Occupied
<1>6. body[p].head \in Occupied
  BY <1>4 DEF Occupied
<1> QED
  BY <1>1, <1>2, <1>3, <1>5, <1>6

\* A pull passes a node on.
LEMMA PullStays ==
  ASSUME body \in [particles -> Body], NEW p \in particles, NEW l \in Labels(body[p]),
         CanPull(p, l), body' = AfterPull(p, l)
  PROVE  particles' = particles /\ Occupied' \subseteq Occupied
<1> DEFINE q == NbrAtLabel(p, l)
           n == OccupiedNodeIncidentToLabel(body[p], l)
<1>1. q \in particles /\ NbrNode(body[p], l) \in Nodes(body[q])
  BY DEF CanPull, HasNbrAtLabel, NbrAtLabel, ParticleAt, Occupied
<1>2. IsExpanded(body[p]) /\ IsContracted(body[q]) /\ body[p] \in Body /\ body[q] \in Body /\ p # q
  BY <1>1 DEF CanPull, IsExpanded
<1>3. /\ particles' = particles
      /\ body'[p] = Released(body[p], n)
      /\ body'[q] = PulledOnto(body[q], n, LabelToGlobalDir(body[p], l))
      /\ \A r \in particles \ {p, q} : body'[r] = body[r]
  BY <1>1, <1>2 DEF AfterPull, particles
<1>4. /\ n \in Nodes(body[p]) /\ n \in Node /\ LabelToGlobalDir(body[p], l) \in Dir
      /\ NodeInDir(n, LabelToGlobalDir(body[p], l)) = body[q].head
  BY <1>1, <1>2, NbrNodeType, NodesType, LabelToGlobalDirType DEF NbrNode
<1>5. Nodes(body'[p]) \subseteq Nodes(body[p]) /\ Nodes(body'[q]) = {n, body[q].head}
  BY <1>2, <1>3, <1>4, ReleasedBody, PulledBody
<1>6. body[q].head \in Nodes(body[q])
  BY <1>2, NodesType
<1> HIDE DEF q, n
<1> QED
  BY <1>1, <1>3, <1>4, <1>5, <1>6 DEF Occupied

\* So does a push.
LEMMA PushStays ==
  ASSUME body \in [particles -> Body], NEW p \in particles, NEW l \in Dir,
         CanPush(p, l), body' = AfterPush(p, l)
  PROVE  particles' = particles /\ Occupied' \subseteq Occupied
<1> DEFINE q == NbrAtLabel(p, l)
           n == NbrNode(body[p], l)
<1>1. q \in particles /\ n \in Nodes(body[q])
  BY DEF CanPush, HasNbrAtLabel, NbrAtLabel, ParticleAt, Occupied
<1>2. /\ IsContracted(body[p]) /\ IsExpanded(body[q]) /\ body[p] \in Body /\ body[q] \in Body
      /\ p # q /\ l \in Labels(body[p])
  BY <1>1, ContractedFrame DEF CanPush, IsExpanded
<1>3. /\ particles' = particles
      /\ body'[p] = Expanded(body[p], l)
      /\ body'[q] = Released(body[q], n)
      /\ \A r \in particles \ {p, q} : body'[r] = body[r]
  BY <1>1, <1>2 DEF AfterPush, particles
<1>4. Nodes(body'[q]) \subseteq Nodes(body[q]) /\ Nodes(body'[p]) = {n, body[p].head}
  BY <1>1, <1>2, <1>3, ReleasedBody, ExpandedBody
<1>5. body[p].head \in Nodes(body[p])
  BY <1>2, NodesType
<1> HIDE DEF q, n
<1> QED
  BY <1>1, <1>3, <1>4, <1>5 DEF Occupied

\* The wall of BallroomDemo stands, and the dancers are within it.
BallWalled == objects = Rhombus(SideLen) /\ WallHolds

\* The constructor leaves a row free for the followers.
LEMMA BallInitWalled ==
  ASSUME BallAssumption
  PROVE  Init => BallWalled
<1> SUFFICES ASSUME Init PROVE BallWalled
  OBVIOUS
<1>1. NumPairs \in Nat /\ SideLen \in Nat
  BY DEF BallAssumption
<1>2. PICK leaderNode \in [1 .. NumPairs -> (2 .. SideLen - 2) \X (2 .. SideLen - 2)],
           followerDir \in [1 .. NumPairs -> Dir], compass \in Compasses :
        \E place \in {[p \in 1 .. 2 * NumPairs |->
                         LET pair == (p + 1) \div 2
                         IN  IF Leads(p) THEN leaderNode[pair]
                                         ELSE NodeInDir(leaderNode[pair], followerDir[pair])]} :
          /\ \A p, q \in 1 .. 2 * NumPairs : p # q => place[p] # place[q]
          /\ body = [p \in 1 .. 2 * NumPairs |->
                      [head |-> place[p], globalTailDir |-> -1, orientation |-> compass[p]]]
          /\ partnerLbl = [p \in 1 .. 2 * NumPairs |->
                            IF Leads(p) THEN -1
                            ELSE GlobalToLocalDir(body[p], Opposite(followerDir[p \div 2]))]
  BY DEF Init
<1> DEFINE place == [p \in 1 .. 2 * NumPairs |->
                       IF Leads(p) THEN leaderNode[(p + 1) \div 2]
                       ELSE NodeInDir(leaderNode[(p + 1) \div 2], followerDir[(p + 1) \div 2])]
<1>3. body = [p \in 1 .. 2 * NumPairs |->
                  [head |-> place[p], globalTailDir |-> -1, orientation |-> compass[p]]]
  BY <1>2
<1>4. ASSUME NEW p \in 1 .. 2 * NumPairs
      PROVE  place[p] \in InRhombus(SideLen)
  <2> DEFINE pair == (p + 1) \div 2
  <2>1. pair \in 1 .. NumPairs
    BY <1>1
  <2>2. place[p] = leaderNode[pair] \/ place[p] = NodeInDir(leaderNode[pair], followerDir[pair])
    OBVIOUS
  <2> HIDE DEF pair, place
  <2>3. leaderNode[pair] \in (2 .. SideLen - 2) \X (2 .. SideLen - 2) /\ followerDir[pair] \in Dir
    BY <2>1
  <2>4. \A m \in (2 .. SideLen - 2) \X (2 .. SideLen - 2), d \in Dir :
          m \in InRhombus(SideLen) /\ NodeInDir(m, d) \in InRhombus(SideLen)
    <3> TAKE m \in (2 .. SideLen - 2) \X (2 .. SideLen - 2), d \in Dir
    <3>1. m[1] \in 2 .. SideLen - 2 /\ m[2] \in 2 .. SideLen - 2 /\ m = <<m[1], m[2]>>
      OBVIOUS
    <3>2. d = 0 \/ d = 1 \/ d = 2 \/ d = 3 \/ d = 4 \/ d = 5
      BY DEF Dir
    <3>3. xOffset[d + 1] \in {-1, 0, 1} /\ yOffset[d + 1] \in {-1, 0, 1}
      BY <3>2 DEF xOffset, yOffset
    <3>4. \A x \in {-1, 0, 1} : \A a \in 2 .. SideLen - 2 : a \in 1 .. SideLen - 1 /\ a + x \in 1 .. SideLen - 1
      BY <1>1
    <3>5. /\ m[1] \in 1 .. SideLen - 1 /\ m[2] \in 1 .. SideLen - 1
          /\ m[1] + xOffset[d + 1] \in 1 .. SideLen - 1 /\ m[2] + yOffset[d + 1] \in 1 .. SideLen - 1
      BY <3>1, <3>3, <3>4
    <3> QED
      BY <3>1, <3>5 DEF InRhombus, NodeInDir
  <2> QED
    BY <2>2, <2>3, <2>4
<1> HIDE DEF place
<1>5. \A p \in particles : Nodes(body[p]) \subseteq InRhombus(SideLen)
  BY <1>3, <1>4 DEF particles, Nodes, IsContracted
<1>6. objects = Rhombus(SideLen)
  BY DEF Init
<1>7. Occupied \subseteq InRhombus(SideLen)
  BY <1>5 DEF Occupied
<1> QED
  BY <1>6, <1>7 DEF BallWalled, WallHolds

\* Nobody gets out of the wall.
LEMMA BallStepWalled ==
  ASSUME BallAssumption, BallInv, BallWalled, NEW p \in particles, Activate(p)
  PROVE  BallWalled'
<1>1. body \in [particles -> Body] /\ body[p] \in Body
  BY DEF BallInv, particles
<1>2. objects' = objects /\ SideLen \in Nat
  BY DEF Activate, LeaderExpands, LeaderPulls, FollowerPushes, FollowerContracts, BallAssumption
<1>3. ASSUME Occupied' \subseteq Occupied PROVE BallWalled'
  BY <1>2, <1>3 DEF BallWalled, WallHolds
<1>4. CASE LeaderExpands(p)
  <2>1. PICK d \in Dir : CanExpand(p, d) /\ body' = AfterExpand(p, d)
    BY <1>4 DEF LeaderExpands
  <2>2. PICK m \in Occupied : \E g \in Dir :
          NodeInDir(m, g) \notin objects /\ Occupied' \subseteq Occupied \cup {NodeInDir(m, g)}
    BY <1>1, <2>1, ExpandStays
  <2>3. PICK g \in Dir :
          NodeInDir(m, g) \notin objects /\ Occupied' \subseteq Occupied \cup {NodeInDir(m, g)}
    BY <2>2
  <2>4. NodeInDir(m, g) \in InRhombus(SideLen)
    BY <1>2, <2>3, RhombusCloses DEF BallWalled, WallHolds
  <2> QED
    BY <1>2, <2>3, <2>4 DEF BallWalled, WallHolds
<1>5. CASE LeaderPulls(p)
  <2>1. PICK l \in {FirstFrom(PointingLabels(p), FirstTailLabel(p), 10)} :
          CanPull(p, l) /\ body' = AfterPull(p, l)
    BY <1>5 DEF LeaderPulls
  <2>2. IsExpanded(body[p]) /\ PointingLabels(p) \subseteq TailLabels(body[p]) /\ PointingLabels(p) # {}
    BY <1>5 DEF LeaderPulls, PointingLabels
  <2>3. TailLabels(body[p]) \subseteq 0 .. 9 /\ Labels(body[p]) = 0 .. 9
        /\ \E k \in TailLabels(body[p]) : (k + 9) % 10 \notin TailLabels(body[p])
    BY <1>1, <2>2, TailLabelsType, ExpandedFrame
  <2>4. FirstTailLabel(p) \in 0 .. 9
    BY <2>3 DEF FirstTailLabel
  <2>5. l \in Labels(body[p])
    BY <2>1, <2>2, <2>3, <2>4, FirstFromType
  <2> QED
    BY <1>1, <1>3, <2>1, <2>5, PullStays
<1>6. CASE FollowerPushes(p)
  <2>1. CanPush(p, partnerLbl[p]) /\ body' = AfterPush(p, partnerLbl[p]) /\ ~ Leads(p)
    BY <1>6 DEF FollowerPushes
  <2>2. partnerLbl[p] \in Dir
    BY <2>1 DEF BallInv, TypeOK
  <2> QED
    BY <1>1, <1>3, <2>1, <2>2, PushStays
<1>7. CASE FollowerContracts(p)
  BY <1>1, <1>3, <1>7, ContractStays DEF FollowerContracts
<1> QED
  BY <1>4, <1>5, <1>6, <1>7 DEF Activate

\* The wall of BallroomDemo has no gap: nobody ever gets out.
THEOREM BallWallCorrect ==
  ASSUME BallAssumption
  PROVE  Spec => []WallHolds
<1>1. BallWalled => WallHolds
  BY DEF BallWalled
<1>2. BallInv /\ BallWalled /\ [Next]_vars => BallWalled'
  <2>1. CASE UNCHANGED vars
    BY <2>1 DEF vars, BallWalled, WallHolds, Occupied, particles
  <2> QED
    BY <2>1, BallStepWalled DEF Next
<1> QED
  BY <1>1, <1>2, BallInitWalled, BallInvCorrect, PTL DEF Spec

-----------------------------------------------------------------------------
(* DiscoDemo and MetricsDemo                                               *)

\* Their bodies, moves and walls are those of BallroomDemo.
LEMMA DiscoBodies ==
  /\ Disco!particles = particles /\ Disco!Body = Body /\ Disco!Dir = Dir
  /\ Disco!Occupied = Occupied
  /\ \A b : Disco!IsContracted(b) <=> IsContracted(b)
  /\ \A b : Disco!IsExpanded(b) <=> IsExpanded(b)
  /\ \A p, l : Disco!CanExpand(p, l) <=> CanExpand(p, l)
  /\ \A p, l : Disco!AfterExpand(p, l) = AfterExpand(p, l)
  /\ \A p : Disco!AfterContractTail(p) = AfterContractTail(p)
  /\ \A s : Disco!Hexagon(s) = Hexagon(s) /\ Disco!InHexagon(s) = InHexagon(s)
<1>1. /\ Disco!particles = particles /\ Disco!Node = Node /\ Disco!Dir = Dir
      /\ \A n, d : Disco!NodeInDir(n, d) = NodeInDir(n, d)
      /\ \A d : Disco!Opposite(d) = Opposite(d)
      /\ Disco!labels = labels /\ Disco!labelDir = labelDir
  BY DEF Disco!particles, particles, Disco!Node, Node, Disco!Dir, Dir, Disco!NodeInDir, NodeInDir,
         Disco!xOffset, xOffset, Disco!yOffset, yOffset, Disco!Opposite, Opposite,
         Disco!labels, labels, Disco!labelDir, labelDir
<1>2. /\ Disco!Body = Body
      /\ \A b : Disco!IsContracted(b) <=> IsContracted(b)
      /\ \A b : Disco!IsExpanded(b) <=> IsExpanded(b)
      /\ \A b, d : Disco!LocalToGlobalDir(b, d) = LocalToGlobalDir(b, d)
      /\ \A b, d : Disco!GlobalToLocalDir(b, d) = GlobalToLocalDir(b, d)
      /\ \A b : Disco!TailNode(b) = TailNode(b)
      /\ \A b : Disco!TailContracted(b) = TailContracted(b)
  BY <1>1 DEF Disco!Body, Body, Disco!IsContracted, IsContracted, Disco!IsExpanded, IsExpanded,
         Disco!LocalToGlobalDir, LocalToGlobalDir, Disco!GlobalToLocalDir, GlobalToLocalDir,
         Disco!TailNode, TailNode, Disco!TailContracted, TailContracted
<1>3. /\ \A b : Disco!Nodes(b) = Nodes(b)
      /\ \A b : Disco!TailDir(b) = TailDir(b)
      /\ \A b : Disco!LabelLimit(b) = LabelLimit(b)
      /\ \A b, l : Disco!Expanded(b, l) = Expanded(b, l)
  BY <1>1, <1>2 DEF Disco!Nodes, Nodes, Disco!TailDir, TailDir, Disco!LabelLimit, LabelLimit,
         Disco!Expanded, Expanded
<1>4. /\ Disco!Occupied = Occupied
      /\ \A b : Disco!Labels(b) = Labels(b)
      /\ \A b, l : Disco!LabelToDir(b, l) = LabelToDir(b, l)
      /\ \A p, l : Disco!AfterExpand(p, l) = AfterExpand(p, l)
      /\ \A p : Disco!AfterContractTail(p) = AfterContractTail(p)
  BY <1>1, <1>2, <1>3 DEF Disco!Occupied, Occupied, Disco!Labels, Labels, Disco!LabelToDir, LabelToDir,
         Disco!AfterExpand, AfterExpand, Disco!AfterContractTail, AfterContractTail
<1>5. /\ \A b : Disco!HeadLabels(b) = HeadLabels(b)
      /\ \A b, l : Disco!LabelToGlobalDir(b, l) = LabelToGlobalDir(b, l)
  BY <1>1, <1>2, <1>3, <1>4 DEF Disco!HeadLabels, HeadLabels, Disco!LabelToGlobalDir, LabelToGlobalDir
<1>6. \A b, l : Disco!NbrNode(b, l) = NbrNode(b, l)
  BY <1>1, <1>2, <1>5 DEF Disco!NbrNode, NbrNode, Disco!OccupiedNodeIncidentToLabel,
         OccupiedNodeIncidentToLabel
<1>7. \A p, l : Disco!CanExpand(p, l) <=> CanExpand(p, l)
  BY <1>2, <1>4, <1>6 DEF Disco!CanExpand, CanExpand, Disco!HasNbrAtLabel, HasNbrAtLabel,
         Disco!HasObjectAtLabel, HasObjectAtLabel
<1>8. \A s : Disco!InHexagon(s) = InHexagon(s)
  BY DEF Disco!InHexagon, InHexagon
<1>9. \A dirs, s : Disco!Wall(dirs, s) = Wall(dirs, s)
  BY <1>1 DEF Disco!Wall, Wall
<1>10. \A s : Disco!Hexagon(s) = Hexagon(s)
  BY <1>9 DEF Disco!Hexagon, Hexagon
<1> QED
  BY <1>1, <1>2, <1>4, <1>7, <1>8, <1>10

\* The wall stands, and the dancers are within it.
DiscoInv ==
  /\ Disco!TypeOK
  /\ objects = Hexagon(Disco!SideLen)
  /\ Occupied \subseteq InHexagon(Disco!SideLen)

\* Which is more than DiscoDemo's own WallHolds.
LEMMA DiscoHolds ==
  ASSUME DiscoInv
  PROVE  Disco!TypeOK /\ Disco!WallHolds
  BY DiscoBodies DEF DiscoInv, Disco!WallHolds

\* The constructor places the dancers within the wall.
LEMMA DiscoInitInv ==
  ASSUME Disco!DiscoAssumption, Disco!Init
  PROVE  DiscoInv
<1>1. /\ NumDancers \in Nat /\ Disco!SideLen \in Nat /\ CounterMax \in Nat \ {0}
      /\ \A compass \in Compasses : \A p \in 1 .. NumDancers : compass[p] \in Dir
  BY DiscoBodies DEF Disco!DiscoAssumption
<1>2. PICK place \in [1 .. NumDancers -> Disco!InHexagon(Disco!SideLen)], compass \in Compasses :
        body = [p \in 1 .. NumDancers |->
                 [head |-> place[p], globalTailDir |-> -1, orientation |-> compass[p]]]
  BY DEF Disco!Init
<1>3. \A p \in 1 .. NumDancers : place[p] \in InHexagon(Disco!SideLen) /\ compass[p] \in Dir
  BY <1>1, <1>2, DiscoBodies
<1>4. InHexagon(Disco!SideLen) \subseteq Node
  BY <1>1 DEF InHexagon, Node
<1>5. particles = 1 .. NumDancers /\ body \in [particles -> Body]
  BY <1>2, <1>3, <1>4 DEF particles, Body
<1>6. Occupied \subseteq InHexagon(Disco!SideLen)
  BY <1>2, <1>3, <1>5 DEF Occupied, Nodes, IsContracted
<1>7. /\ objects = Hexagon(Disco!SideLen)
      /\ state \in [1 .. NumDancers -> Colors]
      /\ counter = [p \in 1 .. NumDancers |-> CounterMax]
  BY DiscoBodies DEF Disco!Init
<1> QED
  BY <1>1, <1>5, <1>6, <1>7, DiscoBodies DEF DiscoInv, Disco!TypeOK

\* Whatever a dancer does, bumping included, it stays within the wall.
LEMMA DiscoStepInv ==
  ASSUME Disco!DiscoAssumption, DiscoInv, NEW p \in particles, Disco!CountDown(p), objects' = objects,
         \/ Disco!Expand(p) \/ Disco!Contract(p) \/ UNCHANGED body
  PROVE  DiscoInv'
<1>1. /\ body \in [particles -> Body] /\ body[p] \in Body
      /\ state \in [particles -> Colors] /\ counter \in [particles -> 1 .. CounterMax]
      /\ Disco!SideLen \in Nat /\ CounterMax \in Nat \ {0}
  BY DiscoBodies DEF DiscoInv, Disco!TypeOK, Disco!DiscoAssumption
<1>2. state' \in [particles -> Colors] /\ counter' \in [particles -> 1 .. CounterMax]
  BY <1>1 DEF Disco!CountDown
<1>3. particles' = particles /\ body' \in [particles -> Body] /\ Occupied' \subseteq InHexagon(Disco!SideLen)
  <2>1. CASE Disco!Expand(p)
    <3>1. PICK d \in Dir : CanExpand(p, d) /\ body' = AfterExpand(p, d)
      BY <2>1, DiscoBodies DEF Disco!Expand
    <3>2. PICK m \in Occupied : \E g \in Dir :
            NodeInDir(m, g) \notin objects /\ Occupied' \subseteq Occupied \cup {NodeInDir(m, g)}
      BY <1>1, <3>1, ExpandStays
    <3>3. PICK g \in Dir :
            NodeInDir(m, g) \notin objects /\ Occupied' \subseteq Occupied \cup {NodeInDir(m, g)}
      BY <3>2
    <3>4. NodeInDir(m, g) \in InHexagon(Disco!SideLen)
      BY <1>1, <3>3, HexagonCloses DEF DiscoInv
    <3>5. Expanded(body[p], d) \in Body
      BY <1>1, <3>1, ExpandedBody, ContractedFrame DEF CanExpand
    <3>6. particles' = particles /\ body' \in [particles -> Body]
      BY <1>1, <3>1, <3>5 DEF AfterExpand, particles
    <3> QED
      BY <3>3, <3>4, <3>6 DEF DiscoInv
  <2>2. CASE Disco!Contract(p)
    <3>1. IsExpanded(body[p]) /\ body' = AfterContractTail(p)
      BY <2>2, DiscoBodies DEF Disco!Contract
    <3>2. TailContracted(body[p]) \in Body
      BY <1>1, <3>1, ContractedBody
    <3>3. particles' = particles /\ body' \in [particles -> Body]
      BY <1>1, <3>1, <3>2 DEF AfterContractTail, particles
    <3> QED
      BY <1>1, <3>1, <3>3, ContractStays DEF DiscoInv
  <2>3. CASE UNCHANGED body
    BY <1>1, <2>3 DEF DiscoInv, Occupied, particles
  <2> QED
    BY <2>1, <2>2, <2>3
<1>4. /\ Disco!particles' = Disco!particles /\ Disco!particles = particles /\ Disco!Body = Body
  BY <1>3, DiscoBodies DEF Disco!particles, particles
<1>5. Disco!TypeOK'
  BY <1>2, <1>3, <1>4 DEF Disco!TypeOK
<1> QED
  BY <1>3, <1>5 DEF DiscoInv

-----------------------------------------------------------------------------
(* SinglePoint                                                             *)

\* SinglePoint is on the same lattice.
LEMMA PointLattice ==
  /\ Point!Node = Node /\ Point!Dir = Dir
  /\ \A n, d : Point!NodeInDir(n, d) = NodeInDir(n, d)
  /\ \A d : Point!Opposite(d) = Opposite(d)
  /\ \A S : Point!Connected(S) <=> Connected(S)
<1>1. /\ Point!Node = Node /\ Point!Dir = Dir
      /\ \A n, d : Point!NodeInDir(n, d) = NodeInDir(n, d)
      /\ \A d : Point!Opposite(d) = Opposite(d)
  BY DEF Point!Node, Node, Point!Dir, Dir, Point!NodeInDir, NodeInDir, Point!xOffset, xOffset,
         Point!yOffset, yOffset, Point!Opposite, Opposite
<1>2. \A m, n : Point!Adjacent(m, n) <=> Adjacent(m, n)
  BY <1>1 DEF Point!Adjacent, Adjacent, Point!Nbrs, Nbrs
<1> QED
  BY <1>1, <1>2 DEF Point!Connected, Connected

Rest == Point!shape \ Point!InState("Idle")

\* A leader is alone: every other particle has eroded.
LeaderAlone ==
  \A n \in Point!InState("Leader") : \A m \in Point!shape \ {n} : state[m] = "Idle"

PointInv == Point!TypeOK /\ Connected(Rest) /\ LeaderAlone /\ Point!PointersLeadOut

\* And counts as this module does.
LEMMA PointCounts ==
  \A S : Point!Cardinality(S) = Cardinality(S)
  BY DEF Point!Cardinality, Cardinality

-----------------------------------------------------------------------------
(* The erosion rule                                                        *)

\* The first of some directions is one of them.
LEMMA FirstType ==
  ASSUME NEW D \in SUBSET Dir, D # {}
  PROVE  Point!First(D) \in D
<1>1. \A d \in D : d = 0 \/ d = 1 \/ d = 2 \/ d = 3 \/ d = 4 \/ d = 5
  BY DEF Dir
<1>2. \E d \in D : \A e \in D : d <= e
  <2>1. CASE 0 \in D \/ 1 \in D \/ 2 \in D
    BY <1>1, <2>1
  <2>2. CASE 0 \notin D /\ 1 \notin D /\ 2 \notin D
    BY <1>1, <2>2
  <2> QED
    BY <2>1, <2>2
<1> QED
  BY <1>2 DEF Point!First

\* isConsecutive accepts only neighbourhoods that hang together.
LEMMA ConsecutiveUnsplit ==
  ASSUME NEW D \in SUBSET Dir, Point!IsConsecutive(D)
  PROVE  Unsplit(D)
<1> DEFINE Ends(S) == {d \in S : (d + 1) % 6 \notin S}
<1>1. IsFiniteSet(Dir)
  <2>1. 0 \in Int /\ 5 \in Int
    OBVIOUS
  <2> QED
    BY <2>1, FS_Interval, Zenon DEF Dir
<1>2. IsFiniteSet(D) /\ IsFiniteSet(Ends(D))
  BY <1>1, FS_Subset
<1>3. \E S \in {D, Ends(D)} : Cardinality(S) <= 1
  BY PointCounts DEF Point!IsConsecutive
<1>4. ASSUME NEW S, IsFiniteSet(S), Cardinality(S) <= 1, NEW d \in S, NEW e \in S
      PROVE  d = e
  <2>1. Cardinality(S) \in Nat /\ (Cardinality(S) = 0 => S = {})
    BY <1>4, FS_CardinalityType, FS_EmptySet
  <2>2. Cardinality(S) = 1
    BY <1>4, <2>1
  <2>3. PICK x : S = {x}
    BY <1>4, <2>2, FS_Singleton
  <2> QED
    BY <2>3
<1>5. \A d, e \in Ends(D) : d = e
  <2>1. PICK S \in {D, Ends(D)} : Cardinality(S) <= 1
    BY <1>3
  <2>2. \A d, e \in S : d = e
    BY <1>2, <1>4, <2>1
  <2> QED
    BY <2>2
<1> QED
  BY <1>5, OneEndUnsplit

-----------------------------------------------------------------------------
(* The steps                                                               *)

\* The particles are nodes of the lattice.
LEMMA RestType ==
  ASSUME Point!ShapesAssumption, Point!TypeOK
  PROVE  Point!shape \subseteq Node /\ Rest \in SUBSET Node
  BY PointLattice DEF Point!ShapesAssumption, Point!TypeOK, Rest

\* What one step does to the state of the particles.
LEMMA StateStep ==
  ASSUME Point!TypeOK, NEW n \in Point!shape, NEW s \in Point!States, state' = [state EXCEPT ![n] = s]
  PROVE  /\ Point!shape' = Point!shape
         /\ state' \in [Point!shape -> Point!States]
         /\ state'[n] = s
         /\ \A m \in Point!shape \ {n} : state'[m] = state[m]
  BY DEF Point!TypeOK, Point!shape

\* While somebody is active there is no leader, so the active neighbours of a
\* particle are all that remain next to it.
LEMMA ActiveAreRest ==
  ASSUME PointInv, NEW n \in Point!shape, state[n] = "Active"
  PROVE  /\ Point!InState("Leader") = {}
         /\ \A m \in Rest : state[m] = "Active"
         /\ {d \in Dir : NodeInDir(n, d) \in Rest} = Point!ActiveNbrs(n)
<1>1. Point!InState("Leader") = {}
  BY DEF PointInv, LeaderAlone, Point!InState
<1>2. \A m \in Point!shape : state[m] \in Point!States
  BY DEF PointInv, Point!TypeOK
<1>3. Rest = Point!InState("Active")
  BY <1>1, <1>2 DEF Rest, Point!InState, Point!States
<1> QED
  BY <1>1, <1>3, PointLattice DEF Point!ActiveNbrs, Point!InState

\* A particle that erodes leaves the rest connected, and points at a particle
\* that is still active.
LEMMA IdleInv ==
  ASSUME Point!ShapesAssumption, PointInv, NEW n \in Point!shape, Point!BecomeIdle(n)
  PROVE  /\ PointInv'
         /\ n \in Rest /\ Rest' = Rest \ {n} /\ Rest' # {} /\ Connected(Rest')
         /\ Point!InState("Leader")' = Point!InState("Leader")
<1> DEFINE D == Point!ActiveNbrs(n)
<1>1. /\ state[n] = "Active" /\ D # {} /\ Point!Erode(D) # -1
      /\ state' = [state EXCEPT ![n] = "Idle"]
      /\ pointAt' = [pointAt EXCEPT ![n] = Point!Erode(D)]
  BY DEF Point!BecomeIdle
<1>2. /\ Point!shape' = Point!shape
      /\ state' \in [Point!shape -> Point!States]
      /\ state'[n] = "Idle"
      /\ \A m \in Point!shape \ {n} : state'[m] = state[m]
  BY <1>1, StateStep DEF Point!States, PointInv
<1>3. D \in SUBSET Dir
  BY PointLattice DEF Point!ActiveNbrs
<1>4. Point!Erode(D) = Point!First(D) /\ Point!IsConsecutive(D)
  BY <1>1 DEF Point!Erode
<1>5. Point!Erode(D) \in D
  BY <1>1, <1>3, <1>4, FirstType
<1>6. /\ Point!InState("Idle")' = Point!InState("Idle") \cup {n}
      /\ Point!InState("Leader")' = Point!InState("Leader")
  BY <1>1, <1>2 DEF Point!InState
<1>7. n \in Rest /\ Rest' = Rest \ {n}
  BY <1>1, <1>2, <1>6 DEF Rest, Point!InState
<1>8. NodeInDir(n, Point!Erode(D)) \in Rest \ {n}
  <2>1. NodeInDir(n, Point!Erode(D)) \in Rest
    BY <1>1, <1>5, ActiveAreRest
  <2>2. n \in Node /\ Point!Erode(D) \in Dir
    BY <1>3, <1>5, RestType DEF PointInv
  <2> QED
    BY <2>1, <2>2, NodeInDirMoves
<1>9. Connected(Rest \ {n})
  <2>1. Unsplit(D)
    BY <1>3, <1>4, ConsecutiveUnsplit
  <2>2. Unsplit({d \in Dir : NodeInDir(n, d) \in Rest})
    BY <1>1, <2>1, ActiveAreRest
  <2> QED
    BY <1>7, <2>2, RestType, ErosionKeepsConnected DEF PointInv
<1>10. Point!TypeOK'
  <2>1. pointAt' \in [Point!shape -> {-1} \cup Dir]
    BY <1>1, <1>3, <1>5, PointLattice DEF PointInv, Point!TypeOK
  <2> QED
    BY <1>2, <2>1, PointLattice DEF PointInv, Point!TypeOK
<1>11. LeaderAlone'
  BY <1>1, <1>2, <1>6 DEF PointInv, LeaderAlone, Point!InState
<1>12. /\ pointAt'[n] = Point!Erode(D)
       /\ \A m \in Point!shape \ {n} : pointAt'[m] = pointAt[m]
  BY <1>1 DEF PointInv, Point!TypeOK
<1>13. Point!PointersLeadOut'
  <2>1. ASSUME NEW m \in Point!InState("Idle") \cup {n}
        PROVE  pointAt'[m] # -1 /\ NodeInDir(m, pointAt'[m]) \in Point!shape
    <3>1. CASE m = n
      BY <1>1, <1>8, <1>12, <3>1 DEF Rest
    <3>2. CASE m # n
      BY <1>12, <3>2, PointLattice DEF PointInv, Point!PointersLeadOut, Point!InState
    <3> QED
      BY <3>1, <3>2
  <2>2. ASSUME NEW C \in SUBSET (Point!InState("Idle") \cup {n}), C # {}
        PROVE  \E m \in C : NodeInDir(m, pointAt'[m]) \notin C
    <3>1. CASE n \in C
      BY <1>8, <1>12, <3>1 DEF Rest
    <3>2. CASE n \notin C
      <4>1. C \in SUBSET Point!InState("Idle")
        BY <3>2
      <4>2. PICK m \in C : NodeInDir(m, pointAt[m]) \notin C
        BY <2>2, <4>1, PointLattice DEF PointInv, Point!PointersLeadOut
      <4>3. pointAt'[m] = pointAt[m]
        BY <1>12, <3>2, <4>1 DEF Point!InState
      <4> QED
        BY <4>2, <4>3
    <3> QED
      BY <3>1, <3>2
  <2> QED
    BY <1>2, <1>6, <2>1, <2>2, PointLattice DEF Point!PointersLeadOut
<1> QED
  BY <1>6, <1>7, <1>8, <1>9, <1>10, <1>11, <1>13 DEF PointInv

\* A particle that becomes the leader is the last one.
LEMMA LeaderInv ==
  ASSUME Point!ShapesAssumption, PointInv, NEW n \in Point!shape, Point!BecomeLeader(n)
  PROVE  PointInv' /\ Rest = {n} /\ Rest' = Rest /\ Point!InState("Leader")' = {n}
<1>1. /\ state[n] = "Active" /\ Point!ActiveNbrs(n) = {}
      /\ state' = [state EXCEPT ![n] = "Leader"]
      /\ pointAt' = pointAt
  BY DEF Point!BecomeLeader
<1>2. /\ Point!shape' = Point!shape
      /\ state' \in [Point!shape -> Point!States]
      /\ state'[n] = "Leader"
      /\ \A m \in Point!shape \ {n} : state'[m] = state[m]
  BY <1>1, StateStep DEF Point!States, PointInv
<1>3. Point!InState("Idle")' = Point!InState("Idle") /\ Point!InState("Leader")' = {n}
  BY <1>1, <1>2, ActiveAreRest DEF Point!InState
<1>4. n \in Rest /\ Rest' = Rest
  BY <1>1, <1>2, <1>3 DEF Rest, Point!InState
<1>5. Rest = {n}
  <2>1. \A d \in Dir : NodeInDir(n, d) \notin Rest
    BY <1>1, ActiveAreRest
  <2> QED
    BY <1>4, <2>1, RestType, AloneIsAll DEF PointInv
<1>6. LeaderAlone'
  BY <1>2, <1>3, <1>5 DEF LeaderAlone, Rest, Point!InState
<1>7. Point!TypeOK' /\ Point!PointersLeadOut' /\ Connected(Rest')
  BY <1>1, <1>2, <1>3, <1>4 DEF PointInv, Point!TypeOK, Point!PointersLeadOut
<1> QED
  BY <1>3, <1>4, <1>5, <1>6, <1>7 DEF PointInv

\* The constructor establishes the invariant.
LEMMA PointInitInv ==
  ASSUME Point!ShapesAssumption, Point!Init
  PROVE  PointInv /\ Point!Abstract!Init
<1>1. PICK S \in Shapes : state = [n \in S |-> "Active"] /\ pointAt = [n \in S |-> -1]
  BY DEF Point!Init
<1>2. Point!shape = S /\ Point!InState("Idle") = {} /\ Point!InState("Leader") = {}
  BY <1>1 DEF Point!shape, Point!InState
<1>3. Point!TypeOK
  BY <1>1, <1>2 DEF Point!TypeOK, Point!States
<1>4. Connected(Rest)
  BY <1>2, PointLattice DEF Rest, Point!ShapesAssumption
<1> QED
  BY <1>2, <1>3, <1>4 DEF PointInv, LeaderAlone, Point!PointersLeadOut, Point!Abstract!Init

\* Every activation preserves the invariant.
LEMMA PointStepInv ==
  ASSUME Point!ShapesAssumption, PointInv, [Point!Next]_(Point!vars)
  PROVE  PointInv'
<1>1. CASE UNCHANGED Point!vars
  BY <1>1 DEF Point!vars, PointInv, Point!TypeOK, LeaderAlone, Point!PointersLeadOut, Rest, Point!InState, Point!shape
<1> QED
  BY <1>1, IdleInv, LeaderInv DEF Point!Next, Point!Activate

-----------------------------------------------------------------------------
(* The theorems                                                            *)

\* The invariant holds in every behaviour, on every connected shape.
THEOREM PointInvCorrect ==
  ASSUME Point!ShapesAssumption
  PROVE  Point!Spec => []PointInv
<1>1. Point!Init => PointInv
  BY PointInitInv
<1>2. PointInv /\ [Point!Next]_(Point!vars) => PointInv'
  BY PointStepInv
<1> QED
  BY <1>1, <1>2, PTL DEF Point!Spec

\* Whoever follows the pointers of the eroded particles gets out of them: at the
\* end, to the leader (erode, activate).
THEOREM PointersCorrect ==
  ASSUME Point!ShapesAssumption
  PROVE  Point!Spec => []Point!PointersLeadOut
<1>1. PointInv => Point!PointersLeadOut
  BY DEF PointInv
<1> QED
  BY <1>1, PointInvCorrect, PTL

\* Every step of the algorithm is a step of abstract erosion: one particle
\* leaves and the rest stays connected, or the last one declares itself.
THEOREM RefinesErosion ==
  ASSUME Point!ShapesAssumption
  PROVE  Point!Spec => Point!Abstract!SafeSpec
<1>1. Point!Init => Point!Abstract!Init
  BY PointInitInv
<1>2. PointInv /\ [Point!Next]_(Point!vars) => [Point!Abstract!Next]_(Point!Abstract!vars)
  <2> SUFFICES ASSUME PointInv, [Point!Next]_(Point!vars) PROVE [Point!Abstract!Next]_(Point!Abstract!vars)
    OBVIOUS
  <2>1. ASSUME NEW n \in Point!shape, Point!BecomeIdle(n)
        PROVE  Point!Abstract!Next
    <3>1. n \in Rest /\ Rest' = Rest \ {n} /\ Rest' # {} /\ Connected(Rest')
          /\ Point!InState("Leader")' = Point!InState("Leader")
      BY <2>1, IdleInv
    <3>2. Point!Abstract!Connected(Rest \ {n})
      BY <3>1 DEF Connected, Point!Abstract!Connected, Adjacent, Point!Abstract!Adjacent, Nbrs,
                  Point!Abstract!Nbrs, Dir, Point!Abstract!Dir, NodeInDir, Point!Abstract!NodeInDir,
                  xOffset, Point!Abstract!xOffset, yOffset, Point!Abstract!yOffset
    <3>3. Point!Abstract!Erode(n)
      BY <3>1, <3>2 DEF Point!Abstract!Erode, Rest
    <3> QED
      BY <3>1, <3>3 DEF Point!Abstract!Next, Rest
  <2>2. ASSUME NEW n \in Point!shape, Point!BecomeLeader(n)
        PROVE  Point!Abstract!Next
    <3>1. Rest = {n} /\ Rest' = Rest /\ Point!InState("Leader")' = {n}
      BY <2>2, LeaderInv
    <3>2. Point!Abstract!Declare(n)
      BY <3>1 DEF Point!Abstract!Declare, Rest
    <3> QED
      BY <3>1, <3>2 DEF Point!Abstract!Next, Rest
  <2>3. CASE UNCHANGED Point!vars
    BY <2>3 DEF Point!vars, Point!Abstract!vars, Point!InState, Point!shape
  <2> QED
    BY <2>1, <2>2, <2>3 DEF Point!Next, Point!Activate
<1> QED
  BY <1>1, <1>2, PointInvCorrect, PTL DEF Point!Spec, Point!Abstract!SafeSpec

-----------------------------------------------------------------------------
(* HoleFiller                                                              *)

\* Its bodies are those of the other demos.
LEMMA FillerBodies ==
  /\ Filler!particles = particles /\ Filler!Occupied = Occupied
  /\ Filler!Body = Body /\ Filler!Node = Node /\ Filler!Dir = Dir
  /\ \A n, d : Filler!NodeInDir(n, d) = NodeInDir(n, d)
  /\ \A d : Filler!Opposite(d) = Opposite(d)
  /\ \A S : Filler!Connected(S) <=> Connected(S)
  /\ \A b : Filler!IsContracted(b) <=> IsContracted(b)
  /\ \A b : Filler!IsExpanded(b) <=> IsExpanded(b)
  /\ \A b : Filler!TailNode(b) = TailNode(b) /\ Filler!Nodes(b) = Nodes(b)
  /\ \A b : Filler!TailContracted(b) = TailContracted(b)
  /\ \A b, n : Filler!Released(b, n) = Released(b, n)
  /\ \A b, n, d : Filler!PulledOnto(b, n, d) = PulledOnto(b, n, d)
  /\ \A b, d : Filler!ExpandedTo(b, d) = Expanded(b, GlobalToLocalDir(b, d))
<1>1. /\ Filler!particles = particles /\ Filler!Node = Node /\ Filler!Dir = Dir
      /\ \A n, d : Filler!NodeInDir(n, d) = NodeInDir(n, d)
      /\ \A d : Filler!Opposite(d) = Opposite(d)
  BY DEF Filler!particles, particles, Filler!Node, Node, Filler!Dir, Dir, Filler!NodeInDir, NodeInDir,
         Filler!xOffset, xOffset, Filler!yOffset, yOffset, Filler!Opposite, Opposite
<1>2. /\ Filler!Body = Body
      /\ \A b : Filler!IsContracted(b) <=> IsContracted(b)
      /\ \A b : Filler!IsExpanded(b) <=> IsExpanded(b)
      /\ \A b, d : Filler!LocalToGlobalDir(b, d) = LocalToGlobalDir(b, d)
      /\ \A b, d : Filler!GlobalToLocalDir(b, d) = GlobalToLocalDir(b, d)
      /\ \A b : Filler!TailNode(b) = TailNode(b)
      /\ \A b : Filler!TailContracted(b) = TailContracted(b)
      /\ \A b, n, d : Filler!PulledOnto(b, n, d) = PulledOnto(b, n, d)
  BY <1>1 DEF Filler!Body, Body, Filler!IsContracted, IsContracted, Filler!IsExpanded, IsExpanded,
         Filler!LocalToGlobalDir, LocalToGlobalDir, Filler!GlobalToLocalDir, GlobalToLocalDir,
         Filler!TailNode, TailNode, Filler!TailContracted, TailContracted, Filler!PulledOnto, PulledOnto
<1>3. /\ \A b : Filler!Nodes(b) = Nodes(b)
      /\ \A b : Filler!HeadContracted(b) = HeadContracted(b)
      /\ \A b, l : Filler!Expanded(b, l) = Expanded(b, l)
  BY <1>1, <1>2 DEF Filler!Nodes, Nodes, Filler!HeadContracted, HeadContracted, Filler!Expanded, Expanded
<1>4. /\ Filler!Occupied = Occupied
      /\ \A b, n : Filler!Released(b, n) = Released(b, n)
      /\ \A b, d : Filler!ExpandedTo(b, d) = Expanded(b, GlobalToLocalDir(b, d))
  BY <1>1, <1>2, <1>3 DEF Filler!Occupied, Occupied, Filler!Released, Released, Filler!ExpandedTo
<1>5. \A m, n : Filler!Adjacent(m, n) <=> Adjacent(m, n)
  BY <1>1 DEF Filler!Adjacent, Adjacent, Filler!Nbrs, Nbrs
<1> QED
  BY <1>1, <1>2, <1>3, <1>4, <1>5 DEF Filler!Connected, Connected

\* The sides of a tail: 2 and 3 lie on the left of the head, 0 and 1 on the
\* right; those under it are 4 and 5.
LEMMA FillerSides ==
  ASSUME NEW b, b.globalTailDir \in 0 .. 3
  PROVE  /\ b.globalTailDir \in {2, 3} =>
              /\ Filler!Scan(b) = <<1, 2, 3>> /\ Filler!Beside(b) = 3
              /\ Filler!Below(b) = 4 /\ Filler!BelowAhead(b) = 5
         /\ b.globalTailDir \in {0, 1} =>
              /\ Filler!Scan(b) = <<2, 1, 0>> /\ Filler!Beside(b) = 0
              /\ Filler!Below(b) = 5 /\ Filler!BelowAhead(b) = 4
         /\ Filler!Sinking(b) <=> b.globalTailDir \in {1, 2}
         /\ Filler!Level(b) <=> b.globalTailDir \in {0, 3}
  BY DEF Filler!Scan, Filler!Beside, Filler!Below, Filler!BelowAhead, Filler!Sinking, Filler!Level,
         Filler!Right, Filler!TopRight, Filler!TopLeft, Filler!Left, Filler!BottomLeft, Filler!BottomRight

\* The nodes of the others, and those next to the tail of b in direction d.
OthersIn(C, p) == UNION {Nodes(C[q]) : q \in particles \ {p}}
Others(p) == OthersIn(body, p)
At(b, d)  == NodeInDir(TailNode(b), d)

\* What a filler finds at a node next to its tail.
LEMMA FillerFinds ==
  ASSUME NEW p \in particles, NEW b, NEW d
  PROVE  /\ Filler!HasTailNbr(p, b, d) <=> At(b, d) \in Others(p)
         /\ Filler!HasTailNbr(p, b, d) =>
              /\ Filler!TailNbr(p, b, d) \in particles \ {p}
              /\ At(b, d) \in Nodes(body[Filler!TailNbr(p, b, d)])
<1>1. /\ Filler!HasTailNbr(p, b, d) <=> \E q \in particles \ {p} : At(b, d) \in Nodes(body[q])
      /\ Filler!TailNbr(p, b, d) = CHOOSE q \in particles \ {p} : At(b, d) \in Nodes(body[q])
  BY FillerBodies DEF Filler!HasTailNbr, Filler!TailNbr, Filler!HasNbrAt, Filler!NbrAt, At
<1> QED
  BY <1>1 DEF Others, OthersIn

\* A particle that turns leaves its tail and expands from its head.
LEMMA FillerTurned ==
  ASSUME NEW b \in Body, NEW d \in Dir
  PROVE  LET x == Filler!Turned(b, d)
         IN  /\ x \in Body /\ x.head = NodeInDir(b.head, d) /\ x.globalTailDir = Opposite(d)
             /\ Nodes(x) = {NodeInDir(b.head, d), b.head}
             /\ x = Expanded(TailContracted(b), GlobalToLocalDir(TailContracted(b), d))
<1> DEFINE c == TailContracted(b)
           l == GlobalToLocalDir(c, d)
<1>1. c \in Body /\ IsContracted(c) /\ c.head = b.head
  BY DEF TailContracted, Body, IsContracted
<1>2. l \in Dir /\ LocalToGlobalDir(c, l) = d /\ Labels(c) = Dir
  BY <1>1, CompassType, CompassInverse, ContractedFrame
<1>3. NbrNode(c, l) = NodeInDir(b.head, d)
  BY <1>1, <1>2, ContractedFrame DEF NbrNode
<1>4. Filler!Turned(b, d) = Expanded(c, l)
  BY FillerBodies DEF Filler!Turned
<1>5. /\ Expanded(c, l) \in Body /\ Expanded(c, l).head = NodeInDir(b.head, d)
      /\ Nodes(Expanded(c, l)) = {NodeInDir(b.head, d), b.head}
  BY <1>1, <1>2, <1>3, ExpandedBody
<1>6. Expanded(c, l).globalTailDir = Opposite(d)
  BY <1>1, <1>2 DEF Expanded, Body
<1> QED
  BY <1>4, <1>5, <1>6

\* What an expanded particle p may do, given the body b: pull somebody next to
\* its tail, turn, let go of its tail, or nothing, as somebody is in its way.
SideOf(b)  == IF b.globalTailDir \in {2, 3} THEN 3 ELSE 0
UnderOf(b) == IF b.globalTailDir \in {2, 3} THEN 4 ELSE 5
Alone(p, b, d) == At(b, d) \notin Others(p)
NoneAbove(p, b) == Alone(p, b, 1) /\ Alone(p, b, 2)
Pulling(p, b, C) ==
  \E q \in particles \ {p}, d \in 0 .. 3 :
    /\ At(b, d) \in Nodes(body[q]) /\ IsContracted(body[q])
    /\ C = [body EXCEPT ![p] = Released(b, TailNode(b)), ![q] = PulledOnto(body[q], TailNode(b), d)]
Turning(p, b, C) ==
  /\ NoneAbove(p, b)
  /\ \/ /\ b.globalTailDir \in {1, 2} /\ ~ Alone(p, b, SideOf(b)) /\ Alone(p, b, UnderOf(b))
        /\ C = [body EXCEPT ![p] = Filler!Turned(b, SideOf(b))]
     \/ /\ b.globalTailDir \in {0, 3} /\ ~ Alone(p, b, SideOf(b))
        /\ C = [body EXCEPT ![p] = Filler!Turned(b, SideOf(b))]
     \/ /\ b.globalTailDir \in {0, 3} /\ Alone(p, b, SideOf(b))
        /\ ~ Alone(p, b, UnderOf(b)) /\ Alone(p, b, 9 - UnderOf(b))
        /\ C = [body EXCEPT ![p] = Filler!Turned(b, UnderOf(b))]
Letting(p, b, C) ==
  /\ NoneAbove(p, b)
  /\ \/ b.globalTailDir \in {1, 2} /\ (Alone(p, b, SideOf(b)) \/ ~ Alone(p, b, UnderOf(b)))
     \/ /\ b.globalTailDir \in {0, 3} /\ Alone(p, b, SideOf(b))
        /\ Alone(p, b, UnderOf(b)) \/ ~ Alone(p, b, 9 - UnderOf(b))
  /\ C = [body EXCEPT ![p] = TailContracted(b)]
Stuck(p, b) ==
  \E q \in particles \ {p} :
    /\ IsExpanded(body[q])
    /\ \/ At(b, 1) \in Nodes(body[q]) \/ At(b, 2) \in Nodes(body[q])
       \/ /\ b.globalTailDir \in {0, 3} /\ At(b, SideOf(b)) \in Nodes(body[q])
          /\ body[q].globalTailDir # Opposite(SideOf(b))

\* These are all the cases that activate() has.
LEMMA FillerDeeds ==
  ASSUME NEW p \in particles, NEW b, b.globalTailDir \in 0 .. 3,
         NEW C, C = Filler!AfterActing(p, b)
  PROVE  \/ Pulling(p, b, C) \/ Turning(p, b, C) \/ Letting(p, b, C)
         \/ C = [body EXCEPT ![p] = b] /\ Stuck(p, b)
<1> DEFINE g == b.globalTailDir
           s == SideOf(b)
           u == UnderOf(b)
<1>1. /\ Filler!Beside(b) = s /\ Filler!Below(b) = u /\ Filler!BelowAhead(b) = 9 - u
      /\ Filler!Sinking(b) <=> g \in {1, 2}
      /\ Filler!Level(b) <=> g \in {0, 3}
  BY FillerSides DEF SideOf, UnderOf
<1>2. /\ {Filler!Scan(b)[1], Filler!Scan(b)[2]} = {1, 2} /\ Filler!Scan(b)[3] = s
      /\ \A i \in 1 .. 3 : Filler!Scan(b)[i] \in {1, 2, s}
  BY FillerSides DEF SideOf
<1>3. \A d : Filler!HasTailNbr(p, b, d) <=> ~ Alone(p, b, d)
  BY FillerFinds DEF Alone
<1>4. Filler!FreeAbove(p, b) <=> NoneAbove(p, b)
  <2>1. Filler!FreeAbove(p, b) <=> /\ ~ Filler!HasTailNbr(p, b, Filler!Scan(b)[1])
                                   /\ ~ Filler!HasTailNbr(p, b, Filler!Scan(b)[2])
    BY DEF Filler!FreeAbove
  <2> QED
    BY <1>2, <1>3, <2>1 DEF NoneAbove
<1>5. s \in {0, 3} /\ u \in {4, 5} /\ Opposite(s) = Filler!Opposite(s)
  BY FillerBodies DEF SideOf, UnderOf
<1>6. CASE Filler!Pulls(p, b)
  <2>1. PICK i \in 1 .. 3 :
          /\ i \in Filler!Pullable(p, b)
          /\ C = [body EXCEPT ![p] = Filler!Released(b, Filler!TailNode(b)),
                              ![Filler!TailNbr(p, b, Filler!Scan(b)[i])] =
                                Filler!PulledOnto(@, Filler!TailNode(b), Filler!Scan(b)[i])]
    <3> DEFINE T == Filler!Pullable(p, b)
    <3>1. T \subseteq 1 .. 3 /\ T # {}
      BY <1>6 DEF Filler!Pullable, Filler!Pulls
    <3>2. \E i \in T : \A j \in T : i <= j
      BY <3>1, NatLeast
    <3>3. (CHOOSE i \in T : \A j \in T : i <= j) \in T
      BY <3>2
    <3>4. C = Filler!AfterPulling(p, b)
      BY <1>6 DEF Filler!AfterActing
    <3> QED
      BY <3>1, <3>3, <3>4 DEF Filler!AfterPulling
  <2> DEFINE d == Filler!Scan(b)[i]
             q == Filler!TailNbr(p, b, d)
  <2>2. Filler!HasTailNbr(p, b, d) /\ Filler!IsContracted(body[q])
    BY <2>1 DEF Filler!Pullable
  <2>3. q \in particles \ {p} /\ At(b, d) \in Nodes(body[q])
    BY <2>2, FillerFinds
  <2>4. d \in 0 .. 3 /\ IsContracted(body[q])
    BY <1>2, <1>5, <2>2, FillerBodies
  <2>5. C = [body EXCEPT ![p] = Released(b, TailNode(b)), ![q] = PulledOnto(body[q], TailNode(b), d)]
    BY <2>1, <2>3, FillerBodies
  <2> QED
    BY <2>3, <2>4, <2>5 DEF Pulling
<1>7. CASE ~ Filler!Pulls(p, b)
  <2>1. \A d \in {1, 2, s} : Filler!HasTailNbr(p, b, d) => IsExpanded(body[Filler!TailNbr(p, b, d)])
    <3>1. \A i \in 1 .. 3 : i \notin Filler!Pullable(p, b)
      BY <1>1, <1>7 DEF Filler!Pulls
    <3>2. \A i \in 1 .. 3 : Filler!HasTailNbr(p, b, Filler!Scan(b)[i])
                              => ~ Filler!IsContracted(body[Filler!TailNbr(p, b, Filler!Scan(b)[i])])
      BY <3>1 DEF Filler!Pullable
    <3>3. \A d \in {1, 2, s} : \E i \in 1 .. 3 : Filler!Scan(b)[i] = d
      BY <1>2
    <3> QED
      BY <3>2, <3>3, FillerBodies DEF IsExpanded
  <2>2. CASE Filler!TurnsUnder(p, b)
    <3>1. ~ Filler!TurnsDown(p, b) /\ ~ Filler!Contracts(p, b)
      BY <1>1, <2>2 DEF Filler!TurnsUnder, Filler!TurnsBack, Filler!TurnsDown, Filler!Contracts
    <3>2. C = [body EXCEPT ![p] = Filler!Turned(b, s)]
      BY <1>1, <1>7, <2>2, <3>1 DEF Filler!AfterActing
    <3> QED
      BY <1>1, <1>3, <1>4, <2>2, <3>2 DEF Filler!TurnsUnder, Turning
  <2>3. CASE Filler!TurnsBack(p, b)
    <3>1. ~ Filler!TurnsDown(p, b) /\ ~ Filler!Contracts(p, b)
      BY <1>1, <2>3 DEF Filler!TurnsUnder, Filler!TurnsBack, Filler!TurnsDown, Filler!Contracts
    <3>2. C = [body EXCEPT ![p] = Filler!Turned(b, s)]
      BY <1>1, <1>7, <2>3, <3>1 DEF Filler!AfterActing
    <3> QED
      BY <1>1, <1>3, <1>4, <2>3, <3>2 DEF Filler!TurnsBack, Turning
  <2>4. CASE Filler!TurnsDown(p, b)
    <3>1. ~ Filler!TurnsUnder(p, b) /\ ~ Filler!TurnsBack(p, b) /\ ~ Filler!Contracts(p, b)
      BY <1>1, <2>4 DEF Filler!TurnsDown, Filler!TurnsUnder, Filler!TurnsBack, Filler!Contracts
    <3>2. C = [body EXCEPT ![p] = Filler!Turned(b, u)]
      BY <1>1, <1>7, <2>4, <3>1 DEF Filler!AfterActing
    <3> QED
      BY <1>1, <1>3, <1>4, <2>4, <3>2 DEF Filler!TurnsDown, Turning
  <2>5. CASE /\ ~ Filler!TurnsUnder(p, b) /\ ~ Filler!TurnsBack(p, b) /\ ~ Filler!TurnsDown(p, b)
             /\ Filler!Contracts(p, b)
    <3>1. C = [body EXCEPT ![p] = TailContracted(b)]
      BY <1>7, <2>5, FillerBodies DEF Filler!AfterActing
    <3>2. \/ Filler!Sinking(b) /\ Filler!FreeAbove(p, b)
          \/ Filler!Level(b) /\ Filler!FreeAbove(p, b) /\ ~ Filler!HasTailNbr(p, b, Filler!Beside(b))
      BY <1>1, <2>5 DEF Filler!Contracts
    <3> QED
      BY <1>1, <1>3, <1>4, <2>5, <3>1, <3>2 DEF Filler!TurnsUnder, Filler!TurnsDown, Letting
  <2>6. CASE /\ ~ Filler!TurnsUnder(p, b) /\ ~ Filler!TurnsBack(p, b) /\ ~ Filler!TurnsDown(p, b)
             /\ ~ Filler!Contracts(p, b)
    <3>1. C = [body EXCEPT ![p] = b]
      BY <1>7, <2>6 DEF Filler!AfterActing
    <3>2. \/ ~ NoneAbove(p, b)
          \/ /\ g \in {0, 3} /\ Filler!HasTailNbr(p, b, s)
             /\ body[Filler!TailNbr(p, b, s)].globalTailDir # Opposite(s)
      BY <1>1, <1>4, <1>5, <2>6 DEF Filler!Contracts, Filler!TurnsBack
    <3>3. Stuck(p, b)
      <4>1. CASE ~ NoneAbove(p, b)
        <5>1. PICK d \in {1, 2} : Filler!HasTailNbr(p, b, d)
          BY <1>3, <4>1 DEF NoneAbove
        <5> QED
          BY <2>1, <5>1, FillerFinds DEF Stuck
      <4>2. CASE /\ g \in {0, 3} /\ Filler!HasTailNbr(p, b, s)
                 /\ body[Filler!TailNbr(p, b, s)].globalTailDir # Opposite(s)
        BY <2>1, <4>2, FillerFinds DEF Stuck
      <4> QED
        BY <3>2, <4>1, <4>2
    <3> QED
      BY <3>1, <3>3
  <2> QED
    BY <2>2, <2>3, <2>4, <2>5, <2>6
<1> QED
  BY <1>6, <1>7

\* A node with nobody above leaves the rest together when those beside and under
\* it follow on one another.
Leaves(S, t) ==
  LET In(d) == NodeInDir(t, d) \in S
  IN  /\ t \in S /\ ~ In(1) /\ ~ In(2)
      /\ \/ In(5) /\ (In(3) => In(4))
         \/ In(4) /\ (In(0) => In(5))
         \/ In(0) /\ ~ In(3) /\ (In(4) => In(5))
         \/ In(3) /\ ~ In(0) /\ (In(5) => In(4))

\* So the others stay connected.
LEMMA LeavesConnected ==
  ASSUME NEW S \in SUBSET Node, Connected(S), NEW t, Leaves(S, t)
  PROVE  Connected(S \ {t})
<1> DEFINE D == {d \in Dir : NodeInDir(t, d) \in S}
<1>1. /\ D \in SUBSET Dir /\ 1 \notin D /\ 2 \notin D
      /\ \/ 5 \in D /\ (3 \in D => 4 \in D)
         \/ 4 \in D /\ (0 \in D => 5 \in D)
         \/ 0 \in D /\ 3 \notin D /\ (4 \in D => 5 \in D)
         \/ 3 \in D /\ 0 \notin D /\ (5 \in D => 4 \in D)
  BY DEF Leaves, Dir
<1> HIDE DEF D
<1>2. \A d, e \in D : (d + 1) % 6 \notin D /\ (e + 1) % 6 \notin D => d = e
  BY <1>1 DEF Dir
<1>3. Unsplit(D)
  BY <1>1, <1>2, OneEndUnsplit
<1> QED
  BY <1>3, ErosionKeepsConnected DEF D, Leaves

\* The bodies are sound: heads lie under or beside their tails, nobody lies on
\* another, and all are in one piece.
Ground(C) == UNION {Nodes(C[q]) : q \in particles}
Filled(C) ==
  /\ C \in [particles -> Body]
  /\ \A q \in particles : C[q].globalTailDir \in {-1} \cup 0 .. 3
  /\ ApartIn(C)
  /\ Connected(Ground(C))

\* That remains when p alone changes, to a sound body on free nodes that leaves
\* all in one piece.
LEMMA FilledChanged ==
  ASSUME NEW B, Filled(B), NEW p \in particles, NEW x \in Body,
         x.globalTailDir \in {-1} \cup 0 .. 3,
         NEW O, O = OthersIn(B, p),
         Nodes(x) \cap O = {}, Connected(O \cup Nodes(x))
  PROVE  Filled([B EXCEPT ![p] = x])
<1> DEFINE C == [B EXCEPT ![p] = x]
<1>1. B \in [particles -> Body] /\ ApartIn(B) /\ DOMAIN B = particles
  BY DEF Filled
<1>2. C \in [particles -> Body] /\ C[p] = x /\ \A q \in particles \ {p} : C[q] = B[q]
  BY <1>1
<1> HIDE DEF C
<1>3. Ground(C) = O \cup Nodes(x)
  BY <1>2 DEF Ground, OthersIn
<1>4. ApartIn(C)
  <2>1. \A q \in particles \ {p} : Nodes(x) \cap Nodes(B[q]) = {}
    BY DEF OthersIn
  <2> QED
    BY <1>1, <1>2, <2>1 DEF ApartIn
<1>5. \A q \in particles : C[q].globalTailDir \in {-1} \cup 0 .. 3
  BY <1>2 DEF Filled
<1> QED
  BY <1>2, <1>3, <1>4, <1>5 DEF Filled, C

\* What an expanded particle finds: its tail over its head or beside it, apart
\* from the others, all in one piece.
LEMMA FilledAt ==
  ASSUME body \in [particles -> Body], NEW p \in particles, NEW b \in Body, IsExpanded(b),
         NEW B, B = [body EXCEPT ![p] = b], Filled(B)
  PROVE  LET t == TailNode(b)
             O == Others(p)
         IN  /\ b.globalTailDir \in 0 .. 3 /\ t \in Node /\ b.head \in Node /\ t # b.head
             /\ Nodes(b) = {b.head, t}
             /\ b.head = NodeInDir(t, Opposite(b.globalTailDir))
             /\ O = OthersIn(B, p) /\ O \subseteq Node
             /\ t \notin O /\ b.head \notin O
             /\ Ground(B) = O \cup {b.head, t} /\ Connected(O \cup {b.head, t})
<1>1. /\ B \in [particles -> Body] /\ ApartIn(B) /\ DOMAIN B = particles /\ B[p] = b
      /\ \A q \in particles \ {p} : B[q] = body[q]
  BY DEF Filled
<1>2. b.globalTailDir \in 0 .. 3
  BY <1>1 DEF Filled, IsExpanded, IsContracted
<1>3. /\ TailNode(b) \in Node /\ b.head \in Node /\ TailNode(b) # b.head
      /\ Nodes(b) = {b.head, TailNode(b)}
      /\ b.head = NodeInDir(TailNode(b), Opposite(b.globalTailDir))
  BY NodesType, ExpandedFrame DEF Nodes, IsExpanded
<1>4. Others(p) = OthersIn(B, p)
  BY <1>1 DEF Others, OthersIn
<1>5. Others(p) \subseteq Node
  <2>1. \A q \in particles \ {p} : Nodes(body[q]) \subseteq Node
    BY NodesType
  <2> QED
    BY <2>1 DEF Others, OthersIn
<1>6. Others(p) \cap Nodes(b) = {}
  BY <1>1, <1>4 DEF ApartIn, OthersIn
<1>7. Ground(B) = Others(p) \cup Nodes(b)
  BY <1>1, <1>4 DEF Ground, OthersIn
<1> QED
  BY <1>2, <1>3, <1>4, <1>5, <1>6, <1>7 DEF Filled

\* Pulling moves nobody off the ground.
LEMMA FillerPulled ==
  ASSUME body \in [particles -> Body], NEW p \in particles, NEW b \in Body, IsExpanded(b),
         NEW B, B = [body EXCEPT ![p] = b], Filled(B), NEW C, Pulling(p, b, C)
  PROVE  Filled(C)
<1> DEFINE t == TailNode(b)
           h == b.head
<1>1. PICK q \in particles \ {p}, d \in 0 .. 3 :
        /\ At(b, d) \in Nodes(body[q]) /\ IsContracted(body[q])
        /\ C = [body EXCEPT ![p] = Released(b, t), ![q] = PulledOnto(body[q], t, d)]
  BY DEF Pulling
<1>2. /\ t \in Node /\ h \in Node /\ t # h /\ Nodes(b) = {h, t}
  BY FilledAt
<1>3. /\ B \in [particles -> Body] /\ ApartIn(B) /\ DOMAIN B = particles
      /\ B[p] = b /\ \A r \in particles \ {p} : B[r] = body[r]
  BY DEF Filled
<1>4. d \in Dir /\ body[q] \in Body /\ NodeInDir(t, d) = body[q].head
  BY <1>1, NodesType DEF At, Dir
<1>5. /\ PulledOnto(body[q], t, d) \in Body
      /\ Nodes(PulledOnto(body[q], t, d)) = {t, body[q].head} /\ Nodes(body[q]) = {body[q].head}
      /\ PulledOnto(body[q], t, d).globalTailDir = d
  BY <1>1, <1>2, <1>4, PulledBody, NodesType DEF PulledOnto, Body
<1>6. /\ Released(b, t) \in Body /\ IsContracted(Released(b, t)) /\ Nodes(Released(b, t)) = {h}
  BY <1>2, ReleasedBody
<1>7. /\ C \in [particles -> Body] /\ C[p] = Released(b, t) /\ C[q] = PulledOnto(body[q], t, d)
      /\ \A r \in particles \ {p, q} : C[r] = B[r]
  BY <1>1, <1>3, <1>5, <1>6
<1>8. ApartIn(C)
  <2>1. TakesOver(particles, B, C, q, p)
    BY <1>1, <1>2, <1>3, <1>5, <1>6, <1>7 DEF TakesOver
  <2> QED
    BY <1>3, <2>1, HandedOver
<1>9. Ground(C) = Ground(B)
  <2>1. Nodes(C[p]) \cup Nodes(C[q]) = Nodes(B[p]) \cup Nodes(B[q])
    BY <1>1, <1>2, <1>3, <1>5, <1>6, <1>7
  <2> QED
    BY <1>1, <1>7, <2>1 DEF Ground
<1>10. \A r \in particles : C[r].globalTailDir \in {-1} \cup 0 .. 3
  BY <1>5, <1>6, <1>7 DEF Filled, IsContracted
<1> QED
  BY <1>7, <1>8, <1>9, <1>10 DEF Filled

\* Letting go of the tail leaves the others in one piece.
LEMMA FillerLet ==
  ASSUME body \in [particles -> Body], NEW p \in particles, NEW b \in Body, IsExpanded(b),
         NEW B, B = [body EXCEPT ![p] = b], Filled(B), NEW C, Letting(p, b, C)
  PROVE  Filled(C)
<1> DEFINE t == TailNode(b)
           h == b.head
           O == Others(p)
           S == O \cup {h, t}
           g == b.globalTailDir
<1>1. /\ g \in 0 .. 3 /\ t \in Node /\ h \in Node /\ t # h
      /\ h = NodeInDir(t, Opposite(g))
      /\ O = OthersIn(B, p) /\ O \subseteq Node
      /\ t \notin O /\ h \notin O /\ Connected(S)
  BY FilledAt
<1>2. /\ \A d \in Dir : NodeInDir(t, d) # t
      /\ \A d \in Dir : NodeInDir(t, d) = h <=> d = Opposite(g)
      /\ Opposite(g) \in Dir
  BY <1>1, NodeInDirMoves, NodeInDirInjective, OppositeType DEF Dir
<1>3. \A d \in Dir : NodeInDir(t, d) \in S <=> ~ Alone(p, b, d) \/ d = Opposite(g)
  BY <1>2 DEF Alone, At
<1>4. Leaves(S, t)
  <2>1. g = 0 \/ g = 1 \/ g = 2 \/ g = 3
    BY <1>1
  <2>2. \A d \in 0 .. 5 : NodeInDir(t, d) \in S <=> ~ Alone(p, b, d) \/ d = (g + 3) % 6
    BY <1>3 DEF Dir, Opposite
  <2> HIDE DEF S, t
  <2> QED
    BY <2>1, <2>2 DEF Leaves, Letting, NoneAbove, SideOf, UnderOf, S, t
<1>5. Connected(S \ {t})
  BY <1>1, <1>4, LeavesConnected
<1>6. S \ {t} = O \cup {h}
  BY <1>1
<1>7. TailContracted(b) \in Body /\ Nodes(TailContracted(b)) = {h} /\ TailContracted(b).globalTailDir = -1
  BY ContractedBody DEF IsContracted
<1>8. Filled([B EXCEPT ![p] = TailContracted(b)])
  <2> DEFINE x == TailContracted(b)
  <2>1. /\ x \in Body /\ x.globalTailDir \in {-1} \cup 0 .. 3
        /\ O = OthersIn(B, p)
        /\ Nodes(x) \cap O = {} /\ Connected(O \cup Nodes(x))
    BY <1>1, <1>5, <1>6, <1>7
  <2> HIDE DEF x, O
  <2> QED
    BY <2>1, FilledChanged DEF x
<1>9. C = [B EXCEPT ![p] = TailContracted(b)]
  BY DEF Letting
<1> QED
  BY <1>8, <1>9

\* So does turning into a gap, which closes it for those beside the tail.
LEMMA FillerTurns ==
  ASSUME body \in [particles -> Body], NEW p \in particles, NEW b \in Body, IsExpanded(b),
         NEW B, B = [body EXCEPT ![p] = b], Filled(B), NEW C, Turning(p, b, C)
  PROVE  Filled(C)
<1> DEFINE t == TailNode(b)
           h == b.head
           O == Others(p)
           S == O \cup {h, t}
           g == b.globalTailDir
<1>1. /\ g \in 0 .. 3 /\ t \in Node /\ h \in Node /\ t # h
      /\ h = NodeInDir(t, Opposite(g))
      /\ O = OthersIn(B, p) /\ O \subseteq Node
      /\ t \notin O /\ h \notin O /\ Connected(S)
  BY FilledAt
<1>2. PICK e \in Dir :
        /\ C = [body EXCEPT ![p] = Filler!Turned(b, e)] /\ Opposite(e) \in 0 .. 3
        /\ NodeInDir(h, e) # t => NodeInDir(h, e) \notin O /\ Leaves(S \cup {NodeInDir(h, e)}, t)
  <2>0. g = 0 \/ g = 1 \/ g = 2 \/ g = 3
    BY <1>1
  <2>1. /\ \A d \in Dir : NodeInDir(t, d) # t
        /\ \A d \in Dir : NodeInDir(t, d) = h <=> d = Opposite(g)
        /\ Opposite(g) \in Dir
    BY <1>1, NodeInDirMoves, NodeInDirInjective, OppositeType DEF Dir
  <2>2. /\ g = 1 => NodeInDir(h, 0) = NodeInDir(t, 5)
        /\ g = 2 => NodeInDir(h, 3) = NodeInDir(t, 4)
        /\ g = 0 => NodeInDir(h, 0) = t /\ NodeInDir(h, 5) = NodeInDir(t, 4)
        /\ g = 3 => NodeInDir(h, 3) = t /\ NodeInDir(h, 4) = NodeInDir(t, 5)
    <3>1. \A k \in Dir : NodeInDir(NodeInDir(t, k), Opposite(k)) = t
      BY <1>1, NodeInDirBack
    <3>2. \A k \in 0 .. 5 : NodeInDir(NodeInDir(t, k), (k + 3) % 6) = t
      BY <3>1 DEF Dir, Opposite
    <3>3. /\ NodeInDir(t, 5) = NodeInDir(NodeInDir(t, 4), 0) /\ NodeInDir(t, 4) = NodeInDir(NodeInDir(t, 5), 3)
          /\ NodeInDir(t, 4) = NodeInDir(NodeInDir(t, 3), 5) /\ NodeInDir(t, 5) = NodeInDir(NodeInDir(t, 0), 4)
      BY <1>1, StepsMeet DEF Dir
    <3> QED
      BY <1>1, <3>2, <3>3 DEF Opposite
  <2>3. CASE /\ g \in {1, 2} /\ ~ Alone(p, b, SideOf(b)) /\ Alone(p, b, UnderOf(b))
             /\ C = [body EXCEPT ![p] = Filler!Turned(b, SideOf(b))]
    <3> DEFINE u == UnderOf(b)
               n == NodeInDir(t, u)
    <3>1. u \in Dir /\ SideOf(b) \in Dir /\ NodeInDir(h, SideOf(b)) = n /\ Opposite(SideOf(b)) \in 0 .. 3
      BY <2>0, <2>2, <2>3 DEF SideOf, UnderOf, Dir, Opposite
    <3>2. n \notin O
      BY <2>3 DEF Alone, At
    <3>3. \A d \in Dir : NodeInDir(t, d) \in S \cup {n} <=> ~ Alone(p, b, d) \/ d = Opposite(g) \/ d = u
      BY <1>1, <2>1, <3>1, NodeInDirInjective DEF Alone, At
    <3>4. \A d \in 0 .. 5 : NodeInDir(t, d) \in S \cup {n} <=> ~ Alone(p, b, d) \/ d = (g + 3) % 6 \/ d = u
      BY <3>3 DEF Dir, Opposite
    <3>5. t \in S \cup {n}
      OBVIOUS
    <3>6. NoneAbove(p, b)
      BY DEF Turning
    <3> HIDE DEF S, n, t
    <3>7. Leaves(S \cup {n}, t)
      BY <2>0, <2>3, <3>4, <3>5, <3>6 DEF Leaves, NoneAbove, SideOf, UnderOf
    <3> QED
      BY <2>3, <3>1, <3>2, <3>7
  <2>4. CASE /\ g \in {0, 3} /\ C = [body EXCEPT ![p] = Filler!Turned(b, SideOf(b))]
    <3>1. SideOf(b) \in Dir /\ NodeInDir(h, SideOf(b)) = t /\ Opposite(SideOf(b)) \in 0 .. 3
      BY <2>0, <2>2, <2>4 DEF SideOf, Dir, Opposite
    <3> QED
      BY <2>4, <3>1
  <2>5. CASE /\ g \in {0, 3} /\ Alone(p, b, SideOf(b))
             /\ ~ Alone(p, b, UnderOf(b)) /\ Alone(p, b, 9 - UnderOf(b))
             /\ C = [body EXCEPT ![p] = Filler!Turned(b, UnderOf(b))]
    <3> DEFINE v == 9 - UnderOf(b)
               n == NodeInDir(t, v)
    <3>1. v \in Dir /\ UnderOf(b) \in Dir /\ NodeInDir(h, UnderOf(b)) = n /\ Opposite(UnderOf(b)) \in 0 .. 3
      BY <2>0, <2>2, <2>5 DEF UnderOf, Dir, Opposite
    <3>2. n \notin O
      BY <2>5 DEF Alone, At
    <3>3. \A d \in Dir : NodeInDir(t, d) \in S \cup {n} <=> ~ Alone(p, b, d) \/ d = Opposite(g) \/ d = v
      BY <1>1, <2>1, <3>1, NodeInDirInjective DEF Alone, At
    <3>4. \A d \in 0 .. 5 : NodeInDir(t, d) \in S \cup {n} <=> ~ Alone(p, b, d) \/ d = (g + 3) % 6 \/ d = v
      BY <3>3 DEF Dir, Opposite
    <3>5. t \in S \cup {n}
      OBVIOUS
    <3>6. NoneAbove(p, b)
      BY DEF Turning
    <3> HIDE DEF S, n, t
    <3>7. Leaves(S \cup {n}, t)
      BY <2>0, <2>5, <3>4, <3>5, <3>6 DEF Leaves, NoneAbove, SideOf, UnderOf
    <3> QED
      BY <2>5, <3>1, <3>2, <3>7
  <2> QED
    BY <2>3, <2>4, <2>5 DEF Turning
<1> DEFINE n == NodeInDir(h, e)
           x == Filler!Turned(b, e)
<1>3. x \in Body /\ x.globalTailDir = Opposite(e) /\ Nodes(x) = {n, h} /\ n \in Node
  BY <1>1, FillerTurned, NodeInDirType
<1>4. n \notin O /\ Connected(O \cup {n, h})
  <2>1. CASE n = t
    <3>1. O \cup {n, h} = S
      BY <2>1
    <3> QED
      BY <1>1, <2>1, <3>1
  <2>2. CASE n # t
    <3>1. Connected(S \cup {n})
      <4>1. Adjacent(h, n) /\ S \in SUBSET Node /\ h \in S
        BY <1>1 DEF Adjacent, Nbrs
      <4> QED
        BY <1>1, <1>3, <4>1, ConnectedJoined
    <3>2. S \cup {n} \in SUBSET Node
      BY <1>1, <1>3
    <3>3. Connected((S \cup {n}) \ {t})
      BY <1>2, <2>2, <3>1, <3>2, LeavesConnected
    <3>4. (S \cup {n}) \ {t} = O \cup {n, h}
      BY <1>1, <2>2
    <3> QED
      BY <1>2, <2>2, <3>3, <3>4
  <2> QED
    BY <2>1, <2>2
<1>5. O \cup {n, h} = O \cup Nodes(x) /\ Nodes(x) \cap O = {}
  BY <1>1, <1>3, <1>4
<1>6. Filled([B EXCEPT ![p] = x])
  <2>1. /\ x \in Body /\ x.globalTailDir \in {-1} \cup 0 .. 3
        /\ O = OthersIn(B, p)
        /\ Nodes(x) \cap O = {} /\ Connected(O \cup Nodes(x))
    BY <1>1, <1>2, <1>3, <1>4, <1>5
  <2> HIDE DEF x, O
  <2> QED
    BY <2>1, FilledChanged
<1>7. C = [B EXCEPT ![p] = x]
  BY <1>2
<1> QED
  BY <1>6, <1>7

\* Whatever an expanded particle does, sound bodies stay sound.
LEMMA FillerActs ==
  ASSUME body \in [particles -> Body], NEW p \in particles, NEW b \in Body, IsExpanded(b),
         NEW B, B = [body EXCEPT ![p] = b], Filled(B)
  PROVE  Filled(Filler!AfterActing(p, b))
<1>1. b.globalTailDir \in 0 .. 3
  BY FilledAt
<1> QED
  BY <1>1, FillerDeeds, FillerPulled, FillerTurns, FillerLet

\* The invariant: there are finitely many, on sound ground.
FillerInv == IsFiniteSet(particles) /\ Filled(body)

\* The constructor places its particles so.
LEMMA FillerInitInv ==
  ASSUME Filler!StartsAssumption, Filler!Init
  PROVE  FillerInv
<1>1. PICK places \in FillerStarts, compass \in Compasses :
        body = [p \in 1 .. Len(places) |->
                 [head |-> places[p], globalTailDir |-> -1, orientation |-> compass[p]]]
  BY DEF Filler!Init
<1> DEFINE k == Len(places)
<1>2. /\ places \in Seq(Node) /\ \A i, j \in 1 .. k : places[i] = places[j] => i = j
      /\ Connected({places[i] : i \in 1 .. k})
      /\ \A p \in 1 .. k : compass[p] \in Dir
  BY <1>1, FillerBodies DEF Filler!StartsAssumption
<1>3. k \in Nat /\ \A i \in 1 .. k : places[i] \in Node
  BY <1>2
<1>4. particles = 1 .. k /\ IsFiniteSet(particles)
  BY <1>1, <1>3, FS_Interval DEF particles
<1>5. \A p \in particles : /\ body[p] \in Body /\ body[p].head = places[p]
                           /\ body[p].globalTailDir = -1 /\ Nodes(body[p]) = {places[p]}
  BY <1>1, <1>2, <1>3, <1>4 DEF Body, Nodes, IsContracted
<1>6. body \in [particles -> Body]
  BY <1>1, <1>4, <1>5
<1>7. ApartIn(body)
  BY <1>2, <1>4, <1>5, <1>6 DEF ApartIn
<1>8. Ground(body) = {places[i] : i \in 1 .. k}
  <2>1. ASSUME NEW n \in Ground(body) PROVE n \in {places[i] : i \in 1 .. k}
    <3>1. PICK p \in particles : n \in Nodes(body[p])
      BY DEF Ground
    <3>2. p \in 1 .. k /\ n = places[p]
      BY <1>4, <1>5, <3>1
    <3> QED
      BY <3>2
  <2>2. ASSUME NEW i \in 1 .. k PROVE places[i] \in Ground(body)
    <3>1. i \in particles /\ places[i] \in Nodes(body[i])
      BY <1>4, <1>5
    <3> QED
      BY <3>1 DEF Ground
  <2> QED
    BY <2>1, <2>2
<1> QED
  BY <1>2, <1>4, <1>5, <1>6, <1>7, <1>8 DEF FillerInv, Filled

\* A particle that sinks lies under its old node, on free ground.
LEMMA FillerSinks ==
  ASSUME Filled(body), NEW p \in particles, IsContracted(body[p]), NEW d \in {4, 5},
         ~ Filler!HasNbrAt(p, NodeInDir(body[p].head, d))
  PROVE  LET b == Filler!ExpandedTo(body[p], d)
         IN  b \in Body /\ IsExpanded(b) /\ Filled([body EXCEPT ![p] = b])
<1> DEFINE a == body[p]
           h == a.head
           n == NodeInDir(h, d)
           l == GlobalToLocalDir(a, d)
           b == Expanded(a, l)
           O == OthersIn(body, p)
<1>1. body \in [particles -> Body] /\ a \in Body /\ h \in Node /\ Nodes(a) = {h} /\ d \in Dir
  BY NodesType DEF Filled, Dir
<1>2. l \in Dir /\ LocalToGlobalDir(a, l) = d /\ Labels(a) = Dir /\ NbrNode(a, l) = n
  BY <1>1, CompassType, CompassInverse, ContractedFrame DEF NbrNode
<1>3. /\ b \in Body /\ IsExpanded(b) /\ Nodes(b) = {n, h} /\ n \in Node
      /\ b.globalTailDir = Opposite(d)
  <2>1. b.globalTailDir = Opposite(d)
    BY <1>1, <1>2 DEF Expanded, Body
  <2> QED
    BY <1>1, <1>2, <2>1, ExpandedBody, NodeInDirType
<1>4. n \notin O
  BY FillerBodies DEF Filler!HasNbrAt, OthersIn
<1>5. h \notin O
  BY <1>1 DEF OthersIn, Filled, ApartIn
<1>6. Ground(body) = O \cup {h} /\ O \cup {h} \in SUBSET Node
  <2>1. Ground(body) = O \cup {h}
    BY <1>1 DEF Ground, OthersIn
  <2>2. \A q \in particles : Nodes(body[q]) \subseteq Node
    BY <1>1, NodesType
  <2> QED
    BY <1>1, <2>1, <2>2 DEF OthersIn
<1>7. Connected(O \cup {n, h})
  <2>1. Adjacent(h, n) /\ h \in O \cup {h} /\ Connected(O \cup {h})
    BY <1>1, <1>6 DEF Adjacent, Nbrs, Filled
  <2>2. Connected((O \cup {h}) \cup {n})
    BY <1>3, <1>6, <2>1, ConnectedJoined
  <2>3. (O \cup {h}) \cup {n} = O \cup {n, h}
    OBVIOUS
  <2> QED
    BY <2>2, <2>3
<1>8. Filled([body EXCEPT ![p] = b])
  <2>1. /\ b \in Body /\ b.globalTailDir \in {-1} \cup 0 .. 3 /\ Nodes(b) \cap O = {}
        /\ Connected(O \cup Nodes(b))
    BY <1>3, <1>4, <1>5, <1>7 DEF Opposite
  <2> HIDE DEF b
  <2> QED
    BY <2>1, FilledChanged
<1> QED
  BY <1>3, <1>8, FillerBodies

\* Nobody loses the others (activate).
LEMMA FillerStepInv ==
  ASSUME FillerInv, Filler!Next
  PROVE  FillerInv'
<1>1. PICK p \in particles : Filler!Activate(p)
  BY FillerBodies DEF Filler!Next
<1>2. body \in [particles -> Body] /\ body[p] \in Body /\ [body EXCEPT ![p] = body[p]] = body
  BY DEF FillerInv, Filled
<1>3. Filled(body')
  <2>1. CASE Filler!Sink(p)
    <3>1. PICK d \in {4, 5} : /\ IsContracted(body[p])
                              /\ ~ Filler!HasNbrAt(p, NodeInDir(body[p].head, d))
                              /\ body' = Filler!AfterActing(p, Filler!ExpandedTo(body[p], d))
      BY <2>1, FillerBodies DEF Filler!Sink, Filler!BottomLeft, Filler!BottomRight
    <3> QED
      BY <1>2, <3>1, FillerSinks, FillerActs DEF FillerInv
  <2>2. CASE Filler!Act(p)
    <3>1. IsExpanded(body[p]) /\ body' = Filler!AfterActing(p, body[p])
      BY <2>2, FillerBodies DEF Filler!Act
    <3> QED
      BY <1>2, <3>1, FillerActs DEF FillerInv
  <2> QED
    BY <1>1, <2>1, <2>2 DEF Filler!Activate
<1>4. particles' = particles
  BY <1>3 DEF Filled, particles
<1> QED
  BY <1>3, <1>4 DEF FillerInv, Filled, Ground

\* Of finitely many things, each with those above it, and nobody above himself,
\* one has nobody above.
LEMMA FiniteTop ==
  ASSUME NEW T, IsFiniteSet(T), T # {}, NEW up \in [T -> SUBSET T],
         \A x \in T : x \notin up[x] /\ \A y \in up[x] : up[y] \subseteq up[x]
  PROVE  \E x \in T : up[x] = {}
<1> DEFINE N == {Cardinality(up[x]) : x \in T}
<1>1. \A x \in T : IsFiniteSet(up[x]) /\ Cardinality(up[x]) \in Nat
  BY FS_Subset, FS_CardinalityType
<1>2. PICK x \in T : \A y \in T : Cardinality(up[x]) <= Cardinality(up[y])
  <2>1. N \in SUBSET Nat /\ N # {}
    BY <1>1
  <2>2. PICK m \in N : \A k \in N : m <= k
    BY <2>1, NatLeast
  <2> QED
    BY <2>2
<1>3. ASSUME NEW y \in up[x] PROVE FALSE
  <2>1. y \in T /\ up[y] \subseteq up[x] /\ up[y] # up[x]
    BY <1>3
  <2>2. /\ Cardinality(up[y]) <= Cardinality(up[x])
        /\ Cardinality(up[x]) # Cardinality(up[y])
    BY <1>1, <2>1, FS_Subset
  <2> QED
    BY <1>1, <1>2, <2>1, <2>2
<1> QED
  BY <1>3

\* The tail of an expanded body is not under its nodes.
LEMMA TailAbove ==
  ASSUME NEW b \in Body, b.globalTailDir \in 0 .. 3, NEW n \in Nodes(b)
  PROVE  LET t == TailNode(b)
         IN  /\ n[1] \in Int /\ n[2] \in Int /\ t[1] \in Int /\ t[2] \in Int
             /\ t[2] >= n[2]
             /\ t[2] = n[2] /\ b.globalTailDir = 0 => t[1] >= n[1]
             /\ t[2] = n[2] /\ b.globalTailDir = 3 => t[1] <= n[1]
<1>1. /\ b.head \in Node
      /\ n = b.head \/ n = TailNode(b)
      /\ TailNode(b) = NodeInDir(b.head, b.globalTailDir)
  <2>1. b.head \in Node
    BY NodesType
  <2>2. n = b.head \/ n = TailNode(b)
    BY DEF Nodes
  <2> QED
    BY <2>1, <2>2 DEF TailNode
<1>2. b.head = <<b.head[1], b.head[2]>> /\ b.head[1] \in Int /\ b.head[2] \in Int
  BY <1>1 DEF Node
<1>3. b.globalTailDir = 0 \/ b.globalTailDir = 1 \/ b.globalTailDir = 2 \/ b.globalTailDir = 3
  OBVIOUS
<1>4. /\ NodeInDir(b.head, 0) = <<b.head[1] + 1, b.head[2]>>
      /\ NodeInDir(b.head, 1) = <<b.head[1], b.head[2] + 1>>
      /\ NodeInDir(b.head, 2) = <<b.head[1] - 1, b.head[2] + 1>>
      /\ NodeInDir(b.head, 3) = <<b.head[1] - 1, b.head[2]>>
  <2>1. PICK x, y \in Int : b.head = <<x, y>>
    BY <1>2
  <2>2. /\ NodeInDir(<<x, y>>, 0) = <<x + 1, y>> /\ NodeInDir(<<x, y>>, 1) = <<x, y + 1>>
        /\ NodeInDir(<<x, y>>, 2) = <<x - 1, y + 1>> /\ NodeInDir(<<x, y>>, 3) = <<x - 1, y>>
    BY StepsAre
  <2> QED
    BY <2>1, <2>2
<1> DEFINE t == TailNode(b)
<1>5. \/ b.globalTailDir = 0 /\ t[1] = b.head[1] + 1 /\ t[2] = b.head[2]
      \/ b.globalTailDir \in {1, 2} /\ t[1] \in Int /\ t[2] = b.head[2] + 1
      \/ b.globalTailDir = 3 /\ t[1] = b.head[1] - 1 /\ t[2] = b.head[2]
  BY <1>1, <1>2, <1>3, <1>4
<1> HIDE DEF t
<1>6. n = b.head \/ n = t
  BY <1>1 DEF t
<1> QED
  BY <1>2, <1>5, <1>6 DEF t

\* Who is above an expanded particle, as its tail goes: on a higher row, or on
\* the same one and not level, or as level and further out.
Stretched == {q \in particles : IsExpanded(body[q])}
Beyond(q, r) ==
  LET t == TailNode(body[q])
      s == TailNode(body[r])
      g == body[q].globalTailDir
      f == body[r].globalTailDir
  IN  \/ s[2] > t[2]
      \/ s[2] = t[2] /\ g \in {0, 3} /\ f \in {1, 2}
      \/ s[2] = t[2] /\ g = 3 /\ f = 3 /\ s[1] < t[1]
      \/ s[2] = t[2] /\ g = 0 /\ f = 0 /\ s[1] > t[1]

\* When all have come to rest, an expanded particle is kept so by one above it.
LEMMA FillerKept ==
  ASSUME FillerInv, NEW q \in Stretched, Filler!AfterActing(q, body[q]) = body
  PROVE  \E r \in Stretched : Beyond(q, r)
<1> DEFINE b == body[q]
           t == TailNode(b)
           g == b.globalTailDir
<1>1. /\ q \in particles /\ body \in [particles -> Body] /\ b \in Body /\ IsExpanded(b)
      /\ [body EXCEPT ![q] = b] = body /\ Filled(body)
  BY DEF FillerInv, Filled, Stretched
<1>2. g \in 0 .. 3 /\ t \in Node
  BY <1>1, FilledAt
<1>3. ~ Pulling(q, b, body)
  <2> SUFFICES ASSUME Pulling(q, b, body) PROVE FALSE
    OBVIOUS
  <2>1. IsContracted(Released(b, t))
    BY <1>1, ContractedBody DEF Released
  <2>2. body[q] = Released(b, t)
    <3>1. PICK r \in particles \ {q}, d \in 0 .. 3 :
            body = [body EXCEPT ![q] = Released(b, t), ![r] = PulledOnto(body[r], t, d)]
      BY DEF Pulling
    <3> QED
      BY <1>1, <3>1
  <2> QED
    BY <1>1, <2>1, <2>2 DEF IsExpanded
<1>4. ~ Turning(q, b, body)
  <2> SUFFICES ASSUME Turning(q, b, body) PROVE FALSE
    OBVIOUS
  <2>1. PICK e \in Dir : body = [body EXCEPT ![q] = Filler!Turned(b, e)] /\ Opposite(e) # g
    BY <1>2 DEF Turning, SideOf, UnderOf, Opposite, Dir
  <2>2. body[q] = Filler!Turned(b, e)
    BY <1>1, <2>1
  <2>3. Filler!Turned(b, e).globalTailDir = Opposite(e)
    BY <1>1, FillerTurned
  <2> QED
    BY <2>1, <2>2, <2>3
<1>5. ~ Letting(q, b, body)
  <2> SUFFICES ASSUME Letting(q, b, body) PROVE FALSE
    OBVIOUS
  <2>1. body = [body EXCEPT ![q] = TailContracted(b)]
    BY DEF Letting
  <2>2. body[q] = TailContracted(b)
    BY <1>1, <2>1
  <2> QED
    BY <1>1, <2>2, ContractedBody DEF IsExpanded
<1>6. Stuck(q, b)
  BY <1>1, <1>2, <1>3, <1>4, <1>5, FillerDeeds
<1>7. PICK r \in particles \ {q} :
        /\ IsExpanded(body[r])
        /\ \/ At(b, 1) \in Nodes(body[r]) \/ At(b, 2) \in Nodes(body[r])
           \/ /\ g \in {0, 3} /\ At(b, SideOf(b)) \in Nodes(body[r])
              /\ body[r].globalTailDir # Opposite(SideOf(b))
  BY <1>6 DEF Stuck
<1>8. r \in Stretched /\ body[r] \in Body /\ body[r].globalTailDir \in 0 .. 3
  BY <1>1, <1>7 DEF Stretched, Filled, IsExpanded, IsContracted
<1>9. /\ t[1] \in Int /\ t[2] \in Int
      /\ At(b, 0) = <<t[1] + 1, t[2]>> /\ At(b, 3) = <<t[1] - 1, t[2]>>
      /\ At(b, 1) = <<t[1], t[2] + 1>> /\ At(b, 2) = <<t[1] - 1, t[2] + 1>>
  <2>1. t = <<t[1], t[2]>> /\ t[1] \in Int /\ t[2] \in Int
    BY <1>2 DEF Node
  <2> QED
    BY <2>1, StepsAre DEF At
<1>10. \A n \in Nodes(body[r]) :
         LET s == TailNode(body[r])
         IN  /\ s[1] \in Int /\ s[2] \in Int /\ s[2] >= n[2]
             /\ s[2] = n[2] /\ body[r].globalTailDir = 0 => s[1] >= n[1]
             /\ s[2] = n[2] /\ body[r].globalTailDir = 3 => s[1] <= n[1]
  BY <1>8, TailAbove
<1>11. Beyond(q, r)
  <2>1. CASE At(b, 1) \in Nodes(body[r]) \/ At(b, 2) \in Nodes(body[r])
    BY <1>9, <1>10, <2>1 DEF Beyond
  <2>2. CASE /\ g \in {0, 3} /\ At(b, SideOf(b)) \in Nodes(body[r])
             /\ body[r].globalTailDir # Opposite(SideOf(b))
    BY <1>8, <1>9, <1>10, <2>2 DEF Beyond, SideOf, Opposite
  <2> QED
    BY <1>7, <2>1, <2>2
<1> QED
  BY <1>8, <1>11

\* It is what the run checks: types, one piece, and at rest nobody is stretched
\* out, since the outermost on the highest row is kept by nobody.
LEMMA FillerHolds ==
  ASSUME FillerInv
  PROVE  Filler!TypeOK /\ Filler!FillersHoldTogether
<1>1. /\ body \in [particles -> Body] /\ ApartIn(body) /\ Connected(Ground(body))
      /\ \A p \in particles : body[p].globalTailDir \in {-1} \cup 0 .. 3
      /\ DOMAIN body = particles
  BY DEF FillerInv, Filled
<1>2. Filler!TypeOK
  BY <1>1, FillerBodies DEF Filler!TypeOK, ApartIn, Filler!BottomLeft, Filler!BottomRight
<1>3. Filler!Connected(Filler!Occupied)
  BY <1>1, FillerBodies DEF Ground, Occupied
<1>4. ASSUME Filler!AtRest PROVE \A p \in particles : IsContracted(body[p])
  <2> DEFINE up == [q \in Stretched |-> {r \in Stretched : Beyond(q, r)}]
  <2>1. IsFiniteSet(Stretched)
    BY FS_Subset DEF Stretched, FillerInv
  <2>2. \A q \in Stretched : up[q] # {}
    <3>1. \A q \in Stretched : Filler!AfterActing(q, body[q]) = body
      BY <1>4, FillerBodies DEF Filler!AtRest, Stretched
    <3> QED
      BY <3>1, FillerKept
  <2>3. \A q \in Stretched : /\ TailNode(body[q])[1] \in Int /\ TailNode(body[q])[2] \in Int
                             /\ body[q].globalTailDir \in 0 .. 3
    <3> TAKE q \in Stretched
    <3>1. TailNode(body[q]) \in Node
      BY <1>1, NodesType DEF Stretched
    <3> QED
      BY <1>1, <3>1 DEF Stretched, Node, IsExpanded, IsContracted
  <2>4. \A q \in Stretched : q \notin up[q]
    BY <2>3 DEF Beyond
  <2>5. \A q, r, s \in Stretched : Beyond(q, r) /\ Beyond(r, s) => Beyond(q, s)
    BY <2>3 DEF Beyond
  <2>6. up \in [Stretched -> SUBSET Stretched]
    OBVIOUS
  <2>7. \A q \in Stretched : \A r \in up[q] : up[r] \subseteq up[q]
    BY <2>5
  <2> HIDE DEF up
  <2>8. Stretched = {}
    BY <2>1, <2>2, <2>4, <2>6, <2>7, FiniteTop
  <2> QED
    BY <2>8 DEF Stretched, IsExpanded
<1> QED
  BY <1>2, <1>3, <1>4, FillerBodies DEF Filler!FillersHoldTogether

\* Fillers sink, drag one another along and turn, for any number of them, from
\* every start and on all compasses, and neither lose one another nor stay
\* stretched out when all have come to rest (activate).
THEOREM FillersCorrect ==
  ASSUME Filler!StartsAssumption
  PROVE  Filler!Init /\ [][Filler!Next]_(Filler!vars) => [](Filler!TypeOK /\ Filler!FillersHoldTogether)
<1>1. Filler!Init => FillerInv
  BY FillerInitInv
<1>2. FillerInv /\ [Filler!Next]_(Filler!vars) => FillerInv'
  <2> SUFFICES ASSUME FillerInv, [Filler!Next]_(Filler!vars) PROVE FillerInv'
    OBVIOUS
  <2>1. CASE UNCHANGED Filler!vars
    BY <2>1 DEF Filler!vars, FillerInv, Filled, Ground, particles
  <2> QED
    BY <2>1, FillerStepInv
<1>3. FillerInv => Filler!TypeOK /\ Filler!FillersHoldTogether
  BY FillerHolds
<1> QED
  BY <1>1, <1>2, <1>3, PTL

-----------------------------------------------------------------------------
(* The tokens                                                              *)

\* No node is met twice.
LEMMA HexagonMeets ==
  ASSUME NEW s \in Nat, NEW p \in 0 .. 6 * s - 1, NEW q \in 0 .. 6 * s - 1
  PROVE  /\ HexagonNode(s, p) \in Node
         /\ HexagonNode(s, p) = HexagonNode(s, q) => p = q
<1>1. /\ p \in Int /\ q \in Int /\ s \in Int /\ s > 0
      /\ 0 <= p /\ p < 6 * s /\ 0 <= q /\ q < 6 * s
  OBVIOUS
<1>2. HexagonNode(s, p) \in Node
  BY <1>1 DEF HexagonNode, Node
<1>3. ASSUME HexagonNode(s, p)[1] = HexagonNode(s, q)[1], HexagonNode(s, p)[2] = HexagonNode(s, q)[2]
      PROVE  p = q
  BY <1>1, <1>3 DEF HexagonNode
<1> QED
  BY <1>2, <1>3

\* Neighbours follow on one another, the last and the first too.
LEMMA HexagonBeside ==
  ASSUME NEW s \in Nat, NEW p \in 0 .. 6 * s - 1, NEW q \in 0 .. 6 * s - 1, NEW d \in Dir,
         NodeInDir(HexagonNode(s, p), d) = HexagonNode(s, q)
  PROVE  \/ q = p + 1 \/ p = q + 1
         \/ p = 0 /\ q = 6 * s - 1
         \/ q = 0 /\ p = 6 * s - 1
<1>1. /\ p \in Int /\ q \in Int /\ s \in Int /\ s > 0
      /\ 0 <= p /\ p < 6 * s /\ 0 <= q /\ q < 6 * s
  OBVIOUS
<1> DEFINE x == HexagonNode(s, q)[1] - HexagonNode(s, p)[1]
           y == HexagonNode(s, q)[2] - HexagonNode(s, p)[2]
<1>2. /\ x \in Int /\ y \in Int
      /\ <<x, y>> \in {<<1, 0>>, <<0, 1>>, <<0 - 1, 1>>, <<0 - 1, 0>>, <<0, 0 - 1>>, <<1, 0 - 1>>}
  <2>1. /\ HexagonNode(s, p)[1] \in Int /\ HexagonNode(s, p)[2] \in Int
        /\ HexagonNode(s, q)[1] \in Int /\ HexagonNode(s, q)[2] \in Int
    BY HexagonMeets DEF Node
  <2> QED
    BY <2>1 DEF NodeInDir, xOffset, yOffset, Dir
<1>3. x \in -1 .. 1 /\ y \in -1 .. 1 /\ x + y \in -1 .. 1 /\ ~ (x = 0 /\ y = 0)
  BY <1>2
<1> HIDE DEF x, y
<1> QED
  BY <1>1, <1>3 DEF HexagonNode, x, y

\* Along the ring, by its size: one on, one back, or one either way.
OnePast(N, p) == IF p = N - 1 THEN 0 ELSE p + 1
OneShort(N, p) == IF p = 0 THEN N - 1 ELSE p - 1
Along(N, p, v) == IF v = 1 THEN OnePast(N, p) ELSE OneShort(N, p)

\* a and r differ by whole rounds.
Rounds(N, a, r) == \E k \in Int : a = k * N + r

\* A remainder is known by what it leaves.
LEMMA RemainderIs ==
  ASSUME NEW N \in Nat, N > 0, NEW a \in Int, NEW r \in 0 .. N - 1, Rounds(N, a, r)
  PROVE  a % N = r
  BY DEF Rounds

\* And every remainder leaves whole rounds.
LEMMA RemainderLeaves ==
  ASSUME NEW N \in Nat, N > 0, NEW a \in Int
  PROVE  a % N \in 0 .. N - 1 /\ Rounds(N, a, a % N)
<1>1. a % N \in 0 .. N - 1 /\ a \div N \in Int
  OBVIOUS
<1>2. a = (a \div N) * N + (a % N)
  OBVIOUS
<1> QED
  BY <1>1, <1>2 DEF Rounds

\* One step further is one more, round the ring.
LEMMA AlongStep ==
  ASSUME NEW N \in Nat, N > 5, NEW a \in Nat, NEW v \in {1, -1}
  PROVE  /\ (v * a) % N \in 0 .. N - 1
         /\ (v * (a + 1)) % N = Along(N, (v * a) % N, v)
<1> DEFINE b == v * a
           r == b % N
<1>1. b \in Int /\ v * (a + 1) = b + v /\ v \in Int
  OBVIOUS
<1> HIDE DEF b
<1>2. r \in 0 .. N - 1 /\ Rounds(N, b, r)
  BY <1>1, RemainderLeaves
<1> HIDE DEF r
<1> DEFINE c == b + v
<1>8. c \in Int
  BY <1>1
<1>7. PICK k \in Int : b = k * N + r
  BY <1>2 DEF Rounds
<1>3. CASE v = 1 /\ r = N - 1
  <2> DEFINE u == 0
  <2>1. c = (k + 1) * N + u /\ u \in 0 .. N - 1 /\ k + 1 \in Int
    BY <1>1, <1>2, <1>7, <1>3
  <2>2. u = Along(N, r, v)
    BY <1>1, <1>2, <1>3 DEF Along, OnePast
  <2> HIDE DEF u, c
  <2>3. Rounds(N, c, u)
    BY <2>1 DEF Rounds
  <2>4. c % N = u
    BY <1>8, <2>1, <2>3, RemainderIs
  <2> QED
    BY <1>1, <1>2, <2>2, <2>4 DEF b, r, c
<1>4. CASE v = 1 /\ r # N - 1
  <2> DEFINE u == r + 1
  <2>1. c = (k) * N + u /\ u \in 0 .. N - 1 /\ k \in Int
    BY <1>1, <1>2, <1>7, <1>4
  <2>2. u = Along(N, r, v)
    BY <1>1, <1>2, <1>4 DEF Along, OnePast
  <2> HIDE DEF u, c
  <2>3. Rounds(N, c, u)
    BY <2>1 DEF Rounds
  <2>4. c % N = u
    BY <1>8, <2>1, <2>3, RemainderIs
  <2> QED
    BY <1>1, <1>2, <2>2, <2>4 DEF b, r, c
<1>5. CASE v = -1 /\ r = 0
  <2> DEFINE u == N - 1
  <2>1. c = (k - 1) * N + u /\ u \in 0 .. N - 1 /\ k - 1 \in Int
    BY <1>1, <1>2, <1>7, <1>5
  <2>2. u = Along(N, r, v)
    BY <1>1, <1>2, <1>5 DEF Along, OneShort
  <2> HIDE DEF u, c
  <2>3. Rounds(N, c, u)
    BY <2>1 DEF Rounds
  <2>4. c % N = u
    BY <1>8, <2>1, <2>3, RemainderIs
  <2> QED
    BY <1>1, <1>2, <2>2, <2>4 DEF b, r, c
<1>6. CASE v = -1 /\ r # 0
  <2> DEFINE u == r - 1
  <2>1. c = (k) * N + u /\ u \in 0 .. N - 1 /\ k \in Int
    BY <1>1, <1>2, <1>7, <1>6
  <2>2. u = Along(N, r, v)
    BY <1>1, <1>2, <1>6 DEF Along, OneShort
  <2> HIDE DEF u, c
  <2>3. Rounds(N, c, u)
    BY <2>1 DEF Rounds
  <2>4. c % N = u
    BY <1>8, <2>1, <2>3, RemainderIs
  <2> QED
    BY <1>1, <1>2, <2>2, <2>4 DEF b, r, c
<1> QED
  BY <1>2, <1>3, <1>4, <1>5, <1>6

\* The size of the ring.
LEMMA RingSizeIs ==
  ASSUME Ring!RingAssumption
  PROVE  /\ RingSide \in Nat /\ RingSide > 0 /\ Ring!RingSize = 6 * RingSide
         /\ Ring!RingSize \in Nat /\ Ring!RingSize > 5
  BY DEF Ring!RingAssumption, Ring!RingSize

\* The constructor follows the walk.
LEMMA RingNodes ==
  ASSUME Ring!RingAssumption, NEW p \in 0 .. Ring!RingSize - 1
  PROVE  Ring!hexNode[p] = HexagonNode(RingSide, p)
<1> DEFINE s == RingSide
           N == Ring!RingSize
           next(f, k) == NodeInDir(f[k - 1], (k - 1) \div s)
           walk(f) == [k \in 0 .. N - 1 |-> IF k = 0 THEN <<0, 0>> ELSE next(f, k)]
           b == CHOOSE f : f = walk(f)
           g == [k \in 0 .. N - 1 |-> HexagonNode(s, k)]
<1>1. s \in Nat /\ s > 0 /\ N = 6 * s /\ N \in Nat /\ N > 0
  BY RingSizeIs
<1>2. \A n, d : Ring!NodeInDir(n, d) = NodeInDir(n, d)
  BY DEF Ring!NodeInDir, NodeInDir, Ring!xOffset, xOffset, Ring!yOffset, yOffset
<1>3. Ring!hexNode = b
  BY <1>2 DEF Ring!hexNode
<1>4. \A k \in 0 .. N - 1 : g[k] = IF k = 0 THEN <<0, 0>> ELSE next(g, k)
  <2> TAKE k \in 0 .. N - 1
  <2>1. CASE k = 0
    BY <1>1, <2>1, HexagonSteps DEF HexagonNode
  <2>2. CASE k # 0
    <3>1. k \in 1 .. 6 * s /\ k - 1 \in 0 .. N - 1
      BY <1>1, <2>2
    <3>2. HexagonNode(s, k) = NodeInDir(HexagonNode(s, k - 1), (k - 1) \div s)
      BY <1>1, <3>1, HexagonSteps
    <3> QED
      BY <2>2, <3>1, <3>2
  <2> QED
    BY <2>1, <2>2
<1> HIDE DEF next
<1>5. g = walk(g)
  BY <1>4
<1>6. b = walk(b)
  <2> HIDE DEF walk, g
  <2> QED
    BY <1>5
<1>7. \A k \in 0 .. N - 1 : b[k] = IF k = 0 THEN <<0, 0>> ELSE next(b, k)
  <2>1. \A f : \A k \in 0 .. N - 1 : walk(f)[k] = IF k = 0 THEN <<0, 0>> ELSE next(f, k)
    OBVIOUS
  <2> HIDE DEF b, walk
  <2> QED
    BY <1>6, <2>1
<1> HIDE DEF b, g
<1> DEFINE T == {k \in 0 .. N - 1 : b[k] # g[k]}
<1>8. T = {}
  <2> SUFFICES ASSUME T # {} PROVE FALSE
    OBVIOUS
  <2>1. T \in SUBSET Nat
    BY <1>1
  <2>2. PICK k \in T : \A j \in T : k <= j
    <3> HIDE DEF T
    <3> QED
      BY <2>1, NatLeast
  <2>3. k \in 0 .. N - 1 /\ k # 0 /\ b[k] # g[k]
    BY <1>1, <1>4, <1>7, <2>2
  <2>4. k - 1 \in 0 .. N - 1 /\ ~ (k <= k - 1)
    BY <1>1, <2>3
  <2>5. b[k - 1] = g[k - 1]
    BY <2>2, <2>4
  <2>6. next(b, k) = next(g, k)
    BY <2>5 DEF next
  <2> QED
    BY <1>4, <1>7, <2>3, <2>6
<1>9. b[p] = g[p]
  BY <1>8
<1> QED
  BY <1>3, <1>9 DEF g

\* Its particles, ports and labels are those of the lemmas above.
LEMMA RingBodies ==
  /\ Ring!particles = particles /\ Ring!Body = Body /\ Ring!Dir = Dir
  /\ \A n : n \in Ring!Occupied <=> \E p \in particles : n \in Nodes(body[p])
  /\ \A b : Ring!IsExpanded(b) <=> IsExpanded(b)
  /\ \A b, l : Ring!NbrNode(b, l) = NbrNode(b, l)
  /\ \A n : Ring!ParticleAt(n) = ParticleAt(n)
  /\ \A L, start, limit : Ring!FirstFrom(L, start, limit) = FirstFrom(L, start, limit)
<1>1. /\ Ring!particles = particles /\ Ring!Node = Node /\ Ring!Dir = Dir
      /\ \A n, d : Ring!NodeInDir(n, d) = NodeInDir(n, d)
      /\ \A d : Ring!Opposite(d) = Opposite(d)
      /\ Ring!labels = labels /\ Ring!labelDir = labelDir
  BY DEF Ring!particles, particles, Ring!Node, Node, Ring!Dir, Dir, Ring!NodeInDir, NodeInDir,
         Ring!xOffset, xOffset, Ring!yOffset, yOffset, Ring!Opposite, Opposite,
         Ring!labels, labels, Ring!labelDir, labelDir
<1>2. /\ Ring!Body = Body
      /\ \A b : Ring!IsContracted(b) <=> IsContracted(b)
      /\ \A b : Ring!IsExpanded(b) <=> IsExpanded(b)
      /\ \A b, d : Ring!LocalToGlobalDir(b, d) = LocalToGlobalDir(b, d)
      /\ \A b, d : Ring!GlobalToLocalDir(b, d) = GlobalToLocalDir(b, d)
      /\ \A b : Ring!TailNode(b) = TailNode(b)
  BY <1>1 DEF Ring!Body, Body, Ring!IsContracted, IsContracted, Ring!IsExpanded, IsExpanded,
         Ring!LocalToGlobalDir, LocalToGlobalDir, Ring!GlobalToLocalDir, GlobalToLocalDir,
         Ring!TailNode, TailNode
<1>3. /\ \A b : Ring!Nodes(b) = Nodes(b)
      /\ \A b : Ring!TailDir(b) = TailDir(b)
      /\ \A b : Ring!LabelLimit(b) = LabelLimit(b)
  BY <1>1, <1>2 DEF Ring!Nodes, Nodes, Ring!TailDir, TailDir, Ring!LabelLimit, LabelLimit
<1>4. /\ \A n : n \in Ring!Occupied <=> \E p \in particles : n \in Nodes(body[p])
      /\ \A n : Ring!ParticleAt(n) = ParticleAt(n)
      /\ \A b : Ring!Labels(b) = Labels(b)
      /\ \A b, l : Ring!LabelToDir(b, l) = LabelToDir(b, l)
  BY <1>1, <1>2, <1>3 DEF Ring!Occupied, Ring!ParticleAt, ParticleAt, Ring!Labels, Labels,
         Ring!LabelToDir, LabelToDir
<1>5. /\ \A b : Ring!HeadLabels(b) = HeadLabels(b)
      /\ \A b, l : Ring!LabelToGlobalDir(b, l) = LabelToGlobalDir(b, l)
  BY <1>1, <1>2, <1>3, <1>4 DEF Ring!HeadLabels, HeadLabels, Ring!LabelToGlobalDir, LabelToGlobalDir
<1>6. \A b, l : Ring!NbrNode(b, l) = NbrNode(b, l)
  BY <1>1, <1>2, <1>5 DEF Ring!NbrNode, NbrNode, Ring!OccupiedNodeIncidentToLabel,
         OccupiedNodeIncidentToLabel
<1>7. \A L, start, limit : Ring!FirstFrom(L, start, limit) = FirstFrom(L, start, limit)
  BY DEF Ring!FirstFrom, FirstFrom
<1> QED
  BY <1>1, <1>2, <1>4, <1>6, <1>7

\* The ring stands: contracted particles in the order of the walk.
RingStands ==
  /\ body \in [0 .. Ring!RingSize - 1 -> Body]
  /\ \A p \in particles : IsContracted(body[p]) /\ body[p].head = HexagonNode(RingSide, p)

\* The next particle round the ring, either way, and the label that leads to it.
Onward(p, v) == Along(Ring!RingSize, p, v)
LabelTo(p, q) == CHOOSE l \in Dir : NbrNode(body[p], l) = body[q].head

\* There and back.
LEMMA OnwardBack ==
  ASSUME Ring!RingAssumption, NEW p \in 0 .. Ring!RingSize - 1, NEW v \in {1, -1}
  PROVE  /\ Onward(p, v) \in 0 .. Ring!RingSize - 1
         /\ Onward(p, v) # p /\ Onward(p, -v) # Onward(p, v)
         /\ Onward(Onward(p, v), -v) = p /\ -v \in {1, -1}
  BY RingSizeIs DEF Onward, Along, OnePast, OneShort

\* Ports of a ring particle lead in all directions from its node.
LEMMA RingPorts ==
  ASSUME RingStands, NEW p \in particles
  PROVE  /\ particles = 0 .. Ring!RingSize - 1
         /\ body[p] \in Body /\ Nodes(body[p]) = {body[p].head} /\ body[p].head \in Node
         /\ ~ IsExpanded(body[p])
         /\ \A l \in Dir : NbrNode(body[p], l) = NodeInDir(body[p].head, LocalToGlobalDir(body[p], l))
<1>1. particles = 0 .. Ring!RingSize - 1 /\ body[p] \in Body /\ IsContracted(body[p])
  BY DEF RingStands, particles
<1> QED
  BY <1>1, ContractedFrame, NodesType DEF NbrNode, IsExpanded

\* Along the ring there is always a step.
LEMMA RingBeside ==
  ASSUME Ring!RingAssumption, RingStands, NEW p \in particles
  PROVE  \E d \in Dir : /\ NodeInDir(body[p].head, d) = body[Onward(p, 1)].head
                        /\ NodeInDir(body[Onward(p, 1)].head, Opposite(d)) = body[p].head
<1> DEFINE q == Onward(p, 1)
           s == RingSide
           d == p \div s
<1>1. p \in 0 .. 6 * s - 1 /\ q \in particles /\ s \in Nat /\ Ring!RingSize = 6 * s
  BY RingPorts, RingSizeIs, OnwardBack
<1>2. p + 1 \in 1 .. 6 * s /\ (p + 1) - 1 = p
  BY <1>1
<1>3. d \in Dir /\ HexagonNode(s, p + 1) = NodeInDir(HexagonNode(s, p), d)
  BY <1>1, <1>2, HexagonSteps
<1>4. HexagonNode(s, q) = HexagonNode(s, p + 1)
  <2>1. CASE p = 6 * s - 1
    <3>1. q = 0 /\ p + 1 = 6 * s
      BY <1>1, <2>1 DEF Onward, Along, OnePast
    <3> QED
      BY <1>1, <1>2, <3>1, HexagonSteps
  <2>2. CASE p # 6 * s - 1
    BY <1>1, <2>2 DEF Onward, Along, OnePast
  <2> QED
    BY <2>1, <2>2
<1>5. body[p].head = HexagonNode(s, p) /\ body[q].head = HexagonNode(s, q) /\ body[p].head \in Node
  BY <1>1, RingPorts DEF RingStands
<1> HIDE DEF d, q
<1>6. NodeInDir(body[p].head, d) = body[q].head
  BY <1>3, <1>4, <1>5
<1> QED
  BY <1>3, <1>5, <1>6, NodeInDirBack DEF q

\* The label of the next particle, either way, is the only one that leads to it.
LEMMA LabelToIs ==
  ASSUME Ring!RingAssumption, RingStands, NEW p \in particles, NEW v \in {1, -1},
         NEW q, q = Onward(p, v)
  PROVE  /\ LabelTo(p, q) \in Dir
         /\ \A l \in Dir : NbrNode(body[p], l) = body[q].head <=> l = LabelTo(p, q)
<1>1. q \in particles /\ body[p] \in Body /\ body[p].head \in Node
  BY RingPorts, OnwardBack
<1>2. PICK d \in Dir : NodeInDir(body[p].head, d) = body[q].head
  <2>1. CASE v = 1
    BY <2>1, RingBeside
  <2>2. CASE v = -1
    <3>1. p = Onward(q, 1)
      BY <1>1, <2>2, OnwardBack, RingPorts
    <3> QED
      BY <1>1, <3>1, RingBeside, OppositeType
  <2> QED
    BY <2>1, <2>2
<1> DEFINE k == GlobalToLocalDir(body[p], d)
<1>3. k \in Dir /\ LocalToGlobalDir(body[p], k) = d
  BY <1>1, <1>2, CompassType, CompassInverse
<1> HIDE DEF k
<1>4. NbrNode(body[p], k) = body[q].head
  BY <1>2, <1>3, RingPorts
<1>5. ASSUME NEW l \in Dir, NbrNode(body[p], l) = body[q].head
      PROVE  l = k
  <2>1. NodeInDir(body[p].head, LocalToGlobalDir(body[p], l)) = NodeInDir(body[p].head, d)
    BY <1>2, <1>5, RingPorts
  <2>2. LocalToGlobalDir(body[p], l) \in Dir
    BY <1>1, CompassType
  <2>3. LocalToGlobalDir(body[p], l) = d
    BY <1>1, <1>2, <2>1, <2>2, NodeInDirInjective
  <2> QED
    BY <1>1, <1>3, <2>3, CompassInverse
<1>6. LabelTo(p, q) = k
  BY <1>3, <1>4, <1>5 DEF LabelTo
<1> QED
  BY <1>3, <1>4, <1>5, <1>6

\* A node of the ring is where one particle is.
LEMMA RingPlaces ==
  ASSUME Ring!RingAssumption, RingStands, NEW p \in particles
  PROVE  /\ \A q \in particles : body[p].head \in Nodes(body[q]) => p = q
         /\ Ring!ParticleAt(body[p].head) = p
<1>1. ASSUME NEW q \in particles, body[p].head \in Nodes(body[q]) PROVE p = q
  <2>1. /\ p \in 0 .. 6 * RingSide - 1 /\ q \in 0 .. 6 * RingSide - 1 /\ RingSide \in Nat
        /\ Nodes(body[q]) = {body[q].head}
    BY RingPorts, RingSizeIs
  <2>2. HexagonNode(RingSide, p) = HexagonNode(RingSide, q)
    BY <1>1, <2>1 DEF RingStands
  <2> QED
    BY <2>1, <2>2, HexagonMeets
<1>2. body[p].head \in Nodes(body[p])
  BY RingPorts
<1> QED
  BY <1>1, <1>2, RingBodies DEF ParticleAt

\* Every particle has two neighbours, the next ones round the ring.
LEMMA RingNbrs ==
  ASSUME Ring!RingAssumption, RingStands, NEW p \in particles, NEW v \in {1, -1}
  PROVE  /\ Ring!NbrLabels(p) = {LabelTo(p, Onward(p, v)), LabelTo(p, Onward(p, -v))}
         /\ LabelTo(p, Onward(p, v)) \in Dir /\ LabelTo(p, Onward(p, -v)) \in Dir
         /\ LabelTo(p, Onward(p, v)) # LabelTo(p, Onward(p, -v))
         /\ Ring!NbrAtLabel(p, LabelTo(p, Onward(p, v))) = Onward(p, v)
<1> DEFINE q == Onward(p, v)
           r == Onward(p, -v)
<1>1. /\ -v \in {1, -1} /\ particles = 0 .. Ring!RingSize - 1
      /\ q \in particles /\ r \in particles /\ q # r
  BY RingPorts, OnwardBack
<1> HIDE DEF q, r
<1>2. /\ LabelTo(p, q) \in Dir
      /\ \A l \in Dir : NbrNode(body[p], l) = body[q].head <=> l = LabelTo(p, q)
  BY <1>1, LabelToIs DEF q
<1>3. /\ LabelTo(p, r) \in Dir
      /\ \A l \in Dir : NbrNode(body[p], l) = body[r].head <=> l = LabelTo(p, r)
  BY <1>1, LabelToIs DEF r
<1>4. ASSUME NEW l \in Dir, NEW t \in particles, NbrNode(body[p], l) = body[t].head
      PROVE  t \in {q, r}
  <2>1. /\ p \in 0 .. 6 * RingSide - 1 /\ t \in 0 .. 6 * RingSide - 1 /\ RingSide \in Nat
        /\ Ring!RingSize = 6 * RingSide
    BY <1>1, RingSizeIs
  <2>2. NodeInDir(HexagonNode(RingSide, p), LocalToGlobalDir(body[p], l)) = HexagonNode(RingSide, t)
    BY <1>4, RingPorts DEF RingStands
  <2>3. LocalToGlobalDir(body[p], l) \in Dir
    BY RingPorts, CompassType
  <2>4. \/ t = p + 1 \/ p = t + 1
        \/ p = 0 /\ t = 6 * RingSide - 1
        \/ t = 0 /\ p = 6 * RingSide - 1
    BY <2>1, <2>2, <2>3, HexagonBeside
  <2>5. t = Onward(p, 1) \/ t = Onward(p, -1)
    BY <2>1, <2>4 DEF Onward, Along, OnePast, OneShort
  <2> QED
    BY <2>5 DEF q, r
<1>5. \A l \in Dir : Ring!HasNbrAtLabel(p, l) <=>
                       \E t \in particles : NbrNode(body[p], l) = body[t].head
  <2>1. \A t \in particles : Nodes(body[t]) = {body[t].head}
    BY RingPorts
  <2>2. \A l : Ring!HasNbrAtLabel(p, l) <=> \E t \in particles : NbrNode(body[p], l) \in Nodes(body[t])
    BY RingBodies DEF Ring!HasNbrAtLabel
  <2> QED
    BY <2>1, <2>2
<1>6. Ring!NbrLabels(p) = {LabelTo(p, q), LabelTo(p, r)}
  BY <1>1, <1>2, <1>3, <1>4, <1>5, RingBodies DEF Ring!NbrLabels
<1>7. LabelTo(p, q) # LabelTo(p, r)
  <2>1. SUFFICES ASSUME LabelTo(p, q) = LabelTo(p, r) PROVE FALSE
    OBVIOUS
  <2>2. body[q].head = body[r].head /\ body[q].head \in Nodes(body[q])
    BY <1>1, <1>2, <1>3, <2>1, RingPorts
  <2> QED
    BY <1>1, <2>2, RingPlaces
<1>8. Ring!NbrAtLabel(p, LabelTo(p, q)) = q
  BY <1>1, <1>2, RingPlaces, RingBodies DEF Ring!NbrAtLabel
<1> QED
  BY <1>2, <1>3, <1>6, <1>7, <1>8 DEF q, r

\* A scan of one label finds it.
LEMMA ScanOne ==
  ASSUME NEW l \in Dir, NEW start \in Dir
  PROVE  FirstFrom({l}, start, 6) = l
<1>1. (l - start + 6) % 6 <= (l - start + 6) % 6
  BY DEF Dir
<1> QED
  BY <1>1 DEF FirstFrom

\* The way round that the first label of the first particle leads, which red
\* tokens take; blue ones take the other.
FirstWay ==
  IF Ring!NbrAtLabel(0, Ring!FirstFrom(Ring!NbrLabels(0), 0, 6)) = Onward(0, 1) THEN 1 ELSE -1
Way(color) == IF color = "Red" THEN FirstWay ELSE - FirstWay

\* The first label leads the first way.
LEMMA FirstWayIs ==
  ASSUME Ring!RingAssumption, RingStands
  PROVE  /\ FirstWay \in {1, -1}
         /\ FirstFrom(Ring!NbrLabels(0), 0, 6) = LabelTo(0, Onward(0, FirstWay))
<1>1. 0 \in particles /\ 1 \in {1, -1}
  BY RingPorts, RingSizeIs DEF RingStands, particles
<1>2. -1 \in {1, -1}
  OBVIOUS
<1> DEFINE a == LabelTo(0, Onward(0, 1))
           b == LabelTo(0, Onward(0, -1))
<1>3. /\ Ring!NbrLabels(0) = {a, b} /\ a \in Dir /\ b \in Dir
      /\ Ring!NbrAtLabel(0, a) = Onward(0, 1)
  BY <1>1, RingNbrs
<1>4. Ring!NbrAtLabel(0, b) = Onward(0, -1)
  BY <1>1, <1>2, RingNbrs
<1>5. Onward(0, -1) # Onward(0, 1)
  BY <1>1, OnwardBack, RingPorts
<1> HIDE DEF a, b
<1>6. FirstFrom(Ring!NbrLabels(0), 0, 6) \in {a, b}
  BY <1>3, FirstFound
<1> QED
  BY <1>3, <1>4, <1>5, <1>6, RingBodies DEF FirstWay, a, b

\* A token is where it has been passed to, and knows where it came from.
Passed(t) == Lifetime - t.lifetime
OnWay(p, t) ==
  /\ p = (Way(t.color) * Passed(t)) % Ring!RingSize
  /\ t.passedFrom = IF Passed(t) = 0 THEN -1 ELSE LabelTo(p, Onward(p, - Way(t.color)))

\* Each colour goes one way or the other.
LEMMA WayIs ==
  ASSUME Ring!RingAssumption, RingStands, NEW color
  PROVE  Way(color) \in {1, -1} /\ - Way(color) \in {1, -1} /\ - (- Way(color)) = Way(color)
  BY FirstWayIs DEF Way

\* It is passed on the way it goes (activate, the two scans).
LEMMA PassToIs ==
  ASSUME Ring!RingAssumption, RingStands, NEW p \in particles, NEW t \in Ring!Token, OnWay(p, t)
  PROVE  Ring!PassTo(p, t) = LabelTo(p, Onward(p, Way(t.color)))
<1> DEFINE v == Way(t.color)
           on == LabelTo(p, Onward(p, v))
           back == LabelTo(p, Onward(p, - v))
<1>1. v \in {1, -1} /\ - v \in {1, -1} /\ - (- v) = v
  BY WayIs
<1>2. /\ Ring!NbrLabels(p) = {on, back} /\ on \in Dir /\ back \in Dir /\ on # back
  BY <1>1, RingNbrs
<1>3. Ring!NbrLabels(p) \ {back} = {on} /\ -1 \notin Dir
  BY <1>2 DEF Dir
<1>4. t.passedFrom = IF Passed(t) = 0 THEN -1 ELSE back
  BY DEF OnWay
<1>5. CASE Passed(t) # 0
  <2>1. t.passedFrom = back /\ back # -1
    BY <1>2, <1>3, <1>4, <1>5
  <2>2. Ring!PassTo(p, t) = FirstFrom({on}, back, 6)
    BY <1>3, <2>1, RingBodies DEF Ring!PassTo
  <2> QED
    BY <1>2, <2>2, ScanOne
<1>6. CASE Passed(t) = 0
  <2>1. p = 0 /\ t.passedFrom = -1
    <3>1. p = (v * 0) % Ring!RingSize
      BY <1>6 DEF OnWay
    <3>2. v * 0 = 0 /\ Rounds(Ring!RingSize, 0, 0)
      BY <1>1, RingSizeIs DEF Rounds
    <3>3. 0 % Ring!RingSize = 0
      BY <3>2, RingSizeIs, RemainderIs
    <3> QED
      BY <1>4, <1>6, <3>1, <3>2, <3>3
  <2>2. FirstFrom(Ring!NbrLabels(p), 0, 6) = LabelTo(p, Onward(p, FirstWay))
    BY <2>1, FirstWayIs
  <2>3. CASE t.color = "Red"
    <3>1. Ring!PassTo(p, t) = FirstFrom(Ring!NbrLabels(p), 0, 6)
      BY <2>1, <2>3, RingBodies DEF Ring!PassTo
    <3> QED
      BY <2>2, <2>3, <3>1 DEF Way
  <2>4. CASE t.color # "Red"
    <3>1. - v = FirstWay
      BY <1>1, <2>4, FirstWayIs DEF Way
    <3>2. FirstFrom(Ring!NbrLabels(p), 0, 6) = back
      BY <2>2, <3>1
    <3> HIDE DEF on, back
    <3>3. Ring!PassTo(p, t) = FirstFrom({on}, 0, 6)
      BY <1>3, <2>1, <2>4, <3>2, RingBodies DEF Ring!PassTo
    <3> QED
      BY <1>2, <3>3, ScanOne DEF Dir, on
  <2> QED
    BY <2>3, <2>4
<1> QED
  BY <1>5, <1>6

\* And it is told where from.
LEMMA PassedFromIs ==
  ASSUME Ring!RingAssumption, RingStands, NEW p \in particles, NEW v \in {1, -1},
         NEW q, q = Onward(p, v)
  PROVE  Ring!PassedFrom(p, q) = LabelTo(q, p) /\ LabelTo(q, p) \in Dir
<1>1. q \in particles /\ p = Onward(q, - v) /\ - v \in {1, -1}
  BY RingPorts, OnwardBack
<1>2. /\ LabelTo(q, p) \in Dir
      /\ \A l \in Dir : NbrNode(body[q], l) = body[p].head <=> l = LabelTo(q, p)
  BY <1>1, LabelToIs
<1>3. \A l : Ring!PointsAtMe(body[p], body[q], l) <=> NbrNode(body[q], l) = body[p].head
  BY RingBodies, RingPorts DEF Ring!PointsAtMe, Ring!PointsAtMyHead
<1>4. {l \in Ring!Dir : Ring!PointsAtMe(body[p], body[q], l)} = {LabelTo(q, p)}
  BY <1>2, <1>3, RingBodies
<1>5. 0 \in Dir
  BY DEF Dir
<1>6. Ring!PassedFrom(p, q) = FirstFrom({LabelTo(q, p)}, 0, 6)
  BY <1>4, RingBodies DEF Ring!PassedFrom
<1> QED
  BY <1>2, <1>5, <1>6, ScanOne

\* Tokens of one colour are different and follow on one another by their ids.
InLine(s, p, i, t, q, j) ==
  s.color = t.color =>
    /\ s.id = t.id => p = q /\ i = j
    /\ s.id < t.id =>
         \/ s.lifetime < t.lifetime
         \/ s.lifetime = t.lifetime /\ p = q /\ i < j

TokenInv ==
  /\ RingStands
  /\ tokens \in [particles -> Seq(Ring!Token)]
  /\ \A p \in particles : \A i \in DOMAIN tokens[p] : OnWay(p, tokens[p][i])
  /\ \A p, q \in particles : \A i \in DOMAIN tokens[p], j \in DOMAIN tokens[q] :
       InLine(tokens[p][i], p, i, tokens[q][j], q, j)

\* The first particle starts with all tokens.
LEMMA RingInitInv ==
  ASSUME Ring!RingAssumption, Ring!Init
  PROVE  TokenInv
<1> DEFINE N == Ring!RingSize
           T == TokensPerColor
           new(i) == Ring!NewToken(IF i % 2 = 1 THEN "Red" ELSE "Blue", (i + 1) \div 2)
           all == [i \in 1 .. 2 * T |-> new(i)]
<1>1. N \in Nat /\ N > 5 /\ T \in Nat /\ Lifetime \in Nat
  BY RingSizeIs DEF Ring!RingAssumption
<1>2. RingStands /\ particles = 0 .. N - 1
  <2>1. PICK compass \in RingCompasses :
          body = [p \in 0 .. N - 1 |->
                   [head |-> Ring!hexNode[p], globalTailDir |-> -1, orientation |-> compass[p]]]
    BY DEF Ring!Init
  <2>2. \A p \in 0 .. N - 1 : compass[p] \in Dir
    BY RingBodies DEF Ring!RingAssumption
  <2>3. \A p \in 0 .. N - 1 :
          Ring!hexNode[p] = HexagonNode(RingSide, p) /\ HexagonNode(RingSide, p) \in Node
    BY RingNodes, HexagonMeets, RingSizeIs
  <2> QED
    BY <2>1, <2>2, <2>3 DEF RingStands, particles, Body, IsContracted
<1>3. tokens = [p \in 0 .. N - 1 |-> IF p = 0 THEN all ELSE << >>]
  BY DEF Ring!Init
<1>4. \A i \in 1 .. 2 * T :
        /\ new(i) \in Ring!Token
        /\ new(i).lifetime = Lifetime /\ new(i).passedFrom = -1
        /\ new(i).id = (i + 1) \div 2 /\ (new(i).color = "Red" <=> i % 2 = 1)
  BY <1>1 DEF Ring!NewToken, Ring!Token
<1> HIDE DEF new
<1>5. all \in Seq(Ring!Token) /\ DOMAIN all = 1 .. 2 * T /\ \A i \in 1 .. 2 * T : all[i] = new(i)
  BY <1>1, <1>4
<1> HIDE DEF all
<1>6. tokens \in [particles -> Seq(Ring!Token)]
  BY <1>2, <1>3, <1>5
<1>7. \A p \in particles : \A i \in DOMAIN tokens[p] :
        p = 0 /\ i \in 1 .. 2 * T /\ tokens[p][i] = new(i)
  BY <1>2, <1>3, <1>5
<1>8. \A i \in 1 .. 2 * T : OnWay(0, new(i))
  <2> TAKE i \in 1 .. 2 * T
  <2>1. Passed(new(i)) = 0 /\ new(i).passedFrom = -1
    BY <1>1, <1>4 DEF Passed
  <2>2. Way(new(i).color) * 0 = 0
    BY <1>2, WayIs
  <2>3. 0 % N = 0
    <3>1. Rounds(N, 0, 0)
      BY <1>1 DEF Rounds
    <3> QED
      BY <1>1, <3>1, RemainderIs
  <2> QED
    BY <2>1, <2>2, <2>3 DEF OnWay
<1>9. \A i, j \in 1 .. 2 * T : InLine(new(i), 0, i, new(j), 0, j)
  <2> TAKE i, j \in 1 .. 2 * T
  <2>1. (i % 2 = 1 <=> j % 2 = 1) =>
          /\ (i + 1) \div 2 = (j + 1) \div 2 => i = j
          /\ (i + 1) \div 2 < (j + 1) \div 2 => i < j
    BY <1>1
  <2> QED
    BY <1>4, <2>1 DEF InLine
<1> QED
  BY <1>2, <1>6, <1>7, <1>8, <1>9 DEF TokenInv

\* What an activation does: the first token goes on, if it has life left.
OneOlder(h, p, q) == [h EXCEPT !.passedFrom = LabelTo(q, p), !.lifetime = @ - 1]
\* So the token comes to the next particle on its way.
LEMMA RingDeeds ==
  ASSUME Ring!RingAssumption, TokenInv, NEW p \in particles, Ring!Activate(p),
         NEW h, h = tokens[p][1], NEW q, q = Onward(p, Way(h.color))
  PROVE  /\ body' = body /\ q \in particles /\ q # p
         /\ h \in Ring!Token /\ 1 \in DOMAIN tokens[p] /\ LabelTo(q, p) \in Dir
         /\ tokens' = IF h.lifetime > 0
                      THEN [tokens EXCEPT ![p] = Tail(@), ![q] = Append(@, OneOlder(h, p, q))]
                      ELSE [tokens EXCEPT ![p] = Tail(@)]
<1>1. tokens[p] \in Seq(Ring!Token) /\ tokens[p] # << >>
  BY DEF TokenInv, Ring!Activate, Ring!HasToken
<1>2. 1 \in DOMAIN tokens[p] /\ Head(tokens[p]) = h /\ h \in Ring!Token
  BY <1>1
<1>3. RingStands /\ OnWay(p, h) /\ Way(h.color) \in {1, -1}
  BY <1>2, WayIs DEF TokenInv
<1>4. q \in particles /\ q # p
  BY <1>3, OnwardBack, RingPorts
<1>5. Ring!PassTo(p, h) = LabelTo(p, q)
  BY <1>2, <1>3, PassToIs
<1>6. Ring!NbrAtLabel(p, LabelTo(p, q)) = q
  BY <1>3, RingNbrs
<1>7. Ring!PassedFrom(p, q) = LabelTo(q, p) /\ LabelTo(q, p) \in Dir
  BY <1>3, PassedFromIs
<1>8. /\ body' = body
      /\ tokens' = IF Ring!HasLife(h)
                   THEN [tokens EXCEPT
                          ![p] = Tail(@),
                          ![q] = Ring!PutToken(@, [h EXCEPT !.passedFrom = Ring!PassedFrom(p, q),
                                                            !.lifetime = @ - 1])]
                   ELSE [tokens EXCEPT ![p] = Tail(@)]
  BY <1>2, <1>5, <1>6 DEF Ring!Activate
<1> QED
  BY <1>2, <1>4, <1>7, <1>8 DEF Ring!HasLife, Ring!PutToken, OneOlder

\* The tokens of afterwards: those that stayed, one place ahead where the first
\* was taken, and the one that came, behind all others.
Stayed(p, r, i) ==
  LET j == IF r = p THEN i + 1 ELSE i
  IN  j \in DOMAIN tokens[r] /\ tokens'[r][i] = tokens[r][j]
Came(h, x, q, r, i) ==
  h.lifetime > 0 /\ r = q /\ i = Len(tokens[q]) + 1 /\ tokens'[r][i] = x

\* There are no others, when the first token of p goes to q or is dropped.
LEMMA RingSources ==
  ASSUME NEW Token, tokens \in [particles -> Seq(Token)],
         NEW p \in particles, NEW q \in particles, q # p, 1 \in DOMAIN tokens[p],
         NEW x \in Token, NEW h,
         tokens' = IF h.lifetime > 0
                   THEN [tokens EXCEPT ![p] = Tail(@), ![q] = Append(@, x)]
                   ELSE [tokens EXCEPT ![p] = Tail(@)]
  PROVE  /\ tokens' \in [particles -> Seq(Token)]
         /\ \A r \in particles : \A i \in DOMAIN tokens'[r] :
              i \in Nat \ {0} /\ (Stayed(p, r, i) \/ Came(h, x, q, r, i))
<1> DEFINE a == Tail(tokens[p])
           b == Append(tokens[q], x)
<1>1. /\ tokens[p] \in Seq(Token) /\ tokens[q] \in Seq(Token) /\ tokens[p] # << >>
      /\ \A r \in particles : tokens[r] \in Seq(Token)
  OBVIOUS
<1>2. /\ a \in Seq(Token) /\ DOMAIN a = 1 .. Len(tokens[p]) - 1 /\ Len(tokens[p]) \in Nat
      /\ \A i \in DOMAIN a : a[i] = tokens[p][i + 1] /\ i + 1 \in DOMAIN tokens[p]
  BY <1>1
<1>3. /\ b \in Seq(Token) /\ DOMAIN b = 1 .. Len(tokens[q]) + 1 /\ Len(tokens[q]) \in Nat
      /\ DOMAIN tokens[q] = 1 .. Len(tokens[q])
      /\ \A i \in DOMAIN tokens[q] : b[i] = tokens[q][i]
      /\ b[Len(tokens[q]) + 1] = x
  BY <1>1
<1>4. \A r \in particles : DOMAIN tokens[r] \subseteq Nat \ {0}
  BY <1>1
<1> HIDE DEF a, b
<1>5. CASE h.lifetime > 0
  <2>1. /\ tokens'[p] = a /\ tokens'[q] = b
        /\ \A r \in particles : r # p /\ r # q => tokens'[r] = tokens[r]
        /\ DOMAIN tokens' = particles
    BY <1>5 DEF a, b
  <2>2. tokens' \in [particles -> Seq(Token)]
    BY <1>2, <1>3, <1>5 DEF a, b
  <2>3. ASSUME NEW r \in particles, NEW i \in DOMAIN tokens'[r]
        PROVE  i \in Nat \ {0} /\ (Stayed(p, r, i) \/ Came(h, x, q, r, i))
    <3>1. CASE r = p
      BY <1>2, <2>1, <2>3, <3>1 DEF Stayed
    <3>2. CASE r = q
      BY <1>3, <1>5, <2>1, <2>3, <3>2 DEF Stayed, Came
    <3>3. CASE r # p /\ r # q
      BY <1>4, <2>1, <2>3, <3>3 DEF Stayed
    <3> QED
      BY <3>1, <3>2, <3>3
  <2> QED
    BY <2>2, <2>3
<1>6. CASE ~ (h.lifetime > 0)
  <2>1. /\ tokens'[p] = a
        /\ \A r \in particles : r # p => tokens'[r] = tokens[r]
    BY <1>6 DEF a
  <2>2. tokens' \in [particles -> Seq(Token)]
    BY <1>2, <1>6 DEF a
  <2>3. ASSUME NEW r \in particles, NEW i \in DOMAIN tokens'[r]
        PROVE  i \in Nat \ {0} /\ Stayed(p, r, i)
    <3>1. CASE r = p
      BY <1>2, <2>1, <2>3, <3>1 DEF Stayed
    <3>2. CASE r # p
      BY <1>4, <2>1, <2>3, <3>2 DEF Stayed
    <3> QED
      BY <3>1, <3>2
  <2> QED
    BY <2>2, <2>3
<1> QED
  BY <1>5, <1>6

\* Ways and labels depend on the bodies alone.
LEMMA RingFixed ==
  ASSUME body' = body
  PROVE  /\ particles' = particles /\ RingStands' = RingStands
         /\ \A p, q : LabelTo(p, q)' = LabelTo(p, q)
         /\ \A p, t : OnWay(p, t)' = OnWay(p, t)
<1>1. particles' = particles /\ RingStands' = RingStands
  BY DEF particles, RingStands
<1>2. \A p, q : LabelTo(p, q)' = LabelTo(p, q)
  BY DEF LabelTo
<1>3. FirstWay' = FirstWay
  BY DEF FirstWay, Ring!NbrAtLabel, Ring!ParticleAt, Ring!NbrLabels, Ring!HasNbrAtLabel,
         Ring!Occupied, Ring!particles
<1>4. \A color : Way(color)' = Way(color)
  BY <1>3 DEF Way
<1> QED
  BY <1>1, <1>2, <1>4 DEF OnWay

\* Passed on, a token is on its way still.
LEMMA RingPassed ==
  ASSUME Ring!RingAssumption, RingStands, NEW p \in particles, NEW h \in Ring!Token, OnWay(p, h),
         h.lifetime > 0, NEW q, q = Onward(p, Way(h.color)), LabelTo(q, p) \in Dir,
         NEW x, x = OneOlder(h, p, q)
  PROVE  /\ OnWay(q, x)
         /\ x \in Ring!Token /\ x.color = h.color /\ x.id = h.id /\ x.lifetime = h.lifetime - 1
<1> DEFINE v == Way(h.color)
           N == Ring!RingSize
<1>1. v \in {1, -1} /\ Lifetime \in Nat /\ N \in Nat /\ N > 5
  BY WayIs, RingSizeIs DEF Ring!RingAssumption
<1>2. /\ x.color = h.color /\ x.id = h.id /\ x.lifetime = h.lifetime - 1
      /\ x.passedFrom = LabelTo(q, p)
      /\ x = [color |-> x.color, id |-> x.id, passedFrom |-> x.passedFrom, lifetime |-> x.lifetime]
  BY DEF OneOlder, Ring!Token
<1>3. h.lifetime \in 1 .. Lifetime /\ h.color \in {"Red", "Blue"} /\ h.id \in 1 .. TokensPerColor
  BY <1>1 DEF Ring!Token
<1>4. x \in Ring!Token
  BY <1>1, <1>2, <1>3, RingBodies DEF Ring!Token
<1>5. Passed(x) = Passed(h) + 1 /\ Passed(h) \in Nat
  BY <1>1, <1>2, <1>3 DEF Passed
<1>6. q = (v * Passed(x)) % N
  BY <1>1, <1>5, AlongStep DEF OnWay, Onward
<1>7. Onward(q, - v) = p
  BY <1>1, OnwardBack, RingPorts
<1> QED
  BY <1>2, <1>4, <1>5, <1>6, <1>7 DEF OnWay

\* Tokens that stay are in line as they were.
LEMMA RingBehind ==
  ASSUME TokenInv, NEW p \in particles,
         NEW r \in particles, NEW i \in Nat \ {0}, Stayed(p, r, i),
         NEW u \in particles, NEW j \in Nat \ {0}, Stayed(p, u, j)
  PROVE  InLine(tokens'[r][i], r, i, tokens'[u][j], u, j)
<1> DEFINE k == IF r = p THEN i + 1 ELSE i
           m == IF u = p THEN j + 1 ELSE j
           s == tokens[r][k]
           t == tokens[u][m]
<1>1. /\ k \in DOMAIN tokens[r] /\ tokens'[r][i] = s
      /\ m \in DOMAIN tokens[u] /\ tokens'[u][j] = t
  BY DEF Stayed
<1>2. InLine(s, r, k, t, u, m)
  BY <1>1 DEF TokenInv
<1>3. r = u => (k = m <=> i = j) /\ (k < m <=> i < j)
  OBVIOUS
<1> QED
  BY <1>1, <1>2, <1>3 DEF InLine

\* Two places in the line afterwards, by where their tokens were.
LEMMA RingLine ==
  ASSUME Ring!RingAssumption, TokenInv, NEW p \in particles, NEW q \in particles, q # p,
         NEW h, h = tokens[p][1], 1 \in DOMAIN tokens[p], h \in Ring!Token,
         NEW x \in Ring!Token, OnWay(q, x), x.color = h.color, x.id = h.id, x.lifetime = h.lifetime - 1,
         NEW r \in particles, NEW i \in Nat \ {0}, Stayed(p, r, i) \/ Came(h, x, q, r, i),
         NEW u \in particles, NEW j \in Nat \ {0}, Stayed(p, u, j) \/ Came(h, x, q, u, j)
  PROVE  InLine(tokens'[r][i], r, i, tokens'[u][j], u, j)
<1> DEFINE k == IF r = p THEN i + 1 ELSE i
           m == IF u = p THEN j + 1 ELSE j
           s == tokens[r][k]
           t == tokens[u][m]
<1>0. \A a, b \in particles : \A c \in DOMAIN tokens[a], d \in DOMAIN tokens[b] :
        InLine(tokens[a][c], a, c, tokens[b][d], b, d)
  BY DEF TokenInv
<1>1. \A a \in particles : \A c \in DOMAIN tokens[a] :
        /\ tokens[a][c] \in Ring!Token /\ OnWay(a, tokens[a][c])
        /\ c \in 1 .. Len(tokens[a]) /\ Len(tokens[a]) \in Nat
  BY DEF TokenInv
<1>2. \A t1 \in Ring!Token : t1.lifetime \in Int /\ t1.id \in Int
  BY DEF Ring!Token, Ring!RingAssumption
<1>3. CASE Stayed(p, r, i) /\ Stayed(p, u, j)
  BY <1>3, RingBehind
<1>4. CASE Came(h, x, q, r, i) /\ Came(h, x, q, u, j)
  BY <1>2, <1>4 DEF Came, InLine
<1>5. CASE Came(h, x, q, r, i) /\ Stayed(p, u, j)
  <2>1. /\ tokens'[r][i] = x /\ m \in DOMAIN tokens[u] /\ tokens'[u][j] = t
    BY <1>5 DEF Stayed, Came
  <2>2. InLine(h, p, 1, t, u, m) /\ InLine(t, u, m, h, p, 1)
    BY <1>0, <2>1
  <2>3. ~ (u = p /\ m = 1)
    OBVIOUS
  <2>4. t \in Ring!Token
    BY <1>1, <2>1
  <2> QED
    BY <1>2, <2>1, <2>2, <2>3, <2>4 DEF InLine
<1>6. CASE Stayed(p, r, i) /\ Came(h, x, q, u, j)
  <2>1. /\ tokens'[u][j] = x /\ k \in DOMAIN tokens[r] /\ tokens'[r][i] = s
        /\ u = q /\ j = Len(tokens[q]) + 1
    BY <1>6 DEF Stayed, Came
  <2>2. InLine(h, p, 1, s, r, k) /\ InLine(s, r, k, h, p, 1)
    BY <1>0, <2>1
  <2>3. ~ (r = p /\ k = 1)
    OBVIOUS
  <2>4. s \in Ring!Token /\ OnWay(r, s) /\ k \in 1 .. Len(tokens[r]) /\ Len(tokens[r]) \in Nat
    BY <1>1, <2>1
  <2>5. s.color = x.color /\ s.lifetime = x.lifetime => r = q
    BY <2>4 DEF OnWay, Passed, Way
  <2>6. r = q => k = i /\ i < j
    BY <2>1, <2>4
  <2> HIDE DEF s, k, m, t
  <2>7. ASSUME s.color = x.color
        PROVE  s.id # x.id /\ (s.id < x.id => s.lifetime < h.lifetime)
    BY <2>2, <2>3, <2>4, <2>7 DEF InLine
  <2>8. s.lifetime \in Int /\ h.lifetime \in Int
    BY <1>2, <2>4
  <2> QED
    BY <2>1, <2>5, <2>6, <2>7, <2>8 DEF InLine
<1> QED
  BY <1>3, <1>4, <1>5, <1>6

\* An activation keeps the tokens on their ways and in line.
LEMMA RingStepInv ==
  ASSUME Ring!RingAssumption, TokenInv, NEW p \in particles, Ring!Activate(p)
  PROVE  TokenInv'
<1> DEFINE h == tokens[p][1]
           q == Onward(p, Way(h.color))
           x == OneOlder(h, p, q)
<1>1. /\ body' = body /\ q \in particles /\ q # p
      /\ h \in Ring!Token /\ 1 \in DOMAIN tokens[p] /\ LabelTo(q, p) \in Dir
      /\ tokens' = IF h.lifetime > 0
                   THEN [tokens EXCEPT ![p] = Tail(@), ![q] = Append(@, OneOlder(h, p, q))]
                   ELSE [tokens EXCEPT ![p] = Tail(@)]
  BY RingDeeds
<1>2. /\ RingStands /\ tokens \in [particles -> Seq(Ring!Token)] /\ OnWay(p, h)
      /\ \A r \in particles : \A i \in DOMAIN tokens[r] : OnWay(r, tokens[r][i])
  BY <1>1 DEF TokenInv
<1>3. /\ particles' = particles /\ RingStands' = RingStands
      /\ \A r, t : OnWay(r, t)' = OnWay(r, t)
  BY <1>1, RingFixed
<1> HIDE DEF h, q
<1>4. h.lifetime > 0 =>
        /\ OnWay(q, x) /\ x \in Ring!Token
        /\ x.color = h.color /\ x.id = h.id /\ x.lifetime = h.lifetime - 1
  BY <1>1, <1>2, RingPassed DEF q
<1> HIDE DEF x
<1>5. PICK y \in Ring!Token :
        h.lifetime > 0 => /\ y = x /\ OnWay(q, y)
                          /\ y.color = h.color /\ y.id = h.id /\ y.lifetime = h.lifetime - 1
  BY <1>1, <1>4
<1>6. tokens' = IF h.lifetime > 0
                THEN [tokens EXCEPT ![p] = Tail(@), ![q] = Append(@, y)]
                ELSE [tokens EXCEPT ![p] = Tail(@)]
  BY <1>1, <1>5 DEF x
<1>7. /\ tokens' \in [particles -> Seq(Ring!Token)]
      /\ \A r \in particles : \A i \in DOMAIN tokens'[r] :
           i \in Nat \ {0} /\ (Stayed(p, r, i) \/ Came(h, y, q, r, i))
  BY <1>1, <1>2, <1>6, RingSources
<1>8. ASSUME NEW r \in particles, NEW i \in DOMAIN tokens'[r]
      PROVE  OnWay(r, tokens'[r][i])
  <2>1. CASE Stayed(p, r, i)
    <3> DEFINE j == IF r = p THEN i + 1 ELSE i
    <3>1. j \in DOMAIN tokens[r] /\ tokens'[r][i] = tokens[r][j]
      BY <2>1 DEF Stayed
    <3> HIDE DEF j
    <3> QED
      BY <1>2, <3>1
  <2>2. CASE Came(h, y, q, r, i)
    BY <1>5, <2>2 DEF Came
  <2> QED
    BY <1>7, <1>8, <2>1, <2>2
<1>9. ASSUME NEW r \in particles, NEW u \in particles,
             NEW i \in DOMAIN tokens'[r], NEW j \in DOMAIN tokens'[u]
      PROVE  InLine(tokens'[r][i], r, i, tokens'[u][j], u, j)
  <2>1. CASE h.lifetime > 0
    <3>1. /\ i \in Nat \ {0} /\ (Stayed(p, r, i) \/ Came(h, y, q, r, i))
          /\ j \in Nat \ {0} /\ (Stayed(p, u, j) \/ Came(h, y, q, u, j))
      BY <1>7, <1>9
    <3>2. /\ OnWay(q, y) /\ y.color = h.color /\ y.id = h.id /\ y.lifetime = h.lifetime - 1
      BY <1>5, <2>1
    <3> QED
      BY <1>1, <3>1, <3>2, RingLine DEF h
  <2>2. CASE ~ (h.lifetime > 0)
    <3>1. i \in Nat \ {0} /\ Stayed(p, r, i) /\ j \in Nat \ {0} /\ Stayed(p, u, j)
      BY <1>7, <1>9, <2>2 DEF Came
    <3> QED
      BY <3>1, RingBehind
  <2> QED
    BY <2>1, <2>2
<1>10. RingStands' /\ tokens' \in [particles' -> Seq(Ring!Token')]
  BY <1>2, <1>3, <1>7 DEF Ring!Token
<1>11. \A r \in particles' : \A i \in DOMAIN tokens'[r] : OnWay(r, tokens[r][i])'
  BY <1>3, <1>8
<1> QED
  BY <1>3, <1>9, <1>10, <1>11 DEF TokenInv

\* The two colours go round in opposite ways, each in order.
LEMMA RingHolds ==
  ASSUME Ring!RingAssumption, TokenInv
  PROVE  Ring!TypeOK /\ Ring!Orderly
<1>1. Ring!TypeOK
  BY RingBodies DEF TokenInv, RingStands, particles, Ring!TypeOK
<1>2. Ring!OppositeWays
  <2>1. /\ FirstWay \in {1, -1}
        /\ \A n \in Int : FirstWay * n \in Int /\ (- FirstWay) * n = - FirstWay * n
    BY FirstWayIs DEF TokenInv
  <2>2. \A p \in particles : \A i \in DOMAIN tokens[p] :
          p = (Way(tokens[p][i].color) * (Lifetime - tokens[p][i].lifetime)) % Ring!RingSize
    BY DEF TokenInv, OnWay, Passed
  <2>3. \A p \in particles : \A i \in DOMAIN tokens[p] :
          /\ Lifetime - tokens[p][i].lifetime \in Int
          /\ tokens[p][i].color \in {"Red", "Blue"}
    <3>1. \A t \in Ring!Token : Lifetime - t.lifetime \in Int /\ t.color \in {"Red", "Blue"}
      BY DEF Ring!Token, Ring!RingAssumption
    <3>2. \A p \in particles : \A i \in DOMAIN tokens[p] : tokens[p][i] \in Ring!Token
      BY DEF TokenInv
    <3> QED
      BY <3>1, <3>2
  <2>4. ASSUME NEW p \in particles, NEW i \in DOMAIN tokens[p]
        PROVE  p = (IF tokens[p][i].color = "Red"
                    THEN FirstWay * (Lifetime - tokens[p][i].lifetime)
                    ELSE - FirstWay * (Lifetime - tokens[p][i].lifetime)) % Ring!RingSize
    <3>1. CASE tokens[p][i].color = "Red"
      <4>1. Way(tokens[p][i].color) = FirstWay
        BY <3>1 DEF Way
      <4> QED
        BY <2>2, <3>1, <4>1
    <3>2. CASE tokens[p][i].color # "Red"
      <4>1. Way(tokens[p][i].color) = - FirstWay
        BY <3>2 DEF Way
      <4> QED
        BY <2>1, <2>2, <2>3, <3>2, <4>1
    <3> QED
      BY <3>1, <3>2
  <2> QED
    BY <2>1, <2>4, RingBodies DEF Ring!OppositeWays
<1>3. Ring!NoOvertaking
  <2> SUFFICES ASSUME NEW color \in {"Red", "Blue"},
                      NEW s \in Ring!Alive(color), NEW t \in Ring!Alive(color), s.id < t.id
               PROVE  \/ s.lifetime < t.lifetime
                      \/ /\ s.lifetime = t.lifetime
                         /\ \E p \in particles : \E i, j \in DOMAIN tokens[p] :
                              i < j /\ tokens[p][i] = s /\ tokens[p][j] = t
    BY RingBodies DEF Ring!NoOvertaking
  <2>1. PICK p \in particles : \E i \in DOMAIN tokens[p] : tokens[p][i] = s
    BY RingBodies DEF Ring!Alive
  <2>2. PICK i \in DOMAIN tokens[p] : tokens[p][i] = s
    BY <2>1
  <2>3. PICK q \in particles : \E j \in DOMAIN tokens[q] : tokens[q][j] = t
    BY RingBodies DEF Ring!Alive
  <2>4. PICK j \in DOMAIN tokens[q] : tokens[q][j] = t
    BY <2>3
  <2>5. InLine(s, p, i, t, q, j) /\ s.color = t.color
    BY <2>2, <2>4 DEF TokenInv, Ring!Alive
  <2> QED
    BY <2>2, <2>4, <2>5 DEF InLine
<1> QED
  BY <1>1, <1>2, <1>3 DEF Ring!Orderly

\* Counting is counting.
LEMMA RingCounts == \A S : Ring!Cardinality(S) = Cardinality(S)
  BY DEF Ring!Cardinality, Cardinality

\* While they live there is one of each.
LEMMA RingKeeps ==
  ASSUME Ring!RingAssumption, TokenInv, NEW p \in particles, Ring!Activate(p)
  PROVE  Ring!KeepsTokens
<1> SUFFICES ASSUME NEW color \in {"Red", "Blue"}, NEW t \in Ring!Alive(color)
             PROVE  /\ Ring!Cardinality(Ring!Holding(t)) = 1
                    /\ t.lifetime > 0 => \E u \in Ring!Alive(color)' : u.id = t.id
  BY DEF Ring!KeepsTokens
<1>1. PICK r \in particles : t.color = color /\ \E i \in DOMAIN tokens[r] : tokens[r][i] = t
  BY RingBodies DEF Ring!Alive
<1>2. PICK i \in DOMAIN tokens[r] : tokens[r][i] = t
  BY <1>1
<1>3. Ring!Cardinality(Ring!Holding(t)) = 1
  <2>1. ASSUME NEW q \in particles, NEW j \in DOMAIN tokens[q], tokens[q][j] = t
        PROVE  q = r
    BY <1>2, <2>1 DEF TokenInv, InLine
  <2>2. Ring!Holding(t) = {r}
    BY <1>2, <2>1, RingBodies DEF Ring!Holding
  <2> QED
    BY <2>2, RingCounts, FS_Singleton
<1>4. ASSUME t.lifetime > 0 PROVE \E u \in Ring!Alive(color)' : u.id = t.id
  <2> DEFINE h == tokens[p][1]
             q == Onward(p, Way(h.color))
             x == OneOlder(h, p, q)
  <2>1. /\ body' = body /\ q \in particles /\ q # p
        /\ h \in Ring!Token /\ 1 \in DOMAIN tokens[p] /\ LabelTo(q, p) \in Dir
        /\ tokens' = IF h.lifetime > 0
                     THEN [tokens EXCEPT ![p] = Tail(@), ![q] = Append(@, x)]
                     ELSE [tokens EXCEPT ![p] = Tail(@)]
    BY RingDeeds
  <2>2. /\ RingStands /\ tokens \in [particles -> Seq(Ring!Token)] /\ OnWay(p, h)
    BY <2>1 DEF TokenInv
  <2>3. particles' = particles
    BY <2>1, RingFixed
  <2> HIDE DEF h, q
  <2>4. h.lifetime > 0 => x \in Ring!Token /\ x.color = h.color /\ x.id = h.id
    BY <2>1, <2>2, RingPassed DEF q
  <2> HIDE DEF x
  <2>5. PICK y \in Ring!Token : h.lifetime > 0 => y = x /\ y.color = h.color /\ y.id = h.id
    BY <2>1, <2>4
  <2>6. tokens' = IF h.lifetime > 0
                  THEN [tokens EXCEPT ![p] = Tail(@), ![q] = Append(@, y)]
                  ELSE [tokens EXCEPT ![p] = Tail(@)]
    BY <2>1, <2>5
  <2>7. SUFFICES \E s \in particles : \E k \in DOMAIN tokens'[s] :
                   tokens'[s][k].color = color /\ tokens'[s][k].id = t.id
    BY <2>3, RingBodies DEF Ring!Alive, particles, Ring!particles
  <2>8. CASE r = p /\ i = 1
    <3>1. h = t /\ h.lifetime > 0
      BY <1>2, <1>4, <2>8 DEF h
    <3>2. tokens'[q] = Append(tokens[q], y) /\ tokens[q] \in Seq(Ring!Token)
      BY <2>1, <2>2, <2>6, <3>1
    <3>3. Len(tokens[q]) + 1 \in DOMAIN tokens'[q] /\ tokens'[q][Len(tokens[q]) + 1] = y
      BY <3>2
    <3> QED
      BY <1>1, <2>1, <2>5, <3>1, <3>3
  <2>9. CASE r = p /\ i # 1
    <3>1. tokens'[p] = Tail(tokens[p]) /\ tokens[p] \in Seq(Ring!Token) /\ tokens[p] # << >>
      BY <2>1, <2>2, <2>6
    <3>2. i - 1 \in DOMAIN tokens'[p] /\ tokens'[p][i - 1] = t
      BY <1>2, <2>9, <3>1
    <3> QED
      BY <1>1, <3>2
  <2>10. CASE r # p
    <3>1. tokens[r] \in Seq(Ring!Token) /\ (tokens'[r] = tokens[r] \/ tokens'[r] = Append(tokens[r], y))
      BY <2>1, <2>2, <2>6, <2>10
    <3>2. i \in DOMAIN tokens'[r] /\ tokens'[r][i] = t
      BY <1>2, <3>1
    <3> QED
      BY <1>1, <3>2
  <2> QED
    BY <2>8, <2>9, <2>10
<1> QED
  BY <1>3, <1>4

\* Whatever happens next, the invariant stays and the tokens are kept.
LEMMA RingNextInv ==
  ASSUME Ring!RingAssumption, TokenInv, [Ring!Next]_(Ring!vars)
  PROVE  TokenInv' /\ [Ring!KeepsTokens]_(Ring!vars)
<1>1. CASE Ring!Next
  <2>1. PICK p \in particles : Ring!Activate(p)
    BY <1>1, RingBodies DEF Ring!Next
  <2> QED
    BY <2>1, RingStepInv, RingKeeps
<1>2. CASE UNCHANGED Ring!vars
  <2>1. body' = body /\ tokens' = tokens
    BY <1>2 DEF Ring!vars
  <2>2. particles' = particles /\ RingStands' = RingStands /\ \A p, t : OnWay(p, t)' = OnWay(p, t)
    BY <2>1, RingFixed
  <2>3. \A p \in particles : \A i \in DOMAIN tokens[p] : OnWay(p, tokens[p][i])'
    BY <2>1, <2>2 DEF TokenInv
  <2>4. tokens' \in [particles' -> Seq(Ring!Token')] /\ RingStands'
    BY <2>1, <2>2 DEF TokenInv, Ring!Token
  <2>5. \A p, q \in particles : \A i \in DOMAIN tokens[p], j \in DOMAIN tokens[q] :
          InLine(tokens'[p][i], p, i, tokens'[q][j], q, j)
    BY <2>1 DEF TokenInv
  <2>6. \A p \in particles' : \A i \in DOMAIN tokens'[p] : OnWay(p, tokens[p][i])'
    BY <2>1, <2>2, <2>3
  <2>7. \A p, q \in particles' : \A i \in DOMAIN tokens'[p], j \in DOMAIN tokens'[q] :
          InLine(tokens[p][i], p, i, tokens[q][j], q, j)'
    BY <2>1, <2>2, <2>5
  <2>8. TokenInv'
    BY <2>4, <2>6, <2>7 DEF TokenInv
  <2> QED
    BY <1>2, <2>8
<1> QED
  BY <1>1, <1>2

\* For rings of any size, any number of tokens and any set of compass assignments,
\* such as all that randDir() can draw, red and blue tokens go round in opposite
\* ways, none overtakes another of its colour, and none is lost or doubled while it
\* has life left.
THEOREM TokensCorrect ==
  ASSUME Ring!RingAssumption
  PROVE  Ring!Init /\ [][Ring!Next]_(Ring!vars)
           => [](Ring!TypeOK /\ Ring!Orderly) /\ Ring!TokensKept
<1>1. Ring!Init => TokenInv
  BY RingInitInv
<1>2. TokenInv /\ [Ring!Next]_(Ring!vars) => TokenInv' /\ [Ring!KeepsTokens]_(Ring!vars)
  BY RingNextInv
<1>3. TokenInv => Ring!TypeOK /\ Ring!Orderly
  BY RingHolds
<1> QED
  BY <1>1, <1>2, <1>3, PTL DEF Ring!TokensKept

-----------------------------------------------------------------------------
(* The demos as the instance that starts as any of them                    *)

DemosInv ==
  /\ demo = "SinglePoint" => PointInv
  /\ demo = "TokenDemo" => TokenInv
  /\ demo = "HoleFiller" => FillerInv
  /\ demo = "BallroomDemo" => BallInv /\ BallWalled
  /\ demo \in {"DiscoDemo", "MetricsDemo"} => DiscoInv

\* Their invariants are those of the instance.
LEMMA DemosInvCorrect == MCSpec => []DemosInv
<1>1. /\ Point!ShapesAssumption /\ Ring!RingAssumption /\ Filler!StartsAssumption
      /\ BallAssumption /\ Disco!DiscoAssumption
  BY DemosAssumption
<1>2. MCInit => DemosInv
  BY <1>1, PointInitInv, RingInitInv, FillerInitInv, BallInitInv, BallInitWalled, DiscoInitInv DEF MCInit, DemosInv, Disco!MetricsInit
<1>3. DemosInv /\ [MCNext]_mcVars => DemosInv'
  <2> SUFFICES ASSUME DemosInv, [MCNext]_mcVars PROVE DemosInv'
    OBVIOUS
  <2>1. CASE PointStep
    <3>1. demo = "SinglePoint" /\ demo' = demo /\ Point!Next
      BY <2>1 DEF PointStep
    <3> QED
      BY <1>1, <3>1, PointStepInv DEF DemosInv
  <2>2. CASE RingStep
    <3>1. demo = "TokenDemo" /\ demo' = demo /\ Ring!Next
      BY <2>2 DEF RingStep
    <3> QED
      BY <1>1, <3>1, RingNextInv DEF DemosInv
  <2>7. CASE FillerStep
    <3>1. demo = "HoleFiller" /\ demo' = demo /\ Filler!Next
      BY <2>7 DEF FillerStep
    <3> QED
      BY <3>1, FillerStepInv DEF DemosInv
  <2>3. CASE BallStep
    <3>1. demo = "BallroomDemo" /\ demo' = demo /\ Next
      BY <2>3 DEF BallStep
    <3>2. BallInv' /\ BallWalled'
      BY <1>1, <3>1, BallStepInv, BallStepWalled DEF DemosInv, Next
    <3> QED
      BY <3>1, <3>2 DEF DemosInv
  <2>4. CASE DiscoStep
    <3>1. demo = "DiscoDemo" /\ demo' = demo /\ Disco!Next
      BY <2>4 DEF DiscoStep
    <3>2. PICK p \in particles : Disco!Activate(p)
      BY <3>1, DiscoBodies DEF Disco!Next
    <3>3. DiscoInv'
      BY <1>1, <3>1, <3>2, DiscoStepInv DEF DemosInv, Disco!Activate, Disco!Stay
    <3> QED
      BY <3>1, <3>3 DEF DemosInv
  <2>5. CASE BumpingStep
    <3>1. demo = "MetricsDemo" /\ demo' = demo /\ Disco!MetricsNext
      BY <2>5 DEF BumpingStep
    <3>2. PICK p \in particles : Disco!MetricsActivate(p)
      BY <3>1, DiscoBodies DEF Disco!MetricsNext
    <3>3. DiscoInv'
      BY <1>1, <3>1, <3>2, DiscoStepInv DEF DemosInv, Disco!MetricsActivate, Disco!Bump,
         Disco!StayByParticle
    <3> QED
      BY <3>1, <3>3 DEF DemosInv
  <2>6. CASE UNCHANGED mcVars
    <3>1. UNCHANGED <<vars, demo, state, pointAt, counter>>
      BY <2>6 DEF mcVars
    <3>2. particles' = particles /\ Occupied' = Occupied /\ objects' = objects
      BY <3>1 DEF vars, particles, Occupied
    <3>3. demo = "SinglePoint" => PointInv'
      <4>1. UNCHANGED Point!vars
        BY <3>1 DEF Point!vars
      <4> QED
        BY <1>1, <4>1, PointStepInv DEF DemosInv
    <3>4. demo = "BallroomDemo" => BallInv' /\ BallWalled'
      BY <1>1, <3>1, <3>2, BallStepInv DEF DemosInv, BallWalled, WallHolds
    <3>5. demo \in {"DiscoDemo", "MetricsDemo"} => DiscoInv'
      BY <3>1, <3>2 DEF DemosInv, DiscoInv, Disco!TypeOK, Disco!particles, vars
    <3>6. demo = "HoleFiller" => FillerInv'
      BY <3>1, <3>2 DEF DemosInv, FillerInv, Filled, Ground, vars
    <3>7. demo = "TokenDemo" => TokenInv'
      <4>1. UNCHANGED Ring!vars
        BY <2>6 DEF Ring!vars, mcVars, vars
      <4> QED
        BY <1>1, <4>1, RingNextInv DEF DemosInv
    <3> QED
      BY <3>1, <3>3, <3>4, <3>5, <3>6, <3>7 DEF DemosInv
  <2> QED
    BY <2>1, <2>2, <2>3, <2>4, <2>5, <2>6, <2>7 DEF MCNext
<1> QED
  BY <1>2, <1>3, PTL DEF MCSpec

\* From every finite connected shape the pointers of the particles that eroded
\* lead out of them (erode, activate): Shapes may be any set of such.
THEOREM PointersInDemos == MCSpec => []PointersLeadOut
<1>1. DemosInv => PointersLeadOut
  BY DEF DemosInv, PointInv, PointersLeadOut
<1> QED
  BY <1>1, DemosInvCorrect, PTL

\* Partners stay with each other, and nobody gets through a wall: for any number
\* of pairs and dancers, floors of any size and all compasses.
THEOREM DancersCorrect == MCSpec => []DancersStay
<1>1. BallAssumption
  BY DemosAssumption
<1>2. DemosInv => DancersStay
  BY <1>1, PartnersHeld, DiscoHolds DEF DemosInv, DancersStay, BallWalled
<1> QED
  BY <1>2, DemosInvCorrect, PTL

\* In the instance, too, the fillers hold together (HoleFiller's activate).
THEOREM FillersInDemos == MCSpec => []FillersHoldTogether
<1>1. DemosInv => FillersHoldTogether
  BY FillerHolds DEF DemosInv, FillersHoldTogether
<1> QED
  BY <1>1, DemosInvCorrect, PTL

\* In the instance, too, the tokens go round in order and are kept (TokenDemo's
\* activate).
THEOREM TokensInDemos == MCSpec => TokensGoRound
<1>1. Ring!RingAssumption
  BY DemosAssumption
<1>2. DemosInv => (demo = "TokenDemo" => Ring!TypeOK /\ Ring!Orderly)
  BY <1>1, RingHolds DEF DemosInv
<1>3. DemosInv /\ [MCNext]_mcVars => [demo = "TokenDemo" => Ring!KeepsTokens]_(Ring!vars)
  <2> SUFFICES ASSUME DemosInv, [MCNext]_mcVars, demo = "TokenDemo"
               PROVE  [Ring!KeepsTokens]_(Ring!vars)
    OBVIOUS
  <2>1. [Ring!Next]_(Ring!vars)
    BY DEF MCNext, PointStep, RingStep, FillerStep, BallStep, DiscoStep, BumpingStep,
           mcVars, vars, Ring!vars
  <2> QED
    BY <1>1, <2>1, RingNextInv DEF DemosInv
<1> QED
  BY <1>2, <1>3, DemosInvCorrect, PTL DEF MCSpec, TokensGoRound
=============================================================================
