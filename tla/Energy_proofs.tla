----------------------------- MODULE Energy_proofs -----------------------------
(***************************************************************************)
(* Proofs about MCEnergy and what it runs.  Hexagon formation: a hexagon   *)
(* grown in stages of a spiral, roots that walk along it, and followers    *)
(* that hang on them, give the inductive invariant HexInv, from which the  *)
(* full hexagon, the way of the walkers and the connected system follow.   *)
(* Under the energy distribution framework the actions are the same, and   *)
(* the trees that share energy stay a forest through every movement.       *)
(* Shape formation that is paid for takes the steps of shape formation,    *)
(* whose inductive invariant it therefore keeps; its own forest, and that  *)
(* of energy that is only shared, stand as well.                           *)
(***************************************************************************)
EXTENDS MCEnergy, Geometry_proofs, FiniteSetTheorems

-----------------------------------------------------------------------------
(* The invariant of hexagon formation                                      *)

\* The particles by what they do.
Followers == InState({"Follower"})
Roots     == InState({"Root"})
Active    == InState({"Seed", "Retired", "Root", "Follower"})

\* A root walks on round the hexagon: counter-clockwise of where it points, its
\* head is at the hexagon; an expanded one points straight ahead.
Ahead ==
  \A p \in Roots :
    /\ hexagonDir[p] \in Dir
    /\ IsContracted(body[p]) => Pointed(body[p], (hexagonDir[p] + 5) % 6) \in Hexagon
    /\ IsExpanded(body[p]) => /\ hexagonDir[p] = Opposite(TailDir(body[p]))
                              /\ Pointed(body[p], (hexagonDir[p] + 4) % 6) \in Hexagon

\* So each root is at the hexagon; and some step leads on from each node off it,
\* other than the one it is come by.
Beside      == \A p \in Roots : Nbrs(body[p].head) \cap Hexagon # {}
HexagonOpen == \A n \in Node \ Hexagon, e \in Dir : \E d \in Dir \ {e} : NodeInDir(n, d) \notin Hexagon

\* The node a particle's pointer leads to, and who is there.
Target(p) == Pointed(body[p], parentDir[p])
Up == [q \in particles |-> ParticleAt(Target(q))]

\* A follower's pointer leaves its body and leads to an active particle; nobody
\* else has one.
Led ==
  /\ \A q \in Followers : /\ parentDir[q] \in Dir /\ parentDir[q] # TailDir(body[q])
                          /\ \E r \in Active : Target(q) \in Nodes(body[r])
  /\ \A q \in particles \ Followers : parentDir[q] = -1

\* No pointers go round in a ring.
Rooted == ForestOf(Followers, Up)

\* The hexagon grows from one seed, in one piece, and all of it points on.
Anchored ==
  /\ 1 \in particles /\ body[1].head = <<0, 0>>
  /\ \A p \in particles : state[p] = "Seed" <=> p = 1
  /\ \A p \in InHexagon : hexagonDir[p] \in Dir
  /\ Connected(Hexagon)

\* What the movements keep: everybody is held by the hexagon or on the way to it,
\* so that the system stays in one piece.
Held == TypeOK /\ ApartIn(body) /\ Anchored /\ Ahead /\ Led /\ Rooted
Core == Held /\ StaysConnected

-----------------------------------------------------------------------------
(* Who is where                                                            *)

\* The particle found on a node is the one that occupies it.
LEMMA ParticleFound ==
  ASSUME ApartIn(body), NEW r \in particles, NEW n \in Nodes(body[r])
  PROVE  ParticleAt(n) = r
  BY FoundOn DEF particles, ParticleAt

\* Whose node a pointer leads to is the one the pointer finds.
Finds == \A q, r \in particles : Target(q) \in Nodes(body[r]) => Up[q] = r

\* That is so as long as no two particles share a node.
LEMMA UpFinds == ApartIn(body) => Finds
  BY ParticleFound DEF Finds, Up

\* The same after a step.
LEMMA UpNext ==
  ASSUME ApartIn(body'), NEW q \in particles', NEW r \in particles',
         Target(q)' \in Nodes(body'[r])
  PROVE  Up'[q] = r
<1>1. (ApartIn(body) => Finds)'
  BY UpFinds, PTL
<1> QED
  BY <1>1 DEF Finds

\* A follower points at another particle.
LEMMA FollowerPoints ==
  ASSUME Core, NEW q \in Followers
  PROVE  /\ q \in particles /\ body[q] \in Body /\ parentDir[q] \in Dir
         /\ parentDir[q] # TailDir(body[q])
         /\ Target(q) \notin Nodes(body[q])
         /\ Up[q] \in Active /\ Up[q] \in particles /\ Up[q] # q
         /\ Target(q) \in Nodes(body[Up[q]])
         /\ Target(q) \in Nbrs(body[q].head)
         /\ NbrNode(body[q], ParentLabel(q)) = Target(q)
         /\ \E l \in HeadLabels(body[q]) : LabelToDir(body[q], l) = parentDir[q]
<1>1. q \in particles /\ body[q] \in Body /\ parentDir[q] \in Dir /\ parentDir[q] # TailDir(body[q])
  BY DEF Core, Held, TypeOK, Led, Followers, InState
<1>2. PICK r \in Active : Target(q) \in Nodes(body[r])
  BY DEF Core, Held, Led
<1>3. r \in particles
  BY DEF Active, InState
<1>4. Up[q] = r
  BY <1>1, <1>2, <1>3, UpFinds DEF Core, Held, Finds
<1>5. /\ Target(q) \notin Nodes(body[q])
      /\ NbrNode(body[q], ParentLabel(q)) = Target(q)
      /\ \E l \in HeadLabels(body[q]) : LabelToDir(body[q], l) = parentDir[q]
  BY <1>1, PointerPort DEF Target, ParentLabel
<1>6. Target(q) \in Nbrs(body[q].head)
  BY <1>1, CompassType DEF Target, Pointed, Nbrs
<1> QED
  BY <1>1, <1>2, <1>3, <1>4, <1>5, <1>6

\* The hexagon's particles are contracted, so it is the nodes they are on.
LEMMA HexagonNodes ==
  ASSUME Core
  PROVE  /\ Hexagon \subseteq Node /\ Hexagon \subseteq Occupied /\ Occupied \subseteq Node
         /\ <<0, 0>> \in Hexagon /\ 1 \in InHexagon
         /\ \A p \in InHexagon : /\ p \in particles /\ body[p] \in Body /\ IsContracted(body[p])
                              /\ Nodes(body[p]) = {body[p].head} /\ body[p].head \in Hexagon
         /\ \A p \in particles \ InHexagon : Nodes(body[p]) \cap Hexagon = {}
<1>1. \A p \in InHexagon : /\ p \in particles /\ body[p] \in Body /\ IsContracted(body[p])
                        /\ Nodes(body[p]) = {body[p].head} /\ body[p].head \in Hexagon
  BY NodesType DEF Core, Held, TypeOK, InHexagon, InState, Hexagon
<1>2. \A p \in particles : body[p] \in Body /\ Nodes(body[p]) \subseteq Node
  BY NodesType DEF Core, Held, TypeOK
<1>3. Hexagon = {body[p].head : p \in InHexagon}
  BY DEF Hexagon, InHexagon
<1>4. Hexagon \subseteq Node /\ Hexagon \subseteq Occupied /\ Occupied \subseteq Node
  BY <1>1, <1>2, <1>3 DEF Occupied
<1>5. 1 \in InHexagon /\ <<0, 0>> \in Hexagon
  BY <1>3 DEF Core, Held, Anchored, InHexagon, InState
<1>6. ASSUME NEW p \in particles \ InHexagon PROVE Nodes(body[p]) \cap Hexagon = {}
  <2>1. \A q \in InHexagon : Nodes(body[p]) \cap Nodes(body[q]) = {}
    BY <1>1 DEF Core, Held, ApartIn, particles
  <2> QED
    BY <1>1, <1>3, <2>1
<1> QED
  BY <1>1, <1>4, <1>5, <1>6

\* The ports HexagonLabels finds.
LEMMA HexagonPorts ==
  ASSUME Core, NEW p \in particles
  PROVE  /\ HexagonLabels(p) = {l \in Labels(body[p]) : NbrNode(body[p], l) \in Hexagon}
         /\ IsContracted(body[p]) =>
              /\ HexagonLabels(p) = {l \in Dir : NbrNode(body[p], l) \in Hexagon}
              /\ HexagonLabels(p) # {} <=> Nbrs(body[p].head) \cap Hexagon # {}
<1>1. HexagonLabels(p) = {l \in Labels(body[p]) : \E q \in InHexagon : NbrNode(body[p], l) \in Nodes(body[q])}
  BY DEF HexagonLabels, LabelsOfNbrs, InHexagon
<1>2. \A n : n \in Hexagon <=> \E q \in InHexagon : n \in Nodes(body[q])
  BY HexagonNodes DEF Hexagon, InHexagon
<1>3. HexagonLabels(p) = {l \in Labels(body[p]) : NbrNode(body[p], l) \in Hexagon}
  BY <1>1, <1>2
<1>4. body[p] \in Body
  BY DEF Core, Held, TypeOK
<1>5. ASSUME IsContracted(body[p])
      PROVE  /\ HexagonLabels(p) = {l \in Dir : NbrNode(body[p], l) \in Hexagon}
             /\ HexagonLabels(p) # {} <=> Nbrs(body[p].head) \cap Hexagon # {}
  <2>1. /\ Labels(body[p]) = Dir
        /\ \A l \in Dir : NbrNode(body[p], l) \in Nbrs(body[p].head)
        /\ \A n \in Nbrs(body[p].head) : \E l \in Dir : NbrNode(body[p], l) = n
    BY <1>4, <1>5, ContractedPorts
  <2> QED
    BY <1>3, <2>1
<1> QED
  BY <1>3, <1>5

-----------------------------------------------------------------------------
(* nextHexagonDir                                                          *)

\* A walk that comes to a place off W comes to a first one.
LEMMA WalkStops ==
  ASSUME NEW A, NEW W, NEW k \in 1 .. 5, A[k] \notin W
  PROVE  \E i \in 1 .. k : A[i] \notin W /\ \A j \in 1 .. i - 1 : A[j] \in W
<1>1. \/ A[1] \notin W
      \/ 2 <= k /\ A[1] \in W /\ A[2] \notin W
      \/ 3 <= k /\ A[1] \in W /\ A[2] \in W /\ A[3] \notin W
      \/ 4 <= k /\ A[1] \in W /\ A[2] \in W /\ A[3] \in W /\ A[4] \notin W
      \/ 5 <= k /\ A[1] \in W /\ A[2] \in W /\ A[3] \in W /\ A[4] \in W /\ A[5] \notin W
  OBVIOUS
<1> QED
  BY <1>1

\* The labels of the head of an expanded body lie in a row, from the one beside
\* the tail round to the other one beside it.
LEMMA HeadRow ==
  ASSUME NEW t \in Dir, NEW first, first = FirstLabel(labels[t + 1])
  PROVE  /\ first \in labels[t + 1] /\ first \in 0 .. 9
         /\ \A i \in 0 .. 4 : /\ (first + i) % 10 \in labels[t + 1]
                              /\ labelDir[t + 1][((first + i) % 10) + 1] = (t + 1 + i) % 6
<1>1. t = 0 \/ t = 1 \/ t = 2 \/ t = 3 \/ t = 4 \/ t = 5
  BY DEF Dir
<1>2. \A i \in 0 .. 4 : i = 0 \/ i = 1 \/ i = 2 \/ i = 3 \/ i = 4
  OBVIOUS
<1>3. CASE t = 0
  <2>1. first = 3
    BY <1>3 DEF FirstLabel, labels
  <2> QED
    BY <1>2, <1>3, <2>1 DEF labels, labelDir
<1>4. CASE t = 1
  <2>1. first = 4
    BY <1>4 DEF FirstLabel, labels
  <2> QED
    BY <1>2, <1>4, <2>1 DEF labels, labelDir
<1>5. CASE t = 2
  <2>1. first = 7
    BY <1>5 DEF FirstLabel, labels
  <2> QED
    BY <1>2, <1>5, <2>1 DEF labels, labelDir
<1>6. CASE t = 3
  <2>1. first = 8
    BY <1>6 DEF FirstLabel, labels
  <2> QED
    BY <1>2, <1>6, <2>1 DEF labels, labelDir
<1>7. CASE t = 4
  <2>1. first = 9
    BY <1>7 DEF FirstLabel, labels
  <2> QED
    BY <1>2, <1>7, <2>1 DEF labels, labelDir
<1>8. CASE t = 5
  <2>1. first = 2
    BY <1>8 DEF FirstLabel, labels
  <2> QED
    BY <1>2, <1>8, <2>1 DEF labels, labelDir
<1> QED
  BY <1>1, <1>3, <1>4, <1>5, <1>6, <1>7, <1>8

\* A contracted particle at the hexagon finds a direction off it, just beside one
\* that is at it.
LEMMA RootTurns ==
  ASSUME Core, HexagonOpen, NEW p \in particles \ InHexagon, IsContracted(body[p]),
         HexagonLabels(p) # {}, NEW turn, turn = 1 \/ turn = -1,
         NEW d, d = NextHexagonDir(p, turn)
  PROVE  /\ d \in Dir /\ Pointed(body[p], d) \notin Hexagon
         /\ turn = 1 => Pointed(body[p], (d + 5) % 6) \in Hexagon
         /\ turn = -1 => Pointed(body[p], (d + 1) % 6) \in Hexagon
<1> DEFINE W == HexagonLabels(p)
           H == HeadLabels(body[p])
           limit == LabelLimit(body[p])
           start == FirstFrom(W \cap H, FirstLabel(H), limit)
           ahead(i) == (start + i * turn) % limit
           Stops(i) == ahead(i) \notin W /\ \A j \in 1 .. i - 1 : ahead(j) \in W
           steps == CHOOSE i \in 1 .. limit - 1 : Stops(i)
<1>1. /\ body[p] \in Body /\ Labels(body[p]) = Dir /\ limit = 6 /\ H = Dir
      /\ \A l \in Dir : LabelToDir(body[p], l) = l /\ NbrNode(body[p], l) = Pointed(body[p], l)
  BY ContractedFrame, ContractedPorts DEF Core, Held, TypeOK, HeadLabels
<1>2. W = {l \in Dir : NbrNode(body[p], l) \in Hexagon}
  BY HexagonPorts
<1>3. FirstLabel(Dir) = 0
  BY DEF FirstLabel, Dir
<1>4. W \in SUBSET Dir /\ W # {} /\ W \cap Dir = W
  BY <1>2
<1>5. W # Dir
  <2>1. body[p].head \in Node \ Hexagon /\ 0 \in Dir
    BY <1>1, NodesType, HexagonNodes DEF Dir
  <2>2. PICK g \in Dir : NodeInDir(body[p].head, g) \notin Hexagon
    BY <2>1 DEF HexagonOpen
  <2>3. PICK l \in Dir : NbrNode(body[p], l) = NodeInDir(body[p].head, g)
    BY <1>1, ContractedPorts DEF Nbrs
  <2> QED
    BY <1>2, <2>2, <2>3
<1>6. d = LabelToDir(body[p], ahead(steps))
  BY DEF NextHexagonDir
<1> HIDE DEF W, H, limit
<1>7. start \in W
  <2>1. start = FirstFrom(W, 0, 6)
    BY <1>1, <1>3, <1>4
  <2> QED
    BY <1>4, <2>1, FirstFound
<1> HIDE DEF start
<1>8. start \in 0 .. 5
  BY <1>4, <1>7 DEF Dir
<1>9. /\ \A i \in 0 .. 5 : ahead(i) \in Dir
      /\ ahead(0) = start
      /\ \A g \in Dir : g = ahead(0) \/ g = ahead(1) \/ g = ahead(2) \/ g = ahead(3)
                        \/ g = ahead(4) \/ g = ahead(5)
  <2>1. CASE turn = 1
    BY <1>1, <1>8, <2>1 DEF Dir
  <2>2. CASE turn = -1
    BY <1>1, <1>8, <2>2 DEF Dir
  <2> QED
    BY <2>1, <2>2
<1>10. \A i \in 1 .. 5 : /\ turn = 1 => ahead(i - 1) = (ahead(i) + 5) % 6
                         /\ turn = -1 => ahead(i - 1) = (ahead(i) + 1) % 6
  <2>1. CASE turn = 1
    BY <1>1, <1>8, <2>1
  <2>2. CASE turn = -1
    BY <1>1, <1>8, <2>2
  <2> QED
    BY <2>1, <2>2
<1> HIDE DEF ahead
<1>11. \E i \in 1 .. 5 : Stops(i)
  <2> DEFINE A == [i \in 0 .. 5 |-> ahead(i)]
  <2>1. \A i \in 0 .. 5 : A[i] = ahead(i)
    OBVIOUS
  <2>2. PICK k \in 1 .. 5 : A[k] \notin W
    BY <1>4, <1>5, <1>7, <1>9, <2>1
  <2> HIDE DEF A
  <2>3. PICK i \in 1 .. k : A[i] \notin W /\ \A j \in 1 .. i - 1 : A[j] \in W
    BY <2>2, WalkStops
  <2> QED
    BY <2>1, <2>3
<1>12. steps \in 1 .. 5 /\ Stops(steps)
  <2>1. limit - 1 = 5
    BY <1>1
  <2> HIDE DEF Stops
  <2> QED
    BY <1>11, <2>1
<1> HIDE DEF steps
<1>13. ahead(steps) \notin W /\ ahead(steps - 1) \in W /\ ahead(steps) \in Dir
  <2>1. CASE steps = 1
    BY <1>7, <1>9, <1>12, <2>1
  <2>2. CASE steps # 1
    BY <1>9, <1>12, <2>2
  <2> QED
    BY <2>1, <2>2
<1>14. d = ahead(steps)
  BY <1>1, <1>6, <1>13
<1>15. d \in Dir /\ d \notin W /\ (turn = 1 => (d + 5) % 6 \in W) /\ (turn = -1 => (d + 1) % 6 \in W)
  BY <1>10, <1>12, <1>13, <1>14
<1> HIDE DEF Stops
<1> QED
  BY <1>1, <1>2, <1>15

\* An expanded root looks along its head, from the first port, which is at the
\* hexagon, and stops there: some port of the head is not.
LEMMA ExpandedRootTurns ==
  ASSUME Core, HexagonOpen, NEW p \in Roots, IsExpanded(body[p]),
         NEW d, d = NextHexagonDir(p, 1)
  PROVE  /\ d \in Dir /\ Pointed(body[p], d) \notin Hexagon
         /\ Pointed(body[p], (d + 5) % 6) \in Hexagon
<1> DEFINE t == TailDir(body[p])
           H == HeadLabels(body[p])
           W == HexagonLabels(p)
           first == FirstLabel(H)
           limit == LabelLimit(body[p])
           start == FirstFrom(W \cap H, first, limit)
           ahead(i) == (start + i * 1) % limit
           Stops(i) == ahead(i) \notin W /\ \A j \in 1 .. i - 1 : ahead(j) \in W
           steps == CHOOSE i \in 1 .. limit - 1 : Stops(i)
<1>1. p \in particles \ InHexagon /\ body[p] \in Body /\ body[p].head \in Node \ Hexagon
  <2>1. p \in particles \ InHexagon /\ body[p] \in Body
    BY DEF Core, Held, TypeOK, Roots, InHexagon, InState
  <2> QED
    BY <2>1, NodesType, HexagonNodes
<1>2. /\ t \in Dir /\ Labels(body[p]) = 0 .. 9 /\ limit = 10
      /\ H = labels[t + 1]
      /\ \A l : LabelToDir(body[p], l) = labelDir[t + 1][l + 1]
      /\ LocalToGlobalDir(body[p], t) = body[p].globalTailDir
  BY <1>1, ExpandedFrame
<1>3. W = {l \in 0 .. 9 : NbrNode(body[p], l) \in Hexagon}
  BY <1>1, <1>2, HexagonPorts
<1>4. d = LabelToDir(body[p], ahead(steps))
  BY DEF NextHexagonDir
<1> HIDE DEF limit
<1>5. H \subseteq 0 .. 9 /\ \A l \in H : NbrNode(body[p], l) = Pointed(body[p], LabelToDir(body[p], l))
  BY <1>2, EndsSplitLabels DEF NbrNode, Pointed, OccupiedNodeIncidentToLabel, LabelToGlobalDir
<1>6. /\ hexagonDir[p] \in Dir /\ hexagonDir[p] = Opposite(t)
      /\ Pointed(body[p], (hexagonDir[p] + 4) % 6) \in Hexagon
  BY DEF Core, Held, Ahead
<1> HIDE DEF t
<1>7. (hexagonDir[p] + 4) % 6 = (t + 1) % 6
  BY <1>2, <1>6 DEF Opposite, Dir
<1>8. first \in H /\ first \in 0 .. 9
      /\ \A i \in 0 .. 4 : /\ (first + i) % 10 \in H
                           /\ LabelToDir(body[p], (first + i) % 10) = (t + 1 + i) % 6
  <2>1. first = FirstLabel(labels[t + 1])
    BY <1>2
  <2> HIDE DEF first
  <2>2. /\ first \in labels[t + 1] /\ first \in 0 .. 9
        /\ \A i \in 0 .. 4 : /\ (first + i) % 10 \in labels[t + 1]
                             /\ labelDir[t + 1][((first + i) % 10) + 1] = (t + 1 + i) % 6
    BY <1>2, <2>1, HeadRow
  <2> HIDE DEF H
  <2> QED
    BY <1>2, <2>2
<1> HIDE DEF H, first
<1>9. first \in W
  <2>1. (first + 0) % 10 = first /\ (t + 1 + 0) % 6 = (t + 1) % 6
    BY <1>2, <1>8 DEF Dir
  <2>2. LabelToDir(body[p], first) = (t + 1) % 6
    BY <1>8, <2>1
  <2> QED
    BY <1>3, <1>5, <1>6, <1>7, <1>8, <2>2
<1>10. start = first
  <2>1. \A l \in 0 .. 9 : (l - first + 10) % 10 >= 0
    BY <1>8
  <2>2. (first - first + 10) % 10 = 0
    BY <1>8
  <2>3. \A l \in 0 .. 9 : (l - first + 10) % 10 <= 0 => l = first
    BY <1>8
  <2> DEFINE V == W \cap H
  <2>4. first \in V /\ V \subseteq 0 .. 9
    BY <1>3, <1>8, <1>9
  <2> HIDE DEF V
  <2>5. FirstFrom(V, first, 10) = first
    BY <2>1, <2>2, <2>3, <2>4 DEF FirstFrom
  <2> QED
    BY <1>2, <2>5 DEF V
<1> HIDE DEF start, W
<1>11. \A i \in 0 .. 9 : ahead(i) = (first + i) % 10
  BY <1>2, <1>8, <1>10
<1> HIDE DEF ahead
\* Some direction of the head other than that of the tail is free.
<1>12. PICK k \in 1 .. 4 : ahead(k) \notin W
  <2>1. body[p].globalTailDir \in Dir
    BY <1>1, ExpandedFrame
  <2>2. PICK g \in Dir \ {body[p].globalTailDir} : NodeInDir(body[p].head, g) \notin Hexagon
    BY <1>1, <2>1 DEF HexagonOpen
  <2> DEFINE e == GlobalToLocalDir(body[p], g)
  <2>3. e \in Dir /\ LocalToGlobalDir(body[p], e) = g
    BY <1>1, <2>2, CompassType, CompassInverse
  <2> HIDE DEF e
  <2>4. e # t /\ Pointed(body[p], e) \notin Hexagon
    BY <1>2, <2>2, <2>3 DEF Pointed
  <2>5. PICK i \in 0 .. 4 : e = (t + 1 + i) % 6
    <3>1. e = (t + 1 + 0) % 6 \/ e = (t + 1 + 1) % 6 \/ e = (t + 1 + 2) % 6
          \/ e = (t + 1 + 3) % 6 \/ e = (t + 1 + 4) % 6
      BY <1>2, <2>3, <2>4 DEF Dir
    <3> QED
      BY <3>1
  <2>6. (first + i) % 10 \in H /\ LabelToDir(body[p], (first + i) % 10) = e
    BY <1>8, <2>5
  <2>7. ahead(i) \notin W
    BY <1>3, <1>5, <1>11, <2>4, <2>6
  <2>8. i # 0
    <3>1. ahead(0) = first
      BY <1>8, <1>11
    <3> QED
      BY <1>9, <2>7, <3>1
  <2> QED
    BY <2>7, <2>8
<1>13. PICK m \in 1 .. k : Stops(m)
  <2> DEFINE A == [i \in 0 .. 5 |-> ahead(i)]
  <2>1. \A i \in 0 .. 5 : A[i] = ahead(i)
    OBVIOUS
  <2>2. k \in 1 .. 5 /\ A[k] \notin W
    BY <1>12, <2>1
  <2> HIDE DEF A
  <2>3. PICK i \in 1 .. k : A[i] \notin W /\ \A j \in 1 .. i - 1 : A[j] \in W
    BY <2>2, WalkStops
  <2> QED
    BY <2>1, <2>3
<1>14. steps \in 1 .. 9 /\ Stops(steps)
  <2>1. m \in 1 .. 9 /\ limit - 1 = 9
    BY <1>2
  <2> HIDE DEF Stops
  <2> QED
    BY <1>13, <2>1
<1> HIDE DEF steps
<1>15. steps \in 1 .. 4
  <2>1. ~ (k < steps)
    BY <1>12, <1>14
  <2> QED
    BY <1>14, <2>1
<1>16. ahead(steps) \notin W /\ ahead(steps - 1) \in W
  <2>1. CASE steps = 1
    <3>1. ahead(0) = first
      BY <1>8, <1>11
    <3> QED
      BY <1>9, <1>14, <2>1, <3>1
  <2>2. CASE steps # 1
    BY <1>14, <1>15, <2>2
  <2> QED
    BY <2>1, <2>2
<1> HIDE DEF Stops
<1>17. /\ ahead(steps) \in H /\ LabelToDir(body[p], ahead(steps)) = (t + 1 + steps) % 6
       /\ ahead(steps - 1) \in H
       /\ LabelToDir(body[p], ahead(steps - 1)) = (t + 1 + (steps - 1)) % 6
  BY <1>8, <1>11, <1>15
<1>18. d = (t + 1 + steps) % 6 /\ (t + 1 + (steps - 1)) % 6 = (d + 5) % 6 /\ d \in Dir
  BY <1>2, <1>4, <1>15, <1>17 DEF Dir
<1> QED
  BY <1>3, <1>5, <1>16, <1>17, <1>18

\* A root is at the hexagon.
LEMMA RootsBeside == TypeOK /\ Ahead => Beside
<1> SUFFICES ASSUME TypeOK, Ahead, NEW p \in Roots PROVE Nbrs(body[p].head) \cap Hexagon # {}
  BY DEF Beside
<1>1. body[p] \in Body
  BY DEF TypeOK, Roots, InState
<1>2. hexagonDir[p] \in Dir
  BY DEF Ahead
<1>3. \A d \in Dir : Pointed(body[p], d) \in Nbrs(body[p].head)
  BY <1>1, CompassType DEF Pointed, Nbrs
<1>4. (hexagonDir[p] + 5) % 6 \in Dir /\ (hexagonDir[p] + 4) % 6 \in Dir
  BY <1>2 DEF Dir
<1>5. Pointed(body[p], (hexagonDir[p] + 5) % 6) \in Hexagon
      \/ Pointed(body[p], (hexagonDir[p] + 4) % 6) \in Hexagon
  BY DEF Ahead, IsExpanded
<1> QED
  BY <1>3, <1>4, <1>5

\* What the invariant says is what the runs check.
LEMMA WalkersCorrect == Core /\ HexagonOpen => WalkersLed
<1> SUFFICES ASSUME Core, HexagonOpen PROVE WalkersLed
  OBVIOUS
<1>1. ASSUME NEW p \in Roots
      PROVE  Nbrs(body[p].head) \cap Hexagon \notin {{}, Nbrs(body[p].head)}
  <2>1. p \in particles \ InHexagon /\ body[p] \in Body
    BY DEF Roots, InHexagon, InState, Core, Held, TypeOK
  <2>2. body[p].head \in Node \ Hexagon /\ 0 \in Dir
    BY <2>1, NodesType, HexagonNodes DEF Dir
  <2>3. Nbrs(body[p].head) \cap Hexagon # {}
    BY RootsBeside DEF Core, Held, Beside
  <2>4. PICK d \in Dir : NodeInDir(body[p].head, d) \notin Hexagon
    BY <2>2 DEF HexagonOpen
  <2> QED
    BY <2>3, <2>4 DEF Nbrs
<1>2. ASSUME NEW q \in Followers
      PROVE  /\ \E l \in HeadLabels(body[q]) : LabelToDir(body[q], l) = parentDir[q]
             /\ ParentNode(q) \in Occupied
             /\ ParticleAt(ParentNode(q)) \in Active
             /\ ParticleAt(ParentNode(q)) = Up[q]
  BY FollowerPoints DEF ParentNode, Occupied, Up
<1>3. ASSUME NEW C \in SUBSET Followers, C # {}
      PROVE  \E q \in C : ParticleAt(ParentNode(q)) \notin C
  <2>1. PICK q \in C : Up[q] \notin C
    BY <1>3 DEF Core, Held, Rooted, ForestOf
  <2> QED
    BY <1>2, <2>1
<1>4. \A q \in Active : state[q] # "Idle"
  BY DEF Active, InState
<1> QED
  BY <1>1, <1>2, <1>3, <1>4 DEF WalkersLed, Followers, Roots

-----------------------------------------------------------------------------
(* The system in one piece                                                 *)

\* No particle outside T is next to one in T.
Closed(T) == \A m \in T, n \in Occupied : Adjacent(m, n) => n \in T

\* A closed part that has the hexagon has all that is not idle: the roots are
\* beside the hexagon, and the followers hang on them.
ActiveTogether ==
  \A T \in SUBSET Occupied :
    Closed(T) /\ Hexagon \subseteq T => \A r \in Active : Nodes(body[r]) \subseteq T

\* Followers hang on roots, and roots on the hexagon.
LEMMA HeldTogether == Held => ActiveTogether
<1> SUFFICES ASSUME Held, NEW T \in SUBSET Occupied, Closed(T), Hexagon \subseteq T
             PROVE  \A r \in Active : Nodes(body[r]) \subseteq T
  BY DEF ActiveTogether
<1>1. \A r \in particles : body[r] \in Body /\ Nodes(body[r]) \subseteq Occupied
  BY DEF Held, TypeOK, Occupied
<1>2. ASSUME NEW r \in particles, body[r].head \in T
      PROVE  Nodes(body[r]) \subseteq T
  <2>1. CASE IsContracted(body[r])
    BY <1>1, <1>2, <2>1, NodesType
  <2>2. CASE IsExpanded(body[r])
    <3>1. /\ Nodes(body[r]) = {body[r].head, TailNode(body[r])}
          /\ TailNode(body[r]) \in Nbrs(body[r].head)
      BY <1>1, <2>2, NodesType, ExpandedFrame DEF Nbrs
    <3> QED
      BY <1>1, <1>2, <3>1 DEF Closed, Adjacent
  <2> QED
    BY <2>1, <2>2 DEF IsExpanded
<1>3. \A r \in InHexagon : body[r].head \in T /\ r \in particles
  BY DEF Hexagon, InHexagon, InState
<1>4. ASSUME NEW r \in Roots PROVE body[r].head \in T /\ r \in particles
  <2>1. r \in particles /\ body[r].head \in Node /\ body[r].head \in Occupied
    BY <1>1, NodesType DEF Roots, InState
  <2>2. PICK n \in Hexagon : Adjacent(body[r].head, n)
    BY RootsBeside DEF Held, Beside, Adjacent
  <2>3. n \in Node
    <3>1. Occupied \subseteq Node
      BY <1>1, NodesType DEF Occupied
    <3> QED
      BY <2>2, <3>1
  <2>4. Adjacent(n, body[r].head)
    BY <2>1, <2>2, <2>3, AdjacentSymmetric
  <2> QED
    BY <2>1, <2>2, <2>4 DEF Closed
<1> DEFINE C == {q \in Followers : body[q].head \notin T}
<1>5. ASSUME NEW q \in C, Up[q] \notin C PROVE FALSE
  <2>1. /\ q \in particles /\ parentDir[q] \in Dir /\ q \in Followers
        /\ body[q].head \in Node /\ body[q].head \in Occupied
    BY <1>1, NodesType DEF Held, Led, Followers, InState
  <2>2. PICK r \in Active : Target(q) \in Nodes(body[r])
    BY <2>1 DEF Held, Led
  <2>3. r \in particles /\ Up[q] = r
    BY <2>1, <2>2, UpFinds DEF Held, Finds, Active, InState
  <2>4. body[r].head \in T
    BY <1>3, <1>4, <1>5, <2>2, <2>3 DEF Active, InHexagon, Roots, Followers, InState
  <2>5. Target(q) \in T
    BY <1>2, <2>2, <2>3, <2>4
  <2>6. Target(q) \in Node /\ Adjacent(body[q].head, Target(q))
    BY <1>1, <2>1, CompassType, NodeInDirType DEF Target, Pointed, Adjacent, Nbrs
  <2>7. Adjacent(Target(q), body[q].head)
    BY <2>1, <2>6, AdjacentSymmetric
  <2> QED
    BY <1>5, <2>1, <2>5, <2>7 DEF Closed
<1>6. C = {}
  <2>1. C \in SUBSET Followers
    OBVIOUS
  <2> HIDE DEF C
  <2> QED
    BY <1>5, <2>1 DEF Held, Rooted, ForestOf
<1>7. \A r \in Active : r \in particles /\ body[r].head \in T
  BY <1>3, <1>4, <1>6 DEF Active, InHexagon, Roots, Followers, InState
<1> QED
  BY <1>2, <1>7

\* An expanded particle with no idle neighbour can draw in its tail: whoever
\* is not idle holds together without it.
LEMMA TailLetGo ==
  ASSUME Core, Held', Connected(Hexagon'), Hexagon' # {}, Hexagon' \subseteq Occupied',
         NEW p \in particles, IsExpanded(body[p]), ~ HasNbrInState(p, {"Idle"}),
         particles' = particles, state' = state,
         Nodes(body'[p]) = {body[p].head}, \A q \in particles \ {p} : body'[q] = body[q]
  PROVE  Connected(Occupied')
<1>1. /\ body[p] \in Body /\ Nodes(body[p]) = {body[p].head, TailNode(body[p])}
      /\ TailNode(body[p]) \in Node
  BY NodesType DEF Core, Held, TypeOK
<1>2. Occupied = Occupied' \cup {TailNode(body[p])}
  BY <1>1 DEF Occupied
<1>3. Occupied' \subseteq Node
  BY <1>2, HexagonNodes
<1>4. ActiveTogether'
  <2>1. (Held => ActiveTogether)'
    BY HeldTogether, PTL
  <2> QED
    BY <2>1
<1> SUFFICES ASSUME NEW T \in SUBSET Occupied', T # {}, T # Occupied',
                    \A m \in T, n \in Occupied' \ T : ~ Adjacent(m, n)
             PROVE  FALSE
  BY DEF Connected
<1> DEFINE U == Occupied' \ T
<1>5. \A m \in U, n \in T : ~ Adjacent(m, n)
  BY <1>3, AdjacentSymmetric
<1>6. Hexagon' \subseteq T \/ Hexagon' \subseteq U
  <2> DEFINE C == T \cap Hexagon'
  <2>1. C \in SUBSET Hexagon' /\ \A m \in C, n \in Hexagon' \ C : ~ Adjacent(m, n)
    OBVIOUS
  <2>2. C = {} \/ C = Hexagon'
    <3> HIDE DEF C
    <3> QED
      BY <2>1 DEF Connected
  <2> QED
    BY <2>2
\* The side without the hexagon has only idle particles.
<1>7. ASSUME NEW S \in SUBSET Occupied', NEW R \in SUBSET Occupied',
             S \cup R = Occupied', S \cap R = {}, R # {},
             Hexagon' \subseteq S,
             \A m \in S, n \in R : ~ Adjacent(m, n)
      PROVE  FALSE
  <2>1. Closed(S)'
    BY <1>7 DEF Closed
  <2>2. \A r \in Active' : Nodes(body'[r]) \subseteq S
    BY <1>4, <1>7, <2>1 DEF ActiveTogether
  <2>3. ASSUME NEW n \in R
        PROVE  \E q \in InState({"Idle"}) : q \in particles /\ q # p /\ n \in Nodes(body[q])
    <3>1. PICK q \in particles : n \in Nodes(body'[q])
      BY <1>7 DEF Occupied
    <3>2. q \notin Active
      BY <1>7, <2>2, <3>1 DEF Active, InState
    <3>3. q \in InState({"Idle"})
      BY <3>2 DEF Core, Held, TypeOK, States, Active, InState
    <3>4. q # p
      BY <3>3 DEF Core, Held, TypeOK, InState, IsExpanded
    <3> QED
      BY <3>1, <3>3, <3>4
  <2>4. PICK m \in R, n \in Occupied \ R : Adjacent(m, n)
    <3>1. R \in SUBSET Occupied /\ R # Occupied
      <4>1. S # {}
        BY <1>7
      <4> QED
        BY <1>2, <1>7, <4>1
    <3> QED
      BY <1>7, <3>1 DEF Core, Held, StaysConnected, Connected
  <2>5. n = TailNode(body[p])
    <3>1. m \in Node /\ \A s \in S : s \in Node
      BY <1>3
    <3>2. n \notin S
      BY <1>7, <2>4, <3>1, AdjacentSymmetric
    <3> QED
      BY <1>2, <1>7, <2>4, <3>2
  <2>6. PICK q \in InState({"Idle"}) : q \in particles /\ q # p /\ m \in Nodes(body[q])
    BY <2>3
  <2>7. m \in Node /\ Adjacent(n, m)
    BY <1>1, <1>3, <2>4, <2>5, AdjacentSymmetric
  <2>8. PICK d \in Dir : m = NodeInDir(n, d)
    BY <2>7 DEF Adjacent, Nbrs
  <2>9. m \notin Nodes(body[p]) /\ n \in Nodes(body[p])
    BY <1>1, <2>5, <2>6 DEF Core, Held, ApartIn, particles
  <2>10. PICK l \in Labels(body[p]) : /\ OccupiedNodeIncidentToLabel(body[p], l) = n
                                     /\ LabelToGlobalDir(body[p], l) = d
    BY <1>1, <2>8, <2>9, PortExists
  <2>11. NbrNode(body[p], l) = m
    BY <2>8, <2>10 DEF NbrNode
  <2> QED
    BY <2>6, <2>11 DEF HasNbrInState, LabelsOfNbrs
<1>8. CASE Hexagon' \subseteq T
  <2> HIDE DEF U
  <2>1. U \in SUBSET Occupied' /\ T \cup U = Occupied' /\ T \cap U = {} /\ U # {}
        /\ \A m \in T, n \in U : ~ Adjacent(m, n)
    BY DEF U
  <2> QED
    BY <1>7, <1>8, <2>1
<1>9. CASE Hexagon' \subseteq U
  <2> HIDE DEF U
  <2>1. U \in SUBSET Occupied' /\ U \cup T = Occupied' /\ U \cap T = {}
    BY DEF U
  <2> QED
    BY <1>5, <1>7, <1>9, <2>1
<1> QED
  BY <1>6, <1>8, <1>9

-----------------------------------------------------------------------------
(* Steps beside the hexagon                                                *)

\* A step that leaves the hexagon, and where it points, as they are.
Still ==
  /\ particles' = particles /\ InHexagon' = InHexagon
  /\ \A p \in InHexagon : /\ body'[p] = body[p] /\ state'[p] = state[p]
                          /\ hexagonDir'[p] = hexagonDir[p]

\* Such a step leaves the hexagon and its pointers alone.
LEMMA HexagonStays ==
  ASSUME Core, Still
  PROVE  /\ Hexagon' = Hexagon /\ Anchored'
         /\ HexagonOpen => HexagonOpen'
<1>1. \A p \in InHexagon : p \in particles /\ p \in InHexagon'
  BY DEF Still, InHexagon, InState
<1>2. Hexagon = {body[p].head : p \in InHexagon} /\ Hexagon' = {body'[p].head : p \in InHexagon'}
  BY DEF Hexagon
<1>3. Hexagon' = Hexagon
  BY <1>2 DEF Still
<1>4. ASSUME NEW p \in particles PROVE state'[p] = "Seed" <=> p = 1
  <2>1. state'[p] = "Seed" => p \in InHexagon
    BY <1>4 DEF Still, InHexagon, InState
  <2>2. p = 1 => p \in InHexagon
    BY HexagonNodes
  <2> QED
    BY <1>4, <2>1, <2>2 DEF Still, Core, Held, Anchored
<1>5. Anchored'
  <2>1. body'[1].head = <<0, 0>> /\ 1 \in particles
    BY HexagonNodes DEF Still, Core, Held, Anchored
  <2>2. \A p \in InHexagon : hexagonDir'[p] \in Dir
    BY DEF Still, Core, Held, Anchored
  <2> QED
    BY <1>3, <1>4, <2>1, <2>2 DEF Still, Core, Held, Anchored
<1> QED
  BY <1>3, <1>5 DEF HexagonOpen

\* What a step that moves bodies has to do to keep the particles held: those that
\* stand stay where they are, roots keep to the hexagon, and the pointers go on
\* leading to active particles without a ring.
MovesOnly ==
  /\ UNCHANGED state
  /\ body' \in [particles -> Body] /\ particles' = particles /\ ApartIn(body')
  /\ parentDir' \in [particles -> {-1} \cup Dir] /\ hexagonDir' \in [particles -> {-1} \cup Dir]
  /\ \A q \in InState({"Seed", "Idle", "Retired"}) :
       body'[q] = body[q] /\ hexagonDir'[q] = hexagonDir[q]
  /\ \A q \in particles \ Followers : parentDir'[q] = parentDir[q]
  /\ \A q \in Roots :
       /\ hexagonDir'[q] \in Dir
       /\ IsContracted(body'[q]) => Pointed(body'[q], (hexagonDir'[q] + 5) % 6) \in Hexagon
       /\ IsExpanded(body'[q]) => /\ hexagonDir'[q] = Opposite(TailDir(body'[q]))
                                  /\ Pointed(body'[q], (hexagonDir'[q] + 4) % 6) \in Hexagon
  /\ \A q \in Followers : /\ parentDir'[q] \in Dir /\ parentDir'[q] # TailDir(body'[q])
                          /\ Up'[q] \in Active /\ Target(q)' \in Nodes(body'[Up'[q]])
  /\ ForestOf(Followers, Up')

\* They keep the invariant.
LEMMA MovesKeep ==
  ASSUME Core, MovesOnly
  PROVE  Held' /\ Still
<1>1. /\ Followers' = Followers /\ Roots' = Roots /\ Active' = Active /\ InHexagon' = InHexagon
      /\ InState({"Seed", "Idle", "Retired"})' = InState({"Seed", "Idle", "Retired"})
      /\ InHexagon \subseteq InState({"Seed", "Idle", "Retired"})
  BY DEF MovesOnly, Followers, Roots, Active, InHexagon, InState
<1>2. Still
  BY <1>1 DEF MovesOnly, Still
<1>3. Hexagon' = Hexagon /\ Anchored'
  BY <1>2, HexagonStays
<1>4. TypeOK'
  <2>1. \A q \in InState({"Seed", "Idle", "Retired"}) : IsContracted(body'[q])
    BY DEF MovesOnly, Core, Held, TypeOK
  <2> QED
    BY <1>1, <2>1 DEF MovesOnly, Core, Held, TypeOK
<1>5. Ahead'
  BY <1>1, <1>3 DEF MovesOnly, Ahead
<1>6. Led'
  BY <1>1 DEF MovesOnly, Led, Core, Held
<1>7. Rooted'
  BY <1>1 DEF MovesOnly, Rooted
<1> QED
  BY <1>2, <1>3, <1>4, <1>5, <1>6, <1>7 DEF MovesOnly, Held

\* How a walker turns before it leaves its tail.
LEMMA TurnRootIs ==
  ASSUME Core, HexagonOpen, NEW p \in particles, IsExpanded(body[p]),
         state[p] \in {"Follower", "Root"}, TurnRoot(p)
  PROVE  /\ hexagonDir' \in [particles -> {-1} \cup Dir]
         /\ \A q \in particles \ {p} : hexagonDir'[q] = hexagonDir[q]
         /\ p \in Roots => /\ hexagonDir'[p] \in Dir
                           /\ Pointed(body[p], (hexagonDir'[p] + 5) % 6) \in Hexagon
<1>1. hexagonDir \in [particles -> {-1} \cup Dir]
  BY DEF Core, Held, TypeOK
<1>2. CASE state[p] = "Root"
  <2> DEFINE d == NextHexagonDir(p, 1)
  <2>1. p \in Roots /\ hexagonDir' = [hexagonDir EXCEPT ![p] = d]
    BY <1>2 DEF TurnRoot, Roots, InState
  <2> HIDE DEF d
  <2>2. d \in Dir /\ Pointed(body[p], (d + 5) % 6) \in Hexagon
    BY <2>1, ExpandedRootTurns DEF d
  <2> QED
    BY <1>1, <2>1, <2>2
<1>3. CASE state[p] # "Root"
  BY <1>1, <1>3 DEF TurnRoot, Roots, InState
<1> QED
  BY <1>2, <1>3

\* A particle whose tail no child points at.
LEMMA NoChildAtTail ==
  ASSUME Core, NEW p \in particles, IsExpanded(body[p]), ~ HasTailChild(p), NEW q \in Followers
  PROVE  Target(q) # TailNode(body[p])
<1>1. /\ q \in particles /\ parentDir[q] \in Dir
      /\ Target(q) \notin Nodes(body[q])
      /\ NbrNode(body[q], ParentLabel(q)) = Target(q)
  BY FollowerPoints
<1>2. TailNode(body[p]) \in Nodes(body[p]) /\ parentDir[q] # -1
  BY <1>1, NodesType DEF Core, Held, TypeOK, Dir
<1> QED
  BY <1>1, <1>2 DEF HasTailChild, PointsAtMyTail

\* Where the body of a contraction ends up.
LEMMA ContractMoves ==
  ASSUME Core, NEW p \in particles, IsExpanded(body[p]), body' = AfterContractTail(p)
  PROVE  /\ particles' = particles /\ ApartIn(body') /\ body' \in [particles -> Body]
         /\ IsContracted(body'[p]) /\ Nodes(body'[p]) = {body[p].head}
         /\ Nodes(body[p]) = {body[p].head, TailNode(body[p])}
         /\ \A q \in particles : /\ body'[q].head = body[q].head
                                 /\ body'[q].orientation = body[q].orientation
                                 /\ Nodes(body'[q]) \subseteq Nodes(body[q])
                                 /\ q # p => body'[q] = body[q]
<1> DEFINE x == TailContracted(body[p])
<1>1. body \in [particles -> Body] /\ body[p] \in Body
  BY DEF Core, Held, TypeOK
<1>2. /\ x \in Body /\ IsContracted(x) /\ Nodes(x) = {body[p].head}
      /\ x.head = body[p].head /\ x.orientation = body[p].orientation
  <2>1. x.head = body[p].head /\ x.orientation = body[p].orientation
    BY <1>1 DEF TailContracted, Body
  <2> QED
    BY <1>1, <2>1, ContractedBody
<1>3. body' = [body EXCEPT ![p] = x]
  BY DEF AfterContractTail
<1> HIDE DEF x
<1>4. /\ particles' = particles /\ body' \in [particles -> Body]
      /\ body'[p] = x /\ \A q \in particles \ {p} : body'[q] = body[q]
  BY <1>1, <1>2, <1>3 DEF particles
<1>5. Nodes(body[p]) = {body[p].head, TailNode(body[p])}
  BY <1>1, NodesType
<1>6. \A q \in particles : /\ body'[q].head = body[q].head
                           /\ body'[q].orientation = body[q].orientation
                           /\ Nodes(body'[q]) \subseteq Nodes(body[q])
                           /\ q # p => body'[q] = body[q]
  BY <1>2, <1>4, <1>5
<1>7. ApartIn(body')
  <2>1. DOMAIN body' = particles
    BY <1>4
  <2> QED
    BY <1>6, <2>1 DEF ApartIn, Core, Held, particles
<1> QED
  BY <1>2, <1>4, <1>5, <1>6, <1>7

\* ContractTail keeps Core: nobody hangs on the tail it lets go, and a root's head
\* stays at the hexagon.
LEMMA ContractTailKeeps ==
  ASSUME Core, HexagonOpen, NEW p \in particles, ContractTail(p)
  PROVE  Core' /\ Still
<1>1. /\ IsExpanded(body[p]) /\ state[p] \in {"Follower", "Root"}
      /\ ~ HasNbrInState(p, {"Idle"}) /\ ~ HasTailChild(p)
      /\ TurnRoot(p) /\ body' = AfterContractTail(p) /\ UNCHANGED <<state, parentDir>>
  BY DEF ContractTail, Alpha6, Walks
<1>2. /\ particles' = particles /\ ApartIn(body') /\ body' \in [particles -> Body]
      /\ IsContracted(body'[p]) /\ Nodes(body'[p]) = {body[p].head}
      /\ Nodes(body[p]) = {body[p].head, TailNode(body[p])}
      /\ \A q \in particles : /\ body'[q].head = body[q].head
                              /\ body'[q].orientation = body[q].orientation
                              /\ Nodes(body'[q]) \subseteq Nodes(body[q])
                              /\ q # p => body'[q] = body[q]
  BY <1>1, ContractMoves
<1>3. /\ hexagonDir' \in [particles -> {-1} \cup Dir]
      /\ \A q \in particles \ {p} : hexagonDir'[q] = hexagonDir[q]
      /\ p \in Roots => /\ hexagonDir'[p] \in Dir
                        /\ Pointed(body[p], (hexagonDir'[p] + 5) % 6) \in Hexagon
  BY <1>1, TurnRootIs
<1>4. ASSUME NEW q \in Followers
      PROVE  /\ parentDir'[q] \in Dir /\ parentDir'[q] # TailDir(body'[q])
             /\ Up'[q] = Up[q] /\ Up'[q] \in Active /\ Target(q)' \in Nodes(body'[Up'[q]])
  <2>1. /\ q \in particles /\ parentDir[q] \in Dir
        /\ Up[q] \in Active /\ Up[q] \in particles
        /\ Target(q) \in Nodes(body[Up[q]])
    BY FollowerPoints
  <2>2. Target(q)' = Target(q)
    BY <1>1, <1>2, <2>1 DEF Target, Pointed, LocalToGlobalDir
  <2>3. Target(q) # TailNode(body[p])
    BY <1>1, NoChildAtTail
  <2>4. Target(q) \in Nodes(body'[Up[q]])
    BY <1>2, <2>1, <2>3
  <2>5. parentDir[q] # TailDir(body'[q])
    <3>1. CASE q = p
      BY <1>2, <2>1, <3>1, ContractedFrame DEF Dir
    <3>2. CASE q # p
      BY <1>2, <2>1, <3>2 DEF Core, Held, Led
    <3> QED
      BY <3>1, <3>2
  <2>6. Up'[q] = Up[q]
    BY <1>2, <2>1, <2>2, <2>4, UpNext
  <2> QED
    BY <1>1, <2>1, <2>2, <2>4, <2>5, <2>6
<1>5. ForestOf(Followers, Up')
  BY <1>4 DEF Core, Held, Rooted, ForestOf
<1>6. \A q \in Roots :
        /\ hexagonDir'[q] \in Dir
        /\ IsContracted(body'[q]) => Pointed(body'[q], (hexagonDir'[q] + 5) % 6) \in Hexagon
        /\ IsExpanded(body'[q]) => /\ hexagonDir'[q] = Opposite(TailDir(body'[q]))
                                   /\ Pointed(body'[q], (hexagonDir'[q] + 4) % 6) \in Hexagon
  <2> SUFFICES ASSUME NEW q \in Roots
               PROVE  /\ hexagonDir'[q] \in Dir
                      /\ IsContracted(body'[q]) => Pointed(body'[q], (hexagonDir'[q] + 5) % 6) \in Hexagon
                      /\ IsExpanded(body'[q]) =>
                           /\ hexagonDir'[q] = Opposite(TailDir(body'[q]))
                           /\ Pointed(body'[q], (hexagonDir'[q] + 4) % 6) \in Hexagon
    OBVIOUS
  <2>1. q \in particles
    BY DEF Roots, InState
  <2>2. CASE q = p
    BY <1>2, <1>3, <2>2, PointerStays DEF IsExpanded
  <2>3. CASE q # p
    BY <1>2, <1>3, <2>1, <2>3 DEF Core, Held, Ahead
  <2> QED
    BY <2>2, <2>3
<1>7. MovesOnly
  <2>1. \A q \in InState({"Seed", "Idle", "Retired"}) : q \in particles /\ q # p
    BY <1>1 DEF InState
  <2>2. parentDir' \in [particles -> {-1} \cup Dir]
    BY <1>1 DEF Core, Held, TypeOK
  <2> QED
    BY <1>1, <1>2, <1>3, <1>4, <1>5, <1>6, <2>1, <2>2 DEF MovesOnly
<1>8. Held' /\ Still
  BY <1>7, MovesKeep
<1>9. StaysConnected'
  <2>1. Hexagon' = Hexagon /\ Connected(Hexagon') /\ Hexagon' # {}
    BY <1>8, HexagonStays, HexagonNodes DEF Core, Held, Anchored
  <2>2. Hexagon' \subseteq Occupied'
    <3>1. ASSUME NEW q \in InHexagon PROVE q \in particles' /\ body'[q].head \in Nodes(body'[q])
      BY <1>2, NodesType DEF InHexagon, InState
    <3>2. Hexagon' = {body'[q].head : q \in InHexagon'} /\ InHexagon' = InHexagon
      BY <1>8 DEF Hexagon, Still
    <3> QED
      BY <3>1, <3>2 DEF Occupied
  <2> QED
    BY <1>1, <1>2, <1>8, <2>1, <2>2, TailLetGo DEF StaysConnected
<1> QED
  BY <1>8, <1>9 DEF Core

-----------------------------------------------------------------------------
(* Handovers                                                               *)

\* Some label is the least.
LEMMA LeastOfTen ==
  ASSUME NEW D \in SUBSET (0 .. 9), D # {}
  PROVE  \E i \in D : \A j \in D : i <= j
<1>1. \A i \in D : \/ i = 0 \/ i = 1 \/ i = 2 \/ i = 3 \/ i = 4
                  \/ i = 5 \/ i = 6 \/ i = 7 \/ i = 8 \/ i = 9
  OBVIOUS
<1>2. \/ 0 \in D
      \/ 0 \notin D /\ 1 \in D
      \/ 0 \notin D /\ 1 \notin D /\ 2 \in D
      \/ 0 \notin D /\ 1 \notin D /\ 2 \notin D /\ 3 \in D
      \/ 0 \notin D /\ 1 \notin D /\ 2 \notin D /\ 3 \notin D /\ 4 \in D
      \/ \A j \in D : 5 <= j
  BY <1>1
<1>3. CASE \A j \in D : 5 <= j
  <2>1. \A i \in D : i = 5 \/ i = 6 \/ i = 7 \/ i = 8 \/ i = 9
    BY <1>1, <1>3
  <2>2. \/ 5 \in D
        \/ 5 \notin D /\ 6 \in D
        \/ 5 \notin D /\ 6 \notin D /\ 7 \in D
        \/ 5 \notin D /\ 6 \notin D /\ 7 \notin D /\ 8 \in D
        \/ D = {9}
    BY <2>1
  <2> QED
    BY <2>1, <2>2
<1> QED
  BY <1>1, <1>2, <1>3

\* A scan round an expanded body finds one of the labels, when there is one.
LEMMA FirstOfTen ==
  ASSUME NEW L \in SUBSET (0 .. 9), L # {}, NEW start \in 0 .. 9
  PROVE  FirstFrom(L, start, 10) \in L
<1> DEFINE far(l) == (l - start + 10) % 10
           D == {far(l) : l \in L}
<1>1. D # {} /\ D \subseteq 0 .. 9
  <2>1. \A l \in L : far(l) \in 0 .. 9
    OBVIOUS
  <2> HIDE DEF far
  <2> QED
    BY <2>1
<1>2. \E i \in D : \A j \in D : i <= j
  <2> HIDE DEF D
  <2> QED
    BY <1>1, LeastOfTen
<1>3. PICK l \in L : \A m \in L : far(l) <= far(m)
  BY <1>2
<1> QED
  BY <1>3 DEF FirstFrom

\* The child that is pulled: a contracted follower that points at the tail.
LEMMA PulledChild ==
  ASSUME Core, NEW p \in particles, Alpha5(p), NEW l, l = PulledLabel(p),
         NEW q, q = NbrAtLabel(p, l)
  PROVE  /\ l \in Labels(body[p]) /\ l \in TailLabels(body[p])
         /\ q \in Followers /\ q # p /\ IsContracted(body[q])
         /\ OccupiedNodeIncidentToLabel(body[p], l) = TailNode(body[p])
         /\ LabelToGlobalDir(body[p], l) \in Dir
         /\ NodeInDir(TailNode(body[p]), LabelToGlobalDir(body[p], l)) = body[q].head
         /\ Target(q) = TailNode(body[p]) /\ Up[q] = p
<1>1. /\ body[p] \in Body /\ IsExpanded(body[p]) /\ ConTailChildLabels(p) # {}
  BY DEF Alpha5, Walks, Core, Held, TypeOK
<1>2. /\ Labels(body[p]) = 0 .. 9 /\ TailDir(body[p]) \in Dir
      /\ HeadLabels(body[p]) = labels[TailDir(body[p]) + 1]
      /\ TailLabels(body[p]) = (0 .. 9) \ HeadLabels(body[p])
  BY <1>1, ExpandedFrame
<1>3. FirstLabel(TailLabels(body[p])) \in 0 .. 9
  <2>1. Opposite(TailDir(body[p])) \in Dir
    BY <1>2, OppositeType
  <2> DEFINE s == Opposite(TailDir(body[p]))
             first == FirstLabel(labels[s + 1])
  <2> HIDE DEF s, first
  <2>2. first \in 0 .. 9
    BY <2>1, HeadRow DEF s, first
  <2> QED
    BY <2>2 DEF TailLabels, s, first
<1>4. l \in ConTailChildLabels(p)
  <2> DEFINE L == ConTailChildLabels(p)
             start == FirstLabel(TailLabels(body[p]))
  <2>1. L \in SUBSET (0 .. 9) /\ L # {}
    BY <1>1, <1>2 DEF ConTailChildLabels
  <2>2. l = FirstFrom(L, start, 10)
    BY DEF PulledLabel
  <2> HIDE DEF L, start
  <2>3. start \in 0 .. 9
    BY <1>3 DEF start
  <2>4. l \in L
    BY <2>1, <2>2, <2>3, FirstOfTen
  <2> QED
    BY <2>4 DEF L
<1>5. PICK r \in ConTailChildren(p) : NbrNode(body[p], l) \in Nodes(body[r])
  BY <1>4 DEF ConTailChildLabels, LabelsOfNbrs
<1>6. /\ r \in particles /\ body[r] \in Body /\ IsContracted(body[r]) /\ parentDir[r] # -1
      /\ PointsAtMyTail(body[p], body[r], parentDir[r])
  BY <1>5 DEF ConTailChildren, Core, Held, TypeOK
<1>7. q = r
  BY <1>5, <1>6, ParticleFound DEF NbrAtLabel, Core, Held
<1>8. q \in Followers
  BY <1>6, <1>7 DEF Core, Held, Led
<1>9. NbrNode(body[p], l) = body[q].head
  BY <1>5, <1>6, <1>7, NodesType
<1>10. /\ l \in Labels(body[p]) /\ l \in TailLabels(body[p])
       /\ OccupiedNodeIncidentToLabel(body[p], l) = TailNode(body[p])
  BY <1>2, <1>4 DEF ConTailChildLabels, OccupiedNodeIncidentToLabel
<1>11. Target(q) = TailNode(body[p])
  <2>1. parentDir[q] \in Dir
    BY <1>8, FollowerPoints
  <2>2. NbrNode(body[q], parentDir[q]) = Target(q)
    BY <1>6, <1>7, <2>1, ContractedPorts DEF Target
  <2> QED
    BY <1>6, <1>7, <2>2 DEF PointsAtMyTail
<1>12. Up[q] = p
  <2>1. TailNode(body[p]) \in Nodes(body[p])
    BY <1>1, NodesType
  <2> QED
    BY <1>6, <1>7, <1>11, <2>1, UpFinds DEF Finds, Core, Held
<1> QED
  BY <1>1, <1>6, <1>7, <1>8, <1>9, <1>10, <1>11, <1>12, LabelToGlobalDirType DEF NbrNode, IsExpanded

\* Where the two bodies of a handover end up: the child on the tail that its
\* parent leaves.
LEMMA PullMoves ==
  ASSUME Core, NEW p \in particles, Alpha5(p), NEW l, l = PulledLabel(p),
         NEW q, q = NbrAtLabel(p, l), body' = AfterPull(p, l)
  PROVE  /\ particles' = particles /\ ApartIn(body') /\ body' \in [particles -> Body]
         /\ q \in particles /\ q # p /\ body[p] \in Body /\ body[q] \in Body
         /\ IsExpanded(body[p]) /\ Nodes(body[p]) = {body[p].head, TailNode(body[p])}
         /\ IsContracted(body[q]) /\ Nodes(body[q]) = {body[q].head}
         /\ IsContracted(body'[p]) /\ Nodes(body'[p]) = {body[p].head}
         /\ body'[p].head = body[p].head /\ body'[p].orientation = body[p].orientation
         /\ Nodes(body'[q]) = {TailNode(body[p]), body[q].head}
         /\ body'[q].head = TailNode(body[p]) /\ body'[q].orientation = body[q].orientation
         /\ IsExpanded(body'[q])
         /\ \A r \in particles \ {p, q} : body'[r] = body[r]
         /\ Occupied' = Occupied
<1> DEFINE g == LabelToGlobalDir(body[p], l)
           x == TailContracted(body[p])
           y == PulledOnto(body[q], TailNode(body[p]), g)
<1>1. /\ body \in [particles -> Body] /\ body[p] \in Body /\ ApartIn(body)
      /\ IsExpanded(body[p])
  BY DEF Core, Held, TypeOK, Alpha5, Walks
<1>2. /\ q \in particles /\ q # p /\ IsContracted(body[q]) /\ body[q] \in Body
      /\ OccupiedNodeIncidentToLabel(body[p], l) = TailNode(body[p])
      /\ g \in Dir /\ NodeInDir(TailNode(body[p]), g) = body[q].head
  BY <1>1, PulledChild DEF Followers, InState
<1>3. /\ Nodes(body[p]) = {body[p].head, TailNode(body[p])}
      /\ TailNode(body[p]) # body[p].head /\ TailNode(body[p]) \in Node
      /\ Nodes(body[q]) = {body[q].head}
  BY <1>1, <1>2, NodesType
<1>4. /\ x \in Body /\ IsContracted(x) /\ Nodes(x) = {body[p].head}
      /\ x.head = body[p].head /\ x.orientation = body[p].orientation
  <2>1. x.head = body[p].head /\ x.orientation = body[p].orientation
    BY <1>1 DEF TailContracted, Body
  <2> QED
    BY <1>1, <2>1, ContractedBody
<1>5. /\ y \in Body /\ IsExpanded(y) /\ Nodes(y) = {TailNode(body[p]), body[q].head}
      /\ y.head = TailNode(body[p]) /\ y.orientation = body[q].orientation
  <2> HIDE DEF g
  <2>1. y.head = TailNode(body[p]) /\ y.orientation = body[q].orientation
    BY <1>2 DEF PulledOnto, Body
  <2> QED
    BY <1>2, <1>3, <2>1, PulledBody
<1>6. body' = [body EXCEPT ![p] = x, ![q] = y]
  <2>1. Released(body[p], TailNode(body[p])) = x
    BY <1>3 DEF Released
  <2>2. body' = [body EXCEPT ![p] = Released(@, TailNode(body[p])),
                             ![q] = PulledOnto(@, TailNode(body[p]), g)]
    BY <1>2 DEF AfterPull
  <2> HIDE DEF g
  <2> QED
    BY <1>1, <1>2, <2>1, <2>2
<1> HIDE DEF g, x, y
<1>7. /\ body' \in [particles -> Body] /\ body'[p] = x /\ body'[q] = y
      /\ \A r \in particles \ {p, q} : body'[r] = body[r]
  BY <1>1, <1>2, <1>4, <1>5, <1>6
<1>8. particles' = particles
  BY <1>7 DEF particles
<1>9. ApartIn(body')
  <2>1. Nodes(body'[p]) \subseteq Nodes(body[p])
    BY <1>3, <1>4, <1>7
  <2>2. Nodes(body'[q]) \subseteq Nodes(body[q]) \cup (Nodes(body[p]) \ Nodes(body'[p]))
    BY <1>3, <1>4, <1>5, <1>7
  <2>3. TakesOver(particles, body, body', q, p)
    BY <1>1, <1>2, <1>7, <2>1, <2>2 DEF TakesOver
  <2> QED
    BY <1>1, <2>3, HandedOver
<1>10. Occupied' = Occupied
  <2>1. \A s \in particles : Nodes(body'[s]) \subseteq Occupied
    BY <1>2, <1>3, <1>4, <1>5, <1>7 DEF Occupied
  <2>2. \A s \in particles : Nodes(body[s]) \subseteq Occupied'
    BY <1>2, <1>3, <1>4, <1>5, <1>7, <1>8 DEF Occupied
  <2> QED
    BY <1>8, <2>1, <2>2 DEF Occupied
<1> QED
  BY <1>1, <1>2, <1>3, <1>4, <1>5, <1>7, <1>8, <1>9, <1>10

\* Pull keeps Core: the child goes on pointing at its parent, and takes over those
\* that pointed at the node it now holds.
LEMMA PullKeeps ==
  ASSUME Core, HexagonOpen, NEW p \in particles, Pull(p)
  PROVE  Core' /\ Still
<1> SUFFICES ASSUME NEW l, l = PulledLabel(p), NEW q, q = NbrAtLabel(p, l),
                    NEW d, d = DirToNbrDir(body[p], body[q], Opposite(TailDir(body[p])))
             PROVE  Core' /\ Still
  OBVIOUS
<1>1. /\ Alpha5(p) /\ IsExpanded(body[p]) /\ state[p] \in {"Follower", "Root"}
      /\ TurnRoot(p) /\ body' = AfterPull(p, l) /\ UNCHANGED state
      /\ parentDir' = [parentDir EXCEPT ![q] = d]
  BY DEF Pull, Alpha5, Walks
<1>2. /\ q \in Followers /\ Target(q) = TailNode(body[p]) /\ Up[q] = p
  BY <1>1, PulledChild
<1>3. /\ particles' = particles /\ ApartIn(body') /\ body' \in [particles -> Body]
      /\ q \in particles /\ q # p /\ body[p] \in Body /\ body[q] \in Body
      /\ Nodes(body[p]) = {body[p].head, TailNode(body[p])}
      /\ IsContracted(body[q]) /\ Nodes(body[q]) = {body[q].head}
      /\ IsContracted(body'[p]) /\ Nodes(body'[p]) = {body[p].head}
      /\ body'[p].head = body[p].head /\ body'[p].orientation = body[p].orientation
      /\ Nodes(body'[q]) = {TailNode(body[p]), body[q].head}
      /\ body'[q].head = TailNode(body[p]) /\ body'[q].orientation = body[q].orientation
      /\ IsExpanded(body'[q])
      /\ \A r \in particles \ {p, q} : body'[r] = body[r]
      /\ Occupied' = Occupied
  BY <1>1, PullMoves
<1>4. d \in Dir /\ NodeInDir(TailNode(body[p]), LocalToGlobalDir(body[q], d)) = body[p].head
  <2>1. d = NbrDirToDir(body[q], body[p], Opposite(TailDir(body[p])))
    BY DEF DirToNbrDir, NbrDirToDir
  <2> QED
    BY <1>1, <1>3, <2>1, TurnedRound
<1>5. /\ parentDir' \in [particles -> {-1} \cup Dir]
      /\ parentDir'[q] = d /\ \A r \in particles \ {q} : parentDir'[r] = parentDir[r]
  BY <1>1, <1>3, <1>4 DEF Core, Held, TypeOK
<1>6. /\ hexagonDir' \in [particles -> {-1} \cup Dir]
      /\ \A r \in particles \ {p} : hexagonDir'[r] = hexagonDir[r]
      /\ p \in Roots => /\ hexagonDir'[p] \in Dir
                        /\ Pointed(body[p], (hexagonDir'[p] + 5) % 6) \in Hexagon
  BY <1>1, TurnRootIs
<1>7. p \in Active /\ q \in Active
  BY <1>1, <1>2 DEF Active, Followers, InState
\* The pulled child.
<1>8. /\ parentDir'[q] \in Dir /\ parentDir'[q] # TailDir(body'[q])
      /\ Up'[q] = p /\ Target(q)' \in Nodes(body'[p])
  <2>1. Pointed(body'[q], d) = body[p].head
    BY <1>3, <1>4 DEF Pointed, LocalToGlobalDir
  <2>2. Target(q)' = body[p].head
    BY <1>5, <2>1 DEF Target
  <2>3. body[p].head \notin Nodes(body'[q])
    <3>1. body[p].head # body[q].head /\ body[p].head # TailNode(body[p])
      BY <1>1, <1>3, NodesType DEF ApartIn, Core, Held, particles
    <3> QED
      BY <1>3, <3>1
  <2>4. body'[q] \in Body
    BY <1>3
  <2>5. d # TailDir(body'[q])
    BY <1>4, <2>1, <2>3, <2>4, PointerPort
  <2>6. Up'[q] = p
    BY <1>3, <2>2, UpNext
  <2> QED
    BY <1>3, <1>4, <1>5, <2>2, <2>5, <2>6
\* The others.
<1>9. ASSUME NEW r \in Followers, r # q
      PROVE  /\ parentDir'[r] \in Dir /\ parentDir'[r] # TailDir(body'[r])
             /\ Up'[r] = Up[r] \/ (Up'[r] = q /\ Up[r] = p)
             /\ Up'[r] \in Active /\ Target(r)' \in Nodes(body'[Up'[r]])
  <2>1. /\ r \in particles /\ parentDir[r] \in Dir /\ parentDir[r] # TailDir(body[r])
        /\ Up[r] \in Active /\ Up[r] \in particles
        /\ Target(r) \in Nodes(body[Up[r]])
    BY FollowerPoints
  <2>2. body'[r].head = body[r].head /\ body'[r].orientation = body[r].orientation
    BY <1>3, <1>9, <2>1
  <2>3. Target(r)' = Target(r)
    BY <1>5, <1>9, <2>1, <2>2 DEF Target, Pointed, LocalToGlobalDir
  <2>4. parentDir'[r] # TailDir(body'[r])
    <3>1. CASE r = p
      BY <1>3, <1>5, <1>9, <2>1, <3>1, ContractedFrame DEF Dir
    <3>2. CASE r # p
      BY <1>3, <1>5, <1>9, <2>1, <3>2
    <3> QED
      BY <3>1, <3>2
  <2>5. CASE Target(r) = TailNode(body[p])
    <3>1. Up[r] = p
      BY <1>3, <2>1, <2>5, UpFinds DEF Finds, Core, Held
    <3>2. Target(r)' \in Nodes(body'[q])
      BY <1>3, <2>3, <2>5
    <3>3. Up'[r] = q
      BY <1>3, <2>1, <3>2, UpNext
    <3> QED
      BY <1>5, <1>7, <1>9, <2>1, <2>4, <3>1, <3>2, <3>3
  <2>6. CASE Target(r) # TailNode(body[p])
    <3>1. Target(r)' \in Nodes(body'[Up[r]])
      BY <1>3, <2>1, <2>3, <2>6
    <3>2. Up'[r] = Up[r]
      BY <1>3, <2>1, <3>1, UpNext
    <3> QED
      BY <1>5, <1>9, <2>1, <2>4, <3>1, <3>2
  <2> QED
    BY <2>5, <2>6
<1>10. ForestOf(Followers, Up')
  <2>1. ForestOf(Followers, Up)
    BY DEF Core, Held, Rooted
  <2>2. \A r \in Followers : Up'[r] = Up[r] \/ (Up'[r] = q /\ Up[r] = p)
    BY <1>2, <1>8, <1>9
  <2> QED
    BY <1>2, <1>8, <2>1, <2>2, ForestPushed
<1>11. \A r \in Roots :
         /\ hexagonDir'[r] \in Dir
         /\ IsContracted(body'[r]) => Pointed(body'[r], (hexagonDir'[r] + 5) % 6) \in Hexagon
         /\ IsExpanded(body'[r]) => /\ hexagonDir'[r] = Opposite(TailDir(body'[r]))
                                    /\ Pointed(body'[r], (hexagonDir'[r] + 4) % 6) \in Hexagon
  <2> SUFFICES ASSUME NEW r \in Roots
               PROVE  /\ hexagonDir'[r] \in Dir
                      /\ IsContracted(body'[r]) => Pointed(body'[r], (hexagonDir'[r] + 5) % 6) \in Hexagon
                      /\ IsExpanded(body'[r]) =>
                           /\ hexagonDir'[r] = Opposite(TailDir(body'[r]))
                           /\ Pointed(body'[r], (hexagonDir'[r] + 4) % 6) \in Hexagon
    OBVIOUS
  <2>1. r \in particles /\ r # q
    BY <1>2 DEF Roots, Followers, InState
  <2>2. CASE r = p
    BY <1>3, <1>6, <2>2, PointerStays DEF IsExpanded
  <2>3. CASE r # p
    BY <1>3, <1>6, <2>1, <2>3 DEF Core, Held, Ahead
  <2> QED
    BY <2>2, <2>3
<1>12. MovesOnly
  <2>1. \A r \in InState({"Seed", "Idle", "Retired"}) : r \in particles /\ r # p /\ r # q
    BY <1>1, <1>2 DEF Followers, InState
  <2>2. \A r \in Followers : /\ parentDir'[r] \in Dir /\ parentDir'[r] # TailDir(body'[r])
                             /\ Up'[r] \in Active /\ Target(r)' \in Nodes(body'[Up'[r]])
    BY <1>7, <1>8, <1>9
  <2>3. \A r \in particles \ Followers : parentDir'[r] = parentDir[r]
    BY <1>2, <1>5
  <2> QED
    BY <1>1, <1>3, <1>5, <1>6, <1>10, <1>11, <2>1, <2>2, <2>3 DEF MovesOnly
<1>13. StaysConnected'
  BY <1>3 DEF StaysConnected, Core
<1> QED
  BY <1>12, <1>13, MovesKeep DEF Core

\* Where the body of an expansion ends up.
LEMMA ExpandMoves ==
  ASSUME Core, NEW p \in particles, IsContracted(body[p]), NEW l \in Dir,
         ~ HasNbrAtLabel(p, l), body' = AfterExpand(p, l)
  PROVE  /\ particles' = particles /\ body' \in [particles -> Body] /\ ApartIn(body')
         /\ IsExpanded(body'[p]) /\ body'[p].orientation = body[p].orientation
         /\ body'[p].globalTailDir = Opposite(LocalToGlobalDir(body[p], l))
         /\ body'[p].head = NbrNode(body[p], l)
         /\ Nodes(body'[p]) = {NbrNode(body[p], l), body[p].head}
         /\ Nodes(body[p]) = {body[p].head}
         /\ \A q \in particles \ {p} : body'[q] = body[q]
         /\ StaysConnected'
<1> DEFINE x == Expanded(body[p], l)
<1>1. /\ body \in [particles -> Body] /\ ApartIn(body)
      /\ body[p] \in Body /\ l \in Labels(body[p])
  BY ContractedFrame DEF Core, Held, TypeOK
<1>2. /\ x \in Body /\ x.head = NbrNode(body[p], l) /\ Nodes(x) = {NbrNode(body[p], l), body[p].head}
      /\ IsExpanded(x) /\ x.orientation = body[p].orientation
      /\ x.globalTailDir = Opposite(LocalToGlobalDir(body[p], l))
  <2>1. x.orientation = body[p].orientation /\ x.globalTailDir = Opposite(LocalToGlobalDir(body[p], l))
    BY <1>1 DEF Expanded, Body
  <2> QED
    BY <1>1, <2>1, ExpandedBody
<1>3. body' = [body EXCEPT ![p] = x]
  BY DEF AfterExpand
<1> HIDE DEF x
<1>4. Nodes(body[p]) = {body[p].head}
  BY <1>1, NodesType
<1>5. \A r \in particles \ {p} : Nodes(x) \cap Nodes(body[r]) = {}
  BY <1>1, <1>2, <1>4 DEF HasNbrAtLabel, Occupied, ApartIn, particles
<1>6. body' \in [particles -> Body] /\ body'[p] = x /\ \A q \in particles \ {p} : body'[q] = body[q]
  BY <1>1, <1>2, <1>3
<1>7. particles' = particles
  BY <1>6 DEF particles
<1>8. ApartIn(body')
  <2>1. DOMAIN body' = particles
    BY <1>6
  <2>2. ASSUME NEW r \in particles, NEW s \in particles, r # s
        PROVE  Nodes(body'[r]) \cap Nodes(body'[s]) = {}
    BY <1>1, <1>5, <1>6, <2>2 DEF ApartIn, particles
  <2> QED
    BY <2>1, <2>2 DEF ApartIn
<1>9. StaysConnected'
  <2> DEFINE n == NbrNode(body[p], l)
  <2>1. Occupied' = Occupied \cup {n}
    BY <1>2, <1>4, <1>6, <1>7 DEF Occupied
  <2>2. n \in Node /\ Adjacent(body[p].head, n)
    BY <1>1, ContractedPorts DEF Adjacent
  <2>3. body[p].head \in Occupied
    BY <1>4 DEF Occupied
  <2> HIDE DEF n
  <2> QED
    BY <2>1, <2>2, <2>3, ConnectedJoined, HexagonNodes DEF StaysConnected, Core
<1> QED
  BY <1>2, <1>4, <1>6, <1>7, <1>8, <1>9

\* A step in direction d and one in the direction two before make one in the
\* direction before.
LEMMA StepAround ==
  ASSUME NEW n \in Node, NEW g \in Dir
  PROVE  NodeInDir(NodeInDir(n, g), (g + 4) % 6) = NodeInDir(n, (g + 5) % 6)
<1>1. PICK x \in Int, y \in Int : n = <<x, y>>
  BY DEF Node
<1>2. /\ x + 1 \in Int /\ x - 1 \in Int /\ y + 1 \in Int /\ y - 1 \in Int
  OBVIOUS
<1>3. CASE g = 0
  <2>1. NodeInDir(n, 0) = <<x + 1, y>> /\ NodeInDir(n, 5) = <<x + 1, y - 1>>
    BY <1>1, StepsAre
  <2>2. NodeInDir(<<x + 1, y>>, 4) = <<x + 1, y - 1>>
    BY <1>1, <1>2 DEF NodeInDir, xOffset, yOffset
  <2>3. (g + 4) % 6 = 4 /\ (g + 5) % 6 = 5
    BY <1>3
  <2> QED
    BY <1>3, <2>1, <2>2, <2>3
<1>4. CASE g = 1
  <2>1. NodeInDir(n, 1) = <<x, y + 1>> /\ NodeInDir(n, 0) = <<x + 1, y>>
    BY <1>1, StepsAre
  <2>2. NodeInDir(<<x, y + 1>>, 5) = <<x + 1, y>>
    BY <1>1, <1>2 DEF NodeInDir, xOffset, yOffset
  <2>3. (g + 4) % 6 = 5 /\ (g + 5) % 6 = 0
    BY <1>4
  <2> QED
    BY <1>4, <2>1, <2>2, <2>3
<1>5. CASE g = 2
  <2>1. NodeInDir(n, 2) = <<x - 1, y + 1>> /\ NodeInDir(n, 1) = <<x, y + 1>>
    BY <1>1, StepsAre
  <2>2. NodeInDir(<<x - 1, y + 1>>, 0) = <<x, y + 1>>
    BY <1>1, <1>2 DEF NodeInDir, xOffset, yOffset
  <2>3. (g + 4) % 6 = 0 /\ (g + 5) % 6 = 1
    BY <1>5
  <2> QED
    BY <1>5, <2>1, <2>2, <2>3
<1>6. CASE g = 3
  <2>1. NodeInDir(n, 3) = <<x - 1, y>> /\ NodeInDir(n, 2) = <<x - 1, y + 1>>
    BY <1>1, StepsAre
  <2>2. NodeInDir(<<x - 1, y>>, 1) = <<x - 1, y + 1>>
    BY <1>1, <1>2 DEF NodeInDir, xOffset, yOffset
  <2>3. (g + 4) % 6 = 1 /\ (g + 5) % 6 = 2
    BY <1>6
  <2> QED
    BY <1>6, <2>1, <2>2, <2>3
<1>7. CASE g = 4
  <2>1. NodeInDir(n, 4) = <<x, y - 1>> /\ NodeInDir(n, 3) = <<x - 1, y>>
    BY <1>1, StepsAre
  <2>2. NodeInDir(<<x, y - 1>>, 2) = <<x - 1, y>>
    BY <1>1, <1>2 DEF NodeInDir, xOffset, yOffset
  <2>3. (g + 4) % 6 = 2 /\ (g + 5) % 6 = 3
    BY <1>7
  <2> QED
    BY <1>7, <2>1, <2>2, <2>3
<1>8. CASE g = 5
  <2>1. NodeInDir(n, 5) = <<x + 1, y - 1>> /\ NodeInDir(n, 4) = <<x, y - 1>>
    BY <1>1, StepsAre
  <2>2. NodeInDir(<<x + 1, y - 1>>, 3) = <<x, y - 1>>
    BY <1>1, <1>2 DEF NodeInDir, xOffset, yOffset
  <2>3. (g + 4) % 6 = 3 /\ (g + 5) % 6 = 4
    BY <1>8
  <2> QED
    BY <1>8, <2>1, <2>2, <2>3
<1> QED
  BY <1>3, <1>4, <1>5, <1>6, <1>7, <1>8 DEF Dir

\* A root that walks on keeps the hexagon on the same side.
LEMMA ExpandKeeps ==
  ASSUME Core, NEW p \in particles, Expand(p)
  PROVE  Core' /\ Still
<1> DEFINE d == hexagonDir[p]
           g == LocalToGlobalDir(body[p], d)
<1>1. /\ IsContracted(body[p]) /\ p \in Roots /\ ~ HasNbrAtLabel(p, d)
      /\ body' = AfterExpand(p, d) /\ UNCHANGED <<state, parentDir, hexagonDir>>
      /\ body[p] \in Body
  BY DEF Expand, Alpha4, Roots, InState, Core, Held, TypeOK
<1>2. d \in Dir /\ Pointed(body[p], (d + 5) % 6) \in Hexagon
  BY <1>1 DEF Core, Held, Ahead
<1>3. /\ particles' = particles /\ body' \in [particles -> Body] /\ ApartIn(body')
      /\ IsExpanded(body'[p]) /\ body'[p].orientation = body[p].orientation
      /\ body'[p].globalTailDir = Opposite(g)
      /\ body'[p].head = NbrNode(body[p], d)
      /\ Nodes(body'[p]) = {NbrNode(body[p], d), body[p].head}
      /\ Nodes(body[p]) = {body[p].head}
      /\ \A q \in particles \ {p} : body'[q] = body[q]
      /\ StaysConnected'
  BY <1>1, <1>2, ExpandMoves
<1>4. g \in Dir /\ 4 \in Dir /\ 5 \in Dir /\ body[p].head \in Node
      /\ NbrNode(body[p], d) = NodeInDir(body[p].head, g)
  BY <1>1, <1>2, CompassType, ContractedPorts, NodesType DEF Pointed, Dir
<1>5. TailDir(body'[p]) = Opposite(d)
  <2>1. /\ body'[p] \in Body
        /\ TailDir(body'[p]) \in Dir
        /\ LocalToGlobalDir(body'[p], TailDir(body'[p])) = Opposite(g)
    BY <1>3, ExpandedFrame
  <2>2. Opposite(d) \in Dir /\ LocalToGlobalDir(body[p], Opposite(d)) = Opposite(g)
    BY <1>1, <1>2, OppositeType, CompassInverse
  <2>3. LocalToGlobalDir(body'[p], Opposite(d)) = Opposite(g)
    BY <1>3, <2>2 DEF LocalToGlobalDir
  <2> QED
    BY <2>1, <2>2, <2>3, CompassInverse
<1>6. Pointed(body'[p], (d + 4) % 6) \in Hexagon
  <2>1. /\ LocalToGlobalDir(body[p], (d + 4) % 6) = (g + 4) % 6
        /\ LocalToGlobalDir(body[p], (d + 5) % 6) = (g + 5) % 6
    BY <1>1, <1>2, <1>4, CompassInverse
  <2>2. LocalToGlobalDir(body'[p], (d + 4) % 6) = (g + 4) % 6
    BY <1>3, <2>1 DEF LocalToGlobalDir
  <2> HIDE DEF g
  <2>3. Pointed(body'[p], (d + 4) % 6) = NodeInDir(body[p].head, (g + 5) % 6)
    BY <1>3, <1>4, <2>2, StepAround DEF Pointed
  <2> QED
    BY <1>2, <2>1, <2>3 DEF Pointed
<1> HIDE DEF g, d
<1>7. \A q \in Roots :
        /\ hexagonDir'[q] \in Dir
        /\ IsContracted(body'[q]) => Pointed(body'[q], (hexagonDir'[q] + 5) % 6) \in Hexagon
        /\ IsExpanded(body'[q]) => /\ hexagonDir'[q] = Opposite(TailDir(body'[q]))
                                   /\ Pointed(body'[q], (hexagonDir'[q] + 4) % 6) \in Hexagon
  <2> SUFFICES ASSUME NEW q \in Roots
               PROVE  /\ hexagonDir'[q] \in Dir
                      /\ IsContracted(body'[q]) => Pointed(body'[q], (hexagonDir'[q] + 5) % 6) \in Hexagon
                      /\ IsExpanded(body'[q]) =>
                           /\ hexagonDir'[q] = Opposite(TailDir(body'[q]))
                           /\ Pointed(body'[q], (hexagonDir'[q] + 4) % 6) \in Hexagon
    OBVIOUS
  <2>1. q \in particles
    BY DEF Roots, InState
  <2>2. CASE q = p
    <3>1. d = Opposite(Opposite(d))
      BY <1>2, OppositeType
    <3>2. hexagonDir'[q] = d
      BY <1>1, <2>2 DEF d
    <3> QED
      BY <1>2, <1>3, <1>5, <1>6, <2>2, <3>1, <3>2 DEF IsExpanded
  <2>3. CASE q # p
    BY <1>1, <1>3, <2>1, <2>3 DEF Core, Held, Ahead
  <2> QED
    BY <2>2, <2>3
<1>8. ASSUME NEW q \in Followers
      PROVE  /\ parentDir'[q] \in Dir /\ parentDir'[q] # TailDir(body'[q])
             /\ Up'[q] = Up[q] /\ Up'[q] \in Active /\ Target(q)' \in Nodes(body'[Up'[q]])
  <2>1. /\ q \in particles /\ q # p /\ parentDir[q] \in Dir /\ parentDir[q] # TailDir(body[q])
        /\ Up[q] \in Active /\ Up[q] \in particles
        /\ Target(q) \in Nodes(body[Up[q]])
    BY <1>1, FollowerPoints DEF Followers, Roots, InState
  <2>2. Target(q)' = Target(q)
    BY <1>1, <1>3, <2>1 DEF Target
  <2>3. Target(q) \in Nodes(body'[Up[q]])
    BY <1>3, <2>1
  <2>4. Up'[q] = Up[q]
    BY <1>3, <2>1, <2>2, <2>3, UpNext
  <2> QED
    BY <1>1, <1>3, <2>1, <2>2, <2>3, <2>4
<1>9. ForestOf(Followers, Up')
  BY <1>8 DEF Core, Held, Rooted, ForestOf
<1>10. MovesOnly
  <2>1. \A q \in InState({"Seed", "Idle", "Retired"}) : q \in particles /\ q # p
    BY <1>1 DEF Roots, InState
  <2>2. /\ parentDir' \in [particles -> {-1} \cup Dir]
        /\ hexagonDir' \in [particles -> {-1} \cup Dir]
    BY <1>1 DEF Core, Held, TypeOK
  <2> QED
    BY <1>1, <1>3, <1>7, <1>8, <1>9, <2>1, <2>2 DEF MovesOnly
<1> QED
  BY <1>3, <1>10, MovesKeep DEF Core

-----------------------------------------------------------------------------
(* Taking one's place                                                      *)

\* What a step keeps in which nobody moves and the hexagon does not grow.
LEMMA CoreKept ==
  ASSUME Core, Still, TypeOK', ApartIn(body'), Ahead', Led', Rooted', StaysConnected'
  PROVE  Core'
  BY HexagonStays DEF Core, Held

\* Becoming a root takes a particle off the forest.
LEMMA BecomeRootKeeps ==
  ASSUME Core, HexagonOpen, NEW p \in particles, BecomeRoot(p)
  PROVE  Core' /\ Still
<1> SUFFICES ASSUME NEW d, d = NextHexagonDir(p, 1)
             PROVE  Core' /\ Still
  OBVIOUS
<1>1. /\ body[p] \in Body /\ IsContracted(body[p]) /\ p \notin InHexagon
      /\ HexagonLabels(p) # {}
      /\ body' = body
      /\ state' = [state EXCEPT ![p] = "Root"]
      /\ parentDir' = [parentDir EXCEPT ![p] = -1]
      /\ hexagonDir' = [hexagonDir EXCEPT ![p] = d]
  BY DEF BecomeRoot, Alpha1, Core, Held, TypeOK, InHexagon, InState
<1>2. d \in Dir /\ Pointed(body[p], (d + 5) % 6) \in Hexagon
  <2>1. 1 = 1 \/ 1 = -1
    OBVIOUS
  <2> QED
    BY <1>1, <2>1, RootTurns
<1>3. /\ particles' = particles
      /\ state' \in [particles -> States]
      /\ state'[p] = "Root" /\ \A q \in particles \ {p} : state'[q] = state[q]
      /\ parentDir' \in [particles -> {-1} \cup Dir] /\ hexagonDir' \in [particles -> {-1} \cup Dir]
      /\ parentDir'[p] = -1 /\ \A q \in particles \ {p} : parentDir'[q] = parentDir[q]
      /\ hexagonDir'[p] = d /\ \A q \in particles \ {p} : hexagonDir'[q] = hexagonDir[q]
  BY <1>1, <1>2 DEF particles, Core, Held, TypeOK, States
<1>4. Still
  BY <1>1, <1>3 DEF Still, InHexagon, InState
<1>5. /\ Followers' = Followers \ {p} /\ Active \subseteq Active'
      /\ Roots' \subseteq Roots \cup {p}
      /\ InState({"Seed", "Idle", "Retired"})' \subseteq InState({"Seed", "Idle", "Retired"})
  BY <1>3 DEF Followers, Active, Roots, InState
<1>6. TypeOK'
  BY <1>1, <1>3, <1>5 DEF Core, Held, TypeOK
<1>7. ApartIn(body') /\ StaysConnected' /\ Hexagon' = Hexagon
  <2>1. Hexagon' = Hexagon /\ Occupied' = Occupied
    BY <1>1, <1>4, HexagonStays DEF Occupied, Still
  <2> QED
    BY <1>1, <2>1 DEF Core, Held, StaysConnected
<1>8. Ahead'
  <2>1. ASSUME NEW q \in Roots', q # p
        PROVE  q \in Roots /\ hexagonDir'[q] = hexagonDir[q] /\ body'[q] = body[q]
    BY <1>1, <1>3, <1>5, <2>1 DEF Roots, InState
  <2>2. body'[p] = body[p] /\ ~ IsExpanded(body'[p])
    BY <1>1 DEF IsExpanded
  <2> QED
    BY <1>2, <1>3, <1>7, <2>1, <2>2 DEF Ahead, Core, Held
<1>9. \A q \in Followers' : /\ q \in Followers /\ q \in particles
                            /\ parentDir'[q] = parentDir[q] /\ Target(q)' = Target(q)
  BY <1>1, <1>3, <1>5, FollowerPoints DEF Target
<1>10. Led'
  <2>1. \A q \in particles \ Followers' : parentDir'[q] = -1
    BY <1>3, <1>5 DEF Led, Core, Held
  <2> QED
    BY <1>1, <1>3, <1>5, <1>9, <2>1 DEF Led, Core, Held
<1>11. \A q \in Followers' : Up'[q] = Up[q]
  BY <1>1, <1>3, <1>7, <1>9, FollowerPoints, UpNext
<1>12. Rooted'
  BY <1>5, <1>11 DEF Rooted, ForestOf, Core, Held
<1> QED
  BY <1>4, <1>6, <1>7, <1>8, <1>10, <1>12, CoreKept

\* A new follower points at one that is in the forest, and nobody at it.
LEMMA BecomeFollowerKeeps ==
  ASSUME Core, NEW p \in particles, BecomeFollower(p)
  PROVE  Core' /\ Still
<1> DEFINE before == InState({"Follower", "Root"})
           L == LabelsOfNbrs(p, before)
<1> SUFFICES ASSUME NEW d, d = LabelOfFirstNbr(p, before, 0)
             PROVE  Core' /\ Still
  OBVIOUS
<1>1. /\ body[p] \in Body /\ IsContracted(body[p]) /\ state[p] = "Idle"
      /\ L # {} /\ body' = body /\ hexagonDir' = hexagonDir
      /\ state' = [state EXCEPT ![p] = "Follower"]
      /\ parentDir' = [parentDir EXCEPT ![p] = d]
  BY DEF BecomeFollower, Alpha2, HasNbrInState, InState, Core, Held, TypeOK
<1>2. d \in L /\ L \subseteq Dir
  <2>1. Labels(body[p]) = Dir /\ LabelLimit(body[p]) = 6
    BY <1>1, ContractedFrame
  <2>2. L \subseteq Dir /\ d = FirstFrom(L, 0, 6)
    BY <2>1 DEF LabelsOfNbrs, LabelOfFirstNbr
  <2> HIDE DEF L
  <2> QED
    BY <1>1, <2>2, FirstFound
<1>3. PICK r \in before : NbrNode(body[p], d) \in Nodes(body[r])
  BY <1>2 DEF LabelsOfNbrs
<1>4. r \in Active /\ r \in particles
  BY DEF Active, InState
<1> HIDE DEF L, before
<1>5. /\ d \in Dir /\ NbrNode(body[p], d) = Pointed(body[p], d)
      /\ TailDir(body[p]) = -1 /\ d # -1
      /\ Pointed(body[p], d) \notin Nodes(body[p])
  <2>1. d \in Dir /\ TailDir(body[p]) = -1 /\ d # -1
    BY <1>1, <1>2, ContractedFrame DEF Dir
  <2> QED
    BY <1>1, <2>1, ContractedPorts, PointerPort
<1>6. /\ particles' = particles
      /\ state' \in [particles -> States]
      /\ state'[p] = "Follower" /\ \A q \in particles \ {p} : state'[q] = state[q]
      /\ parentDir' \in [particles -> {-1} \cup Dir]
      /\ parentDir'[p] = d /\ \A q \in particles \ {p} : parentDir'[q] = parentDir[q]
  BY <1>1, <1>5 DEF particles, Core, Held, TypeOK, States
<1>7. Still
  BY <1>1, <1>6 DEF Still, InHexagon, InState
<1>8. /\ Followers' = Followers \cup {p} /\ p \notin Followers /\ p \notin Active
      /\ Active' = Active \cup {p} /\ Roots' = Roots
      /\ InState({"Seed", "Idle", "Retired"})' \subseteq InState({"Seed", "Idle", "Retired"})
  BY <1>1, <1>6 DEF Followers, Active, Roots, InState
<1>9. TypeOK'
  BY <1>1, <1>6, <1>8 DEF Core, Held, TypeOK
<1>10. ApartIn(body') /\ Ahead' /\ StaysConnected'
  <2>1. Hexagon' = Hexagon /\ Occupied' = Occupied
    BY <1>1, <1>7, HexagonStays DEF Occupied, Still
  <2> QED
    BY <1>1, <1>8, <2>1 DEF Core, Held, Ahead, StaysConnected
<1>11. Target(p)' = NbrNode(body[p], d)
  BY <1>1, <1>5, <1>6 DEF Target
<1>12. ASSUME NEW q \in Followers
       PROVE  /\ q \in particles /\ parentDir'[q] = parentDir[q] /\ Target(q)' = Target(q)
              /\ Up[q] \in particles /\ Target(q) \in Nodes(body'[Up[q]]) /\ Up[q] # p
  <2>1. q # p /\ q \in particles
    BY <1>8, FollowerPoints
  <2> QED
    BY <1>1, <1>6, <1>8, <2>1, FollowerPoints DEF Target
<1>13. Led'
  <2>1. /\ parentDir'[p] \in Dir /\ parentDir'[p] # TailDir(body'[p])
        /\ Target(p)' \in Nodes(body'[r]) /\ r \in Active'
    BY <1>1, <1>3, <1>4, <1>5, <1>6, <1>8, <1>11
  <2>2. ASSUME NEW q \in Followers
        PROVE  /\ parentDir'[q] \in Dir /\ parentDir'[q] # TailDir(body'[q])
               /\ \E s \in Active' : Target(q)' \in Nodes(body'[s])
    BY <1>1, <1>8, <1>12 DEF Core, Held, Led
  <2>3. \A q \in particles \ Followers' : parentDir'[q] = -1
    BY <1>6, <1>8 DEF Core, Held, Led
  <2> QED
    BY <1>6, <1>8, <2>1, <2>2, <2>3 DEF Led
<1>14. Up'[p] = r /\ r # p
  BY <1>1, <1>3, <1>4, <1>6, <1>8, <1>10, <1>11, UpNext
<1>15. \A q \in Followers : Up'[q] = Up[q]
  BY <1>6, <1>10, <1>12, UpNext
<1>16. Rooted'
  <2>1. \A q \in Followers : Up'[q] = Up[q] /\ Up[q] # p
    BY <1>12, <1>15
  <2>2. ForestOf(Followers, Up)
    BY DEF Core, Held, Rooted
  <2>3. ForestOf(Followers \cup {p}, Up')
    BY <1>14, <2>1, <2>2, ForestJoined
  <2> QED
    BY <1>8, <2>3 DEF Rooted
<1> QED
  BY <1>7, <1>9, <1>10, <1>13, <1>16, CoreKept

\* Some particle of the hexagon points at the root that retires.
LEMMA PointedAt ==
  ASSUME Core, NEW p \in Roots, IsContracted(body[p]), CanRetire(p)
  PROVE  \E q \in InHexagon : Pointed(body[q], hexagonDir[q]) = body[p].head
<1>1. p \in particles /\ body[p] \in Body
  BY DEF Roots, InState, Core, Held, TypeOK
<1>2. PICK l \in HexagonLabels(p) :
        PointsAtMe(body[p], body[NbrAtLabel(p, l)], hexagonDir[NbrAtLabel(p, l)])
  BY DEF CanRetire
<1>3. NbrNode(body[p], l) \in Hexagon
  BY <1>1, <1>2, HexagonPorts
<1>4. PICK q \in InHexagon : body[q].head = NbrNode(body[p], l)
  BY <1>3 DEF Hexagon, InHexagon
<1>5. NbrAtLabel(p, l) = q
  BY <1>4, HexagonNodes, ParticleFound DEF NbrAtLabel, Core, Held
<1>6. body[q] \in Body /\ IsContracted(body[q]) /\ hexagonDir[q] \in Dir
  BY HexagonNodes DEF Core, Held, Anchored
<1>7. PointsAtMe(body[p], body[q], hexagonDir[q]) => Pointed(body[q], hexagonDir[q]) = body[p].head
  BY <1>1, <1>6, ContractedPorts DEF PointsAtMe, PointsAtMyHead, IsExpanded
<1> QED
  BY <1>2, <1>5, <1>7

\* A root retires beside the hexagon and becomes part of it: where one of the
\* hexagon points, and itself along the hexagon, away from the side it keeps.
LEMMA RetireKeeps ==
  ASSUME Core, HexagonOpen, NEW p \in particles, Retire(p)
  PROVE  /\ Core'
         /\ p \in Roots /\ IsContracted(body[p]) /\ body' = body
         /\ InHexagon' = InHexagon \cup {p} /\ Hexagon' = Hexagon \cup {body[p].head}
         /\ \A q \in particles \ {p} : hexagonDir'[q] = hexagonDir[q]
         /\ hexagonDir'[p] \in Dir
         /\ Pointed(body[p], hexagonDir'[p]) \notin Hexagon
         /\ Pointed(body[p], (hexagonDir'[p] + 1) % 6) \in Hexagon
         /\ \E q \in InHexagon : Pointed(body[q], hexagonDir[q]) = body[p].head
<1> SUFFICES ASSUME NEW d, d = NextHexagonDir(p, -1)
             PROVE  /\ Core'
                    /\ p \in Roots /\ IsContracted(body[p]) /\ body' = body
                    /\ InHexagon' = InHexagon \cup {p} /\ Hexagon' = Hexagon \cup {body[p].head}
                    /\ \A q \in particles \ {p} : hexagonDir'[q] = hexagonDir[q]
                    /\ hexagonDir'[p] \in Dir
                    /\ Pointed(body[p], hexagonDir'[p]) \notin Hexagon
                    /\ Pointed(body[p], (hexagonDir'[p] + 1) % 6) \in Hexagon
                    /\ \E q \in InHexagon : Pointed(body[q], hexagonDir[q]) = body[p].head
  OBVIOUS
<1>1. /\ p \in Roots /\ IsContracted(body[p]) /\ body[p] \in Body /\ CanRetire(p)
      /\ body' = body /\ parentDir' = parentDir
      /\ state' = [state EXCEPT ![p] = "Retired"]
      /\ hexagonDir' = [hexagonDir EXCEPT ![p] = d]
  BY DEF Retire, Alpha3, Roots, InState, Core, Held, TypeOK
<1>2. p \notin InHexagon /\ HexagonLabels(p) # {}
  <2>1. p \notin InHexagon
    BY <1>1 DEF Roots, InHexagon, InState
  <2>2. Nbrs(body[p].head) \cap Hexagon # {}
    BY <1>1, RootsBeside DEF Core, Held, Beside
  <2> QED
    BY <1>1, <2>1, <2>2, HexagonPorts
<1>3. /\ d \in Dir /\ Pointed(body[p], d) \notin Hexagon
      /\ Pointed(body[p], (d + 1) % 6) \in Hexagon
  <2>1. -1 = 1 \/ -1 = -1
    OBVIOUS
  <2> QED
    BY <1>1, <1>2, <2>1, RootTurns
<1>4. /\ particles' = particles
      /\ state' \in [particles -> States]
      /\ state'[p] = "Retired" /\ \A q \in particles \ {p} : state'[q] = state[q]
      /\ hexagonDir' \in [particles -> {-1} \cup Dir]
      /\ hexagonDir'[p] = d /\ \A q \in particles \ {p} : hexagonDir'[q] = hexagonDir[q]
  BY <1>1, <1>3 DEF particles, Core, Held, TypeOK, States
<1>5. /\ InHexagon' = InHexagon \cup {p}
      /\ Followers' = Followers /\ Followers \subseteq particles
      /\ Active' = Active /\ Roots' = Roots \ {p}
      /\ InState({"Seed", "Idle", "Retired"})' = InState({"Seed", "Idle", "Retired"}) \cup {p}
  BY <1>1, <1>4 DEF InHexagon, Followers, Active, Roots, InState
<1>6. Hexagon' = Hexagon \cup {body[p].head}
  BY <1>1, <1>5 DEF Hexagon, InHexagon
<1>7. TypeOK'
  BY <1>1, <1>4, <1>5 DEF Core, Held, TypeOK
<1>8. ApartIn(body') /\ StaysConnected'
  <2>1. Occupied' = Occupied
    BY <1>1, <1>4 DEF Occupied
  <2> QED
    BY <1>1, <2>1 DEF Core, Held, StaysConnected
<1>9. Ahead'
  <2> SUFFICES ASSUME NEW q \in Roots'
               PROVE  /\ hexagonDir'[q] \in Dir
                      /\ IsContracted(body'[q]) => Pointed(body'[q], (hexagonDir'[q] + 5) % 6) \in Hexagon'
                      /\ IsExpanded(body'[q]) => /\ hexagonDir'[q] = Opposite(TailDir(body'[q]))
                                                 /\ Pointed(body'[q], (hexagonDir'[q] + 4) % 6) \in Hexagon'
    BY DEF Ahead
  <2>1. q \in Roots /\ q \in particles /\ q # p
    BY <1>5 DEF Roots, InState
  <2> QED
    BY <1>1, <1>4, <1>6, <2>1 DEF Core, Held, Ahead
<1>10. Anchored'
  <2>1. Connected(Hexagon')
    <3> DEFINE n == Pointed(body[p], (d + 1) % 6)
    <3>1. (d + 1) % 6 \in Dir
      BY <1>3 DEF Dir
    <3>2. body[p].head \in Node /\ n \in Node /\ n \in Nbrs(body[p].head)
      BY <1>1, <3>1, NodesType, ContractedPorts
    <3>3. Adjacent(n, body[p].head)
      BY <3>2, AdjacentSymmetric DEF Adjacent
    <3> HIDE DEF n
    <3> QED
      BY <1>3, <1>6, <3>2, <3>3, ConnectedJoined, HexagonNodes DEF n, Core, Held, Anchored
  <2>2. \A q \in particles : state'[q] = "Seed" <=> q = 1
    <3>1. p # 1
      BY <1>2, HexagonNodes
    <3> QED
      BY <1>4, <3>1 DEF Core, Held, Anchored
  <2>3. \A q \in InHexagon' : hexagonDir'[q] \in Dir
    BY <1>3, <1>4, <1>5, HexagonNodes DEF Core, Held, Anchored
  <2> QED
    BY <1>1, <1>4, <2>1, <2>2, <2>3 DEF Core, Held, Anchored
<1>11. \A q \in Followers : Target(q)' = Target(q)
  BY <1>1 DEF Target
<1>12. Led'
  BY <1>1, <1>4, <1>5, <1>11 DEF Led, Core, Held
<1>13. \A q \in Followers : Up'[q] = Up[q]
  BY <1>1, <1>4, <1>8, <1>11, FollowerPoints, UpNext
<1>14. Rooted'
  BY <1>5, <1>13 DEF Rooted, ForestOf, Core, Held
<1>15. \E q \in InHexagon : Pointed(body[q], hexagonDir[q]) = body[p].head
  BY <1>1, PointedAt
<1> QED
  BY <1>1, <1>3, <1>4, <1>5, <1>6, <1>7, <1>8, <1>9, <1>10, <1>12, <1>14, <1>15 DEF Core, Held

-----------------------------------------------------------------------------
(* How the hexagon grows                                                   *)

\* As the seed sees it in a mirror: the hexagon grows counter-clockwise.
Compass       == body[1].orientation
Seen(n)       == Mirrored(Rotated(Compass, n))
SeenDir(p, d) == (6 - NbrDirToDir(body[1], body[p], d)) % 6

\* What a particle of the hexagon points at.
Aim(q) == Pointed(body[q], hexagonDir[q])

\* Every node is seen as one node, the seed's own as the origin.
LEMMA SeenNode ==
  ASSUME Core
  PROVE  /\ Compass \in Dir
         /\ \A n \in Node : Seen(n) \in Node /\ (Seen(n) = <<0, 0>> <=> n = <<0, 0>>)
         /\ \A m, n \in Node : Seen(m) = Seen(n) => m = n
<1>1. Compass \in Dir
  BY HexagonNodes DEF Compass, Body
<1>2. \A n \in Node : /\ Rotated(Compass, n) \in Node
                      /\ Rotated(Compass, n) = <<0, 0>> <=> n = <<0, 0>>
                      /\ Rotated((6 - Compass) % 6, Rotated(Compass, n)) = n
  BY <1>1, RotatedNode
<1>3. \A n \in Node : /\ Seen(n) \in Node /\ (Seen(n) = <<0, 0>> <=> n = <<0, 0>>)
                      /\ Mirrored(Seen(n)) = Rotated(Compass, n)
  BY <1>2, MirroredNode DEF Seen
<1>4. ASSUME NEW m \in Node, NEW n \in Node, Seen(m) = Seen(n) PROVE m = n
  BY <1>2, <1>3, <1>4
<1> QED
  BY <1>1, <1>3, <1>4

\* A step in a direction of a particle's compass, and in the one after it.
LEMMA SeenStep ==
  ASSUME Core, NEW p \in particles, NEW d \in Dir
  PROVE  /\ SeenDir(p, d) \in Dir /\ Pointed(body[p], d) \in Node
         /\ Seen(Pointed(body[p], d)) = NodeInDir(Seen(body[p].head), SeenDir(p, d))
         /\ SeenDir(p, (d + 1) % 6) = (SeenDir(p, d) + 5) % 6
<1>1. body[p] \in Body /\ body[1] \in Body /\ body[p].head \in Node /\ Compass \in Dir
  BY SeenNode, NodesType DEF Core, Held, TypeOK, Anchored
<1> DEFINE g == LocalToGlobalDir(body[p], d)
           e == NbrDirToDir(body[1], body[p], d)
<1>2. g \in Dir /\ e = GlobalToLocalDir(body[1], g) /\ e \in Dir
  BY <1>1, CompassType DEF NbrDirToDir
<1>3. (Compass + e) % 6 = g
  BY <1>1, <1>2, CompassInverse DEF LocalToGlobalDir, Compass
<1>4. Pointed(body[p], d) = NodeInDir(body[p].head, g) /\ Pointed(body[p], d) \in Node
  BY <1>1, <1>2, NodeInDirType DEF Pointed
<1>5. 1 \in Dir /\ LocalToGlobalDir(body[p], (d + 1) % 6) = (g + 1) % 6
  BY <1>1, CompassInverse DEF Dir
<1>6. NbrDirToDir(body[1], body[p], (d + 1) % 6) = GlobalToLocalDir(body[1], (g + 1) % 6)
  BY <1>5 DEF NbrDirToDir
<1> HIDE DEF g, e
<1>7. GlobalToLocalDir(body[1], (g + 1) % 6) = (GlobalToLocalDir(body[1], g) + 1) % 6
  BY <1>1, <1>2 DEF GlobalToLocalDir, Body, Dir
<1>8. Rotated(Compass, Pointed(body[p], d)) = NodeInDir(Rotated(Compass, body[p].head), e)
  BY <1>1, <1>2, <1>3, <1>4, RotatedStep
<1>9. Rotated(Compass, body[p].head) \in Node
  BY <1>1, RotatedNode
<1>10. SeenDir(p, d) = (6 - e) % 6
  BY DEF SeenDir, e
<1>11. /\ (6 - e) % 6 \in Dir
       /\ Seen(Pointed(body[p], d)) = NodeInDir(Seen(body[p].head), (6 - e) % 6)
  BY <1>2, <1>8, <1>9, MirroredStep DEF Seen
<1>12. SeenDir(p, (d + 1) % 6) = (6 - ((e + 1) % 6)) % 6
  BY <1>2, <1>6, <1>7 DEF SeenDir
<1>13. (6 - ((e + 1) % 6)) % 6 = (((6 - e) % 6) + 5) % 6
  <2>1. e = 0 \/ e = 1 \/ e = 2 \/ e = 3 \/ e = 4 \/ e = 5
    BY <1>2 DEF Dir
  <2> QED
    BY <2>1
<1> QED
  BY <1>4, <1>10, <1>11, <1>12, <1>13

\* The hexagon is at stage (k, s, j), and a particle that points off it points
\* at the node to be filled.
GrownAt(k, s, j) ==
  /\ k \in Nat \ {0} /\ s \in 0..5 /\ j \in 1 .. HexLength(k, s)
  /\ \A n \in Node : n \in Hexagon <=> HexFilled(k, s, j, Seen(n))
  /\ IsFiniteSet(Hexagon) /\ 2 * Cardinality(Hexagon) = HexTwice(k, s, j)
  /\ \A q \in InHexagon : Aim(q) \notin Hexagon => Seen(Aim(q)) = HexNext(k, s, j)

\* The hexagon is at some stage.
Grown == \E k, s, j : GrownAt(k, s, j)

\* A hexagon that grows like this walls no node in.
LEMMA GrownOpen ==
  ASSUME Core, Grown
  PROVE  HexagonOpen
<1> SUFFICES ASSUME NEW n \in Node, n \notin Hexagon, NEW e \in Dir
             PROVE  \E d \in Dir \ {e} : NodeInDir(n, d) \notin Hexagon
  BY DEF HexagonOpen
<1>1. PICK k, s, j : GrownAt(k, s, j)
  BY DEF Grown
\* How direction d is seen, and which direction is seen as d.
<1> DEFINE x(d) == (6 - ((d + 6 - Compass) % 6)) % 6
           y(d) == (Compass + ((6 - d) % 6)) % 6
<1>2. \A d \in Dir : x(d) \in Dir /\ y(d) \in Dir /\ x(y(d)) = d /\ y(x(d)) = d
  <2> TAKE d \in Dir
  <2>1. d = 0 \/ d = 1 \/ d = 2 \/ d = 3 \/ d = 4 \/ d = 5
    BY DEF Dir
  <2>2. \/ Compass = 0 \/ Compass = 1 \/ Compass = 2
        \/ Compass = 3 \/ Compass = 4 \/ Compass = 5
    BY SeenNode DEF Dir
  <2> QED
    BY <2>1, <2>2 DEF Dir
<1>3. ASSUME NEW d \in Dir
      PROVE  /\ NodeInDir(n, y(d)) \in Node
             /\ Seen(NodeInDir(n, y(d))) = NodeInDir(Seen(n), d)
  <2> DEFINE c == (6 - d) % 6
  <2>1. c \in Dir /\ (6 - c) % 6 = d
    <3>1. d = 0 \/ d = 1 \/ d = 2 \/ d = 3 \/ d = 4 \/ d = 5
      BY DEF Dir
    <3> QED
      BY <3>1 DEF Dir
  <2>2. Rotated(Compass, NodeInDir(n, (Compass + c) % 6)) = NodeInDir(Rotated(Compass, n), c)
    BY <2>1, SeenNode, RotatedStep
  <2>3. Rotated(Compass, n) \in Node
    BY SeenNode, RotatedNode
  <2>4. Mirrored(NodeInDir(Rotated(Compass, n), c)) = NodeInDir(Seen(n), d)
    BY <2>1, <2>3, MirroredStep DEF Seen
  <2>5. y(d) = (Compass + c) % 6
    OBVIOUS
  <2>6. NodeInDir(n, y(d)) \in Node
    BY <1>2, NodeInDirType
  <2> HIDE DEF c, y
  <2> QED
    BY <2>2, <2>4, <2>5, <2>6 DEF Seen
<1> HIDE DEF x, y
<1>4. Seen(n) \in Node /\ ~ HexFilled(k, s, j, Seen(n))
  BY <1>1, SeenNode DEF GrownAt
<1>5. PICK d \in Dir \ {x(e)} : ~ HexFilled(k, s, j, NodeInDir(Seen(n), d))
  BY <1>1, <1>4, HexWide DEF GrownAt
<1>6. y(d) \in Dir /\ y(d) # e
  BY <1>2, <1>5
<1>7. NodeInDir(n, y(d)) \notin Hexagon
  BY <1>1, <1>3, <1>5 DEF GrownAt
<1> QED
  BY <1>6, <1>7

\* Steps beside the hexagon do not change how it has grown.
LEMMA StillKeepsGrown ==
  ASSUME Core, Still, Grown
  PROVE  Grown'
<1>1. /\ particles' = particles /\ InHexagon' = InHexagon /\ Hexagon' = Hexagon
      /\ \A q \in InHexagon : body'[q] = body[q] /\ hexagonDir'[q] = hexagonDir[q]
  BY HexagonStays DEF Still
<1>2. body'[1] = body[1]
  BY <1>1, HexagonNodes
<1>3. (\A n : Seen(n)' = Seen(n)) /\ \A q \in InHexagon : Aim(q)' = Aim(q)
  BY <1>1, <1>2 DEF Seen, Compass, Aim
<1>4. ASSUME NEW k, NEW s, NEW j, GrownAt(k, s, j) PROVE GrownAt(k, s, j)'
  BY <1>1, <1>3, <1>4 DEF GrownAt
<1> QED
  BY <1>4 DEF Grown

\* A root that retires fills the node to be filled, and points at the next one:
\* the only one round there that is free and comes after one that is filled.
LEMMA RetireGrows ==
  ASSUME Core, Grown, NEW p \in particles, Retire(p)
  PROVE  Core' /\ Grown'
<1>1. /\ Core'
      /\ p \in Roots /\ IsContracted(body[p]) /\ body' = body
      /\ InHexagon' = InHexagon \cup {p} /\ Hexagon' = Hexagon \cup {body[p].head}
      /\ \A q \in particles \ {p} : hexagonDir'[q] = hexagonDir[q]
      /\ hexagonDir'[p] \in Dir
      /\ Pointed(body[p], hexagonDir'[p]) \notin Hexagon
      /\ Pointed(body[p], (hexagonDir'[p] + 1) % 6) \in Hexagon
      /\ \E q \in InHexagon : Pointed(body[q], hexagonDir[q]) = body[p].head
  BY GrownOpen, RetireKeeps
<1>2. PICK k, s, j : GrownAt(k, s, j)
  BY DEF Grown
<1> SUFFICES ASSUME NEW H, H = body[p].head, NEW d, d = hexagonDir'[p],
                    NEW a, a = Advanced(k, s, j, HexLength(k, s), 5),
                    NEW N, N = HexNext(k, s, j)
             PROVE  GrownAt(a[1], a[2], a[3])'
  BY <1>1 DEF Grown
<1>3. /\ k \in Nat \ {0} /\ s \in 0..5 /\ j \in 1 .. HexLength(k, s)
      /\ \A n \in Node : n \in Hexagon <=> HexFilled(k, s, j, Seen(n))
      /\ IsFiniteSet(Hexagon) /\ 2 * Cardinality(Hexagon) = HexTwice(k, s, j)
      /\ \A q \in InHexagon : Aim(q) \notin Hexagon => Seen(Aim(q)) = N
  BY <1>2 DEF GrownAt
<1>4. p \notin InHexagon /\ p # 1 /\ body[p] \in Body /\ body[1] \in Body
  BY <1>1, HexagonNodes DEF Roots, InHexagon, InState, Core, Held, TypeOK
<1>5. H \in Node /\ H \notin Hexagon /\ H \in Nodes(body[p])
  BY <1>4, HexagonNodes, NodesType
<1>6. Seen(H) = N
  BY <1>1, <1>3, <1>5 DEF Aim
<1>7. /\ \A n : Seen(n)' = Seen(n)
      /\ \A q \in InHexagon : Aim(q)' = Aim(q)
  BY <1>1, <1>4, HexagonNodes DEF Seen, Compass, Aim
\* What stage comes next.
<1>8. /\ a[1] \in Nat \ {0} /\ a[2] \in 0..5 /\ a[3] \in 1 .. HexLength(a[1], a[2])
      /\ \A n \in Node : HexFilled(a[1], a[2], a[3], n) <=> HexFilled(k, s, j, n) \/ n = N
      /\ HexTwice(a[1], a[2], a[3]) = HexTwice(k, s, j) + 2
  <2>1. CASE j < HexLength(k, s)
    <3>1. a = <<k, s, j + 1>>
      BY <2>1 DEF Advanced
    <3>2. j + 1 \in 1 .. HexLength(k, s)
      BY <1>3, <2>1 DEF HexLength
    <3>3. a[1] = k /\ a[2] = s /\ a[3] = j + 1
      BY <3>1
    <3>4. \A n \in Node : HexFilled(k, s, j + 1, n) <=> HexFilled(k, s, j, n) \/ n = HexNext(k, s, j)
      BY <1>3, <2>1, <3>2, HexGrow1
    <3>5. HexTwice(k, s, j + 1) = HexTwice(k, s, j) + 2
      <4>1. <<0, 0>> \in Node
        BY DEF Node
      <4> QED
        BY <1>3, <2>1, <3>2, <4>1, HexGrow1
    <3> QED
      BY <1>3, <3>1, <3>2, <3>3, <3>4, <3>5
  <2>2. CASE ~ (j < HexLength(k, s)) /\ s < 5
    <3>1. a = <<k, s + 1, 1>> /\ j = HexLength(k, s) /\ s \in 0..4
      BY <1>3, <2>2 DEF Advanced, HexLength
    <3>2. 1 \in 1 .. HexLength(k, s + 1) /\ s + 1 \in 0..5
      BY <1>3, <3>1 DEF HexLength
    <3>3. a[1] = k /\ a[2] = s + 1 /\ a[3] = 1
      BY <3>1
    <3>4. \A n \in Node : HexFilled(k, s + 1, 1, n) <=> HexFilled(k, s, j, n) \/ n = HexNext(k, s, j)
      BY <1>3, <3>1, <3>2, HexGrow2
    <3>5. HexTwice(k, s + 1, 1) = HexTwice(k, s, j) + 2
      <4>1. <<0, 0>> \in Node
        BY DEF Node
      <4> QED
        BY <1>3, <3>1, <3>2, <4>1, HexGrow2
    <3> QED
      BY <1>3, <3>1, <3>2, <3>3, <3>4, <3>5
  <2>3. CASE ~ (j < HexLength(k, s)) /\ ~ (s < 5)
    <3>1. a = <<k + 1, 0, 1>> /\ s = 5 /\ j = HexLength(k, 5)
      BY <1>3, <2>3 DEF Advanced, HexLength
    <3>2. k + 1 \in Nat \ {0} /\ 1 \in 1 .. HexLength(k + 1, 0) /\ 0 \in 0..5
      BY <1>3 DEF HexLength
    <3>3. a[1] = k + 1 /\ a[2] = 0 /\ a[3] = 1
      BY <3>1
    <3>4. \A n \in Node : HexFilled(k + 1, 0, 1, n) <=> HexFilled(k, 5, j, n) \/ n = HexNext(k, 5, j)
      BY <1>3, <3>1, <3>2, HexGrow3
    <3>5. HexTwice(k + 1, 0, 1) = HexTwice(k, 5, j) + 2
      <4>1. <<0, 0>> \in Node
        BY DEF Node
      <4> QED
        BY <1>3, <3>1, <3>2, <4>1, HexGrow3
    <3> QED
      BY <1>3, <3>1, <3>2, <3>3, <3>4, <3>5
  <2> QED
    BY <2>1, <2>2, <2>3
\* Where the new one points.
<1> DEFINE D == SeenDir(p, d)
<1>9. /\ D \in Dir /\ Seen(Pointed(body[p], d)) = NodeInDir(N, D)
      /\ Seen(Pointed(body[p], (d + 1) % 6)) = NodeInDir(N, (D + 5) % 6)
      /\ Pointed(body[p], d) \in Node /\ Pointed(body[p], (d + 1) % 6) \in Node
  <2>1. (d + 1) % 6 \in Dir
    BY <1>1 DEF Dir
  <2> QED
    BY <1>1, <1>6, <2>1, SeenStep
<1>10. ~ HexFilled(k, s, j, NodeInDir(N, D)) /\ HexFilled(k, s, j, NodeInDir(N, (D + 5) % 6))
  BY <1>1, <1>3, <1>9
<1> HIDE DEF D
<1>11. Seen(Pointed(body[p], d)) = HexNext(a[1], a[2], a[3])
  BY <1>3, <1>9, <1>10, HexRun
<1>12. Aim(p)' = Pointed(body[p], d)
  BY <1>1 DEF Aim
<1>13. \A n \in Node : n \in Hexagon' <=> HexFilled(a[1], a[2], a[3], Seen(n))
  BY <1>1, <1>3, <1>5, <1>6, <1>8, SeenNode
<1>14. IsFiniteSet(Hexagon') /\ 2 * Cardinality(Hexagon') = HexTwice(a[1], a[2], a[3])
  <2>1. /\ IsFiniteSet(Hexagon') /\ Cardinality(Hexagon') = Cardinality(Hexagon) + 1
        /\ Cardinality(Hexagon) \in Nat
    BY <1>1, <1>3, <1>5, FS_AddElement, FS_CardinalityType
  <2> QED
    BY <1>3, <1>8, <2>1
<1>15. ASSUME NEW q \in InHexagon', Aim(q)' \notin Hexagon'
       PROVE  Seen(Aim(q))' = HexNext(a[1], a[2], a[3])
  <2>1. q = p
    <3>1. SUFFICES ASSUME q \in InHexagon PROVE FALSE
      BY <1>1, <1>15
    <3>2. Aim(q) \notin Hexagon /\ Aim(q) # H
      BY <1>1, <1>7, <1>15, <3>1
    <3>3. Seen(Aim(q)) = Seen(H)
      BY <1>3, <1>6, <3>1, <3>2
    <3>4. Aim(q) \in Node
      BY <3>1, HexagonNodes, SeenStep DEF Aim, Core, Held, Anchored
    <3> QED
      BY <1>5, <3>2, <3>3, <3>4, SeenNode
  <2>2. Seen(Aim(p))' = Seen(Aim(p)')
    BY <1>1 DEF Seen, Compass
  <2> QED
    BY <1>11, <1>12, <2>1, <2>2
<1>16. \A n \in Node : n \in Hexagon' <=> HexFilled(a[1], a[2], a[3], Seen(n)')
  BY <1>7, <1>13
<1> QED
  BY <1>8, <1>14, <1>15, <1>16 DEF GrownAt

-----------------------------------------------------------------------------
(* The inductive invariant of hexagon formation                            *)

\* The walkers are held, and the hexagon is at a stage of its spiral.
HexInv == Core /\ Grown

\* How a run may start: the seed at the origin, the others idle, in one piece.
\* It holds for the starts of the plain algorithm and of the framework's.
Begins ==
  \E places \in Seq(Node) :
    /\ places # << >> /\ places[1] = <<0, 0>>
    /\ \A i, j \in 1 .. Len(places) : places[i] = places[j] => i = j
    /\ Connected({places[i] : i \in 1 .. Len(places)})
    /\ \E compass : /\ \A p \in 1 .. Len(places) : compass[p] \in Dir
                    /\ body = [p \in 1 .. Len(places) |->
                                 [head |-> places[p], globalTailDir |-> -1,
                                  orientation |-> compass[p]]]
    /\ state = [p \in 1 .. Len(places) |-> IF p = 1 THEN "Seed" ELSE "Idle"]
    /\ parentDir = [p \in 1 .. Len(places) |-> -1]
    /\ hexagonDir = [p \in 1 .. Len(places) |-> IF p = 1 THEN 0 ELSE -1]

\* Then one seed, at the origin, is the hexagon.
LEMMA CoreBegins ==
  ASSUME Begins
  PROVE  /\ Core /\ InHexagon = {1} /\ Hexagon = {<<0, 0>>} /\ hexagonDir[1] = 0
<1>1. PICK places \in Seq(Node) :
        /\ places # << >> /\ places[1] = <<0, 0>>
        /\ \A i, j \in 1 .. Len(places) : places[i] = places[j] => i = j
        /\ Connected({places[i] : i \in 1 .. Len(places)})
        /\ \E compass : /\ \A p \in 1 .. Len(places) : compass[p] \in Dir
                        /\ body = [p \in 1 .. Len(places) |->
                                     [head |-> places[p], globalTailDir |-> -1,
                                      orientation |-> compass[p]]]
        /\ state = [p \in 1 .. Len(places) |-> IF p = 1 THEN "Seed" ELSE "Idle"]
        /\ parentDir = [p \in 1 .. Len(places) |-> -1]
        /\ hexagonDir = [p \in 1 .. Len(places) |-> IF p = 1 THEN 0 ELSE -1]
  BY DEF Begins
<1> DEFINE ids == 1 .. Len(places)
<1>2. PICK compass : /\ \A p \in ids : compass[p] \in Dir
                     /\ body = [p \in ids |-> [head |-> places[p], globalTailDir |-> -1,
                                               orientation |-> compass[p]]]
  BY <1>1
<1>3. 1 \in ids /\ \A p \in ids : places[p] \in Node
  BY <1>1
<1>4. particles = ids
  BY <1>2 DEF particles
<1> HIDE DEF ids
<1>5. \A p \in particles : /\ body[p] \in Body
                           /\ body[p].head = places[p]
                           /\ IsContracted(body[p])
  BY <1>2, <1>3, <1>4 DEF Body, IsContracted
<1>6. \A p \in particles : Nodes(body[p]) = {places[p]}
  BY <1>5 DEF Nodes
<1>7. body \in [particles -> Body]
  BY <1>2, <1>4, <1>5
<1>8. \A p \in particles : state[p] = IF p = 1 THEN "Seed" ELSE "Idle"
  BY <1>1, <1>4 DEF ids
<1>9. TypeOK
  <2>1. state \in [particles -> States]
    BY <1>1, <1>4 DEF States, ids
  <2>2. /\ parentDir \in [particles -> {-1} \cup Dir]
        /\ hexagonDir \in [particles -> {-1} \cup Dir]
    BY <1>1, <1>4 DEF ids, Dir
  <2> QED
    BY <1>5, <1>7, <2>1, <2>2 DEF TypeOK, InState
<1>10. ApartIn(body)
  BY <1>1, <1>4, <1>6 DEF ApartIn, particles, ids
<1>11. InHexagon = {1} /\ Roots = {} /\ Followers = {}
  BY <1>3, <1>4, <1>8 DEF InHexagon, Roots, Followers, InState
<1>12. Hexagon = {<<0, 0>>}
  <2>1. body[1].head = <<0, 0>>
    BY <1>1, <1>3, <1>4, <1>5
  <2>2. Hexagon = {body[p].head : p \in {1}}
    BY <1>11 DEF Hexagon, InHexagon
  <2> QED
    BY <2>1, <2>2
<1>13. hexagonDir[1] = 0 /\ \A p \in particles : parentDir[p] = -1
  BY <1>1, <1>3, <1>4 DEF ids
<1>14. Anchored
  <2>1. Connected(Hexagon)
    BY <1>12 DEF Connected
  <2>2. \A p \in particles : state[p] = "Seed" <=> p = 1
    BY <1>8
  <2>3. 1 \in particles /\ body[1].head = <<0, 0>>
    BY <1>1, <1>3, <1>4, <1>5
  <2>4. \A p \in InHexagon : hexagonDir[p] \in Dir
    BY <1>11, <1>13 DEF Dir
  <2> QED
    BY <2>1, <2>2, <2>3, <2>4 DEF Anchored
<1>15. StaysConnected
  <2>1. Occupied = {places[i] : i \in ids}
    <3>1. ASSUME NEW n \in Occupied PROVE \E p \in ids : n = places[p]
      <4>1. PICK p \in particles : n \in Nodes(body[p])
        BY DEF Occupied
      <4>2. n = places[p] /\ p \in ids
        BY <1>4, <1>6, <4>1
      <4> QED
        BY <4>2
    <3>2. ASSUME NEW p \in ids PROVE places[p] \in Occupied
      <4>1. places[p] \in Nodes(body[p]) /\ p \in particles
        BY <1>4, <1>6
      <4> QED
        BY <4>1 DEF Occupied
    <3> QED
      BY <3>1, <3>2
  <2> QED
    BY <1>1, <2>1 DEF StaysConnected, ids
<1> QED
  BY <1>9, <1>10, <1>11, <1>12, <1>13, <1>14, <1>15
     DEF Core, Held, Ahead, Led, Rooted, ForestOf

\* So the hexagon is at its first stage.
LEMMA HexBegins ==
  ASSUME Begins
  PROVE  HexInv
<1>1. Core /\ InHexagon = {1} /\ Hexagon = {<<0, 0>>} /\ hexagonDir[1] = 0
  BY CoreBegins
<1>2. /\ IsFiniteSet(Hexagon) /\ Cardinality(Hexagon) = 1
      /\ \A n \in Node : n \in Hexagon <=> HexFilled(1, 0, 1, Seen(n))
  <2>1. \A n \in Node : n \in Hexagon <=> Seen(n) = <<0, 0>>
    BY <1>1, SeenNode
  <2> QED
    BY <1>1, <2>1, SeenNode, HexFirst, FS_Singleton
<1>3. Seen(Aim(1)) = HexNext(1, 0, 1)
  <2>1. 1 \in particles /\ body[1] \in Body /\ body[1].head = <<0, 0>> /\ 0 \in Dir /\ <<0, 0>> \in Node
    BY <1>1, HexagonNodes DEF Core, Held, Anchored, Dir, Node
  <2>2. NbrDirToDir(body[1], body[1], 0) = 0
    BY <2>1, CompassInverse DEF NbrDirToDir
  <2>3. SeenDir(1, 0) = 0
    BY <2>2 DEF SeenDir
  <2>4. Seen(<<0, 0>>) = <<0, 0>>
    BY <1>1, <2>1, SeenNode
  <2>5. Seen(Aim(1)) = NodeInDir(<<0, 0>>, 0)
    BY <1>1, <2>1, <2>3, <2>4, SeenStep DEF Aim
  <2>6. NodeInDir(<<0, 0>>, 0) = <<1, 0>> /\ HexNext(1, 0, 1) = <<1, 0>>
    BY StepsAre DEF HexNext
  <2> QED
    BY <2>5, <2>6
<1>4. 2 = HexTwice(1, 0, 1) /\ 1 \in 1 .. HexLength(1, 0)
  BY DEF HexTwice, HexLength
<1>5. GrownAt(1, 0, 1)
  BY <1>1, <1>2, <1>3, <1>4 DEF GrownAt
<1> QED
  BY <1>1, <1>5 DEF HexInv, Grown

\* One case for each handler.
LEMMA HexStep ==
  ASSUME HexInv, [Next]_vars
  PROVE  HexInv'
<1>1. Core /\ Grown /\ HexagonOpen
  BY GrownOpen DEF HexInv
<1>2. ASSUME NEW p \in particles, BecomeRoot(p) PROVE HexInv'
  BY <1>1, <1>2, BecomeRootKeeps, StillKeepsGrown DEF HexInv
<1>3. ASSUME NEW p \in particles, BecomeFollower(p) PROVE HexInv'
  BY <1>1, <1>3, BecomeFollowerKeeps, StillKeepsGrown DEF HexInv
<1>4. ASSUME NEW p \in particles, Retire(p) PROVE HexInv'
  BY <1>1, <1>4, RetireGrows DEF HexInv
<1>5. ASSUME NEW p \in particles, Expand(p) PROVE HexInv'
  BY <1>1, <1>5, ExpandKeeps, StillKeepsGrown DEF HexInv
<1>6. ASSUME NEW p \in particles, Pull(p) PROVE HexInv'
  BY <1>1, <1>6, PullKeeps, StillKeepsGrown DEF HexInv
<1>7. ASSUME NEW p \in particles, ContractTail(p) PROVE HexInv'
  BY <1>1, <1>7, ContractTailKeeps, StillKeepsGrown DEF HexInv
<1>8. ASSUME UNCHANGED vars PROVE HexInv'
  <2>1. UNCHANGED <<body, state, parentDir, hexagonDir>>
    BY <1>8 DEF vars
  <2>2. Core'
    <3>1. /\ particles' = particles /\ InHexagon' = InHexagon /\ Roots' = Roots
          /\ Followers' = Followers /\ Active' = Active
          /\ Hexagon' = Hexagon /\ Occupied' = Occupied
      BY <2>1 DEF particles, InHexagon, Roots, Followers, Active, InState, Hexagon, Occupied
    <3>2. (\A q : Target(q)' = Target(q)) /\ Up' = Up
      BY <2>1 DEF Target, Up, ParticleAt, particles
    <3>3. TypeOK'
      BY <1>1, <2>1 DEF Core, Held, TypeOK, particles, InState
    <3>4. ApartIn(body')
      BY <1>1, <2>1 DEF Core, Held
    <3>5. Anchored' /\ Ahead' /\ StaysConnected'
      BY <1>1, <2>1, <3>1 DEF Core, Held, Anchored, Ahead, StaysConnected
    <3>6. Led'
      BY <1>1, <2>1, <3>1, <3>2 DEF Core, Held, Led
    <3>7. Rooted'
      BY <1>1, <3>1, <3>2 DEF Core, Held, Rooted
    <3> QED
      BY <3>3, <3>4, <3>5, <3>6, <3>7 DEF Core, Held
  <2>3. Still
    BY <2>1 DEF Still, particles, InHexagon, InState
  <2> QED
    BY <1>1, <2>2, <2>3, StillKeepsGrown DEF HexInv
<1> QED
  BY <1>2, <1>3, <1>4, <1>5, <1>6, <1>7, <1>8 DEF Next, Activate

\* At every stage it is a hexagon and the part of the next ring.
LEMMA HexagonFull ==
  ASSUME HexInv
  PROVE  HexagonIsFull
<1>1. Core /\ \E k, s, j : GrownAt(k, s, j)
  BY DEF HexInv, Grown
<1>2. PICK k, s, j : GrownAt(k, s, j)
  BY <1>1
<1>3. /\ k \in Nat \ {0} /\ s \in 0..5 /\ j \in 1 .. HexLength(k, s)
      /\ \A n \in Node : n \in Hexagon <=> HexFilled(k, s, j, Seen(n))
      /\ Cardinality(Hexagon) \in Nat /\ 2 * Cardinality(Hexagon) = HexTwice(k, s, j)
      /\ Hexagon \in SUBSET Node
  BY <1>1, <1>2, FS_CardinalityType, HexagonNodes DEF GrownAt
<1>4. PICK f : f = [n \in Node |-> Mirrored(Rotated(Compass, n))]
  OBVIOUS
<1>5. Compass \in Dir
  BY <1>1, SeenNode
<1>6. \A w \in Node : f[w] = Seen(w)
  BY <1>4 DEF Seen
<1>7. PICK h : Symmetry(f, h, 5)
  <2> HIDE DEF Compass
  <2> QED
    BY <1>4, <1>5, TurnedSymmetry
<1>8. f[<<0, 0>>] = <<0, 0>>
  <2>1. <<0, 0>> \in Node
    BY DEF Node
  <2> QED
    BY <1>1, <1>6, <2>1, SeenNode
<1>9. ASSUME NEW l \in Nat, NEW w \in Node PROVE w \in Ball(l) <=> f[w] \in Ball(l)
  <2>1. Rotated(Compass, w) \in Node
    BY <1>5, RotatedNode
  <2>2. w \in Ball(l) <=> Rotated(Compass, w) \in Ball(l)
    BY <1>5, BallTurned
  <2>3. Rotated(Compass, w) \in Ball(l) <=> Mirrored(Rotated(Compass, w)) \in Ball(l)
    <3> HIDE DEF Compass
    <3>1. 0 \in Dir
      BY DEF Dir
    <3> QED
      BY <2>1, <3>1, BallTurned
  <2> QED
    BY <1>4, <2>2, <2>3
<1>10. \A w \in Node : w \in Hexagon <=> HexFilled(k, s, j, f[w])
  BY <1>3, <1>6
<1> QED
  BY <1>3, <1>7, <1>8, <1>9, <1>10, HexagonIs DEF HexagonIsFull

\* What the runs check follows.
LEMMA HexCorrect == HexInv => TypeOK /\ HexagonIsFull /\ WalkersLed /\ StaysConnected
  BY GrownOpen, WalkersCorrect, HexagonFull DEF HexInv, Core, Held

\* HexagonFormation's own starts are such.
LEMMA InitBegins == Init => Begins
<1> SUFFICES ASSUME Init PROVE Begins
  OBVIOUS
<1>1. PICK places \in Starts :
        /\ \E compass \in Compasses :
             body = [p \in 1 .. Len(places) |-> [head |-> places[p], globalTailDir |-> -1,
                                                 orientation |-> compass[p]]]
        /\ state = [p \in 1 .. Len(places) |-> IF p = 1 THEN "Seed" ELSE "Idle"]
        /\ parentDir = [p \in 1 .. Len(places) |-> -1]
        /\ hexagonDir = [p \in 1 .. Len(places) |-> IF p = 1 THEN 0 ELSE -1]
  BY DEF Init
<1>2. /\ places \in Seq(Node) /\ places # << >> /\ places[1] = <<0, 0>>
      /\ \A i, j \in 1 .. Len(places) : places[i] = places[j] => i = j
      /\ Connected({places[i] : i \in 1 .. Len(places)})
      /\ \A compass \in Compasses : \A p \in 1 .. Len(places) : compass[p] \in Dir
  BY StartsAssumption
<1> QED
  BY <1>1, <1>2 DEF Begins

\* While particles follow, walk and retire in any order, the hexagon is at every
\* moment a whole one and the first nodes of its next ring (HexagonIsFull), nobody
\* loses the way to it, and the system stays in one piece: for every start and all
\* compasses.
THEOREM HexagonCorrect ==
  Init /\ [][Next]_vars => [](TypeOK /\ HexagonIsFull /\ WalkersLed /\ StaysConnected)
<1>1. Init => HexInv
  BY InitBegins, HexBegins
<1>2. HexInv /\ [Next]_vars => HexInv'
  BY HexStep
<1> QED
  BY <1>1, <1>2, HexCorrect, PTL

\* The plain algorithm starts so, from its own starts.
LEMMA PlainBegins ==
  ASSUME Plain!Init
  PROVE  Begins
<1>1. PICK places \in PlainStarts :
        /\ \E compass \in Compasses :
             body = [p \in 1 .. Len(places) |-> [head |-> places[p], globalTailDir |-> -1,
                                                 orientation |-> compass[p]]]
        /\ state = [p \in 1 .. Len(places) |-> IF p = 1 THEN "Seed" ELSE "Idle"]
        /\ parentDir = [p \in 1 .. Len(places) |-> -1]
        /\ hexagonDir = [p \in 1 .. Len(places) |-> IF p = 1 THEN 0 ELSE -1]
  BY DEF Plain!Init
<1>2. Plain!StartsAssumption
  BY InstancesAssumption
<1>3. Plain!Node = Node /\ Plain!Dir = Dir
  BY DEF Plain!Node, Node, Plain!Dir, Dir
<1>4. \A n : Plain!Nbrs(n) = Nbrs(n)
  <2>1. \A n, d : Plain!NodeInDir(n, d) = NodeInDir(n, d)
    BY DEF Plain!NodeInDir, NodeInDir, Plain!xOffset, xOffset, Plain!yOffset, yOffset
  <2> QED
    BY <1>3, <2>1 DEF Plain!Nbrs, Nbrs
<1>5. \A S : Plain!Connected(S) <=> Connected(S)
  BY <1>4 DEF Plain!Connected, Connected, Plain!Adjacent, Adjacent
<1>6. /\ places \in Seq(Node) /\ places # << >> /\ places[1] = <<0, 0>>
      /\ \A i, j \in 1 .. Len(places) : places[i] = places[j] => i = j
      /\ Connected({places[i] : i \in 1 .. Len(places)})
      /\ \A compass \in Compasses : \A p \in 1 .. Len(places) : compass[p] \in Dir
  BY <1>2, <1>3, <1>5 DEF Plain!StartsAssumption
<1> QED
  BY <1>1, <1>6 DEF Begins

\* The particles of the framework make the same steps as the plain ones, and
\* some that only move energy.
LEMMA PaidSteps ==
  ASSUME NEW p \in particles, EDFActivate(p)
  PROVE  [Next]_vars
  BY DEF EDFActivate, PaidStateChange, PaidExpand, PaidPull, PaidContractTail, DistributeEnergy,
         Next, Activate

\* Whatever a system with the hexagon does, it begins and steps as HexagonFormation.
LEMMA HexagonInMC ==
  /\ MCInit => (FormsHexagon => Begins)
  /\ [MCNext]_mcVars => UNCHANGED algorithm /\ (FormsHexagon => [Next]_vars)
<1>1. ASSUME MCInit, FormsHexagon PROVE Begins
  BY <1>1, PlainBegins, InitBegins DEF MCInit, FormsHexagon, EDFInit
<1>2. ASSUME NEW p \in particles, Activation(p)
      PROVE  UNCHANGED algorithm /\ (FormsHexagon => [Next]_vars)
  <2>1. CASE PlainActivation(p)
    BY <2>1 DEF PlainActivation, Next
  <2>2. CASE EDFActivation(p)
    BY <2>2, PaidSteps DEF EDFActivation
  <2>3. CASE PayingActivation(p)
    BY <2>3 DEF PayingActivation, FormsHexagon
  <2>4. CASE SharingActivation(p)
    BY <2>4 DEF SharingActivation, FormsHexagon
  <2> QED
    BY <1>2, <2>1, <2>2, <2>3, <2>4 DEF Activation
<1>3. ASSUME UNCHANGED mcVars PROVE UNCHANGED <<algorithm, vars>>
  BY <1>3 DEF mcVars, edfVars
<1> QED
  BY <1>1, <1>2, <1>3 DEF MCNext

\* So is the hexagon of every system that forms one, with or without the
\* framework: no hole in a closed ring and no gap in the last one at any moment.
THEOREM HexagonsCorrect == MCSpec => []HexagonsAreFull
<1> DEFINE Inv == FormsHexagon => HexInv
<1>1. MCInit => Inv
  BY HexagonInMC, HexBegins
<1>2. Inv /\ [MCNext]_mcVars => Inv'
  BY HexagonInMC, HexStep DEF FormsHexagon
<1>3. Inv => HexagonsAreFull
  BY HexCorrect DEF HexagonsAreFull
<1> QED
  BY <1>1, <1>2, <1>3, PTL DEF MCSpec

-----------------------------------------------------------------------------
(* The energy of the framework                                             *)

\* What a battery may hold.
Charges == 0 .. Capacity + TransferRate - 1

\* The energy of the particles of a set P.
EnergyOf(P) == [state : [P -> EnergyStates], up : [P -> -1 .. 9], battery : [P -> Charges]]

\* Those that have a parent, the node they point at, and who is there.
Members(e) == {q \in DOMAIN e.state : e.state[q] \in {"Active", "Asking", "Growing"}}
Reached(B, e, q) == NbrNode(B[q], e.up[q])
Above(B, e) == [q \in DOMAIN B |-> CHOOSE r \in DOMAIN B : Reached(B, e, q) \in Nodes(B[r])]

\* The forest of the energy e of the particles with bodies B: the members, and
\* nobody else, point at a particle that is not idle, and never round in a ring.
Standing(B, e) ==
  /\ \A q \in DOMAIN B : e.up[q] \in {-1} \cup Labels(B[q])
  /\ \A q \in DOMAIN B : e.up[q] # -1 <=> q \in Members(e)
  /\ \A q \in Members(e) : \E r \in DOMAIN B : Reached(B, e, q) \in Nodes(B[r]) /\ e.state[r] # "Idle"
  /\ ForestOf(Members(e), Above(B, e))

\* What the battery of a particle holds does not matter to the forest.
LEMMA BatteryApart ==
  ASSUME NEW B, NEW e, NEW f, f.state = e.state, f.up = e.up, Standing(B, e)
  PROVE  Standing(B, f)
<1>1. Members(f) = Members(e) /\ Above(B, f) = Above(B, e) /\ \A q : Reached(B, f, q) = Reached(B, e, q)
  BY DEF Members, Above, Reached
<1> QED
  BY <1>1 DEF Standing

\* One body points at another when its port leads onto it.
LEMMA PointsInto ==
  ASSUME NEW b \in Body, NEW nb, NEW l
  PROVE  PointsAtMe(b, nb, l) <=> NbrNode(nb, l) \in Nodes(b)
  BY NodesType DEF PointsAtMe, PointsAtMyHead, PointsAtMyTail, IsExpanded

\* Where particles move and leave the forest, it stands when the others still
\* point where they did, at one that is still there.
LEMMA ForestMoved ==
  ASSUME NEW P, NEW B \in [P -> Body], NEW C \in [P -> Body], ApartIn(B), ApartIn(C),
         NEW e \in EnergyOf(P), NEW f \in EnergyOf(P), Standing(B, e),
         Members(f) \subseteq Members(e),
         \A q \in P : f.up[q] \in {-1} \cup Labels(C[q]),
         \A q \in P : f.up[q] # -1 <=> q \in Members(f),
         \A q \in Members(f) : Reached(C, f, q) = Reached(B, e, q),
         \A q \in Members(f), r \in P :
           Reached(B, e, q) \in Nodes(B[r]) /\ e.state[r] # "Idle" =>
             Reached(B, e, q) \in Nodes(C[r]) /\ f.state[r] # "Idle"
  PROVE  Standing(C, f)
<1>1. DOMAIN B = P /\ DOMAIN C = P
  OBVIOUS
<1>2. Members(e) \subseteq P
  BY DEF Members, EnergyOf
<1>3. ASSUME NEW q \in Members(f)
      PROVE  /\ \E r \in P : Reached(C, f, q) \in Nodes(C[r]) /\ f.state[r] # "Idle"
             /\ Above(C, f)[q] = Above(B, e)[q]
  <2>1. PICK r \in P : Reached(B, e, q) \in Nodes(B[r]) /\ e.state[r] # "Idle"
    BY <1>1 DEF Standing
  <2>2. Reached(C, f, q) \in Nodes(C[r]) /\ f.state[r] # "Idle"
    BY <2>1
  <2>3. (CHOOSE s \in DOMAIN B : Reached(B, e, q) \in Nodes(B[s])) = r
    BY <1>1, <2>1, FoundOn
  <2>4. (CHOOSE s \in DOMAIN C : Reached(C, f, q) \in Nodes(C[s])) = r
    BY <1>1, <2>2, FoundOn
  <2> QED
    BY <1>1, <1>2, <2>2, <2>3, <2>4 DEF Above
<1>4. ForestOf(Members(f), Above(C, f))
  BY <1>3, ForestLeft DEF Standing
<1> QED
  BY <1>1, <1>3, <1>4 DEF Standing

\* prune(): the children lose their pointers, and the particle falls idle
\* unless it is a source.
LEMMA PrunedIs ==
  ASSUME NEW P, NEW e \in EnergyOf(P), NEW p \in P, NEW children,
         NEW f, f = Pruned(p, e, children)
  PROVE  /\ f \in EnergyOf(P) /\ f.battery = e.battery
         /\ \A q \in P : f.up[q] = IF q \in children THEN -1 ELSE e.up[q]
         /\ \A q \in P : f.state[q] = IF q \in children THEN "Pruning"
                                      ELSE IF q = p /\ e.state[p] # "Source" THEN "Idle"
                                      ELSE e.state[q]
<1> DEFINE S == [q \in P |-> IF q \in children THEN "Pruning"
                             ELSE IF q = p /\ e.state[p] # "Source" THEN "Idle" ELSE e.state[q]]
           U == [q \in P |-> IF q \in children THEN -1 ELSE e.up[q]]
<1>1. e.state \in [P -> EnergyStates] /\ e.up \in [P -> -1 .. 9] /\ e.battery \in [P -> Charges]
  BY DEF EnergyOf
<1>2. S \in [P -> EnergyStates] /\ U \in [P -> -1 .. 9]
  BY <1>1 DEF EnergyStates
<1>3. f = [e EXCEPT !.state = S, !.up = U]
  BY <1>1 DEF Pruned
<1> HIDE DEF S, U
<1>4. f \in EnergyOf(P) /\ f.battery = e.battery /\ f.state = S /\ f.up = U
  BY <1>1, <1>2, <1>3 DEF EnergyOf
<1> QED
  BY <1>4 DEF S, U

\* After it the members are the others; none of them pointed at the particle
\* when the children are those that do.
LEMMA PruningCuts ==
  ASSUME NEW P, NEW B \in [P -> Body], NEW e \in EnergyOf(P), Standing(B, e), NEW p \in P,
         NEW children,
         \A q \in P : q \in children <=> q # p /\ e.up[q] # -1 /\ PointsAtMe(B[p], B[q], e.up[q]),
         NEW f \in EnergyOf(P),
         \A q \in P : f.state[q] = IF q \in children THEN "Pruning"
                                   ELSE IF q = p /\ e.state[p] # "Source" THEN "Idle"
                                   ELSE e.state[q]
  PROVE  /\ Members(f) = Members(e) \ (children \cup {p})
         /\ \A q \in Members(f) : Reached(B, e, q) \notin Nodes(B[p])
         /\ \A r \in P \ {p} : e.state[r] # "Idle" => f.state[r] # "Idle"
<1>1. Members(e) = {q \in P : e.state[q] \in {"Active", "Asking", "Growing"}}
  BY DEF Members, EnergyOf
<1>2. Members(f) = {q \in P : f.state[q] \in {"Active", "Asking", "Growing"}}
  BY DEF Members, EnergyOf
<1>3. Members(f) = Members(e) \ (children \cup {p})
  BY <1>1, <1>2
<1>4. ASSUME NEW q \in Members(f), Reached(B, e, q) \in Nodes(B[p]) PROVE FALSE
  <2>1. q \in P \ {p} /\ q \notin children /\ e.up[q] # -1
    BY <1>1, <1>3 DEF Standing
  <2>2. PointsAtMe(B[p], B[q], e.up[q])
    BY <1>4, PointsInto DEF Reached
  <2> QED
    BY <2>1, <2>2
<1> QED
  BY <1>3, <1>4

-----------------------------------------------------------------------------
(* What one activation distributes                                         *)

\* A particle that knows it was cut off lets go of its children.
LEMMA GetPrunedStands ==
  ASSUME NEW P, NEW B \in [P -> Body], ApartIn(B), NEW e \in EnergyOf(P), Standing(B, e), NEW p \in P,
         NEW children,
         \A q \in P : q \in children <=> q # p /\ e.up[q] # -1 /\ PointsAtMe(B[p], B[q], e.up[q]),
         NEW f, f = AfterGetPruned(p, e, children)
  PROVE  /\ f \in EnergyOf(P) /\ Standing(B, f) /\ f.battery = e.battery
         /\ f = e \/ f.state[p] = "Idle"
<1>1. CASE e.state[p] # "Pruning"
  BY <1>1 DEF AfterGetPruned
<1>2. CASE e.state[p] = "Pruning"
  <2>1. f = Pruned(p, e, children)
    BY <1>2 DEF AfterGetPruned
  <2>2. /\ f \in EnergyOf(P) /\ f.battery = e.battery
        /\ \A q \in P : f.up[q] = IF q \in children THEN -1 ELSE e.up[q]
        /\ \A q \in P : f.state[q] = IF q \in children THEN "Pruning"
                                     ELSE IF q = p /\ e.state[p] # "Source" THEN "Idle"
                                     ELSE e.state[q]
    BY ONLY <2>1, PrunedIs, e \in EnergyOf(P), p \in P
  <2>3. /\ Members(f) = Members(e) \ (children \cup {p})
        /\ \A q \in Members(f) : Reached(B, e, q) \notin Nodes(B[p])
        /\ \A r \in P \ {p} : e.state[r] # "Idle" => f.state[r] # "Idle"
    BY ONLY <2>2, PruningCuts, B \in [P -> Body], e \in EnergyOf(P), Standing(B, e), p \in P,
            \A q \in P : q \in children <=> q # p /\ e.up[q] # -1 /\ PointsAtMe(B[p], B[q], e.up[q])
  <2>4. p \notin Members(e) /\ Members(e) \subseteq P
    BY <1>2 DEF Members, EnergyOf
  <2>5. e.up[p] = -1
    BY <2>4 DEF Standing
  <2>6. \A q \in P : f.up[q] # -1 <=> q \in Members(f)
    BY <2>2, <2>3, <2>4, <2>5 DEF Standing
  <2>7. \A q \in P : f.up[q] \in {-1} \cup Labels(B[q])
    BY <2>2 DEF Standing
  <2>8. \A q \in Members(f) : Reached(B, f, q) = Reached(B, e, q)
    BY <2>2, <2>3, <2>4 DEF Reached
  <2>9. Standing(B, f)
    BY <2>2, <2>3, <2>6, <2>7, <2>8, ForestMoved
  <2>10. f.state[p] = "Idle"
    BY <1>2, <2>2
  <2> QED
    BY <2>2, <2>9, <2>10
<1> QED
  BY <1>1, <1>2

\* A member that asks is a member.
LEMMA AskGrowthStands ==
  ASSUME NEW P, NEW B \in [P -> Body], NEW e \in EnergyOf(P), Standing(B, e), NEW p \in P,
         NEW wanted \in BOOLEAN, NEW f, f = AfterAskGrowth(p, e, wanted)
  PROVE  /\ f \in EnergyOf(P) /\ Standing(B, f) /\ f.battery = e.battery
         /\ f = e \/ f.state[p] = "Asking"
<1>1. CASE f = e
  BY <1>1
<1>2. CASE f # e
  <2> DEFINE S == [e.state EXCEPT ![p] = "Asking"]
  <2>1. e.state[p] = "Active" /\ f = [e EXCEPT !.state[p] = "Asking"]
    BY <1>2 DEF AfterAskGrowth
  <2>2. e.state \in [P -> EnergyStates]
    BY DEF EnergyOf
  <2>3. S \in [P -> EnergyStates] /\ S[p] = "Asking" /\ \A q \in P \ {p} : S[q] = e.state[q]
    BY <2>2 DEF EnergyStates
  <2>4. f = [e EXCEPT !.state = S]
    BY <2>1, <2>2 DEF EnergyOf
  <2> HIDE DEF S
  <2>5. f \in EnergyOf(P) /\ f.state = S /\ f.up = e.up /\ f.battery = e.battery
    BY <2>3, <2>4 DEF EnergyOf
  <2>6. Members(f) = Members(e)
    BY <2>1, <2>2, <2>3, <2>5 DEF Members
  <2>7. Above(B, f) = Above(B, e) /\ \A q : Reached(B, f, q) = Reached(B, e, q)
    BY <2>5 DEF Above, Reached
  <2>8. \A q \in P : e.state[q] # "Idle" => f.state[q] # "Idle"
    BY <2>3, <2>5
  <2>9. Standing(B, f)
    BY <2>5, <2>6, <2>7, <2>8 DEF Standing
  <2> QED
    BY <2>3, <2>5, <2>9
<1> QED
  BY <1>1, <1>2

\* Those that are adopted hang on one who was in the forest or roots it.
LEMMA ForestAdopted ==
  ASSUME NEW F, NEW up, ForestOf(F, up), NEW A, NEW p, p \notin A, NEW new,
         \A q \in F : new[q] = up[q] /\ up[q] \notin A,
         \A q \in A : new[q] = p
  PROVE  ForestOf(F \cup A, new)
<1> SUFFICES ASSUME NEW C \in SUBSET (F \cup A), C # {} PROVE \E q \in C : new[q] \notin C
  BY DEF ForestOf
<1>1. CASE C \ A = {}
  BY <1>1
<1>2. CASE C \ A # {}
  <2>1. C \ A \in SUBSET F
    OBVIOUS
  <2>2. PICK q \in C \ A : up[q] \notin C \ A
    BY <1>2, <2>1 DEF ForestOf
  <2> QED
    BY <2>1, <2>2
<1> QED
  BY <1>1, <1>2

\* A particle that may grow adopts idle neighbours, which then point at it.
LEMMA GrowForestStands ==
  ASSUME NEW P, NEW B \in [P -> Body], ApartIn(B), NEW e \in EnergyOf(P), Standing(B, e), NEW p \in P,
         NEW A, A \subseteq {q \in P \ {p} : e.state[q] = "Idle"},
         NEW adopted \in [A -> 0 .. 9],
         \A q \in A : adopted[q] \in Labels(B[q]) /\ NbrNode(B[q], adopted[q]) \in Nodes(B[p]),
         NEW asking, asking \subseteq {q \in P : e.state[q] = "Asking"},
         NEW f, f = AfterGrowForest(p, e, adopted, asking)
  PROVE  f \in EnergyOf(P) /\ Standing(B, f) /\ f.battery = e.battery
<1>1. CASE f = e
  BY <1>1
<1>2. CASE f # e
  <2> DEFINE S == [q \in P |-> IF q \in A \/ (q = p /\ e.state[p] = "Growing") THEN "Active"
                               ELSE IF q \in asking THEN "Growing" ELSE e.state[q]]
             U == [q \in P |-> IF q \in A THEN adopted[q] ELSE e.up[q]]
  <2>1. e.state \in [P -> EnergyStates] /\ e.up \in [P -> -1 .. 9] /\ e.battery \in [P -> Charges]
    BY DEF EnergyOf
  <2>2. S \in [P -> EnergyStates] /\ U \in [P -> -1 .. 9]
    BY <2>1 DEF EnergyStates
  <2>3. e.state[p] \in {"Growing", "Source"} /\ f = [e EXCEPT !.state = S, !.up = U]
    BY <1>2, <2>1 DEF AfterGrowForest
  <2> HIDE DEF S, U
  <2>4. f \in EnergyOf(P) /\ f.battery = e.battery /\ f.state = S /\ f.up = U
    BY <2>1, <2>2, <2>3 DEF EnergyOf
  <2>5. /\ \A q \in A : f.state[q] = "Active" /\ f.up[q] = adopted[q] /\ q \in P
        /\ \A q \in P \ A : f.up[q] = e.up[q]
        /\ \A q \in P \ A : \/ f.state[q] = e.state[q]
                            \/ /\ f.state[q] \in {"Active", "Growing"}
                               /\ e.state[q] \in {"Growing", "Asking"}
    BY <2>4 DEF S, U
  <2>6. /\ Members(e) = {q \in P : e.state[q] \in {"Active", "Asking", "Growing"}}
        /\ Members(f) = {q \in P : f.state[q] \in {"Active", "Asking", "Growing"}}
    BY <2>4 DEF Members, EnergyOf
  <2>7. Members(f) = Members(e) \cup A
    BY <2>5, <2>6
  <2>8. p \notin A /\ f.state[p] # "Idle" /\ \A q \in A : q \notin Members(e)
    BY <2>3, <2>5, <2>6
  <2>9. \A q \in P : e.state[q] # "Idle" => f.state[q] # "Idle"
    BY <2>5
  <2>10. \A q \in Members(e) : /\ q \in P \ A
                               /\ Reached(B, f, q) = Reached(B, e, q)
                               /\ Above(B, f)[q] = Above(B, e)[q]
    BY <2>5, <2>6, <2>8 DEF Reached, Above
  <2>11. \A q \in A : Reached(B, f, q) \in Nodes(B[p]) /\ Above(B, f)[q] = p
    <3> TAKE q \in A
    <3>1. Reached(B, f, q) \in Nodes(B[p])
      BY <2>5 DEF Reached
    <3>2. (CHOOSE r \in DOMAIN B : Reached(B, f, q) \in Nodes(B[r])) = p
      BY <3>1, FoundOn
    <3> QED
      BY <2>5, <3>1, <3>2 DEF Above
  <2>12. \A q \in Members(e) : Above(B, e)[q] \notin A
    <3> TAKE q \in Members(e)
    <3>1. PICK r \in P : Reached(B, e, q) \in Nodes(B[r]) /\ e.state[r] # "Idle"
      BY DEF Standing
    <3>2. (CHOOSE s \in DOMAIN B : Reached(B, e, q) \in Nodes(B[s])) = r
      BY <3>1, FoundOn
    <3>3. Above(B, e)[q] = r
      BY <2>6, <3>2 DEF Above
    <3> QED
      BY <3>1, <3>3
  <2>13. ForestOf(Members(f), Above(B, f))
    <3> DEFINE old == Above(B, e)
               new == Above(B, f)
               M == Members(e)
    <3>1. ForestOf(M, old)
      BY DEF Standing
    <3>2. \A q \in M : new[q] = old[q] /\ old[q] \notin A
      BY <2>10, <2>12
    <3>3. \A q \in A : new[q] = p
      BY <2>11
    <3> HIDE DEF old, new, M
    <3>4. ForestOf(M \cup A, new)
      BY <2>8, <3>1, <3>2, <3>3, ForestAdopted
    <3> QED
      BY <2>7, <3>4 DEF M, new
  <2>14. \A q \in P : f.up[q] \in {-1} \cup Labels(B[q])
    BY <2>5 DEF Standing
  <2>15. \A q \in P : f.up[q] # -1 <=> q \in Members(f)
    <3>1. \A q \in A : f.up[q] # -1
      BY <2>5
    <3> QED
      BY <2>5, <2>7, <3>1 DEF Standing
  <2>16. \A q \in Members(f) : \E r \in P : Reached(B, f, q) \in Nodes(B[r]) /\ f.state[r] # "Idle"
    <3> TAKE q \in Members(f)
    <3>1. CASE q \in A
      BY <2>8, <2>11, <3>1
    <3>2. CASE q \in Members(e)
      BY <2>9, <2>10, <3>2 DEF Standing
    <3> QED
      BY <2>7, <3>1, <3>2
  <2> QED
    BY <2>4, <2>13, <2>14, <2>15, <2>16 DEF Standing
<1> QED
  BY <1>1, <1>2

\* A source harvests while its battery is not full.
LEMMA HarvestStands ==
  ASSUME NEW P, NEW B \in [P -> Body], NEW e \in EnergyOf(P), Standing(B, e), NEW p \in P,
         NEW f, f = AfterHarvest(p, e)
  PROVE  f \in EnergyOf(P) /\ Standing(B, f) /\ \A q \in P \ {p} : f.battery[q] = e.battery[q]
<1>1. Capacity \in Nat /\ TransferRate \in Nat
  BY EnergyAssumption
<1>2. CASE f = e
  BY <1>2
<1>3. CASE f # e
  <2> DEFINE filled == [e.battery EXCEPT ![p] = @ + TransferRate]
  <2>1. e.battery \in [P -> Charges] /\ e.battery[p] < Capacity
    BY <1>3 DEF AfterHarvest, EnergyOf
  <2>2. filled \in [P -> Charges] /\ \A q \in P \ {p} : filled[q] = e.battery[q]
    BY <1>1, <2>1 DEF Charges
  <2>3. f = [e EXCEPT !.battery = filled]
    BY <1>3 DEF AfterHarvest, EnergyOf
  <2> HIDE DEF filled
  <2>4. f \in EnergyOf(P) /\ f.battery = filled /\ f.state = e.state /\ f.up = e.up
    BY <2>2, <2>3 DEF EnergyOf
  <2> QED
    BY <2>2, <2>4, BatteryApart
<1> QED
  BY <1>2, <1>3

\* Whatever the distribution of one activation leads to, the forest stands.
LEMMA DistributedStands ==
  ASSUME NEW P, NEW B \in [P -> Body], ApartIn(B), NEW e \in EnergyOf(P), Standing(B, e), NEW p \in P,
         NEW children \in SUBSET (P \ {p}),
         \A q \in P : q \in children <=> q # p /\ e.up[q] # -1 /\ PointsAtMe(B[p], B[q], e.up[q]),
         NEW A, A \subseteq {q \in P \ {p} : e.state[q] = "Idle"},
         NEW adopted \in [A -> 0 .. 9],
         \A q \in A : adopted[q] \in Labels(B[q]) /\ NbrNode(B[q], adopted[q]) \in Nodes(B[p]),
         NEW f \in Distributed(p, e, children, adopted)
  PROVE  f \in EnergyOf(P) /\ Standing(B, f)
<1> DEFINE asking  == {q \in children : e.state[q] = "Asking"}
           nonFull == {q \in children : e.battery[q] < Capacity}
           pruned  == AfterGetPruned(p, e, children)
           asked   == AfterAskGrowth(p, pruned, DOMAIN adopted \cup asking # {})
           forest  == AfterGrowForest(p, asked, adopted, asking)
           filled  == AfterHarvest(p, forest)
           shared(child) == [filled.battery EXCEPT ![p] = @ - TransferRate,
                                                   ![child] = @ + TransferRate]
           shares  == /\ filled.state[p] \notin {"Idle", "Pruning"}
                      /\ filled.battery[p] >= TransferRate
                      /\ nonFull # {}
           sharedWith(child) ==
             [filled EXCEPT !.battery = [filled.battery EXCEPT ![p] = @ - TransferRate,
                                                               ![child] = @ + TransferRate]]
<1>1. f \in IF shares THEN {sharedWith(child) : child \in nonFull} ELSE {filled}
  BY Zenon DEF Distributed
<1>2. /\ pruned \in EnergyOf(P) /\ Standing(B, pruned) /\ pruned.battery = e.battery
      /\ pruned = e \/ pruned.state[p] = "Idle"
  BY GetPrunedStands
<1>3. /\ asked \in EnergyOf(P) /\ Standing(B, asked) /\ asked.battery = e.battery
      /\ asked = e \/ asked.state[p] \in {"Idle", "Asking"}
  <2> DEFINE wanted == DOMAIN adopted \cup asking # {}
  <2>1. wanted \in BOOLEAN
    BY Zenon
  <2>2. asked = AfterAskGrowth(p, pruned, wanted)
    OBVIOUS
  <2> HIDE DEF wanted, asked, pruned
  <2>3. /\ asked \in EnergyOf(P) /\ Standing(B, asked) /\ asked.battery = pruned.battery
        /\ asked = pruned \/ asked.state[p] = "Asking"
    BY <1>2, <2>1, <2>2, AskGrowthStands
  <2> QED
    BY <1>2, <2>3
<1>4. forest \in EnergyOf(P) /\ Standing(B, forest) /\ forest.battery = e.battery
  <2> HIDE DEF asked
  <2>1. CASE asked = e
    <3>1. asking \subseteq {q \in P : e.state[q] = "Asking"}
      OBVIOUS
    <3> HIDE DEF asking
    <3>2. forest = AfterGrowForest(p, e, adopted, asking)
      BY <2>1
    <3> QED
      BY <3>1, <3>2, GrowForestStands
  <2>2. CASE asked.state[p] \in {"Idle", "Asking"}
    <3>1. forest = asked
      BY <2>2 DEF AfterGrowForest
    <3> QED
      BY <1>3, <3>1
  <2> QED
    BY <1>3, <2>1, <2>2
<1>5. filled \in EnergyOf(P) /\ Standing(B, filled) /\ \A q \in P \ {p} : filled.battery[q] = e.battery[q]
  <2> HIDE DEF forest
  <2>1. filled \in EnergyOf(P) /\ Standing(B, filled)
        /\ \A q \in P \ {p} : filled.battery[q] = forest.battery[q]
    BY <1>4, HarvestStands
  <2> QED
    BY <1>4, <2>1
<1> HIDE DEF filled, nonFull
<1>6. \A child : sharedWith(child) = [filled EXCEPT !.battery = shared(child)]
  BY Zenon DEF sharedWith, shared
<1> HIDE DEF sharedWith
<1>7. ASSUME NEW child \in nonFull, shares, NEW g, g = [filled EXCEPT !.battery = shared(child)]
      PROVE  g \in EnergyOf(P) /\ Standing(B, g)
  <2>1. Capacity \in Nat /\ TransferRate \in Nat
    BY EnergyAssumption
  <2>2. child \in P /\ child # p /\ filled.battery[child] < Capacity
    BY <1>5 DEF nonFull
  <2>3. filled.battery \in [P -> Charges]
    BY <1>5 DEF EnergyOf
  <2>4. shared(child) \in [P -> Charges]
    BY <1>7, <2>1, <2>2, <2>3 DEF Charges
  <2> HIDE DEF shared
  <2>5. g \in EnergyOf(P) /\ g.state = filled.state /\ g.up = filled.up
    BY <1>5, <1>7, <2>4 DEF EnergyOf
  <2> QED
    BY <1>5, <2>5, BatteryApart
<1> HIDE DEF shares, shared
<1> QED
  BY <1>1, <1>5, <1>6, <1>7

-----------------------------------------------------------------------------
(* Hexagon formation under the framework                                   *)

\* The hexagon's invariant, and the energy forest over its bodies.
PaidInv == HexInv /\ Energy \in EnergyOf(particles) /\ Standing(body, Energy)

\* It is what the runs check of it, the forest in their words.
LEMMA PaidCorrect ==
  ASSUME PaidInv
  PROVE  EDFTypeOK /\ ForestRooted
<1>1. /\ TypeOK /\ body \in [particles -> Body] /\ ApartIn(body) /\ particles = DOMAIN body
  BY DEF PaidInv, HexInv, Core, Held, TypeOK, particles
<1>2. /\ eState \in [particles -> EnergyStates]
      /\ battery \in [particles -> 0 .. Capacity + TransferRate - 1]
  BY DEF PaidInv, EnergyOf, Energy, Charges
<1>3. Members(Energy) = InEnergyState({"Active", "Asking", "Growing"})
  BY <1>2 DEF Members, Energy, InEnergyState
<1>4. /\ \A p \in particles : eParentLabel[p] \in {-1} \cup Labels(body[p])
      /\ \A p \in particles : eParentLabel[p] # -1 <=> p \in Members(Energy)
      /\ \A q \in Members(Energy) : \E r \in particles :
           Reached(body, Energy, q) \in Nodes(body[r]) /\ eState[r] # "Idle"
      /\ ForestOf(Members(Energy), Above(body, Energy))
  BY <1>1 DEF PaidInv, Standing, Energy
<1>5. ASSUME NEW q \in Members(Energy)
      PROVE  /\ NbrNode(body[q], eParentLabel[q]) \in Occupied \ Nodes(body[q])
             /\ eState[EParentOf(q)] # "Idle"
             /\ Above(body, Energy)[q] = EParentOf(q)
  <2>1. q \in particles /\ eParentLabel[q] \in Labels(body[q]) /\ body[q] \in Body
    BY <1>1, <1>3, <1>4 DEF InEnergyState
  <2>2. Reached(body, Energy, q) = NbrNode(body[q], eParentLabel[q])
    BY DEF Reached, Energy
  <2>3. PICK r \in particles : NbrNode(body[q], eParentLabel[q]) \in Nodes(body[r]) /\ eState[r] # "Idle"
    BY <1>4, <2>2
  <2>4. EParentOf(q) = r
    BY <1>1, <2>3, ParticleFound DEF EParentOf
  <2>5. Above(body, Energy)[q] = EParentOf(q)
    BY <1>1, <2>1, <2>2 DEF Above, EParentOf, ParticleAt
  <2> QED
    BY <2>1, <2>3, <2>4, <2>5, PortLeaves DEF Occupied
<1>6. \A C \in SUBSET Members(Energy) : C # {} => \E p \in C : EParentOf(p) \notin C
  BY <1>4, <1>5 DEF ForestOf
<1>7. EDFTypeOK
  BY <1>1, <1>2, <1>4 DEF EDFTypeOK
<1>8. \A p \in particles :
        (eParentLabel[p] # -1) <=> eState[p] \in {"Active", "Asking", "Growing"}
  BY <1>3, <1>4 DEF InEnergyState
<1> QED
  BY <1>3, <1>5, <1>6, <1>7, <1>8 DEF ForestRooted

\* Before the first activation nobody but the source is in the forest.
LEMMA PaidBegins ==
  ASSUME EDFInit
  PROVE  PaidInv
<1>1. HexInv
  BY InitBegins, HexBegins DEF EDFInit
<1>2. PICK source \in Sources \cap particles :
        /\ eState = NewEnergy({source}, particles).state
        /\ eParentLabel = NewEnergy({source}, particles).up
        /\ battery = NewEnergy({source}, particles).battery
  BY DEF EDFInit, EnergyInit
<1>3. /\ eState = [p \in particles |-> IF p \in {source} THEN "Source" ELSE "Idle"]
      /\ eParentLabel = [p \in particles |-> -1]
      /\ battery = [p \in particles |-> 0]
  BY <1>2 DEF NewEnergy
<1>4. 0 \in Charges
  BY EnergyAssumption DEF Charges
<1>5. Energy \in EnergyOf(particles)
  BY <1>3, <1>4 DEF EnergyOf, Energy, EnergyStates
<1>6. Members(Energy) = {}
  BY <1>3 DEF Members, Energy
<1>7. \A q \in particles : Energy.up[q] = -1
  BY <1>3 DEF Energy
<1>8. Standing(body, Energy)
  BY <1>6, <1>7 DEF Standing, ForestOf, particles
<1> QED
  BY <1>1, <1>5, <1>8 DEF PaidInv

\* What SetEnergy sets.
LEMMA EnergySet ==
  ASSUME NEW f \in EnergyOf(particles), SetEnergy(f), particles' = particles, Standing(body', f)
  PROVE  (Energy \in EnergyOf(particles))' /\ Standing(body, Energy)'
<1>1. /\ Energy'.state = f.state /\ Energy'.up = f.up /\ Energy'.battery = f.battery
      /\ Energy' = [state |-> eState', up |-> eParentLabel', battery |-> battery']
  BY DEF SetEnergy, Energy
<1>2. Energy' \in EnergyOf(particles')
  BY <1>1 DEF EnergyOf
<1>3. Standing(body', Energy')
  BY <1>1, BatteryApart
<1> QED
  BY <1>2, <1>3 DEF EnergyOf, Standing, Charges, Members, Reached, Above, ForestOf

\* An action costs what the battery of the particle holds.
LEMMA SpentIs ==
  ASSUME NEW P, NEW e \in EnergyOf(P), NEW p \in P, e.battery[p] >= Demand, NEW f, f = Spent(p, e)
  PROVE  f \in EnergyOf(P) /\ f.state = e.state /\ f.up = e.up
<1>1. Demand \in Nat /\ Capacity \in Nat /\ TransferRate \in Nat
  BY EnergyAssumption
<1>2. e.battery \in [P -> Charges]
  BY DEF EnergyOf
<1>3. [e.battery EXCEPT ![p] = @ - Demand] \in [P -> Charges]
  BY <1>1, <1>2 DEF Charges
<1>4. f = [e EXCEPT !.battery = [e.battery EXCEPT ![p] = @ - Demand]]
  BY DEF Spent, EnergyOf
<1> QED
  BY <1>3, <1>4 DEF EnergyOf

\* One particle gets another label.
LEMMA LabelSet ==
  ASSUME NEW P, NEW e \in EnergyOf(P), NEW p \in P, NEW k \in -1 .. 9,
         NEW f, f = [e EXCEPT !.up[p] = k]
  PROVE  /\ f \in EnergyOf(P) /\ f.state = e.state /\ f.up[p] = k
         /\ \A q \in P \ {p} : f.up[q] = e.up[q]
<1> DEFINE U == [e.up EXCEPT ![p] = k]
<1>1. e.up \in [P -> -1 .. 9]
  BY DEF EnergyOf
<1>2. U \in [P -> -1 .. 9] /\ U[p] = k /\ \A q \in P \ {p} : U[q] = e.up[q]
  BY <1>1
<1>3. f = [e EXCEPT !.up = U]
  BY DEF EnergyOf
<1> HIDE DEF U
<1> QED
  BY <1>2, <1>3 DEF EnergyOf

\* The label a particle predicts for its tail is that of the same neighbour.
LEMMA Renumbered ==
  ASSUME NEW b \in Body, IsContracted(b), NEW x \in Body, IsExpanded(x),
         x.orientation = b.orientation, Nodes(x) = {x.head, b.head},
         NEW e \in Dir, x.head = NbrNode(b, e),
         NEW l \in Dir, NbrNode(b, l) # x.head,
         NEW k, k = DirToTailLabelAfterExpansion(l, e)
  PROVE  k \in 0 .. 9 /\ k \in Labels(x) /\ NbrNode(x, k) = NbrNode(b, l)
<1>1. /\ b.head \in Node
      /\ NbrNode(b, e) = NodeInDir(b.head, LocalToGlobalDir(b, e))
      /\ NbrNode(b, l) = NodeInDir(b.head, LocalToGlobalDir(b, l))
  BY ContractedPorts, NodesType DEF Pointed
<1>2. TailNode(x) = b.head
  BY NodesType
<1>3. /\ TailDir(x) \in Dir /\ x.globalTailDir \in Dir
      /\ LocalToGlobalDir(x, TailDir(x)) = x.globalTailDir
      /\ x.head = NodeInDir(TailNode(x), Opposite(x.globalTailDir))
      /\ Labels(x) = 0 .. 9 /\ HeadLabels(x) = labels[TailDir(x) + 1]
      /\ TailLabels(x) = (0 .. 9) \ HeadLabels(x)
      /\ \A i : LabelToDir(x, i) = labelDir[TailDir(x) + 1][i + 1]
  BY ExpandedFrame
<1>4. Opposite(TailDir(x)) = e
  <2>1. b.orientation \in Dir /\ LocalToGlobalDir(b, e) \in Dir /\ Opposite(x.globalTailDir) \in Dir
    BY <1>3, CompassType, OppositeType DEF Body
  <2>2. LocalToGlobalDir(b, e) = Opposite(x.globalTailDir)
    BY <1>1, <1>2, <1>3, <2>1, NodeInDirInjective
  <2>3. LocalToGlobalDir(x, Opposite(TailDir(x))) = Opposite(x.globalTailDir)
    BY <1>3, CompassInverse
  <2>4. LocalToGlobalDir(x, e) = LocalToGlobalDir(b, e)
    BY DEF LocalToGlobalDir
  <2> QED
    BY <1>3, <2>2, <2>3, <2>4, OppositeType, CompassInverse
<1>5. Opposite(e) = TailDir(x) /\ l # e
  <2>1. Opposite(Opposite(TailDir(x))) = TailDir(x)
    BY <1>3 DEF Opposite, Dir
  <2> QED
    BY <1>4, <2>1
<1> DEFINE t == TailDir(x)
           T == labels[Opposite(t) + 1]
<1>6. \E i \in T : labelDir[t + 1][i + 1] = l
  BY <1>3, <1>4, <1>5, TailPorts
<1>7. k = CHOOSE i \in T : labelDir[t + 1][i + 1] = l
  BY <1>5 DEF DirToTailLabelAfterExpansion, TailLabelsAfterExpansion, LabelToDirAfterExpansion
<1>8. T = TailLabels(x)
  BY DEF TailLabels
<1> HIDE DEF T
<1>9. k \in TailLabels(x) /\ labelDir[t + 1][k + 1] = l
  BY <1>6, <1>7, <1>8
<1>10. k \in 0 .. 9 /\ k \notin HeadLabels(x) /\ LabelToDir(x, k) = l
  BY <1>3, <1>9
<1>11. NbrNode(x, k) = NodeInDir(TailNode(x), LocalToGlobalDir(x, l))
  BY <1>10 DEF NbrNode, OccupiedNodeIncidentToLabel, LabelToGlobalDir
<1> QED
  BY <1>1, <1>2, <1>3, <1>10, <1>11 DEF LocalToGlobalDir

-----------------------------------------------------------------------------
(* One activation under the framework                                      *)

\* What the invariant says of the bodies and the energy.
LEMMA PaidParts ==
  ASSUME PaidInv
  PROVE  /\ Core /\ HexagonOpen /\ TypeOK /\ ApartIn(body)
         /\ body \in [particles -> Body]
         /\ Energy \in EnergyOf(particles) /\ Standing(body, Energy)
         /\ Energy.state = eState /\ Energy.up = eParentLabel /\ Energy.battery = battery
         /\ Members(Energy) \subseteq particles
<1>1. Core /\ HexagonOpen /\ TypeOK /\ ApartIn(body) /\ body \in [particles -> Body]
  BY GrownOpen DEF PaidInv, HexInv, Core, Held, TypeOK
<1>2. Energy.state = eState /\ Energy.up = eParentLabel /\ Energy.battery = battery
  BY DEF Energy
<1>3. Energy \in EnergyOf(particles) /\ Standing(body, Energy)
  BY DEF PaidInv
<1>4. Members(Energy) \subseteq particles
  BY <1>3 DEF Members, EnergyOf
<1> QED
  BY <1>1, <1>2, <1>3, <1>4

\* An action lowers the battery and nothing else.
LEMMA SpentEnergy ==
  ASSUME PaidInv, NEW p \in particles, CanAct(p), NEW s, s = Spent(p, Energy)
  PROVE  s \in EnergyOf(particles) /\ s.state = eState /\ s.up = eParentLabel
<1>1. Energy.battery[p] >= Demand
  BY DEF CanAct, MaySpend
<1> QED
  BY <1>1, PaidParts, SpentIs

\* Where nobody moves, the forest has only to stand over the same bodies.
LEMMA StateChangePays ==
  ASSUME PaidInv, NEW p \in particles, PaidStateChange(p)
  PROVE  particles' = particles /\ (Energy \in EnergyOf(particles))' /\ Standing(body, Energy)'
<1> DEFINE s == Spent(p, Energy)
<1>1. CanAct(p) /\ SetEnergy(s) /\ UNCHANGED body
  BY DEF PaidStateChange, BecomeRoot, BecomeFollower, Retire
<1>2. s \in EnergyOf(particles) /\ s.state = Energy.state /\ s.up = Energy.up
  BY <1>1, SpentEnergy, PaidParts
<1> HIDE DEF s
<1>3. Standing(body', s) /\ particles' = particles
  BY <1>1, <1>2, BatteryApart, PaidParts DEF particles
<1> QED
  BY <1>1, <1>2, <1>3, EnergySet

\* A particle that expands keeps its parent under another label, and its
\* children, on the node they point at.
LEMMA ExpandPays ==
  ASSUME PaidInv, NEW p \in particles, PaidExpand(p)
  PROVE  particles' = particles /\ (Energy \in EnergyOf(particles))' /\ Standing(body, Energy)'
<1> DEFINE s == Spent(p, Energy)
           d == hexagonDir[p]
           k == IF eParentLabel[p] = -1 THEN -1 ELSE DirToTailLabelAfterExpansion(eParentLabel[p], d)
           f == [s EXCEPT !.up[p] = k]
<1>1. /\ CanAct(p) /\ Expand(p)
      /\ SetEnergy([Spent(p, Energy) EXCEPT
           !.up[p] = IF @ = -1 THEN -1 ELSE DirToTailLabelAfterExpansion(@, hexagonDir[p])])
  BY DEF PaidExpand
<1>2. s \in EnergyOf(particles) /\ s.state = eState /\ s.up = eParentLabel
  BY <1>1, SpentEnergy
<1>3. SetEnergy(f)
  <2>1. [s EXCEPT !.up[p] = IF @ = -1 THEN -1 ELSE DirToTailLabelAfterExpansion(@, hexagonDir[p])] = f
    BY <1>2
  <2> QED
    BY <1>1, <2>1
<1>4. /\ IsContracted(body[p]) /\ d \in Dir /\ ~ HasNbrAtLabel(p, d) /\ body' = AfterExpand(p, d)
  <2>1. p \in Roots
    BY <1>1 DEF Expand, Alpha4, Roots, InState
  <2>2. d \in Dir
    BY <2>1, PaidParts DEF Core, Held, Ahead
  <2> QED
    BY <1>1, <2>2 DEF Expand, Alpha4
<1>5. /\ particles' = particles /\ body' \in [particles -> Body] /\ ApartIn(body')
      /\ IsExpanded(body'[p]) /\ body'[p].orientation = body[p].orientation
      /\ body'[p].head = NbrNode(body[p], d)
      /\ Nodes(body'[p]) = {NbrNode(body[p], d), body[p].head}
      /\ Nodes(body[p]) = {body[p].head}
      /\ \A q \in particles \ {p} : body'[q] = body[q]
  BY <1>4, ExpandMoves, PaidParts
<1>6. /\ k \in -1 .. 9 /\ k \in {-1} \cup Labels(body'[p]) /\ (k # -1 <=> eParentLabel[p] # -1)
      /\ k # -1 => NbrNode(body'[p], k) = NbrNode(body[p], eParentLabel[p])
  <2>1. CASE eParentLabel[p] = -1
    BY <2>1
  <2>2. CASE eParentLabel[p] # -1
    <3> DEFINE l == eParentLabel[p]
    <3>1. p \in Members(Energy) /\ l \in Labels(body[p])
      BY <2>2, PaidParts DEF Standing
    <3>2. l \in Dir
      BY <1>4, <3>1, PaidParts, ContractedPorts
    <3>3. NbrNode(body[p], l) \in Occupied
      BY <3>1, PaidParts DEF Standing, Reached, Occupied
    <3>4. NbrNode(body[p], l) # NbrNode(body[p], d)
      BY <1>4, <3>3 DEF HasNbrAtLabel
    <3>5. k = DirToTailLabelAfterExpansion(l, d)
      BY <2>2
    <3> HIDE DEF k, l
    <3>6. k \in 0 .. 9 /\ k \in Labels(body'[p]) /\ NbrNode(body'[p], k) = NbrNode(body[p], l)
      BY <1>4, <1>5, <3>2, <3>4, <3>5, PaidParts, Renumbered
    <3> QED
      BY <2>2, <3>6 DEF l
  <2> QED
    BY <2>1, <2>2
<1> HIDE DEF k, s, d
<1>7. /\ f \in EnergyOf(particles) /\ f.state = eState /\ f.up[p] = k
      /\ \A q \in particles \ {p} : f.up[q] = eParentLabel[q]
  BY <1>2, <1>6, LabelSet
<1> HIDE DEF f
<1>8. Members(f) = Members(Energy)
  BY <1>7, PaidParts DEF Members
<1>9. /\ \A q \in particles : f.up[q] \in {-1} \cup Labels(body'[q])
      /\ \A q \in particles : f.up[q] # -1 <=> q \in Members(f)
  <2>1. ASSUME NEW q \in particles
        PROVE  f.up[q] \in {-1} \cup Labels(body'[q]) /\ (f.up[q] # -1 <=> q \in Members(f))
    <3>1. Energy.up[q] \in {-1} \cup Labels(body[q]) /\ (Energy.up[q] # -1 <=> q \in Members(Energy))
      BY PaidParts DEF Standing
    <3> QED
      BY <1>5, <1>6, <1>7, <1>8, <3>1, PaidParts
  <2> QED
    BY <2>1
<1>10. \A q \in Members(f) : Reached(body', f, q) = Reached(body, Energy, q)
  <2> TAKE q \in Members(f)
  <2>1. q \in particles /\ f.up[q] # -1
    BY <1>8, <1>9, PaidParts
  <2> QED
    BY <1>5, <1>6, <1>7, <2>1, PaidParts DEF Reached
<1>11. \A r \in particles : Nodes(body[r]) \subseteq Nodes(body'[r])
  BY <1>5
<1>12. Standing(body', f)
  BY <1>5, <1>7, <1>8, <1>9, <1>10, <1>11, PaidParts, ForestMoved
<1> QED
  BY <1>3, <1>5, <1>7, <1>12, EnergySet

\* Before it contracts, a particle is out of the forest, and so are its
\* children: nobody points at it any more.
LEMMA DetachedIs ==
  ASSUME PaidInv, NEW p \in particles, CanAct(p), NEW f, f = Detached(p)
  PROVE  /\ f \in EnergyOf(particles)
         /\ Members(f) \subseteq Members(Energy) \ {p}
         /\ \A q \in Members(f) : /\ f.up[q] = eParentLabel[q]
                                  /\ Reached(body, Energy, q) \notin Nodes(body[p])
         /\ \A q \in particles : f.up[q] # -1 <=> q \in Members(f)
         /\ \A r \in particles \ {p} : eState[r] # "Idle" => f.state[r] # "Idle"
<1> DEFINE s == Spent(p, Energy)
           g == [s EXCEPT !.up[p] = -1]
           children == EChildren(p, eParentLabel)
<1>1. s \in EnergyOf(particles) /\ s.state = eState /\ s.up = eParentLabel
  BY SpentEnergy
<1> HIDE DEF s
<1>2. /\ g \in EnergyOf(particles) /\ g.state = eState /\ g.up[p] = -1
      /\ \A q \in particles \ {p} : g.up[q] = eParentLabel[q]
  BY <1>1, LabelSet
<1>3. f = Pruned(p, g, children)
  BY DEF Detached, s
<1> HIDE DEF g
<1>4. \A q \in particles :
        q \in children <=> q # p /\ Energy.up[q] # -1 /\ PointsAtMe(body[p], body[q], Energy.up[q])
  BY PaidParts DEF EChildren
<1> HIDE DEF children
<1>5. /\ f \in EnergyOf(particles)
      /\ \A q \in particles : f.up[q] = IF q \in children THEN -1 ELSE g.up[q]
      /\ \A q \in particles : f.state[q] = IF q \in children THEN "Pruning"
                                           ELSE IF q = p /\ Energy.state[p] # "Source" THEN "Idle"
                                           ELSE Energy.state[q]
  <2>1. /\ f \in EnergyOf(particles)
        /\ \A q \in particles : f.up[q] = IF q \in children THEN -1 ELSE g.up[q]
        /\ \A q \in particles : f.state[q] = IF q \in children THEN "Pruning"
                                             ELSE IF q = p /\ g.state[p] # "Source" THEN "Idle"
                                             ELSE g.state[q]
    BY ONLY <1>2, <1>3, p \in particles, PrunedIs
  <2> QED
    BY <1>2, <2>1, PaidParts
<1>6. /\ Members(f) = Members(Energy) \ (children \cup {p})
      /\ \A q \in Members(f) : Reached(body, Energy, q) \notin Nodes(body[p])
      /\ \A r \in particles \ {p} : Energy.state[r] # "Idle" => f.state[r] # "Idle"
  <2>1. Energy \in EnergyOf(particles) /\ Standing(body, Energy) /\ body \in [particles -> Body]
    BY PaidParts
  <2> QED
    BY ONLY <1>4, <1>5, <2>1, p \in particles, PruningCuts
<1>7. \A q \in particles : f.up[q] # -1 <=> q \in Members(f)
  <2>1. \A q \in particles : Energy.up[q] # -1 <=> q \in Members(Energy)
    BY PaidParts DEF Standing
  <2>2. \A q \in particles : q \in children => Energy.up[q] # -1 /\ q # p
    BY <1>4
  <2> QED
    BY <1>2, <1>5, <1>6, <2>1, <2>2, PaidParts
<1>8. \A q \in Members(f) : f.up[q] = eParentLabel[q]
  BY <1>2, <1>5, <1>6, PaidParts
<1> QED
  BY <1>5, <1>6, <1>7, <1>8, PaidParts

\* So it may leave its tail.
LEMMA ContractTailPays ==
  ASSUME PaidInv, NEW p \in particles, PaidContractTail(p)
  PROVE  particles' = particles /\ (Energy \in EnergyOf(particles))' /\ Standing(body, Energy)'
<1> DEFINE f == Detached(p)
<1>1. CanAct(p) /\ SetEnergy(f) /\ IsExpanded(body[p]) /\ body' = AfterContractTail(p)
  BY DEF PaidContractTail, ContractTail, Alpha6, Walks
<1>2. /\ f \in EnergyOf(particles)
      /\ Members(f) \subseteq Members(Energy) \ {p}
      /\ \A q \in Members(f) : /\ f.up[q] = eParentLabel[q]
                               /\ Reached(body, Energy, q) \notin Nodes(body[p])
      /\ \A q \in particles : f.up[q] # -1 <=> q \in Members(f)
      /\ \A r \in particles \ {p} : eState[r] # "Idle" => f.state[r] # "Idle"
  BY <1>1, DetachedIs
<1> HIDE DEF f
<1>3. /\ particles' = particles /\ ApartIn(body') /\ body' \in [particles -> Body]
      /\ \A q \in particles \ {p} : body'[q] = body[q]
  BY <1>1, PaidParts, ContractMoves
<1>4. \A q \in Members(f) : q \in particles \ {p} /\ Reached(body', f, q) = Reached(body, Energy, q)
  BY <1>2, <1>3, PaidParts DEF Reached
<1>5. \A q \in particles : f.up[q] \in {-1} \cup Labels(body'[q])
  <2> TAKE q \in particles
  <2>1. CASE q \in Members(f)
    BY <1>2, <1>3, <1>4, <2>1, PaidParts DEF Standing
  <2>2. CASE q \notin Members(f)
    BY <1>2, <2>2
  <2> QED
    BY <2>1, <2>2
<1>6. \A q \in Members(f), r \in particles :
        Reached(body, Energy, q) \in Nodes(body[r]) /\ Energy.state[r] # "Idle" =>
          Reached(body, Energy, q) \in Nodes(body'[r]) /\ f.state[r] # "Idle"
  <2> TAKE q \in Members(f), r \in particles
  <2>1. CASE r = p
    BY <1>2, <2>1
  <2>2. CASE r # p
    BY <1>2, <1>3, <2>2, PaidParts
  <2> QED
    BY <2>1, <2>2
<1>7. Standing(body', f)
  BY <1>2, <1>3, <1>4, <1>5, <1>6, PaidParts, ForestMoved
<1> QED
  BY <1>1, <1>2, <1>3, <1>7, EnergySet

\* The same in a handover; the child that is pulled keeps its own parent under
\* another label, unless it was a child in the forest, too.
LEMMA PullPays ==
  ASSUME PaidInv, NEW p \in particles, PaidPull(p)
  PROVE  particles' = particles /\ (Energy \in EnergyOf(particles))' /\ Standing(body, Energy)'
<1> SUFFICES ASSUME NEW l, l = PulledLabel(p), NEW c, c = NbrAtLabel(p, l), NEW g, g = Detached(p),
                    NEW k, k = IF g.up[c] = -1 THEN -1
                               ELSE DirToTailLabelAfterExpansion(g.up[c], parentDir[c]),
                    NEW f, f = [g EXCEPT !.up[c] = k]
             PROVE  particles' = particles /\ (Energy \in EnergyOf(particles))' /\ Standing(body, Energy)'
  OBVIOUS
<1>1. /\ CanAct(p) /\ Alpha5(p) /\ body' = AfterPull(p, l)
      /\ SetEnergy([g EXCEPT !.up[c] = IF @ = -1 THEN -1
                                       ELSE DirToTailLabelAfterExpansion(@, parentDir[c])])
  BY DEF PaidPull, Pull
<1>2. /\ g \in EnergyOf(particles)
      /\ Members(g) \subseteq Members(Energy) \ {p}
      /\ \A q \in Members(g) : /\ g.up[q] = eParentLabel[q]
                               /\ Reached(body, Energy, q) \notin Nodes(body[p])
      /\ \A q \in particles : g.up[q] # -1 <=> q \in Members(g)
      /\ \A r \in particles \ {p} : eState[r] # "Idle" => g.state[r] # "Idle"
  BY <1>1, DetachedIs
<1>3. /\ particles' = particles /\ ApartIn(body') /\ body' \in [particles -> Body]
      /\ c \in particles /\ c # p /\ body[p] \in Body /\ body[c] \in Body
      /\ IsExpanded(body[p]) /\ Nodes(body[p]) = {body[p].head, TailNode(body[p])}
      /\ IsContracted(body[c]) /\ Nodes(body[c]) = {body[c].head}
      /\ Nodes(body'[c]) = {TailNode(body[p]), body[c].head}
      /\ body'[c].head = TailNode(body[p]) /\ body'[c].orientation = body[c].orientation
      /\ IsExpanded(body'[c])
      /\ \A r \in particles \ {p, c} : body'[r] = body[r]
  BY <1>1, PaidParts, PullMoves
<1>4. SetEnergy(f)
  <2>1. [g EXCEPT !.up[c] = IF @ = -1 THEN -1
                            ELSE DirToTailLabelAfterExpansion(@, parentDir[c])] = f
    BY <1>2, <1>3 DEF EnergyOf
  <2> QED
    BY <1>1, <2>1
<1>5. parentDir[c] \in Dir /\ NbrNode(body[c], parentDir[c]) = TailNode(body[p])
  <2>1. c \in Followers /\ Target(c) = TailNode(body[p])
    BY <1>1, PaidParts, PulledChild
  <2>2. parentDir[c] \in Dir
    BY <2>1, PaidParts, FollowerPoints
  <2> QED
    BY <1>3, <2>1, <2>2, ContractedPorts DEF Target
<1>6. /\ k \in -1 .. 9 /\ k \in {-1} \cup Labels(body'[c]) /\ (k # -1 <=> c \in Members(g))
      /\ c \in Members(g) => NbrNode(body'[c], k) = NbrNode(body[c], eParentLabel[c])
  <2>1. CASE c \notin Members(g)
    BY <1>2, <1>3, <2>1
  <2>2. CASE c \in Members(g)
    <3> DEFINE e == eParentLabel[c]
    <3>1. e \in Labels(body[c]) /\ e # -1
      BY <1>2, <2>2, PaidParts DEF Standing
    <3>2. e \in Dir
      BY <1>3, <3>1, ContractedPorts
    <3>3. NbrNode(body[c], e) # TailNode(body[p])
      BY <1>2, <1>3, <2>2, PaidParts DEF Reached
    <3>4. k = DirToTailLabelAfterExpansion(e, parentDir[c])
      BY <1>2, <1>3, <2>2
    <3> HIDE DEF e
    <3>5. body'[c] \in Body
      BY <1>3
    <3>6. k \in 0 .. 9 /\ k \in Labels(body'[c]) /\ NbrNode(body'[c], k) = NbrNode(body[c], e)
      BY <1>3, <1>5, <3>2, <3>3, <3>4, <3>5, Renumbered
    <3> QED
      BY <2>2, <3>6 DEF e
  <2> QED
    BY <2>1, <2>2
<1>7. /\ f \in EnergyOf(particles) /\ f.state = g.state /\ f.up[c] = k
      /\ \A q \in particles \ {c} : f.up[q] = g.up[q]
  BY <1>2, <1>3, <1>6, LabelSet
<1>8. Members(f) = Members(g)
  BY <1>7 DEF Members
<1>9. \A q \in particles : f.up[q] # -1 <=> q \in Members(f)
  BY <1>2, <1>6, <1>7, <1>8
<1>10. \A q \in Members(f) : q \in particles \ {p} /\ Reached(body', f, q) = Reached(body, Energy, q)
  <2> TAKE q \in Members(f)
  <2>1. q \in particles \ {p} /\ g.up[q] = eParentLabel[q]
    BY <1>2, <1>8, PaidParts
  <2>2. CASE q = c
    BY <1>6, <1>7, <1>8, <2>1, <2>2, PaidParts DEF Reached
  <2>3. CASE q # c
    BY <1>3, <1>7, <2>1, <2>3, PaidParts DEF Reached
  <2> QED
    BY <2>1, <2>2, <2>3
<1>11. \A q \in particles : f.up[q] \in {-1} \cup Labels(body'[q])
  <2> TAKE q \in particles
  <2>1. CASE q = c
    BY <1>6, <1>7, <2>1
  <2>2. CASE q # c /\ q \in Members(f)
    <3>1. f.up[q] = eParentLabel[q] /\ body'[q] = body[q]
      BY <1>2, <1>3, <1>7, <1>8, <1>10, <2>2
    <3> QED
      BY <3>1, PaidParts DEF Standing
  <2>3. CASE q \notin Members(f)
    BY <1>9, <2>3
  <2> QED
    BY <2>1, <2>2, <2>3
<1>12. \A q \in Members(f), r \in particles :
        Reached(body, Energy, q) \in Nodes(body[r]) /\ Energy.state[r] # "Idle" =>
          Reached(body, Energy, q) \in Nodes(body'[r]) /\ f.state[r] # "Idle"
  <2> TAKE q \in Members(f), r \in particles
  <2>1. CASE r = p
    BY <1>2, <1>8, <2>1
  <2>2. CASE r # p
    <3>1. Nodes(body[r]) \subseteq Nodes(body'[r])
      BY <1>3, <2>2
    <3> QED
      BY <1>2, <1>7, <2>2, <3>1, PaidParts
  <2> QED
    BY <2>1, <2>2
<1>13. Standing(body', f)
  <2>1. /\ Energy \in EnergyOf(particles) /\ Standing(body, Energy)
        /\ body \in [particles -> Body] /\ ApartIn(body)
    BY PaidParts
  <2>2. f \in EnergyOf(particles) /\ Members(f) \subseteq Members(Energy)
    BY <1>2, <1>7, <1>8
  <2>3. \A q \in Members(f) : Reached(body', f, q) = Reached(body, Energy, q)
    BY <1>10
  <2> QED
    BY ONLY <1>3, <1>9, <1>11, <1>12, <2>1, <2>2, <2>3, ForestMoved
<1> QED
  BY <1>3, <1>4, <1>7, <1>13, EnergySet

\* The port of an idle neighbour that leads back to the particle that adopts it.
LEMMA AdoptingPort ==
  ASSUME PaidInv, NEW p \in particles, NEW q \in particles \ {p}, NEW l \in Labels(body[p]),
         NbrNode(body[p], l) \in Nodes(body[q]), NEW k, k = AdoptingLabel(p, q)
  PROVE  k \in 0 .. 9 /\ k \in Labels(body[q]) /\ NbrNode(body[q], k) \in Nodes(body[p])
<1> DEFINE n == OccupiedNodeIncidentToLabel(body[p], l)
           m == NbrNode(body[p], l)
           g == LabelToGlobalDir(body[p], l)
           pointing == {u \in UniqueLabels(body[q]) : PointsAtMe(body[p], body[q], u)}
<1>1. body[p] \in Body /\ body[q] \in Body /\ Nodes(body[p]) \cap Nodes(body[q]) = {}
  BY PaidParts DEF ApartIn, particles
<1>2. n \in Nodes(body[p]) /\ n \in Node /\ g \in Dir /\ m = NodeInDir(n, g)
  BY <1>1, NbrNodeType, NodesType, LabelToGlobalDirType DEF NbrNode
<1>3. Opposite(g) \in Dir /\ NodeInDir(m, Opposite(g)) = n
  BY <1>2, OppositeType, NodeInDirBack
<1>4. n \notin Nodes(body[q])
  BY <1>1, <1>2
<1> HIDE DEF n, m, g
<1>5. PICK i \in Labels(body[q]) : NbrNode(body[q], i) = n
  <2>1. m \in Nodes(body[q])
    BY DEF m
  <2>2. \E i \in Labels(body[q]) : /\ OccupiedNodeIncidentToLabel(body[q], i) = m
                                   /\ LabelToGlobalDir(body[q], i) = Opposite(g)
    BY <1>1, <1>3, <1>4, <2>1, PortExists
  <2> QED
    BY <1>3, <2>2 DEF NbrNode
<1>6. PICK u \in UniqueLabels(body[q]) : NbrNode(body[q], u) = n
  BY <1>1, <1>5, UniqueReaches
<1>7. pointing # {} /\ pointing \subseteq Labels(body[q]) /\ pointing \subseteq 0 .. 9
  <2>1. u \in pointing
    BY <1>1, <1>2, <1>6, PointsInto
  <2>2. UniqueLabels(body[q]) \subseteq Labels(body[q])
    BY DEF UniqueLabels
  <2>3. Labels(body[q]) \subseteq 0 .. 9
    BY DEF Labels, LabelLimit
  <2> QED
    BY <2>1, <2>2, <2>3
<1>8. k = CHOOSE a \in pointing : \A j \in pointing : a <= j
  BY DEF AdoptingLabel
<1>9. \A a \in pointing : NbrNode(body[q], a) \in Nodes(body[p])
  BY <1>1, PointsInto
<1> HIDE DEF pointing
<1>10. \E a \in pointing : \A j \in pointing : a <= j
  BY <1>7, LeastOfTen
<1>11. k \in pointing
  BY <1>8, <1>10
<1> QED
  BY <1>7, <1>9, <1>11

\* The distribution finds the idle neighbours and the children as they are.
LEMMA DistributionPays ==
  ASSUME PaidInv, NEW p \in particles, DistributeEnergy(p)
  PROVE  particles' = particles /\ (Energy \in EnergyOf(particles))' /\ Standing(body, Energy)'
<1> DEFINE A == NbrsAmong(p, InEnergyState({"Idle"}))
           adopted == [q \in A |-> AdoptingLabel(p, q)]
           children == EChildren(p, eParentLabel)
<1>1. PICK f \in Distributed(p, Energy, children, adopted) : SetEnergy(f)
  BY DEF DistributeEnergy
<1>2. UNCHANGED body
  BY DEF DistributeEnergy, vars
<1>3. ASSUME NEW q \in A
      PROVE  /\ q \in particles \ {p} /\ eState[q] = "Idle"
             /\ \E l \in Labels(body[p]) : NbrNode(body[p], l) \in Nodes(body[q])
  <2>1. PICK l \in LabelsOfNbrs(p, InEnergyState({"Idle"}) \ {p}) : q = NbrAtLabel(p, l)
    BY DEF NbrsAmong
  <2>2. PICK r \in InEnergyState({"Idle"}) \ {p} : NbrNode(body[p], l) \in Nodes(body[r])
    BY <2>1 DEF LabelsOfNbrs
  <2>3. r \in particles /\ eState[r] = "Idle" /\ l \in Labels(body[p])
    BY <2>1, <2>2 DEF InEnergyState, LabelsOfNbrs
  <2>4. q = r
    BY <2>1, <2>2, <2>3, ParticleFound, PaidParts DEF NbrAtLabel
  <2> QED
    BY <2>2, <2>3, <2>4
<1>4. \A q \in A : /\ adopted[q] \in 0 .. 9 /\ adopted[q] \in Labels(body[q])
                   /\ NbrNode(body[q], adopted[q]) \in Nodes(body[p])
  <2> TAKE q \in A
  <2>1. /\ q \in particles \ {p}
        /\ \E l \in Labels(body[p]) : NbrNode(body[p], l) \in Nodes(body[q])
    BY <1>3
  <2>2. adopted[q] = AdoptingLabel(p, q)
    OBVIOUS
  <2> HIDE DEF A, adopted
  <2> QED
    BY <2>1, <2>2, AdoptingPort
<1>5. /\ children \in SUBSET (particles \ {p})
      /\ \A q \in particles :
           q \in children <=> q # p /\ Energy.up[q] # -1 /\ PointsAtMe(body[p], body[q], Energy.up[q])
  BY PaidParts DEF EChildren
<1>6. adopted \in [A -> 0 .. 9]
  BY <1>4
<1> HIDE DEF adopted, children
<1>7. A \subseteq {q \in particles \ {p} : Energy.state[q] = "Idle"}
  BY <1>3, PaidParts
<1> HIDE DEF A
<1>8. f \in EnergyOf(particles) /\ Standing(body, f)
  <2>1. /\ Energy \in EnergyOf(particles) /\ Standing(body, Energy)
        /\ body \in [particles -> Body] /\ ApartIn(body)
    BY PaidParts
  <2> QED
    BY ONLY <1>1, <1>4, <1>5, <1>6, <1>7, <2>1, p \in particles, DistributedStands
<1>9. particles' = particles /\ Standing(body', f)
  BY <1>2, <1>8 DEF particles
<1> QED
  BY <1>1, <1>8, <1>9, EnergySet

\* One case for each handler.
LEMMA PaidStep ==
  ASSUME PaidInv, [EDFNext]_edfVars
  PROVE  PaidInv'
<1>1. ASSUME NEW p \in particles, EDFActivate(p) PROVE PaidInv'
  <2>1. HexInv'
    BY <1>1, PaidSteps, HexStep DEF PaidInv
  <2>2. (Energy \in EnergyOf(particles))' /\ Standing(body, Energy)'
    BY <1>1, StateChangePays, ExpandPays, PullPays, ContractTailPays, DistributionPays DEF EDFActivate
  <2> QED
    BY <2>1, <2>2 DEF PaidInv
<1>2. ASSUME UNCHANGED edfVars PROVE PaidInv'
  <2>1. HexInv'
    BY <1>2, HexStep DEF PaidInv, edfVars
  <2>2. UNCHANGED <<body, eState, eParentLabel, battery>>
    BY <1>2 DEF edfVars, energyVars, vars
  <2>3. Energy' = Energy /\ particles' = particles
    BY <2>2 DEF Energy, particles
  <2>4. (Energy \in EnergyOf(particles))'
    BY <2>3, PaidParts DEF EnergyOf, Charges
  <2>5. Standing(body', Energy')
    BY <2>2, <2>3, PaidParts
  <2>6. Standing(body, Energy)'
    BY <2>5 DEF Standing, Members, Reached, Above, ForestOf
  <2> QED
    BY <2>1, <2>4, <2>6 DEF PaidInv
<1> QED
  BY <1>1, <1>2 DEF EDFNext

\* However the particles that form the hexagon move, the trees along which they
\* share energy are a forest, nobody else points at anybody, and no battery is
\* overdrawn: for every start, all compasses, sources, capacities and transfers.
THEOREM PaidForestCorrect ==
  EDFInit /\ [][EDFNext]_edfVars => [](EDFTypeOK /\ ForestRooted)
<1>1. EDFInit => PaidInv
  BY PaidBegins
<1>2. PaidInv /\ [EDFNext]_edfVars => PaidInv'
  BY PaidStep
<1>3. PaidInv => EDFTypeOK /\ ForestRooted
  BY PaidCorrect
<1> QED
  BY <1>1, <1>2, <1>3, PTL

\* In the instance the runs check, a system under the framework steps as one.
LEMMA PaidInMC ==
  /\ MCInit => (algorithm = "EDFHexagonFormation" => EDFInit)
  /\ [MCNext]_mcVars => (algorithm = "EDFHexagonFormation" => [EDFNext]_edfVars)
<1>1. MCInit => (algorithm = "EDFHexagonFormation" => EDFInit)
  BY DEF MCInit
<1>2. ASSUME NEW p \in particles, Activation(p)
      PROVE  algorithm = "EDFHexagonFormation" => [EDFNext]_edfVars
  BY <1>2 DEF Activation, PlainActivation, EDFActivation, PayingActivation, SharingActivation, EDFNext
<1>3. UNCHANGED mcVars => UNCHANGED edfVars
  BY DEF mcVars
<1> QED
  BY <1>1, <1>2, <1>3 DEF MCNext

\* So the walkers are led and the system stays in one piece, with the types of
\* either algorithm.
THEOREM WalkersInMC == MCSpec => []HexagonWalkersLed
<1> DEFINE Inv == /\ FormsHexagon => HexInv
                  /\ algorithm = "EDFHexagonFormation" => PaidInv
<1>1. MCInit => Inv
  BY HexagonInMC, HexBegins, PaidInMC, PaidBegins
<1>2. Inv /\ [MCNext]_mcVars => Inv'
  BY HexagonInMC, HexStep, PaidInMC, PaidStep DEF FormsHexagon
<1>3. Inv => HexagonWalkersLed
  BY HexCorrect, PaidCorrect DEF HexagonWalkersLed, FormsHexagon
<1> QED
  BY <1>1, <1>2, <1>3, PTL DEF MCSpec

\* And the energy forest of the framework stands.
THEOREM ForestInMC == MCSpec => []EnergyForestRooted
<1> DEFINE Inv == algorithm = "EDFHexagonFormation" => PaidInv
<1>1. MCInit => Inv
  BY PaidInMC, PaidBegins
<1>2. Inv /\ [MCNext]_mcVars => Inv'
  BY HexagonInMC, PaidInMC, PaidStep
<1>3. Inv => EnergyForestRooted
  BY PaidCorrect DEF EnergyForestRooted
<1> QED
  BY <1>1, <1>2, <1>3, PTL DEF MCSpec

-----------------------------------------------------------------------------
(* Shape formation that is paid for                                        *)

\* What is proved of shape formation, for the hexagon, of the members that
\* EnergyShape has in common with it.
Steps == INSTANCE ShapeFormation_proofs
  WITH Modes <- {"h"}, Starts <- PayingStarts, Orientation <- Dir, FreshTurnSignal <- {0},
       mode <- "h", turnSignal <- [p \in particles |-> 0],
       constructionDir <- hexagonDir, followDir <- parentDir

\* EnergyShape's interface to the particles is that of the others.
LEMMA PayingSees ==
  /\ Paying!Node = Node
  /\ Paying!Dir = Dir
  /\ Paying!Body = Body
  /\ \A b : Paying!IsContracted(b) <=> IsContracted(b)
  /\ \A b : Paying!IsExpanded(b) <=> IsExpanded(b)
  /\ \A b : Paying!TailNode(b) = TailNode(b)
  /\ \A b : Paying!Nodes(b) = Nodes(b)
  /\ \A d : Paying!Opposite(d) = Opposite(d)
  /\ \A b : Paying!Labels(b) = Labels(b)
  /\ \A b, l : Paying!LabelToDir(b, l) = LabelToDir(b, l)
  /\ \A b, l : Paying!NbrNode(b, l) = NbrNode(b, l)
  /\ \A b, d : Paying!DirToHeadLabel(b, d) = DirToHeadLabel(b, d)
  /\ \A L, start, limit : Paying!FirstFrom(L, start, limit) = FirstFrom(L, start, limit)
  /\ Paying!FreeClockwise = FreeClockwise
  /\ \A l, e : Paying!LabelToDirAfterExpansion(l, e) = LabelToDirAfterExpansion(l, e)
  /\ \A b, nb, d : Paying!NbrDirToDir(b, nb, d) = NbrDirToDir(b, nb, d)
  /\ \A b : Paying!TailDir(b) = TailDir(b)
  /\ \A b, nb, l : Paying!PointsAtMyTail(b, nb, l) <=> PointsAtMyTail(b, nb, l)
  /\ \A b, nb, l : Paying!PointsAtMe(b, nb, l) <=> PointsAtMe(b, nb, l)
  /\ \A S : Paying!Connected(S) <=> Connected(S)
  /\ Paying!particles = particles
  /\ \A p, l : Paying!HasNbrAtLabel(p, l) <=> HasNbrAtLabel(p, l)
  /\ \A p, l : Paying!NbrAtLabel(p, l) = NbrAtLabel(p, l)
  /\ \A p, l : Paying!HasTailAtLabel(p, l) <=> HasTailAtLabel(p, l)
  /\ \A p, Q : Paying!LabelsOfNbrs(p, Q) = LabelsOfNbrs(p, Q)
  /\ \A p, Q, start : Paying!LabelOfFirstNbr(p, Q, start) = LabelOfFirstNbr(p, Q, start)
  /\ \A p, l : Paying!AfterExpand(p, l) = AfterExpand(p, l)
  /\ \A p : Paying!AfterContractTail(p) = AfterContractTail(p)
  /\ \A p, l : Paying!AfterPush(p, l) = AfterPush(p, l)
<1> USE DEF Node, Dir, xOffset, yOffset, NodeInDir, Opposite, Nbrs, Adjacent, Connected,
            Body, IsContracted, IsExpanded, TailNode, Nodes, LocalToGlobalDir,
            GlobalToLocalDir, TailDir, labels, labelDir, LabelLimit, Labels, LabelToDir,
            LabelToGlobalDir, HeadLabels, OccupiedNodeIncidentToLabel, NbrNode,
            DirToHeadLabel, FirstFrom, FreeClockwise, LabelToDirAfterExpansion,
            NbrDirToDir, PointsAtMyHead, PointsAtMyTail, PointsAtMe, Expanded,
            HeadContracted, TailContracted, Released, particles, Occupied, ParticleAt,
            HasNbrAtLabel, NbrAtLabel, HasTailAtLabel, LabelsOfNbrs, LabelOfFirstNbr,
            AfterExpand, AfterContractTail, AfterPush
<1> USE DEF Paying!Node, Paying!Dir, Paying!xOffset, Paying!yOffset, Paying!NodeInDir,
            Paying!Opposite, Paying!Nbrs, Paying!Adjacent, Paying!Connected,
            Paying!Body, Paying!IsContracted, Paying!IsExpanded, Paying!TailNode,
            Paying!Nodes, Paying!LocalToGlobalDir, Paying!GlobalToLocalDir,
            Paying!TailDir, Paying!labels, Paying!labelDir, Paying!LabelLimit,
            Paying!Labels, Paying!LabelToDir, Paying!LabelToGlobalDir,
            Paying!HeadLabels, Paying!OccupiedNodeIncidentToLabel, Paying!NbrNode,
            Paying!DirToHeadLabel, Paying!FirstFrom, Paying!FreeClockwise,
            Paying!LabelToDirAfterExpansion, Paying!NbrDirToDir, Paying!PointsAtMyHead,
            Paying!PointsAtMyTail, Paying!PointsAtMe, Paying!Expanded,
            Paying!HeadContracted, Paying!TailContracted, Paying!Released,
            Paying!particles, Paying!Occupied, Paying!ParticleAt, Paying!HasNbrAtLabel,
            Paying!NbrAtLabel, Paying!HasTailAtLabel, Paying!LabelsOfNbrs,
            Paying!LabelOfFirstNbr, Paying!AfterExpand, Paying!AfterContractTail,
            Paying!AfterPush
<1>1. Paying!Node = Node
  OBVIOUS
<1>2. Paying!Dir = Dir
  OBVIOUS
<1>3. Paying!Body = Body
  OBVIOUS
<1>4. \A b : Paying!IsContracted(b) <=> IsContracted(b)
  OBVIOUS
<1>5. \A b : Paying!IsExpanded(b) <=> IsExpanded(b)
  OBVIOUS
<1>6. \A b : Paying!TailNode(b) = TailNode(b)
  OBVIOUS
<1>7. \A b : Paying!Nodes(b) = Nodes(b)
  OBVIOUS
<1>8. \A d : Paying!Opposite(d) = Opposite(d)
  OBVIOUS
<1>9. \A b : Paying!Labels(b) = Labels(b)
  OBVIOUS
<1>10. \A b, l : Paying!LabelToDir(b, l) = LabelToDir(b, l)
  OBVIOUS
<1>11. \A b, l : Paying!NbrNode(b, l) = NbrNode(b, l)
  OBVIOUS
<1>12. \A b, d : Paying!DirToHeadLabel(b, d) = DirToHeadLabel(b, d)
  OBVIOUS
<1>13. \A L, start, limit : Paying!FirstFrom(L, start, limit) = FirstFrom(L, start, limit)
  OBVIOUS
<1>14. Paying!FreeClockwise = FreeClockwise
  OBVIOUS
<1>15. \A l, e : Paying!LabelToDirAfterExpansion(l, e) = LabelToDirAfterExpansion(l, e)
  OBVIOUS
<1>16. \A b, nb, d : Paying!NbrDirToDir(b, nb, d) = NbrDirToDir(b, nb, d)
  OBVIOUS
<1>17. \A b : Paying!TailDir(b) = TailDir(b)
  OBVIOUS
<1>18. \A b, nb, l : Paying!PointsAtMyTail(b, nb, l) <=> PointsAtMyTail(b, nb, l)
  OBVIOUS
<1>19. \A b, nb, l : Paying!PointsAtMe(b, nb, l) <=> PointsAtMe(b, nb, l)
  OBVIOUS
<1>20. \A S : Paying!Connected(S) <=> Connected(S)
  OBVIOUS
<1>21. Paying!particles = particles
  OBVIOUS
<1>22. \A p, l : Paying!HasNbrAtLabel(p, l) <=> HasNbrAtLabel(p, l)
  OBVIOUS
<1>23. \A p, l : Paying!NbrAtLabel(p, l) = NbrAtLabel(p, l)
  OBVIOUS
<1>24. \A p, l : Paying!HasTailAtLabel(p, l) <=> HasTailAtLabel(p, l)
  OBVIOUS
<1>25. \A p, Q : Paying!LabelsOfNbrs(p, Q) = LabelsOfNbrs(p, Q)
  OBVIOUS
<1>26. \A p, Q, start : Paying!LabelOfFirstNbr(p, Q, start) = LabelOfFirstNbr(p, Q, start)
  OBVIOUS
<1>27. \A p, l : Paying!AfterExpand(p, l) = AfterExpand(p, l)
  OBVIOUS
<1>28. \A p : Paying!AfterContractTail(p) = AfterContractTail(p)
  OBVIOUS
<1>29. \A p, l : Paying!AfterPush(p, l) = AfterPush(p, l)
  OBVIOUS
<1> QED
  BY ONLY <1>1, <1>2, <1>3, <1>4, <1>5, <1>6, <1>7, <1>8, <1>9, <1>10, <1>11, <1>12,
          <1>13, <1>14, <1>15, <1>16, <1>17, <1>18, <1>19, <1>20, <1>21, <1>22, <1>23,
          <1>24, <1>25, <1>26, <1>27, <1>28, <1>29

\* EnergyShape looks round as shape formation does.
LEMMA SameSight ==
  /\ \A d : Paying!Opposite(d) = Steps!Opposite(d)
  /\ \A b : Paying!TailDir(b) = Steps!TailDir(b)
  /\ \A b, nb, d : Paying!NbrDirToDir(b, nb, d) = Steps!NbrDirToDir(b, nb, d)
  /\ \A b : Paying!IsContracted(b) <=> Steps!IsContracted(b)
  /\ \A b : Paying!IsExpanded(b) <=> Steps!IsExpanded(b)
  /\ \A p, l : Paying!HasNbrAtLabel(p, l) <=> Steps!HasNbrAtLabel(p, l)
  /\ \A p, l : Paying!NbrAtLabel(p, l) = Steps!NbrAtLabel(p, l)
  /\ \A p, l : Paying!HasTailAtLabel(p, l) <=> Steps!HasTailAtLabel(p, l)
  /\ \A p, Q, start : Paying!LabelOfFirstNbr(p, Q, start) = Steps!LabelOfFirstNbr(p, Q, start)
  /\ \A p, l : Paying!AfterExpand(p, l) = Steps!AfterExpand(p, l)
  /\ \A p : Paying!AfterContractTail(p) = Steps!AfterContractTail(p)
  /\ \A p, l : Paying!AfterPush(p, l) = Steps!AfterPush(p, l)
  /\ \A L, start, limit : Paying!FirstFrom(L, start, limit) = Steps!FirstFrom(L, start, limit)
  /\ \A b, nb, l : Paying!PointsAtMe(b, nb, l) <=> Steps!PointsAtMe(b, nb, l)
  /\ Paying!particles = Steps!particles
  /\ \A S : Paying!InState(S) = Steps!InState(S)
  /\ \A p, S : Paying!HasNbrInState(p, S) <=> Steps!HasNbrInState(p, S)
  /\ \A p : Paying!ShapeLabels(p) = Steps!ShapeLabels(p)
  /\ \A p : Paying!NextMoveDir(p) = Steps!NextMoveDir(p)
  /\ \A p : Paying!NextMoveDir(p)' = Steps!NextMoveDir(p)'
<1> USE DEF Paying!Dir, Paying!xOffset, Paying!yOffset, Paying!NodeInDir,
            Paying!Opposite, Paying!IsContracted, Paying!IsExpanded, Paying!TailNode,
            Paying!Nodes, Paying!LocalToGlobalDir, Paying!GlobalToLocalDir,
            Paying!TailDir, Paying!labels, Paying!labelDir, Paying!LabelLimit,
            Paying!Labels, Paying!LabelToDir, Paying!LabelToGlobalDir,
            Paying!HeadLabels, Paying!OccupiedNodeIncidentToLabel, Paying!NbrNode,
            Paying!FirstFrom, Paying!FreeClockwise, Paying!NbrDirToDir,
            Paying!PointsAtMyHead, Paying!PointsAtMyTail, Paying!PointsAtMe,
            Paying!Expanded, Paying!HeadContracted, Paying!TailContracted,
            Paying!Released, Paying!particles, Paying!Occupied, Paying!ParticleAt,
            Paying!HasNbrAtLabel, Paying!NbrAtLabel, Paying!HasTailAtLabel,
            Paying!LabelsOfNbrs, Paying!LabelOfFirstNbr, Paying!AfterExpand,
            Paying!AfterContractTail, Paying!AfterPush, Paying!InState,
            Paying!HasNbrInState, Paying!ShapeLabels, Paying!NextMoveDir
<1> USE DEF Steps!Dir, Steps!xOffset, Steps!yOffset, Steps!NodeInDir, Steps!Opposite,
            Steps!IsContracted, Steps!IsExpanded, Steps!TailNode, Steps!Nodes,
            Steps!LocalToGlobalDir, Steps!GlobalToLocalDir, Steps!TailDir, Steps!labels,
            Steps!labelDir, Steps!LabelLimit, Steps!Labels, Steps!LabelToDir,
            Steps!LabelToGlobalDir, Steps!HeadLabels, Steps!OccupiedNodeIncidentToLabel,
            Steps!NbrNode, Steps!FirstFrom, Steps!FreeClockwise, Steps!NbrDirToDir,
            Steps!PointsAtMyHead, Steps!PointsAtMyTail, Steps!PointsAtMe,
            Steps!Expanded, Steps!HeadContracted, Steps!TailContracted, Steps!Released,
            Steps!particles, Steps!Occupied, Steps!ParticleAt, Steps!HasNbrAtLabel,
            Steps!NbrAtLabel, Steps!HasTailAtLabel, Steps!LabelsOfNbrs,
            Steps!LabelOfFirstNbr, Steps!AfterExpand, Steps!AfterContractTail,
            Steps!AfterPush, Steps!InState, Steps!HasNbrInState, Steps!ShapeLabels,
            Steps!NextMoveDir
<1>1. \A d : Paying!Opposite(d) = Steps!Opposite(d)
  OBVIOUS
<1>2. \A b : Paying!TailDir(b) = Steps!TailDir(b)
  OBVIOUS
<1>3. \A b, nb, d : Paying!NbrDirToDir(b, nb, d) = Steps!NbrDirToDir(b, nb, d)
  OBVIOUS
<1>4. \A b : Paying!IsContracted(b) <=> Steps!IsContracted(b)
  OBVIOUS
<1>5. \A b : Paying!IsExpanded(b) <=> Steps!IsExpanded(b)
  OBVIOUS
<1>6. \A p, l : Paying!HasNbrAtLabel(p, l) <=> Steps!HasNbrAtLabel(p, l)
  OBVIOUS
<1>7. \A p, l : Paying!NbrAtLabel(p, l) = Steps!NbrAtLabel(p, l)
  OBVIOUS
<1>8. \A p, l : Paying!HasTailAtLabel(p, l) <=> Steps!HasTailAtLabel(p, l)
  OBVIOUS
<1>9. \A p, Q, start : Paying!LabelOfFirstNbr(p, Q, start) = Steps!LabelOfFirstNbr(p, Q, start)
  OBVIOUS
<1>10. \A p, l : Paying!AfterExpand(p, l) = Steps!AfterExpand(p, l)
  OBVIOUS
<1>11. \A p : Paying!AfterContractTail(p) = Steps!AfterContractTail(p)
  OBVIOUS
<1>12. \A p, l : Paying!AfterPush(p, l) = Steps!AfterPush(p, l)
  OBVIOUS
<1>13. \A L, start, limit : Paying!FirstFrom(L, start, limit) = Steps!FirstFrom(L, start, limit)
  OBVIOUS
<1>14. \A b, nb, l : Paying!PointsAtMe(b, nb, l) <=> Steps!PointsAtMe(b, nb, l)
  OBVIOUS
<1>15. Paying!particles = Steps!particles
  OBVIOUS
<1>16. \A S : Paying!InState(S) = Steps!InState(S)
  OBVIOUS
<1>17. \A p, S : Paying!HasNbrInState(p, S) <=> Steps!HasNbrInState(p, S)
  OBVIOUS
<1>18. \A p : Paying!ShapeLabels(p) = Steps!ShapeLabels(p)
  OBVIOUS
<1>19. \A p : Paying!NextMoveDir(p) = Steps!NextMoveDir(p)
  OBVIOUS
<1>20. \A p : Paying!NextMoveDir(p)' = Steps!NextMoveDir(p)'
  OBVIOUS
<1> QED
  BY ONLY <1>1, <1>2, <1>3, <1>4, <1>5, <1>6, <1>7, <1>8, <1>9, <1>10, <1>11, <1>12,
          <1>13, <1>14, <1>15, <1>16, <1>17, <1>18, <1>19, <1>20

\* A leader finishes where one of the shape points at it.
LEMMA SameReceipt ==
  \A p : /\ Paying!ReceiveLabels(p) = Steps!ReceiveLabels(p)
         /\ Paying!CanFinish(p) <=> Steps!CanFinish(p)
<1> TAKE p
<1>1. Paying!ReceiveLabels(p) = Steps!ReceiveLabels(p)
  BY SameSight DEF Paying!ReceiveLabels, Steps!ReceiveLabels
<1> QED
  BY <1>1, SameSight DEF Paying!CanFinish, Steps!CanFinish

\* Shape formation's interface to the particles is that of the others.
LEMMA StepsSees ==
  /\ Steps!Node = Node
  /\ Steps!Dir = Dir
  /\ \A n : Steps!Nbrs(n) = Nbrs(n)
  /\ Steps!Body = Body
  /\ \A b : Steps!IsContracted(b) <=> IsContracted(b)
  /\ \A b : Steps!Nodes(b) = Nodes(b)
  /\ \A b, nb, l : Steps!PointsAtMyTail(b, nb, l) <=> PointsAtMyTail(b, nb, l)
  /\ \A b, d : Steps!DirToHeadLabel(b, d) = DirToHeadLabel(b, d)
  /\ \A b, l : Steps!NbrNode(b, l) = NbrNode(b, l)
  /\ \A b, l : Steps!LabelToDir(b, l) = LabelToDir(b, l)
  /\ \A b : Steps!HeadLabels(b) = HeadLabels(b)
  /\ \A S : Steps!Connected(S) <=> Connected(S)
  /\ Steps!particles = particles
  /\ \A p, l : Steps!HasNbrAtLabel(p, l) <=> HasNbrAtLabel(p, l)
  /\ \A p, l : Steps!NbrAtLabel(p, l) = NbrAtLabel(p, l)
  /\ \A p, Q : Steps!LabelsOfNbrs(p, Q) = LabelsOfNbrs(p, Q)
<1> USE DEF Node, Dir, xOffset, yOffset, NodeInDir, Nbrs, Adjacent, Connected, Body,
            IsContracted, TailNode, Nodes, LocalToGlobalDir, GlobalToLocalDir, TailDir,
            labels, labelDir, LabelLimit, Labels, LabelToDir, LabelToGlobalDir,
            HeadLabels, OccupiedNodeIncidentToLabel, NbrNode, DirToHeadLabel,
            PointsAtMyTail, particles, Occupied, ParticleAt, HasNbrAtLabel, NbrAtLabel,
            LabelsOfNbrs
<1> USE DEF Steps!Node, Steps!Dir, Steps!xOffset, Steps!yOffset, Steps!NodeInDir,
            Steps!Nbrs, Steps!Adjacent, Steps!Connected, Steps!Body, Steps!IsContracted,
            Steps!TailNode, Steps!Nodes, Steps!LocalToGlobalDir, Steps!GlobalToLocalDir,
            Steps!TailDir, Steps!labels, Steps!labelDir, Steps!LabelLimit, Steps!Labels,
            Steps!LabelToDir, Steps!LabelToGlobalDir, Steps!HeadLabels,
            Steps!OccupiedNodeIncidentToLabel, Steps!NbrNode, Steps!DirToHeadLabel,
            Steps!PointsAtMyTail, Steps!particles, Steps!Occupied, Steps!ParticleAt,
            Steps!HasNbrAtLabel, Steps!NbrAtLabel, Steps!LabelsOfNbrs
<1>1. Steps!Node = Node
  OBVIOUS
<1>2. Steps!Dir = Dir
  OBVIOUS
<1>3. \A n : Steps!Nbrs(n) = Nbrs(n)
  OBVIOUS
<1>4. Steps!Body = Body
  OBVIOUS
<1>5. \A b : Steps!IsContracted(b) <=> IsContracted(b)
  OBVIOUS
<1>6. \A b : Steps!Nodes(b) = Nodes(b)
  OBVIOUS
<1>7. \A b, nb, l : Steps!PointsAtMyTail(b, nb, l) <=> PointsAtMyTail(b, nb, l)
  OBVIOUS
<1>8. \A b, d : Steps!DirToHeadLabel(b, d) = DirToHeadLabel(b, d)
  OBVIOUS
<1>9. \A b, l : Steps!NbrNode(b, l) = NbrNode(b, l)
  OBVIOUS
<1>10. \A b, l : Steps!LabelToDir(b, l) = LabelToDir(b, l)
  OBVIOUS
<1>11. \A b : Steps!HeadLabels(b) = HeadLabels(b)
  OBVIOUS
<1>12. \A S : Steps!Connected(S) <=> Connected(S)
  OBVIOUS
<1>13. Steps!particles = particles
  OBVIOUS
<1>14. \A p, l : Steps!HasNbrAtLabel(p, l) <=> HasNbrAtLabel(p, l)
  OBVIOUS
<1>15. \A p, l : Steps!NbrAtLabel(p, l) = NbrAtLabel(p, l)
  OBVIOUS
<1>16. \A p, Q : Steps!LabelsOfNbrs(p, Q) = LabelsOfNbrs(p, Q)
  OBVIOUS
<1> QED
  BY ONLY <1>1, <1>2, <1>3, <1>4, <1>5, <1>6, <1>7, <1>8, <1>9, <1>10, <1>11, <1>12,
          <1>13, <1>14, <1>15, <1>16


\* What is known of a hexagon that is paid for (ShapeFormation's ForestOnSurface),
\* and that no two bodies meet.
Figure == {body[q].head : q \in Steps!InState({"Seed", "Finish"})}

\* The types of a state of EnergyShape, that a finished particle is a contracted
\* one, and that a leader has a finished particle beside it but not all round.
StepsSound ==
  /\ body \in [particles -> Body] /\ ApartIn(body)
  /\ state \in [particles -> {"Seed", "Idle", "Follow", "Lead", "Finish"}]
  /\ hexagonDir \in [particles -> {-1} \cup Dir]
  /\ moveDir \in [particles -> {-1} \cup Dir]
  /\ parentDir \in [particles -> {-1} \cup Dir]
  /\ \A p \in particles : state[p] \in {"Seed", "Finish"} => IsContracted(body[p])
  /\ \A p \in particles :
       state[p] = "Lead" => Nbrs(body[p].head) \cap Figure \notin {{}, Nbrs(body[p].head)}

\* The invariant of shape formation gives all that.
LEMMA StepsGive ==
  ASSUME Steps!StartsAssumption, Steps!ModesAssumption, Steps!IInv
  PROVE  StepsSound
<1>1. Steps!Core /\ Steps!Grown
  BY DEF Steps!IInv, Steps!SignalsSet
<1>2. Steps!ShapeOpen
  BY <1>1, Steps!GrownOpen
<1>3. Steps!ForestOnSurface
  BY <1>1, <1>2, Steps!CoreCorrect
<1>4. ApartIn(body)
  BY <1>1, StepsSees DEF Steps!Core, Steps!ApartIn, ApartIn
<1>5. /\ Steps!TypeOK /\ Steps!LeadersOnSurface /\ Steps!Shape = Figure
  BY <1>3 DEF Steps!ForestOnSurface, Steps!Shape, Figure
<1>6. \A S : Steps!InState(S) = {p \in particles : state[p] \in S}
  BY StepsSees DEF Steps!InState
<1>7. \A p \in particles : state[p] \in {"Seed", "Finish"} => IsContracted(body[p])
  BY <1>5, <1>6, StepsSees DEF Steps!TypeOK
<1>8. \A p \in particles :
        state[p] = "Lead" => Nbrs(body[p].head) \cap Figure \notin {{}, Nbrs(body[p].head)}
  <2> SUFFICES ASSUME NEW p \in particles, state[p] = "Lead"
               PROVE  Nbrs(body[p].head) \cap Figure \notin {{}, Nbrs(body[p].head)}
    OBVIOUS
  <2>1. p \in Steps!InState({"Lead"})
    BY <1>6
  <2>2. Steps!Nbrs(body[p].head) \cap Figure \notin {{}, Steps!Nbrs(body[p].head)}
    BY <1>5, <2>1 DEF Steps!LeadersOnSurface
  <2> QED
    BY <2>2, StepsSees
<1> QED
  BY <1>4, <1>5, <1>7, <1>8, StepsSees DEF Steps!TypeOK, Steps!States, Steps!MaybeDir, StepsSound

\* Where no follower points at the tail, no neighbour that follows does.
LEMMA NobodyBehind ==
  ASSUME StepsSound, NEW p \in particles, ~ Paying!HasTailFollower(p)
  PROVE  ~ Steps!HasTailFollower(p)
<1> SUFFICES ASSUME NEW l \in Steps!LabelsOfNbrs(p, Steps!InState({"Follow"})),
                    NEW q, q = NbrAtLabel(p, l),
                    Steps!PointsAtMyTail(body[p], body[q], Steps!ParentLabel(q))
             PROVE  FALSE
  BY StepsSees DEF Steps!HasTailFollower
<1>1. PICK r \in particles : /\ state[r] = "Follow"
                             /\ l \in Labels(body[p]) /\ NbrNode(body[p], l) \in Nodes(body[r])
  BY StepsSees DEF LabelsOfNbrs, Steps!InState
<1>2. q = r
  BY <1>1, FoundOn DEF StepsSound, NbrAtLabel, ParticleAt, particles
<1>3. r # p
  BY <1>1, PortLeaves DEF StepsSound
<1>4. r \in Paying!InState({"Follow"}) \ {p}
  BY <1>1, <1>3, PayingSees DEF Paying!InState
<1>5. Paying!PointsAtMyTail(body[p], body[r], Paying!DirToHeadLabel(body[r], parentDir[r]))
  BY <1>2, PayingSees, StepsSees DEF Steps!ParentLabel
<1> QED
  BY <1>4, <1>5 DEF Paying!HasTailFollower

\* A leader finds a direction to move in.
LEMMA WayOn ==
  ASSUME StepsSound, NEW p \in particles, state[p] = "Lead", IsContracted(body[p])
  PROVE  Paying!NextMoveDir(p) \in Dir
<1> DEFINE S == Figure
           L == {l \in Dir : NbrNode(body[p], l) \in S}
<1>1. Paying!ShapeLabels(p) = L
  <2>1. Paying!ShapeLabels(p) = LabelsOfNbrs(p, Paying!InState({"Seed", "Finish"}))
    BY PayingSees DEF Paying!ShapeLabels
  <2>2. Paying!InState({"Seed", "Finish"}) = Steps!InState({"Seed", "Finish"})
    BY SameSight
  <2>3. \A q \in Steps!InState({"Seed", "Finish"}) : Nodes(body[q]) = {body[q].head}
    BY StepsSees, NodesType DEF Steps!InState, StepsSound
  <2>4. Labels(body[p]) = Dir
    BY ContractedPorts DEF StepsSound
  <2> QED
    BY <2>1, <2>2, <2>3, <2>4 DEF LabelsOfNbrs, Figure
<1>2. Nbrs(body[p].head) \cap S # {} /\ ~ (Nbrs(body[p].head) \subseteq S)
  BY DEF StepsSound
<1>3. body[p] \in Body
  BY DEF StepsSound
<1>4. FreeClockwise[L] \in Dir
  <2> HIDE DEF S
  <2> QED BY <1>2, <1>3, SurfaceWalk
<1> QED
  BY <1>1, <1>4, PayingSees DEF Paying!NextMoveDir


\* The particles stay the same ones.
LEMMA SameParticles ==
  /\ \A p, l : DOMAIN AfterPush(p, l) = DOMAIN body /\ DOMAIN AfterExpand(p, l) = DOMAIN body
  /\ \A p : DOMAIN AfterContractTail(p) = DOMAIN body
  BY DEF AfterPush, AfterExpand, AfterContractTail

\* What is paid for is what shape formation does, handler by handler.
LEMMA ContractStep ==
  ASSUME StepsSound, NEW p \in particles, NEW e, Paying!Contract(p, e)
  PROVE  Steps!FollowContracts(p) \/ Steps!LeadContracts(p)
<1>1. /\ Steps!IsExpanded(body[p]) /\ state[p] \in {"Follow", "Lead"}
      /\ ~ Steps!HasNbrInState(p, {"Idle"}) /\ ~ Steps!HasTailFollower(p)
  BY NobodyBehind, SameSight DEF Paying!Contract, Paying!MayContract
<1>2. /\ body' = Steps!AfterContractTail(p)
      /\ UNCHANGED <<objects, state, hexagonDir, parentDir>>
      /\ moveDir' = IF state[p] = "Lead" THEN [moveDir EXCEPT ![p] = Steps!NextMoveDir(p)']
                                         ELSE moveDir
  BY SameSight DEF Paying!Contract
<1>3. particles' = particles
  BY SameParticles, PayingSees DEF Paying!Contract, particles
<1> QED
  BY <1>1, <1>2, <1>3 DEF Steps!FollowContracts, Steps!LeadContracts

\* A particle that becomes a leader does so in shape formation.
LEMMA LeadStep ==
  ASSUME NEW p \in particles, NEW e, Paying!BecomeLead(p, e)
  PROVE  Steps!BecomeLead(p)
<1>1. particles' = particles
  BY DEF Paying!BecomeLead, particles
<1> QED
  BY <1>1, SameSight DEF Paying!BecomeLead, Paying!MayLead, Steps!BecomeLead

\* So does one that becomes a follower.
LEMMA FollowStep ==
  ASSUME NEW p \in particles, NEW e, Paying!BecomeFollow(p, e)
  PROVE  Steps!BecomeFollow(p)
<1>1. particles' = particles
  BY DEF Paying!BecomeFollow, particles
<1> QED
  BY <1>1, SameSight DEF Paying!BecomeFollow, Paying!MayFollow, Steps!BecomeFollow

\* A follower that pushes its parent's tail out is one that pushes there.
LEMMA PushStep ==
  ASSUME NEW p \in particles, NEW e, Paying!Push(p, e)
  PROVE  Steps!FollowPushes(p)
<1>1. /\ Steps!IsContracted(body[p]) /\ state[p] = "Follow" /\ Steps!ShapeLabels(p) = {}
      /\ Steps!HasTailAtLabel(p, parentDir[p])
  BY SameSight DEF Paying!Push, Paying!MayPush
<1>2. /\ body' = Steps!AfterPush(p, parentDir[p])
      /\ UNCHANGED <<objects, state, hexagonDir, moveDir>>
  BY SameSight DEF Paying!Push
<1>3. parentDir' = LET nbr == body[Steps!NbrAtLabel(p, parentDir[p])]
                   IN  [parentDir EXCEPT ![p] = Steps!NbrDirToDir(body[p], nbr,
                                                  Steps!Opposite(Steps!TailDir(nbr)))]
  BY SameSight DEF Paying!Push
<1>4. particles' = particles
  BY SameParticles, PayingSees DEF Paying!Push, particles
<1> QED
  BY <1>1, <1>2, <1>3, <1>4 DEF Steps!FollowPushes

\* A leader that pays for its way, blocked or not, moves as a leader there.
LEMMA WalkStep ==
  ASSUME StepsSound, NEW p \in particles, NEW e, Paying!Walk(p, e)
  PROVE  Steps!LeadMoves(p)
<1> DEFINE d == Steps!NextMoveDir(p)
<1>1. Steps!IsContracted(body[p]) /\ state[p] = "Lead" /\ ~ Steps!CanFinish(p)
  BY SameSight, SameReceipt DEF Paying!Walk, Paying!IsWalking
<1>2. d \in Dir /\ d \in Steps!Dir
  BY <1>1, WayOn, SameSight, StepsSees
<1>3. /\ moveDir' = [moveDir EXCEPT ![p] = d]
      /\ \/ ~ Steps!HasNbrAtLabel(p, d) /\ body' = Steps!AfterExpand(p, d)
         \/ Steps!HasTailAtLabel(p, d) /\ body' = Steps!AfterPush(p, d)
         \/ Steps!HasNbrAtLabel(p, d) /\ ~ Steps!HasTailAtLabel(p, d) /\ UNCHANGED body
      /\ UNCHANGED <<objects, state, hexagonDir, parentDir>>
  BY SameSight DEF Paying!Walk
<1>4. particles' = particles
  BY SameParticles, PayingSees DEF Paying!Walk, particles
<1> HIDE DEF d
<1>5. \E dir \in Steps!Dir :
        /\ dir = Steps!NextMoveDir(p)
        /\ moveDir' = [moveDir EXCEPT ![p] = dir]
        /\ \/ ~ Steps!HasNbrAtLabel(p, dir) /\ body' = Steps!AfterExpand(p, dir)
           \/ Steps!HasTailAtLabel(p, dir)  /\ body' = Steps!AfterPush(p, dir)
           \/ Steps!HasNbrAtLabel(p, dir) /\ ~ Steps!HasTailAtLabel(p, dir) /\ UNCHANGED body
  BY <1>2, <1>3 DEF d
<1> QED
  BY <1>1, <1>3, <1>4, <1>5 DEF Steps!LeadMoves

\* A leader that pays to finish points its construction direction as one there.
LEMMA FinishStep ==
  ASSUME StepsSound, NEW p \in particles, NEW e, Paying!Finish(p, e)
  PROVE  Steps!Finish(p)
<1> DEFINE R == Steps!ReceiveLabels(p)
           r == FirstFrom(R, 0, 6)
<1>1. Steps!IsContracted(body[p]) /\ IsContracted(body[p]) /\ state[p] = "Lead" /\ R # {}
  BY SameSight, SameReceipt, StepsSees
     DEF Paying!Finish, Paying!IsWalking, Paying!CanFinish
<1>2. R \subseteq Dir
  <2>1. Steps!ShapeLabels(p) \subseteq Labels(body[p])
    BY StepsSees DEF Steps!ShapeLabels, LabelsOfNbrs
  <2>2. R \subseteq Steps!ShapeLabels(p)
    BY DEF Steps!ReceiveLabels
  <2> QED
    BY <1>1, <2>1, <2>2, ContractedPorts DEF StepsSound
<1>3. r \in R /\ \A l \in R : r <= l
  <2> HIDE DEF R
  <2>1. PICK m \in R : \A l \in R : m <= l
    BY <1>1, <1>2, LeastDir
  <2>2. \A l \in R : (l - 0 + 6) % 6 = l
    BY <1>2 DEF Dir
  <2>3. r \in R /\ \A l \in R : (r - 0 + 6) % 6 <= (l - 0 + 6) % 6
    BY <2>1, <2>2 DEF FirstFrom
  <2> QED
    BY <2>2, <2>3
<1>4. /\ hexagonDir' = [hexagonDir EXCEPT ![p] = Paying!NextConstructionDir(p)]
      /\ state' = [state EXCEPT ![p] = "Finish"]
      /\ UNCHANGED <<body, objects, moveDir, parentDir>>
  BY DEF Paying!Finish
<1>5. particles' = particles
  BY <1>4 DEF particles
<1>6. Steps!ConstructionTurn(p, r) = <<Paying!NextConstructionDir(p), [q \in particles |-> 0][p]>>
  <2>1. Paying!FirstFrom(Paying!ReceiveLabels(p), 0, 6) = r
    BY SameReceipt, PayingSees
  <2>2. \A d : Paying!HasNbrAtLabel(p, d) /\ state[Paying!NbrAtLabel(p, d)] = "Finish"
                 <=> Steps!StateAt(p, d, {"Finish"})
    BY SameSight DEF Steps!StateAt
  <2>3. Steps!ConstructionTurn(p, r) = Steps!HexagonTurn(p, Steps!NbrAtLabel(p, r), r)
    BY DEF Steps!ConstructionTurn
  <2> HIDE DEF r
  <2>4. Steps!NbrAtLabel(p, r) = Paying!NbrAtLabel(p, r)
    BY SameSight
  <2> QED
    BY <2>1, <2>2, <2>3, <2>4
       DEF Paying!NextConstructionDir, Steps!HexagonTurn, Steps!Turn
<1>7. [q \in particles |-> 0] = [[q \in particles |-> 0] EXCEPT ![p] = [q \in particles |-> 0][p]]
  OBVIOUS
<1> HIDE DEF r, R
<1>8. \E s \in Steps!ReceiveLabels(p) :
        /\ \A l \in Steps!ReceiveLabels(p) : s <= l
        /\ \E turn \in {Steps!ConstructionTurn(p, s)} :
             /\ hexagonDir' = [hexagonDir EXCEPT ![p] = turn[1]]
             /\ [q \in particles' |-> 0] = [[q \in particles |-> 0] EXCEPT ![p] = turn[2]]
  <2> DEFINE c == Steps!ConstructionTurn(p, r)
             f == [q \in particles |-> 0]
  <2>1. c[1] = Paying!NextConstructionDir(p) /\ c[2] = f[p]
    BY <1>6
  <2>2. f = [f EXCEPT ![p] = f[p]]
    BY <1>7
  <2> HIDE DEF c, f
  <2>3. /\ hexagonDir' = [hexagonDir EXCEPT ![p] = c[1]]
        /\ f = [f EXCEPT ![p] = c[2]]
    BY <1>4, <2>1, <2>2
  <2>4. [q \in particles' |-> 0] = f
    BY <1>5 DEF f
  <2>5. r \in Steps!ReceiveLabels(p) /\ \A l \in Steps!ReceiveLabels(p) : r <= l
    BY <1>3 DEF R
  <2> QED
    BY <2>3, <2>4, <2>5 DEF c, f
<1> QED
  BY <1>1, <1>4, <1>5, <1>8 DEF Steps!Finish


\* With the energy left out every activation is one of shape formation, or none.
LEMMA PaidStepIs ==
  ASSUME StepsSound, NEW p \in particles, Paying!Activate(p)
  PROVE  [Steps!Next]_(Steps!vars)
<1>1. ASSUME UNCHANGED <<objects, Paying!shapeVars>> PROVE UNCHANGED Steps!vars
  <2>1. particles' = particles
    BY <1>1 DEF Paying!shapeVars, particles
  <2> QED
    BY <1>1, <2>1 DEF Paying!shapeVars, Steps!vars
<1>2. CASE Paying!Join(p) \/ Paying!PassPruneOn(p)
  BY <1>1, <1>2 DEF Paying!Join, Paying!PassPruneOn
<1>3. CASE Paying!Live(p)
  <2>1. PICK e : Paying!UseEnergy(p, e)
    BY <1>3 DEF Paying!Live
  <2>2. \/ UNCHANGED <<objects, Paying!shapeVars>>
        \/ Paying!Contract(p, e) \/ Paying!BecomeLead(p, e) \/ Paying!BecomeFollow(p, e)
        \/ Paying!Push(p, e) \/ Paying!Finish(p, e) \/ Paying!Walk(p, e)
    BY <2>1 DEF Paying!UseEnergy
  <2>3. p \in Steps!particles
    BY StepsSees
  <2>4. UNCHANGED <<objects, Paying!shapeVars>> \/ Steps!Activate(p)
    BY <2>2, ContractStep, LeadStep, FollowStep, PushStep, FinishStep, WalkStep
       DEF Steps!Activate
  <2> QED
    BY <1>1, <2>3, <2>4 DEF Steps!Next
<1> QED
  BY <1>2, <1>3 DEF Paying!Activate

\* It is assumed of shape formation what is assumed of EnergyShape.
LEMMA StepsAssumed == Steps!StartsAssumption /\ Steps!ModesAssumption
<1>1. Steps!ModesAssumption
  BY DEF Steps!ModesAssumption
<1>2. Paying!StartsAssumption
  BY InstancesAssumption DEF InstancesAssumption
<1>3. ASSUME NEW places \in PayingStarts
      PROVE  /\ places \in Seq(Steps!Node) /\ places # << >> /\ places[1] = <<0, 0>>
             /\ \A i, j \in 1 .. Len(places) : places[i] = places[j] => i = j
             /\ Steps!Connected({places[i] : i \in 1 .. Len(places)})
  BY <1>2, PayingSees, StepsSees DEF Paying!StartsAssumption
<1>4. Dir \subseteq Steps!Dir
  BY StepsSees
<1> QED
  BY <1>1, <1>3, <1>4 DEF Steps!StartsAssumption

\* The first systems of EnergyShape are first systems of shape formation.
LEMMA PaidShapeBegins ==
  ASSUME Paying!Init
  PROVE  Steps!Init
<1>1. PICK places \in PayingStarts, compass \in Compasses :
        LET ids == 1 .. Len(places)
        IN  /\ body = [p \in ids |-> [head |-> places[p], globalTailDir |-> -1,
                                     orientation |-> compass[p]]]
            /\ state = [p \in ids |-> IF p = 1 THEN "Seed" ELSE "Idle"]
            /\ hexagonDir = [p \in ids |-> IF p = 1 THEN 0 ELSE -1]
            /\ moveDir = [p \in ids |-> -1]
            /\ parentDir = [p \in ids |-> -1]
  BY DEF Paying!Init
<1> DEFINE ids == 1 .. Len(places)
           draws == [p \in ids |-> compass[p]]
<1>2. \A p \in ids : compass[p] \in Dir
  <2>1. Paying!StartsAssumption
    BY InstancesAssumption DEF InstancesAssumption
  <2> QED
    BY <2>1, PayingSees DEF Paying!StartsAssumption
<1>3. draws \in [ids -> Dir] /\ objects = {}
  BY <1>2 DEF Paying!Init
<1>4. particles = ids
  BY <1>1 DEF particles
<1>5. body = [p \in ids |-> [head |-> places[p], globalTailDir |-> -1, orientation |-> draws[p]]]
  BY <1>1
<1>6. [p \in particles |-> 0] \in [ids -> {0}]
  BY <1>4
<1> HIDE DEF draws
<1>7. \E c \in [ids -> Dir] :
        body = [p \in ids |-> [head |-> places[p], globalTailDir |-> -1, orientation |-> c[p]]]
  BY <1>3, <1>5
<1> QED
  BY <1>1, <1>3, <1>6, <1>7 DEF Steps!Init


\* Shape formation as EnergyShape names it.
LEMMA ShapeSees ==
  /\ Steps!Dir = Paying!Shape!Dir
  /\ Steps!particles = Paying!Shape!particles
  /\ \A d : Steps!Opposite(d) = Paying!Shape!Opposite(d)
  /\ \A b : Steps!TailDir(b) = Paying!Shape!TailDir(b)
  /\ \A b, nb, d : Steps!NbrDirToDir(b, nb, d) = Paying!Shape!NbrDirToDir(b, nb, d)
  /\ \A b : Steps!IsContracted(b) <=> Paying!Shape!IsContracted(b)
  /\ \A b : Steps!IsExpanded(b) <=> Paying!Shape!IsExpanded(b)
  /\ \A p, l : Steps!HasNbrAtLabel(p, l) <=> Paying!Shape!HasNbrAtLabel(p, l)
  /\ \A p, l : Steps!NbrAtLabel(p, l) = Paying!Shape!NbrAtLabel(p, l)
  /\ \A p, l : Steps!HasTailAtLabel(p, l) <=> Paying!Shape!HasTailAtLabel(p, l)
  /\ \A p, Q, start : Steps!LabelOfFirstNbr(p, Q, start) = Paying!Shape!LabelOfFirstNbr(p, Q, start)
  /\ \A p, l : Steps!AfterExpand(p, l) = Paying!Shape!AfterExpand(p, l)
  /\ \A p : Steps!AfterContractTail(p) = Paying!Shape!AfterContractTail(p)
  /\ \A p, l : Steps!AfterPush(p, l) = Paying!Shape!AfterPush(p, l)
  /\ \A b, nb, l : Steps!PointsAtMe(b, nb, l) <=> Paying!Shape!PointsAtMe(b, nb, l)
  /\ \A b, nb, l : Steps!PointsAtMyTail(b, nb, l) <=> Paying!Shape!PointsAtMyTail(b, nb, l)
  /\ \A b, l : Steps!NbrNode(b, l) = Paying!Shape!NbrNode(b, l)
  /\ \A b, d : Steps!DirToHeadLabel(b, d) = Paying!Shape!DirToHeadLabel(b, d)
  /\ \A S : Steps!InState(S) = Paying!Shape!InState(S)
  /\ \A p, S : Steps!HasNbrInState(p, S) <=> Paying!Shape!HasNbrInState(p, S)
  /\ \A p, Q : Steps!LabelsOfNbrs(p, Q) = Paying!Shape!LabelsOfNbrs(p, Q)
  /\ \A q : Steps!ParentLabel(q) = Paying!Shape!ParentLabel(q)
  /\ \A p : Steps!ShapeLabels(p) = Paying!Shape!ShapeLabels(p)
  /\ \A p : Steps!NextMoveDir(p) = Paying!Shape!NextMoveDir(p)
  /\ \A p : Steps!NextMoveDir(p)' = Paying!Shape!NextMoveDir(p)'
<1> USE DEF Steps!Dir, Steps!xOffset, Steps!yOffset, Steps!NodeInDir, Steps!Opposite,
            Steps!IsContracted, Steps!IsExpanded, Steps!TailNode, Steps!Nodes,
            Steps!LocalToGlobalDir, Steps!GlobalToLocalDir, Steps!TailDir, Steps!labels,
            Steps!labelDir, Steps!LabelLimit, Steps!Labels, Steps!LabelToDir,
            Steps!LabelToGlobalDir, Steps!HeadLabels, Steps!OccupiedNodeIncidentToLabel,
            Steps!NbrNode, Steps!DirToHeadLabel, Steps!FirstFrom, Steps!FreeClockwise,
            Steps!NbrDirToDir, Steps!PointsAtMyHead, Steps!PointsAtMyTail,
            Steps!PointsAtMe, Steps!Expanded, Steps!HeadContracted,
            Steps!TailContracted, Steps!Released, Steps!particles, Steps!Occupied,
            Steps!ParticleAt, Steps!HasNbrAtLabel, Steps!NbrAtLabel,
            Steps!HasTailAtLabel, Steps!LabelsOfNbrs, Steps!LabelOfFirstNbr,
            Steps!AfterExpand, Steps!AfterContractTail, Steps!AfterPush, Steps!InState,
            Steps!HasNbrInState, Steps!ShapeLabels, Steps!NextMoveDir, Steps!ParentLabel
<1> USE DEF Paying!Shape!Dir, Paying!Shape!xOffset, Paying!Shape!yOffset,
            Paying!Shape!NodeInDir, Paying!Shape!Opposite, Paying!Shape!IsContracted,
            Paying!Shape!IsExpanded, Paying!Shape!TailNode, Paying!Shape!Nodes,
            Paying!Shape!LocalToGlobalDir, Paying!Shape!GlobalToLocalDir,
            Paying!Shape!TailDir, Paying!Shape!labels, Paying!Shape!labelDir,
            Paying!Shape!LabelLimit, Paying!Shape!Labels, Paying!Shape!LabelToDir,
            Paying!Shape!LabelToGlobalDir, Paying!Shape!HeadLabels,
            Paying!Shape!OccupiedNodeIncidentToLabel, Paying!Shape!NbrNode,
            Paying!Shape!DirToHeadLabel, Paying!Shape!FirstFrom,
            Paying!Shape!FreeClockwise, Paying!Shape!NbrDirToDir,
            Paying!Shape!PointsAtMyHead, Paying!Shape!PointsAtMyTail,
            Paying!Shape!PointsAtMe, Paying!Shape!Expanded, Paying!Shape!HeadContracted,
            Paying!Shape!TailContracted, Paying!Shape!Released, Paying!Shape!particles,
            Paying!Shape!Occupied, Paying!Shape!ParticleAt, Paying!Shape!HasNbrAtLabel,
            Paying!Shape!NbrAtLabel, Paying!Shape!HasTailAtLabel,
            Paying!Shape!LabelsOfNbrs, Paying!Shape!LabelOfFirstNbr,
            Paying!Shape!AfterExpand, Paying!Shape!AfterContractTail,
            Paying!Shape!AfterPush, Paying!Shape!InState, Paying!Shape!HasNbrInState,
            Paying!Shape!ShapeLabels, Paying!Shape!NextMoveDir, Paying!Shape!ParentLabel
<1>1. Steps!Dir = Paying!Shape!Dir
  OBVIOUS
<1>2. Steps!particles = Paying!Shape!particles
  OBVIOUS
<1>3. \A d : Steps!Opposite(d) = Paying!Shape!Opposite(d)
  OBVIOUS
<1>4. \A b : Steps!TailDir(b) = Paying!Shape!TailDir(b)
  OBVIOUS
<1>5. \A b, nb, d : Steps!NbrDirToDir(b, nb, d) = Paying!Shape!NbrDirToDir(b, nb, d)
  OBVIOUS
<1>6. \A b : Steps!IsContracted(b) <=> Paying!Shape!IsContracted(b)
  OBVIOUS
<1>7. \A b : Steps!IsExpanded(b) <=> Paying!Shape!IsExpanded(b)
  OBVIOUS
<1>8. \A p, l : Steps!HasNbrAtLabel(p, l) <=> Paying!Shape!HasNbrAtLabel(p, l)
  OBVIOUS
<1>9. \A p, l : Steps!NbrAtLabel(p, l) = Paying!Shape!NbrAtLabel(p, l)
  OBVIOUS
<1>10. \A p, l : Steps!HasTailAtLabel(p, l) <=> Paying!Shape!HasTailAtLabel(p, l)
  OBVIOUS
<1>11. \A p, Q, start : Steps!LabelOfFirstNbr(p, Q, start) = Paying!Shape!LabelOfFirstNbr(p, Q, start)
  OBVIOUS
<1>12. \A p, l : Steps!AfterExpand(p, l) = Paying!Shape!AfterExpand(p, l)
  OBVIOUS
<1>13. \A p : Steps!AfterContractTail(p) = Paying!Shape!AfterContractTail(p)
  OBVIOUS
<1>14. \A p, l : Steps!AfterPush(p, l) = Paying!Shape!AfterPush(p, l)
  OBVIOUS
<1>15. \A b, nb, l : Steps!PointsAtMe(b, nb, l) <=> Paying!Shape!PointsAtMe(b, nb, l)
  OBVIOUS
<1>16. \A b, nb, l : Steps!PointsAtMyTail(b, nb, l) <=> Paying!Shape!PointsAtMyTail(b, nb, l)
  OBVIOUS
<1>17. \A b, l : Steps!NbrNode(b, l) = Paying!Shape!NbrNode(b, l)
  OBVIOUS
<1>18. \A b, d : Steps!DirToHeadLabel(b, d) = Paying!Shape!DirToHeadLabel(b, d)
  OBVIOUS
<1>19. \A S : Steps!InState(S) = Paying!Shape!InState(S)
  OBVIOUS
<1>20. \A p, S : Steps!HasNbrInState(p, S) <=> Paying!Shape!HasNbrInState(p, S)
  OBVIOUS
<1>21. \A p, Q : Steps!LabelsOfNbrs(p, Q) = Paying!Shape!LabelsOfNbrs(p, Q)
  OBVIOUS
<1>22. \A q : Steps!ParentLabel(q) = Paying!Shape!ParentLabel(q)
  OBVIOUS
<1>23. \A p : Steps!ShapeLabels(p) = Paying!Shape!ShapeLabels(p)
  OBVIOUS
<1>24. \A p : Steps!NextMoveDir(p) = Paying!Shape!NextMoveDir(p)
  OBVIOUS
<1>25. \A p : Steps!NextMoveDir(p)' = Paying!Shape!NextMoveDir(p)'
  OBVIOUS
<1> QED
  BY ONLY <1>1, <1>2, <1>3, <1>4, <1>5, <1>6, <1>7, <1>8, <1>9, <1>10, <1>11, <1>12,
          <1>13, <1>14, <1>15, <1>16, <1>17, <1>18, <1>19, <1>20, <1>21, <1>22, <1>23,
          <1>24, <1>25

\* So do the operators that look for the label to receive the figure from.
LEMMA ShapeTurns ==
  /\ \A p : Steps!CanFinish(p) <=> Paying!Shape!CanFinish(p)
  /\ \A p : Steps!ReceiveLabels(p) = Paying!Shape!ReceiveLabels(p)
  /\ \A p, r : Steps!ConstructionTurn(p, r) = Paying!Shape!ConstructionTurn(p, r)
<1>1. \A p : Steps!ReceiveLabels(p) = Paying!Shape!ReceiveLabels(p)
  BY ShapeSees DEF Steps!ReceiveLabels, Paying!Shape!ReceiveLabels
<1>2. \A d, k : Steps!Turn(d, k) = Paying!Shape!Turn(d, k)
  BY DEF Steps!Turn, Paying!Shape!Turn
<1>3. \A p, l, S : Steps!StateAt(p, l, S) <=> Paying!Shape!StateAt(p, l, S)
  BY ShapeSees DEF Steps!StateAt, Paying!Shape!StateAt
<1>4. \A p, q, r : Steps!HexagonTurn(p, q, r) = Paying!Shape!HexagonTurn(p, q, r)
  BY <1>2, <1>3, ShapeSees
     DEF Steps!HexagonTurn, Paying!Shape!HexagonTurn, Paying!particles, particles
<1>5. \A p, r : Steps!ConstructionTurn(p, r) = Paying!Shape!ConstructionTurn(p, r)
  BY <1>4, ShapeSees DEF Steps!ConstructionTurn, Paying!Shape!ConstructionTurn
<1>6. \A p : Steps!CanFinish(p) <=> Paying!Shape!CanFinish(p)
  BY <1>1, ShapeSees DEF Steps!CanFinish, Paying!Shape!CanFinish
<1> QED
  BY ONLY <1>1, <1>5, <1>6

\* Shape formation as its proofs see it is shape formation as EnergyShape names it.
LEMMA PayingShapeIs ==
  /\ Steps!Init => Paying!Shape!Init
  /\ Steps!Next => Paying!Shape!Next
  /\ UNCHANGED Steps!vars => UNCHANGED Paying!Shape!vars
<1>0. \A p : Steps!HasTailFollower(p) <=> Paying!Shape!HasTailFollower(p)
  BY ShapeSees DEF Steps!HasTailFollower, Paying!Shape!HasTailFollower
<1>1. ASSUME NEW p, Steps!FollowContracts(p) PROVE Paying!Shape!FollowContracts(p)
  BY <1>0, <1>1, ShapeSees, ShapeTurns 
     DEF Steps!FollowContracts, Paying!Shape!FollowContracts, Paying!particles, particles
<1>2. ASSUME NEW p, Steps!LeadContracts(p) PROVE Paying!Shape!LeadContracts(p)
  BY <1>0, <1>2, ShapeSees, ShapeTurns 
     DEF Steps!LeadContracts, Paying!Shape!LeadContracts, Paying!particles, particles
<1>3. ASSUME NEW p, Steps!BecomeLead(p) PROVE Paying!Shape!BecomeLead(p)
  BY <1>0, <1>3, ShapeSees, ShapeTurns 
     DEF Steps!BecomeLead, Paying!Shape!BecomeLead, Paying!particles, particles
<1>4. ASSUME NEW p, Steps!BecomeFollow(p) PROVE Paying!Shape!BecomeFollow(p)
  BY <1>0, <1>4, ShapeSees, ShapeTurns 
     DEF Steps!BecomeFollow, Paying!Shape!BecomeFollow, Paying!particles, particles
<1>5. ASSUME NEW p, Steps!FollowPushes(p) PROVE Paying!Shape!FollowPushes(p)
  BY <1>0, <1>5, ShapeSees, ShapeTurns 
     DEF Steps!FollowPushes, Paying!Shape!FollowPushes, Paying!particles, particles
<1>6. ASSUME NEW p, Steps!Finish(p) PROVE Paying!Shape!Finish(p)
  BY <1>0, <1>6, ShapeSees, ShapeTurns 
     DEF Steps!Finish, Paying!Shape!Finish, Paying!particles, particles
<1>7. ASSUME NEW p, Steps!LeadMoves(p) PROVE Paying!Shape!LeadMoves(p)
  BY <1>0, <1>7, ShapeSees, ShapeTurns 
     DEF Steps!LeadMoves, Paying!Shape!LeadMoves, Paying!particles, particles
<1>8. Steps!Init => Paying!Shape!Init
  BY DEF Steps!Init, Paying!Shape!Init, Paying!particles, particles, Paying!Dir, Dir
<1>9. UNCHANGED Steps!vars => UNCHANGED Paying!Shape!vars
  BY DEF Steps!vars, Paying!Shape!vars, Paying!particles, particles
<1>10. Steps!Next => Paying!Shape!Next
  BY <1>1, <1>2, <1>3, <1>4, <1>5, <1>6, <1>7, ShapeSees
     DEF Steps!Next, Steps!Activate, Paying!Shape!Next, Paying!Shape!Activate
<1> QED
  BY <1>8, <1>9, <1>10


-----------------------------------------------------------------------------
\* The invariant of shape formation in a system that pays for it, and what a
\* step of that system is.
LEMMA PaidShapeKeeps ==
  ASSUME Steps!IInv, [Paying!Next]_(Paying!vars)
  PROVE  [Steps!Next]_(Steps!vars) /\ Steps!IInv'
<1>1. Steps!StartsAssumption /\ Steps!ModesAssumption
  BY StepsAssumed
<1>2. StepsSound
  BY <1>1, StepsGive
<1>3. [Steps!Next]_(Steps!vars)
  <2>1. CASE UNCHANGED Paying!vars
    <3>1. particles' = particles
      BY <2>1 DEF Paying!vars, Paying!shapeVars, particles
    <3> QED
      BY <2>1, <3>1 DEF Paying!vars, Paying!shapeVars, Steps!vars
  <2>2. CASE Paying!Next
    <3>1. PICK p \in particles : Paying!Activate(p)
      BY <2>2, PayingSees DEF Paying!Next
    <3> QED
      BY <1>2, <3>1, PaidStepIs
  <2> QED
    BY <2>1, <2>2
<1> QED
  BY <1>1, <1>3, Steps!ShapeStep

\* The first systems satisfy the invariant of shape formation.
LEMMA PaidShapeStarts ==
  ASSUME Paying!Init
  PROVE  Paying!Shape!Init /\ Steps!IInv
<1>1. Steps!Init
  BY PaidShapeBegins
<1> QED
  BY <1>1, StepsAssumed, Steps!InitHolds, PayingShapeIs

\* EnergyShape with the energy left out is shape formation in hexagon mode, step
\* by step (useEnergy), from every start, on all compasses, and whatever its
\* energy roots and amounts are.
THEOREM PayingCorrect ==
  Paying!Init /\ [][Paying!Next]_(Paying!vars) => Paying!ImplementsShapeFormation
<1>1. Paying!Init => Paying!Shape!Init /\ Steps!IInv
  BY PaidShapeStarts
<1>2. Steps!IInv /\ [Paying!Next]_(Paying!vars) => Steps!IInv'
  BY PaidShapeKeeps
<1>3. Steps!IInv /\ [Paying!Next]_(Paying!vars) => [Paying!Shape!Next]_(Paying!Shape!vars)
  BY PaidShapeKeeps, PayingShapeIs
<1> QED
  BY <1>1, <1>2, <1>3, PTL DEF Paying!ImplementsShapeFormation

\* Where a run is of EnergyShape, its steps are.
LEMMA PayingInMC ==
  ASSUME [MCNext]_mcVars
  PROVE  /\ algorithm' = algorithm
         /\ algorithm = "EnergyShape" => [Paying!Next]_(Paying!vars)
<1>1. CASE UNCHANGED mcVars
  BY <1>1 DEF mcVars, edfVars, energyVars, Paying!vars, Paying!shapeVars, vars
<1>2. ASSUME NEW p \in particles, Activation(p)
      PROVE  /\ algorithm' = algorithm
             /\ algorithm = "EnergyShape" => [Paying!Next]_(Paying!vars)
  BY <1>2, PayingSees DEF Activation, PlainActivation, EDFActivation, PayingActivation,
                          SharingActivation, Paying!Next
<1> QED
  BY <1>1, <1>2 DEF MCNext

\* The runs' instance of it (PayingImplementsShapeFormation).
THEOREM PayingStepsCorrect == MCSpec => PayingImplementsShapeFormation
<1> DEFINE I == algorithm = "EnergyShape" => Steps!IInv
<1>1. MCInit => I /\ (algorithm = "EnergyShape" => Paying!Shape!Init)
  BY PaidShapeStarts DEF MCInit
<1>2. I /\ [MCNext]_mcVars => I'
  BY PayingInMC, PaidShapeKeeps
<1>3. I /\ [MCNext]_mcVars
        => [algorithm = "EnergyShape" => Paying!Shape!Next]_(Paying!Shape!vars)
  BY PayingInMC, PaidShapeKeeps, PayingShapeIs
<1> HIDE DEF I
<1> QED
  BY <1>1, <1>2, <1>3, PTL DEF MCSpec, PayingImplementsShapeFormation

-----------------------------------------------------------------------------
(* The forest of shared energy                                             *)

\* Where the parent of each particle is, and the members M of the forest of the
\* energy e, of particles with bodies B: each has a label that leads to a
\* particle that is not idle, and they never lead round in a ring.
Lies(B, n) == CHOOSE q \in DOMAIN B : n \in Nodes(B[q])
Parents(B, e) == [p \in DOMAIN B |-> Lies(B, NbrNode(B[p], e[p].parentLabel))]
Hanging(B, e, M) ==
  /\ \A p \in M : e[p].parentLabel \in Labels(B[p])
  /\ \A p \in M : \E q \in DOMAIN B : /\ NbrNode(B[p], e[p].parentLabel) \in Nodes(B[q])
                                      /\ e[q].state # "Idle"
  /\ ForestOf(M, Parents(B, e))

\* Members that stay hang on when nobody they hang on falls idle.
LEMMA HangingStays ==
  ASSUME NEW P, NEW B \in [P -> Body], ApartIn(B), NEW e, NEW f, NEW M \in SUBSET P,
         NEW N \in SUBSET M, Hanging(B, e, M),
         \A p \in N : f[p].parentLabel = e[p].parentLabel,
         \A p \in N, q \in P : /\ NbrNode(B[p], e[p].parentLabel) \in Nodes(B[q])
                               /\ e[q].state # "Idle"
                               => f[q].state # "Idle"
  PROVE  Hanging(B, f, N)
<1>1. DOMAIN B = P
  OBVIOUS
<1>2. ASSUME NEW p \in N PROVE Parents(B, f)[p] = Parents(B, e)[p]
  <2>1. p \in P /\ f[p].parentLabel = e[p].parentLabel
    OBVIOUS
  <2> QED
    BY <1>1, <2>1 DEF Parents
<1>3. ForestOf(N, Parents(B, f))
  BY <1>2, ForestLeft DEF Hanging
<1> QED
  BY <1>1, <1>3 DEF Hanging

\* They hang on when others move, or come, that are not in the forest and that
\* nobody hangs on.
Free(P, B, C, e, M, Q) ==
  /\ M \cap Q = {} /\ \A p \in P \ Q : C[p] = B[p]
  /\ \A p \in M, q \in Q : NbrNode(B[p], e[p].parentLabel) \notin Nodes(B[q])
LEMMA HangingMoves ==
  ASSUME NEW R, NEW P \in SUBSET R, NEW B \in [P -> Body], NEW C \in [R -> Body],
         ApartIn(B), ApartIn(C), NEW e,
         NEW M \in SUBSET P, Hanging(B, e, M), NEW Q, Free(P, B, C, e, M, Q)
  PROVE  Hanging(C, e, M)
<1> USE DEF Free
<1>1. DOMAIN B = P /\ DOMAIN C = R
  OBVIOUS
<1>2. ASSUME NEW p \in M
      PROVE  /\ \E q \in P : /\ NbrNode(C[p], e[p].parentLabel) \in Nodes(C[q])
                             /\ e[q].state # "Idle"
             /\ Parents(C, e)[p] = Parents(B, e)[p]
             /\ C[p] = B[p]
  <2>1. C[p] = B[p]
    OBVIOUS
  <2>2. PICK q \in P : NbrNode(B[p], e[p].parentLabel) \in Nodes(B[q]) /\ e[q].state # "Idle"
    BY <1>1 DEF Hanging
  <2>3. q \notin Q /\ C[q] = B[q]
    BY <2>2
  <2>4. Lies(B, NbrNode(B[p], e[p].parentLabel)) = q
    BY <1>1, <2>2, FoundOn DEF Lies
  <2>5. Lies(C, NbrNode(C[p], e[p].parentLabel)) = q
    BY <1>1, <2>1, <2>2, <2>3, FoundOn DEF Lies
  <2> QED
    BY <1>1, <2>1, <2>2, <2>3, <2>4, <2>5 DEF Parents
<1>3. ForestOf(M, Parents(C, e))
  BY <1>2, ForestLeft DEF Hanging
<1> QED
  BY <1>1, <1>2, <1>3 DEF Hanging

\* One that is idle may hang itself on another: nobody hangs on it.
Joins(P, B, e, f, M, p, q) ==
  /\ p \in P \ M /\ e[p].state = "Idle"
  /\ f[p].parentLabel \in Labels(B[p]) /\ f[p].state # "Idle"
  /\ q \in P /\ NbrNode(B[p], f[p].parentLabel) \in Nodes(B[q]) /\ e[q].state # "Idle"
  /\ \A r \in P \ {p} : f[r].parentLabel = e[r].parentLabel /\ f[r].state = e[r].state
LEMMA HangingJoined ==
  ASSUME NEW P, NEW B \in [P -> Body], ApartIn(B), NEW e, NEW M \in SUBSET P, Hanging(B, e, M),
         NEW f, NEW p, NEW q, Joins(P, B, e, f, M, p, q)
  PROVE  Hanging(B, f, M \cup {p})
<1> USE DEF Joins
<1>1. DOMAIN B = P
  OBVIOUS
<1>2. Parents(B, f)[p] = q /\ q # p
  BY <1>1, FoundOn DEF Parents, Lies
<1>3. ASSUME NEW r \in M
      PROVE  /\ \E s \in P : /\ NbrNode(B[r], f[r].parentLabel) \in Nodes(B[s])
                             /\ f[s].state # "Idle"
             /\ Parents(B, f)[r] = Parents(B, e)[r] /\ Parents(B, e)[r] # p
             /\ f[r].parentLabel = e[r].parentLabel
  <2>1. PICK s \in P : NbrNode(B[r], e[r].parentLabel) \in Nodes(B[s]) /\ e[s].state # "Idle"
    BY <1>1 DEF Hanging
  <2>2. s # p /\ r # p
    BY <2>1
  <2>3. Parents(B, e)[r] = s
    BY <1>1, <2>1, FoundOn DEF Parents, Lies
  <2>4. f[r].parentLabel = e[r].parentLabel /\ r \in P
    BY <2>2
  <2>5. Parents(B, f)[r] = Parents(B, e)[r]
    BY <1>1, <2>4 DEF Parents
  <2> QED
    BY <2>1, <2>2, <2>3, <2>4, <2>5
<1>4. ForestOf(M \cup {p}, Parents(B, f))
  <2> DEFINE up == Parents(B, e)
             new == Parents(B, f)
  <2>1. ForestOf(M, up) /\ new[p] # p /\ \A r \in M : new[r] = up[r] /\ up[r] # p
    BY <1>2, <1>3 DEF Hanging
  <2> HIDE DEF up, new
  <2>2. ForestOf(M \cup {p}, new)
    BY ONLY <2>1, ForestJoined
  <2> QED
    BY <2>2 DEF new
<1>5. \A r \in M \cup {p} : f[r].parentLabel \in Labels(B[r])
  BY <1>3 DEF Hanging
<1>6. \A r \in M \cup {p} : \E s \in DOMAIN B : /\ NbrNode(B[r], f[r].parentLabel) \in Nodes(B[s])
                                                /\ f[s].state # "Idle"
  BY <1>1, <1>2, <1>3
<1> QED
  BY <1>4, <1>5, <1>6 DEF Hanging

-----------------------------------------------------------------------------
(* The forest of EnergyShape                                               *)

\* Those in it that have not been told to leave it, and that its energy is
\* sound: labels are those of the bodies, and the forest stands.
InTree(e) == {p \in DOMAIN e : e[p].state = "Active" /\ ~ e[p].prune}
Shared(B, e) ==
  /\ e \in [DOMAIN B -> Paying!EnergyRecord]
  /\ \A p \in DOMAIN B : {e[p].parentLabel, e[p].lastParent} \subseteq {-1} \cup Labels(B[p])
  /\ Hanging(B, e, InTree(e))

\* Every body has a port in every direction, and at most ten.
LEMMA DirLabels ==
  ASSUME NEW b \in Body
  PROVE  Dir \subseteq Labels(b) /\ Labels(b) \subseteq 0 .. 9
  BY ContractedFrame, ExpandedFrame DEF IsExpanded, Dir

\* The members of a record, and what becomes of them when some are set.
LEMMA RecordIs ==
  ASSUME NEW r \in Paying!EnergyRecord
  PROVE  /\ r.state \in {"Root", "Idle", "Active"} /\ r.parentLabel \in {-1} \cup 0 .. 9
         /\ r.lastParent \in 0 .. 9 /\ r.battery \in 0 .. Capacity
         /\ r.stress \in BOOLEAN /\ r.inhibit \in BOOLEAN /\ r.prune \in BOOLEAN
  BY DEF Paying!EnergyRecord

\* The same place in the forest.
Keeps(r, x) == x.state = r.state /\ x.parentLabel = r.parentLabel /\ x.prune = r.prune

\* A particle is told to leave.
LEMMA RecordTold ==
  ASSUME NEW r \in Paying!EnergyRecord, NEW x, x = [r EXCEPT !.prune = TRUE]
  PROVE  /\ x \in Paying!EnergyRecord /\ x.parentLabel = r.parentLabel /\ x.state = r.state
         /\ x.prune /\ x.lastParent = r.lastParent /\ x.battery = r.battery
  BY DEF Paying!EnergyRecord

\* The last label of its parent is set.
LEMMA RecordLast ==
  ASSUME NEW r \in Paying!EnergyRecord, NEW l \in 0 .. 9, NEW x, x = [r EXCEPT !.lastParent = l]
  PROVE  x \in Paying!EnergyRecord /\ Keeps(r, x) /\ x.lastParent = l /\ x.battery = r.battery
  BY DEF Paying!EnergyRecord, Keeps

\* Its battery is set.
LEMMA RecordCharged ==
  ASSUME NEW r \in Paying!EnergyRecord, NEW c \in 0 .. Capacity,
         NEW x, x = [r EXCEPT !.battery = c]
  PROVE  /\ x \in Paying!EnergyRecord /\ Keeps(r, x) /\ x.lastParent = r.lastParent
         /\ x.battery = c
  BY DEF Paying!EnergyRecord, Keeps

\* It is inhibited or not.
LEMMA RecordInhibited ==
  ASSUME NEW r \in Paying!EnergyRecord, NEW i \in BOOLEAN, NEW x, x = [r EXCEPT !.inhibit = i]
  PROVE  /\ x \in Paying!EnergyRecord /\ Keeps(r, x) /\ x.lastParent = r.lastParent
         /\ x.battery = r.battery
  BY DEF Paying!EnergyRecord, Keeps

\* It is stressed or not.
LEMMA RecordStressed ==
  ASSUME NEW r \in Paying!EnergyRecord, NEW i \in BOOLEAN, NEW x, x = [r EXCEPT !.stress = i]
  PROVE  /\ x \in Paying!EnergyRecord /\ Keeps(r, x) /\ x.lastParent = r.lastParent
         /\ x.battery = r.battery
  BY DEF Paying!EnergyRecord, Keeps

\* It joins at the label of its parent.
JoinedAt(r, l) == [r EXCEPT !.state = "Active", !.parentLabel = l, !.lastParent = l]
LEMMA RecordJoined ==
  ASSUME NEW r \in Paying!EnergyRecord, NEW l \in 0 .. 9, NEW x, x = JoinedAt(r, l)
  PROVE  /\ x \in Paying!EnergyRecord /\ x.parentLabel = l /\ x.state = "Active"
         /\ x.prune = r.prune /\ x.lastParent = l
  BY DEF Paying!EnergyRecord, JoinedAt

\* prune(): the particle and its children leave the forest, and nobody in it is
\* left to hang on the particle.
LEMMA PruneShares ==
  ASSUME body \in [particles -> Body], ApartIn(body), NEW e, Shared(body, e), NEW p \in particles,
         NEW f, f = Paying!Pruned(p, e)
  PROVE  /\ Shared(body, f)
         /\ f[p].parentLabel = -1
         /\ InTree(f) \subseteq InTree(e) \ {p}
         /\ \A q \in InTree(f) : NbrNode(body[q], f[q].parentLabel) \notin Nodes(body[p])
         /\ \A q \in particles : /\ f[q].lastParent = e[q].lastParent
                                 /\ f[q].battery = e[q].battery
                                 /\ q # p => f[q].parentLabel = e[q].parentLabel
<1> DEFINE children == Paying!Children(p, e)
           s == IF e[p].state = "Root" THEN "Root" ELSE "Idle"
           x == [e[p] EXCEPT !.stress = FALSE, !.inhibit = FALSE, !.prune = FALSE,
                             !.parentLabel = -1, !.state = s]
<1>1. particles = DOMAIN body /\ \A q \in particles : e[q] \in Paying!EnergyRecord
  BY DEF Shared, particles
<1>2. f = [q \in particles |-> IF q = p THEN x
                               ELSE IF q \in children THEN [e[q] EXCEPT !.prune = TRUE] ELSE e[q]]
  BY PayingSees DEF Paying!Pruned
<1>3. /\ x \in Paying!EnergyRecord /\ x.parentLabel = -1 /\ x.state = s /\ ~ x.prune
      /\ x.lastParent = e[p].lastParent /\ x.battery = e[p].battery
  <2>1. e[p] \in Paying!EnergyRecord /\ s \in {"Root", "Idle", "Active"}
    BY <1>1
  <2>2. x = [e[p] EXCEPT !.stress = FALSE, !.inhibit = FALSE, !.prune = FALSE,
                         !.parentLabel = -1, !.state = s]
    OBVIOUS
  <2> HIDE DEF s, x
  <2> QED
    BY ONLY <2>1, <2>2 DEF Paying!EnergyRecord
<1>4. \A q \in particles \ {p} :
        q \in children <=> e[q].parentLabel # -1
                           /\ NbrNode(body[q], e[q].parentLabel) \in Nodes(body[p])
  BY PayingSees, PointsInto DEF Paying!Children
<1>5. /\ DOMAIN f = particles /\ f[p].parentLabel = -1 /\ f[p].state # "Active"
      /\ f[p].lastParent = e[p].lastParent /\ f[p].battery = e[p].battery
      /\ f[p] \in Paying!EnergyRecord /\ (e[p].state = "Root" => f[p].state = "Root")
  <2>1. f[p] = x /\ DOMAIN f = particles
    BY <1>2
  <2> HIDE DEF x
  <2> QED
    BY <1>3, <2>1 DEF s
<1> HIDE DEF x, s
<1>6. ASSUME NEW q \in particles, q # p
      PROVE  /\ f[q] \in Paying!EnergyRecord /\ f[q].parentLabel = e[q].parentLabel
             /\ f[q].state = e[q].state /\ f[q].lastParent = e[q].lastParent
             /\ f[q].battery = e[q].battery
             /\ f[q].prune <=> e[q].prune \/ q \in children
  <2>1. f[q] = IF q \in children THEN [e[q] EXCEPT !.prune = TRUE] ELSE e[q]
    BY <1>2, <1>6
  <2>2. e[q] \in Paying!EnergyRecord
    BY <1>1
  <2> QED
    BY <2>1, <2>2, RecordTold
<1> HIDE DEF children
<1>7. f \in [particles -> Paying!EnergyRecord]
  <2>1. \A q \in particles : f[q] \in Paying!EnergyRecord
    BY <1>5, <1>6
  <2> QED
    BY <1>2, <2>1
<1>8. DOMAIN e = particles
  BY <1>1 DEF Shared
<1>9. InTree(f) \subseteq InTree(e) \ {p} /\ InTree(f) \cap children = {}
  BY <1>5, <1>6, <1>8 DEF InTree
<1>10. InTree(e) \subseteq particles
  BY <1>8 DEF InTree
<1>11. ASSUME NEW q \in InTree(f)
       PROVE  /\ f[q].parentLabel = e[q].parentLabel
              /\ NbrNode(body[q], f[q].parentLabel) \notin Nodes(body[p])
  <2>1. q \in particles \ {p} /\ q \notin children
    BY <1>9, <1>10
  <2>2. e[q].parentLabel \in Labels(body[q])
    BY <1>9 DEF Shared, Hanging
  <2>3. e[q].parentLabel # -1
    BY <2>1, <2>2, DirLabels DEF Labels
  <2> QED
    BY <1>4, <1>6, <2>1, <2>3
<1>12. Hanging(body, f, InTree(f))
  <2>1. \A q \in InTree(f), r \in particles :
          NbrNode(body[q], e[q].parentLabel) \in Nodes(body[r]) /\ e[r].state # "Idle"
            => f[r].state # "Idle"
    BY <1>6, <1>11
  <2>2. Hanging(body, e, InTree(e))
    BY DEF Shared
  <2> QED
    BY <1>9, <1>10, <1>11, <2>1, <2>2, HangingStays
<1>13. \A q \in DOMAIN body :
         {f[q].parentLabel, f[q].lastParent} \subseteq {-1} \cup Labels(body[q])
  <2> TAKE q \in DOMAIN body
  <2>1. {e[q].parentLabel, e[q].lastParent} \subseteq {-1} \cup Labels(body[q]) /\ q \in particles
    BY <1>1 DEF Shared
  <2> QED
    BY <1>5, <1>6, <2>1
<1>14. Shared(body, f)
  BY <1>1, <1>7, <1>12, <1>13 DEF Shared
<1> QED
  BY <1>5, <1>6, <1>9, <1>11, <1>14

\* What a move needs of the energy: the label that is kept is turned into a
\* direction, which every body has a port in.
LastIs(e, p, d) == [e EXCEPT ![p].lastParent = d]
LEMMA LastSet ==
  ASSUME body \in [particles -> Body], NEW e, Shared(body, e), NEW p \in particles,
         NEW d \in Dir, NEW f, f = LastIs(e, p, d)
  PROVE  /\ Shared(body, f) /\ InTree(f) = InTree(e)
         /\ f[p].lastParent = d
         /\ \A q \in particles : /\ f[q].parentLabel = e[q].parentLabel
                                 /\ f[q].battery = e[q].battery
                                 /\ q # p => f[q] = e[q]
<1>1. /\ particles = DOMAIN body /\ e \in [particles -> Paying!EnergyRecord]
      /\ e[p] \in Paying!EnergyRecord
  BY DEF Shared, particles
<1>2. d \in 0 .. 9
  BY DEF Dir
<1> DEFINE x == [e[p] EXCEPT !.lastParent = d]
<1>3. /\ x \in Paying!EnergyRecord /\ x.parentLabel = e[p].parentLabel /\ x.state = e[p].state
      /\ x.prune = e[p].prune /\ x.lastParent = d /\ x.battery = e[p].battery
  BY <1>1, <1>2, RecordLast DEF Keeps
<1>4. f = [e EXCEPT ![p] = x]
  BY DEF LastIs
<1> HIDE DEF x
<1>5. /\ f \in [particles -> Paying!EnergyRecord] /\ f[p] = x
      /\ \A q \in particles : q # p => f[q] = e[q]
  BY <1>1, <1>3, <1>4
<1>6. \A q \in particles : f[q].parentLabel = e[q].parentLabel /\ f[q].state = e[q].state
                           /\ f[q].prune = e[q].prune /\ f[q].battery = e[q].battery
  BY <1>3, <1>5
<1>7. InTree(f) = InTree(e) /\ InTree(e) \subseteq particles
  <2>1. DOMAIN f = particles /\ DOMAIN e = particles
    BY <1>1, <1>5
  <2> QED
    BY <1>6, <2>1 DEF InTree
<1>8. Hanging(body, f, InTree(f))
  <2>1. Parents(body, f) = Parents(body, e)
    BY <1>1, <1>6 DEF Parents
  <2> QED
    BY <1>1, <1>6, <1>7, <2>1 DEF Shared, Hanging
<1>9. \A q \in DOMAIN body :
        {f[q].parentLabel, f[q].lastParent} \subseteq {-1} \cup Labels(body[q])
  <2> TAKE q \in DOMAIN body
  <2>1. {e[q].parentLabel, e[q].lastParent} \subseteq {-1} \cup Labels(body[q]) /\ body[q] \in Body
    BY DEF Shared
  <2>2. d \in Labels(body[q])
    BY <2>1, DirLabels
  <2> QED
    BY <1>1, <1>3, <1>5, <1>6, <2>1, <2>2
<1> QED
  BY <1>1, <1>3, <1>5, <1>6, <1>7, <1>8, <1>9 DEF Shared

\* Where nothing but batteries and flags change, the forest stands as it did.
LEMMA SharedKept ==
  ASSUME body \in [particles -> Body], NEW e, Shared(body, e),
         NEW f \in [particles -> Paying!EnergyRecord],
         \A q \in particles : Keeps(e[q], f[q]) /\ f[q].lastParent = e[q].lastParent
  PROVE  Shared(body, f) /\ InTree(f) = InTree(e)
<1>1. particles = DOMAIN body /\ DOMAIN e = particles /\ DOMAIN f = particles
  BY DEF Shared, particles
<1>2. \A q \in particles : /\ f[q].parentLabel = e[q].parentLabel /\ f[q].state = e[q].state
                           /\ f[q].prune = e[q].prune /\ f[q].lastParent = e[q].lastParent
  BY DEF Keeps
<1>3. InTree(f) = InTree(e) /\ InTree(e) \subseteq particles
  BY <1>1, <1>2 DEF InTree
<1>4. Parents(body, f) = Parents(body, e)
  BY <1>1, <1>2 DEF Parents
<1>5. Hanging(body, f, InTree(f))
  BY <1>1, <1>2, <1>3, <1>4 DEF Shared, Hanging
<1> QED
  BY <1>1, <1>2, <1>3, <1>5 DEF Shared

\* One battery is set.
ChargeIs(e, p, c) == [e EXCEPT ![p].battery = c]
LEMMA ChargeSet ==
  ASSUME body \in [particles -> Body], NEW e, Shared(body, e), NEW p \in particles,
         NEW c \in 0 .. Capacity, NEW f, f = ChargeIs(e, p, c)
  PROVE  /\ Shared(body, f) /\ InTree(f) = InTree(e) /\ f[p].battery = c
         /\ \A q \in particles : Keeps(e[q], f[q]) /\ f[q].lastParent = e[q].lastParent
         /\ \A q \in particles \ {p} : f[q] = e[q]
<1>1. e \in [particles -> Paying!EnergyRecord] /\ e[p] \in Paying!EnergyRecord
  BY DEF Shared, particles
<1> DEFINE x == [e[p] EXCEPT !.battery = c]
<1>2. x \in Paying!EnergyRecord /\ Keeps(e[p], x) /\ x.lastParent = e[p].lastParent /\ x.battery = c
  BY <1>1, RecordCharged
<1>3. f = [e EXCEPT ![p] = x]
  BY DEF ChargeIs
<1> HIDE DEF x
<1>4. /\ f \in [particles -> Paying!EnergyRecord] /\ f[p] = x
      /\ \A q \in particles \ {p} : f[q] = e[q]
  BY <1>1, <1>2, <1>3
<1>5. \A q \in particles : Keeps(e[q], f[q]) /\ f[q].lastParent = e[q].lastParent
  BY <1>2, <1>4 DEF Keeps
<1> QED
  BY <1>2, <1>4, <1>5, SharedKept

\* communicate(): one that is in the forest can read its parent.
LEMMA CommunicatedShares ==
  ASSUME body \in [particles -> Body], ApartIn(body), NEW e, Shared(body, e), NEW p \in particles,
         e[p].state # "Idle", ~ e[p].prune, NEW f, f = Paying!Communicated(p, e)
  PROVE  /\ Shared(body, f) /\ InTree(f) = InTree(e)
         /\ \A q \in particles : Keeps(e[q], f[q]) /\ f[q].lastParent = e[q].lastParent
<1>1. e \in [particles -> Paying!EnergyRecord] /\ e[p] \in Paying!EnergyRecord
  BY DEF Shared, particles
<1> DEFINE i == Paying!Starved(p, e)
<1>2. i \in BOOLEAN
  BY DEF Paying!Starved
<1>3. CASE e[p].state = "Root"
  <2> DEFINE x == [e[p] EXCEPT !.inhibit = i]
  <2>1. f = [e EXCEPT ![p] = x]
    BY <1>3 DEF Paying!Communicated
  <2> HIDE DEF i
  <2>2. x \in Paying!EnergyRecord /\ Keeps(e[p], x) /\ x.lastParent = e[p].lastParent
    BY <1>1, <1>2, RecordInhibited
  <2> HIDE DEF x
  <2>3. /\ f \in [particles -> Paying!EnergyRecord]
        /\ \A q \in particles : Keeps(e[q], f[q]) /\ f[q].lastParent = e[q].lastParent
    BY <1>1, <2>1, <2>2 DEF Keeps
  <2> QED
    BY <2>3, SharedKept
<1>4. CASE e[p].state # "Root"
  <2> DEFINE n == NbrNode(body[p], e[p].parentLabel)
             j == e[NbrAtLabel(p, e[p].parentLabel)].inhibit
             x == [e[p] EXCEPT !.stress = i]
             y == [x EXCEPT !.inhibit = j]
  <2>1. p \in InTree(e)
    BY <1>1, <1>4, RecordIs DEF InTree
  <2>2. PICK q \in particles : n \in Nodes(body[q])
    BY <2>1 DEF Shared, Hanging, particles
  <2>3. NbrAtLabel(p, e[p].parentLabel) = q
    BY <2>2, FoundOn DEF NbrAtLabel, ParticleAt, particles
  <2>4. j \in BOOLEAN
    BY <1>1, <2>3, RecordIs
  <2>5. f = [e EXCEPT ![p] = y]
    <3>1. f = [e EXCEPT ![p].stress = i, ![p].inhibit = j]
      BY <1>4, PayingSees DEF Paying!Communicated
    <3> HIDE DEF i, j
    <3> QED
      BY <1>1, <3>1
  <2> HIDE DEF i, j
  <2>6. x \in Paying!EnergyRecord /\ Keeps(e[p], x) /\ x.lastParent = e[p].lastParent
    BY <1>1, <1>2, RecordStressed
  <2> HIDE DEF x
  <2>7. y \in Paying!EnergyRecord /\ Keeps(x, y) /\ y.lastParent = x.lastParent
    BY <2>4, <2>6, RecordInhibited
  <2> HIDE DEF y
  <2>8. /\ f \in [particles -> Paying!EnergyRecord]
        /\ \A r \in particles : Keeps(e[r], f[r]) /\ f[r].lastParent = e[r].lastParent
    BY <1>1, <2>5, <2>6, <2>7 DEF Keeps
  <2> QED
    BY <2>8, SharedKept
<1> QED
  BY <1>3, <1>4

\* shareEnergy(): what one gives another takes, and it is in the range of both.
LEMMA SharingShares ==
  ASSUME body \in [particles -> Body], ApartIn(body), NEW e, Shared(body, e), NEW p \in particles,
         e[p].state # "Idle", ~ e[p].prune, NEW f \in Paying!AfterSharing(p, e)
  PROVE  Shared(body, f)
<1> DEFINE c == Paying!Communicated(p, e)
           h == Paying!Harvested(p, c)
<1>0. /\ Capacity \in Nat /\ TransferRate \in Nat
      /\ \A g : Shared(body, g) => \A q \in particles : g[q].battery \in 0 .. Capacity
  <2>1. Capacity \in Nat /\ TransferRate \in Nat
    BY EnergyAssumption
  <2>2. \A g : Shared(body, g) => \A q \in particles : g[q].battery \in 0 .. Capacity
    BY RecordIs DEF Shared, particles
  <2> QED
    BY <2>1, <2>2
<1>1. Shared(body, c)
  BY CommunicatedShares
<1> HIDE DEF c
<1>2. Shared(body, h)
  <2>1. CASE c[p].state = "Root"
    <3> DEFINE b == IF c[p].battery + TransferRate <= Capacity THEN c[p].battery + TransferRate
                    ELSE Capacity
    <3>1. h = ChargeIs(c, p, b)
      BY <2>1 DEF Paying!Harvested, Paying!Least, ChargeIs
    <3>2. b \in 0 .. Capacity
      BY <1>0, <1>1
    <3> HIDE DEF b, h
    <3> QED
      BY <1>1, <3>1, <3>2, ChargeSet
  <2>2. CASE c[p].state # "Root"
    BY <1>1, <2>2 DEF Paying!Harvested
  <2> QED
    BY <2>1, <2>2
<1>3. f = h \/ \E q \in Paying!Needy(p, h) : f = Paying!SharedWith(p, h, q)
  BY DEF Paying!AfterSharing, c
<1> HIDE DEF h
<1>4. ASSUME NEW q \in Paying!Needy(p, h), f = Paying!SharedWith(p, h, q) PROVE Shared(body, f)
  <2>1. q \in particles \ {p} /\ h[p].battery >= TransferRate /\ h[q].battery < Capacity
    BY PayingSees DEF Paying!Needy, Paying!Children
  <2> DEFINE a == Paying!Least(TransferRate, Capacity - h[q].battery)
             x == h[p].battery - a
             y == h[q].battery + a
             g == ChargeIs(h, p, x)
  <2>2. h[p].battery \in 0 .. Capacity /\ h[q].battery \in 0 .. Capacity
    BY <1>0, <1>2, <2>1
  <2>3. x \in 0 .. Capacity /\ y \in 0 .. Capacity
    BY <1>0, <2>1, <2>2 DEF Paying!Least
  <2>4. f = [h EXCEPT ![p].battery = x, ![q].battery = y]
    <3>1. f = [h EXCEPT ![p].battery = @ - a, ![q].battery = @ + a]
      BY <1>4 DEF Paying!SharedWith
    <3> HIDE DEF a
    <3>2. h \in [particles -> Paying!EnergyRecord]
      BY <1>2 DEF Shared, particles
    <3> QED
      BY <2>1, <3>1, <3>2
  <2> HIDE DEF x, y
  <2>5. Shared(body, g) /\ \A r \in particles \ {p} : g[r] = h[r]
    BY <1>2, <2>3, ChargeSet
  <2>6. f = ChargeIs(g, q, y)
    <3>1. h \in [particles -> Paying!EnergyRecord]
      BY <1>2 DEF Shared, particles
    <3> QED
      BY <2>1, <2>4, <3>1 DEF ChargeIs
  <2> HIDE DEF g
  <2> QED
    BY <2>1, <2>3, <2>5, <2>6, ChargeSet
<1> QED
  BY <1>2, <1>3, <1>4

\* An activation that acts has the energy for it.
LEMMA PaidShares ==
  ASSUME body \in [particles -> Body], NEW e, Shared(body, e), NEW p \in particles,
         e[p].battery >= Demand, NEW f, f = Paying!Paid(p, e)
  PROVE  /\ Shared(body, f) /\ InTree(f) = InTree(e)
         /\ \A q \in particles : Keeps(e[q], f[q]) /\ f[q].lastParent = e[q].lastParent
<1>1. e[p].battery \in 0 .. Capacity /\ Demand \in Nat /\ Capacity \in Nat
  BY EnergyAssumption, RecordIs DEF Shared, particles
<1> DEFINE c == e[p].battery - Demand
<1>2. c \in 0 .. Capacity
  BY <1>1
<1>3. f = ChargeIs(e, p, c)
  BY DEF Paying!Paid, ChargeIs
<1> HIDE DEF c
<1>4. /\ Shared(body, f) /\ InTree(f) = InTree(e)
      /\ \A q \in particles : Keeps(e[q], f[q]) /\ f[q].lastParent = e[q].lastParent
  BY <1>2, <1>3, ChargeSet
<1> QED
  BY <1>4

\* A particle that moves: it is out of the forest, and nobody hangs on it.
Loose(e, q) ==
  /\ q \notin InTree(e) /\ e[q].parentLabel = -1 /\ e[q].lastParent \in Dir
  /\ \A r \in InTree(e) : NbrNode(body[r], e[r].parentLabel) \notin Nodes(body[q])

\* prune() before a move, with the label that is kept turned into a direction.
LEMMA PruningLoosens ==
  ASSUME body \in [particles -> Body], ApartIn(body), NEW e, Shared(body, e),
         NEW p \in particles, NEW d \in Dir, NEW f,
         f = LastIs(Paying!Pruned(p, e), p, d)
  PROVE  /\ Shared(body, f) /\ Loose(f, p)
         /\ \A q \in particles : f[q].battery = e[q].battery
         /\ \A q \in particles \ {p} : Loose(e, q) => Loose(f, q)
<1> DEFINE g == Paying!Pruned(p, e)
<1>1. /\ Shared(body, g) /\ g[p].parentLabel = -1
      /\ InTree(g) \subseteq InTree(e) \ {p}
      /\ \A q \in InTree(g) : NbrNode(body[q], g[q].parentLabel) \notin Nodes(body[p])
      /\ \A q \in particles : /\ g[q].lastParent = e[q].lastParent
                              /\ g[q].battery = e[q].battery
                              /\ q # p => g[q].parentLabel = e[q].parentLabel
  BY PruneShares
<1> HIDE DEF g
<1>2. f = LastIs(g, p, d)
  BY DEF g
<1>3. /\ Shared(body, f) /\ InTree(f) = InTree(g)
      /\ f[p].lastParent = d
      /\ \A q \in particles : /\ f[q].parentLabel = g[q].parentLabel
                              /\ f[q].battery = g[q].battery
                              /\ q # p => f[q] = g[q]
  <2>1. body \in [particles -> Body] /\ p \in particles /\ d \in Dir
    OBVIOUS
  <2> QED
    BY ONLY <1>1, <1>2, <2>1, LastSet
<1>4. InTree(f) \subseteq particles \ {p} /\ InTree(f) \subseteq InTree(e)
  BY <1>1, <1>3 DEF InTree, Shared, particles
<1>5. Loose(f, p)
  BY <1>1, <1>3, <1>4 DEF Loose
<1>6. ASSUME NEW q \in particles \ {p}, Loose(e, q) PROVE Loose(f, q)
  <2>1. f[q].parentLabel = -1 /\ f[q].lastParent \in Dir /\ q \notin InTree(f)
    BY <1>1, <1>3, <1>4, <1>6 DEF Loose
  <2>2. \A r \in InTree(f) : f[r].parentLabel = e[r].parentLabel
    BY <1>1, <1>3, <1>4
  <2> QED
    BY <1>4, <1>6, <2>1, <2>2 DEF Loose
<1> QED
  BY <1>1, <1>3, <1>5, <1>6

\* What it pays leaves it where it is.
LEMMA PayingLoosens ==
  ASSUME body \in [particles -> Body], NEW e, Shared(body, e), NEW p \in particles,
         e[p].battery >= Demand, NEW f, f = Paying!Paid(p, e)
  PROVE  /\ Shared(body, f)
         /\ \A q \in particles : Loose(e, q) => Loose(f, q)
<1>1. /\ Shared(body, f) /\ InTree(f) = InTree(e)
      /\ \A q \in particles : Keeps(e[q], f[q]) /\ f[q].lastParent = e[q].lastParent
  BY PaidShares
<1>2. InTree(f) \subseteq particles
  BY <1>1 DEF InTree, Shared, particles
<1> QED
  BY <1>1, <1>2 DEF Keeps, Loose

\* Loose particles move.
LEMMA LooseMove ==
  ASSUME body \in [particles -> Body], ApartIn(body), NEW C \in [particles -> Body], ApartIn(C),
         NEW f, Shared(body, f), NEW Q \in SUBSET particles, \A q \in Q : Loose(f, q),
         \A q \in particles \ Q : C[q] = body[q]
  PROVE  Shared(C, f)
<1>1. DOMAIN body = particles /\ DOMAIN C = particles /\ DOMAIN f = particles
  BY DEF Shared, particles
<1>2. InTree(f) \in SUBSET particles /\ InTree(f) \cap Q = {}
  BY <1>1 DEF InTree, Loose
<1>3. \A r \in InTree(f), q \in Q : NbrNode(body[r], f[r].parentLabel) \notin Nodes(body[q])
  BY DEF Loose
<1>4. Hanging(C, f, InTree(f))
  <2>1. Hanging(body, f, InTree(f))
    BY DEF Shared
  <2> QED
    BY <1>2, <1>3, <2>1, HangingMoves DEF Free
<1>5. ASSUME NEW q \in particles
      PROVE  {f[q].parentLabel, f[q].lastParent} \subseteq {-1} \cup Labels(C[q])
  <2>1. CASE q \in Q
    BY <2>1, DirLabels DEF Loose
  <2>2. CASE q \notin Q
    BY <1>1, <2>2 DEF Shared
  <2> QED
    BY <2>1, <2>2
<1> QED
  BY <1>1, <1>4, <1>5 DEF Shared

-----------------------------------------------------------------------------
\* A scan of the labels of a body finds one, where there is one.
LEMMA FirstOfLabels ==
  ASSUME NEW b \in Body, NEW L \in SUBSET Labels(b), L # {}, NEW start \in Labels(b)
  PROVE  FirstFrom(L, start, LabelLimit(b)) \in L
<1>1. CASE IsExpanded(b)
  BY <1>1, ExpandedFrame, FirstOfTen
<1>2. CASE IsContracted(b)
  <2>1. LabelLimit(b) = 6 /\ L \subseteq 0 .. 5 /\ start \in 0 .. 5
    BY <1>2, ContractedFrame DEF Dir
  <2> DEFINE far(l) == (l - start + 6) % 6
             D == {far(l) : l \in L}
  <2>2. D # {} /\ D \subseteq 0 .. 9
    <3>1. \A l \in L : far(l) \in 0 .. 9
      BY <2>1
    <3> HIDE DEF far
    <3> QED
      BY <3>1
  <2>3. \E i \in D : \A j \in D : i <= j
    <3> HIDE DEF D
    <3> QED
      BY <2>2, LeastOfTen
  <2>4. PICK l \in L : \A m \in L : far(l) <= far(m)
    BY <2>3
  <2> QED
    BY <2>1, <2>4 DEF FirstFrom
<1> QED
  BY <1>1, <1>2 DEF IsExpanded

\* An idle particle joins the forest where one of it is beside it; if it was told
\* to leave before it is not in yet.
LEMMA JoinShares ==
  ASSUME body \in [particles -> Body], ApartIn(body), Shared(body, energy), NEW p \in particles,
         Paying!Join(p)
  PROVE  Shared(body, energy')
<1>1. /\ DOMAIN body = particles /\ energy \in [particles -> Paying!EnergyRecord]
      /\ energy[p].state = "Idle" /\ energy[p].lastParent \in Labels(body[p])
      /\ \A q \in particles :
           {energy[q].parentLabel, energy[q].lastParent} \subseteq {-1} \cup Labels(body[q])
  <2>1. DOMAIN body = particles /\ energy \in [particles -> Paying!EnergyRecord]
    BY DEF Shared, particles
  <2>2. energy[p].lastParent \in 0 .. 9
    BY <2>1, RecordIs
  <2> QED
    BY <2>1, <2>2 DEF Shared, Paying!Join
<1> DEFINE A == Paying!Adopters
           l == LabelOfFirstNbr(p, A, energy[p].lastParent)
           x == JoinedAt(energy[p], l)
<1>2. LabelsOfNbrs(p, A) # {}
      /\ energy' = [energy EXCEPT ![p].state = "Active", ![p].parentLabel = l, ![p].lastParent = l]
  BY PayingSees DEF Paying!Join
<1>3. l \in LabelsOfNbrs(p, A)
  BY <1>1, <1>2, FirstOfLabels DEF LabelOfFirstNbr, LabelsOfNbrs
<1>4. PICK q \in A : l \in Labels(body[p]) /\ NbrNode(body[p], l) \in Nodes(body[q])
  BY <1>3 DEF LabelsOfNbrs
<1>5. q \in particles /\ energy[q].state # "Idle"
  BY PayingSees DEF Paying!Adopters
<1> HIDE DEF l
<1>6. l \in 0 .. 9
  BY <1>4, DirLabels
<1>7. energy' = [energy EXCEPT ![p] = x]
  BY <1>1, <1>2 DEF JoinedAt
<1>8. /\ x \in Paying!EnergyRecord /\ x.parentLabel = l /\ x.state = "Active"
      /\ x.prune = energy[p].prune /\ x.lastParent = l
  BY <1>1, <1>6, RecordJoined
<1> HIDE DEF x
<1>9. /\ energy' \in [particles -> Paying!EnergyRecord] /\ energy'[p] = x
      /\ \A r \in particles \ {p} : energy'[r] = energy[r]
  BY <1>1, <1>7, <1>8
<1>10. /\ \A r \in particles \ {p} : /\ energy'[r].parentLabel = energy[r].parentLabel
                                     /\ energy'[r].state = energy[r].state
       /\ energy'[p].state = "Active" /\ energy'[p].parentLabel = l
  BY <1>8, <1>9
<1>11. InTree(energy) \in SUBSET particles /\ p \notin InTree(energy)
  BY <1>1 DEF InTree
<1>12. Hanging(body, energy, InTree(energy)) /\ energy[p].state = "Idle"
  BY <1>1 DEF Shared
<1>13. CASE x.prune
  <2>1. InTree(energy') = InTree(energy)
    BY <1>1, <1>8, <1>9, <1>13 DEF InTree
  <2>2. Hanging(body, energy', InTree(energy))
    <3>1. \A r \in InTree(energy) : energy'[r].parentLabel = energy[r].parentLabel
      BY <1>10, <1>11
    <3>2. \A r \in particles : energy[r].state # "Idle" => energy'[r].state # "Idle"
      BY <1>10
    <3> QED
      BY <1>11, <1>12, <3>1, <3>2, HangingStays
  <2> QED
    BY <1>1, <1>4, <1>8, <1>9, <2>1, <2>2 DEF Shared
<1>14. CASE ~ x.prune
  <2>1. InTree(energy') = InTree(energy) \cup {p}
    BY <1>1, <1>8, <1>9, <1>14 DEF InTree
  <2>2. Hanging(body, energy', InTree(energy) \cup {p})
    <3>1. Joins(particles, body, energy, energy', InTree(energy), p, q)
      BY <1>4, <1>5, <1>10, <1>11, <1>12 DEF Joins
    <3> QED
      BY <1>11, <1>12, <3>1, HangingJoined
  <2> QED
    BY <1>1, <1>4, <1>8, <1>9, <2>1, <2>2 DEF Shared
<1> QED
  BY <1>13, <1>14

\* The directions that the labels are turned into.
LEMMA ContractLoosens ==
  ASSUME body \in [particles -> Body], ApartIn(body), NEW e, Shared(body, e),
         NEW p \in particles, IsExpanded(body[p]), NEW f, f = Paying!PrunedToContract(p, e)
  PROVE  /\ Shared(body, f) /\ Loose(f, p)
         /\ \A q \in particles : f[q].battery = e[q].battery
         /\ \A q \in particles \ {p} : Loose(e, q) => Loose(f, q)
<1> DEFINE g == Paying!Pruned(p, e)
           d == LabelToDir(body[p], g[p].lastParent)
<1>1. e[p].lastParent \in 0 .. 9
  BY RecordIs DEF Shared, particles
<1>2. g[p].lastParent = e[p].lastParent /\ g \in [particles -> Paying!EnergyRecord]
  <2>1. Shared(body, g) /\ g[p].lastParent = e[p].lastParent
    BY PruneShares
  <2> HIDE DEF g
  <2> QED
    BY <2>1 DEF Shared, particles
<1>3. d \in Dir
  BY <1>1, <1>2, ExpandedFrame, LabelDirType
<1>4. f = LastIs(g, p, d)
  <2>1. f = [g EXCEPT ![p].lastParent = LabelToDir(body[p], @)]
    BY PayingSees DEF Paying!PrunedToContract
  <2> HIDE DEF g
  <2> QED
    BY <1>2, <2>1 DEF LastIs
<1> HIDE DEF d
<1> QED
  BY <1>3, <1>4, PruningLoosens

\* So does pruning before an expansion, with the last label in the new frame.
LEMMA ExpandLoosens ==
  ASSUME body \in [particles -> Body], ApartIn(body), NEW e, Shared(body, e),
         NEW p \in particles, NEW to \in {-1} \cup Dir, NEW f, f = Paying!PrunedToExpand(p, e, to)
  PROVE  /\ Shared(body, f) /\ Loose(f, p)
         /\ \A q \in particles : f[q].battery = e[q].battery
         /\ \A q \in particles \ {p} : Loose(e, q) => Loose(f, q)
<1> DEFINE g == Paying!Pruned(p, e)
           d == LabelToDirAfterExpansion(g[p].lastParent, to)
<1>1. e[p].lastParent \in 0 .. 9
  BY RecordIs DEF Shared, particles
<1>2. g[p].lastParent = e[p].lastParent /\ g \in [particles -> Paying!EnergyRecord]
  <2>1. Shared(body, g) /\ g[p].lastParent = e[p].lastParent
    BY PruneShares
  <2> HIDE DEF g
  <2> QED
    BY <2>1 DEF Shared, particles
<1>3. d \in Dir
  <2>1. Opposite(to) \in Dir
    BY DEF Opposite, Dir
  <2> QED
    BY <1>1, <1>2, <2>1, LabelDirType DEF LabelToDirAfterExpansion
<1>4. f = LastIs(g, p, d)
  <2>1. f = [g EXCEPT ![p].lastParent = LabelToDirAfterExpansion(@, to)]
    BY PayingSees DEF Paying!PrunedToExpand
  <2> HIDE DEF g
  <2> QED
    BY <1>2, <2>1 DEF LastIs
<1> HIDE DEF d
<1> QED
  BY <1>3, <1>4, PruningLoosens

\* A particle contracts, expands or pushes, and pays.
LEMMA ContractShares ==
  ASSUME body \in [particles -> Body], ApartIn(body),
         body' \in [particles -> Body], ApartIn(body'),
         NEW e, Shared(body, e), NEW p \in particles, e[p].battery >= Demand, Paying!Contract(p, e)
  PROVE  Shared(body', energy')
<1> DEFINE g == Paying!PrunedToContract(p, e)
           f == Paying!Paid(p, g)
<1>1. IsExpanded(body[p]) /\ energy' = f /\ body' = AfterContractTail(p)
  BY PayingSees DEF Paying!Contract, Paying!MayContract
<1>2. Shared(body, g) /\ Loose(g, p) /\ g[p].battery = e[p].battery
  BY <1>1, ContractLoosens
<1> HIDE DEF g
<1>3. Shared(body, f) /\ Loose(f, p)
  BY <1>2, PayingLoosens
<1> HIDE DEF f
<1>4. \A q \in particles \ {p} : body'[q] = body[q]
  BY <1>1 DEF AfterContractTail
<1> DEFINE Q == {p}
<1>5. Q \in SUBSET particles /\ \A r \in Q : Loose(f, r)
  BY <1>3
<1>6. \A r \in particles \ Q : body'[r] = body[r]
  BY <1>4
<1> HIDE DEF Q
<1> QED
  BY <1>1, <1>3, <1>5, <1>6, LooseMove

\* The forest stands after an expansion that is paid for.
LEMMA ExpandShares ==
  ASSUME body \in [particles -> Body], ApartIn(body),
         body' \in [particles -> Body], ApartIn(body'),
         NEW e, Shared(body, e), NEW p \in particles, e[p].battery >= Demand,
         NEW d \in {-1} \cup Dir, energy' = Paying!Paid(p, Paying!PrunedToExpand(p, e, d)),
         body' = AfterExpand(p, d)
  PROVE  Shared(body', energy')
<1> DEFINE g == Paying!PrunedToExpand(p, e, d)
           f == Paying!Paid(p, g)
<1>1. energy' = f
  OBVIOUS
<1>2. Shared(body, g) /\ Loose(g, p) /\ g[p].battery = e[p].battery
  <2>1. body \in [particles -> Body] /\ ApartIn(body) /\ Shared(body, e) /\ p \in particles
        /\ d \in {-1} \cup Dir
    OBVIOUS
  <2> QED
    BY ONLY <2>1, ExpandLoosens
<1> HIDE DEF g
<1>3. Shared(body, f) /\ Loose(f, p)
  BY <1>2, PayingLoosens
<1> HIDE DEF f
<1>4. \A q \in particles \ {p} : body'[q] = body[q]
  BY DEF AfterExpand
<1> DEFINE Q == {p}
<1>5. Q \in SUBSET particles /\ \A r \in Q : Loose(f, r)
  BY <1>3
<1>6. \A r \in particles \ Q : body'[r] = body[r]
  BY <1>4
<1> HIDE DEF Q
<1> QED
  BY <1>1, <1>3, <1>5, <1>6, LooseMove

\* It stands after a push: the one pushed is pruned, then the one that pushes.
LEMMA PushShares ==
  ASSUME body \in [particles -> Body], ApartIn(body),
         body' \in [particles -> Body], ApartIn(body'),
         NEW e, Shared(body, e), NEW p \in particles, e[p].battery >= Demand,
         NEW d \in {-1} \cup Dir, IsContracted(body[p]), HasTailAtLabel(p, d),
         energy' = Paying!HandedOver(p, e, d), body' = AfterPush(p, d)
  PROVE  Shared(body', energy')
<1> DEFINE q == NbrAtLabel(p, d)
           g == Paying!PrunedToContract(q, e)
           h == Paying!PrunedToExpand(p, g, d)
           f == Paying!Paid(p, h)
<1>1. q \in particles \ {p} /\ IsExpanded(body[q])
  <2>1. IsExpanded(body[q]) /\ NbrNode(body[p], d) \in Occupied
    BY DEF HasTailAtLabel, HasNbrAtLabel
  <2>2. PICK r \in particles : NbrNode(body[p], d) \in Nodes(body[r])
    BY <2>1 DEF Occupied
  <2>3. q = r
    BY <2>2, FoundOn DEF NbrAtLabel, ParticleAt, particles
  <2> QED
    BY <2>1, <2>3 DEF IsExpanded
<1>2. energy' = f
  BY PayingSees DEF Paying!HandedOver
<1>3. \A r \in particles \ {p, q} : body'[r] = body[r]
  BY DEF AfterPush
<1> HIDE DEF q
<1>4. Shared(body, g) /\ Loose(g, q) /\ g[p].battery = e[p].battery
  BY <1>1, ContractLoosens
<1> HIDE DEF g
<1>5. Shared(body, h) /\ Loose(h, p) /\ Loose(h, q) /\ h[p].battery = e[p].battery
  BY <1>1, <1>4, ExpandLoosens
<1> HIDE DEF h
<1>6. Shared(body, f) /\ Loose(f, p) /\ Loose(f, q)
  BY <1>1, <1>5, PayingLoosens
<1> HIDE DEF f
<1> DEFINE Q == {p, q}
<1>7. Q \in SUBSET particles /\ \A r \in Q : Loose(f, r)
  BY <1>1, <1>6
<1>8. \A r \in particles \ Q : body'[r] = body[r]
  BY <1>3
<1> HIDE DEF Q
<1> QED
  BY <1>2, <1>6, <1>7, <1>8, LooseMove

\* useEnergy(): what acts pays, and what moves has left the forest before.
LEMMA UseShares ==
  ASSUME StepsSound, StepsSound', NEW e, Shared(body, e), NEW p \in particles,
         Paying!UseEnergy(p, e)
  PROVE  Shared(body', energy')
<1>1. body \in [particles -> Body] /\ ApartIn(body)
  BY DEF StepsSound
<1>2. body' \in [particles' -> Body] /\ ApartIn(body')
  BY DEF StepsSound
<1>3. \/ energy' = e /\ body' = body
      \/ /\ e[p].battery >= Demand
         /\ \/ Paying!Contract(p, e) \/ Paying!BecomeLead(p, e) \/ Paying!BecomeFollow(p, e)
            \/ Paying!Push(p, e) \/ Paying!Finish(p, e) \/ Paying!Walk(p, e)
  BY DEF Paying!UseEnergy, Paying!shapeVars
<1>4. CASE energy' = e /\ body' = body
  BY <1>4
<1>5. ASSUME e[p].battery >= Demand, energy' = Paying!Paid(p, e), body' = body
      PROVE  Shared(body', energy')
  BY <1>1, <1>5, PaidShares
<1>6. CASE e[p].battery >= Demand /\ Paying!Contract(p, e)
  <2>1. particles' = particles
    BY <1>6, SameParticles, PayingSees DEF Paying!Contract, particles
  <2> QED
    BY <1>1, <1>2, <1>6, <2>1, ContractShares
<1>7. CASE e[p].battery >= Demand
           /\ (Paying!BecomeLead(p, e) \/ Paying!BecomeFollow(p, e) \/ Paying!Finish(p, e))
  BY <1>5, <1>7 DEF Paying!BecomeLead, Paying!BecomeFollow, Paying!Finish
<1>8. ASSUME e[p].battery >= Demand, NEW d \in {-1} \cup Dir, IsContracted(body[p]),
             HasTailAtLabel(p, d), energy' = Paying!HandedOver(p, e, d), body' = AfterPush(p, d)
      PROVE  Shared(body', energy')
  <2>1. particles' = particles
    BY <1>8, SameParticles DEF particles
  <2> QED
    BY <1>1, <1>2, <1>8, <2>1, PushShares
<1>9. CASE e[p].battery >= Demand /\ Paying!Push(p, e)
  <2>1. parentDir[p] \in {-1} \cup Dir
    BY DEF StepsSound
  <2> QED
    BY <1>8, <1>9, <2>1, PayingSees DEF Paying!Push, Paying!MayPush
<1>10. CASE e[p].battery >= Demand /\ Paying!Walk(p, e)
  <2>1. IsContracted(body[p]) /\ state[p] = "Lead"
    BY <1>10, PayingSees DEF Paying!Walk, Paying!IsWalking
  <2> DEFINE d == Paying!NextMoveDir(p)
  <2>2. d \in {-1} \cup Dir
    BY <2>1, WayOn
  <2>3. \/ energy' = Paying!Paid(p, Paying!PrunedToExpand(p, e, d)) /\ body' = AfterExpand(p, d)
        \/ /\ HasTailAtLabel(p, d)
           /\ energy' = Paying!HandedOver(p, e, d) /\ body' = AfterPush(p, d)
        \/ energy' = Paying!Paid(p, e) /\ body' = body
    BY <1>10, PayingSees DEF Paying!Walk
  <2> HIDE DEF d
  <2>4. ASSUME energy' = Paying!Paid(p, Paying!PrunedToExpand(p, e, d)), body' = AfterExpand(p, d)
        PROVE  Shared(body', energy')
    <3>1. particles' = particles
      BY <2>4, SameParticles DEF particles
    <3> QED
      BY <1>1, <1>2, <1>10, <2>2, <2>4, <3>1, ExpandShares
  <2> QED
    BY <1>5, <1>8, <1>10, <2>1, <2>2, <2>3, <2>4
<1> QED
  BY <1>3, <1>4, <1>6, <1>7, <1>9, <1>10

\* The invariant of shape formation gives the types at every moment.
LEMMA StepsStaySound == Steps!IInv => StepsSound
  BY StepsAssumed, StepsGive

\* What holds of EnergyShape at every moment: the invariant of the shape, and
\* that the forest stands.
PayingHolds == Steps!IInv /\ Shared(body, energy)

\* It stands after every step.
LEMMA PayingHoldsOn ==
  ASSUME PayingHolds, [Paying!Next]_(Paying!vars)
  PROVE  PayingHolds'
<1>1. Steps!IInv' /\ Steps!IInv
  BY PaidShapeKeeps DEF PayingHolds
<1>2. StepsSound /\ StepsSound'
  <2>1. Steps!IInv' => StepsSound'
    BY StepsStaySound, PTL
  <2> QED
    BY <1>1, <2>1, StepsStaySound
<1>3. CASE UNCHANGED Paying!vars
  <2>1. body' = body /\ energy' = energy
    BY <1>3 DEF Paying!vars, Paying!shapeVars
  <2> QED
    BY <1>1, <2>1 DEF PayingHolds
<1>4. CASE Paying!Next
  <2>1. PICK p \in particles : Paying!Join(p) \/ Paying!PassPruneOn(p) \/ Paying!Live(p)
    BY <1>4, PayingSees DEF Paying!Next, Paying!Activate
  <2>2. body \in [particles -> Body] /\ ApartIn(body) /\ Shared(body, energy)
    BY <1>2 DEF StepsSound, PayingHolds
  <2>3. CASE Paying!Join(p)
    <3>1. Shared(body, energy')
      BY <2>2, <2>3, JoinShares
    <3>2. body' = body
      BY <2>3 DEF Paying!Join, Paying!shapeVars
    <3> QED
      BY <1>1, <3>1, <3>2 DEF PayingHolds
  <2>4. CASE Paying!PassPruneOn(p)
    <3>1. energy' = Paying!Pruned(p, energy) /\ body' = body
      BY <2>4 DEF Paying!PassPruneOn, Paying!shapeVars
    <3>2. Shared(body, energy')
      BY <2>2, <3>1, PruneShares
    <3> QED
      BY <1>1, <3>1, <3>2 DEF PayingHolds
  <2>5. CASE Paying!Live(p)
    <3>1. PICK e \in Paying!AfterSharing(p, energy) : Paying!UseEnergy(p, e)
      BY <2>5 DEF Paying!Live
    <3>2. Shared(body, e)
      BY <2>2, <2>5, <3>1, SharingShares DEF Paying!Live
    <3>3. Shared(body', energy')
      BY <1>2, <3>1, <3>2, UseShares
    <3> QED
      BY <1>1, <3>3 DEF PayingHolds
  <2> QED
    BY <2>1, <2>3, <2>4, <2>5
<1> QED
  BY <1>3, <1>4

\* Nobody is in the forest of the first systems.
LEMMA PayingHoldsFirst ==
  ASSUME Paying!Init
  PROVE  PayingHolds
<1>1. Steps!IInv /\ StepsSound
  BY PaidShapeStarts, StepsStaySound
<1>2. PICK ids, roots : /\ DOMAIN body = ids
                        /\ energy = [p \in ids |-> Paying!NewEnergy(p, roots)]
  BY DEF Paying!Init
<1>3. ASSUME NEW p \in ids
      PROVE  /\ energy[p] \in Paying!EnergyRecord /\ energy[p].state # "Active"
             /\ energy[p].parentLabel = -1 /\ energy[p].lastParent = 0
  <2>1. 0 \in 0 .. Capacity
    BY EnergyAssumption
  <2> QED
    BY <1>2, <2>1 DEF Paying!NewEnergy, Paying!EnergyRecord
<1>4. body \in [ids -> Body]
  BY <1>1, <1>2 DEF StepsSound, particles
<1>5. \A p \in ids : {energy[p].parentLabel, energy[p].lastParent} \subseteq {-1} \cup Labels(body[p])
  <2>1. 0 \in Dir
    BY DEF Dir
  <2> QED
    BY <1>3, <1>4, <2>1, DirLabels
<1>6. InTree(energy) = {} /\ DOMAIN energy = ids
  BY <1>2, <1>3 DEF InTree
<1>7. Hanging(body, energy, InTree(energy))
  BY <1>6 DEF Hanging, ForestOf
<1>8. energy \in [DOMAIN body -> Paying!EnergyRecord]
  BY <1>2, <1>3
<1> QED
  BY <1>1, <1>2, <1>5, <1>7, <1>8 DEF Shared, PayingHolds

\* What holds is what was to be shown.
LEMMA PayingStands ==
  ASSUME PayingHolds
  PROVE  Paying!TypeOK /\ Paying!ForestStands
<1>1. StepsSound /\ Shared(body, energy)
  BY StepsStaySound DEF PayingHolds
<1>2. /\ body \in [particles -> Body] /\ ApartIn(body) /\ DOMAIN body = particles
      /\ energy \in [particles -> Paying!EnergyRecord]
  BY <1>1 DEF StepsSound, Shared, particles
<1>3. Paying!TypeOK
  BY <1>1, <1>2, PayingSees DEF StepsSound, Shared, Paying!TypeOK
<1>4. Paying!Members = InTree(energy) /\ InTree(energy) \subseteq particles
  BY <1>2, PayingSees DEF Paying!Members, InTree
<1>5. Paying!Occupied = Occupied
  BY PayingSees DEF Paying!Occupied, Occupied
<1>6. \A p : Paying!ParentNode(p) = NbrNode(body[p], energy[p].parentLabel)
  BY PayingSees DEF Paying!ParentNode
<1>7. \A n : Paying!ParticleAt(n) = Lies(body, n)
  BY <1>2, PayingSees DEF Paying!ParticleAt, Lies
<1>8. Hanging(body, energy, InTree(energy))
  BY <1>1 DEF Shared
<1>9. ASSUME NEW p \in InTree(energy)
      PROVE  /\ Paying!ParentNode(p) \in Paying!Occupied \ Paying!Nodes(body[p])
             /\ energy[Paying!ParticleAt(Paying!ParentNode(p))].state # "Idle"
             /\ Paying!ParticleAt(Paying!ParentNode(p)) = Parents(body, energy)[p]
  <2> DEFINE n == NbrNode(body[p], energy[p].parentLabel)
  <2>1. p \in particles /\ energy[p].parentLabel \in Labels(body[p])
    BY <1>4, <1>8 DEF Hanging
  <2>2. PICK q \in particles : n \in Nodes(body[q]) /\ energy[q].state # "Idle"
    BY <1>2, <1>8 DEF Hanging
  <2>3. Lies(body, n) = q
    BY <1>2, <2>2, FoundOn DEF Lies
  <2>4. n \notin Nodes(body[p])
    BY <1>2, <2>1, PortLeaves
  <2>5. n \in Occupied
    BY <2>2 DEF Occupied
  <2> QED
    BY <1>2, <1>5, <1>6, <1>7, <2>1, <2>2, <2>3, <2>4, <2>5, PayingSees DEF Parents
<1>10. ASSUME NEW C \in SUBSET InTree(energy), C # {}
       PROVE  \E p \in C : Paying!ParticleAt(Paying!ParentNode(p)) \notin C
  <2>1. PICK p \in C : Parents(body, energy)[p] \notin C
    BY <1>8, <1>10 DEF Hanging, ForestOf
  <2> QED
    BY <1>9, <2>1
<1> QED
  BY <1>3, <1>4, <1>9, <1>10 DEF Paying!ForestStands

\* Whatever moves, contracts, pushes or is pushed, the forest along which the
\* particles share the energy that they pay with stands (prune, useEnergy), from
\* every start, on all compasses, and whatever its energy roots and amounts are.
THEOREM PayingForestCorrect ==
  Paying!Init /\ [][Paying!Next]_(Paying!vars) => [](Paying!TypeOK /\ Paying!ForestStands)
<1>1. Paying!Init => PayingHolds
  BY PayingHoldsFirst
<1>2. PayingHolds /\ [Paying!Next]_(Paying!vars) => PayingHolds'
  BY PayingHoldsOn
<1>3. PayingHolds => Paying!TypeOK /\ Paying!ForestStands
  BY PayingStands
<1> QED
  BY <1>1, <1>2, <1>3, PTL

\* EnergySharing's interface to the particles is that of the others.
LEMMA SharingSees ==
  /\ Sharing!Node = Node
  /\ Sharing!Dir = Dir
  /\ Sharing!Body = Body
  /\ \A b : Sharing!IsContracted(b) <=> IsContracted(b)
  /\ \A b : Sharing!Nodes(b) = Nodes(b)
  /\ \A b : Sharing!Labels(b) = Labels(b)
  /\ \A b, l : Sharing!NbrNode(b, l) = NbrNode(b, l)
  /\ \A L, start, limit : Sharing!FirstFrom(L, start, limit) = FirstFrom(L, start, limit)
  /\ \A b, nb, l : Sharing!PointsAtMe(b, nb, l) <=> PointsAtMe(b, nb, l)
  /\ Sharing!particles = particles
  /\ \A p, l : Sharing!HasNbrAtLabel(p, l) <=> HasNbrAtLabel(p, l)
  /\ \A p, l : Sharing!NbrAtLabel(p, l) = NbrAtLabel(p, l)
  /\ \A p, Q : Sharing!LabelsOfNbrs(p, Q) = LabelsOfNbrs(p, Q)
  /\ \A p, Q, start : Sharing!LabelOfFirstNbr(p, Q, start) = LabelOfFirstNbr(p, Q, start)
<1> USE DEF Node, Dir, xOffset, yOffset, NodeInDir, Body, IsContracted, IsExpanded,
            TailNode, Nodes, LocalToGlobalDir, GlobalToLocalDir, TailDir, labels,
            labelDir, LabelLimit, Labels, LabelToDir, LabelToGlobalDir, HeadLabels,
            OccupiedNodeIncidentToLabel, NbrNode, FirstFrom, PointsAtMyHead,
            PointsAtMyTail, PointsAtMe, particles, Occupied, ParticleAt, HasNbrAtLabel,
            NbrAtLabel, LabelsOfNbrs, LabelOfFirstNbr
<1> USE DEF Sharing!Node, Sharing!Dir, Sharing!xOffset, Sharing!yOffset,
            Sharing!NodeInDir, Sharing!Body, Sharing!IsContracted, Sharing!IsExpanded,
            Sharing!TailNode, Sharing!Nodes, Sharing!LocalToGlobalDir,
            Sharing!GlobalToLocalDir, Sharing!TailDir, Sharing!labels, Sharing!labelDir,
            Sharing!LabelLimit, Sharing!Labels, Sharing!LabelToDir,
            Sharing!LabelToGlobalDir, Sharing!HeadLabels,
            Sharing!OccupiedNodeIncidentToLabel, Sharing!NbrNode, Sharing!FirstFrom,
            Sharing!PointsAtMyHead, Sharing!PointsAtMyTail, Sharing!PointsAtMe,
            Sharing!particles, Sharing!Occupied, Sharing!ParticleAt,
            Sharing!HasNbrAtLabel, Sharing!NbrAtLabel, Sharing!LabelsOfNbrs,
            Sharing!LabelOfFirstNbr
<1>1. Sharing!Node = Node
  OBVIOUS
<1>2. Sharing!Dir = Dir
  OBVIOUS
<1>3. Sharing!Body = Body
  OBVIOUS
<1>4. \A b : Sharing!IsContracted(b) <=> IsContracted(b)
  OBVIOUS
<1>5. \A b : Sharing!Nodes(b) = Nodes(b)
  OBVIOUS
<1>6. \A b : Sharing!Labels(b) = Labels(b)
  OBVIOUS
<1>7. \A b, l : Sharing!NbrNode(b, l) = NbrNode(b, l)
  OBVIOUS
<1>8. \A L, start, limit : Sharing!FirstFrom(L, start, limit) = FirstFrom(L, start, limit)
  OBVIOUS
<1>9. \A b, nb, l : Sharing!PointsAtMe(b, nb, l) <=> PointsAtMe(b, nb, l)
  OBVIOUS
<1>10. Sharing!particles = particles
  OBVIOUS
<1>11. \A p, l : Sharing!HasNbrAtLabel(p, l) <=> HasNbrAtLabel(p, l)
  OBVIOUS
<1>12. \A p, l : Sharing!NbrAtLabel(p, l) = NbrAtLabel(p, l)
  OBVIOUS
<1>13. \A p, Q : Sharing!LabelsOfNbrs(p, Q) = LabelsOfNbrs(p, Q)
  OBVIOUS
<1>14. \A p, Q, start : Sharing!LabelOfFirstNbr(p, Q, start) = LabelOfFirstNbr(p, Q, start)
  OBVIOUS
<1> QED
  BY ONLY <1>1, <1>2, <1>3, <1>4, <1>5, <1>6, <1>7, <1>8, <1>9, <1>10, <1>11, <1>12,
          <1>13, <1>14

\* So is what it counts with.
LEMMA CountSees == \A S : Sharing!Cardinality(S) = Cardinality(S)
  BY DEF Sharing!Cardinality, Cardinality

-----------------------------------------------------------------------------
(* Energy that is shared and nothing else                                  *)

\* Those in the forest of EnergySharing, and that its energy is sound.
Fed(e) == {p \in DOMAIN e : e[p].state = "Active"}
Spread(B, e) == e \in [DOMAIN B -> Sharing!EnergyRecord] /\ Hanging(B, e, Fed(e))

\* The same place in it.
Stays(r, x) == x.state = r.state /\ x.parentLabel = r.parentLabel

\* The members of a record, and what becomes of them when some are set.
LEMMA SpreadRecord ==
  ASSUME NEW r \in Sharing!EnergyRecord
  PROVE  /\ r.state \in {"Root", "Idle", "Active"} /\ r.parentLabel \in {-1} \cup Dir
         /\ r.battery \in 0 .. Capacity /\ r.stress \in BOOLEAN /\ r.inhibit \in BOOLEAN
  BY SharingSees DEF Sharing!EnergyRecord

\* A battery is set.
LEMMA SpreadCharged ==
  ASSUME NEW r \in Sharing!EnergyRecord, NEW c \in 0 .. Capacity,
         NEW x, x = [r EXCEPT !.battery = c]
  PROVE  x \in Sharing!EnergyRecord /\ Stays(r, x) /\ x.battery = c
  BY DEF Sharing!EnergyRecord, Stays

\* A particle is inhibited or not.
LEMMA SpreadInhibited ==
  ASSUME NEW r \in Sharing!EnergyRecord, NEW i \in BOOLEAN, NEW x, x = [r EXCEPT !.inhibit = i]
  PROVE  x \in Sharing!EnergyRecord /\ Stays(r, x)
  BY DEF Sharing!EnergyRecord, Stays

\* It is stressed or not.
LEMMA SpreadStressed ==
  ASSUME NEW r \in Sharing!EnergyRecord, NEW i \in BOOLEAN, NEW x, x = [r EXCEPT !.stress = i]
  PROVE  x \in Sharing!EnergyRecord /\ Stays(r, x)
  BY DEF Sharing!EnergyRecord, Stays

\* It joins at the label of its parent.
SpreadJoining(r, l) == [r EXCEPT !.state = "Active", !.parentLabel = l]
LEMMA SpreadJoined ==
  ASSUME NEW r \in Sharing!EnergyRecord, NEW l \in Dir, NEW x, x = SpreadJoining(r, l)
  PROVE  x \in Sharing!EnergyRecord /\ x.parentLabel = l /\ x.state = "Active"
  BY SharingSees DEF Sharing!EnergyRecord, SpreadJoining

\* Where nothing but batteries and flags change, the forest stands as it did.
LEMMA SpreadKept ==
  ASSUME body \in [particles -> Body], NEW e, Spread(body, e),
         NEW f \in [particles -> Sharing!EnergyRecord],
         \A q \in particles : Stays(e[q], f[q])
  PROVE  Spread(body, f)
<1>1. particles = DOMAIN body /\ DOMAIN e = particles /\ DOMAIN f = particles
  BY DEF Spread, particles
<1>2. \A q \in particles : f[q].parentLabel = e[q].parentLabel /\ f[q].state = e[q].state
  BY DEF Stays
<1>3. Fed(f) = Fed(e) /\ Fed(e) \subseteq particles
  BY <1>1, <1>2 DEF Fed
<1>4. Parents(body, f) = Parents(body, e)
  BY <1>1, <1>2 DEF Parents
<1>5. Hanging(body, f, Fed(f))
  BY <1>1, <1>2, <1>3, <1>4 DEF Spread, Hanging
<1> QED
  BY <1>1, <1>5 DEF Spread

\* One battery is set.
LEMMA SpreadCharge ==
  ASSUME body \in [particles -> Body], NEW e, Spread(body, e), NEW p \in particles,
         NEW c \in 0 .. Capacity, NEW f, f = ChargeIs(e, p, c)
  PROVE  /\ Spread(body, f) /\ \A q \in particles : Stays(e[q], f[q])
         /\ \A q \in particles \ {p} : f[q] = e[q]
<1>1. e \in [particles -> Sharing!EnergyRecord] /\ e[p] \in Sharing!EnergyRecord
  BY DEF Spread, particles
<1> DEFINE x == [e[p] EXCEPT !.battery = c]
<1>2. x \in Sharing!EnergyRecord /\ Stays(e[p], x)
  BY <1>1, SpreadCharged
<1>3. f = [e EXCEPT ![p] = x]
  BY DEF ChargeIs
<1> HIDE DEF x
<1>4. /\ f \in [particles -> Sharing!EnergyRecord]
      /\ \A q \in particles \ {p} : f[q] = e[q]
      /\ \A q \in particles : Stays(e[q], f[q])
  BY <1>1, <1>2, <1>3 DEF Stays
<1> QED
  BY <1>4, SpreadKept

\* communicate(): one that is in the forest can read its parent.
LEMMA CommunicatedSpreads ==
  ASSUME body \in [particles -> Body], ApartIn(body), NEW e, Spread(body, e), NEW p \in particles,
         e[p].state # "Idle", NEW f, f = Sharing!Communicated(p, e)
  PROVE  Spread(body, f) /\ \A q \in particles : Stays(e[q], f[q])
<1>1. e \in [particles -> Sharing!EnergyRecord] /\ e[p] \in Sharing!EnergyRecord
  BY DEF Spread, particles
<1> DEFINE i == Sharing!Starved(p, e)
<1>2. i \in BOOLEAN
  BY DEF Sharing!Starved
<1>3. CASE e[p].state = "Root"
  <2> DEFINE x == [e[p] EXCEPT !.inhibit = i]
  <2>1. f = [e EXCEPT ![p] = x]
    BY <1>3 DEF Sharing!Communicated
  <2> HIDE DEF i
  <2>2. x \in Sharing!EnergyRecord /\ Stays(e[p], x)
    BY <1>1, <1>2, SpreadInhibited
  <2> HIDE DEF x
  <2>3. f \in [particles -> Sharing!EnergyRecord] /\ \A q \in particles : Stays(e[q], f[q])
    BY <1>1, <2>1, <2>2 DEF Stays
  <2> QED
    BY <2>3, SpreadKept
<1>4. CASE e[p].state # "Root"
  <2> DEFINE n == NbrNode(body[p], e[p].parentLabel)
             j == e[NbrAtLabel(p, e[p].parentLabel)].inhibit
             x == [e[p] EXCEPT !.stress = i]
             y == [x EXCEPT !.inhibit = j]
  <2>1. p \in Fed(e)
    BY <1>1, <1>4, SpreadRecord DEF Fed
  <2>2. PICK q \in particles : n \in Nodes(body[q])
    BY <2>1 DEF Spread, Hanging, particles
  <2>3. NbrAtLabel(p, e[p].parentLabel) = q
    BY <2>2, FoundOn DEF NbrAtLabel, ParticleAt, particles
  <2>4. j \in BOOLEAN
    BY <1>1, <2>3, SpreadRecord
  <2>5. f = [e EXCEPT ![p] = y]
    <3>1. f = [e EXCEPT ![p].stress = i, ![p].inhibit = j]
      BY <1>4, SharingSees DEF Sharing!Communicated
    <3> HIDE DEF i, j
    <3> QED
      BY <1>1, <3>1
  <2> HIDE DEF i, j
  <2>6. x \in Sharing!EnergyRecord /\ Stays(e[p], x)
    BY <1>1, <1>2, SpreadStressed
  <2> HIDE DEF x
  <2>7. y \in Sharing!EnergyRecord /\ Stays(x, y)
    BY <2>4, <2>6, SpreadInhibited
  <2> HIDE DEF y
  <2>8. /\ f \in [particles -> Sharing!EnergyRecord]
        /\ \A r \in particles : Stays(e[r], f[r])
    BY <1>1, <2>5, <2>6, <2>7 DEF Stays
  <2> QED
    BY <2>8, SpreadKept
<1> QED
  BY <1>3, <1>4

\* shareEnergy(): what one gives another takes, and it is in the range of both.
LEMMA SharingSpreads ==
  ASSUME body \in [particles -> Body], ApartIn(body), NEW e, Spread(body, e), NEW p \in particles,
         e[p].state # "Idle", NEW f \in Sharing!AfterSharing(p, e)
  PROVE  Spread(body, f)
<1> DEFINE c == Sharing!Communicated(p, e)
           h == Sharing!Harvested(p, c)
<1>0. /\ Capacity \in Nat /\ TransferRate \in Nat
      /\ \A g : Spread(body, g) => \A q \in particles : g[q].battery \in 0 .. Capacity
  <2>1. Capacity \in Nat /\ TransferRate \in Nat
    BY EnergyAssumption
  <2>2. \A g : Spread(body, g) => \A q \in particles : g[q].battery \in 0 .. Capacity
    BY SpreadRecord DEF Spread, particles
  <2> QED
    BY <2>1, <2>2
<1>1. Spread(body, c)
  BY CommunicatedSpreads
<1> HIDE DEF c
<1>2. Spread(body, h)
  <2>1. CASE c[p].state = "Root"
    <3> DEFINE b == IF c[p].battery + TransferRate <= Capacity THEN c[p].battery + TransferRate
                    ELSE Capacity
    <3>1. h = ChargeIs(c, p, b)
      BY <2>1 DEF Sharing!Harvested, Sharing!Least, ChargeIs
    <3>2. b \in 0 .. Capacity
      BY <1>0, <1>1
    <3> HIDE DEF b, h
    <3> QED
      BY <1>1, <3>1, <3>2, SpreadCharge
  <2>2. CASE c[p].state # "Root"
    BY <1>1, <2>2 DEF Sharing!Harvested
  <2> QED
    BY <2>1, <2>2
<1>3. f = h \/ \E q \in Sharing!Needy(p, h) : f = Sharing!SharedWith(p, h, q)
  BY DEF Sharing!AfterSharing, c
<1> HIDE DEF h
<1>4. ASSUME NEW q \in Sharing!Needy(p, h), f = Sharing!SharedWith(p, h, q) PROVE Spread(body, f)
  <2>1. q \in particles \ {p} /\ h[p].battery >= TransferRate /\ h[q].battery < Capacity
    BY SharingSees DEF Sharing!Needy, Sharing!Children
  <2> DEFINE a == Sharing!Least(TransferRate, Capacity - h[q].battery)
             x == h[p].battery - a
             y == h[q].battery + a
             g == ChargeIs(h, p, x)
  <2>2. h[p].battery \in 0 .. Capacity /\ h[q].battery \in 0 .. Capacity
    BY <1>0, <1>2, <2>1
  <2>3. x \in 0 .. Capacity /\ y \in 0 .. Capacity
    BY <1>0, <2>1, <2>2 DEF Sharing!Least
  <2>4. f = [h EXCEPT ![p].battery = x, ![q].battery = y]
    <3>1. f = [h EXCEPT ![p].battery = @ - a, ![q].battery = @ + a]
      BY <1>4 DEF Sharing!SharedWith
    <3> HIDE DEF a
    <3>2. h \in [particles -> Sharing!EnergyRecord]
      BY <1>2 DEF Spread, particles
    <3> QED
      BY <2>1, <3>1, <3>2
  <2> HIDE DEF x, y
  <2>5. Spread(body, g) /\ \A r \in particles \ {p} : g[r] = h[r]
    BY <1>2, <2>3, SpreadCharge
  <2>6. f = ChargeIs(g, q, y)
    <3>1. h \in [particles -> Sharing!EnergyRecord]
      BY <1>2 DEF Spread, particles
    <3> QED
      BY <2>1, <2>4, <3>1 DEF ChargeIs
  <2> HIDE DEF g
  <2> QED
    BY <2>1, <2>3, <2>5, <2>6, SpreadCharge
<1> QED
  BY <1>2, <1>3, <1>4

\* Energy is only used where there is enough.
LEMMA PaidSpreads ==
  ASSUME body \in [particles -> Body], NEW e, Spread(body, e), NEW p \in particles,
         e[p].battery >= Demand, NEW f, f = Sharing!Paid(p, e)
  PROVE  Spread(body, f)
<1>1. e[p].battery \in 0 .. Capacity /\ Demand \in Nat /\ Capacity \in Nat
  BY EnergyAssumption, SpreadRecord DEF Spread, particles
<1> DEFINE c == e[p].battery - Demand
<1>2. c \in 0 .. Capacity
  BY <1>1
<1>3. f = ChargeIs(e, p, c)
  BY DEF Sharing!Paid, ChargeIs
<1> HIDE DEF c
<1> QED
  BY <1>2, <1>3, SpreadCharge

\* Particles that are numbered from 1, contracted and apart from each other, and
\* the forest that they share energy along.
SharingHolds ==
  /\ \E k \in Nat : particles = 1 .. k
  /\ body \in [particles -> Body] /\ ApartIn(body)
  /\ \A p \in particles : IsContracted(body[p])
  /\ Spread(body, energy)

\* An idle particle joins the forest where one of it is beside it.
LEMMA JoinSpreads ==
  ASSUME SharingHolds, NEW p \in particles, Sharing!Join(p)
  PROVE  Spread(body, energy')
<1>1. /\ DOMAIN body = particles /\ energy \in [particles -> Sharing!EnergyRecord]
      /\ body \in [particles -> Body] /\ ApartIn(body) /\ IsContracted(body[p])
      /\ energy[p].state = "Idle"
  BY DEF Spread, particles, SharingHolds, Sharing!Join
<1> DEFINE A == Sharing!InForest
           l == LabelOfFirstNbr(p, A, 0)
           x == SpreadJoining(energy[p], l)
<1>2. /\ LabelsOfNbrs(p, A) # {}
      /\ energy' = [energy EXCEPT ![p].state = "Active", ![p].parentLabel = l]
  BY SharingSees DEF Sharing!Join
<1>3. l \in LabelsOfNbrs(p, A)
  <2>1. 0 \in Labels(body[p])
    BY <1>1, DirLabels DEF Dir
  <2> QED
    BY <1>1, <1>2, <2>1, FirstOfLabels DEF LabelOfFirstNbr, LabelsOfNbrs
<1>4. PICK q \in A : l \in Labels(body[p]) /\ NbrNode(body[p], l) \in Nodes(body[q])
  BY <1>3 DEF LabelsOfNbrs
<1>5. q \in particles /\ energy[q].state # "Idle"
  BY SharingSees DEF Sharing!InForest
<1> HIDE DEF l
<1>6. l \in Dir
  BY <1>1, <1>4, ContractedFrame
<1>7. energy' = [energy EXCEPT ![p] = x]
  BY <1>1, <1>2 DEF SpreadJoining
<1>8. x \in Sharing!EnergyRecord /\ x.parentLabel = l /\ x.state = "Active"
  BY <1>1, <1>6, SpreadJoined
<1> HIDE DEF x
<1>9. /\ energy' \in [particles -> Sharing!EnergyRecord] /\ energy'[p] = x
      /\ \A r \in particles \ {p} : energy'[r] = energy[r]
  BY <1>1, <1>7, <1>8
<1>10. Fed(energy') = Fed(energy) \cup {p} /\ Fed(energy) \in SUBSET particles
       /\ p \notin Fed(energy)
  BY <1>1, <1>8, <1>9 DEF Fed
<1>11. Joins(particles, body, energy, energy', Fed(energy), p, q)
  BY <1>1, <1>4, <1>5, <1>8, <1>9, <1>10 DEF Joins
<1>12. Hanging(body, energy, Fed(energy))
  BY DEF SharingHolds, Spread
<1>13. Hanging(body, energy', Fed(energy) \cup {p})
  BY <1>1, <1>10, <1>11, <1>12, HangingJoined
<1> QED
  BY <1>1, <1>9, <1>10, <1>13 DEF Spread

\* The particle that is inserted is one more, in the first free place beside its
\* parent, and idle.
LEMMA ReproduceSpreads ==
  ASSUME SharingHolds, NEW e, Spread(body, e), NEW p \in particles, Sharing!Reproduce(p, e)
  PROVE  SharingHolds'
<1>1. PICK k \in Nat : particles = 1 .. k
  BY DEF SharingHolds
<1>2. /\ body \in [particles -> Body] /\ ApartIn(body)
      /\ \A q \in particles : IsContracted(body[q])
      /\ DOMAIN body = particles
  BY DEF SharingHolds, particles
<1> DEFINE child == k + 1
           F == Sharing!FreeDirs(p)
           d == FirstFrom(F, 0, 6)
           node == NbrNode(body[p], d)
           g == Sharing!Paid(p, e)
           f == Sharing!Inserted(g, child, Sharing!NewEnergy("Idle"))
<1>3. Cardinality(particles) = k
  BY <1>1, FS_Interval
<1>4. PICK compass \in SharingOrientation :
        /\ body' = Sharing!Inserted(body, child, Sharing!NewBody(node, compass))
        /\ energy' = f
  <2> DEFINE n == Sharing!NbrNode(body[p], Sharing!FirstFrom(F, 0, 6))
             c == Sharing!Cardinality(Sharing!particles) + 1
  <2>1. PICK compass \in SharingOrientation :
          /\ body' = Sharing!Inserted(body, c, Sharing!NewBody(n, compass))
          /\ energy' = Sharing!Inserted(g, c, Sharing!NewEnergy("Idle"))
    BY DEF Sharing!Reproduce
  <2>2. n = node /\ c = child
    BY <1>3, CountSees, SharingSees
  <2> HIDE DEF n, node, c, child
  <2> QED
    BY <2>1, <2>2
<1>5. F # {} /\ F = {l \in Dir : ~ HasNbrAtLabel(p, l)} /\ e[p].battery >= Demand
  BY SharingSees DEF Sharing!Reproduce, Sharing!MayUse, Sharing!FreeDirs
<1>6. d \in Dir /\ ~ HasNbrAtLabel(p, d)
  <2> HIDE DEF F
  <2>1. F \in SUBSET Dir
    BY <1>5
  <2>2. d \in F
    BY <1>5, <2>1, FirstFound
  <2> QED
    BY <1>5, <2>2
<1> HIDE DEF d
<1>7. node \in Node /\ node \notin Occupied
  BY <1>2, <1>6, ContractedPorts DEF HasNbrAtLabel
<1> HIDE DEF node
<1> DEFINE b == Sharing!NewBody(node, compass)
<1>8. b \in Body /\ IsContracted(b) /\ Nodes(b) = {node}
  <2>1. Sharing!StartsAssumption
    BY InstancesAssumption DEF InstancesAssumption
  <2>2. compass \in Dir
    BY <1>4, <2>1, SharingSees DEF Sharing!StartsAssumption
  <2> QED
    BY <1>7, <2>2 DEF Sharing!NewBody, Body, IsContracted, Nodes
<1>9. \A q \in particles : Nodes(b) \cap Nodes(body[q]) = {}
  BY <1>7, <1>8 DEF Occupied
<1> HIDE DEF b
<1>10. child \notin particles /\ particles \cup {child} = 1 .. k + 1
  BY <1>1
<1> HIDE DEF child
<1>11. /\ body' \in [particles \cup {child} -> Body] /\ ApartIn(body')
       /\ body'[child] = b /\ \A q \in particles : body'[q] = body[q]
  <2>1. body' = [q \in particles \cup {child} |-> IF q = child THEN b ELSE body[q]]
    BY <1>2, <1>4 DEF b, Sharing!Inserted
  <2>2. /\ body' \in [particles \cup {child} -> Body] /\ DOMAIN (body') = particles \cup {child}
        /\ body'[child] = b /\ \A q \in particles : body'[q] = body[q]
    BY <1>2, <1>8, <1>10, <2>1
  <2>3. ApartIn(body')
    BY <1>2, <1>9, <1>10, <2>2 DEF ApartIn
  <2> QED
    BY <2>2, <2>3
<1>12. particles' = particles \cup {child}
  BY <1>11 DEF particles
<1>13. Spread(body, g)
  BY <1>2, <1>5, PaidSpreads
<1> HIDE DEF g
<1>14. g \in [particles -> Sharing!EnergyRecord] /\ Hanging(body, g, Fed(g))
  BY <1>2, <1>13 DEF Spread
<1>15. /\ f \in [particles \cup {child} -> Sharing!EnergyRecord]
       /\ f[child].state = "Idle" /\ \A q \in particles : f[q] = g[q]
  <2> DEFINE new == Sharing!NewEnergy("Idle")
  <2>1. new \in Sharing!EnergyRecord /\ new.state = "Idle"
    <3>1. 0 \in 0 .. Capacity
      BY EnergyAssumption
    <3> QED
      BY <3>1 DEF Sharing!NewEnergy, Sharing!EnergyRecord
  <2> HIDE DEF new
  <2>2. f = [q \in particles \cup {child} |-> IF q = child THEN new ELSE g[q]]
    BY <1>14 DEF new, Sharing!Inserted
  <2> HIDE DEF f
  <2> QED
    BY <1>10, <1>14, <2>1, <2>2
<1> HIDE DEF f
<1>16. Fed(f) = Fed(g) /\ Fed(g) \in SUBSET particles
  BY <1>14, <1>15 DEF Fed
<1>17. Hanging(body, f, Fed(g))
  <2>1. \A q \in Fed(g) : f[q].parentLabel = g[q].parentLabel
    BY <1>15, <1>16
  <2>2. \A q \in particles : g[q].state # "Idle" => f[q].state # "Idle"
    BY <1>15
  <2> QED
    BY <1>2, <1>14, <1>16, <2>1, <2>2, HangingStays
<1>18. Hanging(body', f, Fed(g))
  <2> DEFINE Q == {}
             R == particles \cup {child}
  <2>1. particles \in SUBSET R /\ body' \in [R -> Body]
    BY <1>11
  <2>2. Free(particles, body, body', f, Fed(g), Q)
    BY <1>11 DEF Free
  <2> HIDE DEF Q, R
  <2> QED
    BY <1>2, <1>11, <1>16, <1>17, <2>1, <2>2, HangingMoves
<1>19. Spread(body', energy')
  BY <1>4, <1>11, <1>15, <1>16, <1>18 DEF Spread
<1>20. \A q \in particles \cup {child} : IsContracted(body'[q])
  BY <1>2, <1>8, <1>11
<1> QED
  BY <1>10, <1>11, <1>12, <1>19, <1>20 DEF SharingHolds

\* The forest stands after every step, and to start with.
LEMMA SharingHoldsOn ==
  ASSUME SharingHolds, [Sharing!Next]_(Sharing!vars)
  PROVE  SharingHolds'
<1>1. ASSUME UNCHANGED body, Spread(body, energy') PROVE SharingHolds'
  <2>1. particles' = particles
    BY <1>1 DEF particles
  <2> QED
    BY <1>1, <2>1 DEF SharingHolds
<1>2. CASE UNCHANGED Sharing!vars
  BY <1>1, <1>2 DEF Sharing!vars, SharingHolds
<1>3. CASE Sharing!Next
  <2>1. PICK p \in particles : Sharing!Join(p) \/ Sharing!Live(p)
    BY <1>3, SharingSees DEF Sharing!Next, Sharing!Activate
  <2>2. body \in [particles -> Body] /\ ApartIn(body) /\ Spread(body, energy)
    BY DEF SharingHolds
  <2>3. CASE Sharing!Join(p)
    BY <1>1, <2>3, JoinSpreads DEF Sharing!Join
  <2>4. CASE Sharing!Live(p)
    <3>1. PICK e \in Sharing!AfterSharing(p, energy) :
            Sharing!Save(p, e) \/ Sharing!Spend(p, e) \/ Sharing!Reproduce(p, e)
      BY <2>4 DEF Sharing!Live
    <3>2. Spread(body, e)
      BY <2>2, <2>4, <3>1, SharingSpreads DEF Sharing!Live
    <3>3. CASE Sharing!Save(p, e)
      BY <1>1, <3>2, <3>3 DEF Sharing!Save
    <3>4. CASE Sharing!Spend(p, e)
      <4>1. e[p].battery >= Demand /\ energy' = Sharing!Paid(p, e) /\ UNCHANGED body
        BY <3>4 DEF Sharing!Spend, Sharing!MayUse
      <4>2. Spread(body, energy')
        BY <2>2, <3>2, <4>1, PaidSpreads
      <4> QED
        BY <1>1, <4>1, <4>2
    <3>5. CASE Sharing!Reproduce(p, e)
      BY <3>2, <3>5, ReproduceSpreads
    <3> QED
      BY <3>1, <3>3, <3>4, <3>5
  <2> QED
    BY <2>1, <2>3, <2>4
<1> QED
  BY <1>2, <1>3

\* To start with nobody is in the forest.
LEMMA SharingHoldsFirst ==
  ASSUME Sharing!Init
  PROVE  SharingHolds
<1>1. PICK places \in SharingStarts, compass \in Compasses, roots \in SharingRoots :
        /\ body = [p \in 1 .. Len(places) |-> Sharing!NewBody(places[p], compass[p])]
        /\ energy = [p \in 1 .. Len(places) |->
                       Sharing!NewEnergy(IF p \in roots THEN "Root" ELSE "Idle")]
  BY DEF Sharing!Init
<1>2. /\ places \in Seq(Node) /\ \A i, j \in 1 .. Len(places) : places[i] = places[j] => i = j
      /\ \A p \in 1 .. Len(places) : compass[p] \in Dir
  <2>1. Sharing!StartsAssumption
    BY InstancesAssumption DEF InstancesAssumption
  <2> QED
    BY <2>1, SharingSees DEF Sharing!StartsAssumption
<1> DEFINE ids == 1 .. Len(places)
<1>3. Len(places) \in Nat /\ \A p \in ids : places[p] \in Node
  BY <1>2
<1>4. particles = ids /\ DOMAIN body = ids
  BY <1>1 DEF particles
<1>5. ASSUME NEW p \in ids
      PROVE  body[p] \in Body /\ IsContracted(body[p]) /\ Nodes(body[p]) = {places[p]}
  <2>1. places[p] \in Node /\ compass[p] \in Dir
    BY <1>2, <1>3
  <2>2. body[p] = [head |-> places[p], globalTailDir |-> -1, orientation |-> compass[p]]
    BY <1>1 DEF Sharing!NewBody
  <2> QED
    BY <2>1, <2>2 DEF Body, IsContracted, Nodes
<1>6. body \in [ids -> Body]
  BY <1>1, <1>5
<1>7. ApartIn(body)
  BY <1>2, <1>4, <1>5 DEF ApartIn
<1>8. ASSUME NEW p \in ids
      PROVE  energy[p] \in Sharing!EnergyRecord /\ energy[p].state # "Active"
  <2>1. 0 \in 0 .. Capacity
    BY EnergyAssumption
  <2> QED
    BY <1>1, <2>1 DEF Sharing!NewEnergy, Sharing!EnergyRecord
<1>9. energy \in [ids -> Sharing!EnergyRecord] /\ DOMAIN energy = ids
  BY <1>1, <1>8
<1>10. Fed(energy) = {}
  BY <1>8, <1>9 DEF Fed
<1>11. Spread(body, energy)
  BY <1>4, <1>9, <1>10 DEF Spread, Hanging, ForestOf
<1> QED
  BY <1>3, <1>4, <1>5, <1>6, <1>7, <1>11 DEF SharingHolds

\* What holds is what was to be shown.
LEMMA SharingStands ==
  ASSUME SharingHolds
  PROVE  Sharing!TypeOK /\ Sharing!ForestStands
<1>1. /\ body \in [particles -> Body] /\ ApartIn(body) /\ DOMAIN body = particles
      /\ energy \in [particles -> Sharing!EnergyRecord] /\ Hanging(body, energy, Fed(energy))
      /\ \A p \in particles : IsContracted(body[p])
  BY DEF SharingHolds, Spread, particles
<1>2. Sharing!TypeOK
  BY <1>1, SharingSees DEF Sharing!TypeOK
<1>3. /\ Fed(energy) = {p \in Sharing!particles : energy[p].state = "Active"}
      /\ Fed(energy) \subseteq particles
  BY <1>1, SharingSees DEF Fed
<1>4. \A p : Sharing!ParentOf(p) = NbrAtLabel(p, energy[p].parentLabel)
  BY SharingSees DEF Sharing!ParentOf
<1>5. ASSUME NEW p \in Fed(energy)
      PROVE  /\ Sharing!ParentOf(p) = Parents(body, energy)[p]
             /\ Sharing!ParentOf(p) \in Sharing!InForest
             /\ p \in Sharing!Children(Sharing!ParentOf(p), energy)
  <2> DEFINE l == energy[p].parentLabel
             n == NbrNode(body[p], l)
  <2>1. p \in particles /\ l \in Labels(body[p])
    BY <1>1, <1>3 DEF Hanging
  <2>2. PICK q \in particles : n \in Nodes(body[q]) /\ energy[q].state # "Idle"
    BY <1>1 DEF Hanging
  <2>3. /\ Sharing!ParentOf(p) = q
        /\ Parents(body, energy)[p] = q
    BY <1>1, <1>4, <2>1, <2>2, FoundOn DEF Lies, Parents, NbrAtLabel, ParticleAt
  <2>4. q \in Sharing!InForest
    <3>1. energy[q].state \in {"Root", "Idle", "Active"}
      BY <1>1, <2>2, SpreadRecord
    <3> QED
      BY <2>2, <3>1, SharingSees DEF Sharing!InForest
  <2>5. q # p /\ l # -1
    <3>1. n \notin Nodes(body[p])
      BY <1>1, <2>1, PortLeaves
    <3> QED
      BY <1>1, <2>1, <2>2, <3>1, DirLabels
  <2>6. PointsAtMe(body[q], body[p], l)
    BY <1>1, <2>2, PointsInto
  <2>7. p \in Sharing!Children(q, energy)
    BY <2>1, <2>5, <2>6, SharingSees DEF Sharing!Children
  <2> QED
    BY <2>3, <2>4, <2>7
<1>6. ASSUME NEW C \in SUBSET Fed(energy), C # {}
      PROVE  \E p \in C : Sharing!ParentOf(p) \notin C
  <2>1. PICK p \in C : Parents(body, energy)[p] \notin C
    BY <1>1, <1>6 DEF Hanging, ForestOf
  <2> QED
    BY <1>5, <2>1
<1> QED
  BY <1>2, <1>3, <1>5, <1>6 DEF Sharing!ForestStands

\* Wherever particles are inserted, everybody that is fed hangs on somebody that
\* is, and reads it (communicate, useEnergy), from every start, on all compasses,
\* and whatever the energy roots and amounts are.
THEOREM SharingForestCorrect ==
  Sharing!Init /\ [][Sharing!Next]_(Sharing!vars) => [](Sharing!TypeOK /\ Sharing!ForestStands)
<1>1. Sharing!Init => SharingHolds
  BY SharingHoldsFirst
<1>2. SharingHolds /\ [Sharing!Next]_(Sharing!vars) => SharingHolds'
  BY SharingHoldsOn
<1>3. SharingHolds => Sharing!TypeOK /\ Sharing!ForestStands
  BY SharingStands
<1> QED
  BY <1>1, <1>2, <1>3, PTL

\* Where a run is of EnergySharing, its steps are.
LEMMA SharingInMC ==
  ASSUME [MCNext]_mcVars
  PROVE  /\ algorithm' = algorithm
         /\ algorithm = "EnergySharing" => [Sharing!Next]_(Sharing!vars)
<1>1. CASE UNCHANGED mcVars
  BY <1>1 DEF mcVars, edfVars, energyVars, Sharing!vars, vars
<1>2. ASSUME NEW p \in particles, Activation(p)
      PROVE  /\ algorithm' = algorithm
             /\ algorithm = "EnergySharing" => [Sharing!Next]_(Sharing!vars)
  BY <1>2, SharingSees DEF Activation, PlainActivation, EDFActivation, PayingActivation,
                           SharingActivation, Sharing!Next
<1> QED
  BY <1>1, <1>2 DEF MCNext

\* The runs' instance of both (SharingForestStands).
THEOREM ForestsStandInMC == MCSpec => []SharingForestStands
<1> DEFINE I == /\ algorithm = "EnergyShape" => PayingHolds
                /\ algorithm = "EnergySharing" => SharingHolds
<1>1. MCInit => I
  BY PayingHoldsFirst, SharingHoldsFirst DEF MCInit
<1>2. I /\ [MCNext]_mcVars => I'
  <2> SUFFICES ASSUME I, [MCNext]_mcVars PROVE I'
    OBVIOUS
  <2>1. /\ algorithm' = algorithm
        /\ algorithm = "EnergyShape" => [Paying!Next]_(Paying!vars)
        /\ algorithm = "EnergySharing" => [Sharing!Next]_(Sharing!vars)
    BY PayingInMC, SharingInMC
  <2>2. algorithm = "EnergyShape" => PayingHolds'
    BY <2>1, PayingHoldsOn
  <2>3. algorithm = "EnergySharing" => SharingHolds'
    BY <2>1, SharingHoldsOn
  <2> QED
    BY <2>1, <2>2, <2>3
<1>3. I => SharingForestStands
  BY PayingStands, SharingStands DEF SharingForestStands
<1> HIDE DEF I
<1> QED
  BY <1>1, <1>2, <1>3, PTL DEF MCSpec
=============================================================================
