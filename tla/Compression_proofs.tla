--------------------------- MODULE Compression_proofs ---------------------------
(***************************************************************************)
(* Compression, proved for every connected start, all compasses and every  *)
(* order of activations: what an expanded particle knows stays current,    *)
(* its local tests decide the conditions of the Markov chain, each move    *)
(* amounts to a move of the chain, and the particles stay connected.  From *)
(* the starts of the constructor, of any size, no hole ever forms and the  *)
(* perimeter is measured right.                                            *)
(***************************************************************************)
EXTENDS Compression, StartShapes, Geometry_proofs, FiniteSetTheorems

\* No node is occupied twice.
Apart == \A p, q \in particles : p # q => Nodes(body[p]) \cap Nodes(body[q]) = {}

Near(p, q) == \E m \in Nodes(body[p]), n \in Nodes(body[q]) : Adjacent(m, n)

\* No two particles that may go on are next to each other: the second to
\* expand has seen the first.
FlaggedExclude == \A p, q \in expanded : p # q /\ flag[p] /\ flag[q] => ~ Near(p, q)

IInv == TypeOK /\ objects = {} /\ Apart /\ FlaggedExclude /\ CountsCurrent

-----------------------------------------------------------------------------
(* Bodies                                                                  *)

\* A particle lies on the node it is settled on, an expanded one on its head
\* too, which is next to it.
LEMMA SettledNode ==
  ASSUME TypeOK, NEW p \in particles
  PROVE  /\ body[p] \in Body
         /\ p \in Node /\ p \in Nodes(body[p])
         /\ IsContracted(body[p]) => body[p].head = p /\ Nodes(body[p]) = {p}
         /\ IsExpanded(body[p]) => /\ TailNode(body[p]) = p
                                   /\ body[p].head \in Node /\ body[p].head # p
                                   /\ Nodes(body[p]) = {body[p].head, p}
<1>1. body[p] \in Body /\ p = (IF IsExpanded(body[p]) THEN TailNode(body[p]) ELSE body[p].head)
  BY DEF TypeOK
<1> QED
  BY <1>1, NodesType DEF IsExpanded

\* The head of an expanded particle is no settled node.
LEMMA HeadNotSettled ==
  ASSUME TypeOK, Apart, NEW p \in expanded
  PROVE  body[p].head \notin settled
<1>1. p \in particles /\ IsExpanded(body[p])
  BY DEF expanded
<1>2. body[p].head \in Nodes(body[p]) /\ body[p].head # p
  BY <1>1, SettledNode
<1>3. \A q \in particles : q \in Nodes(body[q])
  BY SettledNode
<1> QED
  BY <1>1, <1>2, <1>3 DEF Apart, settled

\* The particle found at a node is the one on it.
LEMMA ParticleAtIs ==
  ASSUME Apart, NEW p \in particles, NEW n \in Nodes(body[p])
  PROVE  ParticleAt(n) = p
<1>1. \A q \in particles : n \in Nodes(body[q]) => q = p
  BY DEF Apart
<1> QED
  BY <1>1 DEF ParticleAt

\* A particle that changes its body and keeps to free nodes stays apart.
LEMMA MoveApart ==
  ASSUME TypeOK, Apart, NEW p \in particles, NEW x \in Body,
         Nodes(x) \cap (Occupied \ Nodes(body[p])) = {},
         body' = [body EXCEPT ![p] = x]
  PROVE  /\ particles' = particles
         /\ body' \in [particles' -> Body] /\ Apart'
         /\ body'[p] = x
         /\ \A r \in particles \ {p} : body'[r] = body[r]
<1>1. /\ particles' = particles /\ body' \in [particles' -> Body]
      /\ body'[p] = x
      /\ \A r \in particles \ {p} : body'[r] = body[r]
  BY DEF particles, TypeOK
<1>2. \A r \in particles \ {p} : Nodes(body[r]) \cap Nodes(x) = {}
  <2> TAKE r \in particles \ {p}
  <2>1. Nodes(body[r]) \subseteq Occupied /\ Nodes(body[r]) \cap Nodes(body[p]) = {}
    BY DEF Occupied, Apart
  <2> QED
    BY <2>1
<1>3. ASSUME NEW r \in particles, NEW s \in particles, r # s
      PROVE  Nodes(body'[r]) \cap Nodes(body'[s]) = {}
  BY <1>1, <1>2, <1>3 DEF Apart
<1> QED
  BY <1>1, <1>3 DEF Apart

\* There are n numbers below n.
LEMMA UpTo ==
  ASSUME NEW n \in Nat
  PROVE  IsFiniteSet(0 .. n - 1) /\ Cardinality(0 .. n - 1) = n
<1>1. 0 \in Int /\ n - 1 \in Int
  OBVIOUS
<1>2. /\ IsFiniteSet(0 .. n - 1)
      /\ Cardinality(0 .. n - 1) = IF 0 > n - 1 THEN 0 ELSE (n - 1) - 0 + 1
  BY <1>1, FS_Interval, Zenon
<1> QED
  BY <1>2

-----------------------------------------------------------------------------
(* Neighbours                                                              *)

\* What nbrCount counts are the ports that reach settled nodes: heads of
\* expanded particles are left aside.
LEMMA NbrLabelsSettled ==
  ASSUME TypeOK, Apart, NEW p \in particles
  PROVE  NbrLabels(p) = {l \in Labels(body[p]) : NbrNode(body[p], l) \in settled}
<1>1. ASSUME NEW l \in Labels(body[p])
      PROVE  HasNbrAtLabel(p, l) /\ ~ HasExpHeadAtLabel(p, l)
               <=> NbrNode(body[p], l) \in settled
  <2> DEFINE n == NbrNode(body[p], l)
  <2>1. CASE n \notin Occupied
    <3>1. \A q \in particles : q \in Occupied
      BY SettledNode DEF Occupied
    <3> QED
      BY <2>1, <3>1 DEF HasNbrAtLabel, settled
  <2>2. CASE n \in Occupied
    <3>1. PICK q \in particles : n \in Nodes(body[q])
      BY <2>2 DEF Occupied
    <3>2. NbrAtLabel(p, l) = q
      BY <3>1, ParticleAtIs DEF NbrAtLabel
    <3>3. HasExpHeadAtLabel(p, l) <=> IsExpanded(body[q]) /\ body[q].head = n
      BY <2>2, <3>2 DEF HasExpHeadAtLabel, HasHeadAtLabel, HasNbrAtLabel, expanded
    <3>4. n \in settled <=> n = q
      <4>1. n \in particles => n \in Nodes(body[n])
        BY SettledNode
      <4> QED
        BY <3>1, <4>1 DEF settled, Apart
    <3>5. IsContracted(body[q]) => Nodes(body[q]) = {q}
      BY SettledNode
    <3>6. IsExpanded(body[q]) => Nodes(body[q]) = {body[q].head, q} /\ body[q].head # q
      BY SettledNode
    <3> QED
      BY <2>2, <3>1, <3>3, <3>4, <3>5, <3>6 DEF HasNbrAtLabel, IsExpanded
  <2> QED
    BY <2>1, <2>2
<1> QED
  BY <1>1 DEF NbrLabels

\* A particle sees each expanded particle next to it.
Sees == \A p \in particles : \A q \in expanded : q # p /\ Near(p, q) => HasExpNbr(p)

\* So it does, whichever end either of them has next to the other.
LEMMA SeesExpanded == TypeOK /\ Apart => Sees
<1> SUFFICES ASSUME TypeOK, Apart, NEW p \in particles, NEW q \in expanded, q # p, Near(p, q)
             PROVE  HasExpNbr(p)
  BY DEF Sees
<1>1. PICK m \in Nodes(body[p]), n \in Nodes(body[q]) : Adjacent(m, n)
  BY DEF Near
<1>2. q \in particles /\ n \notin Nodes(body[p]) /\ body[p] \in Body
  BY SettledNode DEF Apart, expanded
<1>3. PICK d \in Dir : n = NodeInDir(m, d)
  BY <1>1 DEF Adjacent, Nbrs
<1>4. n \in NbrsOfSet(Nodes(body[p]))
  BY <1>2, <1>3, NextToBody
<1>5. PICK k \in Labels(body[p]) : NbrNode(body[p], k) = n
  BY <1>2, <1>4, NextToPort
<1>6. PICK l \in UniqueLabels(body[p]) : NbrNode(body[p], l) = n
  BY <1>2, <1>5, UniqueReaches
<1>7. HasNbrAtLabel(p, l) /\ NbrAtLabel(p, l) = q
  BY <1>1, <1>2, <1>6, ParticleAtIs DEF HasNbrAtLabel, NbrAtLabel, Occupied
<1> QED
  BY <1>6, <1>7 DEF HasExpNbr

\* A contracted particle counts the settled nodes next to it, at most six.
LEMMA CountIs ==
  ASSUME TypeOK, Apart, NEW p \in particles, IsContracted(body[p])
  PROVE  /\ NbrCount(p, UniqueLabels(body[p])) = Cardinality(Nbrs(p) \cap settled)
         /\ NbrCount(p, UniqueLabels(body[p])) \in 0..6
<1> DEFINE D == {l \in Dir : NbrNode(body[p], l) \in settled}
           f == [l \in D |-> NbrNode(body[p], l)]
<1>1. body[p] \in Body /\ body[p].head = p
  BY SettledNode
<1>2. /\ Labels(body[p]) = Dir /\ UniqueLabels(body[p]) = Dir
      /\ \A l \in Dir : NbrNode(body[p], l) = NodeInDir(p, LocalToGlobalDir(body[p], l))
  BY <1>1, ContractedFrame DEF UniqueLabels, NbrNode
<1>3. UniqueLabels(body[p]) \cap NbrLabels(p) = D
  BY <1>2, NbrLabelsSettled
<1>4. IsFiniteSet(Dir) /\ Cardinality(Dir) = 6
  <2>1. Dir = 0 .. 6 - 1
    BY DEF Dir
  <2> QED
    BY <2>1, UpTo
<1>5. IsFiniteSet(D) /\ Cardinality(D) <= 6
  BY <1>4, FS_Subset
<1>6. Cardinality(D) \in Nat
  BY <1>5, FS_CardinalityType
<1>7. f \in Bijection(D, Nbrs(p) \cap settled)
  <2>1. \A l \in D : f[l] \in Nbrs(p) \cap settled
    BY <1>1, <1>2, CompassType DEF Nbrs
  <2>2. \A k, l \in D : f[k] = f[l] => k = l
    <3> SUFFICES ASSUME NEW k \in D, NEW l \in D, f[k] = f[l] PROVE k = l
      OBVIOUS
    <3>1. k \in UniqueLabels(body[p]) /\ l \in UniqueLabels(body[p])
      BY <1>2
    <3> QED
      BY <1>1, <3>1, UniqueApart
  <2>3. \A n \in Nbrs(p) \cap settled : \E l \in D : f[l] = n
    <3> TAKE n \in Nbrs(p) \cap settled
    <3>1. PICK d \in Dir : n = NodeInDir(p, d)
      BY DEF Nbrs
    <3>2. GlobalToLocalDir(body[p], d) \in Dir
          /\ LocalToGlobalDir(body[p], GlobalToLocalDir(body[p], d)) = d
      BY <1>1, CompassType, CompassInverse
    <3> QED
      BY <1>2, <3>1, <3>2
  <2>4. f \in [D -> Nbrs(p) \cap settled]
    BY <2>1
  <2> HIDE DEF f, D
  <2> QED
    BY <2>2, <2>3, <2>4 DEF Bijection, Injection, Surjection, IsInjective
<1>8. Cardinality(D) = Cardinality(Nbrs(p) \cap settled)
  BY <1>5, <1>7, FS_Bijection DEF ExistsBijection
<1> QED
  BY <1>3, <1>5, <1>6, <1>8 DEF NbrCount

-----------------------------------------------------------------------------
(* What an expanded particle knows                                         *)

\* What they know holds at the start, where none is expanded.
LEMMA InvInit == Init => IInv
<1> SUFFICES ASSUME Init PROVE IInv
  OBVIOUS
<1>0. PICK nodes \in Starts : \E compass \in [nodes -> Orientation] :
        body = [n \in nodes |-> [head |-> n, globalTailDir |-> -1, orientation |-> compass[n]]]
  BY DEF Init
<1>1. PICK compass \in [nodes -> Orientation] :
        body = [n \in nodes |-> [head |-> n, globalTailDir |-> -1, orientation |-> compass[n]]]
  BY <1>0
<1>2. nodes \subseteq Node /\ Orientation \subseteq Dir
  BY StartsAssumption
<1>3. particles = nodes
  BY <1>1 DEF particles
<1>4. \A n \in nodes : /\ body[n] \in Body /\ IsContracted(body[n])
                       /\ body[n].head = n /\ Nodes(body[n]) = {n}
  BY <1>1, <1>2 DEF Body, IsContracted, Nodes
<1>5. expanded = {}
  BY <1>3, <1>4 DEF expanded, IsExpanded
<1>6. body \in [particles -> Body]
  <2>1. body = [n \in nodes |-> body[n]]
    BY <1>1
  <2> QED
    BY <1>3, <1>4, <2>1
<1>7. TypeOK
  <2>1. numNbrsBefore \in [expanded -> 0..6] /\ flag \in [expanded -> BOOLEAN]
    BY <1>5 DEF Init
  <2> QED
    BY <1>3, <1>4, <1>6, <2>1 DEF TypeOK, IsExpanded
<1>8. Apart
  BY <1>3, <1>4 DEF Apart
<1> QED
  BY <1>5, <1>7, <1>8 DEF IInv, FlaggedExclude, CountsCurrent, Init

\* Expanding keeps to a free node.
LEMMA ExpandMoves ==
  ASSUME IInv, NEW p \in particles, NEW l \in Dir, Expand(p, l)
  PROVE  /\ body[p] \in Body /\ IsContracted(body[p]) /\ l \in Labels(body[p])
         /\ particles' = particles
         /\ body' \in [particles' -> Body] /\ Apart'
         /\ \A r \in particles \ {p} : body'[r] = body[r]
         /\ body'[p] \in Body /\ IsExpanded(body'[p]) /\ TailNode(body'[p]) = p
         /\ expanded' = expanded \cup {p} /\ p \notin expanded
<1> DEFINE x == Expanded(body[p], l)
<1>1. TypeOK /\ Apart /\ body[p] \in Body /\ IsContracted(body[p])
      /\ body[p].head = p /\ Nodes(body[p]) = {p}
  BY SettledNode DEF IInv, Expand, CanExpand
<1>2. l \in Labels(body[p])
  BY <1>1, ContractedFrame
<1>3. x \in Body /\ IsExpanded(x) /\ x.head = NbrNode(body[p], l)
      /\ Nodes(x) = {NbrNode(body[p], l), p}
  BY <1>1, <1>2, ExpandedBody
<1>4. TailNode(x) = p
  BY <1>3, NodesType
<1>5. NbrNode(body[p], l) \notin Occupied
  BY DEF Expand, CanExpand, HasNbrAtLabel
<1>6. body' = [body EXCEPT ![p] = x]
  BY DEF Expand, AfterExpand
<1>7. Nodes(x) \cap (Occupied \ Nodes(body[p])) = {}
  BY <1>1, <1>3, <1>5
<1> HIDE DEF x
<1>8. /\ particles' = particles
      /\ body' \in [particles' -> Body] /\ Apart'
      /\ body'[p] = x
      /\ \A r \in particles \ {p} : body'[r] = body[r]
  BY <1>1, <1>3, <1>6, <1>7, MoveApart
<1>9. expanded' = expanded \cup {p} /\ p \notin expanded
  BY <1>1, <1>3, <1>8 DEF expanded, IsExpanded
<1> QED
  BY <1>1, <1>2, <1>3, <1>4, <1>8, <1>9

\* It counts what is next to it, and sees any other that is expanded there.
LEMMA ExpandKnows ==
  ASSUME IInv, NEW p \in particles, NEW l \in Dir, Expand(p, l)
  PROVE  IInv'
<1>1. /\ body[p] \in Body /\ IsContracted(body[p])
      /\ particles' = particles
      /\ body' \in [particles' -> Body] /\ Apart'
      /\ \A r \in particles \ {p} : body'[r] = body[r]
      /\ body'[p] \in Body /\ IsExpanded(body'[p]) /\ TailNode(body'[p]) = p
      /\ expanded' = expanded \cup {p} /\ p \notin expanded
  BY ExpandMoves
<1>2. TypeOK /\ Apart /\ FlaggedExclude /\ CountsCurrent /\ objects = {}
  BY DEF IInv
<1>3. /\ NbrCount(p, UniqueLabels(body[p])) = Cardinality(Nbrs(p) \cap settled)
      /\ NbrCount(p, UniqueLabels(body[p])) \in 0..6
  BY <1>1, <1>2, CountIs
<1>4. /\ numNbrsBefore' \in [expanded' -> 0..6]
      /\ numNbrsBefore'[p] = NbrCount(p, UniqueLabels(body[p]))
      /\ \A q \in expanded : numNbrsBefore'[q] = numNbrsBefore[q]
  BY <1>1, <1>2, <1>3 DEF Expand, TypeOK
<1>5. /\ flag' \in [expanded' -> BOOLEAN]
      /\ flag'[p] = (~ HasExpNbr(p)')
      /\ \A q \in expanded : flag'[q] = flag[q]
  <2>1. flag' = [q \in expanded' |-> IF q = p THEN ~ HasExpNbr(p)' ELSE flag[q]]
    BY DEF Expand
  <2>2. HasExpNbr(p)' \in BOOLEAN
    BY DEF HasExpNbr
  <2>3. \A q \in expanded : flag[q] \in BOOLEAN /\ q \in expanded' /\ q # p
    BY <1>1, <1>2 DEF TypeOK
  <2> QED
    BY <1>1, <2>1, <2>2, <2>3
<1>6. TypeOK'
  <2>1. \A q \in particles' :
          q = (IF IsExpanded(body'[q]) THEN TailNode(body'[q]) ELSE body'[q].head)
    BY <1>1, <1>2 DEF TypeOK
  <2> QED
    BY <1>1, <1>4, <1>5, <2>1 DEF TypeOK
<1>7. settled' = settled
  BY <1>1 DEF settled
<1>8. CountsCurrent'
  BY <1>1, <1>2, <1>3, <1>4, <1>5, <1>7 DEF CountsCurrent
<1>9. FlaggedExclude'
  <2> SUFFICES ASSUME NEW r \in expanded', NEW q \in expanded', r # q, flag'[r], flag'[q],
                      NEW m \in Nodes(body'[r]), NEW n \in Nodes(body'[q]), Adjacent(m, n)
               PROVE  FALSE
    BY DEF FlaggedExclude, Near
  <2>0. \A t \in particles' : body'[t] \in Body
    BY <1>1
  <2>1. m \in Node /\ n \in Node /\ Adjacent(n, m)
    <3>1. r \in particles' /\ q \in particles'
      BY DEF expanded
    <3>2. m \in Node /\ n \in Node
      BY <2>0, <3>1, NodesType
    <3> QED
      BY <3>2, AdjacentSymmetric
  <2>2. CASE r # p /\ q # p
    <3>1. r \in expanded /\ q \in expanded /\ body'[r] = body[r] /\ body'[q] = body[q]
      BY <1>1, <2>2 DEF expanded
    <3> QED
      BY <1>2, <1>5, <3>1 DEF FlaggedExclude, Near
  <2>3. ASSUME NEW t \in expanded', t # p, flag'[p],
               NEW i \in Nodes(body'[p]), NEW j \in Nodes(body'[t]), Adjacent(i, j)
        PROVE  FALSE
    <3>1. Near(p, t)'
      BY <2>3 DEF Near
    <3>2. p \in particles'
      BY <1>1
    <3>3. (TypeOK /\ Apart => Sees)'
      BY SeesExpanded, PTL
    <3>4. HasExpNbr(p)'
      BY <1>1, <1>6, <2>3, <3>1, <3>2, <3>3 DEF Sees
    <3> QED
      BY <1>5, <2>3, <3>4
  <2> QED
    BY <2>1, <2>2, <2>3
<1> QED
  BY <1>1, <1>2, <1>6, <1>8, <1>9 DEF IInv, Expand

\* The notes of the particles that stay expanded are kept.
LEMMA Forgets ==
  ASSUME TypeOK, NEW p \in expanded, Forget(p), expanded' \subseteq expanded
  PROVE  /\ numNbrsBefore' \in [expanded' -> 0..6]
         /\ flag' \in [expanded' -> BOOLEAN]
         /\ \A q \in expanded' : numNbrsBefore'[q] = numNbrsBefore[q] /\ flag'[q] = flag[q]
  BY DEF Forget, TypeOK

\* Going on moves the particle from its tail to its head; the others stay.
LEMMA GoOnMoves ==
  ASSUME IInv, NEW p \in particles, GoOn(p)
  PROVE  LET h == body[p].head
         IN  /\ p \in expanded /\ h \notin particles
             /\ particles' = (particles \ {p}) \cup {h}
             /\ body' \in [particles' -> Body]
             /\ IsContracted(body'[h]) /\ body'[h].head = h /\ Nodes(body'[h]) = {h}
             /\ \A r \in particles \ {p} : body'[r] = body[r]
             /\ expanded' = expanded \ {p}
<1> DEFINE h == body[p].head
<1>1. TypeOK /\ Apart /\ body[p] \in Body /\ IsExpanded(body[p]) /\ p \in expanded
  BY SettledNode DEF IInv, GoOn, expanded
<1>2. h \notin particles
  BY <1>1, HeadNotSettled DEF settled
<1>3. /\ TailContracted(body[p]) \in Body /\ Nodes(TailContracted(body[p])) = {h}
      /\ IsContracted(TailContracted(body[p]))
  BY <1>1, ContractedBody
<1>4. TailContracted(body[p]).head = h
  BY <1>3, NodesType
<1>5. body' = [n \in (particles \ {p}) \cup {h} |->
                 IF n = h THEN TailContracted(body[p]) ELSE body[n]]
  BY DEF GoOn
<1> HIDE DEF h
<1>6. /\ particles' = (particles \ {p}) \cup {h}
      /\ body'[h] = TailContracted(body[p])
      /\ \A r \in particles \ {p} : body'[r] = body[r]
  BY <1>2, <1>5 DEF particles
<1>7. body' \in [particles' -> Body]
  <2>1. \A r \in particles : body[r] \in Body
    BY <1>1 DEF TypeOK
  <2> QED
    BY <1>3, <1>5, <1>6, <2>1
<1>8. expanded' = expanded \ {p}
  BY <1>2, <1>3, <1>6 DEF expanded, IsExpanded
<1> QED
  BY <1>1, <1>2, <1>3, <1>4, <1>6, <1>7, <1>8 DEF h

\* A particle that may go on has none next to it whose count could change.
LEMMA GoOnKnows ==
  ASSUME IInv, NEW p \in particles, GoOn(p)
  PROVE  IInv'
<1> DEFINE h == body[p].head
<1>1. /\ p \in expanded /\ h \notin particles
      /\ particles' = (particles \ {p}) \cup {h}
      /\ body' \in [particles' -> Body]
      /\ IsContracted(body'[h]) /\ body'[h].head = h /\ Nodes(body'[h]) = {h}
      /\ \A r \in particles \ {p} : body'[r] = body[r]
      /\ expanded' = expanded \ {p}
  BY GoOnMoves
<1>2. TypeOK /\ Apart /\ FlaggedExclude /\ CountsCurrent /\ objects = {} /\ flag[p]
  BY DEF IInv, GoOn, MayGoOn
<1>3. IsExpanded(body[p]) /\ Nodes(body[p]) = {h, p} /\ h \in Node /\ p \in Node
  BY <1>2, SettledNode DEF GoOn
<1> HIDE DEF h
<1>4. /\ numNbrsBefore' \in [expanded' -> 0..6]
      /\ flag' \in [expanded' -> BOOLEAN]
      /\ \A q \in expanded' : numNbrsBefore'[q] = numNbrsBefore[q] /\ flag'[q] = flag[q]
  BY <1>1, <1>2, Forgets DEF GoOn
<1>5. TypeOK'
  <2>1. \A q \in particles' :
          q = (IF IsExpanded(body'[q]) THEN TailNode(body'[q]) ELSE body'[q].head)
    <3> TAKE q \in particles'
    <3>1. CASE q = h
      BY <1>1, <3>1 DEF IsExpanded
    <3>2. CASE q # h
      BY <1>1, <1>2, <3>2 DEF TypeOK
    <3> QED
      BY <3>1, <3>2
  <2> QED
    BY <1>1, <1>4, <2>1 DEF TypeOK
<1>6. Apart'
  <2> SUFFICES ASSUME NEW r \in particles', NEW q \in particles', r # q
               PROVE  Nodes(body'[r]) \cap Nodes(body'[q]) = {}
    BY DEF Apart
  <2>1. CASE r # h /\ q # h
    <3>1. r \in particles \ {p} /\ q \in particles \ {p}
      BY <1>1, <2>1
    <3> QED
      BY <1>1, <1>2, <3>1 DEF Apart
  <2>2. ASSUME NEW i \in particles', i # h PROVE h \notin Nodes(body'[i])
    <3>1. i \in particles \ {p}
      BY <1>1, <2>2
    <3> QED
      BY <1>1, <1>2, <1>3, <3>1 DEF Apart
  <2> QED
    BY <1>1, <2>1, <2>2
<1>7. FlaggedExclude'
  <2> SUFFICES ASSUME NEW r \in expanded', NEW q \in expanded', r # q, flag'[r], flag'[q]
               PROVE  ~ Near(r, q)'
    BY DEF FlaggedExclude
  <2>1. r \in expanded /\ q \in expanded /\ flag[r] /\ flag[q]
        /\ body'[r] = body[r] /\ body'[q] = body[q]
    BY <1>1, <1>4 DEF expanded
  <2> QED
    BY <1>2, <2>1 DEF FlaggedExclude, Near
<1>8. CountsCurrent'
  <2> SUFFICES ASSUME NEW q \in expanded', flag'[q]
               PROVE  numNbrsBefore'[q] = Cardinality(Nbrs(q) \cap settled')
    BY DEF CountsCurrent
  <2>1. q \in expanded /\ q # p /\ flag[q] /\ numNbrsBefore'[q] = numNbrsBefore[q]
    BY <1>1, <1>4
  <2>2. q \in particles /\ q \in Nodes(body[q])
    BY <1>2, <2>1, SettledNode DEF expanded
  <2>3. h \notin Nbrs(q) /\ p \notin Nbrs(q)
    BY <1>1, <1>2, <1>3, <2>1, <2>2 DEF FlaggedExclude, Near, Adjacent
  <2>4. Nbrs(q) \cap settled' = Nbrs(q) \cap settled
    BY <1>1, <2>3 DEF settled
  <2> QED
    BY <1>2, <2>1, <2>4 DEF CountsCurrent
<1> QED
  BY <1>2, <1>5, <1>6, <1>7, <1>8 DEF IInv, GoOn, Forget

\* Going back leaves the particle where it is settled.
LEMMA GoBackKnows ==
  ASSUME IInv, NEW p \in particles, GoBack(p)
  PROVE  IInv' /\ settled' = settled
<1> DEFINE x == HeadContracted(body[p])
<1>1. TypeOK /\ Apart /\ FlaggedExclude /\ CountsCurrent /\ objects = {}
  BY DEF IInv
<1>2. /\ body[p] \in Body /\ IsExpanded(body[p]) /\ p \in expanded
      /\ Nodes(body[p]) = {body[p].head, p} /\ TailNode(body[p]) = p
  BY <1>1, SettledNode DEF GoBack, expanded
<1>3. x \in Body /\ Nodes(x) = {p} /\ IsContracted(x)
  BY <1>2, ContractedBody
<1>4. x.head = p
  BY <1>3, NodesType
<1>5. body' = [body EXCEPT ![p] = x]
  BY DEF GoBack, AfterContractHead
<1>6. Nodes(x) \cap (Occupied \ Nodes(body[p])) = {}
  BY <1>2, <1>3
<1> HIDE DEF x
<1>7. /\ particles' = particles
      /\ body' \in [particles' -> Body] /\ Apart'
      /\ body'[p] = x
      /\ \A r \in particles \ {p} : body'[r] = body[r]
  BY <1>1, <1>3, <1>5, <1>6, MoveApart
<1>8. expanded' = expanded \ {p} /\ settled' = settled
  BY <1>2, <1>3, <1>7 DEF expanded, IsExpanded, settled
<1>9. /\ numNbrsBefore' \in [expanded' -> 0..6]
      /\ flag' \in [expanded' -> BOOLEAN]
      /\ \A q \in expanded' : numNbrsBefore'[q] = numNbrsBefore[q] /\ flag'[q] = flag[q]
  BY <1>1, <1>2, <1>8, Forgets DEF GoBack
<1>10. TypeOK'
  <2>1. \A q \in particles' :
          q = (IF IsExpanded(body'[q]) THEN TailNode(body'[q]) ELSE body'[q].head)
    BY <1>1, <1>3, <1>4, <1>7 DEF TypeOK, IsExpanded
  <2> QED
    BY <1>7, <1>9, <2>1 DEF TypeOK
<1>11. FlaggedExclude'
  <2> SUFFICES ASSUME NEW r \in expanded', NEW q \in expanded', r # q, flag'[r], flag'[q]
               PROVE  ~ Near(r, q)'
    BY DEF FlaggedExclude
  <2>1. r \in expanded /\ q \in expanded /\ flag[r] /\ flag[q]
        /\ body'[r] = body[r] /\ body'[q] = body[q]
    BY <1>7, <1>8, <1>9 DEF expanded
  <2> QED
    BY <1>1, <2>1 DEF FlaggedExclude, Near
<1>12. CountsCurrent'
  BY <1>1, <1>8, <1>9 DEF CountsCurrent
<1> QED
  BY <1>1, <1>7, <1>8, <1>10, <1>11, <1>12 DEF IInv, GoBack, Forget

\* Nothing but the steps of Next disturbs it.
LEMMA InvStep == IInv /\ [Next]_vars => IInv'
<1> SUFFICES ASSUME IInv, [Next]_vars PROVE IInv'
  OBVIOUS
<1>1. CASE UNCHANGED vars
  BY <1>1 DEF vars, IInv, TypeOK, Apart, FlaggedExclude, CountsCurrent, Near, particles,
              expanded, settled
<1>2. ASSUME NEW p \in particles, NEW l \in Dir, Expand(p, l) PROVE IInv'
  BY <1>2, ExpandKnows
<1>3. ASSUME NEW p \in particles, GoOn(p) PROVE IInv'
  BY <1>3, GoOnKnows
<1>4. ASSUME NEW p \in particles, GoBack(p) PROVE IInv'
  BY <1>4, GoBackKnows
<1> QED
  BY <1>1, <1>2, <1>3, <1>4 DEF Next

\* What they know holds throughout.
LEMMA InvCorrect == Spec => []IInv
<1> QED
  BY InvInit, InvStep, PTL DEF Spec

\* Whatever the others do meanwhile, an expanded particle that may go on has
\* counted the neighbours its settled node still has.
THEOREM KnowledgeCorrect == Spec => []ExpandedKnow
<1>1. IInv => ExpandedKnow
  BY DEF IInv, ExpandedKnow
<1> QED
  BY <1>1, InvCorrect, PTL

-----------------------------------------------------------------------------
(* The moves of the chain                                                  *)

\* The chain moves on this lattice, among the settled particles.
LEMMA ChainTerms ==
  /\ \A n : Chain!Nbrs(n) = Nbrs(n)
  /\ \A m, n : Chain!Adjacent(m, n) <=> Adjacent(m, n)
  /\ \A n, m : Chain!Common(n, m) = Nbrs(n) \cap Nbrs(m) \cap settled
  /\ \A n, m : Chain!Around(n, m) = NbrsOfSet({n, m}) \cap settled
<1>1. \A n : Chain!Nbrs(n) = Nbrs(n)
  BY DEF Chain!Nbrs, Nbrs, Chain!NodeInDir, NodeInDir, Chain!Dir, Dir,
         Chain!xOffset, xOffset, Chain!yOffset, yOffset
<1>2. \A P : Chain!NbrsOfSet(P) = NbrsOfSet(P)
  BY <1>1 DEF Chain!NbrsOfSet, NbrsOfSet
<1> QED
  BY <1>1, <1>2 DEF Chain!Adjacent, Adjacent, Chain!Common, Chain!Around

\* The chain's connectedness is that of the lattice.
LEMMA ChainConnected ==
  ASSUME NEW P
  PROVE  Chain!Connected(P) <=> Connected(P)
<1>1. \A m, n : Chain!Adjacent(m, n) <=> Adjacent(m, n)
  BY ChainTerms
<1> QED
  BY <1>1 DEF Chain!Connected, Connected

\* It counts as this module does.
LEMMA ChainCounts ==
  ASSUME NEW P
  PROVE  Chain!Cardinality(P) = Cardinality(P)
  BY DEF Chain!Cardinality, Cardinality, Chain!IsFiniteSet, IsFiniteSet

\* Under either condition every part of the others is next to the rest of them
\* or to the node the particle jumps to.
LEMMA NoPartCutOff ==
  ASSUME settled \subseteq Node, Connected(settled),
         NEW n \in settled, NEW m \in Nbrs(n), m \in Node, m \notin settled,
         Chain!Property1(n, m) \/ Chain!Property2(n, m),
         NEW W \in SUBSET (settled \ {n}), W # {}
  PROVE  \E a \in W, b \in ((settled \ {n}) \cup {m}) \ W : Adjacent(a, b)
<1> DEFINE rest == ((settled \ {n}) \cup {m}) \ W
           Com  == Nbrs(n) \cap Nbrs(m) \cap settled
           Aro  == NbrsOfSet({n, m}) \cap settled
<1>1. SUFFICES ASSUME \A a \in W, b \in rest : ~ Adjacent(a, b) PROVE FALSE
  OBVIOUS
<1>2. \A a \in settled \cup {m}, b \in settled \cup {m} : Adjacent(a, b) => Adjacent(b, a)
  BY AdjacentSymmetric
<1>3. PICK a \in W, b \in settled \ W : Adjacent(a, b)
  <2>1. W \in SUBSET settled /\ W # settled
    OBVIOUS
  <2> QED
    BY <2>1 DEF Connected
<1>4. b = n /\ a \in Nbrs(n) /\ a # n /\ a # m /\ a \in settled
  BY <1>1, <1>2, <1>3 DEF Adjacent
<1>5. \A x \in W : x \notin Nbrs(m)
  <2>1. m \in rest
    OBVIOUS
  <2>2. \A x \in W : x \in Nbrs(m) => Adjacent(x, m)
    BY <1>2 DEF Adjacent
  <2> QED
    BY <1>1, <2>1, <2>2
<1>6. CASE Chain!Property1(n, m)
  <2> DEFINE T == W \cap Aro
  <2>1. \A P \in SUBSET (Aro \ Com) : P # {} => \E x \in P, y \in Aro \ P : Adjacent(x, y)
    BY <1>6, ChainTerms DEF Chain!Property1
  <2>2. a \in Aro
    BY <1>4 DEF NbrsOfSet
  <2>3. T \in SUBSET (Aro \ Com) /\ T # {}
    BY <1>3, <1>5, <2>2
  <2>4. PICK x \in T, y \in Aro \ T : Adjacent(x, y)
    BY <2>1, <2>3
  <2>5. y \in rest
    <3>1. n \notin Aro
      BY DEF NbrsOfSet
    <3> QED
      BY <2>4, <3>1
  <2> QED
    BY <1>1, <2>4, <2>5
<1>7. CASE Chain!Property2(n, m)
  <2> DEFINE nearN == Nbrs(n) \cap settled
             nearM == Nbrs(m) \cap settled
             V     == (settled \ {n}) \ W
  <2>1. \A end \in {n, m} : LET near == (Nbrs(end) \cap settled) \ {n}
                            IN  near # {} /\ Connected(near)
    BY <1>7, ChainTerms, ChainConnected DEF Chain!Property2
  <2>2. n \notin Nbrs(n)
    BY NodeInDirMoves DEF Nbrs
  <2>3. nearN \subseteq W
    <3>1. Connected(nearN)
      <4>1. (Nbrs(n) \cap settled) \ {n} = nearN
        BY <2>2
      <4> QED
        BY <2>1, <4>1
    <3>2. ASSUME ~ (nearN \subseteq W) PROVE FALSE
      <4>1. W \cap nearN \in SUBSET nearN /\ W \cap nearN # {} /\ W \cap nearN # nearN
        BY <1>3, <1>4, <3>2
      <4>2. PICK x \in W \cap nearN, y \in nearN \ (W \cap nearN) : Adjacent(x, y)
        BY <3>1, <4>1 DEF Connected
      <4>3. y \in rest
        BY <2>2, <4>2
      <4> QED
        BY <1>1, <4>2, <4>3
    <3> QED
      BY <3>2
  <2>4. V # {}
    <3>1. PICK x \in nearM \ {n} : TRUE
      BY <2>1
    <3>2. x \notin W
      BY <1>5, <3>1
    <3> QED
      BY <3>1, <3>2
  <2>5. PICK x \in V, y \in settled \ V : Adjacent(x, y)
    <3>1. V \in SUBSET settled /\ V # settled
      OBVIOUS
    <3> QED
      BY <2>4, <3>1 DEF Connected
  <2>6. y # n
    <3>1. y = n => x \in nearN
      BY <1>2, <2>5 DEF Adjacent
    <3> QED
      BY <2>3, <2>5, <3>1
  <2>7. y \in W /\ x \in rest /\ Adjacent(y, x)
    BY <1>2, <2>5, <2>6
  <2> QED
    BY <1>1, <2>7
<1> QED
  BY <1>6, <1>7

\* So a jump leaves the particles connected.
LEMMA JumpKeepsConnected ==
  ASSUME settled \subseteq Node, Connected(settled),
         NEW n \in settled, NEW m \in Nbrs(n), m \in Node, m \notin settled,
         Chain!Property1(n, m) \/ Chain!Property2(n, m)
  PROVE  Connected((settled \ {n}) \cup {m})
<1> DEFINE after == (settled \ {n}) \cup {m}
<1> SUFFICES ASSUME NEW T \in SUBSET after, T # {}, T # after
             PROVE  \E a \in T, b \in after \ T : Adjacent(a, b)
  BY DEF Connected
<1>1. \A a \in after, b \in after : Adjacent(a, b) => Adjacent(b, a)
  BY AdjacentSymmetric
<1>2. CASE m \notin T
  <2>1. T \in SUBSET (settled \ {n})
    BY <1>2
  <2> QED
    BY <2>1, NoPartCutOff
<1>3. CASE m \in T
  <2> DEFINE W == after \ T
  <2>1. W \in SUBSET (settled \ {n}) /\ W # {} /\ after \ W = T
    BY <1>3
  <2> HIDE DEF W
  <2>2. PICK a \in W, b \in after \ W : Adjacent(a, b)
    BY <2>1, NoPartCutOff
  <2>3. a \in after \ T /\ b \in T
    BY <2>1, <2>2 DEF W
  <2> QED
    BY <1>1, <2>2, <2>3
<1> QED
  BY <1>2, <1>3

-----------------------------------------------------------------------------
(* The local tests: the second condition                                   *)

\* Unsplit directions lead to nodes that hang together.
LEMMA NearConnected ==
  ASSUME NEW n \in Node, NEW D \in SUBSET Dir, Unsplit(D)
  PROVE  Connected({NodeInDir(n, d) : d \in D})
<1> DEFINE near == {NodeInDir(n, d) : d \in D}
           star == near \cup {n}
<1>1. \A d \in Dir : NodeInDir(n, d) \in Node /\ NodeInDir(n, d) # n
  BY NodeInDirType, NodeInDirMoves
<1>2. star \in SUBSET Node /\ star \ {n} = near
  BY <1>1
<1>3. Connected(star)
  <2> SUFFICES ASSUME NEW T \in SUBSET star, T # {}, T # star
               PROVE  \E a \in T, b \in star \ T : Adjacent(a, b)
    BY DEF Connected
  <2>1. \A x \in near : Adjacent(n, x) /\ Adjacent(x, n)
    <3> TAKE x \in near
    <3>1. x \in Node /\ Adjacent(n, x)
      BY <1>1 DEF Adjacent, Nbrs
    <3> QED
      BY <3>1, AdjacentSymmetric
  <2> QED
    BY <2>1
<1>4. {d \in Dir : NodeInDir(n, d) \in star} = D
  BY <1>1, NodeInDirInjective
<1> HIDE DEF near, star
<1>5. n \in star
  BY DEF star
<1>6. Connected(star \ {n})
  BY <1>2, <1>3, <1>4, <1>5, ErosionKeepsConnected
<1> QED
  BY <1>2, <1>6 DEF near

\* One run of labels at an end of an expanded body reaches such nodes.
LEMMA OneRunConnected ==
  ASSUME NEW b \in Body, IsExpanded(b), NEW n \in Nodes(b),
         NEW A \in SUBSET {l \in Labels(b) : OccupiedNodeIncidentToLabel(b, l) = n},
         \A k, l \in A : (k + 1) % 10 \notin A /\ (l + 1) % 10 \notin A => k = l
  PROVE  Connected({NbrNode(b, l) : l \in A})
<1> DEFINE dir(l) == LabelToGlobalDir(b, l)
           D      == {dir(l) : l \in A}
<1>1. Labels(b) = 0..9 /\ LabelLimit(b) = 10
  BY ExpandedFrame
<1>2. n \in Node /\ \A l \in A : l \in Labels(b) /\ OccupiedNodeIncidentToLabel(b, l) = n
  BY NodesType
<1>3. D \in SUBSET Dir
  BY LabelToGlobalDirType
<1>4. \A l \in A : (l + 1) % 10 \in A => dir((l + 1) % 10) = (dir(l) + 1) % 6
  BY <1>1, <1>2, LabelsCircle
<1>5. ASSUME NEW d \in D, NEW e \in D, (d + 1) % 6 \notin D, (e + 1) % 6 \notin D
      PROVE  d = e
  <2>1. PICK k \in A : d = dir(k)
    OBVIOUS
  <2>2. PICK l \in A : e = dir(l)
    OBVIOUS
  <2>3. \A i \in A : dir(i) \in D
    OBVIOUS
  <2> HIDE DEF D, dir
  <2>4. (k + 1) % 10 \notin A /\ (l + 1) % 10 \notin A
    BY <1>4, <1>5, <2>1, <2>2, <2>3
  <2> QED
    BY <2>1, <2>2, <2>4
<1>6. {NbrNode(b, l) : l \in A} = {NodeInDir(n, d) : d \in D}
  BY <1>2 DEF NbrNode
<1> HIDE DEF D
<1>7. Unsplit(D)
  BY <1>3, <1>5, OneEndUnsplit
<1> QED
  BY <1>2, <1>3, <1>6, <1>7, NearConnected

\* The settled nodes next to one end of an expanded particle are those its
\* labels at this end reach.
LEMMA NearIs ==
  ASSUME TypeOK, Apart, NEW p \in expanded, NEW n \in Nodes(body[p])
  PROVE  LET A == {l \in NbrLabels(p) : OccupiedNodeIncidentToLabel(body[p], l) = n}
         IN  (Nbrs(n) \cap settled) \ {p} = {NbrNode(body[p], l) : l \in A}
<1> DEFINE b == body[p]
           A == {l \in NbrLabels(p) : OccupiedNodeIncidentToLabel(b, l) = n}
<1>1. /\ p \in particles /\ b \in Body /\ IsExpanded(b)
      /\ Nodes(b) = {b.head, p} /\ b.head \notin settled
  BY SettledNode, HeadNotSettled DEF expanded
<1>2. NbrLabels(p) = {l \in Labels(b) : NbrNode(b, l) \in settled}
  BY <1>1, NbrLabelsSettled
<1>3. ASSUME NEW m \in (Nbrs(n) \cap settled) \ {p} PROVE \E l \in A : NbrNode(b, l) = m
  <2>1. PICK d \in Dir : m = NodeInDir(n, d)
    BY <1>3 DEF Nbrs
  <2>2. m \notin Nodes(b)
    BY <1>1, <1>3
  <2>3. PICK l \in Labels(b) : /\ OccupiedNodeIncidentToLabel(b, l) = n
                               /\ LabelToGlobalDir(b, l) = d
    BY <1>1, <2>1, <2>2, PortExists
  <2>4. NbrNode(b, l) = m
    BY <2>1, <2>3 DEF NbrNode
  <2> QED
    BY <1>2, <1>3, <2>3, <2>4
<1>4. ASSUME NEW l \in A PROVE NbrNode(b, l) \in (Nbrs(n) \cap settled) \ {p}
  <2>1. l \in Labels(b) /\ NbrNode(b, l) \in settled /\ NbrNode(b, l) \notin Nodes(b)
    BY <1>1, <1>2, PortLeaves
  <2>2. NbrNode(b, l) = NodeInDir(n, LabelToGlobalDir(b, l)) /\ LabelToGlobalDir(b, l) \in Dir
    BY <1>1, <2>1, LabelToGlobalDirType DEF NbrNode
  <2> QED
    BY <1>1, <2>1, <2>2 DEF Nbrs
<1> QED
  BY <1>3, <1>4

\* The labels that reach a node next to both ends.
LEMMA LastLabels ==
  ASSUME NEW b \in Body, IsExpanded(b)
  PROVE  LET k == LastOf(HeadLabels(b))
             l == LastOf(TailLabels(b))
         IN  /\ k \in HeadLabels(b) /\ (k + 1) % 10 \in TailLabels(b)
             /\ l \in TailLabels(b) /\ (l + 1) % 10 \in HeadLabels(b)
             /\ HeadLabels(b) \subseteq 0..9 /\ TailLabels(b) \subseteq 0..9
<1>1. \A t \in Dir : /\ labels[t + 1] \subseteq 0..9
                     /\ \E l \in labels[t + 1] : (l + 1) % 10 \notin labels[t + 1]
  BY DEF labels, Dir
<1>2. /\ TailDir(b) \in Dir /\ HeadLabels(b) = labels[TailDir(b) + 1]
      /\ TailLabels(b) = (0..9) \ HeadLabels(b)
  BY ExpandedFrame
<1>3. Opposite(TailDir(b)) \in Dir /\ TailLabels(b) = labels[Opposite(TailDir(b)) + 1]
  BY <1>2, OppositeType DEF TailLabels
<1>4. \E l \in HeadLabels(b) : (l + 1) % 10 \notin HeadLabels(b)
  BY <1>1, <1>2
<1>5. \E l \in TailLabels(b) : (l + 1) % 10 \notin TailLabels(b)
  BY <1>1, <1>3
<1>6. \A l \in 0..9 : (l + 1) % 10 \in 0..9
  OBVIOUS
<1> QED
  BY <1>1, <1>2, <1>4, <1>5, <1>6 DEF LastOf

\* The last labels of the two ends reach the two nodes next to both.
LEMMA CornersCommon ==
  ASSUME NEW b \in Body, IsExpanded(b)
  PROVE  Nbrs(TailNode(b)) \cap Nbrs(b.head)
           = {NbrNode(b, LastOf(HeadLabels(b))), NbrNode(b, LastOf(TailLabels(b)))}
<1> DEFINE t == TailDir(b)
           g == b.globalTailDir
           k == LastOf(HeadLabels(b))
           l == LastOf(TailLabels(b))
<1>1. /\ t \in Dir /\ g \in Dir /\ LocalToGlobalDir(b, t) = g
      /\ TailNode(b) = NodeInDir(b.head, g) /\ b.head \in Node
      /\ HeadLabels(b) = labels[t + 1] /\ TailLabels(b) = (0..9) \ HeadLabels(b)
      /\ Labels(b) = 0..9
      /\ \A i : LabelToDir(b, i) = labelDir[t + 1][i + 1]
  BY ExpandedFrame, NodesType
<1>2. /\ k \in HeadLabels(b) /\ (k + 1) % 10 \in TailLabels(b)
      /\ l \in TailLabels(b) /\ (l + 1) % 10 \in HeadLabels(b)
      /\ k \in 0..9 /\ l \in 0..9
  BY LastLabels
<1> HIDE DEF t, g, k, l
<1>3. OccupiedNodeIncidentToLabel(b, k) = b.head
      /\ OccupiedNodeIncidentToLabel(b, l) = TailNode(b)
  BY <1>1, <1>2 DEF OccupiedNodeIncidentToLabel
<1>4. LabelToDir(b, k) = (t + 5) % 6
  BY <1>1, <1>2, NextPort
<1>5. LabelToDir(b, l) = (t + 2) % 6
  BY <1>1, <1>2, NextPort
<1>6. 5 \in Dir /\ 2 \in Dir
  BY DEF Dir
<1>7. LabelToGlobalDir(b, k) = (g + 5) % 6 /\ LabelToGlobalDir(b, l) = (g + 2) % 6
  BY <1>1, <1>4, <1>5, <1>6, CompassInverse DEF LabelToGlobalDir
<1>8. NbrNode(b, k) = NodeInDir(b.head, (g + 5) % 6)
      /\ NbrNode(b, l) = NodeInDir(NodeInDir(b.head, g), (g + 2) % 6)
  BY <1>1, <1>3, <1>7 DEF NbrNode
<1>9. /\ (g + 5) % 6 \in Dir /\ (g + 2) % 6 \in Dir /\ (g + 1) % 6 \in Dir /\ (g + 4) % 6 \in Dir
  BY <1>1 DEF Dir
<1>10. ASSUME NEW a \in Dir, NEW c \in Dir
       PROVE  NodeInDir(b.head, a) = NodeInDir(NodeInDir(b.head, g), c)
               <=> \/ a = (g + 1) % 6 /\ c = (g + 2) % 6
                   \/ a = (g + 5) % 6 /\ c = (g + 4) % 6
  BY <1>1, StepsMeet
<1>11. NbrNode(b, k) = NodeInDir(NodeInDir(b.head, g), (g + 4) % 6)
       /\ NbrNode(b, l) = NodeInDir(b.head, (g + 1) % 6)
  BY <1>8, <1>9, <1>10
<1>12. NbrNode(b, k) \in Nbrs(TailNode(b)) \cap Nbrs(b.head)
       /\ NbrNode(b, l) \in Nbrs(TailNode(b)) \cap Nbrs(b.head)
  BY <1>1, <1>8, <1>9, <1>11 DEF Nbrs
<1>13. ASSUME NEW m \in Nbrs(TailNode(b)) \cap Nbrs(b.head)
       PROVE  m = NbrNode(b, k) \/ m = NbrNode(b, l)
  <2>1. PICK a \in Dir : m = NodeInDir(b.head, a)
    BY <1>13 DEF Nbrs
  <2>2. PICK c \in Dir : m = NodeInDir(TailNode(b), c)
    BY <1>13 DEF Nbrs
  <2>3. a = (g + 1) % 6 \/ a = (g + 5) % 6
    BY <1>1, <1>10, <2>1, <2>2
  <2> QED
    BY <1>8, <1>11, <2>1, <2>3
<1> QED
  BY <1>12, <1>13 DEF k, l

\* S is the set of the labels at which there is a particle next to both ends.
LEMMA SeenFromBoth ==
  ASSUME TypeOK, Apart, NEW p \in expanded
  PROVE  /\ S(p) \subseteq NbrLabels(p)
         /\ {NbrNode(body[p], s) : s \in S(p)} = Nbrs(p) \cap Nbrs(body[p].head) \cap settled
<1> DEFINE b == body[p]
           k == LastOf(HeadLabels(b))
           l == LastOf(TailLabels(b))
<1>1. p \in particles /\ b \in Body /\ IsExpanded(b) /\ TailNode(b) = p
  BY SettledNode DEF expanded
<1>2. Labels(b) = 0..9 /\ k \in 0..9 /\ l \in 0..9
  BY <1>1, ExpandedFrame, LastLabels
<1>3. NbrLabels(p) = {i \in Labels(b) : NbrNode(b, i) \in settled}
  BY <1>1, NbrLabelsSettled
<1>4. Nbrs(p) \cap Nbrs(b.head) = {NbrNode(b, k), NbrNode(b, l)}
  BY <1>1, CornersCommon
<1> QED
  BY <1>2, <1>3, <1>4 DEF S

\* What checkProp2 accepts, the second condition of the chain allows.
LEMMA SecondCondition ==
  ASSUME TypeOK, Apart, NEW p \in expanded, CheckProp2(p)
  PROVE  Chain!Property2(p, body[p].head)
<1> DEFINE b == body[p]
<1>1. /\ p \in particles /\ b \in Body /\ IsExpanded(b)
      /\ TailNode(b) = p /\ Nodes(b) = {b.head, p}
  BY SettledNode DEF expanded
<1>2. Chain!Common(p, b.head) = {}
  BY SeenFromBoth, ChainTerms DEF CheckProp2
<1>3. ASSUME NEW n \in {p, b.head}
      PROVE  LET near == (Nbrs(n) \cap settled) \ {p} IN near # {} /\ Connected(near)
  <2> DEFINE A == {l \in NbrLabels(p) : OccupiedNodeIncidentToLabel(b, l) = n}
             E == {l \in A : (l + 1) % 10 \notin A}
  <2>1. NbrLabels(p) \subseteq Labels(b) /\ Labels(b) = 0..9
    BY <1>1, NbrLabelsSettled, ExpandedFrame
  <2>2. A = HeadLabels(b) \cap NbrLabels(p) \/ A = TailLabels(b) \cap NbrLabels(p)
    <3>1. \A l \in Labels(b) : /\ l \in HeadLabels(b) \/ l \in TailLabels(b)
                               /\ OccupiedNodeIncidentToLabel(b, l) = b.head
                                    <=> l \in HeadLabels(b)
      BY <1>1, EndOfLabel
    <3>2. TailLabels(b) = (0..9) \ HeadLabels(b)
      BY <1>1, ExpandedFrame
    <3>3. \A l \in Labels(b) : OccupiedNodeIncidentToLabel(b, l) \in {b.head, p}
      BY <1>1, NbrNodeType
    <3>4. b.head # p
      BY <1>1, NodesType
    <3> QED
      BY <2>1, <3>1, <3>2, <3>3, <3>4
  <2>3. Cardinality(E) = 1
    BY <2>2 DEF CheckProp2
  <2>4. \E x : E = {x}
    <3>1. IsFiniteSet(0 .. 10 - 1)
      BY UpTo
    <3>2. IsFiniteSet(E)
      <4>1. E \in SUBSET (0 .. 10 - 1)
        BY <2>1
      <4> QED
        BY <3>1, <4>1, FS_Subset
    <3> HIDE DEF E
    <3> QED
      BY <2>3, <3>2, FS_Singleton
  <2>5. \A k, l \in A : (k + 1) % 10 \notin A /\ (l + 1) % 10 \notin A => k = l
    BY <2>4
  <2>6. A # {}
    BY <2>4
  <2>7. (Nbrs(n) \cap settled) \ {p} = {NbrNode(b, l) : l \in A}
    BY <1>1, NearIs
  <2>8. A \in SUBSET {l \in Labels(b) : OccupiedNodeIncidentToLabel(b, l) = n}
    BY <2>1
  <2> HIDE DEF A
  <2>9. Connected({NbrNode(b, l) : l \in A})
    BY <1>1, <2>5, <2>8, OneRunConnected
  <2> QED
    BY <2>6, <2>7, <2>9
<1> QED
  BY <1>2, <1>3, ChainTerms, ChainConnected DEF Chain!Property2

-----------------------------------------------------------------------------
(* The local tests: the first condition                                    *)

\* Where a label stands among the unique ones, and which stands at place i.
PlaceIn(U, l) == Cardinality({k \in U : k < l})
AtPlace(U, i) == CHOOSE l \in U : PlaceIn(U, l) = i % Cardinality(U)

\* The sweeps in terms of these places.
LEMMA SweepIs ==
  ASSUME NEW U, NEW D, NEW s
  PROVE  Sweep(U, D, s) =
           LET n        == Cardinality(U)
               ahead(k) == AtPlace(U, PlaceIn(U, s) + k)
               back(k)  == AtPlace(U, PlaceIn(U, s) - k + n)
           IN  {s} \cup {ahead(k) : k \in {j \in 1 .. n - 1 : \A i \in 1..j : ahead(i) \in D}}
                   \cup {back(k)  : k \in {j \in 1 .. n - 1 : \A i \in 1..j : back(i) \in D}}
  BY DEF Sweep, PlaceIn, AtPlace

\* The second of two labels at different ends is not unique.
LEMMA UniqueWithinEnd ==
  ASSUME NEW b \in Body, IsExpanded(b), NEW l \in 0..9
  PROVE  l \in UniqueLabels(b) <=> (l \in HeadLabels(b) <=> (l + 9) % 10 \in HeadLabels(b))
<1> DEFINE k == (l + 9) % 10
<1>1. Labels(b) = 0..9 /\ TailLabels(b) = (0..9) \ HeadLabels(b)
  BY ExpandedFrame
<1>2. k \in 0..9 /\ l = (k + 1) % 10 /\ k # l
  BY LabelBefore
<1>3. l \in UniqueLabels(b) <=> NbrNode(b, l) # NbrNode(b, k)
  BY <1>1, UniqueIs
<1> HIDE DEF k
<1>4. CASE l \in HeadLabels(b) <=> k \in HeadLabels(b)
  <2>1. OccupiedNodeIncidentToLabel(b, l) = OccupiedNodeIncidentToLabel(b, k)
    BY <1>4 DEF OccupiedNodeIncidentToLabel
  <2> QED
    BY <1>1, <1>2, <1>3, <1>4, <2>1, OneEndApart DEF k
<1>5. CASE ~ (l \in HeadLabels(b) <=> k \in HeadLabels(b))
  <2>1. \/ l \in HeadLabels(b) /\ k \in TailLabels(b)
        \/ k \in HeadLabels(b) /\ l \in TailLabels(b)
    BY <1>1, <1>2, <1>5
  <2>2. NbrNode(b, l) = NbrNode(b, k)
    BY <1>2, <2>1, EndsMeet
  <2> QED
    BY <1>3, <1>5, <2>2 DEF k
<1> QED
  BY <1>4, <1>5 DEF k

\* The labels of an expanded body that are not unique are five apart.
LEMMA UniqueSet ==
  ASSUME NEW b \in Body, IsExpanded(b)
  PROVE  \E x \in 2..4 : UniqueLabels(b) = (0..9) \ {x, x + 5}
<1> DEFINE t == TailDir(b)
           x == << 3, 4, 2, 3, 4, 2 >>[t + 1]
<1>1. t \in Dir /\ HeadLabels(b) = labels[t + 1] /\ Labels(b) = 0..9
  BY ExpandedFrame
<1>2. UniqueLabels(b) \subseteq 0..9
  BY <1>1 DEF UniqueLabels
<1>3. x \in 2..4
  BY <1>1 DEF Dir
<1>4. \A l \in 0..9 : (l \in labels[t + 1] <=> (l + 9) % 10 \in labels[t + 1])
                         <=> l # x /\ l # x + 5
  BY <1>1 DEF Dir, labels
<1> HIDE DEF x, t
<1>5. \A l \in 0..9 : l \in UniqueLabels(b) <=> l # x /\ l # x + 5
  BY <1>1, <1>4, UniqueWithinEnd
<1>6. UniqueLabels(b) = (0..9) \ {x, x + 5}
  BY <1>2, <1>5
<1> QED
  BY <1>3, <1>6

\* The eight unique labels stand in the order of the labels.
LEMMA PlacesAre ==
  ASSUME NEW x \in 2..4, NEW U, U = (0..9) \ {x, x + 5}
  PROVE  /\ Cardinality(U) = 8
         /\ \A l \in U : PlaceIn(U, l) = IF l < x THEN l ELSE IF l < x + 5 THEN l - 1 ELSE l - 2
<1>1. ASSUME NEW n \in 0..10, n # x, n # x + 5
      PROVE  Cardinality({k \in U : k < n})
               = IF n < x THEN n ELSE IF n < x + 5 THEN n - 1 ELSE n - 2
  <2> DEFINE A == 0 .. n - 1
  <2>1. IsFiniteSet(A) /\ Cardinality(A) = n
    BY UpTo
  <2>2. /\ IsFiniteSet(A \ {x})
        /\ Cardinality(A \ {x}) = IF x \in A THEN Cardinality(A) - 1 ELSE Cardinality(A)
    BY <2>1, FS_RemoveElement
  <2>3. Cardinality((A \ {x}) \ {x + 5})
          = IF x + 5 \in A \ {x} THEN Cardinality(A \ {x}) - 1 ELSE Cardinality(A \ {x})
    BY <2>2, FS_RemoveElement
  <2>4. {k \in U : k < n} = (A \ {x}) \ {x + 5}
    OBVIOUS
  <2>5. /\ x \in A <=> x < n
        /\ x + 5 \in A \ {x} <=> x + 5 < n
    OBVIOUS
  <2>6. Cardinality({k \in U : k < n}) = Cardinality((A \ {x}) \ {x + 5})
    BY <2>4
  <2> HIDE DEF A
  <2>7. Cardinality(A \ {x}) = IF x < n THEN n - 1 ELSE n
    BY <2>1, <2>2, <2>5
  <2>8. Cardinality((A \ {x}) \ {x + 5})
          = IF x + 5 < n THEN Cardinality(A \ {x}) - 1 ELSE Cardinality(A \ {x})
    BY <2>3, <2>5
  <2> QED
    BY <1>1, <2>6, <2>7, <2>8
<1>2. Cardinality(U) = 8
  <2>1. {k \in U : k < 10} = U
    OBVIOUS
  <2>2. Cardinality({k \in U : k < 10}) = 8
    BY <1>1
  <2> QED
    BY <2>1, <2>2
<1>3. ASSUME NEW l \in U
      PROVE  PlaceIn(U, l) = IF l < x THEN l ELSE IF l < x + 5 THEN l - 1 ELSE l - 2
  <2>1. l \in 0..10 /\ l # x /\ l # x + 5
    OBVIOUS
  <2> QED
    BY <1>1, <2>1 DEF PlaceIn
<1> QED
  BY <1>2, <1>3

\* Every place is taken, by one label.
LEMMA PlacesTaken ==
  ASSUME NEW x \in 2..4, NEW U, U = (0..9) \ {x, x + 5}
  PROVE  /\ Cardinality(U) = 8
         /\ \A l \in U : PlaceIn(U, l) \in 0..7
         /\ \A k, l \in U : PlaceIn(U, k) = PlaceIn(U, l) => k = l
         /\ \A i \in Nat : AtPlace(U, i) \in U /\ PlaceIn(U, AtPlace(U, i)) = i % 8
<1>1. /\ Cardinality(U) = 8
      /\ \A l \in U : PlaceIn(U, l) = IF l < x THEN l ELSE IF l < x + 5 THEN l - 1 ELSE l - 2
  BY PlacesAre
<1>2. ASSUME NEW i \in Nat PROVE AtPlace(U, i) \in U /\ PlaceIn(U, AtPlace(U, i)) = i % 8
  <2> DEFINE j == i % 8
             l == IF j < x THEN j ELSE IF j < x + 4 THEN j + 1 ELSE j + 2
  <2>1. j \in 0..7
    OBVIOUS
  <2> HIDE DEF j
  <2>2. l \in U /\ PlaceIn(U, l) = j
    BY <1>1, <2>1
  <2> HIDE DEF l
  <2> QED
    BY <1>1, <2>2 DEF AtPlace, j
<1>3. \A l \in U : PlaceIn(U, l) \in 0..7
  BY <1>1
<1>4. \A k, l \in U : PlaceIn(U, k) = PlaceIn(U, l) => k = l
  BY <1>1
<1> QED
  BY <1>1, <1>2, <1>3, <1>4

\* Labels at successive places reach adjacent nodes.
LEMMA NextPlaceAdjacent ==
  ASSUME NEW b \in Body, IsExpanded(b),
         NEW k \in UniqueLabels(b), NEW l \in UniqueLabels(b),
         PlaceIn(UniqueLabels(b), l) = (PlaceIn(UniqueLabels(b), k) + 1) % 8
  PROVE  Adjacent(NbrNode(b, k), NbrNode(b, l))
<1> DEFINE U == UniqueLabels(b)
           m == (k + 1) % 10
<1>1. PICK x \in 2..4 : U = (0..9) \ {x, x + 5}
  BY UniqueSet
<1>2. \A i \in U : PlaceIn(U, i) = IF i < x THEN i ELSE IF i < x + 5 THEN i - 1 ELSE i - 2
  BY <1>1, PlacesAre
<1>3. k \in U /\ l \in U /\ PlaceIn(U, l) = (PlaceIn(U, k) + 1) % 8
  OBVIOUS
<1>4. Labels(b) = 0..9 /\ LabelLimit(b) = 10 /\ U \subseteq 0..9
  BY ExpandedFrame DEF UniqueLabels
<1> HIDE DEF U
<1>5. m \in 0..9 /\ k # l /\ (l = m \/ (m \notin U /\ l = (m + 1) % 10))
  BY <1>1, <1>2, <1>3
<1>6. ASSUME NEW i \in 0..9, l = (i + 1) % 10, NbrNode(b, i) # NbrNode(b, l)
      PROVE  Adjacent(NbrNode(b, i), NbrNode(b, l))
  <2>1. /\ OccupiedNodeIncidentToLabel(b, i) = OccupiedNodeIncidentToLabel(b, l)
        /\ LabelToGlobalDir(b, l) = (LabelToGlobalDir(b, i) + 1) % 6
    BY <1>4, <1>6, LabelsCircle
  <2>2. OccupiedNodeIncidentToLabel(b, i) \in Node /\ LabelToGlobalDir(b, i) \in Dir
    BY <1>4, NbrNodeType, NodesType, LabelToGlobalDirType
  <2> QED
    BY <2>1, <2>2, SuccessorsAdjacent DEF NbrNode
<1>7. NbrNode(b, k) # NbrNode(b, l)
  BY <1>3, <1>5, UniqueApart DEF U
<1>8. CASE l = m
  BY <1>3, <1>4, <1>6, <1>7, <1>8
<1>9. CASE m \notin U /\ l = (m + 1) % 10
  <2>1. (m + 9) % 10 = k
    BY <1>3, <1>4
  <2>2. NbrNode(b, m) = NbrNode(b, k)
    BY <1>4, <1>5, <1>9, <2>1, UniqueIs DEF U
  <2> QED
    BY <1>5, <1>6, <1>7, <1>9, <2>2
<1> QED
  BY <1>5, <1>8, <1>9

\* Labels of D that reach adjacent nodes lead from s to l.
RunFrom(b, D, s, l) ==
  \E k \in 0..7, f \in [0..7 -> UniqueLabels(b)] :
    /\ f[0] = s /\ f[k] = l
    /\ \A i \in 0..k : f[i] \in D
    /\ \A i \in 0..6 : Adjacent(NbrNode(b, f[i + 1]), NbrNode(b, f[i]))

\* From a label of S a sweep goes along adjacent neighbours.
LEMMA SweptRun ==
  ASSUME NEW b \in Body, IsExpanded(b), NEW D,
         NEW s \in UniqueLabels(b), s \in D, NEW l \in Sweep(UniqueLabels(b), D, s)
  PROVE  RunFrom(b, D, s, l)
<1> DEFINE U     == UniqueLabels(b)
           up(i) == AtPlace(U, PlaceIn(U, s) + i)
           dn(i) == AtPlace(U, PlaceIn(U, s) - i + 8)
           f     == [i \in 0..7 |-> up(i)]
           g     == [i \in 0..7 |-> dn(i)]
<1>1. PICK x \in 2..4 : U = (0..9) \ {x, x + 5}
  BY UniqueSet
<1>2. /\ Cardinality(U) = 8
      /\ \A k \in U : PlaceIn(U, k) \in 0..7
      /\ \A j, k \in U : PlaceIn(U, j) = PlaceIn(U, k) => j = k
      /\ \A i \in Nat : AtPlace(U, i) \in U /\ PlaceIn(U, AtPlace(U, i)) = i % 8
  BY <1>1, PlacesTaken
<1>3. s \in U /\ PlaceIn(U, s) \in 0..7
  BY <1>2
<1>4. Sweep(U, D, s) =
        {s} \cup {up(k) : k \in {j \in 1..7 : \A i \in 1..j : up(i) \in D}}
            \cup {dn(k) : k \in {j \in 1..7 : \A i \in 1..j : dn(i) \in D}}
  <2>1. 8 - 1 = 7
    OBVIOUS
  <2> QED
    BY <1>2, <2>1, SweepIs
<1>5. \A j, k \in U : PlaceIn(U, k) = (PlaceIn(U, j) + 1) % 8
                        => Adjacent(NbrNode(b, j), NbrNode(b, k))
  BY NextPlaceAdjacent
<1>6. \A j \in U : NbrNode(b, j) \in Node
  BY NbrNodeType DEF UniqueLabels
<1> DEFINE c == PlaceIn(U, s)
<1>7. \A i \in 0..7 : /\ up(i) \in U /\ PlaceIn(U, up(i)) = (c + i) % 8
                      /\ dn(i) \in U /\ PlaceIn(U, dn(i)) = (c - i + 8) % 8
  <2> TAKE i \in 0..7
  <2>1. c + i \in Nat /\ c - i + 8 \in Nat
    BY <1>3
  <2> QED
    BY <1>2, <2>1
<1>8. up(0) = s /\ dn(0) = s
  <2>1. (c + 0) % 8 = c /\ (c - 0 + 8) % 8 = c
    BY <1>3
  <2>2. PlaceIn(U, up(0)) = PlaceIn(U, s) /\ PlaceIn(U, dn(0)) = PlaceIn(U, s)
        /\ up(0) \in U /\ dn(0) \in U
    BY <1>7, <2>1
  <2> HIDE DEF up, dn
  <2> QED
    BY <1>2, <1>3, <2>2
<1>9. ASSUME NEW i \in 0..6
      PROVE  /\ Adjacent(NbrNode(b, up(i + 1)), NbrNode(b, up(i)))
             /\ Adjacent(NbrNode(b, dn(i + 1)), NbrNode(b, dn(i)))
  <2>1. i \in 0..7 /\ i + 1 \in 0..7
    OBVIOUS
  <2>2. /\ up(i) \in U /\ up(i + 1) \in U /\ dn(i) \in U /\ dn(i + 1) \in U
        /\ PlaceIn(U, up(i)) = (c + i) % 8 /\ PlaceIn(U, up(i + 1)) = (c + (i + 1)) % 8
        /\ PlaceIn(U, dn(i)) = (c - i + 8) % 8 /\ PlaceIn(U, dn(i + 1)) = (c - (i + 1) + 8) % 8
    BY <1>7, <2>1
  <2>3. /\ (c + (i + 1)) % 8 = (((c + i) % 8) + 1) % 8
        /\ (c - i + 8) % 8 = (((c - (i + 1) + 8) % 8) + 1) % 8
    BY <1>3
  <2> HIDE DEF up, dn, c, U
  <2>4. Adjacent(NbrNode(b, up(i)), NbrNode(b, up(i + 1)))
    BY <1>5, <2>2, <2>3
  <2>5. Adjacent(NbrNode(b, dn(i + 1)), NbrNode(b, dn(i)))
    BY <1>5, <2>2, <2>3
  <2> QED
    BY <1>6, <2>2, <2>4, <2>5, AdjacentSymmetric
<1>10. f \in [0..7 -> U] /\ g \in [0..7 -> U]
  BY <1>7
<1>11. ASSUME NEW i \in 0..6
       PROVE  /\ Adjacent(NbrNode(b, f[i + 1]), NbrNode(b, f[i]))
              /\ Adjacent(NbrNode(b, g[i + 1]), NbrNode(b, g[i]))
  <2>1. i \in 0..7 /\ i + 1 \in 0..7
    OBVIOUS
  <2>2. f[i] = up(i) /\ f[i + 1] = up(i + 1) /\ g[i] = dn(i) /\ g[i + 1] = dn(i + 1)
    BY <2>1
  <2> HIDE DEF f, g, up, dn
  <2> QED
    BY <1>9, <2>2
<1>12. ASSUME NEW k \in 0..7, \A i \in 1..k : up(i) \in D, l = up(k) PROVE RunFrom(b, D, s, l)
  <2>1. f[0] = s /\ f[k] = l
    BY <1>8, <1>12
  <2>2. \A i \in 0..k : f[i] \in D
    BY <1>8, <1>12
  <2> HIDE DEF f
  <2> QED
    BY <1>10, <1>11, <2>1, <2>2 DEF RunFrom
<1>13. ASSUME NEW k \in 0..7, \A i \in 1..k : dn(i) \in D, l = dn(k) PROVE RunFrom(b, D, s, l)
  <2>1. g[0] = s /\ g[k] = l
    BY <1>8, <1>13
  <2>2. \A i \in 0..k : g[i] \in D
    BY <1>8, <1>13
  <2> HIDE DEF g
  <2> QED
    BY <1>10, <1>11, <2>1, <2>2 DEF RunFrom
<1>14. CASE l = s
  <2>1. s = up(0) /\ \A i \in 1..0 : up(i) \in D
    BY <1>8
  <2> HIDE DEF up
  <2> QED
    BY <1>12, <1>14, <2>1
<1> HIDE DEF up, dn
<1>15. \/ l = s
       \/ \E k \in 1..7 : l = up(k) /\ \A i \in 1..k : up(i) \in D
       \/ \E k \in 1..7 : l = dn(k) /\ \A i \in 1..k : dn(i) \in D
  BY <1>4
<1> QED
  BY <1>12, <1>13, <1>14, <1>15

\* A label followed by one of the other end is unique.
LEMMA LastUnique ==
  ASSUME NEW b \in Body, IsExpanded(b), NEW k \in 0..9,
         \/ k \in HeadLabels(b) /\ (k + 1) % 10 \in TailLabels(b)
         \/ k \in TailLabels(b) /\ (k + 1) % 10 \in HeadLabels(b)
  PROVE  k \in UniqueLabels(b)
<1> DEFINE t == TailDir(b)
<1>1. /\ t \in Dir /\ HeadLabels(b) = labels[t + 1]
      /\ TailLabels(b) = (0..9) \ HeadLabels(b)
  BY ExpandedFrame
<1>2. \/ k \in labels[t + 1] /\ (k + 1) % 10 \notin labels[t + 1]
      \/ k \notin labels[t + 1] /\ (k + 1) % 10 \in labels[t + 1]
  BY <1>1
<1> HIDE DEF t
<1>3. k \in labels[t + 1] <=> (k + 9) % 10 \in labels[t + 1]
  BY <1>1, <1>2 DEF Dir, labels
<1> QED
  BY <1>1, <1>3, UniqueWithinEnd

\* What checkProp1 accepts, the first condition of the chain allows.
LEMMA FirstCondition ==
  ASSUME TypeOK, Apart, NEW p \in expanded, CheckProp1(p)
  PROVE  Chain!Property1(p, body[p].head)
<1> DEFINE b   == body[p]
           U   == UniqueLabels(b)
           D   == NbrLabels(p)
           Com == Nbrs(p) \cap Nbrs(b.head) \cap settled
           Aro == NbrsOfSet({p, b.head}) \cap settled
           swept == UNION {Sweep(U, D, s) : s \in S(p)}
<1>1. /\ p \in particles /\ b \in Body /\ IsExpanded(b)
      /\ TailNode(b) = p /\ Nodes(b) = {p, b.head}
  BY SettledNode DEF expanded
<1>2. S(p) # {} /\ Cardinality(swept) = Cardinality(U \cap D)
  BY DEF CheckProp1, NbrCount
<1>3. S(p) \subseteq D /\ {NbrNode(b, s) : s \in S(p)} = Com
  BY SeenFromBoth
<1>4. D = {l \in Labels(b) : NbrNode(b, l) \in settled} /\ Labels(b) = 0..9
      /\ U \subseteq Labels(b)
  BY <1>1, NbrLabelsSettled, ExpandedFrame DEF UniqueLabels
<1>5. S(p) \subseteq U
  <2>1. /\ LastOf(HeadLabels(b)) \in HeadLabels(b)
        /\ (LastOf(HeadLabels(b)) + 1) % 10 \in TailLabels(b)
        /\ LastOf(TailLabels(b)) \in TailLabels(b)
        /\ (LastOf(TailLabels(b)) + 1) % 10 \in HeadLabels(b)
        /\ LastOf(HeadLabels(b)) \in 0..9 /\ LastOf(TailLabels(b)) \in 0..9
    BY <1>1, LastLabels
  <2> HIDE DEF b
  <2>2. LastOf(HeadLabels(b)) \in UniqueLabels(b) /\ LastOf(TailLabels(b)) \in UniqueLabels(b)
    BY <1>1, <2>1, LastUnique
  <2> QED
    BY <2>2 DEF S, b
<1>6. ASSUME NEW s \in S(p), NEW l \in Sweep(U, D, s) PROVE RunFrom(b, D, s, l)
  BY <1>1, <1>3, <1>5, <1>6, SweptRun
<1>7. swept = U \cap D
  <2>1. swept \subseteq U \cap D
    <3> SUFFICES ASSUME NEW s \in S(p), NEW l \in Sweep(U, D, s) PROVE l \in U \cap D
      OBVIOUS
    <3>1. PICK k \in 0..7, f \in [0..7 -> U] : f[k] = l /\ \A i \in 0..k : f[i] \in D
      BY <1>6 DEF RunFrom
    <3> QED
      BY <3>1
  <2>2. IsFiniteSet(0 .. 10 - 1)
    BY UpTo
  <2>3. U \cap D \in SUBSET (0 .. 10 - 1)
    BY <1>4
  <2>4. IsFiniteSet(U \cap D)
    BY <2>2, <2>3, FS_Subset
  <2> HIDE DEF swept, U, D
  <2> QED
    BY <1>2, <2>1, <2>4, FS_Subset
<1>8. ASSUME NEW T \in SUBSET (Aro \ Com), T # {}
      PROVE  \E x \in T, y \in Aro \ T : Adjacent(x, y)
  <2>1. PICK n \in T : TRUE
    BY <1>8
  <2>2. n \in NbrsOfSet(Nodes(b)) /\ n \in settled /\ n \notin Com
    BY <1>1, <1>8
  <2>3. PICK m \in Labels(b) : NbrNode(b, m) = n
    BY <1>1, <2>2, NextToPort
  <2>4. PICK l \in U : NbrNode(b, l) = n
    BY <1>1, <2>3, UniqueReaches
  <2>5. l \in U \cap D
    BY <1>4, <2>2, <2>4
  <2>6. PICK s \in S(p) : l \in Sweep(U, D, s)
    BY <1>7, <2>5
  <2>7. PICK k \in 0..7, f \in [0..7 -> U] :
          /\ f[0] = s /\ f[k] = l
          /\ \A i \in 0..k : f[i] \in D
          /\ \A i \in 0..6 : Adjacent(NbrNode(b, f[i + 1]), NbrNode(b, f[i]))
    BY <1>6, <2>6 DEF RunFrom
  <2> DEFINE at(i) == NbrNode(b, f[i])
  <2>8. at(0) \notin T /\ at(k) \in T
    BY <1>3, <1>8, <2>4, <2>7
  <2>9. PICK i \in 0..6 : i + 1 \in 0..k /\ at(i) \notin T /\ at(i + 1) \in T
    <3> HIDE DEF at
    <3>1. ASSUME \A i \in 0..6 : i + 1 <= k /\ at(i) \notin T => at(i + 1) \notin T
          PROVE  FALSE
      <4>1. k >= 1 => at(1) \notin T
        BY <2>8, <3>1
      <4>2. k >= 2 => at(2) \notin T
        BY <3>1, <4>1
      <4>3. k >= 3 => at(3) \notin T
        BY <3>1, <4>2
      <4>4. k >= 4 => at(4) \notin T
        BY <3>1, <4>3
      <4>5. k >= 5 => at(5) \notin T
        BY <3>1, <4>4
      <4>6. k >= 6 => at(6) \notin T
        BY <3>1, <4>5
      <4>7. k >= 7 => at(7) \notin T
        BY <3>1, <4>6
      <4>8. k \in {0, 1, 2, 3, 4, 5, 6, 7}
        OBVIOUS
      <4> QED
        BY <2>8, <4>1, <4>2, <4>3, <4>4, <4>5, <4>6, <4>7, <4>8
    <3> QED
      BY <3>1
  <2>10. at(i) \in Aro
    <3>1. i \in 0..k /\ i \in 0..7
      BY <2>9
    <3>2. f[i] \in D
      BY <2>7, <3>1
    <3>3. f[i] \in Labels(b) /\ at(i) \in settled
      BY <1>4, <3>2
    <3>4. at(i) \in NbrsOfSet(Nodes(b))
      BY <1>1, <3>3, PortNextTo
    <3> QED
      BY <1>1, <3>3, <3>4
  <2>11. Adjacent(at(i + 1), at(i))
    BY <2>7
  <2> HIDE DEF at, Aro
  <2> QED
    BY <2>9, <2>10, <2>11
<1>9. Com # {}
  BY <1>2, <1>3
<1> QED
  BY <1>8, <1>9, ChainTerms DEF Chain!Property1

-----------------------------------------------------------------------------
(* Compression implements the chain                                        *)

\* Going on is a jump of the chain from the tail to the head.
LEMMA GoOnJumps ==
  ASSUME IInv, NEW p \in particles, GoOn(p)
  PROVE  LET h == body[p].head
         IN  /\ p \in settled /\ p \in Node
             /\ h \in Nbrs(p) /\ h \in Node /\ h \notin settled
             /\ Chain!Property1(p, h) \/ Chain!Property2(p, h)
             /\ settled' = (settled \ {p}) \cup {h}
             /\ Chain!Jump(p, h)
<1> DEFINE h == body[p].head
<1>1. /\ p \in expanded /\ h \notin particles
      /\ particles' = (particles \ {p}) \cup {h}
  BY GoOnMoves
<1>2. TypeOK /\ Apart /\ CountsCurrent
  BY DEF IInv
<1>3. flag[p] /\ numNbrsBefore[p] # 5 /\ (CheckProp1(p) \/ CheckProp2(p))
  BY DEF GoOn, MayGoOn
<1>4. Chain!Property1(p, h) \/ Chain!Property2(p, h)
  BY <1>1, <1>2, <1>3, FirstCondition, SecondCondition
<1>5. Chain!Cardinality(Chain!Nbrs(p) \cap settled) # 5
  <2>1. Cardinality(Nbrs(p) \cap settled) # 5
    BY <1>1, <1>2, <1>3 DEF CountsCurrent
  <2>2. Chain!Nbrs(p) = Nbrs(p)
    BY ChainTerms
  <2> QED
    BY <2>1, <2>2, ChainCounts
<1>6. h \in Nbrs(p) /\ h \in Node /\ p \in Node
  <2>1. body[p] \in Body /\ IsExpanded(body[p]) /\ TailNode(body[p]) = p /\ p \in Node /\ h \in Node
    BY <1>2, SettledNode DEF GoOn
  <2>2. h = NodeInDir(TailNode(body[p]), Opposite(body[p].globalTailDir))
        /\ body[p].globalTailDir \in Dir
    BY <2>1, ExpandedFrame
  <2> QED
    BY <2>1, <2>2, OppositeType DEF Nbrs
<1>7. settled' = (settled \ {p}) \cup {h} /\ h \notin settled /\ p \in settled
  BY <1>1 DEF settled
<1> QED
  BY <1>4, <1>5, <1>6, <1>7 DEF Chain!Jump

\* The initial configurations are those of the chain.
LEMMA ChainInit == Init => Chain!Init /\ Connected(settled)
<1> SUFFICES ASSUME Init PROVE Chain!Init /\ Connected(settled)
  OBVIOUS
<1>1. settled \in Starts
  BY DEF Init, settled, particles
<1> QED
  BY <1>1, StartsAssumption DEF Chain!Init

\* Every other step is none of the chain's.
LEMMA StepCases ==
  ASSUME IInv, [Next]_vars
  PROVE  settled' = settled \/ \E p \in particles : GoOn(p)
<1>1. CASE UNCHANGED vars
  BY <1>1 DEF vars, settled, particles
<1>2. ASSUME NEW p \in particles, NEW l \in Dir, Expand(p, l) PROVE settled' = settled
  BY <1>2, ExpandMoves DEF settled
<1>3. ASSUME NEW p \in particles, GoBack(p) PROVE settled' = settled
  BY <1>3, GoBackKnows
<1> QED
  BY <1>1, <1>2, <1>3 DEF Next

\* Each step is a move of the chain or none.
LEMMA ChainStep == IInv /\ [Next]_vars => [Chain!Next]_Chain!vars
<1> SUFFICES ASSUME IInv, [Next]_vars PROVE [Chain!Next]_Chain!vars
  OBVIOUS
<1>1. CASE settled' = settled
  BY <1>1 DEF Chain!vars
<1>2. ASSUME NEW p \in particles, GoOn(p) PROVE Chain!Next
  <2>1. p \in settled /\ body[p].head \in Nbrs(p) /\ Chain!Jump(p, body[p].head)
    BY <1>2, GoOnJumps
  <2>2. body[p].head \in Chain!Nbrs(p)
    BY <2>1, ChainTerms
  <2> QED
    BY <2>1, <2>2 DEF Chain!Next
<1> QED
  BY <1>1, <1>2, StepCases

\* The connectedness of the particles is inductive with what they know.
LEMMA ConnectedStep == IInv /\ Connected(settled) /\ [Next]_vars => Connected(settled)'
<1> SUFFICES ASSUME IInv, Connected(settled), [Next]_vars PROVE Connected(settled')
  BY DEF Connected, Adjacent, Nbrs
<1>1. settled \subseteq Node
  BY SettledNode DEF IInv, settled
<1>2. ASSUME NEW p \in particles, GoOn(p) PROVE Connected(settled')
  BY <1>1, <1>2, GoOnJumps, JumpKeepsConnected
<1> QED
  BY <1>2, StepCases

\* Whatever the others do between an expansion and the contraction after it,
\* the two amount to one move of the Markov chain, made at the contraction.
THEOREM ChainImplemented == Spec => ImplementsChain
<1>1. Init => Chain!Init
  BY ChainInit
<1> QED
  BY <1>1, ChainStep, InvCorrect, PTL DEF Spec, ImplementsChain, Chain!Spec

\* The settled particles never fall apart, from every connected start.
THEOREM ConnectedCorrect == Spec => []StaysConnected
<1>1. Init => Connected(settled)
  BY ChainInit
<1>2. Connected(settled) <=> StaysConnected
  BY DEF StaysConnected
<1> QED
  BY <1>1, <1>2, ConnectedStep, InvCorrect, PTL DEF Spec

-----------------------------------------------------------------------------
(* The figure and its holes                                                *)

\* The directions in which a node has a neighbour in F, those at whose
\* counter-clockwise side it has none, and those at which it has one.
Taken(n, F) == {d \in Dir : NodeInDir(n, d) \in F}
EndsOf(D)   == {d \in D : (d + 1) % 6 \notin D}
Linked(D)   == {d \in D : (d + 1) % 6 \in D}

\* The adjacent pairs and triples of its nodes.
Edges(F) == {{e[1], e[2]} : e \in {e \in F \X F : Adjacent(e[1], e[2])}}
Triangles(F) ==
  {t \in SUBSET F : Cardinality(t) = 3 /\ \A m, n \in t : m # n => Adjacent(m, n)}

\* The number of components less the number of holes, as Euler's formula has it.
Euler(F) == Cardinality(F) - Cardinality(Edges(F)) + Cardinality(Triangles(F))

\* No finite part of the free nodes is shut off from the others.
NoHole(F) ==
  \A H \in SUBSET (Node \ F) :
    IsFiniteSet(H) /\ H # {} => \E h \in H : \E n \in Nbrs(h) : n \notin H \cup F

\* A figure in one piece without a hole, as far as it can be counted.
Solid(F) == IsFiniteSet(F) /\ Euler(F) = 1 /\ NoHole(F)

\* A set of directions is finite, and its ends are those that are not linked.
LEMMA DirsFinite ==
  ASSUME NEW D \in SUBSET Dir
  PROVE  /\ IsFiniteSet(D) /\ IsFiniteSet(EndsOf(D)) /\ IsFiniteSet(Linked(D))
         /\ Cardinality(D) \in Nat /\ Cardinality(EndsOf(D)) \in Nat /\ Cardinality(Linked(D)) \in Nat
         /\ Cardinality(EndsOf(D)) = Cardinality(D) - Cardinality(Linked(D))
<1>1. IsFiniteSet(Dir)
  <2>1. Dir = 0 .. 6 - 1
    BY DEF Dir
  <2> QED
    BY <2>1, UpTo
<1>2. EndsOf(D) \in SUBSET Dir /\ Linked(D) \in SUBSET Dir
  BY DEF EndsOf, Linked
<1>3. IsFiniteSet(D) /\ IsFiniteSet(EndsOf(D)) /\ IsFiniteSet(Linked(D))
  BY <1>1, <1>2, FS_Subset
<1>4. Cardinality(D) \in Nat /\ Cardinality(EndsOf(D)) \in Nat /\ Cardinality(Linked(D)) \in Nat
  BY <1>3, FS_CardinalityType
<1>5. EndsOf(D) = D \ Linked(D) /\ D \cap Linked(D) = Linked(D)
  BY DEF EndsOf, Linked
<1>6. Cardinality(D \ Linked(D)) = Cardinality(D) - Cardinality(D \cap Linked(D))
  BY <1>3, FS_Difference
<1> QED
  BY <1>3, <1>4, <1>5, <1>6

\* Two different neighbours of a node are adjacent when their directions follow
\* each other.
LEMMA NbrsAdjacent ==
  ASSUME NEW n \in Node, NEW d \in Dir, NEW e \in Dir,
         Adjacent(NodeInDir(n, d), NodeInDir(n, e))
  PROVE  e = (d + 1) % 6 \/ d = (e + 1) % 6
<1>1. PICK c \in Dir : NodeInDir(n, e) = NodeInDir(NodeInDir(n, d), c)
  BY DEF Adjacent, Nbrs
<1>2. e = (d + 1) % 6 \/ e = (d + 5) % 6
  BY <1>1, StepsMeet
<1>3. e = (d + 5) % 6 => d = (e + 1) % 6
  BY DEF Dir
<1> QED
  BY <1>2, <1>3

\* A finite figure has finitely many edges.
LEMMA EdgesFinite ==
  ASSUME NEW F \in SUBSET Node, IsFiniteSet(F)
  PROVE  IsFiniteSet(Edges(F)) /\ Cardinality(Edges(F)) \in Nat
<1>1. IsFiniteSet(SUBSET F)
  BY FS_SUBSET
<1>2. Edges(F) \subseteq SUBSET F
  BY DEF Edges
<1>3. IsFiniteSet(Edges(F))
  BY <1>1, <1>2, FS_Subset
<1> QED
  BY <1>3, FS_CardinalityType

\* The edges at a node that is added.
LEMMA EdgesAdded ==
  ASSUME NEW F \in SUBSET Node, IsFiniteSet(F), NEW n \in Node, n \notin F
  PROVE  /\ IsFiniteSet(Edges(F)) /\ IsFiniteSet(Edges(F \cup {n}))
         /\ Cardinality(Edges(F)) \in Nat
         /\ Cardinality(Edges(F \cup {n})) = Cardinality(Edges(F)) + Cardinality(Taken(n, F))
<1> DEFINE D == Taken(n, F)
           f == [d \in D |-> {n, NodeInDir(n, d)}]
           new == {{n, NodeInDir(n, d)} : d \in D}
<1>2. IsFiniteSet(F \cup {n}) /\ F \cup {n} \in SUBSET Node
  BY FS_AddElement
<1>3. IsFiniteSet(Edges(F)) /\ IsFiniteSet(Edges(F \cup {n}))
  BY <1>2, EdgesFinite
<1>4. D \in SUBSET Dir /\ \A d \in D : NodeInDir(n, d) \in F /\ NodeInDir(n, d) # n
  BY DEF Taken
<1>5. f \in Bijection(D, new)
  <2>1. f \in [D -> new]
    OBVIOUS
  <2>2. \A d, e \in D : f[d] = f[e] => d = e
    <3> SUFFICES ASSUME NEW d \in D, NEW e \in D, f[d] = f[e] PROVE d = e
      OBVIOUS
    <3>1. NodeInDir(n, d) = NodeInDir(n, e)
      BY <1>4
    <3> QED
      BY <1>4, <3>1, NodeInDirInjective
  <2>3. \A x \in new : \E d \in D : f[d] = x
    OBVIOUS
  <2> HIDE DEF f, new, D
  <2> QED
    BY <2>1, <2>2, <2>3 DEF Bijection, Injection, Surjection, IsInjective
<1>6. IsFiniteSet(new) /\ Cardinality(new) = Cardinality(D)
  BY <1>4, <1>5, DirsFinite, FS_Bijection DEF ExistsBijection
<1>7. Edges(F \cup {n}) = Edges(F) \cup new
  <2>1. ASSUME NEW x \in Edges(F \cup {n}), x \notin Edges(F) PROVE x \in new
    <3>1. PICK a \in F \cup {n}, b \in F \cup {n} : Adjacent(a, b) /\ x = {a, b}
      BY <2>1 DEF Edges
    <3>2. ASSUME a \in F, b \in F PROVE FALSE
      <4>1. <<a, b>> \in {e \in F \X F : Adjacent(e[1], e[2])}
        BY <3>1, <3>2
      <4> QED
        BY <2>1, <3>1, <4>1 DEF Edges
    <3>3. ASSUME NEW u \in F \cup {n}, NEW v \in F \cup {n}, Adjacent(u, v), u = n, x = {u, v}
          PROVE  x \in new
      <4>1. PICK d \in Dir : v = NodeInDir(n, d)
        BY <3>3 DEF Adjacent, Nbrs
      <4>2. v # n
        BY <4>1, NodeInDirMoves
      <4>3. d \in D
        BY <3>3, <4>1, <4>2 DEF Taken
      <4> QED
        BY <3>3, <4>1, <4>3
    <3>4. Adjacent(b, a) /\ x = {b, a}
      BY <3>1, AdjacentSymmetric
    <3> QED
      BY <3>1, <3>2, <3>3, <3>4
  <2>2. ASSUME NEW d \in D PROVE {n, NodeInDir(n, d)} \in Edges(F \cup {n})
    <3>1. d \in Dir /\ NodeInDir(n, d) \in F
      BY DEF Taken
    <3>2. Adjacent(n, NodeInDir(n, d))
      BY <3>1 DEF Adjacent, Nbrs
    <3>3. <<n, NodeInDir(n, d)>> \in {e \in (F \cup {n}) \X (F \cup {n}) : Adjacent(e[1], e[2])}
      BY <3>1, <3>2
    <3> QED
      BY <3>3 DEF Edges
  <2>3. Edges(F) \subseteq Edges(F \cup {n})
    BY DEF Edges
  <2> QED
    BY <2>1, <2>2, <2>3
<1>8. Edges(F) \cap new = {}
  <2>1. \A x \in Edges(F) : n \notin x
    BY DEF Edges
  <2> QED
    BY <2>1
<1>9. Cardinality(Edges(F)) \in Nat /\ Cardinality(D) \in Nat
  BY <1>3, <1>4, DirsFinite, FS_CardinalityType
<1>10. Cardinality(Edges(F) \cup new)
        = Cardinality(Edges(F)) + Cardinality(new) - Cardinality(Edges(F) \cap new)
  BY <1>3, <1>6, FS_Union
<1>11. Cardinality(Edges(F) \cap new) = 0
  BY <1>8, FS_EmptySet
<1> HIDE DEF new, D
<1>12. Cardinality(Edges(F \cup {n}))
        = Cardinality(Edges(F)) + Cardinality(new) - Cardinality(Edges(F) \cap new)
  BY <1>7, <1>10
<1>13. Cardinality(Edges(F \cup {n})) = Cardinality(Edges(F)) + Cardinality(D)
  BY <1>6, <1>9, <1>11, <1>12
<1> QED
  BY <1>3, <1>9, <1>13 DEF D

\* The triangles at a node that is added: one for each two neighbours that
\* follow each other.
LEMMA TrianglesAdded ==
  ASSUME NEW F \in SUBSET Node, IsFiniteSet(F), NEW n \in Node, n \notin F
  PROVE  /\ IsFiniteSet(Triangles(F)) /\ Cardinality(Triangles(F)) \in Nat
         /\ Cardinality(Triangles(F \cup {n}))
              = Cardinality(Triangles(F)) + Cardinality(Linked(Taken(n, F)))
<1> DEFINE D == Taken(n, F)
           L == Linked(D)
           at(d) == NodeInDir(n, d)
           next(d) == (d + 1) % 6
           tri(d) == {n, at(d), at(next(d))}
           f == [d \in L |-> tri(d)]
           new == {tri(d) : d \in L}
<1>1. ASSUME NEW P \in SUBSET Node, IsFiniteSet(P)
      PROVE  IsFiniteSet(Triangles(P))
  <2>1. IsFiniteSet(SUBSET P)
    BY <1>1, FS_SUBSET
  <2>2. Triangles(P) \subseteq SUBSET P
    BY DEF Triangles
  <2> QED
    BY <2>1, <2>2, FS_Subset
<1>2. IsFiniteSet(F \cup {n}) /\ F \cup {n} \in SUBSET Node
  BY FS_AddElement
<1>3. IsFiniteSet(Triangles(F)) /\ IsFiniteSet(Triangles(F \cup {n}))
  BY <1>1, <1>2
<1>4. /\ L \in SUBSET Dir /\ D \in SUBSET Dir
      /\ \A d \in D : d \in Dir /\ at(d) \in F /\ at(d) # n
      /\ \A d \in L : d \in D /\ next(d) \in D
  BY DEF Taken, Linked
<1>5. \A d, e \in Dir : at(d) = at(e) => d = e
  BY NodeInDirInjective
<1>6. \A d \in Dir : next(d) \in Dir /\ next(d) # d /\ next(next(d)) # d
  BY DEF Dir
<1>7. f \in Bijection(L, new)
  <2>1. f \in [L -> new]
    OBVIOUS
  <2>2. \A d, e \in L : f[d] = f[e] => d = e
    <3> SUFFICES ASSUME NEW d \in L, NEW e \in L, tri(d) = tri(e) PROVE d = e
      OBVIOUS
    <3>1. d \in D /\ next(d) \in D /\ e \in D /\ next(e) \in D
      BY <1>4
    <3>2. at(d) \in {at(e), at(next(e))} /\ at(next(d)) \in {at(e), at(next(e))}
      <4> HIDE DEF at, next, D, L
      <4> QED
        BY <1>4, <3>1
    <3>3. d \in {e, next(e)} /\ next(d) \in {e, next(e)}
      <4> HIDE DEF at, next, D, L
      <4> QED
        BY <1>4, <1>5, <1>6, <3>1, <3>2
    <3> HIDE DEF at, next, D, L
    <3> QED
      BY <1>4, <1>6, <3>1, <3>3
  <2> HIDE DEF f, new, D
  <2>3. \A x \in new : \E d \in L : f[d] = x
    BY DEF f, new
  <2> QED
    BY <2>1, <2>2, <2>3 DEF Bijection, Injection, Surjection, IsInjective
<1>8. IsFiniteSet(new) /\ Cardinality(new) = Cardinality(L)
  <2>1. IsFiniteSet(L)
    BY <1>4, DirsFinite
  <2> HIDE DEF new, L, f
  <2> QED
    BY <1>7, <2>1, FS_Bijection DEF ExistsBijection
<1>9. ASSUME NEW d \in L PROVE tri(d) \in Triangles(F \cup {n})
  <2>1. d \in Dir /\ next(d) \in Dir /\ at(d) \in F /\ at(next(d)) \in F /\ next(d) # d
    BY <1>4, <1>6
  <2>2. n \in Node /\ at(d) \in Node /\ at(next(d)) \in Node
    BY <2>1
  <2>3. at(d) # n /\ at(next(d)) # n /\ at(d) # at(next(d))
    BY <1>5, <2>1
  <2>4. Adjacent(n, at(d)) /\ Adjacent(n, at(next(d))) /\ Adjacent(at(d), at(next(d)))
    BY <2>1, SuccessorsAdjacent DEF Adjacent, Nbrs
  <2>5. Adjacent(at(d), n) /\ Adjacent(at(next(d)), n) /\ Adjacent(at(next(d)), at(d))
    BY <2>2, <2>4, AdjacentSymmetric
  <2>6. Cardinality({n, at(d), at(next(d))}) = 3
    <3> HIDE DEF at, next
    <3>1. IsFiniteSet({n}) /\ Cardinality({n}) = 1
      BY FS_Singleton
    <3>2. IsFiniteSet({n} \cup {at(d)}) /\ Cardinality({n} \cup {at(d)}) = 2
      <4>1. at(d) \notin {n}
        BY <2>3
      <4>2. /\ IsFiniteSet({n} \cup {at(d)})
            /\ Cardinality({n} \cup {at(d)})
                 = IF at(d) \in {n} THEN Cardinality({n}) ELSE Cardinality({n}) + 1
        BY <3>1, FS_AddElement
      <4> QED
        BY <3>1, <4>1, <4>2
    <3>3. Cardinality(({n} \cup {at(d)}) \cup {at(next(d))}) = 3
      <4> DEFINE T == {n} \cup {at(d)}
      <4>1. at(next(d)) \notin T
        BY <2>3
      <4>2. Cardinality(T \cup {at(next(d))})
              = IF at(next(d)) \in T THEN Cardinality(T) ELSE Cardinality(T) + 1
        BY <3>2, FS_AddElement
      <4> QED
        BY <3>2, <4>1, <4>2
    <3>4. ({n} \cup {at(d)}) \cup {at(next(d))} = {n, at(d), at(next(d))}
      OBVIOUS
    <3> QED
      BY <3>3, <3>4
  <2> HIDE DEF at, next, L
  <2> QED
    BY <2>1, <2>3, <2>4, <2>5, <2>6 DEF Triangles
<1>10. ASSUME NEW t \in Triangles(F \cup {n}), n \in t
       PROVE  t \in new
  <2>1. /\ t \subseteq F \cup {n} /\ IsFiniteSet(t) /\ Cardinality(t) = 3
        /\ \A u, v \in t : u # v => Adjacent(u, v)
    BY <1>2, <1>10, FS_Subset DEF Triangles
  <2>2. IsFiniteSet(t \ {n}) /\ Cardinality(t \ {n}) = 2
    BY <1>10, <2>1, FS_RemoveElement
  <2>3. PICK a \in t \ {n} : TRUE
    BY <2>2, FS_EmptySet
  <2>4. Cardinality((t \ {n}) \ {a}) = 1 /\ IsFiniteSet((t \ {n}) \ {a})
    <3> DEFINE T == t \ {n}
    <3>1. a \in T /\ IsFiniteSet(T) /\ Cardinality(T) = 2
      BY <2>2, <2>3
    <3> HIDE DEF T
    <3>2. /\ IsFiniteSet(T \ {a})
          /\ Cardinality(T \ {a}) = IF a \in T THEN Cardinality(T) - 1 ELSE Cardinality(T)
      BY <3>1, FS_RemoveElement
    <3>3. IsFiniteSet(T \ {a}) /\ Cardinality(T \ {a}) = 1
      BY <3>1, <3>2
    <3> QED
      BY <3>3 DEF T
  <2>5. PICK b : (t \ {n}) \ {a} = {b}
    BY <2>4, FS_Singleton
  <2>6. t = {n, a, b} /\ a # n /\ b # n /\ a # b /\ a \in F /\ b \in F
    BY <1>10, <2>1, <2>3, <2>5
  <2>7. Adjacent(n, a) /\ Adjacent(n, b) /\ Adjacent(a, b)
    BY <2>1, <2>6
  <2>8. PICK d \in Dir, e \in Dir : a = at(d) /\ b = at(e)
    BY <2>7 DEF Adjacent, Nbrs
  <2>9. d \in D /\ e \in D
    BY <2>6, <2>8 DEF Taken
  <2>10. e = next(d) \/ d = next(e)
    BY <2>7, <2>8, NbrsAdjacent
  <2>11. ASSUME e = next(d) PROVE d \in L /\ t = tri(d)
    BY <2>6, <2>8, <2>9, <2>11 DEF Linked
  <2>12. ASSUME d = next(e) PROVE e \in L /\ t = tri(e)
    BY <2>6, <2>8, <2>9, <2>12 DEF Linked
  <2> QED
    BY <2>10, <2>11, <2>12
<1>11. Triangles(F \cup {n}) = Triangles(F) \cup new
  <2>1. Triangles(F) \subseteq Triangles(F \cup {n})
    BY DEF Triangles
  <2>2. ASSUME NEW t \in Triangles(F \cup {n}), n \notin t PROVE t \in Triangles(F)
    BY <2>2 DEF Triangles
  <2> HIDE DEF tri, L
  <2> QED
    BY <1>9, <1>10, <2>1, <2>2
<1>12. Triangles(F) \cap new = {}
  <2>1. \A t \in Triangles(F) : n \notin t
    BY DEF Triangles
  <2>2. \A t \in new : n \in t
    OBVIOUS
  <2> QED
    BY <2>1, <2>2
<1>13. Cardinality(Triangles(F)) \in Nat /\ Cardinality(L) \in Nat
  BY <1>3, <1>4, DirsFinite, FS_CardinalityType
<1>14. Cardinality(Triangles(F) \cup new)
        = Cardinality(Triangles(F)) + Cardinality(new) - Cardinality(Triangles(F) \cap new)
  BY <1>3, <1>8, FS_Union
<1>15. Cardinality(Triangles(F) \cap new) = 0
  BY <1>12, FS_EmptySet
<1> HIDE DEF new, L
<1>16. Cardinality(Triangles(F \cup {n}))
        = Cardinality(Triangles(F)) + Cardinality(new) - Cardinality(Triangles(F) \cap new)
  BY <1>11, <1>14
<1>17. Cardinality(Triangles(F \cup {n})) = Cardinality(Triangles(F)) + Cardinality(L)
  BY <1>8, <1>13, <1>15, <1>16
<1> QED
  BY <1>3, <1>13, <1>17 DEF L

\* What adding a node makes of Euler's number depends only on the runs of its
\* neighbours.
LEMMA EulerAdded ==
  ASSUME NEW F \in SUBSET Node, IsFiniteSet(F), NEW n \in Node, n \notin F
  PROVE  /\ IsFiniteSet(F \cup {n})
         /\ Euler(F) \in Int
         /\ Euler(F \cup {n}) = Euler(F) + 1 - Cardinality(EndsOf(Taken(n, F)))
<1> DEFINE D == Taken(n, F)
<1>1. D \in SUBSET Dir
  BY DEF Taken
<1>2. /\ Cardinality(D) \in Nat /\ Cardinality(Linked(D)) \in Nat
      /\ Cardinality(EndsOf(D)) = Cardinality(D) - Cardinality(Linked(D))
  BY <1>1, DirsFinite
<1>3. /\ Cardinality(Edges(F)) \in Nat
      /\ Cardinality(Edges(F \cup {n})) = Cardinality(Edges(F)) + Cardinality(D)
  BY EdgesAdded
<1>4. /\ Cardinality(Triangles(F)) \in Nat
      /\ Cardinality(Triangles(F \cup {n})) = Cardinality(Triangles(F)) + Cardinality(Linked(D))
  BY TrianglesAdded
<1>5. /\ IsFiniteSet(F \cup {n}) /\ Cardinality(F) \in Nat
      /\ Cardinality(F \cup {n}) = Cardinality(F) + 1
  BY FS_AddElement, FS_CardinalityType
<1> HIDE DEF D
<1>6. Euler(F \cup {n}) = Euler(F) + 1 - Cardinality(EndsOf(D)) /\ Euler(F) \in Int
  BY <1>2, <1>3, <1>4, <1>5 DEF Euler
<1> QED
  BY <1>5, <1>6 DEF D

\* Two things are two.
LEMMA PairCounts ==
  ASSUME NEW x, NEW y, x # y
  PROVE  IsFiniteSet({x, y}) /\ Cardinality({x, y}) = 2
<1>1. IsFiniteSet({x}) /\ Cardinality({x}) = 1 /\ y \notin {x}
  BY FS_Singleton
<1>2. /\ IsFiniteSet({x} \cup {y})
      /\ Cardinality({x} \cup {y}) = IF y \in {x} THEN Cardinality({x}) ELSE Cardinality({x}) + 1
  BY <1>1, FS_AddElement
<1>3. {x} \cup {y} = {x, y}
  OBVIOUS
<1> QED
  BY <1>1, <1>2, <1>3

\* A part of the free nodes that is shut off.
Shut(H, F) ==
  /\ H \in SUBSET (Node \ F) /\ IsFiniteSet(H) /\ H # {}
  /\ \A h \in H : Nbrs(h) \subseteq H \cup F

\* A hole is a finite part of the free nodes that is shut off.
LEMMA HoleIsShut ==
  ASSUME NEW F
  PROVE  NoHole(F) <=> \A H : ~ Shut(H, F)
  BY DEF NoHole, Shut

\* Neighbours are neighbours of each other.
LEMMA NbrsBothWays ==
  ASSUME NEW m \in Node, NEW n \in Node
  PROVE  /\ m \in Nbrs(n) <=> n \in Nbrs(m)
         /\ n \notin Nbrs(n)
<1>1. n \notin Nbrs(n)
  BY NodeInDirMoves DEF Nbrs
<1> QED
  BY <1>1, AdjacentSymmetric DEF Adjacent

\* A node that leaves and has a free node beside it opens no hole: the part that
\* is shut off then was so before.
LEMMA NoHoleRemoved ==
  ASSUME NEW F \in SUBSET Node, NEW n \in Node, n \notin F, NoHole(F \cup {n}),
         NEW e \in Dir, NodeInDir(n, e) \notin F
  PROVE  NoHole(F)
<1> SUFFICES ASSUME NEW H, Shut(H, F)
             PROVE  FALSE
  BY HoleIsShut
<1>1. /\ H \in SUBSET (Node \ F) /\ IsFiniteSet(H) /\ H # {}
      /\ \A h \in H : Nbrs(h) \subseteq H \cup F
  BY DEF Shut
<1>2. \A h \in H : n \in Nbrs(h) => h \in Nbrs(n)
  BY <1>1, NbrsBothWays
<1>3. CASE n \notin H
  <2>1. Shut(H, F \cup {n})
    BY <1>1, <1>3 DEF Shut
  <2> QED
    BY <2>1, HoleIsShut
<1>4. CASE n \in H
  <2>1. NodeInDir(n, e) \in H
    BY <1>1, <1>4 DEF Nbrs
  <2>2. NodeInDir(n, e) # n
    BY NodeInDirMoves
  <2>3. IsFiniteSet(H \ {n})
    BY <1>1, FS_RemoveElement
  <2>4. Shut(H \ {n}, F \cup {n})
    BY <1>1, <2>1, <2>2, <2>3 DEF Shut
  <2> QED
    BY <2>4, HoleIsShut
<1> QED
  BY <1>3, <1>4

\* Free directions of a node that no hole can tell apart: all of them lead into
\* a part that is shut off or none.
LEMMA FreeTogether ==
  ASSUME NEW F \in SUBSET Node, NEW m \in Node, NEW H, Shut(H, F \cup {m}),
         NEW C \in SUBSET (Dir \ Taken(m, F)), Unsplit(C)
  PROVE  \/ \A d \in C : NodeInDir(m, d) \in H
         \/ \A d \in C : NodeInDir(m, d) \notin H
<1> DEFINE X == Taken(m, H)
<1>1. /\ H \in SUBSET (Node \ (F \cup {m}))
      /\ \A h \in H : Nbrs(h) \subseteq H \cup F \cup {m}
  BY DEF Shut
<1>2. C \in SUBSET Dir /\ \A d \in C : NodeInDir(m, d) \in Node \ F /\ NodeInDir(m, d) # m
  BY NodeInDirType, NodeInDirMoves DEF Taken
<1>3. ASSUME NEW d \in C, (d + 1) % 6 \in C
      PROVE  d \in X <=> (d + 1) % 6 \in X
  <2> DEFINE a == NodeInDir(m, d)
             b == NodeInDir(m, (d + 1) % 6)
  <2>1. a \in Node /\ b \in Node /\ b \in Nbrs(a)
    BY <1>2, <1>3, SuccessorsAdjacent DEF Adjacent
  <2>2. a \in Nbrs(b)
    BY <2>1, NbrsBothWays
  <2>3. a \notin F \cup {m} /\ b \notin F \cup {m}
    BY <1>2, <1>3
  <2>4. a \in H <=> b \in H
    BY <1>1, <2>1, <2>2, <2>3
  <2> QED
    BY <1>2, <1>3, <2>4 DEF Taken
<1>4. C \subseteq X \/ C \cap X = {}
  BY <1>3 DEF Unsplit, Taken
<1> QED
  BY <1>2, <1>4 DEF Taken

\* A node that joins between free nodes in one run closes no hole.
LEMMA NoHoleAdded ==
  ASSUME NEW F \in SUBSET Node, NEW m \in Node, m \notin F, NoHole(F),
         Unsplit(Dir \ Taken(m, F))
  PROVE  NoHole(F \cup {m})
<1> SUFFICES ASSUME NEW H, Shut(H, F \cup {m})
             PROVE  FALSE
  BY HoleIsShut
<1> DEFINE C == Dir \ Taken(m, F)
<1>1. /\ H \in SUBSET (Node \ (F \cup {m})) /\ IsFiniteSet(H) /\ H # {}
      /\ \A h \in H : Nbrs(h) \subseteq H \cup F \cup {m}
  BY DEF Shut
<1>2. \A h \in H : m \in Nbrs(h) => \E d \in C : NodeInDir(m, d) = h
  <2> SUFFICES ASSUME NEW h \in H, m \in Nbrs(h)
               PROVE  \E d \in C : NodeInDir(m, d) = h
    OBVIOUS
  <2>1. PICK d \in Dir : h = NodeInDir(m, d)
    BY <1>1, NbrsBothWays DEF Nbrs
  <2>2. d \in C
    BY <1>1, <2>1 DEF Taken
  <2> QED
    BY <2>1, <2>2
<1>3. CASE \A d \in C : NodeInDir(m, d) \in H
  <2>1. Nbrs(m) \subseteq H \cup F
    BY <1>3 DEF Nbrs, Taken
  <2>2. IsFiniteSet(H \cup {m})
    BY <1>1, FS_AddElement
  <2>3. Shut(H \cup {m}, F)
    BY <1>1, <2>1, <2>2 DEF Shut
  <2> QED
    BY <2>3, HoleIsShut
<1>4. CASE \A d \in C : NodeInDir(m, d) \notin H
  <2>1. \A h \in H : m \notin Nbrs(h)
    BY <1>2, <1>4
  <2>2. Shut(H, F)
    BY <1>1, <2>1 DEF Shut
  <2> QED
    BY <2>2, HoleIsShut
<1> QED
  BY <1>3, <1>4, FreeTogether

\* A jump from n to the adjacent m, past a neighbour on either side of both:
\* apart from n the free nodes round m are one run, and n had a free one beside
\* it, which m is not.
LEMMA NoHoleJumped ==
  ASSUME NEW F \in SUBSET Node, NEW n \in Node, NEW m \in Node, n \notin F, m \notin F, n # m,
         NoHole(F \cup {n}),
         NEW f \in Dir, n = NodeInDir(m, f),
         Unsplit((Dir \ Taken(m, F)) \ {f}),
         NEW e \in Dir, NodeInDir(n, e) \notin F, NodeInDir(n, e) # m
  PROVE  NoHole(F \cup {m})
<1> SUFFICES ASSUME NEW H, Shut(H, F \cup {m})
             PROVE  FALSE
  BY HoleIsShut
<1> DEFINE C == (Dir \ Taken(m, F)) \ {f}
<1>1. /\ H \in SUBSET (Node \ (F \cup {m})) /\ IsFiniteSet(H) /\ H # {}
      /\ \A h \in H : Nbrs(h) \subseteq H \cup F \cup {m}
  BY DEF Shut
<1>2. \A h \in H \ {n} : m \in Nbrs(h) => \E d \in C : NodeInDir(m, d) = h
  <2> SUFFICES ASSUME NEW h \in H \ {n}, m \in Nbrs(h)
               PROVE  \E d \in C : NodeInDir(m, d) = h
    OBVIOUS
  <2>1. PICK d \in Dir : h = NodeInDir(m, d)
    BY <1>1, NbrsBothWays DEF Nbrs
  <2>2. d \in C
    BY <1>1, <2>1 DEF Taken
  <2> QED
    BY <2>1, <2>2
<1>3. n \in H => NodeInDir(n, e) \in H \ {n}
  BY <1>1, NodeInDirMoves DEF Nbrs
<1>4. IsFiniteSet(H \ {n}) /\ IsFiniteSet((H \ {n}) \cup {m})
  BY <1>1, FS_RemoveElement, FS_AddElement
<1>5. \A h \in H : n \in Nbrs(h) => h \in Nbrs(n)
  BY <1>1, NbrsBothWays
<1>6. CASE \A d \in C : NodeInDir(m, d) \in H
  <2>1. Nbrs(m) \subseteq (H \ {n}) \cup F \cup {n}
    BY <1>6 DEF Nbrs, Taken
  <2>2. Shut((H \ {n}) \cup {m}, F \cup {n})
    BY <1>1, <1>4, <2>1 DEF Shut
  <2> QED
    BY <2>2, HoleIsShut
<1>7. CASE \A d \in C : NodeInDir(m, d) \notin H
  <2>1. \A h \in H \ {n} : m \notin Nbrs(h)
    BY <1>2, <1>7
  <2>2. H \ {n} # {}
    BY <1>1, <1>3
  <2>3. Shut(H \ {n}, F \cup {n})
    BY <1>1, <1>4, <2>1, <2>2 DEF Shut
  <2> QED
    BY <2>3, HoleIsShut
<1> QED
  BY <1>6, <1>7, FreeTogether

\* As many runs begin as end: a single run leaves a single one free.
LEMMA OneRunLeavesOne ==
  ASSUME NEW D \in SUBSET Dir, Cardinality(EndsOf(D)) = 1
  PROVE  Unsplit(Dir \ D) /\ \E d \in D : EndsOf(D) = {d}
<1>1. PICK c : EndsOf(D) = {c}
  BY DirsFinite, FS_Singleton
<1>2. \A d \in D : (d + 1) % 6 \notin D => d = c
  BY <1>1 DEF EndsOf
<1>3. ASSUME NEW d \in Dir \ D, NEW e \in Dir \ D,
             (d + 1) % 6 \notin Dir \ D, (e + 1) % 6 \notin Dir \ D
      PROVE  d = e
  <2> DEFINE s(k) == (k + 1) % 6
  <2>1. s(0) = 1 /\ s(1) = 2 /\ s(2) = 3 /\ s(3) = 4 /\ s(4) = 5 /\ s(5) = 0
    OBVIOUS
  <2>2. /\ d = 0 \/ d = 1 \/ d = 2 \/ d = 3 \/ d = 4 \/ d = 5
        /\ e = 0 \/ e = 1 \/ e = 2 \/ e = 3 \/ e = 4 \/ e = 5
    BY DEF Dir
  <2>3. s(d) \in D /\ s(e) \in D /\ d \notin D /\ e \notin D
    BY <1>3 DEF Dir
  <2>4. \A k \in D : s(k) \notin D => k = c
    BY <1>2
  <2> HIDE DEF s
  <2> QED
    BY <2>1, <2>2, <2>3, <2>4
<1>4. Unsplit(Dir \ D)
  BY <1>3, OneEndUnsplit
<1>5. c \in D
  BY <1>1 DEF EndsOf
<1> QED
  BY <1>1, <1>4, <1>5

\* A finite set of nodes has one farthest to the east.
LEMMA Easternmost ==
  ASSUME NEW H \in SUBSET Node, IsFiniteSet(H), H # {}
  PROVE  \E h \in H : \A g \in H : g[1] <= h[1]
<1> DEFINE past(h) == {g \in H : g[1] > h[1]}
           T == {Cardinality(past(h)) : h \in H}
<1>1. \A h \in H : IsFiniteSet(past(h)) /\ Cardinality(past(h)) \in Nat
  BY FS_Subset, FS_CardinalityType
<1>2. T \in SUBSET Nat /\ T # {}
  BY <1>1
<1>3. PICK x \in T : \A y \in T : x <= y
  BY <1>2, NatLeast
<1>4. PICK h \in H : x = Cardinality(past(h))
  BY <1>3
<1>5. ASSUME NEW g \in H, g[1] > h[1] PROVE FALSE
  <2>1. g[1] \in Int /\ h[1] \in Int /\ \A k \in H : k[1] \in Int
    BY DEF Node
  <2>2. past(g) \in SUBSET past(h) /\ g \in past(h) /\ g \notin past(g)
    BY <1>5, <2>1
  <2>3. Cardinality(past(g)) \in T
    OBVIOUS
  <2> HIDE DEF past, T
  <2>4. /\ Cardinality(past(g)) <= Cardinality(past(h))
        /\ Cardinality(past(g)) = Cardinality(past(h)) => past(g) = past(h)
    BY <1>1, <2>2, FS_Subset
  <2>5. Cardinality(past(h)) <= Cardinality(past(g))
    BY <1>3, <1>4, <2>3
  <2>6. Cardinality(past(g)) \in Nat /\ Cardinality(past(h)) \in Nat
    BY <1>1
  <2> QED
    BY <2>2, <2>4, <2>5, <2>6
<1>6. \A g \in H : g[1] \in Int /\ h[1] \in Int
  BY DEF Node
<1> QED
  BY <1>5, <1>6

\* No figure at all has no hole, and its number is zero.
LEMMA NothingSolid == NoHole({}) /\ Euler({}) = 0 /\ IsFiniteSet({})
<1>1. NoHole({})
  <2> SUFFICES ASSUME NEW H, Shut(H, {}) PROVE FALSE
    BY HoleIsShut
  <2>1. /\ H \in SUBSET Node /\ IsFiniteSet(H) /\ H # {}
        /\ \A h \in H : Nbrs(h) \subseteq H
    BY DEF Shut
  <2>2. PICK h \in H : \A g \in H : g[1] <= h[1]
    BY <2>1, Easternmost
  <2>3. NodeInDir(h, 0) \in H /\ NodeInDir(h, 0)[1] = h[1] + 1 /\ h[1] \in Int
    BY <2>1 DEF Nbrs, NodeInDir, Node, Dir, xOffset
  <2>4. h[1] + 1 <= h[1]
    BY <2>2, <2>3
  <2> QED
    BY <2>3, <2>4
<1>2. Cardinality({}) = 0 /\ IsFiniteSet({})
  BY FS_EmptySet
<1>3. Edges({}) = {}
  BY DEF Edges
<1>4. Triangles({}) = {}
  <2>1. ASSUME NEW t \in Triangles({}) PROVE FALSE
    <3>1. t = {} /\ Cardinality(t) = 3
      BY DEF Triangles
    <3> QED
      BY <1>2, <3>1
  <2> QED
    BY <2>1
<1> QED
  BY <1>1, <1>2, <1>3, <1>4 DEF Euler

\* A figure grows solid by nodes whose neighbours make one run.
LEMMA GrownSolid ==
  ASSUME NEW F \in SUBSET Node, Solid(F), NEW n \in Node, n \notin F,
         Cardinality(EndsOf(Taken(n, F))) = 1
  PROVE  Solid(F \cup {n})
<1>1. Taken(n, F) \in SUBSET Dir
  BY DEF Taken
<1>2. Euler(F \cup {n}) = 1 /\ IsFiniteSet(F \cup {n})
  BY EulerAdded DEF Solid
<1>3. NoHole(F \cup {n})
  BY <1>1, OneRunLeavesOne, NoHoleAdded DEF Solid
<1> QED
  BY <1>2, <1>3 DEF Solid

\* A single node is solid.
LEMMA OneSolid ==
  ASSUME NEW n \in Node
  PROVE  Solid({n})
<1>1. Taken(n, {}) = {} /\ EndsOf({}) = {} /\ {} \cup {n} = {n}
  BY DEF Taken, EndsOf
<1>2. Cardinality({}) = 0
  BY FS_EmptySet
<1>3. Euler({n}) = 1 /\ IsFiniteSet({n})
  <2>1. Euler({} \cup {n}) = Euler({}) + 1 - Cardinality(EndsOf(Taken(n, {})))
    BY NothingSolid, EulerAdded
  <2>2. IsFiniteSet({n})
    BY FS_Singleton
  <2> QED
    BY <1>1, <1>2, <2>1, <2>2, NothingSolid
<1>4. NoHole({n})
  <2>1. Unsplit(Dir \ Taken(n, {}))
    <3>1. Dir \ Taken(n, {}) = Dir
      BY <1>1
    <3>2. \A d \in Dir : (d + 1) % 6 \in Dir
      BY DEF Dir
    <3> QED
      BY <3>1, <3>2, OneEndUnsplit
  <2>2. NoHole({} \cup {n})
    BY <2>1, NothingSolid, NoHoleAdded
  <2> QED
    BY <1>1, <2>2
<1> QED
  BY <1>3, <1>4 DEF Solid

-----------------------------------------------------------------------------
(* Jumps keep the figure solid                                             *)

\* Directions that do not all lead to neighbours and cannot be split are a run,
\* which has one end.
LEMMA UnsplitOneRun ==
  ASSUME NEW D \in SUBSET Dir, Unsplit(D), D # {}, D # Dir
  PROVE  Cardinality(EndsOf(D)) = 1
<1> DEFINE s(d) == (d + 1) % 6
<1>1. s(0) = 1 /\ s(1) = 2 /\ s(2) = 3 /\ s(3) = 4 /\ s(4) = 5 /\ s(5) = 0
  OBVIOUS
<1>2. \A d \in Dir : d = 0 \/ d = 1 \/ d = 2 \/ d = 3 \/ d = 4 \/ d = 5
  BY DEF Dir
<1>3. EndsOf(D) = {d \in D : s(d) \notin D}
  BY DEF EndsOf
<1>4. \A X \in SUBSET Dir :
        (\A d \in D : s(d) \in D => (d \in X <=> s(d) \in X)) => D \subseteq X \/ D \cap X = {}
  BY DEF Unsplit
<1>5. \E d \in D : s(d) \notin D
  <2>1. SUFFICES ASSUME \A d \in D : s(d) \in D PROVE FALSE
    OBVIOUS
  <2>2. 0 \in D /\ 1 \in D /\ 2 \in D /\ 3 \in D /\ 4 \in D /\ 5 \in D
    <3>1. PICK d \in D : TRUE
      OBVIOUS
    <3>2. d = 0 \/ d = 1 \/ d = 2 \/ d = 3 \/ d = 4 \/ d = 5
      BY <1>2
    <3> HIDE DEF s
    <3> QED
      BY <1>1, <2>1, <3>1, <3>2
  <2> QED
    BY <1>2, <2>2
<1>6. ASSUME NEW d \in D, NEW e \in D, s(d) \notin D, s(e) \notin D
      PROVE  d = e
  <2> DEFINE run(k) == {(d - i + 6) % 6 : i \in 0 .. k}
             p(k)   == (d - k + 6) % 6
  <2>1. d \in 0..5
    BY DEF Dir
  <2>2. /\ p(0) = d /\ s(p(1)) = d /\ s(p(2)) = p(1) /\ s(p(3)) = p(2)
        /\ s(p(4)) = p(3) /\ s(p(5)) = p(4) /\ s(d) = p(5)
        /\ \A k \in 0..5 : p(k) \in Dir
        /\ \A c \in Dir : \E k \in 0..5 : c = p(k)
    BY <2>1 DEF Dir
  <2> DEFINE b1 == p(1) \in D
             b2 == b1 /\ p(2) \in D
             b3 == b2 /\ p(3) \in D
             b4 == b3 /\ p(4) \in D
             X == {x \in Dir : \/ x = p(0)
                               \/ b1 /\ x = p(1)
                               \/ b2 /\ x = p(2)
                               \/ b3 /\ x = p(3)
                               \/ b4 /\ x = p(4)}
  <2>3. \A i, j \in 0..5 : p(i) = p(j) => i = j
    BY <2>1
  <2>4. p(0) \in Dir /\ p(1) \in Dir /\ p(2) \in Dir /\ p(3) \in Dir /\ p(4) \in Dir /\ p(5) \in Dir
    BY <2>2
  <2>5. /\ p(0) # p(1) /\ p(0) # p(2) /\ p(0) # p(3) /\ p(0) # p(4) /\ p(0) # p(5)
        /\ p(1) # p(2) /\ p(1) # p(3) /\ p(1) # p(4) /\ p(1) # p(5)
        /\ p(2) # p(3) /\ p(2) # p(4) /\ p(2) # p(5) /\ p(3) # p(4) /\ p(3) # p(5) /\ p(4) # p(5)
    BY <2>1
  <2>6. \A c \in D : c = p(0) \/ c = p(1) \/ c = p(2) \/ c = p(3) \/ c = p(4) \/ c = p(5)
    BY <2>1 DEF Dir
  <2> HIDE DEF p, s
  <2>7. p(5) \notin D
    BY <1>6, <2>2
  <2>8. \A c \in D : s(c) \in D => (c \in X <=> s(c) \in X)
    BY <1>6, <2>2, <2>4, <2>5, <2>6, <2>7
  <2>9. D \subseteq X
    <3>1. d \in D \cap X
      BY <2>2, <2>4
    <3>2. X \in SUBSET Dir
      OBVIOUS
    <3> HIDE DEF X
    <3> QED
      BY <1>4, <2>8, <3>1, <3>2
  <2> QED
    BY <1>6, <2>2, <2>5, <2>9
<1>7. PICK d \in D : s(d) \notin D
  BY <1>5
<1> HIDE DEF s
<1>8. EndsOf(D) = {d}
  BY <1>3, <1>6, <1>7
<1> QED
  BY <1>8, FS_Singleton

\* Neighbours of a node that hang together are one run.
LEMMA ConnectedUnsplit ==
  ASSUME NEW n \in Node, NEW D \in SUBSET Dir, Connected({NodeInDir(n, d) : d \in D})
  PROVE  Unsplit(D)
<1> DEFINE near == {NodeInDir(n, d) : d \in D}
<1> SUFFICES ASSUME NEW X \in SUBSET Dir,
                    \A d \in D : (d + 1) % 6 \in D => (d \in X <=> (d + 1) % 6 \in X),
                    ~ (D \subseteq X), D \cap X # {}
             PROVE  FALSE
  BY DEF Unsplit
<1> DEFINE T == {NodeInDir(n, d) : d \in D \cap X}
<1>1. T \in SUBSET near /\ T # {}
  OBVIOUS
<1>2. T # near
  <2>1. PICK d \in D : d \notin X
    OBVIOUS
  <2>2. NodeInDir(n, d) \in near
    OBVIOUS
  <2>3. NodeInDir(n, d) \notin T
    BY <2>1, NodeInDirInjective
  <2> QED
    BY <2>2, <2>3
<1> HIDE DEF T, near
<1>3. PICK a \in T, b \in near \ T : Adjacent(a, b)
  BY <1>1, <1>2 DEF Connected, near
<1>4. PICK d \in D \cap X : a = NodeInDir(n, d)
  BY DEF T
<1>5. PICK e \in D : b = NodeInDir(n, e)
  BY DEF near
<1>6. e \notin X
  BY <1>5, <1>3 DEF T
<1>7. e = (d + 1) % 6 \/ d = (e + 1) % 6
  BY <1>3, <1>4, <1>5, NbrsAdjacent
<1> QED
  BY <1>4, <1>6, <1>7

\* Two steps that come together, where the first ones lead apart: both go back
\* towards their start.
LEMMA StepsApart ==
  ASSUME NEW n \in Node, NEW d \in Dir, NEW e \in Dir, NEW w \in Dir, NEW c \in Dir,
         NodeInDir(NodeInDir(n, d), w) = NodeInDir(NodeInDir(n, e), c),
         d \notin {e, (e + 1) % 6, (e + 5) % 6}
  PROVE  c \in {(e + 2) % 6, (e + 3) % 6, (e + 4) % 6}
<1>1. n[1] \in Int /\ n[2] \in Int
  BY DEF Node
<1>2. \A k \in Dir : xOffset[k + 1] \in Int /\ yOffset[k + 1] \in Int
  BY DEF Dir, xOffset, yOffset
<1>3. /\ n[1] + xOffset[d + 1] + xOffset[w + 1] = n[1] + xOffset[e + 1] + xOffset[c + 1]
      /\ n[2] + yOffset[d + 1] + yOffset[w + 1] = n[2] + yOffset[e + 1] + yOffset[c + 1]
  BY DEF NodeInDir
<1>4. /\ xOffset[d + 1] + xOffset[w + 1] = xOffset[e + 1] + xOffset[c + 1]
      /\ yOffset[d + 1] + yOffset[w + 1] = yOffset[e + 1] + yOffset[c + 1]
  <2> DEFINE dx == xOffset[d + 1]
             wx == xOffset[w + 1]
             ex == xOffset[e + 1]
             cx == xOffset[c + 1]
             dy == yOffset[d + 1]
             wy == yOffset[w + 1]
             ey == yOffset[e + 1]
             cy == yOffset[c + 1]
  <2>1. /\ dx \in Int /\ wx \in Int /\ ex \in Int /\ cx \in Int
        /\ dy \in Int /\ wy \in Int /\ ey \in Int /\ cy \in Int
    BY <1>2
  <2>2. n[1] + dx + wx = n[1] + ex + cx /\ n[2] + dy + wy = n[2] + ey + cy
    BY <1>3
  <2> HIDE DEF dx, wx, ex, cx, dy, wy, ey, cy
  <2>3. dx + wx = ex + cx /\ dy + wy = ey + cy
    BY <1>1, <2>1, <2>2
  <2> QED
    BY <2>3 DEF dx, wx, ex, cx, dy, wy, ey, cy
<1> QED
  BY <1>4 DEF Dir, xOffset, yOffset

\* The particles around n and m each hang together with one next to both.
Gathered(n, m, F) ==
  LET A == NbrsOfSet({n, m}) \cap F
  IN  \A T \in SUBSET (A \ (Nbrs(n) \cap Nbrs(m))) :
        T # {} => \E a \in T, b \in A \ T : Adjacent(a, b)

\* On either side of such a pair no run of neighbours misses those next to both.
LEMMA SideGathered ==
  ASSUME NEW n \in Node, NEW e \in Dir, NEW m, m = NodeInDir(n, e),
         NEW F \in SUBSET Node, n \notin F, m \notin F, Gathered(n, m, F),
         NEW X \in SUBSET Dir, (e + 1) % 6 \notin X, (e + 5) % 6 \notin X,
         \A d \in Taken(n, F) : (d + 1) % 6 \in Taken(n, F) => (d \in X <=> (d + 1) % 6 \in X)
  PROVE  X \cap Taken(n, F) = {}
<1> DEFINE D == Taken(n, F)
           A == NbrsOfSet({n, m}) \cap F
           T == {NodeInDir(n, d) : d \in X \cap D}
<1>1. D \in SUBSET Dir /\ \A d \in D : NodeInDir(n, d) \in F
  BY DEF Taken
<1>2. m \in Node /\ n \in Node
  BY NodeInDirType
<1>3. ASSUME NEW d \in X \cap D
      PROVE  /\ d \notin {e, (e + 1) % 6, (e + 5) % 6}
             /\ NodeInDir(n, d) \in A \ (Nbrs(n) \cap Nbrs(m))
  <2>1. d \in Dir /\ d \notin {e, (e + 1) % 6, (e + 5) % 6} /\ NodeInDir(n, d) \in F
    BY <1>1
  <2>2. NodeInDir(n, d) \in A
    BY <2>1 DEF NbrsOfSet, Nbrs
  <2>3. NodeInDir(n, d) \notin Nbrs(m)
    <3>1. SUFFICES ASSUME NEW c \in Dir, NodeInDir(n, d) = NodeInDir(m, c) PROVE FALSE
      BY DEF Nbrs
    <3>2. d = (e + 1) % 6 \/ d = (e + 5) % 6
      BY <2>1, <3>1, StepsMeet
    <3> QED
      BY <2>1, <3>2
  <2> QED
    BY <2>1, <2>2, <2>3
<1> SUFFICES ASSUME X \cap D # {} PROVE FALSE
  OBVIOUS
<1>4. T \in SUBSET (A \ (Nbrs(n) \cap Nbrs(m))) /\ T # {}
  <2> HIDE DEF D, A
  <2>1. \A d \in X \cap D : NodeInDir(n, d) \in A \ (Nbrs(n) \cap Nbrs(m))
    BY <1>3
  <2> QED
    BY <2>1
<1> HIDE DEF T
<1>5. PICK a \in T, b \in A \ T : Adjacent(a, b)
  BY <1>4 DEF Gathered
<1>6. PICK d \in X \cap D : a = NodeInDir(n, d)
  BY DEF T
<1>7. PICK w \in Dir : b = NodeInDir(a, w)
  BY <1>5 DEF Adjacent, Nbrs
<1>8. b \in F /\ b # n /\ b # m /\ (b \in Nbrs(n) \/ b \in Nbrs(m))
  BY <1>5 DEF NbrsOfSet
<1>9. b \notin Nbrs(n)
  <2>1. SUFFICES ASSUME NEW g \in Dir, b = NodeInDir(n, g) PROVE FALSE
    BY DEF Nbrs
  <2>2. g \in D
    BY <1>8, <2>1 DEF Taken
  <2>3. g = (d + 1) % 6 \/ d = (g + 1) % 6
    BY <1>1, <1>5, <1>6, <2>1, NbrsAdjacent
  <2>4. g \in X
    BY <1>6, <2>2, <2>3
  <2>5. b \in T
    BY <2>1, <2>2, <2>4 DEF T
  <2> QED
    BY <1>5, <2>5
<1>10. PICK c \in Dir : b = NodeInDir(m, c)
  BY <1>8, <1>9 DEF Nbrs
<1>11. c \in {(e + 2) % 6, (e + 3) % 6, (e + 4) % 6}
  <2>1. NodeInDir(NodeInDir(n, d), w) = NodeInDir(NodeInDir(n, e), c)
    BY <1>6, <1>7, <1>10
  <2>2. d \in Dir /\ d \notin {e, (e + 1) % 6, (e + 5) % 6}
    BY <1>1, <1>3
  <2> QED
    BY <2>1, <2>2, StepsApart
<1>12. c = Opposite(e) => b = n
  BY <1>10, NodeInDirBack
<1>13. c \in {(e + 2) % 6, (e + 4) % 6}
  BY <1>8, <1>11, <1>12 DEF Opposite
<1>14. PICK g \in Dir : b = NodeInDir(n, g)
  <2>1. CASE c = (e + 2) % 6
    BY <1>10, <2>1, StepsMeet DEF Dir
  <2>2. CASE c = (e + 4) % 6
    BY <1>10, <2>2, StepsMeet DEF Dir
  <2> QED
    BY <1>13, <2>1, <2>2
<1> QED
  BY <1>9, <1>14 DEF Nbrs

\* Runs of neighbours that all reach one of the directions beside e: one run if
\* only one of these is taken; if both are, the neighbours are five or make two
\* runs with one gap between them besides e.
LEMMA GatheredRuns ==
  ASSUME NEW D \in SUBSET Dir, NEW e \in Dir, e \notin D,
         \A X \in SUBSET Dir :
           /\ (e + 1) % 6 \notin X /\ (e + 5) % 6 \notin X
           /\ \A d \in D : (d + 1) % 6 \in D => (d \in X <=> (d + 1) % 6 \in X)
           => X \cap D = {}
  PROVE  /\ ~ ((e + 1) % 6 \in D <=> (e + 5) % 6 \in D) => Cardinality(EndsOf(D)) = 1
         /\ (e + 1) % 6 \in D /\ (e + 5) % 6 \in D /\ D # Dir \ {e}
              => /\ Cardinality(EndsOf(D)) = 2
                 /\ Unsplit((Dir \ D) \ {e})
<1> DEFINE q(k) == (e + k) % 6
           s(d) == (d + 1) % 6
<1>1. e \in 0..5
  BY DEF Dir
<1>2. /\ q(0) = e /\ s(e) = q(1) /\ s(q(1)) = q(2) /\ s(q(2)) = q(3) /\ s(q(3)) = q(4)
      /\ s(q(4)) = q(5) /\ s(q(5)) = e
      /\ q(1) \in Dir /\ q(2) \in Dir /\ q(3) \in Dir /\ q(4) \in Dir /\ q(5) \in Dir
  BY <1>1 DEF Dir
<1>3. /\ e # q(1) /\ e # q(2) /\ e # q(3) /\ e # q(4) /\ e # q(5)
      /\ q(1) # q(2) /\ q(1) # q(3) /\ q(1) # q(4) /\ q(1) # q(5)
      /\ q(2) # q(3) /\ q(2) # q(4) /\ q(2) # q(5)
      /\ q(3) # q(4) /\ q(3) # q(5) /\ q(4) # q(5)
  BY <1>1
<1>4. \A d \in Dir : d = e \/ d = q(1) \/ d = q(2) \/ d = q(3) \/ d = q(4) \/ d = q(5)
  BY <1>1 DEF Dir
<1>5. \A X \in SUBSET Dir :
        /\ q(1) \notin X /\ q(5) \notin X
        /\ \A d \in D : s(d) \in D => (d \in X <=> s(d) \in X)
        => X \cap D = {}
  OBVIOUS
<1>6. EndsOf(D) = {d \in D : s(d) \notin D}
  BY DEF EndsOf
<1>7. \A C \in SUBSET Dir :
        (\A c, d \in C : s(c) \notin C /\ s(d) \notin C => c = d) => Unsplit(C)
  BY OneEndUnsplit
<1> HIDE DEF q, s
<1>8. \A d \in D : d = q(1) \/ d = q(2) \/ d = q(3) \/ d = q(4) \/ d = q(5)
  BY <1>4
<1>9. /\ q(2) \in D => q(1) \in D \/ q(3) \in D
      /\ q(3) \in D => q(2) \in D \/ q(4) \in D
      /\ q(4) \in D => q(3) \in D \/ q(5) \in D
      /\ q(2) \in D /\ q(3) \in D => q(1) \in D \/ q(4) \in D
      /\ q(3) \in D /\ q(4) \in D => q(2) \in D \/ q(5) \in D
  <2>1. ASSUME q(2) \in D, q(1) \notin D, q(3) \notin D PROVE FALSE
    <3> DEFINE X == {q(2)}
    <3>1. /\ X \in SUBSET Dir /\ q(1) \notin X /\ q(5) \notin X
          /\ \A d \in D : s(d) \in D => (d \in X <=> s(d) \in X)
      BY <1>2, <1>3, <1>8, <2>1
    <3> HIDE DEF X
    <3>2. X \cap D = {}
      BY <1>5, <3>1
    <3> QED
      BY <2>1, <3>2 DEF X
  <2>2. ASSUME q(3) \in D, q(2) \notin D, q(4) \notin D PROVE FALSE
    <3> DEFINE X == {q(3)}
    <3>1. /\ X \in SUBSET Dir /\ q(1) \notin X /\ q(5) \notin X
          /\ \A d \in D : s(d) \in D => (d \in X <=> s(d) \in X)
      BY <1>2, <1>3, <1>8, <2>2
    <3> HIDE DEF X
    <3>2. X \cap D = {}
      BY <1>5, <3>1
    <3> QED
      BY <2>2, <3>2 DEF X
  <2>3. ASSUME q(4) \in D, q(3) \notin D, q(5) \notin D PROVE FALSE
    <3> DEFINE X == {q(4)}
    <3>1. /\ X \in SUBSET Dir /\ q(1) \notin X /\ q(5) \notin X
          /\ \A d \in D : s(d) \in D => (d \in X <=> s(d) \in X)
      BY <1>2, <1>3, <1>8, <2>3
    <3> HIDE DEF X
    <3>2. X \cap D = {}
      BY <1>5, <3>1
    <3> QED
      BY <2>3, <3>2 DEF X
  <2>4. ASSUME q(2) \in D, q(3) \in D, q(1) \notin D, q(4) \notin D PROVE FALSE
    <3> DEFINE X == {q(2), q(3)}
    <3>1. /\ X \in SUBSET Dir /\ q(1) \notin X /\ q(5) \notin X
          /\ \A d \in D : s(d) \in D => (d \in X <=> s(d) \in X)
      BY <1>2, <1>3, <1>8, <2>4
    <3> HIDE DEF X
    <3>2. X \cap D = {}
      BY <1>5, <3>1
    <3> QED
      BY <2>4, <3>2 DEF X
  <2>5. ASSUME q(3) \in D, q(4) \in D, q(2) \notin D, q(5) \notin D PROVE FALSE
    <3> DEFINE X == {q(3), q(4)}
    <3>1. /\ X \in SUBSET Dir /\ q(1) \notin X /\ q(5) \notin X
          /\ \A d \in D : s(d) \in D => (d \in X <=> s(d) \in X)
      BY <1>2, <1>3, <1>8, <2>5
    <3> HIDE DEF X
    <3>2. X \cap D = {}
      BY <1>5, <3>1
    <3> QED
      BY <2>5, <3>2 DEF X
  <2> QED
    BY <2>1, <2>2, <2>3, <2>4, <2>5
<1>10. ASSUME ~ (q(1) \in D <=> q(5) \in D)
       PROVE  Cardinality(EndsOf(D)) = 1
  <2>1. ASSUME q(1) \in D, q(5) \notin D
        PROVE  \E x : EndsOf(D) = {x}
    <3>1. CASE q(2) \notin D
      <4>1. EndsOf(D) = {q(1)}
        BY <1>2, <1>3, <1>6, <1>8, <1>9, <2>1, <3>1
      <4> QED
        BY <4>1
    <3>2. CASE q(2) \in D /\ q(3) \notin D
      <4>1. EndsOf(D) = {q(2)}
        BY <1>2, <1>3, <1>6, <1>8, <1>9, <2>1, <3>2
      <4> QED
        BY <4>1
    <3>3. CASE q(2) \in D /\ q(3) \in D /\ q(4) \notin D
      <4>1. EndsOf(D) = {q(3)}
        BY <1>2, <1>3, <1>6, <1>8, <1>9, <2>1, <3>3
      <4> QED
        BY <4>1
    <3>4. CASE q(2) \in D /\ q(3) \in D /\ q(4) \in D
      <4>1. EndsOf(D) = {q(4)}
        BY <1>2, <1>3, <1>6, <1>8, <1>9, <2>1, <3>4
      <4> QED
        BY <4>1
    <3> QED
      BY <3>1, <3>2, <3>3, <3>4
  <2>2. ASSUME q(1) \notin D, q(5) \in D
        PROVE  \E x : EndsOf(D) = {x}
    <3>1. EndsOf(D) = {q(5)}
      BY <1>2, <1>3, <1>6, <1>8, <1>9, <2>2
    <3> QED
      BY <3>1
  <2>3. \E x : EndsOf(D) = {x}
    BY <1>10, <2>1, <2>2, Zenon
  <2> QED
    BY <2>3, FS_Singleton
<1>11. ASSUME q(1) \in D, q(5) \in D, D # Dir \ {e}
       PROVE  Cardinality(EndsOf(D)) = 2 /\ Unsplit((Dir \ D) \ {e})
  <2> DEFINE C == (Dir \ D) \ {e}
  <2>1. q(2) \notin D \/ q(3) \notin D \/ q(4) \notin D
    BY <1>4, <1>8, <1>11
  <2>2. \A d \in C : d = q(2) \/ d = q(3) \/ d = q(4)
    BY <1>4, <1>11
  <2>3. \A c, d \in C : s(c) \notin C /\ s(d) \notin C => c = d
    BY <1>2, <1>3, <1>9, <1>11, <2>2
  <2>4. \E x : x # q(5) /\ EndsOf(D) = {q(5), x}
    <3>1. CASE q(2) \notin D
      <4>1. EndsOf(D) = {q(5), q(1)}
        BY <1>2, <1>3, <1>6, <1>8, <1>9, <1>11, <3>1
      <4> QED
        BY <1>3, <4>1
    <3>2. CASE q(2) \in D /\ q(3) \notin D
      <4>1. EndsOf(D) = {q(5), q(2)}
        BY <1>2, <1>3, <1>6, <1>8, <1>9, <1>11, <3>2
      <4> QED
        BY <1>3, <4>1
    <3>3. CASE q(2) \in D /\ q(3) \in D /\ q(4) \notin D
      <4>1. EndsOf(D) = {q(5), q(3)}
        BY <1>2, <1>3, <1>6, <1>8, <1>9, <1>11, <3>3
      <4> QED
        BY <1>3, <4>1
    <3> QED
      BY <2>1, <3>1, <3>2, <3>3
  <2>5. PICK x : x # q(5) /\ EndsOf(D) = {q(5), x}
    BY <2>4
  <2>6. Cardinality({q(5), x}) = 2
    BY <2>5, PairCounts
  <2>7. C \in SUBSET Dir
    OBVIOUS
  <2> HIDE DEF C
  <2>8. Unsplit(C)
    BY <1>7, <2>3, <2>7
  <2> QED
    BY <2>5, <2>6, <2>8 DEF C
<1> QED
  BY <1>10, <1>11 DEF q

\* The neighbours of a node are as many as the directions they lie in.
LEMMA TakenCount ==
  ASSUME NEW n \in Node, NEW F
  PROVE  /\ {NodeInDir(n, d) : d \in Taken(n, F)} = Nbrs(n) \cap F
         /\ IsFiniteSet(Nbrs(n) \cap F)
         /\ Cardinality(Nbrs(n) \cap F) = Cardinality(Taken(n, F))
<1> DEFINE D == Taken(n, F)
           near == Nbrs(n) \cap F
           f == [d \in D |-> NodeInDir(n, d)]
<1>1. D \in SUBSET Dir
  BY DEF Taken
<1>2. {NodeInDir(n, d) : d \in D} = near
  BY DEF Taken, Nbrs
<1>3. f \in Bijection(D, near)
  <2>1. \A d, e \in D : f[d] = f[e] => d = e
    BY <1>1, NodeInDirInjective
  <2>2. f \in [D -> near] /\ \A x \in near : \E d \in D : f[d] = x
    BY <1>2
  <2> HIDE DEF f, D, near
  <2> QED
    BY <2>1, <2>2 DEF Bijection, Injection, Surjection, IsInjective
<1>4. IsFiniteSet(D)
  BY <1>1, DirsFinite
<1> HIDE DEF f, D, near
<1>5. IsFiniteSet(near) /\ Cardinality(near) = Cardinality(D)
  BY <1>3, <1>4, FS_Bijection DEF ExistsBijection
<1> QED
  BY <1>2, <1>5 DEF D, near

\* A direction leaves five others.
LEMMA DirsButOne ==
  ASSUME NEW e \in Dir
  PROVE  Cardinality(Dir \ {e}) = 5
<1>1. IsFiniteSet(Dir) /\ Cardinality(Dir) = 6
  <2>1. Dir = 0 .. 6 - 1
    BY DEF Dir
  <2> QED
    BY <2>1, UpTo
<1>2. Cardinality(Dir \ {e}) = IF e \in Dir THEN Cardinality(Dir) - 1 ELSE Cardinality(Dir)
  BY <1>1, FS_RemoveElement
<1> QED
  BY <1>1, <1>2

\* Euler's number before and after a jump.
LEMMA EulerJumped ==
  ASSUME NEW F \in SUBSET Node, IsFiniteSet(F), NEW n \in Node, NEW m \in Node, n \notin F, m \notin F,
         Cardinality(EndsOf(Taken(n, F))) = Cardinality(EndsOf(Taken(m, F)))
  PROVE  Euler(F \cup {m}) = Euler(F \cup {n})
<1>1. /\ Euler(F \cup {n}) = Euler(F) + 1 - Cardinality(EndsOf(Taken(n, F)))
      /\ Euler(F \cup {m}) = Euler(F) + 1 - Cardinality(EndsOf(Taken(m, F)))
  BY EulerAdded
<1> QED
  BY <1>1

\* A jump under either condition leaves the figure solid: the particles around
\* the two nodes make as many runs round the one as round the other, one or two.
LEMMA JumpKeepsSolid ==
  ASSUME settled \subseteq Node, Solid(settled),
         NEW n \in settled, NEW m \in Nbrs(n), m \in Node, m \notin settled,
         Cardinality(Nbrs(n) \cap settled) # 5,
         Chain!Property1(n, m) \/ Chain!Property2(n, m)
  PROVE  Solid((settled \ {n}) \cup {m})
<1> DEFINE F == settled \ {n}
           N == Taken(n, F)
           M == Taken(m, F)
<1>1. /\ n \in Node /\ m \in Node /\ n # m
      /\ F \in SUBSET Node /\ n \notin F /\ m \notin F /\ settled = F \cup {n}
      /\ IsFiniteSet(F) /\ IsFiniteSet(F \cup {m})
      /\ Euler(settled) = 1 /\ NoHole(settled)
  BY FS_RemoveElement, FS_AddElement DEF Solid
<1>2. PICK e \in Dir : m = NodeInDir(n, e)
  BY DEF Nbrs
<1> DEFINE f == Opposite(e)
<1>3. f \in Dir /\ n = NodeInDir(m, f)
  BY <1>1, <1>2, NodeInDirBack, OppositeType
<1>4. N \in SUBSET Dir /\ M \in SUBSET Dir /\ e \notin N /\ f \notin M
  BY <1>1, <1>2, <1>3 DEF Taken
<1>5. /\ (e + 1) % 6 \in N <=> (f + 5) % 6 \in M
      /\ (e + 5) % 6 \in N <=> (f + 1) % 6 \in M
      /\ (e + 1) % 6 \in N => NodeInDir(n, (e + 1) % 6) \in Nbrs(m)
      /\ (e + 5) % 6 \in N => NodeInDir(n, (e + 5) % 6) \in Nbrs(m)
  <2>1. /\ (f + 5) % 6 = (e + 2) % 6 /\ (f + 1) % 6 = (e + 4) % 6
        /\ (e + 1) % 6 \in Dir /\ (e + 2) % 6 \in Dir /\ (e + 4) % 6 \in Dir /\ (e + 5) % 6 \in Dir
    BY DEF Dir, Opposite
  <2>2. /\ NodeInDir(n, (e + 1) % 6) = NodeInDir(m, (e + 2) % 6)
        /\ NodeInDir(n, (e + 5) % 6) = NodeInDir(m, (e + 4) % 6)
    BY <1>1, <1>2, <2>1, StepsMeet
  <2> QED
    BY <2>1, <2>2 DEF Taken, Nbrs
<1>6. /\ {NodeInDir(n, d) : d \in N} = Nbrs(n) \cap F
      /\ {NodeInDir(m, d) : d \in M} = Nbrs(m) \cap F
      /\ Cardinality(Nbrs(n) \cap F) = Cardinality(N)
  BY <1>1, TakenCount
<1>7. Nbrs(n) \cap F = Nbrs(n) \cap settled
  BY <1>1, NbrsBothWays
<1>8. ASSUME Cardinality(EndsOf(N)) = 1, Cardinality(EndsOf(M)) = 1
      PROVE  Solid(F \cup {m})
  <2>1. NoHole(F)
    BY <1>1, <1>2, NoHoleRemoved
  <2>2. Unsplit(Dir \ M)
    BY <1>4, <1>8, OneRunLeavesOne
  <2>3. NoHole(F \cup {m})
    BY <1>1, <2>1, <2>2, NoHoleAdded
  <2>4. Euler(F \cup {m}) = 1
    BY <1>1, <1>8, EulerJumped
  <2> QED
    BY <1>1, <2>3, <2>4 DEF Solid
<1>9. CASE Chain!Property2(n, m)
  <2>1. /\ (Nbrs(n) \cap settled) \ {n} # {} /\ Connected((Nbrs(n) \cap settled) \ {n})
        /\ (Nbrs(m) \cap settled) \ {n} # {} /\ Connected((Nbrs(m) \cap settled) \ {n})
    BY <1>9, ChainTerms, ChainConnected DEF Chain!Property2
  <2>2. (Nbrs(n) \cap settled) \ {n} = Nbrs(n) \cap F /\ (Nbrs(m) \cap settled) \ {n} = Nbrs(m) \cap F
    OBVIOUS
  <2>3. Unsplit(N) /\ Unsplit(M)
    BY <1>1, <1>4, <1>6, <2>1, <2>2, ConnectedUnsplit
  <2>4. N # {} /\ M # {} /\ N # Dir /\ M # Dir
    BY <1>3, <1>4, <1>6, <2>1, <2>2
  <2>5. Cardinality(EndsOf(N)) = 1 /\ Cardinality(EndsOf(M)) = 1
    BY <1>4, <2>3, <2>4, UnsplitOneRun
  <2> QED
    BY <1>8, <2>5
<1>10. CASE Chain!Property1(n, m)
  <2>1. /\ Nbrs(n) \cap Nbrs(m) \cap settled # {}
        /\ \A T \in SUBSET ((NbrsOfSet({n, m}) \cap settled) \ (Nbrs(n) \cap Nbrs(m) \cap settled)) :
             T # {} => \E a \in T, b \in (NbrsOfSet({n, m}) \cap settled) \ T : Adjacent(a, b)
    BY <1>10, ChainTerms DEF Chain!Property1
  <2>2. NbrsOfSet({n, m}) \cap settled = NbrsOfSet({n, m}) \cap F
    BY DEF NbrsOfSet
  <2>3. Gathered(n, m, F) /\ Gathered(m, n, F)
    <3>1. {n, m} = {m, n}
      OBVIOUS
    <3>2. /\ (NbrsOfSet({n, m}) \cap F) \ (Nbrs(n) \cap Nbrs(m) \cap settled)
               = (NbrsOfSet({n, m}) \cap F) \ (Nbrs(n) \cap Nbrs(m))
          /\ Nbrs(n) \cap Nbrs(m) = Nbrs(m) \cap Nbrs(n)
      BY <1>1
    <3> HIDE DEF F
    <3> QED
      BY <2>1, <2>2, <3>1, <3>2 DEF Gathered
  <2>4. /\ \A X \in SUBSET Dir :
             /\ (e + 1) % 6 \notin X /\ (e + 5) % 6 \notin X
             /\ \A d \in N : (d + 1) % 6 \in N => (d \in X <=> (d + 1) % 6 \in X)
             => X \cap N = {}
        /\ \A X \in SUBSET Dir :
             /\ (f + 1) % 6 \notin X /\ (f + 5) % 6 \notin X
             /\ \A d \in M : (d + 1) % 6 \in M => (d \in X <=> (d + 1) % 6 \in X)
             => X \cap M = {}
    <3> HIDE DEF F, f
    <3> QED
      BY <1>1, <1>2, <1>3, <2>3, SideGathered
  <2>5. /\ ~ ((e + 1) % 6 \in N <=> (e + 5) % 6 \in N) => Cardinality(EndsOf(N)) = 1
        /\ (e + 1) % 6 \in N /\ (e + 5) % 6 \in N /\ N # Dir \ {e} => Cardinality(EndsOf(N)) = 2
    <3> HIDE DEF N
    <3> QED
      BY <1>4, <2>4, GatheredRuns
  <2>6. /\ ~ ((f + 1) % 6 \in M <=> (f + 5) % 6 \in M) => Cardinality(EndsOf(M)) = 1
        /\ (f + 1) % 6 \in M /\ (f + 5) % 6 \in M /\ M # Dir \ {f}
             => Cardinality(EndsOf(M)) = 2 /\ Unsplit((Dir \ M) \ {f})
    <3> HIDE DEF M, f
    <3> QED
      BY <1>3, <1>4, <2>4, GatheredRuns
  <2>7. (e + 1) % 6 \in N \/ (e + 5) % 6 \in N
    <3>1. PICK c \in Nbrs(n) \cap Nbrs(m) : c \in settled
      BY <2>1
    <3>2. c \in F
      BY <1>1, <3>1, NbrsBothWays
    <3>3. PICK d \in Dir, g \in Dir : c = NodeInDir(n, d) /\ c = NodeInDir(m, g)
      BY <3>1 DEF Nbrs
    <3>4. d = (e + 1) % 6 \/ d = (e + 5) % 6
      <4>1. NodeInDir(n, d) = NodeInDir(NodeInDir(n, e), g)
        BY <1>2, <3>3
      <4> QED
        BY <1>1, <4>1, StepsMeet
    <3> QED
      BY <3>2, <3>3, <3>4 DEF Taken
  <2>8. N # Dir \ {e}
    BY <1>6, <1>7, DirsButOne
  <2>9. M # Dir \ {f}
    <3>1. SUFFICES ASSUME M = Dir \ {f} PROVE FALSE
      OBVIOUS
    <3>2. \A x \in Nbrs(m) : x \in settled
      BY <1>1, <1>3, <3>1 DEF Nbrs, Taken
    <3>3. IsFiniteSet({m})
      BY FS_Singleton
    <3>4. Shut({m}, settled)
      BY <1>1, <3>2, <3>3 DEF Shut
    <3> QED
      BY <1>1, <3>4, HoleIsShut
  <2>10. CASE ~ ((e + 1) % 6 \in N <=> (e + 5) % 6 \in N)
    BY <1>5, <1>8, <2>5, <2>6, <2>10
  <2>11. CASE (e + 1) % 6 \in N /\ (e + 5) % 6 \in N
    <3>1. Cardinality(EndsOf(N)) = 2 /\ Cardinality(EndsOf(M)) = 2 /\ Unsplit((Dir \ M) \ {f})
      BY <1>5, <2>5, <2>6, <2>8, <2>9, <2>11
    <3>2. PICK g \in Dir : g \notin N /\ g # e
      BY <1>4, <2>8
    <3>3. NodeInDir(n, g) \notin F /\ NodeInDir(n, g) # m
      BY <1>1, <1>2, <3>2, NodeInDirInjective DEF Taken
    <3> HIDE DEF F, f
    <3>4. NoHole(F \cup {m})
      BY <1>1, <1>3, <3>1, <3>3, NoHoleJumped
    <3>5. Euler(F \cup {m}) = 1
      BY <1>1, <3>1, EulerJumped
    <3> QED
      BY <1>1, <3>4, <3>5 DEF Solid
  <2> QED
    BY <2>7, <2>10, <2>11
<1> QED
  BY <1>9, <1>10

-----------------------------------------------------------------------------
(* The measure of the perimeter                                            *)

\* Each edge is two pairs of neighbours, one either way.
LEMMA PairsOfEdges ==
  ASSUME NEW F \in SUBSET Node, IsFiniteSet(F)
  PROVE  /\ IsFiniteSet({e \in F \X F : Adjacent(e[1], e[2])})
         /\ Cardinality({e \in F \X F : Adjacent(e[1], e[2])}) = 2 * Cardinality(Edges(F))
<1> DEFINE pairs == {e \in F \X F : Adjacent(e[1], e[2])}
           up    == {e \in pairs : Before(e[1], e[2])}
           down  == {e \in pairs : Before(e[2], e[1])}
           fu    == [e \in up |-> {e[1], e[2]}]
           fd    == [e \in down |-> {e[1], e[2]}]
<1>1. IsFiniteSet(pairs)
  <2>1. IsFiniteSet(F \X F)
    BY FS_Product
  <2> QED
    BY <2>1, FS_Subset
<1>2. \A e \in pairs : e = <<e[1], e[2]>> /\ e[1] \in F /\ e[2] \in F /\ Adjacent(e[1], e[2])
  OBVIOUS
<1>3. ASSUME NEW a \in Node, NEW b \in Node, Adjacent(a, b)
      PROVE  /\ Adjacent(b, a) /\ a # b
             /\ Before(a, b) <=> ~ Before(b, a)
  <2>1. Adjacent(b, a) /\ a # b
    BY <1>3, NbrsBothWays DEF Adjacent
  <2>2. /\ a[1] \in Int /\ a[2] \in Int /\ b[1] \in Int /\ b[2] \in Int
        /\ a = <<a[1], a[2]>> /\ b = <<b[1], b[2]>>
    BY DEF Node
  <2>3. a[1] # b[1] \/ a[2] # b[2]
    BY <2>1, <2>2
  <2> QED
    BY <2>1, <2>2, <2>3 DEF Before
<1>4. up \cup down = pairs /\ up \cap down = {}
  BY <1>3
<1>5. IsFiniteSet(up) /\ IsFiniteSet(down)
  BY <1>1, FS_Subset
<1>6. Cardinality(up) \in Nat /\ Cardinality(down) \in Nat
  BY <1>5, FS_CardinalityType
<1>7. Cardinality(pairs) = Cardinality(up) + Cardinality(down)
  <2> HIDE DEF up, down, pairs
  <2>1. Cardinality(up \cup down) = Cardinality(up) + Cardinality(down) - Cardinality(up \cap down)
    BY <1>5, FS_Union
  <2>2. Cardinality(up \cap down) = 0
    BY <1>4, FS_EmptySet
  <2>3. Cardinality(up \cup down) = Cardinality(up) + Cardinality(down)
    BY <1>6, <2>1, <2>2
  <2> QED
    BY <1>4, <2>3
<1>8. \A x \in Edges(F) : \E e \in pairs : x = {e[1], e[2]}
  BY DEF Edges
<1>9. \A e \in pairs : {e[1], e[2]} \in Edges(F) /\ <<e[2], e[1]>> \in pairs
  BY <1>3 DEF Edges
<1>10. fu \in Bijection(up, Edges(F))
  <2>1. fu \in [up -> Edges(F)]
    BY <1>9
  <2>2. \A d, e \in up : fu[d] = fu[e] => d = e
    <3> SUFFICES ASSUME NEW d \in up, NEW e \in up, {d[1], d[2]} = {e[1], e[2]} PROVE d = e
      OBVIOUS
    <3>1. Before(d[1], d[2]) /\ Before(e[1], e[2]) /\ ~ Before(d[2], d[1]) /\ ~ Before(e[2], e[1])
      BY <1>3
    <3>2. d[1] = e[1] /\ d[2] = e[2]
      BY <3>1
    <3> QED
      BY <1>2, <3>2
  <2>3. \A x \in Edges(F) : \E e \in up : fu[e] = x
    <3> SUFFICES ASSUME NEW x \in Edges(F) PROVE \E e \in up : {e[1], e[2]} = x
      OBVIOUS
    <3>1. PICK e \in pairs : x = {e[1], e[2]}
      BY <1>8
    <3>2. Before(e[1], e[2]) \/ Before(e[2], e[1])
      BY <1>3
    <3>3. CASE Before(e[1], e[2])
      BY <3>1, <3>3
    <3>4. CASE Before(e[2], e[1])
      <4>1. <<e[2], e[1]>> \in up /\ {<<e[2], e[1]>>[1], <<e[2], e[1]>>[2]} = x
        BY <1>9, <3>1, <3>4
      <4> QED
        BY <4>1
    <3> QED
      BY <3>2, <3>3, <3>4
  <2> HIDE DEF fu, up
  <2> QED
    BY <2>1, <2>2, <2>3 DEF Bijection, Injection, Surjection, IsInjective
<1>11. fd \in Bijection(down, Edges(F))
  <2>1. fd \in [down -> Edges(F)]
    BY <1>9
  <2>2. \A d, e \in down : fd[d] = fd[e] => d = e
    <3> SUFFICES ASSUME NEW d \in down, NEW e \in down, {d[1], d[2]} = {e[1], e[2]} PROVE d = e
      OBVIOUS
    <3>1. Before(d[2], d[1]) /\ Before(e[2], e[1]) /\ ~ Before(d[1], d[2]) /\ ~ Before(e[1], e[2])
      BY <1>3
    <3>2. d[1] = e[1] /\ d[2] = e[2]
      BY <3>1
    <3> QED
      BY <1>2, <3>2
  <2>3. \A x \in Edges(F) : \E e \in down : fd[e] = x
    <3> SUFFICES ASSUME NEW x \in Edges(F) PROVE \E e \in down : {e[1], e[2]} = x
      OBVIOUS
    <3>1. PICK e \in pairs : x = {e[1], e[2]}
      BY <1>8
    <3>2. Before(e[1], e[2]) \/ Before(e[2], e[1])
      BY <1>3
    <3>3. CASE Before(e[2], e[1])
      BY <3>1, <3>3
    <3>4. CASE Before(e[1], e[2])
      <4>1. <<e[2], e[1]>> \in down /\ {<<e[2], e[1]>>[1], <<e[2], e[1]>>[2]} = x
        BY <1>9, <3>1, <3>4
      <4> QED
        BY <4>1
    <3> QED
      BY <3>2, <3>3, <3>4
  <2> HIDE DEF fd, down
  <2> QED
    BY <2>1, <2>2, <2>3 DEF Bijection, Injection, Surjection, IsInjective
<1> HIDE DEF up, down, fu, fd, pairs
<1>12. Cardinality(Edges(F)) = Cardinality(up) /\ Cardinality(Edges(F)) = Cardinality(down)
  BY <1>5, <1>10, <1>11, FS_Bijection DEF ExistsBijection
<1>13. Cardinality(pairs) = 2 * Cardinality(Edges(F))
  BY <1>6, <1>7, <1>12
<1> QED
  BY <1>1, <1>13 DEF pairs

\* The pairs of a set of particles, one particle taken out.
LEMMA PairsStep ==
  ASSUME NEW F \in SUBSET Node, IsFiniteSet(F), NEW P \in SUBSET F
  PROVE  LET pairs(Q) == {e \in Q \X F : Adjacent(e[1], e[2])}
         IN  /\ IsFiniteSet(pairs(P)) /\ Cardinality(pairs(P)) \in Nat
             /\ \A p \in P : /\ Cardinality(Nbrs(p) \cap F) \in Nat
                            /\ Cardinality(pairs(P)) = Cardinality(Nbrs(p) \cap F) + Cardinality(pairs(P \ {p}))
<1> DEFINE pairs(Q) == {e \in Q \X F : Adjacent(e[1], e[2])}
<1>2. \A Q \in SUBSET F : IsFiniteSet(pairs(Q)) /\ Cardinality(pairs(Q)) \in Nat
  <2>1. IsFiniteSet(F \X F)
    BY FS_Product
  <2>2. \A Q \in SUBSET F : pairs(Q) \in SUBSET (F \X F)
    OBVIOUS
  <2> QED
    BY <2>1, <2>2, FS_Subset, FS_CardinalityType
<1>3. ASSUME NEW p \in P
      PROVE  /\ Cardinality(Nbrs(p) \cap F) \in Nat
             /\ Cardinality(pairs(P)) = Cardinality(Nbrs(p) \cap F) + Cardinality(pairs(P \ {p}))
  <2> DEFINE R == P \ {p}
             mine == {p} \X (Nbrs(p) \cap F)
             near == Nbrs(p) \cap F
  <2>0. R \in SUBSET F /\ p \in F /\ p \notin R /\ P = R \cup {p}
    OBVIOUS
  <2> HIDE DEF R
  <2>1. pairs(P) = pairs(R) \cup mine
    BY <2>0 DEF Adjacent
  <2>2. pairs(R) \cap mine = {}
    BY <2>0
  <2>3. IsFiniteSet(near)
    BY FS_Subset
  <2>4. Cardinality(near) \in Nat
    BY <2>3, FS_CardinalityType
  <2>5. IsFiniteSet(mine) /\ Cardinality(mine) = Cardinality({p}) * Cardinality(near)
    BY <2>3, FS_Singleton, FS_Product
  <2>6. Cardinality({p}) = 1
    BY FS_Singleton
  <2> HIDE DEF mine, near, pairs
  <2>7. Cardinality(pairs(R) \cup mine)
          = Cardinality(pairs(R)) + Cardinality(mine) - Cardinality(pairs(R) \cap mine)
    BY <1>2, <2>0, <2>5, FS_Union
  <2>8. Cardinality(pairs(R) \cap mine) = 0
    BY <2>2, FS_EmptySet
  <2>9. Cardinality(mine) = Cardinality(near)
    BY <2>4, <2>5, <2>6
  <2>10. Cardinality(pairs(R)) \in Nat
    BY <1>2, <2>0
  <2>11. Cardinality(pairs(R) \cup mine) = Cardinality(near) + Cardinality(pairs(R))
    BY <2>4, <2>7, <2>8, <2>9, <2>10
  <2>12. Cardinality(pairs(P)) = Cardinality(near) + Cardinality(pairs(R))
    BY <2>1, <2>11
  <2> QED
    BY <2>4, <2>12 DEF near, R
<1> QED
  BY <1>2, <1>3

\* The sum over the particles counts the pairs: the fold of the code, whatever
\* the order in which it takes them.
LEMMA PairsSum ==
  ASSUME NEW F \in SUBSET Node, IsFiniteSet(F), NEW f,
         f = [P \in SUBSET F |->
                IF P = {} THEN 0
                ELSE LET p == CHOOSE p \in P : TRUE IN Cardinality(Nbrs(p) \cap F) + f[P \ {p}]]
  PROVE  f[F] = Cardinality({e \in F \X F : Adjacent(e[1], e[2])})
<1> DEFINE pairs(P) == {e \in P \X F : Adjacent(e[1], e[2])}
           T == {Cardinality(P) : P \in {P \in SUBSET F : f[P] # Cardinality(pairs(P))}}
<1>1. \A P \in SUBSET F : IsFiniteSet(P) /\ Cardinality(P) \in Nat
  BY FS_Subset, FS_CardinalityType
<1> SUFFICES ASSUME f[F] # Cardinality(pairs(F)) PROVE FALSE
  OBVIOUS
<1>3. T \in SUBSET Nat /\ T # {}
  <2>1. F \in SUBSET F
    OBVIOUS
  <2>2. Cardinality(F) \in T
    BY <2>1
  <2>3. ASSUME NEW x \in T PROVE x \in Nat
    <3>1. PICK P \in SUBSET F : x = Cardinality(P)
      OBVIOUS
    <3> QED
      BY <1>1, <3>1
  <2> HIDE DEF T
  <2> QED
    BY <2>2, <2>3
<1>4. PICK x \in T : \A y \in T : x <= y
  <2> HIDE DEF T
  <2> QED
    BY <1>3, NatLeast
<1>5. PICK P \in SUBSET F : x = Cardinality(P) /\ f[P] # Cardinality(pairs(P))
  OBVIOUS
<1>6. P # {}
  <2>1. SUFFICES ASSUME P = {} PROVE FALSE
    OBVIOUS
  <2>2. f[P] = 0
    BY <2>1
  <2>3. pairs(P) = {}
    BY <2>1
  <2> QED
    BY <1>5, <2>2, <2>3, FS_EmptySet
<1> DEFINE p == CHOOSE p \in P : TRUE
           R == P \ {p}
<1>7. p \in P /\ R \in SUBSET F /\ p \in F /\ p \notin R /\ P = R \cup {p}
  BY <1>6
<1>8. f[P] = Cardinality(Nbrs(p) \cap F) + f[R]
  BY <1>6
<1>9. Cardinality(R) < Cardinality(P)
  <2> HIDE DEF p, R
  <2>1. Cardinality(R \cup {p}) = IF p \in R THEN Cardinality(R) ELSE Cardinality(R) + 1
    BY <1>1, <1>7, FS_AddElement
  <2>2. Cardinality(P) = Cardinality(R) + 1 /\ Cardinality(R) \in Nat
    BY <1>1, <1>7, <2>1
  <2> QED
    BY <2>2
<1>10. f[R] = Cardinality(pairs(R))
  <2>1. SUFFICES ASSUME f[R] # Cardinality(pairs(R)) PROVE FALSE
    OBVIOUS
  <2>2. Cardinality(R) \in T
    BY <1>7, <2>1
  <2>3. x <= Cardinality(R)
    BY <1>4, <2>2
  <2>4. Cardinality(R) \in Nat /\ Cardinality(P) \in Nat
    BY <1>1, <1>7
  <2> QED
    BY <1>5, <1>9, <2>3, <2>4
<1> HIDE DEF p, R
<1>11. /\ Cardinality(Nbrs(p) \cap F) \in Nat
       /\ Cardinality(pairs(P)) = Cardinality(Nbrs(p) \cap F) + Cardinality(pairs(R))
  <2>1. \A q \in P : /\ Cardinality(Nbrs(q) \cap F) \in Nat
                     /\ Cardinality(pairs(P)) = Cardinality(Nbrs(q) \cap F) + Cardinality(pairs(P \ {q}))
    BY PairsStep
  <2> HIDE DEF pairs
  <2> QED
    BY <1>7, <2>1 DEF R
<1> QED
  BY <1>5, <1>8, <1>10, <1>11

\* A particle counts the settled nodes next to the node it is settled on, also
\* while it is expanded.
LEMMA EndsCount ==
  ASSUME TypeOK, Apart, NEW p \in particles
  PROVE  NbrCount(p, IF IsContracted(body[p]) THEN UniqueLabels(body[p]) ELSE TailLabels(body[p]))
           = Cardinality(Nbrs(p) \cap settled)
<1>1. CASE IsContracted(body[p])
  BY <1>1, CountIs
<1>2. CASE ~ IsContracted(body[p])
  <2> DEFINE b == body[p]
             L == TailLabels(b) \cap NbrLabels(p)
             A == {l \in NbrLabels(p) : OccupiedNodeIncidentToLabel(b, l) = p}
             near == Nbrs(p) \cap settled
             f == [l \in A |-> NbrNode(b, l)]
  <2>1. /\ p \in expanded /\ b \in Body /\ IsExpanded(b) /\ p \in Node /\ p \in Nodes(b)
        /\ TailNode(b) = p /\ b.head # p
    BY <1>2, SettledNode DEF expanded, IsExpanded
  <2>2. near \ {p} = {NbrNode(b, l) : l \in A} /\ near \ {p} = near
    <3>1. p \notin Nbrs(p)
      BY <2>1, NbrsBothWays
    <3> QED
      BY <2>1, <3>1, NearIs
  <2>3. \A l \in NbrLabels(p) : l \in Labels(b)
    BY DEF NbrLabels
  <2>4. L = A
    <3>1. TailLabels(b) = Labels(b) \ HeadLabels(b)
      BY <2>1, ExpandedFrame
    <3>2. \A l \in Labels(b) : OccupiedNodeIncidentToLabel(b, l) = p <=> l \notin HeadLabels(b)
      BY <2>1 DEF OccupiedNodeIncidentToLabel
    <3> QED
      BY <2>3, <3>1, <3>2
  <2>5. f \in Bijection(A, near)
    <3>1. \A k, l \in A : f[k] = f[l] => k = l
      BY <2>1, <2>3, OneEndApart
    <3>2. f \in [A -> near] /\ \A x \in near : \E l \in A : f[l] = x
      BY <2>2
    <3> HIDE DEF f, A, near
    <3> QED
      BY <3>1, <3>2 DEF Bijection, Injection, Surjection, IsInjective
  <2>6. IsFiniteSet(A)
    <3>1. Labels(b) = 0..9
      BY <2>1, ExpandedFrame
    <3>2. IsFiniteSet(0..9)
      <4>1. 0 \in Int /\ 9 \in Int
        OBVIOUS
      <4> QED
        BY <4>1, FS_Interval
    <3>3. A \in SUBSET (0..9)
      BY <2>3, <3>1
    <3> QED
      BY <3>2, <3>3, FS_Subset
  <2>7. Cardinality(near) = Cardinality(A)
    <3> HIDE DEF f, A, near
    <3> QED
      BY <2>5, <2>6, FS_Bijection DEF ExistsBijection
  <2> QED
    BY <1>2, <2>4, <2>7 DEF NbrCount
<1> QED
  BY <1>1, <1>2

\* The sum of the measure is twice the edges.
LEMMA PerimeterIs ==
  ASSUME TypeOK, Apart, IsFiniteSet(settled)
  PROVE  Perimeter = 3 * Cardinality(settled) - Cardinality(Edges(settled)) - 3
<1> DEFINE Ends(p) == IF IsContracted(body[p]) THEN UniqueLabels(body[p]) ELSE TailLabels(body[p])
           g == [P \in SUBSET settled |-> Cardinality({e \in P \X settled : Adjacent(e[1], e[2])})]
           Sum(f) == [P \in SUBSET settled |->
                        IF P = {} THEN 0
                        ELSE LET p == CHOOSE p \in P : TRUE
                             IN  NbrCount(p, Ends(p)) + f[P \ {p}]]
           edges == CHOOSE f : f = Sum(f)
<1>1. settled \in SUBSET Node
  BY SettledNode DEF settled
<1>2. \A p \in settled : NbrCount(p, Ends(p)) = Cardinality(Nbrs(p) \cap settled)
  BY EndsCount DEF settled
<1>3. Perimeter = 3 * Cardinality(settled) - edges[settled] \div 2 - 3
  BY DEF Perimeter, settled
<1>4. \A f : Sum(f) = [P \in SUBSET settled |->
                         IF P = {} THEN 0
                         ELSE LET p == CHOOSE p \in P : TRUE
                              IN  Cardinality(Nbrs(p) \cap settled) + f[P \ {p}]]
  <2> SUFFICES ASSUME NEW P \in SUBSET settled, P # {}
               PROVE  LET p == CHOOSE p \in P : TRUE
                      IN  NbrCount(p, Ends(p)) = Cardinality(Nbrs(p) \cap settled)
    OBVIOUS
  <2>1. (CHOOSE p \in P : TRUE) \in settled
    OBVIOUS
  <2> QED
    BY <1>2, <2>1
<1>5. g = Sum(g)
  <2>0. Sum(g) = [P \in SUBSET settled |->
                    IF P = {} THEN 0
                    ELSE LET p == CHOOSE p \in P : TRUE
                         IN  Cardinality(Nbrs(p) \cap settled) + g[P \ {p}]]
    <3> HIDE DEF g, Sum
    <3> QED
      BY <1>4
  <2> HIDE DEF Sum
  <2> SUFFICES ASSUME NEW P \in SUBSET settled
               PROVE  Cardinality({e \in P \X settled : Adjacent(e[1], e[2])})
                        = IF P = {} THEN 0
                          ELSE LET p == CHOOSE p \in P : TRUE
                               IN  Cardinality(Nbrs(p) \cap settled) + g[P \ {p}]
    BY <2>0
  <2>1. CASE P = {}
    <3>1. {e \in P \X settled : Adjacent(e[1], e[2])} = {}
      BY <2>1
    <3> QED
      BY <2>1, <3>1, FS_EmptySet
  <2>2. CASE P # {}
    <3> DEFINE p == CHOOSE p \in P : TRUE
    <3>1. p \in P
      BY <2>2
    <3>2. g[P \ {p}] = Cardinality({e \in (P \ {p}) \X settled : Adjacent(e[1], e[2])})
      OBVIOUS
    <3> HIDE DEF p, g
    <3>3. Cardinality({e \in P \X settled : Adjacent(e[1], e[2])})
            = Cardinality(Nbrs(p) \cap settled)
                + Cardinality({e \in (P \ {p}) \X settled : Adjacent(e[1], e[2])})
      BY <1>1, <3>1, PairsStep
    <3> QED
      BY <2>2, <3>2, <3>3 DEF p
  <2> QED
    BY <2>1, <2>2
<1>6. edges = Sum(edges)
  <2> HIDE DEF Sum, g
  <2> QED
    BY <1>5
<1> HIDE DEF g
<1>7. edges[settled] = Cardinality({e \in settled \X settled : Adjacent(e[1], e[2])})
  <2>1. edges = [P \in SUBSET settled |->
                   IF P = {} THEN 0
                   ELSE LET p == CHOOSE p \in P : TRUE
                        IN  Cardinality(Nbrs(p) \cap settled) + edges[P \ {p}]]
    <3> HIDE DEF edges, Sum
    <3> QED
      BY <1>4, <1>6
  <2> HIDE DEF edges
  <2> QED
    BY <1>1, <2>1, PairsSum
<1>8. edges[settled] = 2 * Cardinality(Edges(settled))
  BY <1>1, <1>7, PairsOfEdges
<1>9. Cardinality(Edges(settled)) \in Nat
  BY <1>1, EdgesFinite
<1> HIDE DEF edges
<1>10. edges[settled] \div 2 = Cardinality(Edges(settled))
  BY <1>8, <1>9
<1> QED
  BY <1>3, <1>10

-----------------------------------------------------------------------------
(* The starts of the constructor                                           *)

\* A run of one, two or three directions has one end.
LEMMA ShortRun ==
  ASSUME NEW D \in SUBSET Dir, NEW e \in D,
         (e + 1) % 6 \notin D, (e + 2) % 6 \notin D, (e + 3) % 6 \notin D,
         (e + 4) % 6 \in D => (e + 5) % 6 \in D
  PROVE  Cardinality(EndsOf(D)) = 1
<1>1. EndsOf(D) = {e}
  <2> DEFINE s(k) == (k + 1) % 6
  <2>1. s(0) = 1 /\ s(1) = 2 /\ s(2) = 3 /\ s(3) = 4 /\ s(4) = 5 /\ s(5) = 0
    OBVIOUS
  <2>2. /\ s(e) = (e + 1) % 6 /\ s(s(e)) = (e + 2) % 6 /\ s(s(s(e))) = (e + 3) % 6
        /\ s(s(s(s(e)))) = (e + 4) % 6 /\ s(s(s(s(s(e))))) = (e + 5) % 6
    BY DEF Dir
  <2>3. ASSUME NEW d \in D PROVE s(d) \notin D <=> d = e
    <3>1. /\ d = 0 \/ d = 1 \/ d = 2 \/ d = 3 \/ d = 4 \/ d = 5
          /\ e = 0 \/ e = 1 \/ e = 2 \/ e = 3 \/ e = 4 \/ e = 5
      BY DEF Dir
    <3>2. s(e) \notin D /\ s(s(e)) \notin D /\ s(s(s(e))) \notin D
          /\ (s(s(s(s(e)))) \in D => s(s(s(s(s(e))))) \in D)
      BY <2>2
    <3> HIDE DEF s
    <3> QED
      BY <2>1, <3>1, <3>2
  <2> QED
    BY <2>3 DEF EndsOf
<1> QED
  BY <1>1, FS_Singleton

\* A straight line of any length is solid.
LEMMA LineSolid ==
  ASSUME NEW a \in Int, NEW k \in Nat
  PROVE  Solid({<<i, 0>> : i \in a .. a + k})
<1> DEFINE Line(j) == {<<i, 0>> : i \in a .. a + j}
           T == {j \in Nat : ~ Solid(Line(j))}
<1>1. Line(0) = {<<a, 0>>} /\ <<a, 0>> \in Node
  BY DEF Node
<1>2. ASSUME NEW j \in Nat, Solid(Line(j)) PROVE Solid(Line(j + 1))
  <2> DEFINE n == <<a + j + 1, 0>>
             D == Taken(n, Line(j))
  <2>1. Line(j + 1) = Line(j) \cup {n} /\ n \in Node /\ n \notin Line(j) /\ Line(j) \in SUBSET Node
    BY DEF Node
  <2>2. /\ NodeInDir(n, 0) = <<a + j + 2, 0>> /\ NodeInDir(n, 1) = <<a + j + 1, 1>>
        /\ NodeInDir(n, 2) = <<a + j, 1>>     /\ NodeInDir(n, 3) = <<a + j, 0>>
        /\ NodeInDir(n, 4) = <<a + j + 1, -1>> /\ NodeInDir(n, 5) = <<a + j + 2, -1>>
    BY DEF NodeInDir, xOffset, yOffset
  <2>3. \A x, y \in Int : <<x, y>> \in Line(j) <=> y = 0 /\ a <= x /\ x <= a + j
    OBVIOUS
  <2> HIDE DEF Line
  <2>4. 3 \in D /\ 4 \notin D /\ 5 \notin D /\ 0 \notin D /\ 1 \notin D /\ D \in SUBSET Dir
    BY <2>2, <2>3 DEF Taken, Dir
  <2>5. (3 + 1) % 6 = 4 /\ (3 + 2) % 6 = 5 /\ (3 + 3) % 6 = 0 /\ (3 + 4) % 6 = 1
    OBVIOUS
  <2> HIDE DEF n, D
  <2>6. Cardinality(EndsOf(D)) = 1
    BY <2>4, <2>5, ShortRun
  <2>7. Solid(Line(j) \cup {n})
    BY <1>2, <2>1, <2>6, GrownSolid DEF D
  <2> QED
    BY <2>1, <2>7
<1>3. Solid(Line(0))
  BY <1>1, OneSolid
<1> HIDE DEF Line
<1>4. T = {}
  <2> SUFFICES ASSUME T # {} PROVE FALSE
    OBVIOUS
  <2>1. PICK j \in T : \A i \in T : j <= i
    BY NatLeast
  <2>2. j # 0 /\ j - 1 \in Nat
    BY <1>3
  <2>3. Solid(Line(j - 1))
    BY <2>1, <2>2
  <2>4. Solid(Line(j - 1 + 1)) /\ j - 1 + 1 = j
    BY <1>2, <2>2, <2>3
  <2> QED
    BY <2>4
<1> QED
  BY <1>4 DEF Line

\* The spiral: a place of it, as its layer, its side and its offset there.
At(l, s, o) ==
  CASE s = 0 /\ o = 0 -> <<l - 1, 1 - l>>
    [] s = 0 /\ o # 0 -> <<l, o - l>>
    [] s = 1 -> <<l - o, o>>
    [] s = 2 -> <<-o, l>>
    [] s = 3 -> <<-l, l - o>>
    [] s = 4 -> <<o - l, -o>>
    [] s = 5 -> <<o, -l>>

\* The nodes before that place: the layers inside, less the corner the next
\* layer begins with, and the six sides as far as they are filled.
Passed(x, y, l, s, o) ==
  \/ /\ -l < x /\ x < l /\ -l < y /\ y < l /\ -l < x + y /\ x + y < l
     /\ x # l - 1 \/ y # 1 - l \/ s > 0 \/ o > 0
  \/ x = l /\ 1 - l <= y /\ y < 0 /\ (s > 0 \/ y + l < o)
  \/ x + y = l /\ 0 <= y /\ y < l /\ (s > 1 \/ (s = 1 /\ y < o))
  \/ y = l /\ -l < x /\ x <= 0 /\ (s > 2 \/ (s = 2 /\ -x < o))
  \/ x = -l /\ 1 <= y /\ y <= l /\ (s > 3 \/ (s = 3 /\ l - y < o))
  \/ x + y = -l /\ -l < y /\ y <= 0 /\ (s > 4 \/ (s = 4 /\ -y < o))
  \/ y = -l /\ 0 <= x /\ x < l /\ (s > 5 \/ (s = 5 /\ x < o))

Spiral(l, s, o) == {n \in Node : Passed(n[1], n[2], l, s, o)}

\* The spiral grows by its places in order: offset by offset, side by side,
\* layer by layer.
LEMMA SpiralGrows ==
  ASSUME NEW l \in Nat \ {0}, NEW s \in 0..5, NEW o \in 0 .. l - 1
  PROVE  /\ At(l, s, o) \in Node /\ At(l, s, o) \notin Spiral(l, s, o)
         /\ Spiral(l, s, o) \cup {At(l, s, o)} = Spiral(l, s, o + 1)
         /\ Spiral(l, s, l) = Spiral(l, s + 1, 0)
         /\ Spiral(l, 6, 0) = Spiral(l + 1, 0, 0)
<1> DEFINE n == At(l, s, o)
           x == n[1]
           y == n[2]
<1>1. /\ x \in Int /\ y \in Int /\ n = <<x, y>>
      /\ s = 0 /\ o = 0 => x = l - 1 /\ y = 1 - l
      /\ s = 0 /\ o # 0 => x = l /\ y = o - l
      /\ s = 1 => x = l - o /\ y = o
      /\ s = 2 => x = -o /\ y = l
      /\ s = 3 => x = -l /\ y = l - o
      /\ s = 4 => x = o - l /\ y = -o
      /\ s = 5 => x = o /\ y = -l
  BY DEF At
<1> HIDE DEF n
<1>2. ~ Passed(x, y, l, s, o)
  BY <1>1 DEF Passed
<1>3. ASSUME NEW u \in Int, NEW v \in Int
      PROVE  Passed(u, v, l, s, o + 1) <=> Passed(u, v, l, s, o) \/ (u = x /\ v = y)
  BY <1>1 DEF Passed
<1>4. ASSUME NEW u \in Int, NEW v \in Int
      PROVE  Passed(u, v, l, s, l) <=> Passed(u, v, l, s + 1, 0)
  BY DEF Passed
<1>5. ASSUME NEW u \in Int, NEW v \in Int
      PROVE  Passed(u, v, l, 6, 0) <=> Passed(u, v, l + 1, 0, 0)
  BY DEF Passed
<1>6. \A m \in Node : m[1] \in Int /\ m[2] \in Int /\ (m = n <=> m[1] = x /\ m[2] = y)
  BY <1>1 DEF Node
<1> HIDE DEF x, y
<1>7. n \in Node /\ n \notin Spiral(l, s, o)
  <2>1. n \in Node
    BY <1>1 DEF Node, x, y
  <2> QED
    BY <1>2, <2>1 DEF Spiral, x, y
<1>8. Spiral(l, s, o) \cup {n} = Spiral(l, s, o + 1)
  BY <1>3, <1>6, <1>7 DEF Spiral
<1>9. Spiral(l, s, l) = Spiral(l, s + 1, 0)
  BY <1>4, <1>6 DEF Spiral
<1>10. Spiral(l, 6, 0) = Spiral(l + 1, 0, 0)
  BY <1>5, <1>6 DEF Spiral
<1> QED
  BY <1>7, <1>8, <1>9, <1>10 DEF n

\* Each place after the first has one run of neighbours before it.
LEMMA SpiralRun ==
  ASSUME NEW l \in Nat \ {0}, NEW s \in 0..5, NEW o \in 0 .. l - 1,
         l # 1 \/ s # 0 \/ o # 0
  PROVE  Cardinality(EndsOf(Taken(At(l, s, o), Spiral(l, s, o)))) = 1
<1> DEFINE n == At(l, s, o)
           x == n[1]
           y == n[2]
           D == Taken(n, Spiral(l, s, o))
           P(u, v) == Passed(u, v, l, s, o)
<1> SUFFICES Cardinality(EndsOf(D)) = 1
  OBVIOUS
<1>1. /\ x \in Int /\ y \in Int
      /\ s = 0 /\ o = 0 => x = l - 1 /\ y = 1 - l
      /\ s = 0 /\ o # 0 => x = l /\ y = o - l
      /\ s = 1 => x = l - o /\ y = o
      /\ s = 2 => x = -o /\ y = l
      /\ s = 3 => x = -l /\ y = l - o
      /\ s = 4 => x = o - l /\ y = -o
      /\ s = 5 => x = o /\ y = -l
  BY DEF At
<1> HIDE DEF n
<1>2. /\ NodeInDir(n, 0) = <<x + 1, y>> /\ NodeInDir(n, 1) = <<x, y + 1>>
      /\ NodeInDir(n, 2) = <<x - 1, y + 1>> /\ NodeInDir(n, 3) = <<x - 1, y>>
      /\ NodeInDir(n, 4) = <<x, y - 1>> /\ NodeInDir(n, 5) = <<x + 1, y - 1>>
  BY <1>1 DEF NodeInDir, xOffset, yOffset
<1> HIDE DEF x, y
<1>3. \A u, v \in Int : <<u, v>> \in Spiral(l, s, o) <=> P(u, v)
  BY DEF Spiral, Node
<1>4. D \in SUBSET Dir /\ \A d \in Dir : d \in D <=> NodeInDir(n, d) \in Spiral(l, s, o)
  BY DEF Taken
<1> HIDE DEF D
<1>5. /\ 0 \in D <=> P(x + 1, y)
      /\ 1 \in D <=> P(x, y + 1)
      /\ 2 \in D <=> P(x - 1, y + 1)
      /\ 3 \in D <=> P(x - 1, y)
      /\ 4 \in D <=> P(x, y - 1)
      /\ 5 \in D <=> P(x + 1, y - 1)
  BY <1>1, <1>2, <1>3, <1>4 DEF Dir
<1>6. /\ (0 + 1) % 6 = 1 /\ (0 + 2) % 6 = 2 /\ (0 + 3) % 6 = 3 /\ (0 + 4) % 6 = 4 /\ (0 + 5) % 6 = 5
      /\ (1 + 1) % 6 = 2 /\ (1 + 2) % 6 = 3 /\ (1 + 3) % 6 = 4 /\ (1 + 4) % 6 = 5 /\ (1 + 5) % 6 = 0
      /\ (2 + 1) % 6 = 3 /\ (2 + 2) % 6 = 4 /\ (2 + 3) % 6 = 5 /\ (2 + 4) % 6 = 0 /\ (2 + 5) % 6 = 1
      /\ (3 + 1) % 6 = 4 /\ (3 + 2) % 6 = 5 /\ (3 + 3) % 6 = 0 /\ (3 + 4) % 6 = 1 /\ (3 + 5) % 6 = 2
      /\ (4 + 1) % 6 = 5 /\ (4 + 2) % 6 = 0 /\ (4 + 3) % 6 = 1 /\ (4 + 4) % 6 = 2 /\ (4 + 5) % 6 = 3
      /\ (5 + 1) % 6 = 0 /\ (5 + 2) % 6 = 1 /\ (5 + 3) % 6 = 2 /\ (5 + 4) % 6 = 3 /\ (5 + 5) % 6 = 4
  OBVIOUS
<1>7. CASE s = 0
  <2>1. CASE o = 0
    <3>1. P(x - 1, y) /\ ~ P(x, y - 1) /\ ~ P(x + 1, y - 1) /\ ~ P(x + 1, y) /\ P(x - 1, y + 1)
      BY <1>1, <1>7, <2>1 DEF Passed
    <3> QED
      BY <1>4, <1>5, <1>6, <3>1, ShortRun
  <2>2. CASE o = 1
    <3>1. P(x - 1, y) /\ ~ P(x, y - 1) /\ ~ P(x + 1, y - 1) /\ ~ P(x + 1, y) /\ P(x - 1, y + 1)
      BY <1>1, <1>7, <2>2 DEF Passed
    <3> QED
      BY <1>4, <1>5, <1>6, <3>1, ShortRun
  <2>3. CASE o > 1
    <3>1. P(x, y - 1) /\ ~ P(x + 1, y - 1) /\ ~ P(x + 1, y) /\ ~ P(x, y + 1) /\ P(x - 1, y)
      BY <1>1, <1>7, <2>3 DEF Passed
    <3> QED
      BY <1>4, <1>5, <1>6, <3>1, ShortRun
  <2> QED
    BY <2>1, <2>2, <2>3
<1>8. CASE s = 1
  <2>1. CASE o = 0 /\ l = 1
    <3>1. P(x - 1, y) /\ ~ P(x, y - 1) /\ ~ P(x + 1, y - 1) /\ ~ P(x + 1, y) /\ ~ P(x, y + 1)
      BY <1>1, <1>8, <2>1 DEF Passed
    <3> QED
      BY <1>4, <1>5, <1>6, <3>1, ShortRun
  <2>2. CASE o = 0 /\ l # 1
    <3>1. P(x, y - 1) /\ ~ P(x + 1, y - 1) /\ ~ P(x + 1, y) /\ ~ P(x, y + 1) /\ P(x - 1, y)
      BY <1>1, <1>8, <2>2 DEF Passed
    <3> QED
      BY <1>4, <1>5, <1>6, <3>1, ShortRun
  <2>3. CASE o # 0
    <3>1. P(x + 1, y - 1) /\ ~ P(x + 1, y) /\ ~ P(x, y + 1) /\ ~ P(x - 1, y + 1) /\ P(x, y - 1)
      BY <1>1, <1>8, <2>3 DEF Passed
    <3> QED
      BY <1>4, <1>5, <1>6, <3>1, ShortRun
  <2> QED
    BY <2>1, <2>2, <2>3
<1>9. CASE s = 2
  <2>1. CASE o = 0
    <3>1. P(x + 1, y - 1) /\ ~ P(x + 1, y) /\ ~ P(x, y + 1) /\ ~ P(x - 1, y + 1) /\ P(x, y - 1)
      BY <1>1, <1>9, <2>1 DEF Passed
    <3> QED
      BY <1>4, <1>5, <1>6, <3>1, ShortRun
  <2>2. CASE o # 0
    <3>1. P(x + 1, y) /\ ~ P(x, y + 1) /\ ~ P(x - 1, y + 1) /\ ~ P(x - 1, y) /\ P(x + 1, y - 1)
      BY <1>1, <1>9, <2>2 DEF Passed
    <3> QED
      BY <1>4, <1>5, <1>6, <3>1, ShortRun
  <2> QED
    BY <2>1, <2>2
<1>10. CASE s = 3
  <2>1. CASE o = 0
    <3>1. P(x + 1, y) /\ ~ P(x, y + 1) /\ ~ P(x - 1, y + 1) /\ ~ P(x - 1, y) /\ P(x + 1, y - 1)
      BY <1>1, <1>10, <2>1 DEF Passed
    <3> QED
      BY <1>4, <1>5, <1>6, <3>1, ShortRun
  <2>2. CASE o # 0
    <3>1. P(x, y + 1) /\ ~ P(x - 1, y + 1) /\ ~ P(x - 1, y) /\ ~ P(x, y - 1) /\ P(x + 1, y)
      BY <1>1, <1>10, <2>2 DEF Passed
    <3> QED
      BY <1>4, <1>5, <1>6, <3>1, ShortRun
  <2> QED
    BY <2>1, <2>2
<1>11. CASE s = 4
  <2>1. CASE o = 0
    <3>1. P(x, y + 1) /\ ~ P(x - 1, y + 1) /\ ~ P(x - 1, y) /\ ~ P(x, y - 1) /\ P(x + 1, y)
      BY <1>1, <1>11, <2>1 DEF Passed
    <3> QED
      BY <1>4, <1>5, <1>6, <3>1, ShortRun
  <2>2. CASE o # 0
    <3>1. P(x - 1, y + 1) /\ ~ P(x - 1, y) /\ ~ P(x, y - 1) /\ ~ P(x + 1, y - 1) /\ P(x, y + 1)
      BY <1>1, <1>11, <2>2 DEF Passed
    <3> QED
      BY <1>4, <1>5, <1>6, <3>1, ShortRun
  <2> QED
    BY <2>1, <2>2
<1>12. CASE s = 5
  <2>1. CASE o = 0
    <3>1. P(x - 1, y + 1) /\ ~ P(x - 1, y) /\ ~ P(x, y - 1) /\ ~ P(x + 1, y - 1) /\ P(x, y + 1)
      BY <1>1, <1>12, <2>1 DEF Passed
    <3> QED
      BY <1>4, <1>5, <1>6, <3>1, ShortRun
  <2>2. CASE o # 0
    <3>1. P(x - 1, y) /\ ~ P(x, y - 1) /\ ~ P(x + 1, y - 1) /\ ~ P(x + 1, y) /\ P(x - 1, y + 1)
      BY <1>1, <1>12, <2>2 DEF Passed
    <3> QED
      BY <1>4, <1>5, <1>6, <3>1, ShortRun
  <2> QED
    BY <2>1, <2>2
<1>13. s = 0 \/ s = 1 \/ s = 2 \/ s = 3 \/ s = 4 \/ s = 5
  OBVIOUS
<1> QED
  BY <1>7, <1>8, <1>9, <1>10, <1>11, <1>12, <1>13

\* The layer the constructor computes.
LEMMA LayerIs ==
  ASSUME NEW i \in Nat \ {0}, NEW l \in Nat \ {0}, 3 * l * (l - 1) <= i - 1, i - 1 < 3 * l * (l + 1)
  PROVE  LayerOf(i) = l
<1>1. l \in 1..i
  <2>1. (l - 1) * (l - 1) \in Nat
    OBVIOUS
  <2>2. 3 * l * (l - 1) = 3 * ((l - 1) * (l - 1)) + 3 * (l - 1)
    OBVIOUS
  <2> DEFINE a == (l - 1) * (l - 1)
             c == 3 * l * (l - 1)
  <2>3. a \in Nat /\ c = 3 * a + 3 * (l - 1) /\ c <= i - 1
    BY <2>1, <2>2
  <2> HIDE DEF a, c
  <2> QED
    BY <2>3
<1>2. ASSUME NEW k \in 1..i, 3 * k * (k - 1) <= i - 1, i - 1 < 3 * k * (k + 1) PROVE k = l
  <2>1. ASSUME NEW x \in Nat \ {0}, NEW y \in Nat \ {0}, x < y
        PROVE  3 * x * (x + 1) <= 3 * y * (y - 1)
    <3> DEFINE e == y - 1 - x
    <3>1. e \in Nat /\ y = x + 1 + e
      BY <2>1
    <3> HIDE DEF e
    <3>2. y * (y - 1) = x * (x + 1) + e * (2 * x + 1) + e * e
      BY <3>1
    <3>3. e * (2 * x + 1) \in Nat /\ e * e \in Nat /\ x * (x + 1) \in Nat
      BY <3>1
    <3> DEFINE a == e * (2 * x + 1)
               b == e * e
               c == x * (x + 1)
               d == y * (y - 1)
    <3>4. a \in Nat /\ b \in Nat /\ c \in Nat /\ d = c + a + b
      BY <3>2, <3>3
    <3>5. 3 * x * (x + 1) = 3 * c /\ 3 * y * (y - 1) = 3 * d
      OBVIOUS
    <3> HIDE DEF a, b, c, d
    <3> QED
      BY <3>4, <3>5
  <2>2. ~ k < l
    <3> SUFFICES ASSUME k < l PROVE FALSE
      OBVIOUS
    <3> DEFINE a == 3 * k * (k + 1)
               b == 3 * l * (l - 1)
    <3>1. a \in Int /\ b \in Int /\ i - 1 < a /\ b <= i - 1 /\ a <= b
      BY <1>2, <2>1
    <3> HIDE DEF a, b
    <3> QED
      BY <3>1
  <2>3. ~ l < k
    <3> SUFFICES ASSUME l < k PROVE FALSE
      OBVIOUS
    <3> DEFINE a == 3 * l * (l + 1)
               b == 3 * k * (k - 1)
    <3>1. a \in Int /\ b \in Int /\ i - 1 < a /\ b <= i - 1 /\ a <= b
      BY <1>2, <2>1
    <3> HIDE DEF a, b
    <3> QED
      BY <3>1
  <2> QED
    BY <2>2, <2>3
<1> QED
  BY <1>1, <1>2 DEF LayerOf

\* The position in a layer gives the side and the offset on it.
LEMMA QuotientIs ==
  ASSUME NEW l \in Nat \ {0}, NEW s \in 0..5, NEW o \in 0 .. l - 1
  PROVE  (s * l + o) \div l = s /\ (s * l + o) % l = o
<1>1. s = 0 \/ s = 1 \/ s = 2 \/ s = 3 \/ s = 4 \/ s = 5
  OBVIOUS
<1>2. ASSUME NEW k \in 0..5, k = 0 \/ k = 1 \/ k = 2 \/ k = 3 \/ k = 4 \/ k = 5
      PROVE  (k * l + o) \div l = k /\ (k * l + o) % l = o
  BY <1>2
<1> QED
  BY <1>1, <1>2

\* The constructor's particle of that number takes the place.
LEMMA HexNodeIs ==
  ASSUME NEW l \in Nat \ {0}, NEW s \in 0..5, NEW o \in 0 .. l - 1,
         NEW i, i = 3 * l * (l - 1) + s * l + o + 1
  PROVE  i \in Nat \ {0} /\ HexNode(i) = At(l, s, o)
<1> DEFINE q == 3 * l * (l - 1)
           p == s * l + o
<1>1. q \in Nat /\ p \in Nat /\ i = q + p + 1
  <2>1. l * (l - 1) \in Nat /\ s * l \in Nat
    OBVIOUS
  <2>2. q = 3 * (l * (l - 1))
    OBVIOUS
  <2> QED
    BY <2>1, <2>2
<1>2. p < 6 * l /\ (s = 0 => p = o) /\ (s # 0 => p >= l)
  <2>1. s = 0 \/ s = 1 \/ s = 2 \/ s = 3 \/ s = 4 \/ s = 5
    OBVIOUS
  <2> QED
    BY <2>1
<1>3. 3 * l * (l + 1) = q + 6 * l
  OBVIOUS
<1>4. p \div l = s /\ p % l = o
  BY QuotientIs
<1> HIDE DEF p, q
<1>5. i \in Nat \ {0} /\ q <= i - 1 /\ i - 1 < q + 6 * l
  BY <1>1, <1>2
<1>6. LayerOf(i) = l
  BY <1>3, <1>5, LayerIs DEF q
<1>7. i - 1 - 3 * l * (l - 1) = p
  BY <1>1 DEF q
<1>8. HexNode(i) = At(l, s, o)
  <2>1. HexNode(i) = CASE p = 0           -> <<l - 1, 1 - l>>
                       [] p \in 1 .. l - 1 -> <<l, o - l>>
                       [] s = 1 -> <<l - o, o>>
                       [] s = 2 -> <<-o, l>>
                       [] s = 3 -> <<-l, l - o>>
                       [] s = 4 -> <<o - l, -o>>
                       [] s = 5 -> <<o, -l>>
    BY <1>4, <1>6, <1>7 DEF HexNode
  <2>2. p = 0 <=> s = 0 /\ o = 0
    BY <1>1, <1>2
  <2>3. p \in 1 .. l - 1 <=> s = 0 /\ o # 0
    BY <1>1, <1>2
  <2> QED
    BY <2>1, <2>2, <2>3 DEF At
<1> QED
  BY <1>5, <1>8

\* The hexagon with any number of particles is solid.
LEMMA HexSolid ==
  ASSUME NEW k \in Nat \ {0}
  PROVE  Solid(HexShape(k))
<1> DEFINE Place(i, l, s, o) == i = 3 * l * (l - 1) + s * l + o + 1
           Built(i) == /\ Solid(HexShape(i))
                       /\ \E l \in Nat \ {0}, s \in 0..5 : \E o \in 0 .. l - 1 :
                            Place(i, l, s, o) /\ HexShape(i) = Spiral(l, s, o + 1)
           T == {i \in Nat : ~ Built(i + 1)}
<1>1. Built(1)
  <2>1. Place(1, 1, 0, 0) /\ 0 \in 0 .. 1 - 1 /\ 1 \in Nat \ {0} /\ 0 \in 0..5
    OBVIOUS
  <2>2. HexNode(1) = At(1, 0, 0) /\ At(1, 0, 0) \in Node
    BY <2>1, HexNodeIs, SpiralGrows
  <2>3. HexShape(1) = {HexNode(1)}
    BY DEF HexShape
  <2>4. Spiral(1, 0, 0) = {}
    <3>1. \A x, y \in Int : ~ Passed(x, y, 1, 0, 0)
      BY DEF Passed
    <3> QED
      BY <3>1 DEF Spiral, Node
  <2>5. HexShape(1) = Spiral(1, 0, 0 + 1)
    <3>1. Spiral(1, 0, 0) \cup {At(1, 0, 0)} = Spiral(1, 0, 0 + 1)
      BY <2>1, SpiralGrows
    <3> QED
      BY <2>2, <2>3, <2>4, <3>1
  <2>6. Solid(HexShape(1))
    BY <2>2, <2>3, OneSolid
  <2> QED
    BY <2>1, <2>5, <2>6
<1>2. ASSUME NEW i \in Nat \ {0}, Built(i) PROVE Built(i + 1)
  <2>1. PICK l \in Nat \ {0}, s \in 0..5 : \E o \in 0 .. l - 1 :
               Place(i, l, s, o) /\ HexShape(i) = Spiral(l, s, o + 1)
    BY <1>2
  <2>2. PICK o \in 0 .. l - 1 : Place(i, l, s, o) /\ HexShape(i) = Spiral(l, s, o + 1)
    BY <2>1
  <2>3. ASSUME NEW m \in Nat \ {0}, NEW t \in 0..5, NEW u \in 0 .. m - 1, m # 1 \/ t # 0 \/ u # 0,
               Place(i + 1, m, t, u), HexShape(i) = Spiral(m, t, u)
        PROVE  Built(i + 1)
    <3> DEFINE n == At(m, t, u)
    <3>1. HexNode(i + 1) = n
      BY <2>3, HexNodeIs
    <3>2. HexShape(i + 1) = HexShape(i) \cup {HexNode(i + 1)}
      BY DEF HexShape
    <3>3. n \in Node /\ n \notin HexShape(i) /\ HexShape(i) \cup {n} = Spiral(m, t, u + 1)
      BY <2>3, SpiralGrows
    <3>4. Cardinality(EndsOf(Taken(n, HexShape(i)))) = 1
      BY <2>3, SpiralRun
    <3>5. HexShape(i) \in SUBSET Node
      BY <2>3 DEF Spiral
    <3> HIDE DEF n
    <3>6. Solid(HexShape(i) \cup {n})
      BY <1>2, <3>3, <3>4, <3>5, GrownSolid
    <3>7. Solid(HexShape(i + 1)) /\ HexShape(i + 1) = Spiral(m, t, u + 1)
      BY <3>1, <3>2, <3>3, <3>6
    <3> QED
      BY <2>3, <3>7
  <2>4. CASE o + 1 < l
    <3>1. Place(i + 1, l, s, o + 1) /\ o + 1 \in 0 .. l - 1 /\ o + 1 # 0
      BY <2>2, <2>4
    <3> QED
      BY <2>2, <2>3, <3>1
  <2>5. CASE o + 1 = l /\ s # 5
    <3>1. Place(i + 1, l, s + 1, 0) /\ 0 \in 0 .. l - 1 /\ s + 1 \in 0..5 /\ s + 1 # 0
      BY <2>2, <2>5
    <3>2. HexShape(i) = Spiral(l, s + 1, 0)
      BY <2>2, <2>5, SpiralGrows
    <3> QED
      BY <2>3, <3>1, <3>2
  <2>6. CASE o + 1 = l /\ s = 5
    <3>1. Place(i + 1, l + 1, 0, 0) /\ 0 \in 0 .. l + 1 - 1 /\ l + 1 \in Nat \ {0} /\ l + 1 # 1 /\ 0 \in 0..5
      BY <2>2, <2>6
    <3>2. HexShape(i) = Spiral(l, 5 + 1, 0)
      BY <2>2, <2>6, SpiralGrows
    <3>3. HexShape(i) = Spiral(l + 1, 0, 0)
      BY <3>2, SpiralGrows
    <3> QED
      BY <2>3, <3>1, <3>3
  <2> QED
    BY <2>4, <2>5, <2>6
<1> HIDE DEF Built
<1>3. T = {}
  <2> SUFFICES ASSUME T # {} PROVE FALSE
    OBVIOUS
  <2>1. PICK j \in T : \A i \in T : j <= i
    BY NatLeast
  <2>2. j # 0 /\ j - 1 \in Nat /\ j \in Nat \ {0}
    BY <1>1
  <2>3. Built(j - 1 + 1) /\ j - 1 + 1 = j
    BY <2>1, <2>2
  <2>4. Built(j + 1)
    BY <1>2, <2>2, <2>3
  <2> QED
    BY <2>4
<1>4. Built(k - 1 + 1) /\ k - 1 + 1 = k
  <2>1. k - 1 \in Nat /\ k - 1 + 1 = k
    OBVIOUS
  <2> QED
    BY <1>3, <2>1
<1> QED
  BY <1>4 DEF Built

\* What the constructor fills: a hexagon or a line, of at least one particle.
Constructed ==
  \A nodes \in Starts :
    \/ \E k \in Nat \ {0} : nodes = HexShape(k)
    \/ \E a \in Int, k \in Nat : nodes = {<<i, 0>> : i \in a .. a + k}

\* All of them are solid.
LEMMA ConstructedSolid ==
  ASSUME Constructed
  PROVE  \A nodes \in Starts : Solid(nodes)
<1> SUFFICES ASSUME NEW nodes \in Starts PROVE Solid(nodes)
  OBVIOUS
<1>1. ASSUME NEW k \in Nat \ {0}, nodes = HexShape(k) PROVE Solid(nodes)
  BY <1>1, HexSolid
<1>2. ASSUME NEW a \in Int, NEW k \in Nat, nodes = {<<i, 0>> : i \in a .. a + k}
      PROVE  Solid(nodes)
  BY <1>2, LineSolid
<1> QED
  BY <1>1, <1>2 DEF Constructed

-----------------------------------------------------------------------------
(* The perimeter is right and no hole forms                                *)

\* The measure is right for a solid figure, whatever is expanded meanwhile.
LEMMA PerimeterOfSolid ==
  ASSUME TypeOK, Apart, Solid(settled)
  PROVE  PerimeterRight
<1> DEFINE V == Cardinality(settled)
           E == Cardinality(Edges(settled))
           T == Cardinality(Triangles(settled))
<1>1. settled \in SUBSET Node /\ IsFiniteSet(settled)
  BY SettledNode DEF settled, Solid
<1>2. Perimeter = 3 * V - E - 3
  BY <1>1, PerimeterIs
<1>3. V - E + T = 1
  BY DEF Solid, Euler
<1>4. V \in Nat /\ E \in Nat /\ T \in Nat
  <2>1. IsFiniteSet(SUBSET settled) /\ Triangles(settled) \subseteq SUBSET settled
    BY <1>1, FS_SUBSET DEF Triangles
  <2> QED
    BY <1>1, <2>1, EdgesFinite, FS_Subset, FS_CardinalityType
<1>5. Perimeter = 2 * E - 3 * T
  <2> HIDE DEF V, E, T
  <2> QED
    BY <1>2, <1>3, <1>4
<1> QED
  BY <1>5 DEF PerimeterRight, Edges, Triangles

\* No step makes a hole, or joins two ends of the figure round one.
LEMMA SolidStep == IInv /\ Solid(settled) /\ [Next]_vars => Solid(settled)'
<1> SUFFICES ASSUME IInv, Solid(settled), [Next]_vars PROVE Solid(settled')
  BY DEF Solid, Euler, NoHole, Edges, Triangles, Adjacent, Nbrs
<1>1. settled \subseteq Node
  BY SettledNode DEF IInv, settled
<1>2. ASSUME NEW p \in particles, GoOn(p) PROVE Solid(settled')
  <2> DEFINE h == body[p].head
  <2>1. /\ p \in settled /\ h \in Nbrs(p) /\ h \in Node /\ h \notin settled
        /\ Chain!Property1(p, h) \/ Chain!Property2(p, h)
        /\ settled' = (settled \ {p}) \cup {h}
        /\ Chain!Jump(p, h)
    BY <1>2, GoOnJumps
  <2>2. Cardinality(Nbrs(p) \cap settled) # 5
    <3>1. Chain!Cardinality(Chain!Nbrs(p) \cap settled) # 5
      BY <2>1 DEF Chain!Jump
    <3> QED
      BY <3>1, ChainTerms, ChainCounts
  <2> HIDE DEF h
  <2>3. Solid((settled \ {p}) \cup {h})
    BY <1>1, <2>1, <2>2, JumpKeepsSolid
  <2> QED
    BY <2>1, <2>3
<1> QED
  BY <1>2, StepCases

\* The figure is solid from its construction on.
LEMMA SolidCorrect ==
  ASSUME Constructed
  PROVE  Spec => []Solid(settled)
<1>1. Init => Solid(settled)
  <2> SUFFICES ASSUME NEW nodes \in Starts, NEW compass \in [nodes -> Orientation],
                      body = [n \in nodes |-> [head |-> n, globalTailDir |-> -1,
                                               orientation |-> compass[n]]]
               PROVE  Solid(settled)
    BY DEF Init
  <2>1. settled = nodes
    BY DEF settled, particles
  <2> QED
    BY <2>1, ConstructedSolid
<1> QED
  BY <1>1, SolidStep, InvCorrect, PTL DEF Spec

\* From every start the constructor makes, of any size, the measure of the
\* perimeter is right at any time, also while particles are expanded.
THEOREM PerimeterCorrect ==
  ASSUME Constructed
  PROVE  Spec => []PerimeterRight
<1>1. IInv /\ Solid(settled) => PerimeterRight
  BY PerimeterOfSolid DEF IInv
<1> QED
  BY <1>1, InvCorrect, SolidCorrect, PTL

\* Nor does a hole ever form: no finite set of free nodes is ever shut off by
\* the settled particles, whatever the order of their moves.
THEOREM NoHoleForms ==
  ASSUME Constructed
  PROVE  Spec => []NoHole(settled)
<1>1. Solid(settled) => NoHole(settled)
  BY DEF Solid
<1> QED
  BY <1>1, SolidCorrect, PTL

=============================================================================
