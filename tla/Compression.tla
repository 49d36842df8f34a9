----------------------------- MODULE Compression -----------------------------
(***************************************************************************)
(* alg/compression.cpp: a particle expands into a free node and, at a      *)
(* later activation, goes on to it or back, by what it counts around both  *)
(* ends; others do the same around it meanwhile.                           *)
(*                                                                         *)
(* The particles differ in nothing but their place, so a particle is named *)
(* by the node it is settled on: its head, or its tail while it is         *)
(* expanded.  Of the random numbers only the outcome of the comparison     *)
(* q < lambda^(after - before) is kept, lambda being greater than 1.       *)
(***************************************************************************)
EXTENDS Amoebots

CONSTANTS
  Starts,         \* the sets of nodes the constructor fills
  Orientation,    \* the compass offsets it draws from
  Region          \* bound: the nodes particles can expand into

\* Hexagons and lines; the compasses are directions.
ASSUME StartsAssumption ==
  /\ \A nodes \in Starts : nodes \subseteq Node /\ IsFiniteSet(nodes) /\ Connected(nodes)
  /\ Orientation \subseteq Dir

VARIABLES
  numNbrsBefore,  \* of the expanded particles: set on expansion, and read only
  flag            \* until the contraction after it

vars == <<body, objects, numNbrsBefore, flag>>

settled == particles
expanded == {p \in particles : IsExpanded(body[p])}

HasExpNbr(p) ==
  \E l \in UniqueLabels(body[p]) : HasNbrAtLabel(p, l) /\ NbrAtLabel(p, l) \in expanded

HasExpHeadAtLabel(p, l) == HasHeadAtLabel(p, l) /\ NbrAtLabel(p, l) \in expanded

\* The ports at which there is a neighbour, heads of expanded ones left aside;
\* mutant: heads are not left aside.
NbrLabelsAndHeads(p) == {l \in Labels(body[p]) : HasNbrAtLabel(p, l)}
NbrLabels(p) ==
  {l \in Labels(body[p]) : HasNbrAtLabel(p, l) /\ ~ HasExpHeadAtLabel(p, l)}

NbrCount(p, L) == Cardinality(L \cap NbrLabels(p))

\* The labels of one end are five in a row; the last of them and the first of
\* the other end reach the same node.
LastOf(L) == CHOOSE l \in L : (l + 1) % 10 \notin L

S(p) == {LastOf(HeadLabels(body[p])), LastOf(TailLabels(body[p]))} \cap NbrLabels(p)

\* The sweeps of checkProp1 from label s, either way round the unique labels,
\* each up to the first one without a neighbour.
Sweep(U, D, s) ==
  LET place(l) == Cardinality({k \in U : k < l})
      size     == Cardinality(U)
      at(i)    == CHOOSE l \in U : place(l) = i % size
      ahead(k) == at(place(s) + k)
      back(k)  == at(place(s) - k + size)
  IN  {s} \cup {ahead(k) : k \in {j \in 1 .. size - 1 : \A i \in 1..j : ahead(i) \in D}}
          \cup {back(k)  : k \in {j \in 1 .. size - 1 : \A i \in 1..j : back(i) \in D}}

CheckProp1(p) ==
  LET U == UniqueLabels(body[p])
  IN  /\ S(p) # {}
      /\ Cardinality(UNION {Sweep(U, NbrLabels(p), s) : s \in S(p)}) = NbrCount(p, U)

\* Mutant: two groups of neighbours are accepted at either end.
CheckProp2TwoRuns(p) ==
  /\ S(p) = {}
  /\ \A L \in {HeadLabels(body[p]), TailLabels(body[p])} : L \cap NbrLabels(p) # {}

\* The neighbours of the head, and those of the tail, are one run of labels.
CheckProp2(p) ==
  /\ S(p) = {}
  /\ \A L \in {HeadLabels(body[p]), TailLabels(body[p])} :
       Cardinality({l \in L \cap NbrLabels(p) : (l + 1) % 10 \notin L \cap NbrLabels(p)}) = 1

-----------------------------------------------------------------------------
Init ==
  /\ objects = {}
  /\ \E nodes \in Starts : \E compass \in [nodes -> Orientation] :
       body = [n \in nodes |-> [head |-> n, globalTailDir |-> -1, orientation |-> compass[n]]]
  /\ numNbrsBefore = << >>
  /\ flag = << >>

\* A contracted particle, with a random direction.
Expand(p, l) ==
  /\ CanExpand(p, l)
  /\ ~ HasExpNbr(p)
  /\ NbrNode(body[p], l) \in Region
  /\ body' = AfterExpand(p, l)
  /\ numNbrsBefore' = [q \in expanded' |->
                         IF q = p THEN NbrCount(p, UniqueLabels(body[p])) ELSE numNbrsBefore[q]]
  /\ flag' = [q \in expanded' |-> IF q = p THEN ~ HasExpNbr(p)' ELSE flag[q]]
  /\ UNCHANGED objects

\* Mutants: expanded neighbours are not heeded; neither are five neighbours.
MayGoOnUnflagged(p) ==
  numNbrsBefore[p] # 5 /\ (CheckProp1(p) \/ CheckProp2(p))
MayGoOnLeavingHole(p) ==
  flag[p] /\ (CheckProp1(p) \/ CheckProp2(p))

MayGoOn(p) ==
  flag[p] /\ numNbrsBefore[p] # 5 /\ (CheckProp1(p) \/ CheckProp2(p))

Forget(p) ==
  /\ numNbrsBefore' = [q \in expanded' |-> numNbrsBefore[q]]
  /\ flag' = [q \in expanded' |-> flag[q]]
  /\ UNCHANGED objects

\* contractTail(): the particle is settled on its head from now on.
GoOn(p) ==
  /\ IsExpanded(body[p])
  /\ MayGoOn(p)
  /\ body' = [n \in (particles \ {p}) \cup {body[p].head} |->
                IF n = body[p].head THEN TailContracted(body[p]) ELSE body[n]]
  /\ Forget(p)

\* contractHead(); the random number decides only when neighbours are lost.
GoBack(p) ==
  /\ IsExpanded(body[p])
  /\ ~ MayGoOn(p) \/ NbrCount(p, HeadLabels(body[p])) < numNbrsBefore[p]
  /\ body' = AfterContractHead(p)
  /\ Forget(p)

Next ==
  \E p \in particles :
    (\E l \in Dir : IsContracted(body[p]) /\ Expand(p, l)) \/ GoOn(p) \/ GoBack(p)

Spec == Init /\ [][Next]_vars

\* PerimeterMeasure::calculate; mutant: the edges at both ends count.
PerimeterOfBothEnds ==
  LET edges[P \in SUBSET particles] ==
        IF P = {} THEN 0
        ELSE LET p == CHOOSE p \in P : TRUE
             IN  NbrCount(p, UniqueLabels(body[p])) + edges[P \ {p}]
  IN  3 * Cardinality(particles) - edges[particles] \div 2 - 3
Perimeter ==
  LET Ends(p)  == IF IsContracted(body[p]) THEN UniqueLabels(body[p]) ELSE TailLabels(body[p])
      edges[P \in SUBSET particles] ==
        IF P = {} THEN 0
        ELSE LET p == CHOOSE p \in P : TRUE IN NbrCount(p, Ends(p)) + edges[P \ {p}]
  IN  3 * Cardinality(particles) - edges[particles] \div 2 - 3

-----------------------------------------------------------------------------
(* Properties                                                              *)

\* The type invariant: a particle is named by the node it is settled on.
TypeOK ==
  /\ body \in [particles -> Body]
  /\ \A p \in particles : p = (IF IsExpanded(body[p]) THEN TailNode(body[p]) ELSE body[p].head)
  /\ numNbrsBefore \in [expanded -> 0..6]
  /\ flag \in [expanded -> BOOLEAN]

\* While a particle that may go on is expanded, what it counted before has not
\* changed: its neighbours cannot have moved.
CountsCurrent ==
  \A p \in expanded : flag[p] => numNbrsBefore[p] = Cardinality(Nbrs(p) \cap settled)

\* What an expanded particle knows is well-formed and current.
ExpandedKnow == TypeOK /\ CountsCurrent

\* The measured perimeter is the length of the walk round the settled
\* particles: each side of a triangle of them counts, those between two
\* triangles not; in particular they are connected and have no hole.
PerimeterRight ==
  LET pairs     == {e \in settled \X settled : Adjacent(e[1], e[2])}
      edges     == {{e[1], e[2]} : e \in pairs}
      triangles == {t \in SUBSET settled : Cardinality(t) = 3 /\
                                           \A m, n \in t : m # n => Adjacent(m, n)}
  IN  Perimeter = 2 * Cardinality(edges) - 3 * Cardinality(triangles)

\* The settled particles stay connected.
StaysConnected == Connected(settled)

Chain == INSTANCE CompressionChain

\* Whatever the others do meanwhile, expanding and going on amounts to a move
\* of the chain, made at the time of going on.
ImplementsChain == Chain!Spec
=============================================================================
