------------------------ MODULE ShapeFormation_proofs ------------------------
(***************************************************************************)
(* ShapeFormation, proved for every start, all compasses and every order   *)
(* of activations: in all five modes nobody loses the surface or the way   *)
(* to it, the system stays in one piece, and the shape is always one of    *)
(* the figures, node by node.                                              *)
(*                                                                         *)
(* The proof has two halves that meet in IInv.  One is about the particles *)
(* that move: whatever the shape, they stay beside it as long as it walls  *)
(* no free node in (Core).  The other is about the shape: it grows side by *)
(* side (Grown), so that no node is walled in.                             *)
(***************************************************************************)
EXTENDS ShapeFormation, Geometry_proofs, FiniteSetTheorems

-----------------------------------------------------------------------------
(* The figures                                                             *)
(*                                                                         *)
(* Each figure but the line grows in rounds k = 1, 2, ... of sides s = 0,  *)
(* 1, ... of nodes j = 1, 2, ...: at stage (k, s, j) the rounds before k,  *)
(* the sides before s and the nodes before j of this side are filled, and  *)
(* node j of the side is the one to be filled.  Nodes and directions are   *)
(* those that the seed sees.  The hexagon is that of Geometry_proofs.      *)

\* The square, and the turn signals along its sides.
SquareLength(k, s) == IF s = 0 THEN 2 * k - 1 ELSE IF s = 3 THEN 2 * k + 1 ELSE 2 * k
SquareNext(k, s, j) ==
  << <<k, k - j>>, <<k - j + 1, - k>>, <<- k, j - k - 1>>, <<j - k - 1, k>> >>[s + 1]
SquareDir(s, j) == IF j = 1 THEN <<0, 4, 3, 1>>[s + 1] ELSE <<4, 3, 1, 0>>[s + 1]
SquareSignal(s, j) == IF j = 1 THEN (s + 1) % 2 ELSE s % 2
SquareFilled(k, s, j, n) ==
  \/ /\ n[1] < k + (IF s >= 1 THEN 1 ELSE 0) /\ - n[2] < k + (IF s >= 2 THEN 1 ELSE 0)
     /\ - n[1] < k + (IF s >= 3 THEN 1 ELSE 0) /\ n[2] < k
  \/ s = 0 /\ n[1] = k /\ n[2] \in k - j + 1 .. k - 1
  \/ s = 1 /\ n[2] = - k /\ n[1] \in k - j + 2 .. k
  \/ s = 2 /\ n[1] = - k /\ n[2] \in - k .. j - k - 2
  \/ s = 3 /\ n[2] = k /\ n[1] \in - k .. j - k - 2
SquareTwice(k, s, j) ==
  2 * ((2 * k - 1) * (2 * k - 1) + <<0, 2 * k - 1, 4 * k - 1, 6 * k - 1>>[s + 1] + j - 1)

\* The triangle with the seed at a vertex, row after row to and fro.
ConeLength(k, s) == 2 * k + s
ConeNext(k, s, j) == << <<2 * k - j, j - 1>>, <<j - 1, 2 * k - j + 1>> >>[s + 1]
ConeDir(s, j) == IF j = 1 THEN s ELSE <<2, 5>>[s + 1]
ConeSignal(s, j) == IF j = 1 THEN s ELSE 0
ConeFilled(k, s, j, n) ==
  /\ n[1] >= 0 /\ n[2] >= 0
  /\ \/ n[1] + n[2] < 2 * k - 1 + s
     \/ n[1] + n[2] = 2 * k - 1 + s /\ n[2 - s] < j - 1
ConeTwice(k, s, j) == (2 * k - 1 + s) * (2 * k + s) + 2 * (j - 1)

\* The triangle that goes round the seed.
SpiralLength(k, s) == 3 * k - 1 + s
SpiralNext(k, s, j) == << <<k, k - j>>, <<k - j + 1, j - 2 * k - 1>>, <<j - 2 * k - 1, k>> >>[s + 1]
SpiralDir(s, j) == IF j = 1 THEN <<0, 4, 2>>[s + 1] ELSE <<4, 2, 0>>[s + 1]
SpiralFilled(k, s, j, n) ==
  /\ - k <= n[1] + n[2]
  /\ \/ /\ n[1] < k + (IF s >= 1 THEN 1 ELSE 0) /\ - n[1] - n[2] < k + (IF s >= 2 THEN 1 ELSE 0)
        /\ n[2] < k
     \/ s = 0 /\ n[1] = k /\ n[2] \in k - j + 1 .. k - 1
     \/ s = 1 /\ n[1] + n[2] = - k /\ n[1] \in k - j + 2 .. k
     \/ s = 2 /\ n[2] = k /\ n[1] \in - 2 * k .. j - 2 * k - 2
SpiralTwice(k, s, j) == (3 * k - 2 + s) * (3 * k - 1 + s) + 2 * (j - 1)

\* The four together: the sides of a round, the nodes of a side; the node to be
\* filled, and the direction and the signal with which the last one points at
\* it; the nodes that are filled, and twice their number.
Figures == {"h", "s", "t1", "t2"}
EndSide(m) == CASE m = "h" -> 5 [] m = "s" -> 3 [] m = "t1" -> 1 [] m = "t2" -> 2
SideLength(m, k, s) ==
  CASE m = "h"  -> HexLength(k, s)  [] m = "s"  -> SquareLength(k, s)
    [] m = "t1" -> ConeLength(k, s) [] m = "t2" -> SpiralLength(k, s)
NextNode(m, k, s, j) ==
  CASE m = "h"  -> HexNext(k, s, j)  [] m = "s"  -> SquareNext(k, s, j)
    [] m = "t1" -> ConeNext(k, s, j) [] m = "t2" -> SpiralNext(k, s, j)
NextDir(m, s, j) ==
  CASE m = "h"  -> HexDir(s, j)  [] m = "s"  -> SquareDir(s, j)
    [] m = "t1" -> ConeDir(s, j) [] m = "t2" -> SpiralDir(s, j)
NextSignal(m, s, j) == IF m = "s" THEN SquareSignal(s, j) ELSE ConeSignal(s, j)
Filled(m, k, s, j, n) ==
  CASE m = "h"  -> HexFilled(k, s, j, n)  [] m = "s"  -> SquareFilled(k, s, j, n)
    [] m = "t1" -> ConeFilled(k, s, j, n) [] m = "t2" -> SpiralFilled(k, s, j, n)
Twice(m, k, s, j) ==
  CASE m = "h"  -> HexTwice(k, s, j)  [] m = "s"  -> SquareTwice(k, s, j)
    [] m = "t1" -> ConeTwice(k, s, j) [] m = "t2" -> SpiralTwice(k, s, j)

\* The stages of a figure, and the one after a stage.
Stage(m, k, s, j) == k \in Nat \ {0} /\ s \in 0 .. EndSide(m) /\ j \in 1 .. SideLength(m, k, s)

After(m, k, s, j) == Advanced(k, s, j, SideLength(m, k, s), EndSide(m))

\* updateConstructionDir() as the seed sees it: for a particle on n that sees
\* the one it receives from in direction r, where S is filled.
TurnSeen(m, r, fromSeed, signal, own, S, n) ==
  LET d(i)  == (r + i) % 6
      In(e)   == NodeInDir(n, e) \in S
      Past(e) == In(e) /\ NodeInDir(n, e) # <<0, 0>>
  IN  CASE m = "h"  -> LET e == IF fromSeed THEN d(1) ELSE d(2)
                       IN  <<IF Past(e) THEN (e + 1) % 6 ELSE e, own>>
        [] m = "s"  -> LET f == IF fromSeed THEN <<d(1), own>>
                                ELSE IF signal = 0 THEN <<d(2), 1>> ELSE <<d(1), 0>>
                       IN  IF ~ In(f[1]) THEN f
                           ELSE IF f[2] = 1 THEN <<(f[1] + 1) % 6, 0>> ELSE <<(f[1] + 2) % 6, 1>>
        [] m = "t1" -> LET left  == In(d(5))
                           right == ~ left /\ Past(d(1))
                           inRow == (left /\ Past(d(4))) \/ (right /\ Past(d(2)))
                       IN  IF fromSeed THEN <<d(5), own>>
                           ELSE IF inRow THEN <<d(3), own>>
                           ELSE IF left  THEN <<d(2), 1>>
                           ELSE IF right THEN <<d(4), 0>>
                           ELSE IF signal = 0 THEN <<d(5), own>> ELSE <<d(1), own>>
        [] m = "t2" -> <<IF In(d(1)) THEN d(3) ELSE d(1), own>>

-----------------------------------------------------------------------------
(* How the figures grow.  The node to be filled is free; the stages fill   *)
(* node after node; a figure walls no node in; and each turn leads on.     *)

\* Who fills the node to be filled, and turns, points at the next one.
LEMMA HexTurns ==
  ASSUME NEW k \in Nat \ {0}, NEW s \in 0..5, NEW j \in 1..HexLength(k, s), NEW S,
         \A m \in Node : m \in S <=> HexFilled(k, s, j, m),
         NEW signal, NEW own, NEW a, a = Advanced(k, s, j, HexLength(k, s), 5),
         NEW fromSeed \in BOOLEAN, fromSeed <=> k = 1 /\ s = 0 /\ j = 1
  PROVE  LET n == HexNext(k, s, j)
             w == TurnSeen("h", (HexDir(s, j) + 3) % 6, fromSeed, signal, own, S, n)
         IN  /\ w[1] = HexDir(a[2], a[3])
             /\ NodeInDir(n, HexDir(a[2], a[3])) = HexNext(a[1], a[2], a[3])
<1> DEFINE n == HexNext(k, s, j)
           w == TurnSeen("h", (HexDir(s, j) + 3) % 6, fromSeed, signal, own, S, n)
           T == {m \in S : m # <<0, 0>>}
<1> SUFFICES w[1] = HexDir(a[2], a[3]) /\ NodeInDir(n, HexDir(a[2], a[3])) = HexNext(a[1], a[2], a[3])
  OBVIOUS
<1>1. j \in 1..k
  BY DEF HexLength
<1>3. CASE s = 0
  <2>1. n = <<j, k - j>> /\ j \in Int /\ k - j \in Int
    BY <1>3 DEF HexNext
  <2>2. NodeInDir(n, 4) = <<j, k - j - 1>> /\ NodeInDir(n, 5) = <<j + 1, k - j - 1>>
        /\ NodeInDir(n, 0) = <<j + 1, k - j>>
    BY <2>1, StepsAre
  <2>3. /\ j < k => (<<j, k - j - 1>> \in T <=> TRUE)
        /\ j = k => <<j, k - j - 1>> \notin T
        /\ j = 1 => <<j + 1, k - j - 1>> \notin T
    BY <1>1, <1>3 DEF HexFilled, Inside, OnSide, Out, Node
  <2>4. w[1] = IF j = 1 THEN (IF k = 1 THEN 4 ELSE 5) ELSE IF j = k THEN 4 ELSE 5
    <3>1. CASE j = 1 /\ k = 1
      BY <1>3, <2>2, <2>3, <3>1 DEF TurnSeen, HexDir
    <3>2. CASE j = 1 /\ k # 1
      BY <1>3, <2>2, <2>3, <3>2 DEF TurnSeen, HexDir
    <3>3. CASE j # 1 /\ j = k
      BY <1>3, <2>2, <2>3, <3>3 DEF TurnSeen, HexDir
    <3>4. CASE j # 1 /\ j # k
      <4>1. j < k
        BY <1>1, <3>4
      <4> QED
        BY <1>3, <2>2, <2>3, <3>4, <4>1 DEF TurnSeen, HexDir
    <3> QED
      BY <3>1, <3>2, <3>3, <3>4
  <2> HIDE DEF w, n
  <2> QED
    BY <1>3, <2>2, <2>4 DEF Advanced, HexLength, HexNext, HexDir
<1>4. CASE s = 1
  <2>1. n = <<k, -j>> /\ k \in Int /\ -j \in Int
    BY <1>4 DEF HexNext
  <2>2. NodeInDir(n, 3) = <<k - 1, -j>> /\ NodeInDir(n, 4) = <<k, -j - 1>>
    BY <2>1, StepsAre
  <2>3. (<<k - 1, -j>> \in T <=> j < k)
    BY <1>1, <1>4 DEF HexFilled, Inside, OnSide, Out, Node
  <2>4. w[1] = IF j < k THEN 4 ELSE 3
    BY <1>4, <2>2, <2>3 DEF TurnSeen, HexDir
  <2> HIDE DEF w, n
  <2> QED
    BY <1>4, <2>2, <2>4 DEF Advanced, HexLength, HexNext, HexDir
<1>5. CASE s = 2
  <2>1. n = <<k - j, -k>> /\ k - j \in Int /\ -k \in Int
    BY <1>5 DEF HexNext
  <2>2. NodeInDir(n, 2) = <<k - j - 1, -k + 1>> /\ NodeInDir(n, 3) = <<k - j - 1, -k>>
    BY <2>1, StepsAre
  <2>3. (<<k - j - 1, -k + 1>> \in T <=> j < k)
    BY <1>1, <1>5 DEF HexFilled, Inside, OnSide, Out, Node
  <2>4. w[1] = IF j < k THEN 3 ELSE 2
    BY <1>5, <2>2, <2>3 DEF TurnSeen, HexDir
  <2> HIDE DEF w, n
  <2> QED
    BY <1>5, <2>2, <2>4 DEF Advanced, HexLength, HexNext, HexDir
<1>6. CASE s = 3
  <2>1. n = <<-j, j - k>> /\ -j \in Int /\ j - k \in Int
    BY <1>6 DEF HexNext
  <2>2. NodeInDir(n, 1) = <<-j, j - k + 1>> /\ NodeInDir(n, 2) = <<-j - 1, j - k + 1>>
    BY <2>1, StepsAre
  <2>3. (<<-j, j - k + 1>> \in T <=> j < k)
    BY <1>1, <1>6 DEF HexFilled, Inside, OnSide, Out, Node
  <2>4. w[1] = IF j < k THEN 2 ELSE 1
    BY <1>6, <2>2, <2>3 DEF TurnSeen, HexDir
  <2> HIDE DEF w, n
  <2> QED
    BY <1>6, <2>2, <2>4 DEF Advanced, HexLength, HexNext, HexDir
<1>7. CASE s = 4
  <2>1. n = <<-k, j>> /\ -k \in Int /\ j \in Int
    BY <1>7 DEF HexNext
  <2>2. NodeInDir(n, 0) = <<-k + 1, j>> /\ NodeInDir(n, 1) = <<-k, j + 1>>
    BY <2>1, StepsAre
  <2>3. (<<-k + 1, j>> \in T <=> j < k)
    BY <1>1, <1>7 DEF HexFilled, Inside, OnSide, Out, Node
  <2>4. w[1] = IF j < k THEN 1 ELSE 0
    BY <1>7, <2>2, <2>3 DEF TurnSeen, HexDir
  <2> HIDE DEF w, n
  <2> QED
    BY <1>7, <2>2, <2>4 DEF Advanced, HexLength, HexNext, HexDir
<1>8. CASE s = 5
  <2>1. n = <<j - k, k>> /\ j - k \in Int /\ k \in Int
    BY <1>8 DEF HexNext
  <2>2. NodeInDir(n, 5) = <<j - k + 1, k - 1>> /\ NodeInDir(n, 0) = <<j - k + 1, k>>
    BY <2>1, StepsAre
  <2>3. <<j - k + 1, k - 1>> \in T
    BY <1>1, <1>8 DEF HexFilled, Inside, OnSide, Out, Node
  <2>4. w[1] = 0
    BY <1>8, <2>2, <2>3 DEF TurnSeen, HexDir
  <2> HIDE DEF w, n
  <2> QED
    BY <1>8, <2>2, <2>4 DEF Advanced, HexLength, HexNext, HexDir
<1> QED
  BY <1>3, <1>4, <1>5, <1>6, <1>7, <1>8

\* The square: the node to be filled is free.
LEMMA SquareNextIs ==
  ASSUME NEW k \in Nat \ {0}, NEW s \in 0..3, NEW j \in 1..SquareLength(k, s)
  PROVE  /\ SquareNext(k, s, j) \in Node
         /\ ~ SquareFilled(k, s, j, SquareNext(k, s, j))
  BY DEF SquareNext, SquareFilled, SquareLength, Node

\* The next node of the same side fills just the node to be filled.
LEMMA SquareGrow1 ==
  ASSUME NEW k \in Nat \ {0}, NEW s \in 0..3, NEW j \in 1..SquareLength(k, s),
         j < SquareLength(k, s), NEW n \in Node
  PROVE  /\ SquareFilled(k, s, j + 1, n) <=> SquareFilled(k, s, j, n) \/ n = SquareNext(k, s, j)
         /\ SquareTwice(k, s, j + 1) = SquareTwice(k, s, j) + 2
<1>1. SquareFilled(k, s, j + 1, n) <=> SquareFilled(k, s, j, n) \/ n = SquareNext(k, s, j)
  BY DEF SquareNext, SquareFilled, SquareLength, Node
<1>2. SquareTwice(k, s, j + 1) = SquareTwice(k, s, j) + 2
  BY DEF SquareTwice, SquareLength
<1> QED
  BY <1>1, <1>2

\* So does the first node of the next side.
LEMMA SquareGrow2 ==
  ASSUME NEW k \in Nat \ {0}, NEW s \in 0..2, NEW j, j = SquareLength(k, s), NEW n \in Node
  PROVE  /\ SquareFilled(k, s + 1, 1, n) <=> SquareFilled(k, s, j, n) \/ n = SquareNext(k, s, j)
         /\ SquareTwice(k, s + 1, 1) = SquareTwice(k, s, j) + 2
<1>1. SquareFilled(k, s + 1, 1, n) <=> SquareFilled(k, s, j, n) \/ n = SquareNext(k, s, j)
  BY DEF SquareNext, SquareFilled, SquareLength, Node
<1>2. SquareTwice(k, s + 1, 1) = SquareTwice(k, s, j) + 2
  BY DEF SquareTwice, SquareLength
<1> QED
  BY <1>1, <1>2

\* So does the first node of the next round.
LEMMA SquareGrow3 ==
  ASSUME NEW k \in Nat \ {0}, NEW j, j = SquareLength(k, 3), NEW n \in Node
  PROVE  /\ SquareFilled(k + 1, 0, 1, n) <=> SquareFilled(k, 3, j, n) \/ n = SquareNext(k, 3, j)
         /\ SquareTwice(k + 1, 0, 1) = SquareTwice(k, 3, j) + 2
<1>1. SquareFilled(k + 1, 0, 1, n) <=> SquareFilled(k, 3, j, n) \/ n = SquareNext(k, 3, j)
  BY DEF SquareNext, SquareFilled, SquareLength, Node
<1>2. SquareTwice(k + 1, 0, 1) = SquareTwice(k, 3, j) + 2
  BY DEF SquareTwice, SquareLength
<1> QED
  BY <1>1, <1>2

\* From each free node some step leads to a free node.
LEMMA SquareOpen ==
  ASSUME NEW k \in Nat \ {0}, NEW s \in 0..3, NEW j \in 1..SquareLength(k, s), NEW n \in Node,
         ~ SquareFilled(k, s, j, n)
  PROVE  \E d \in Dir : ~ SquareFilled(k, s, j, NodeInDir(n, d))
<1>1. PICK x \in Int, y \in Int : n = <<x, y>>
  BY DEF Node
<1>2. x >= k \/ - x >= k \/ y >= k \/ - y >= k
  BY <1>1 DEF SquareFilled
<1>3. CASE x >= k
  BY <1>1, <1>3, StepsAre DEF SquareFilled, SquareLength, Dir
<1>4. CASE - x >= k
  BY <1>1, <1>4, StepsAre DEF SquareFilled, SquareLength, Dir
<1>5. CASE y >= k
  BY <1>1, <1>5, StepsAre DEF SquareFilled, SquareLength, Dir
<1>6. CASE - y >= k
  BY <1>1, <1>6, StepsAre DEF SquareFilled, SquareLength, Dir
<1> QED
  BY <1>2, <1>3, <1>4, <1>5, <1>6

\* Its first stage is the seed alone.
LEMMA SquareFirst ==
  ASSUME NEW n \in Node
  PROVE  (SquareFilled(1, 0, 1, n) <=> n = <<0, 0>>) /\ SquareTwice(1, 0, 1) = 2
  BY DEF SquareFilled, SquareTwice, Node

\* Who fills the node to be filled, and turns, points at the next one.
LEMMA SquareTurns ==
  ASSUME NEW k \in Nat \ {0}, NEW s \in 0..3, NEW j \in 1..SquareLength(k, s), NEW S,
         \A m \in Node : m \in S <=> SquareFilled(k, s, j, m),
         NEW signal, (k = 1 /\ s = 0 /\ j = 1) \/ signal = SquareSignal(s, j),
         NEW a, a = Advanced(k, s, j, SquareLength(k, s), 3),
         NEW fromSeed \in BOOLEAN, fromSeed <=> k = 1 /\ s = 0 /\ j = 1
  PROVE  LET n == SquareNext(k, s, j)
             w == TurnSeen("s", (SquareDir(s, j) + 3) % 6, fromSeed, signal, 0, S, n)
         IN  /\ w = <<SquareDir(a[2], a[3]), SquareSignal(a[2], a[3])>>
             /\ NodeInDir(n, SquareDir(a[2], a[3])) = SquareNext(a[1], a[2], a[3])
<1> DEFINE n == SquareNext(k, s, j)
           w == TurnSeen("s", (SquareDir(s, j) + 3) % 6, fromSeed, signal, 0, S, n)
<1> SUFFICES /\ w = <<SquareDir(a[2], a[3]), SquareSignal(a[2], a[3])>>
             /\ NodeInDir(n, SquareDir(a[2], a[3])) = SquareNext(a[1], a[2], a[3])
  OBVIOUS
<1>1. n \in Node
  BY SquareNextIs
<1>3. CASE s = 0
  <2>1. n = <<k, k - j>> /\ k \in Int /\ k - j \in Int
    BY <1>3 DEF SquareNext
  <2>2. NodeInDir(n, 4) = <<k, k - j - 1>> /\ NodeInDir(n, 3) = <<k - 1, k - j>>
    BY <2>1, StepsAre
  <2>3. /\ <<k, k - j - 1>> \notin S
        /\ j >= 2 => <<k - 1, k - j>> \in S
    BY <1>3 DEF SquareFilled, SquareLength, Node
  <2>4. CASE j = 1
    <3>1. k = 1 => w = <<4, 0>>
      BY <1>3, <2>2, <2>3, <2>4 DEF TurnSeen, SquareDir
    <3>2. k # 1 => w = <<4, 0>>
      BY <1>3, <2>2, <2>3, <2>4 DEF TurnSeen, SquareDir, SquareSignal
    <3> HIDE DEF w, n
    <3> QED
      BY <1>3, <2>2, <2>4, <3>1, <3>2 DEF Advanced, SquareNext, SquareDir, SquareSignal, SquareLength
  <2>5. CASE j # 1
    <3>1. w = <<4, 0>>
      BY <1>3, <2>2, <2>3, <2>5 DEF TurnSeen, SquareDir, SquareSignal
    <3> HIDE DEF w, n
    <3> QED
      BY <1>3, <2>2, <2>5, <3>1 DEF Advanced, SquareNext, SquareDir, SquareSignal, SquareLength
  <2> QED
    BY <2>4, <2>5
<1>4. CASE s = 1
  <2>1. n = <<k - j + 1, - k>> /\ - k \in Int /\ k - j + 1 \in Int
    BY <1>4 DEF SquareNext
  <2>2. NodeInDir(n, 3) = <<k - j, - k>> /\ NodeInDir(n, 1) = <<k - j + 1, - k + 1>>
    BY <2>1, StepsAre
  <2>3. /\ <<k - j, - k>> \notin S
        /\ j >= 2 => <<k - j + 1, - k + 1>> \in S
    BY <1>4 DEF SquareFilled, SquareLength, Node
  <2>4. w = <<3, 1>>
    <3>1. CASE j = 1
      BY <1>4, <2>2, <2>3, <3>1 DEF TurnSeen, SquareDir, SquareSignal
    <3>2. CASE j # 1
      BY <1>4, <2>2, <2>3, <3>2 DEF TurnSeen, SquareDir, SquareSignal
    <3> QED
      BY <3>1, <3>2
  <2> HIDE DEF w, n
  <2> QED
    BY <1>4, <2>2, <2>4 DEF Advanced, SquareNext, SquareDir, SquareSignal, SquareLength
<1>5. CASE s = 2
  <2>1. n = <<- k, j - k - 1>> /\ - k \in Int /\ j - k - 1 \in Int
    BY <1>5 DEF SquareNext
  <2>2. NodeInDir(n, 1) = <<- k, j - k>> /\ NodeInDir(n, 0) = <<- k + 1, j - k - 1>>
    BY <2>1, StepsAre
  <2>3. /\ <<- k, j - k>> \notin S
        /\ j >= 2 => <<- k + 1, j - k - 1>> \in S
    BY <1>5 DEF SquareFilled, SquareLength, Node
  <2>4. w = <<1, 0>>
    <3>1. CASE j = 1
      BY <1>5, <2>2, <2>3, <3>1 DEF TurnSeen, SquareDir, SquareSignal
    <3>2. CASE j # 1
      BY <1>5, <2>2, <2>3, <3>2 DEF TurnSeen, SquareDir, SquareSignal
    <3> QED
      BY <3>1, <3>2
  <2> HIDE DEF w, n
  <2> QED
    BY <1>5, <2>2, <2>4 DEF Advanced, SquareNext, SquareDir, SquareSignal, SquareLength
<1>6. CASE s = 3
  <2>1. n = <<j - k - 1, k>> /\ k \in Int /\ j - k - 1 \in Int
    BY <1>6 DEF SquareNext
  <2>2. NodeInDir(n, 0) = <<j - k, k>> /\ NodeInDir(n, 4) = <<j - k - 1, k - 1>>
    <3> HIDE DEF n, w
    <3>1. j - k - 1 + 1 = j - k
      OBVIOUS
    <3> QED
      BY <2>1, <3>1, StepsAre
  <2>3. /\ <<j - k, k>> \notin S
        /\ j >= 2 => <<j - k - 1, k - 1>> \in S
    BY <1>6 DEF SquareFilled, SquareLength, Node
  <2>4. w = <<0, 1>>
    <3>1. CASE j = 1
      BY <1>6, <2>2, <2>3, <3>1 DEF TurnSeen, SquareDir, SquareSignal
    <3>2. CASE j # 1
      BY <1>6, <2>2, <2>3, <3>2 DEF TurnSeen, SquareDir, SquareSignal
    <3> QED
      BY <3>1, <3>2
  <2> HIDE DEF w, n
  <2> QED
    BY <1>6, <2>2, <2>4 DEF Advanced, SquareNext, SquareDir, SquareSignal, SquareLength
<1> QED
  BY <1>3, <1>4, <1>5, <1>6

\* The triangle with the seed at a vertex: the node to be filled is free.
LEMMA ConeNextIs ==
  ASSUME NEW k \in Nat \ {0}, NEW s \in 0..1, NEW j \in 1..ConeLength(k, s)
  PROVE  /\ ConeNext(k, s, j) \in Node
         /\ ~ ConeFilled(k, s, j, ConeNext(k, s, j))
  BY DEF ConeNext, ConeFilled, ConeLength, Node

\* The next node of the same side fills just the node to be filled.
LEMMA ConeGrow1 ==
  ASSUME NEW k \in Nat \ {0}, NEW s \in 0..1, NEW j \in 1..ConeLength(k, s),
         j < ConeLength(k, s), NEW n \in Node
  PROVE  /\ ConeFilled(k, s, j + 1, n) <=> ConeFilled(k, s, j, n) \/ n = ConeNext(k, s, j)
         /\ ConeTwice(k, s, j + 1) = ConeTwice(k, s, j) + 2
<1>1. ConeFilled(k, s, j + 1, n) <=> ConeFilled(k, s, j, n) \/ n = ConeNext(k, s, j)
  BY DEF ConeNext, ConeFilled, ConeLength, Node
<1>2. ConeTwice(k, s, j + 1) = ConeTwice(k, s, j) + 2
  BY DEF ConeTwice, ConeLength
<1> QED
  BY <1>1, <1>2

\* So does the first node of the next side.
LEMMA ConeGrow2 ==
  ASSUME NEW k \in Nat \ {0}, NEW s \in 0..0, NEW j, j = ConeLength(k, s), NEW n \in Node
  PROVE  /\ ConeFilled(k, s + 1, 1, n) <=> ConeFilled(k, s, j, n) \/ n = ConeNext(k, s, j)
         /\ ConeTwice(k, s + 1, 1) = ConeTwice(k, s, j) + 2
<1>1. ConeFilled(k, s + 1, 1, n) <=> ConeFilled(k, s, j, n) \/ n = ConeNext(k, s, j)
  BY DEF ConeNext, ConeFilled, ConeLength, Node
<1>2. ConeTwice(k, s + 1, 1) = ConeTwice(k, s, j) + 2
  BY DEF ConeTwice, ConeLength
<1> QED
  BY <1>1, <1>2

\* So does the first node of the next round.
LEMMA ConeGrow3 ==
  ASSUME NEW k \in Nat \ {0}, NEW j, j = ConeLength(k, 1), NEW n \in Node
  PROVE  /\ ConeFilled(k + 1, 0, 1, n) <=> ConeFilled(k, 1, j, n) \/ n = ConeNext(k, 1, j)
         /\ ConeTwice(k + 1, 0, 1) = ConeTwice(k, 1, j) + 2
<1>1. ConeFilled(k + 1, 0, 1, n) <=> ConeFilled(k, 1, j, n) \/ n = ConeNext(k, 1, j)
  BY DEF ConeNext, ConeFilled, ConeLength, Node
<1>2. ConeTwice(k + 1, 0, 1) = ConeTwice(k, 1, j) + 2
  BY DEF ConeTwice, ConeLength
<1> QED
  BY <1>1, <1>2

\* Its first stage is the seed alone.
LEMMA ConeFirst ==
  ASSUME NEW n \in Node
  PROVE  (ConeFilled(1, 0, 1, n) <=> n = <<0, 0>>) /\ ConeTwice(1, 0, 1) = 2
  BY DEF ConeFilled, ConeTwice, Node

\* From each free node some step leads to a free node.
LEMMA ConeOpen ==
  ASSUME NEW k \in Nat \ {0}, NEW s \in 0..1, NEW j \in 1..ConeLength(k, s), NEW n \in Node,
         ~ ConeFilled(k, s, j, n)
  PROVE  \E d \in Dir : ~ ConeFilled(k, s, j, NodeInDir(n, d))
<1>1. PICK x \in Int, y \in Int : n = <<x, y>>
  BY DEF Node
<1>2. x < 0 \/ y < 0 \/ x + y >= 2 * k - 1 + s
  BY <1>1 DEF ConeFilled
<1>3. CASE x < 0
  BY <1>1, <1>3, StepsAre DEF ConeFilled, Dir
<1>4. CASE y < 0
  BY <1>1, <1>4, StepsAre DEF ConeFilled, Dir
<1>5. CASE x + y >= 2 * k - 1 + s
  BY <1>1, <1>5, StepsAre DEF ConeFilled, Dir
<1> QED
  BY <1>2, <1>3, <1>4, <1>5

\* Who fills the node to be filled, and turns, points at the next one.
LEMMA ConeTurns ==
  ASSUME NEW k \in Nat \ {0}, NEW s \in 0..1, NEW j \in 1..ConeLength(k, s), NEW S,
         \A m \in Node : m \in S <=> ConeFilled(k, s, j, m),
         NEW signal, (k = 1 /\ s = 0 /\ j = 1) \/ signal = ConeSignal(s, j),
         NEW a, a = Advanced(k, s, j, ConeLength(k, s), 1),
         NEW fromSeed \in BOOLEAN, fromSeed <=> k = 1 /\ s = 0 /\ j = 1
  PROVE  LET n == ConeNext(k, s, j)
             w == TurnSeen("t1", (ConeDir(s, j) + 3) % 6, fromSeed, signal, 0, S, n)
         IN  /\ w = <<ConeDir(a[2], a[3]), ConeSignal(a[2], a[3])>>
             /\ NodeInDir(n, ConeDir(a[2], a[3])) = ConeNext(a[1], a[2], a[3])
<1> DEFINE n == ConeNext(k, s, j)
           w == TurnSeen("t1", (ConeDir(s, j) + 3) % 6, fromSeed, signal, 0, S, n)
<1> SUFFICES /\ w = <<ConeDir(a[2], a[3]), ConeSignal(a[2], a[3])>>
             /\ NodeInDir(n, ConeDir(a[2], a[3])) = ConeNext(a[1], a[2], a[3])
  OBVIOUS
<1>3. CASE s = 0
  <2>1. n = <<2 * k - j, j - 1>> /\ 2 * k - j \in Int /\ j - 1 \in Int
    BY <1>3 DEF ConeNext
  <2>2. /\ NodeInDir(n, 1) = <<2 * k - j, j>> /\ NodeInDir(n, 2) = <<2 * k - j - 1, j>>
        /\ NodeInDir(n, 3) = <<2 * k - j - 1, j - 1>> /\ NodeInDir(n, 4) = <<2 * k - j, j - 2>>
    BY <2>1, StepsAre
  <2>3. CASE j = 1
    <3>1. <<2 * k - j - 1, j>> \notin S /\ <<2 * k - j, j - 2>> \notin S
      BY <1>3, <2>3 DEF ConeFilled, Node
    <3>2. k = 1 => w = <<2, 0>>
      BY <1>3, <2>2, <2>3, <3>1 DEF TurnSeen, ConeDir
    <3>3. k # 1 => w = <<2, 0>>
      BY <1>3, <2>2, <2>3, <3>1 DEF TurnSeen, ConeDir, ConeSignal
    <3> HIDE DEF w, n
    <3> QED
      BY <1>3, <2>2, <2>3, <3>2, <3>3 DEF Advanced, ConeNext, ConeDir, ConeSignal, ConeLength
  <2>4. CASE j # 1
    <3>1. <<2 * k - j, j - 2>> \in S
      BY <1>3, <2>4 DEF ConeFilled, ConeLength, Node
    <3>2. <<2 * k - j - 1, j - 1>> \in S <=> j < 2 * k
      BY <1>3, <2>4 DEF ConeFilled, ConeLength, Node
    <3>3. <<2 * k - j - 1, j - 1>> # <<0, 0>>
      BY <2>4
    <3>4. w = IF j < 2 * k THEN <<2, 0>> ELSE <<1, 1>>
      BY <1>3, <2>2, <2>4, <3>1, <3>2, <3>3 DEF TurnSeen, ConeDir
    <3> HIDE DEF w, n
    <3> QED
      BY <1>3, <2>2, <2>4, <3>4 DEF Advanced, ConeNext, ConeDir, ConeSignal, ConeLength
  <2> QED
    BY <2>3, <2>4
<1>4. CASE s = 1
  <2>1. n = <<j - 1, 2 * k - j + 1>> /\ 2 * k - j + 1 \in Int /\ j - 1 \in Int
    BY <1>4 DEF ConeNext
  <2>2. /\ NodeInDir(n, 0) = <<j, 2 * k - j + 1>> /\ NodeInDir(n, 1) = <<j - 1, 2 * k - j + 2>>
        /\ NodeInDir(n, 3) = <<j - 2, 2 * k - j + 1>> /\ NodeInDir(n, 4) = <<j - 1, 2 * k - j>>
        /\ NodeInDir(n, 5) = <<j, 2 * k - j>>
    BY <2>1, StepsAre
  <2>3. CASE j = 1
    <3>1. <<j - 2, 2 * k - j + 1>> \notin S /\ <<j, 2 * k - j>> \notin S
      BY <1>4, <2>3 DEF ConeFilled, Node
    <3>0. ~ fromSeed /\ signal = 1 /\ (ConeDir(s, j) + 3) % 6 = 4
      BY <1>4, <2>3 DEF ConeDir, ConeSignal
    <3>2. w = <<5, 0>>
      BY <2>2, <3>0, <3>1 DEF TurnSeen
    <3> HIDE DEF w, n
    <3> QED
      BY <1>4, <2>2, <2>3, <3>2 DEF Advanced, ConeNext, ConeDir, ConeSignal, ConeLength
  <2>4. CASE j # 1
    <3>1. <<j - 2, 2 * k - j + 1>> \in S /\ <<j - 1, 2 * k - j + 2>> \notin S
      BY <1>4, <2>4 DEF ConeFilled, ConeLength, Node
    <3>2. <<j - 1, 2 * k - j>> \in S <=> j < 2 * k + 1
      BY <1>4, <2>4 DEF ConeFilled, ConeLength, Node
    <3>3. <<j - 1, 2 * k - j>> # <<0, 0>> /\ <<j - 2, 2 * k - j + 1>> # <<0, 0>>
      BY <2>4
    <3>4. w = IF j < 2 * k + 1 THEN <<5, 0>> ELSE <<0, 0>>
      BY <1>4, <2>2, <2>4, <3>1, <3>2, <3>3 DEF TurnSeen, ConeDir
    <3> HIDE DEF w, n
    <3> QED
      BY <1>4, <2>2, <2>4, <3>4 DEF Advanced, ConeNext, ConeDir, ConeSignal, ConeLength
  <2> QED
    BY <2>3, <2>4
<1> QED
  BY <1>3, <1>4

\* The triangle round the seed: the node to be filled is free.
LEMMA SpiralNextIs ==
  ASSUME NEW k \in Nat \ {0}, NEW s \in 0..2, NEW j \in 1..SpiralLength(k, s)
  PROVE  /\ SpiralNext(k, s, j) \in Node
         /\ ~ SpiralFilled(k, s, j, SpiralNext(k, s, j))
  BY DEF SpiralNext, SpiralFilled, SpiralLength, Node

\* The next node of the same side fills just the node to be filled.
LEMMA SpiralGrow1 ==
  ASSUME NEW k \in Nat \ {0}, NEW s \in 0..2, NEW j \in 1..SpiralLength(k, s),
         j < SpiralLength(k, s), NEW n \in Node
  PROVE  /\ SpiralFilled(k, s, j + 1, n) <=> SpiralFilled(k, s, j, n) \/ n = SpiralNext(k, s, j)
         /\ SpiralTwice(k, s, j + 1) = SpiralTwice(k, s, j) + 2
<1>1. SpiralFilled(k, s, j + 1, n) <=> SpiralFilled(k, s, j, n) \/ n = SpiralNext(k, s, j)
  BY DEF SpiralNext, SpiralFilled, SpiralLength, Node
<1>2. SpiralTwice(k, s, j + 1) = SpiralTwice(k, s, j) + 2
  BY DEF SpiralTwice, SpiralLength
<1> QED
  BY <1>1, <1>2

\* So does the first node of the next side.
LEMMA SpiralGrow2 ==
  ASSUME NEW k \in Nat \ {0}, NEW s \in 0..1, NEW j, j = SpiralLength(k, s), NEW n \in Node
  PROVE  /\ SpiralFilled(k, s + 1, 1, n) <=> SpiralFilled(k, s, j, n) \/ n = SpiralNext(k, s, j)
         /\ SpiralTwice(k, s + 1, 1) = SpiralTwice(k, s, j) + 2
<1>1. SpiralFilled(k, s + 1, 1, n) <=> SpiralFilled(k, s, j, n) \/ n = SpiralNext(k, s, j)
  BY DEF SpiralNext, SpiralFilled, SpiralLength, Node
<1>2. SpiralTwice(k, s + 1, 1) = SpiralTwice(k, s, j) + 2
  BY DEF SpiralTwice, SpiralLength
<1> QED
  BY <1>1, <1>2

\* So does the first node of the next round.
LEMMA SpiralGrow3 ==
  ASSUME NEW k \in Nat \ {0}, NEW j, j = SpiralLength(k, 2), NEW n \in Node
  PROVE  /\ SpiralFilled(k + 1, 0, 1, n) <=> SpiralFilled(k, 2, j, n) \/ n = SpiralNext(k, 2, j)
         /\ SpiralTwice(k + 1, 0, 1) = SpiralTwice(k, 2, j) + 2
<1>1. SpiralFilled(k + 1, 0, 1, n) <=> SpiralFilled(k, 2, j, n) \/ n = SpiralNext(k, 2, j)
  BY DEF SpiralNext, SpiralFilled, SpiralLength, Node
<1>2. SpiralTwice(k + 1, 0, 1) = SpiralTwice(k, 2, j) + 2
  BY DEF SpiralTwice, SpiralLength
<1> QED
  BY <1>1, <1>2

\* Its first stage is the seed alone.
LEMMA SpiralFirst ==
  ASSUME NEW n \in Node
  PROVE  (SpiralFilled(1, 0, 1, n) <=> n = <<0, 0>>) /\ SpiralTwice(1, 0, 1) = 2
  BY DEF SpiralFilled, SpiralTwice, Node

\* From each free node some step leads to a free node.
LEMMA SpiralOpen ==
  ASSUME NEW k \in Nat \ {0}, NEW s \in 0..2, NEW j \in 1..SpiralLength(k, s), NEW n \in Node,
         ~ SpiralFilled(k, s, j, n)
  PROVE  \E d \in Dir : ~ SpiralFilled(k, s, j, NodeInDir(n, d))
<1>1. PICK x \in Int, y \in Int : n = <<x, y>>
  BY DEF Node
<1>2. x >= k \/ y >= k \/ - x - y >= k
  BY <1>1 DEF SpiralFilled
<1>3. CASE x >= k
  BY <1>1, <1>3, StepsAre DEF SpiralFilled, Dir
<1>4. CASE y >= k
  BY <1>1, <1>4, StepsAre DEF SpiralFilled, Dir
<1>5. CASE - x - y >= k
  BY <1>1, <1>5, StepsAre DEF SpiralFilled, Dir
<1> QED
  BY <1>2, <1>3, <1>4, <1>5

\* Who fills the node to be filled, and turns, points at the next one.
LEMMA SpiralTurns ==
  ASSUME NEW k \in Nat \ {0}, NEW s \in 0..2, NEW j \in 1..SpiralLength(k, s), NEW S,
         \A m \in Node : m \in S <=> SpiralFilled(k, s, j, m),
         NEW fromSeed, NEW signal, NEW own,
         NEW a, a = Advanced(k, s, j, SpiralLength(k, s), 2)
  PROVE  LET n == SpiralNext(k, s, j)
             w == TurnSeen("t2", (SpiralDir(s, j) + 3) % 6, fromSeed, signal, own, S, n)
         IN  /\ w[1] = SpiralDir(a[2], a[3])
             /\ NodeInDir(n, SpiralDir(a[2], a[3])) = SpiralNext(a[1], a[2], a[3])
<1> DEFINE n == SpiralNext(k, s, j)
           w == TurnSeen("t2", (SpiralDir(s, j) + 3) % 6, fromSeed, signal, own, S, n)
<1> SUFFICES /\ w[1] = SpiralDir(a[2], a[3])
             /\ NodeInDir(n, SpiralDir(a[2], a[3])) = SpiralNext(a[1], a[2], a[3])
  OBVIOUS
<1>3. CASE s = 0
  <2>1. n = <<k, k - j>> /\ k \in Int /\ k - j \in Int
    BY <1>3 DEF SpiralNext
  <2>2. NodeInDir(n, 4) = <<k, k - j - 1>> /\ NodeInDir(n, 2) = <<k - 1, k - j + 1>>
    BY <2>1, StepsAre
  <2>3. /\ <<k, k - j - 1>> \notin S
        /\ j >= 2 => <<k - 1, k - j + 1>> \in S
    BY <1>3 DEF SpiralFilled, SpiralLength, Node
  <2>4. w[1] = 4
    <3>1. CASE j = 1
      BY <1>3, <2>2, <2>3, <3>1 DEF TurnSeen, SpiralDir
    <3>2. CASE j # 1
      BY <1>3, <2>2, <2>3, <3>2 DEF TurnSeen, SpiralDir
    <3> QED
      BY <3>1, <3>2
  <2> HIDE DEF w, n
  <2> QED
    BY <1>3, <2>2, <2>4 DEF Advanced, SpiralNext, SpiralDir, SpiralLength
<1>4. CASE s = 1
  <2>1. n = <<k - j + 1, j - 2 * k - 1>> /\ j - 2 * k - 1 \in Int /\ k - j + 1 \in Int
    BY <1>4 DEF SpiralNext
  <2>2. NodeInDir(n, 2) = <<k - j, j - 2 * k>> /\ NodeInDir(n, 0) = <<k - j + 2, j - 2 * k - 1>>
    BY <2>1, StepsAre
  <2>3. /\ <<k - j, j - 2 * k>> \notin S
        /\ j >= 2 => <<k - j + 2, j - 2 * k - 1>> \in S
    BY <1>4 DEF SpiralFilled, SpiralLength, Node
  <2>4. w[1] = 2
    <3>1. CASE j = 1
      BY <1>4, <2>2, <2>3, <3>1 DEF TurnSeen, SpiralDir
    <3>2. CASE j # 1
      BY <1>4, <2>2, <2>3, <3>2 DEF TurnSeen, SpiralDir
    <3> QED
      BY <3>1, <3>2
  <2> HIDE DEF w, n
  <2> QED
    BY <1>4, <2>2, <2>4 DEF Advanced, SpiralNext, SpiralDir, SpiralLength
<1>5. CASE s = 2
  <2>1. n = <<j - 2 * k - 1, k>> /\ k \in Int /\ j - 2 * k - 1 \in Int
    BY <1>5 DEF SpiralNext
  <2>2. NodeInDir(n, 0) = <<j - 2 * k, k>> /\ NodeInDir(n, 4) = <<j - 2 * k - 1, k - 1>>
    BY <2>1, StepsAre
  <2>3. /\ <<j - 2 * k, k>> \notin S
        /\ j >= 2 => <<j - 2 * k - 1, k - 1>> \in S
    BY <1>5 DEF SpiralFilled, SpiralLength, Node
  <2>4. w[1] = 0
    <3>1. CASE j = 1
      BY <1>5, <2>2, <2>3, <3>1 DEF TurnSeen, SpiralDir
    <3>2. CASE j # 1
      BY <1>5, <2>2, <2>3, <3>2 DEF TurnSeen, SpiralDir
    <3> QED
      BY <3>1, <3>2
  <2> HIDE DEF w, n
  <2> QED
    BY <1>5, <2>2, <2>4 DEF Advanced, SpiralNext, SpiralDir, SpiralLength
<1> QED
  BY <1>3, <1>4, <1>5

-----------------------------------------------------------------------------
(* The four figures together                                               *)

\* A step of a figure: the node to be filled was free, and is all that is new.
LEMMA FigureGrows ==
  ASSUME NEW m \in Figures, NEW k, NEW s, NEW j, Stage(m, k, s, j),
         NEW a, a = After(m, k, s, j)
  PROVE  /\ Stage(m, a[1], a[2], a[3]) /\ ~ (a[1] = 1 /\ a[2] = 0 /\ a[3] = 1)
         /\ NextNode(m, k, s, j) \in Node /\ ~ Filled(m, k, s, j, NextNode(m, k, s, j))
         /\ \A n \in Node : Filled(m, a[1], a[2], a[3], n) <=>
                           Filled(m, k, s, j, n) \/ n = NextNode(m, k, s, j)
         /\ Twice(m, a[1], a[2], a[3]) = Twice(m, k, s, j) + 2
         /\ NextDir(m, s, j) \in Dir
<1>1. m \in {"h", "s", "t1", "t2"} /\ k \in Nat \ {0} /\ s \in 0 .. EndSide(m) /\ j \in 1 .. SideLength(m, k, s)
  BY DEF Figures, Stage
<1>2. NextDir(m, s, j) \in Dir
  BY <1>1 DEF NextDir, HexDir, SquareDir, ConeDir, SpiralDir, Dir, EndSide
<1>3. CASE m = "h"
  <2> DEFINE L == HexLength(k, s)
  <2>1. s \in 0..5 /\ L \in Nat /\ j \in 1 .. L /\ a = Advanced(k, s, j, L, 5)
    BY <1>1, <1>3 DEF EndSide, SideLength, HexLength, After
  <2>2. /\ NextNode(m, k, s, j) = HexNext(k, s, j)
        /\ \A x, y, z : Twice(m, x, y, z) = HexTwice(x, y, z)
        /\ \A x, y, z, n : Filled(m, x, y, z, n) <=> HexFilled(x, y, z, n)
        /\ \A x, y, z : Stage(m, x, y, z) <=> x \in Nat \ {0} /\ y \in 0..5 /\ z \in 1 .. HexLength(x, y)
    BY <1>3 DEF NextNode, Twice, Filled, Stage, EndSide, SideLength
  <2>3. HexNext(k, s, j) \in Node /\ ~ HexFilled(k, s, j, HexNext(k, s, j))
    BY <1>1, <2>1, HexNextIs
  <2>4. CASE j < L
    <3>1. a = <<k, s, j + 1>>
      BY <2>1, <2>4 DEF Advanced
    <3>2. \A n \in Node : /\ HexFilled(k, s, j + 1, n) <=> HexFilled(k, s, j, n) \/ n = HexNext(k, s, j)
                         /\ HexTwice(k, s, j + 1) = HexTwice(k, s, j) + 2
      BY <1>1, <2>1, <2>4, HexGrow1
    <3>3. j + 1 \in 1 .. L /\ j + 1 # 1
      BY <2>1, <2>4
    <3> QED
      BY <1>1, <1>2, <2>1, <2>2, <2>3, <3>1, <3>2, <3>3
  <2>5. CASE j = L /\ s < 5
    <3>1. a = <<k, s + 1, 1>> /\ s \in 0..4 /\ s + 1 \in 0..5 /\ s + 1 # 0
      BY <2>1, <2>5 DEF Advanced
    <3>2. \A n \in Node : /\ HexFilled(k, s + 1, 1, n) <=> HexFilled(k, s, j, n) \/ n = HexNext(k, s, j)
                         /\ HexTwice(k, s + 1, 1) = HexTwice(k, s, j) + 2
      BY <1>1, <2>1, <2>5, <3>1, HexGrow2
    <3>3. 1 \in 1 .. HexLength(k, s + 1)
      BY <1>1, <3>1 DEF HexLength
    <3> QED
      BY <1>1, <1>2, <2>1, <2>2, <2>3, <3>1, <3>2, <3>3
  <2>6. CASE j = L /\ s = 5
    <3>1. a = <<k + 1, 0, 1>> /\ k + 1 \in Nat \ {0} /\ k + 1 # 1 /\ 0 \in 0..5
      BY <1>1, <2>1, <2>6 DEF Advanced
    <3>2. \A n \in Node : /\ HexFilled(k + 1, 0, 1, n) <=> HexFilled(k, s, j, n) \/ n = HexNext(k, s, j)
                         /\ HexTwice(k + 1, 0, 1) = HexTwice(k, s, j) + 2
      BY <1>1, <2>1, <2>6, <3>1, HexGrow3
    <3>3. 1 \in 1 .. HexLength(k + 1, 0)
      BY <1>1, <3>1 DEF HexLength
    <3> QED
      BY <1>1, <1>2, <2>1, <2>2, <2>3, <3>1, <3>2, <3>3
  <2> QED
    BY <2>1, <2>4, <2>5, <2>6
<1>4. CASE m = "s"
  <2> DEFINE L == SquareLength(k, s)
  <2>1. s \in 0..3 /\ L \in Nat /\ j \in 1 .. L /\ a = Advanced(k, s, j, L, 3)
    BY <1>1, <1>4 DEF EndSide, SideLength, SquareLength, After
  <2>2. /\ NextNode(m, k, s, j) = SquareNext(k, s, j)
        /\ \A x, y, z : Twice(m, x, y, z) = SquareTwice(x, y, z)
        /\ \A x, y, z, n : Filled(m, x, y, z, n) <=> SquareFilled(x, y, z, n)
        /\ \A x, y, z : Stage(m, x, y, z) <=> x \in Nat \ {0} /\ y \in 0..3 /\ z \in 1 .. SquareLength(x, y)
    BY <1>4 DEF NextNode, Twice, Filled, Stage, EndSide, SideLength
  <2>3. SquareNext(k, s, j) \in Node /\ ~ SquareFilled(k, s, j, SquareNext(k, s, j))
    BY <1>1, <2>1, SquareNextIs
  <2>4. CASE j < L
    <3>1. a = <<k, s, j + 1>>
      BY <2>1, <2>4 DEF Advanced
    <3>2. \A n \in Node : /\ SquareFilled(k, s, j + 1, n) <=> SquareFilled(k, s, j, n) \/ n = SquareNext(k, s, j)
                         /\ SquareTwice(k, s, j + 1) = SquareTwice(k, s, j) + 2
      BY <1>1, <2>1, <2>4, SquareGrow1
    <3>3. j + 1 \in 1 .. L /\ j + 1 # 1
      BY <2>1, <2>4
    <3> QED
      BY <1>1, <1>2, <2>1, <2>2, <2>3, <3>1, <3>2, <3>3
  <2>5. CASE j = L /\ s < 3
    <3>1. a = <<k, s + 1, 1>> /\ s \in 0..2 /\ s + 1 \in 0..3 /\ s + 1 # 0
      BY <2>1, <2>5 DEF Advanced
    <3>2. \A n \in Node : /\ SquareFilled(k, s + 1, 1, n) <=> SquareFilled(k, s, j, n) \/ n = SquareNext(k, s, j)
                         /\ SquareTwice(k, s + 1, 1) = SquareTwice(k, s, j) + 2
      BY <1>1, <2>1, <2>5, <3>1, SquareGrow2
    <3>3. 1 \in 1 .. SquareLength(k, s + 1)
      BY <1>1, <3>1 DEF SquareLength
    <3> QED
      BY <1>1, <1>2, <2>1, <2>2, <2>3, <3>1, <3>2, <3>3
  <2>6. CASE j = L /\ s = 3
    <3>1. a = <<k + 1, 0, 1>> /\ k + 1 \in Nat \ {0} /\ k + 1 # 1 /\ 0 \in 0..3
      BY <1>1, <2>1, <2>6 DEF Advanced
    <3>2. \A n \in Node : /\ SquareFilled(k + 1, 0, 1, n) <=> SquareFilled(k, s, j, n) \/ n = SquareNext(k, s, j)
                         /\ SquareTwice(k + 1, 0, 1) = SquareTwice(k, s, j) + 2
      BY <1>1, <2>1, <2>6, <3>1, SquareGrow3
    <3>3. 1 \in 1 .. SquareLength(k + 1, 0)
      BY <1>1, <3>1 DEF SquareLength
    <3> QED
      BY <1>1, <1>2, <2>1, <2>2, <2>3, <3>1, <3>2, <3>3
  <2> QED
    BY <2>1, <2>4, <2>5, <2>6
<1>5. CASE m = "t1"
  <2> DEFINE L == ConeLength(k, s)
  <2>1. s \in 0..1 /\ L \in Nat /\ j \in 1 .. L /\ a = Advanced(k, s, j, L, 1)
    BY <1>1, <1>5 DEF EndSide, SideLength, ConeLength, After
  <2>2. /\ NextNode(m, k, s, j) = ConeNext(k, s, j)
        /\ \A x, y, z : Twice(m, x, y, z) = ConeTwice(x, y, z)
        /\ \A x, y, z, n : Filled(m, x, y, z, n) <=> ConeFilled(x, y, z, n)
        /\ \A x, y, z : Stage(m, x, y, z) <=> x \in Nat \ {0} /\ y \in 0..1 /\ z \in 1 .. ConeLength(x, y)
    BY <1>5 DEF NextNode, Twice, Filled, Stage, EndSide, SideLength
  <2>3. ConeNext(k, s, j) \in Node /\ ~ ConeFilled(k, s, j, ConeNext(k, s, j))
    BY <1>1, <2>1, ConeNextIs
  <2>4. CASE j < L
    <3>1. a = <<k, s, j + 1>>
      BY <2>1, <2>4 DEF Advanced
    <3>2. \A n \in Node : /\ ConeFilled(k, s, j + 1, n) <=> ConeFilled(k, s, j, n) \/ n = ConeNext(k, s, j)
                         /\ ConeTwice(k, s, j + 1) = ConeTwice(k, s, j) + 2
      BY <1>1, <2>1, <2>4, ConeGrow1
    <3>3. j + 1 \in 1 .. L /\ j + 1 # 1
      BY <2>1, <2>4
    <3> QED
      BY <1>1, <1>2, <2>1, <2>2, <2>3, <3>1, <3>2, <3>3
  <2>5. CASE j = L /\ s < 1
    <3>1. a = <<k, s + 1, 1>> /\ s \in 0..0 /\ s + 1 \in 0..1 /\ s + 1 # 0
      BY <2>1, <2>5 DEF Advanced
    <3>2. \A n \in Node : /\ ConeFilled(k, s + 1, 1, n) <=> ConeFilled(k, s, j, n) \/ n = ConeNext(k, s, j)
                         /\ ConeTwice(k, s + 1, 1) = ConeTwice(k, s, j) + 2
      BY <1>1, <2>1, <2>5, <3>1, ConeGrow2
    <3>3. 1 \in 1 .. ConeLength(k, s + 1)
      BY <1>1, <3>1 DEF ConeLength
    <3> QED
      BY <1>1, <1>2, <2>1, <2>2, <2>3, <3>1, <3>2, <3>3
  <2>6. CASE j = L /\ s = 1
    <3>1. a = <<k + 1, 0, 1>> /\ k + 1 \in Nat \ {0} /\ k + 1 # 1 /\ 0 \in 0..1
      BY <1>1, <2>1, <2>6 DEF Advanced
    <3>2. \A n \in Node : /\ ConeFilled(k + 1, 0, 1, n) <=> ConeFilled(k, s, j, n) \/ n = ConeNext(k, s, j)
                         /\ ConeTwice(k + 1, 0, 1) = ConeTwice(k, s, j) + 2
      BY <1>1, <2>1, <2>6, <3>1, ConeGrow3
    <3>3. 1 \in 1 .. ConeLength(k + 1, 0)
      BY <1>1, <3>1 DEF ConeLength
    <3> QED
      BY <1>1, <1>2, <2>1, <2>2, <2>3, <3>1, <3>2, <3>3
  <2> QED
    BY <2>1, <2>4, <2>5, <2>6
<1>6. CASE m = "t2"
  <2> DEFINE L == SpiralLength(k, s)
  <2>1. s \in 0..2 /\ L \in Nat /\ j \in 1 .. L /\ a = Advanced(k, s, j, L, 2)
    BY <1>1, <1>6 DEF EndSide, SideLength, SpiralLength, After
  <2>2. /\ NextNode(m, k, s, j) = SpiralNext(k, s, j)
        /\ \A x, y, z : Twice(m, x, y, z) = SpiralTwice(x, y, z)
        /\ \A x, y, z, n : Filled(m, x, y, z, n) <=> SpiralFilled(x, y, z, n)
        /\ \A x, y, z : Stage(m, x, y, z) <=> x \in Nat \ {0} /\ y \in 0..2 /\ z \in 1 .. SpiralLength(x, y)
    BY <1>6 DEF NextNode, Twice, Filled, Stage, EndSide, SideLength
  <2>3. SpiralNext(k, s, j) \in Node /\ ~ SpiralFilled(k, s, j, SpiralNext(k, s, j))
    BY <1>1, <2>1, SpiralNextIs
  <2>4. CASE j < L
    <3>1. a = <<k, s, j + 1>>
      BY <2>1, <2>4 DEF Advanced
    <3>2. \A n \in Node : /\ SpiralFilled(k, s, j + 1, n) <=> SpiralFilled(k, s, j, n) \/ n = SpiralNext(k, s, j)
                         /\ SpiralTwice(k, s, j + 1) = SpiralTwice(k, s, j) + 2
      BY <1>1, <2>1, <2>4, SpiralGrow1
    <3>3. j + 1 \in 1 .. L /\ j + 1 # 1
      BY <2>1, <2>4
    <3> QED
      BY <1>1, <1>2, <2>1, <2>2, <2>3, <3>1, <3>2, <3>3
  <2>5. CASE j = L /\ s < 2
    <3>1. a = <<k, s + 1, 1>> /\ s \in 0..1 /\ s + 1 \in 0..2 /\ s + 1 # 0
      BY <2>1, <2>5 DEF Advanced
    <3>2. \A n \in Node : /\ SpiralFilled(k, s + 1, 1, n) <=> SpiralFilled(k, s, j, n) \/ n = SpiralNext(k, s, j)
                         /\ SpiralTwice(k, s + 1, 1) = SpiralTwice(k, s, j) + 2
      BY <1>1, <2>1, <2>5, <3>1, SpiralGrow2
    <3>3. 1 \in 1 .. SpiralLength(k, s + 1)
      BY <1>1, <3>1 DEF SpiralLength
    <3> QED
      BY <1>1, <1>2, <2>1, <2>2, <2>3, <3>1, <3>2, <3>3
  <2>6. CASE j = L /\ s = 2
    <3>1. a = <<k + 1, 0, 1>> /\ k + 1 \in Nat \ {0} /\ k + 1 # 1 /\ 0 \in 0..2
      BY <1>1, <2>1, <2>6 DEF Advanced
    <3>2. \A n \in Node : /\ SpiralFilled(k + 1, 0, 1, n) <=> SpiralFilled(k, s, j, n) \/ n = SpiralNext(k, s, j)
                         /\ SpiralTwice(k + 1, 0, 1) = SpiralTwice(k, s, j) + 2
      BY <1>1, <2>1, <2>6, <3>1, SpiralGrow3
    <3>3. 1 \in 1 .. SpiralLength(k + 1, 0)
      BY <1>1, <3>1 DEF SpiralLength
    <3> QED
      BY <1>1, <1>2, <2>1, <2>2, <2>3, <3>1, <3>2, <3>3
  <2> QED
    BY <2>1, <2>4, <2>5, <2>6
<1> QED
  BY <1>1, <1>3, <1>4, <1>5, <1>6

\* No figure walls a node in.
LEMMA FigureOpen ==
  ASSUME NEW m \in Figures, NEW k, NEW s, NEW j, Stage(m, k, s, j), NEW n \in Node,
         ~ Filled(m, k, s, j, n)
  PROVE  \E d \in Dir : ~ Filled(m, k, s, j, NodeInDir(n, d))
<1>1. m \in {"h", "s", "t1", "t2"} /\ k \in Nat \ {0} /\ s \in 0 .. EndSide(m) /\ j \in 1 .. SideLength(m, k, s)
  BY DEF Figures, Stage
<1>2. CASE m = "h"
  BY <1>1, <1>2, HexOpen DEF Filled, EndSide, SideLength
<1>3. CASE m = "s"
  BY <1>1, <1>3, SquareOpen DEF Filled, EndSide, SideLength
<1>4. CASE m = "t1"
  BY <1>1, <1>4, ConeOpen DEF Filled, EndSide, SideLength
<1>5. CASE m = "t2"
  BY <1>1, <1>5, SpiralOpen DEF Filled, EndSide, SideLength
<1> QED
  BY <1>1, <1>2, <1>3, <1>4, <1>5

\* At first there is the seed.
LEMMA FigureFirst ==
  ASSUME NEW m \in Figures
  PROVE  /\ Stage(m, 1, 0, 1) /\ NextNode(m, 1, 0, 1) = NodeInDir(<<0, 0>>, 0)
         /\ \A n \in Node : Filled(m, 1, 0, 1, n) <=> n = <<0, 0>>
         /\ Twice(m, 1, 0, 1) = 2 /\ NextDir(m, 0, 1) = 0
<1>1. m \in {"h", "s", "t1", "t2"}
  BY DEF Figures
<1>2. \A n \in Node : Filled(m, 1, 0, 1, n) <=> n = <<0, 0>>
  BY <1>1, HexFirst, SquareFirst, ConeFirst, SpiralFirst DEF Filled
<1>3. <<0, 0>> \in Node /\ NodeInDir(<<0, 0>>, 0) = <<1, 0>>
  BY StepsAre DEF Node
<1>4. Twice(m, 1, 0, 1) = 2
  BY <1>1, <1>3, HexFirst, SquareFirst, ConeFirst, SpiralFirst DEF Twice
<1>5. NextNode(m, 1, 0, 1) = <<1, 0>>
  BY <1>1 DEF NextNode, HexNext, SquareNext, ConeNext, SpiralNext
<1>6. Stage(m, 1, 0, 1) /\ NextDir(m, 0, 1) = 0
  BY <1>1 DEF Stage, EndSide, SideLength, HexLength, SquareLength, ConeLength, SpiralLength,
              NextDir, HexDir, SquareDir, ConeDir, SpiralDir
<1> QED
  BY <1>2, <1>3, <1>4, <1>5, <1>6

\* updateConstructionDir() leads from each node to the next, and leaves the
\* signal that goes with it.
LEMMA FigureTurns ==
  ASSUME NEW m \in Figures, NEW k, NEW s, NEW j, Stage(m, k, s, j), NEW S,
         \A i \in Node : i \in S <=> Filled(m, k, s, j, i),
         NEW signal, NEW own, NEW fromSeed \in BOOLEAN, fromSeed <=> k = 1 /\ s = 0 /\ j = 1,
         m \in {"s", "t1"} =>
           own = 0 /\ ((k = 1 /\ s = 0 /\ j = 1) \/ signal = NextSignal(m, s, j)),
         NEW a, a = After(m, k, s, j), NEW n, n = NextNode(m, k, s, j),
         NEW w, w = TurnSeen(m, (NextDir(m, s, j) + 3) % 6, fromSeed, signal, own, S, n)
  PROVE  /\ w[1] = NextDir(m, a[2], a[3])
         /\ m \in {"s", "t1"} => w[2] = NextSignal(m, a[2], a[3])
         /\ NodeInDir(n, NextDir(m, a[2], a[3])) = NextNode(m, a[1], a[2], a[3])
<1>1. m \in {"h", "s", "t1", "t2"} /\ k \in Nat \ {0} /\ s \in 0 .. EndSide(m) /\ j \in 1 .. SideLength(m, k, s)
  BY DEF Figures, Stage
<1>2. CASE m = "h"
  <2>1. s \in 0..5 /\ j \in 1 .. HexLength(k, s) /\ a = Advanced(k, s, j, HexLength(k, s), 5)
    BY <1>1, <1>2 DEF EndSide, SideLength, After
  <2>2. /\ \A i \in Node : i \in S <=> HexFilled(k, s, j, i)
        /\ n = HexNext(k, s, j)
        /\ w = TurnSeen("h", (HexDir(s, j) + 3) % 6, fromSeed, signal, own, S, n)
    BY <1>2 DEF Filled, NextNode, NextDir
  <2>4. /\ w[1] = HexDir(a[2], a[3])
        /\ NodeInDir(n, HexDir(a[2], a[3])) = HexNext(a[1], a[2], a[3])
    BY <1>1, <2>1, <2>2, HexTurns
  <2> QED
    BY <1>2, <2>4 DEF NextNode, NextDir
<1>3. CASE m = "s"
  <2>1. s \in 0..3 /\ j \in 1 .. SquareLength(k, s) /\ a = Advanced(k, s, j, SquareLength(k, s), 3)
    BY <1>1, <1>3 DEF EndSide, SideLength, After
  <2>2. /\ \A i \in Node : i \in S <=> SquareFilled(k, s, j, i)
        /\ n = SquareNext(k, s, j)
        /\ w = TurnSeen("s", (SquareDir(s, j) + 3) % 6, fromSeed, signal, 0, S, n)
        /\ (k = 1 /\ s = 0 /\ j = 1) \/ signal = SquareSignal(s, j)
    BY <1>3 DEF Filled, NextNode, NextDir, NextSignal
  <2>4. /\ w = <<SquareDir(a[2], a[3]), SquareSignal(a[2], a[3])>>
        /\ NodeInDir(n, SquareDir(a[2], a[3])) = SquareNext(a[1], a[2], a[3])
    BY <1>1, <2>1, <2>2, SquareTurns
  <2> QED
    BY <1>3, <2>4 DEF NextNode, NextDir, NextSignal
<1>4. CASE m = "t1"
  <2>1. s \in 0..1 /\ j \in 1 .. ConeLength(k, s) /\ a = Advanced(k, s, j, ConeLength(k, s), 1)
    BY <1>1, <1>4 DEF EndSide, SideLength, After
  <2>2. /\ \A i \in Node : i \in S <=> ConeFilled(k, s, j, i)
        /\ n = ConeNext(k, s, j)
        /\ w = TurnSeen("t1", (ConeDir(s, j) + 3) % 6, fromSeed, signal, 0, S, n)
        /\ (k = 1 /\ s = 0 /\ j = 1) \/ signal = ConeSignal(s, j)
    BY <1>4 DEF Filled, NextNode, NextDir, NextSignal
  <2>4. /\ w = <<ConeDir(a[2], a[3]), ConeSignal(a[2], a[3])>>
        /\ NodeInDir(n, ConeDir(a[2], a[3])) = ConeNext(a[1], a[2], a[3])
    BY <1>1, <2>1, <2>2, ConeTurns
  <2> QED
    BY <1>4, <2>4 DEF NextNode, NextDir, NextSignal
<1>5. CASE m = "t2"
  <2>1. s \in 0..2 /\ j \in 1 .. SpiralLength(k, s) /\ a = Advanced(k, s, j, SpiralLength(k, s), 2)
    BY <1>1, <1>5 DEF EndSide, SideLength, After
  <2>2. /\ \A i \in Node : i \in S <=> SpiralFilled(k, s, j, i)
        /\ n = SpiralNext(k, s, j)
        /\ w = TurnSeen("t2", (SpiralDir(s, j) + 3) % 6, fromSeed, signal, own, S, n)
    BY <1>5 DEF Filled, NextNode, NextDir
  <2>4. /\ w[1] = SpiralDir(a[2], a[3])
        /\ NodeInDir(n, SpiralDir(a[2], a[3])) = SpiralNext(a[1], a[2], a[3])
    BY <1>1, <2>1, <2>2, SpiralTurns
  <2> QED
    BY <1>5, <2>4 DEF NextNode, NextDir
<1> QED
  BY <1>1, <1>2, <1>3, <1>4, <1>5

\* The particles by what they do.
Followers == InState({"Follow"})
Leaders   == InState({"Lead"})
Shaped    == InState({"Seed", "Finish"})
Active    == InState({"Seed", "Finish", "Lead", "Follow"})

\* Each leader is beside the shape; no node off the shape is walled in by it.
AtShape   == \A p \in Leaders : Nbrs(body[p].head) \cap Shape # {}
ShapeOpen == \A n \in Node \ Shape : ~ (Nbrs(n) \subseteq Shape)

\* The node a particle's pointer leads to, and who is there.
Target(p) == Pointed(body[p], followDir[p])
Up == [q \in particles |-> ParticleAt(Target(q))]

\* A follower's pointer leaves its body and leads to an active particle.
Led ==
  \A q \in Followers : /\ followDir[q] \in Dir /\ followDir[q] # TailDir(body[q])
                       /\ \E r \in Active : Target(q) \in Nodes(body[r])

\* No pointers go round in a ring.
Rooted == ForestOf(Followers, Up)

\* The shape grows from one seed, in one piece, and all of it points on.
Anchored ==
  /\ mode \in {"h", "s", "t1", "t2", "l"}
  /\ 1 \in particles /\ body[1].head = <<0, 0>>
  /\ \A p \in particles : state[p] = "Seed" <=> p = 1
  /\ \A p \in Shaped : constructionDir[p] \in Dir
  /\ Connected(Shape)

\* What the movements keep.
Core ==
  /\ TypeOK /\ ApartIn(body)
  /\ Anchored /\ AtShape
  /\ Led /\ Rooted
  /\ StaysConnected

-----------------------------------------------------------------------------
(* Who is where                                                            *)

\* The particle found on a node is the one that occupies it.
LEMMA ParticleFound ==
  ASSUME ApartIn(body), NEW r \in particles, NEW n \in Nodes(body[r])
  PROVE  ParticleAt(n) = r
  BY FoundOn DEF particles, ParticleAt

\* Whose node a pointer leads to is the one the pointer finds.
Finds == \A q, r \in particles : Target(q) \in Nodes(body[r]) => Up[q] = r

\* That is so as long as no two particles share a node.
LEMMA UpFinds == ApartIn(body) => Finds
  BY ParticleFound DEF Finds, Up

\* The same after a step.
LEMMA UpNext ==
  ASSUME ApartIn(body'), NEW q \in particles', NEW r \in particles',
         Target(q)' \in Nodes(body'[r])
  PROVE  Up'[q] = r
<1>1. (ApartIn(body) => Finds)'
  BY UpFinds, PTL
<1> QED
  BY <1>1 DEF Finds

\* A follower points at another particle.
LEMMA FollowerPoints ==
  ASSUME Core, NEW q \in Followers
  PROVE  /\ q \in particles /\ body[q] \in Body /\ followDir[q] \in Dir
         /\ followDir[q] # TailDir(body[q])
         /\ Target(q) \notin Nodes(body[q])
         /\ Up[q] \in Active /\ Up[q] \in particles /\ Up[q] # q
         /\ Target(q) \in Nodes(body[Up[q]])
         /\ Target(q) \in Nbrs(body[q].head)
         /\ NbrNode(body[q], ParentLabel(q)) = Target(q)
         /\ \E l \in HeadLabels(body[q]) : LabelToDir(body[q], l) = followDir[q]
<1>1. q \in particles /\ body[q] \in Body /\ followDir[q] \in Dir /\ followDir[q] # TailDir(body[q])
  BY DEF Core, TypeOK, Led, Followers, InState
<1>2. PICK r \in Active : Target(q) \in Nodes(body[r])
  BY DEF Core, Led
<1>3. r \in particles
  BY DEF Active, InState
<1>4. Up[q] = r
  BY <1>1, <1>2, <1>3, UpFinds DEF Core, Finds
<1>5. /\ Target(q) \notin Nodes(body[q])
      /\ NbrNode(body[q], ParentLabel(q)) = Target(q)
      /\ \E l \in HeadLabels(body[q]) : LabelToDir(body[q], l) = followDir[q]
  BY <1>1, PointerPort DEF Target, ParentLabel
<1>6. Target(q) \in Nbrs(body[q].head)
  BY <1>1, CompassType DEF Target, Pointed, Nbrs
<1> QED
  BY <1>1, <1>2, <1>3, <1>4, <1>5, <1>6

\* The shape's particles are contracted, so it is the nodes they are on.
LEMMA ShapeNodes ==
  ASSUME Core
  PROVE  /\ Shape \subseteq Node /\ Shape \subseteq Occupied /\ Occupied \subseteq Node
         /\ <<0, 0>> \in Shape /\ 1 \in Shaped
         /\ \A p \in Shaped : /\ p \in particles /\ body[p] \in Body /\ IsContracted(body[p])
                              /\ Nodes(body[p]) = {body[p].head} /\ body[p].head \in Shape
         /\ \A p \in particles \ Shaped : Nodes(body[p]) \cap Shape = {}
<1>1. \A p \in Shaped : /\ p \in particles /\ body[p] \in Body /\ IsContracted(body[p])
                        /\ Nodes(body[p]) = {body[p].head} /\ body[p].head \in Shape
  BY NodesType DEF Core, TypeOK, Shaped, InState, Shape
<1>2. \A p \in particles : body[p] \in Body /\ Nodes(body[p]) \subseteq Node
  BY NodesType DEF Core, TypeOK
<1>3. Shape = {body[p].head : p \in Shaped}
  BY DEF Shape, Shaped
<1>4. Shape \subseteq Node /\ Shape \subseteq Occupied /\ Occupied \subseteq Node
  BY <1>1, <1>2, <1>3 DEF Occupied
<1>5. 1 \in Shaped /\ <<0, 0>> \in Shape
  BY <1>3 DEF Core, Anchored, Shaped, InState
<1>6. ASSUME NEW p \in particles \ Shaped PROVE Nodes(body[p]) \cap Shape = {}
  <2>1. \A q \in Shaped : Nodes(body[p]) \cap Nodes(body[q]) = {}
    BY <1>1 DEF Core, ApartIn, particles
  <2> QED
    BY <1>1, <1>3, <2>1
<1> QED
  BY <1>1, <1>4, <1>5, <1>6

\* The ports ShapeLabels finds.
LEMMA ShapePorts ==
  ASSUME Core, NEW p \in particles
  PROVE  /\ ShapeLabels(p) = {l \in Labels(body[p]) : NbrNode(body[p], l) \in Shape}
         /\ IsContracted(body[p]) =>
              /\ ShapeLabels(p) = {l \in Dir : NbrNode(body[p], l) \in Shape}
              /\ ShapeLabels(p) # {} <=> Nbrs(body[p].head) \cap Shape # {}
<1>1. ShapeLabels(p) = {l \in Labels(body[p]) : \E q \in Shaped : NbrNode(body[p], l) \in Nodes(body[q])}
  BY DEF ShapeLabels, LabelsOfNbrs, Shaped
<1>2. \A n : n \in Shape <=> \E q \in Shaped : n \in Nodes(body[q])
  BY ShapeNodes DEF Shape, Shaped
<1>3. ShapeLabels(p) = {l \in Labels(body[p]) : NbrNode(body[p], l) \in Shape}
  BY <1>1, <1>2
<1>4. body[p] \in Body
  BY DEF Core, TypeOK
<1>5. ASSUME IsContracted(body[p])
      PROVE  /\ ShapeLabels(p) = {l \in Dir : NbrNode(body[p], l) \in Shape}
             /\ ShapeLabels(p) # {} <=> Nbrs(body[p].head) \cap Shape # {}
  <2>1. /\ Labels(body[p]) = Dir
        /\ \A l \in Dir : NbrNode(body[p], l) \in Nbrs(body[p].head)
        /\ \A n \in Nbrs(body[p].head) : \E l \in Dir : NbrNode(body[p], l) = n
    BY <1>4, <1>5, ContractedPorts
  <2> QED
    BY <1>3, <2>1
<1> QED
  BY <1>3, <1>5

\* updateMoveDir of a contracted particle beside the shape: a direction off it,
\* and the shape goes on beside the node it leads to.
LEMMA SurfaceDir ==
  ASSUME Core, ShapeOpen, NEW p \in particles \ Shaped, IsContracted(body[p]),
         Nbrs(body[p].head) \cap Shape # {}
  PROVE  /\ NextMoveDir(p) \in Dir
         /\ NbrNode(body[p], NextMoveDir(p)) \in Node
         /\ NbrNode(body[p], NextMoveDir(p)) \notin Shape
         /\ Nbrs(NbrNode(body[p], NextMoveDir(p))) \cap Shape # {}
<1> DEFINE L == {l \in Dir : NbrNode(body[p], l) \in Shape}
<1>1. body[p] \in Body /\ body[p].head \in Node /\ body[p].head \in Nodes(body[p])
  BY NodesType DEF Core, TypeOK
<1>2. ~ (Nbrs(body[p].head) \subseteq Shape)
  BY <1>1, ShapeNodes DEF ShapeOpen
<1>3. NextMoveDir(p) = FreeClockwise[L]
  BY ShapePorts DEF NextMoveDir
<1>4. /\ FreeClockwise[L] \in Dir
      /\ NbrNode(body[p], FreeClockwise[L]) \in Node
      /\ NbrNode(body[p], FreeClockwise[L]) \notin Shape
      /\ Nbrs(NbrNode(body[p], FreeClockwise[L])) \cap Shape # {}
  BY <1>1, <1>2, SurfaceWalk
<1> QED
  BY <1>3, <1>4

\* What the invariant says is what the runs check.
LEMMA CoreCorrect == Core /\ ShapeOpen => ForestOnSurface
<1> SUFFICES ASSUME Core, ShapeOpen PROVE ForestOnSurface
  OBVIOUS
<1>1. LeadersOnSurface
  <2>1. ASSUME NEW p \in Leaders
        PROVE  Nbrs(body[p].head) \cap Shape \notin {{}, Nbrs(body[p].head)}
    <3>1. p \in particles \ Shaped /\ body[p] \in Body
      BY DEF Leaders, Shaped, InState, Core, TypeOK
    <3>2. body[p].head \in Node \ Shape
      BY <3>1, NodesType, ShapeNodes
    <3>3. Nbrs(body[p].head) \cap Shape # {} /\ ~ (Nbrs(body[p].head) \subseteq Shape)
      BY <3>2 DEF Core, AtShape, ShapeOpen
    <3> QED
      BY <3>3
  <2> QED
    BY <2>1 DEF LeadersOnSurface, Leaders
<1>2. ASSUME NEW q \in Followers
      PROVE  /\ \E l \in HeadLabels(body[q]) : LabelToDir(body[q], l) = followDir[q]
             /\ ParentNode(q) \in Occupied
             /\ ParticleAt(ParentNode(q)) \in Active
             /\ ParticleAt(ParentNode(q)) = Up[q]
  BY FollowerPoints DEF ParentNode, Occupied, Up
<1>3. ASSUME NEW C \in SUBSET Followers, C # {}
      PROVE  \E q \in C : ParticleAt(ParentNode(q)) \notin C
  <2>1. PICK q \in C : Up[q] \notin C
    BY <1>3 DEF Core, Rooted, ForestOf
  <2> QED
    BY <1>2, <2>1
<1>4. \A q \in Active : state[q] # "Idle"
  BY DEF Active, InState
<1>5. FollowersLed
  BY <1>2, <1>3, <1>4 DEF FollowersLed, Followers
<1> QED
  BY <1>1, <1>5 DEF ForestOnSurface, Core

-----------------------------------------------------------------------------
(* The system in one piece                                                 *)

\* No particle outside T is next to one in T.
Closed(T) == \A m \in T, n \in Occupied : Adjacent(m, n) => n \in T

\* A closed part that has the shape has all that is not idle: the leaders are
\* beside the shape, and the followers hang on them.
ActiveTogether ==
  \A T \in SUBSET Occupied :
    Closed(T) /\ Shape \subseteq T => \A r \in Active : Nodes(body[r]) \subseteq T

\* What that needs of Core.
Hanging == TypeOK /\ ApartIn(body) /\ AtShape /\ Led /\ Rooted

\* Followers hang on leaders, and leaders on the shape.
LEMMA HeldTogether == Hanging => ActiveTogether
<1> SUFFICES ASSUME Hanging, NEW T \in SUBSET Occupied, Closed(T), Shape \subseteq T
             PROVE  \A r \in Active : Nodes(body[r]) \subseteq T
  BY DEF ActiveTogether
<1>1. \A r \in particles : body[r] \in Body /\ Nodes(body[r]) \subseteq Occupied
  BY DEF Hanging, TypeOK, Occupied
<1>2. ASSUME NEW r \in particles, body[r].head \in T
      PROVE  Nodes(body[r]) \subseteq T
  <2>1. CASE IsContracted(body[r])
    BY <1>1, <1>2, <2>1, NodesType
  <2>2. CASE IsExpanded(body[r])
    <3>1. /\ Nodes(body[r]) = {body[r].head, TailNode(body[r])}
          /\ TailNode(body[r]) \in Nbrs(body[r].head)
      BY <1>1, <2>2, NodesType, ExpandedFrame DEF Nbrs
    <3> QED
      BY <1>1, <1>2, <3>1 DEF Closed, Adjacent
  <2> QED
    BY <2>1, <2>2 DEF IsExpanded
<1>3. \A r \in Shaped : body[r].head \in T /\ r \in particles
  BY DEF Shape, Shaped, InState
<1>4. ASSUME NEW r \in Leaders PROVE body[r].head \in T /\ r \in particles
  <2>1. r \in particles /\ body[r].head \in Node /\ body[r].head \in Occupied
    BY <1>1, NodesType DEF Leaders, InState
  <2>2. PICK n \in Shape : Adjacent(body[r].head, n)
    BY DEF Hanging, AtShape, Adjacent
  <2>3. n \in Node
    <3>1. Occupied \subseteq Node
      BY <1>1, NodesType DEF Occupied
    <3> QED
      BY <2>2, <3>1
  <2>4. Adjacent(n, body[r].head)
    BY <2>1, <2>2, <2>3, AdjacentSymmetric
  <2> QED
    BY <2>1, <2>2, <2>4 DEF Closed
<1> DEFINE C == {q \in Followers : body[q].head \notin T}
<1>5. ASSUME NEW q \in C, Up[q] \notin C PROVE FALSE
  <2>1. /\ q \in particles /\ followDir[q] \in Dir /\ q \in Followers
        /\ body[q].head \in Node /\ body[q].head \in Occupied
    BY <1>1, NodesType DEF Hanging, Led, Followers, InState
  <2>2. PICK r \in Active : Target(q) \in Nodes(body[r])
    BY <2>1 DEF Hanging, Led
  <2>3. r \in particles /\ Up[q] = r
    BY <2>1, <2>2, UpFinds DEF Hanging, Finds, Active, InState
  <2>4. body[r].head \in T
    BY <1>3, <1>4, <1>5, <2>2, <2>3 DEF Active, Shaped, Leaders, Followers, InState
  <2>5. Target(q) \in T
    BY <1>2, <2>2, <2>3, <2>4
  <2>6. Target(q) \in Node /\ Adjacent(body[q].head, Target(q))
    BY <1>1, <2>1, CompassType, NodeInDirType DEF Target, Pointed, Adjacent, Nbrs
  <2>7. Adjacent(Target(q), body[q].head)
    BY <2>1, <2>6, AdjacentSymmetric
  <2> QED
    BY <1>5, <2>1, <2>5, <2>7 DEF Closed
<1>6. C = {}
  <2>1. C \in SUBSET Followers
    OBVIOUS
  <2> HIDE DEF C
  <2> QED
    BY <1>5, <2>1 DEF Hanging, Rooted, ForestOf
<1>7. \A r \in Active : r \in particles /\ body[r].head \in T
  BY <1>3, <1>4, <1>6 DEF Active, Shaped, Leaders, Followers, InState
<1> QED
  BY <1>2, <1>7

\* An expanded particle with no idle neighbour can draw in its tail: whoever
\* is not idle holds together without it.
LEMMA TailLetGo ==
  ASSUME Core, Hanging', Connected(Shape'), Shape' # {}, Shape' \subseteq Occupied',
         NEW p \in particles, IsExpanded(body[p]), ~ HasNbrInState(p, {"Idle"}),
         particles' = particles, state' = state,
         Nodes(body'[p]) = {body[p].head}, \A q \in particles \ {p} : body'[q] = body[q]
  PROVE  Connected(Occupied')
<1>1. /\ body[p] \in Body /\ Nodes(body[p]) = {body[p].head, TailNode(body[p])}
      /\ TailNode(body[p]) \in Node
  BY NodesType DEF Core, TypeOK
<1>2. Occupied = Occupied' \cup {TailNode(body[p])}
  BY <1>1 DEF Occupied
<1>3. Occupied' \subseteq Node
  BY <1>2, ShapeNodes
<1>4. ActiveTogether'
  <2>1. (Hanging => ActiveTogether)'
    BY HeldTogether, PTL
  <2> QED
    BY <2>1
<1> SUFFICES ASSUME NEW T \in SUBSET Occupied', T # {}, T # Occupied',
                    \A m \in T, n \in Occupied' \ T : ~ Adjacent(m, n)
             PROVE  FALSE
  BY DEF Connected
<1> DEFINE U == Occupied' \ T
<1>5. \A m \in U, n \in T : ~ Adjacent(m, n)
  BY <1>3, AdjacentSymmetric
<1>6. Shape' \subseteq T \/ Shape' \subseteq U
  <2> DEFINE C == T \cap Shape'
  <2>1. C \in SUBSET Shape' /\ \A m \in C, n \in Shape' \ C : ~ Adjacent(m, n)
    OBVIOUS
  <2>2. C = {} \/ C = Shape'
    <3> HIDE DEF C
    <3> QED
      BY <2>1 DEF Connected
  <2> QED
    BY <2>2
\* The side without the shape has only idle particles.
<1>7. ASSUME NEW S \in SUBSET Occupied', NEW R \in SUBSET Occupied',
             S \cup R = Occupied', S \cap R = {}, R # {},
             Shape' \subseteq S,
             \A m \in S, n \in R : ~ Adjacent(m, n)
      PROVE  FALSE
  <2>1. Closed(S)'
    BY <1>7 DEF Closed
  <2>2. \A r \in Active' : Nodes(body'[r]) \subseteq S
    BY <1>4, <1>7, <2>1 DEF ActiveTogether
  <2>3. ASSUME NEW n \in R
        PROVE  \E q \in InState({"Idle"}) : q \in particles /\ q # p /\ n \in Nodes(body[q])
    <3>1. PICK q \in particles : n \in Nodes(body'[q])
      BY <1>7 DEF Occupied
    <3>2. q \notin Active
      BY <1>7, <2>2, <3>1 DEF Active, InState
    <3>3. q \in InState({"Idle"})
      BY <3>2 DEF Core, TypeOK, States, Active, InState
    <3>4. q # p
      BY <3>3 DEF Core, TypeOK, InState, IsExpanded
    <3> QED
      BY <3>1, <3>3, <3>4
  <2>4. PICK m \in R, n \in Occupied \ R : Adjacent(m, n)
    <3>1. R \in SUBSET Occupied /\ R # Occupied
      <4>1. S # {}
        BY <1>7
      <4> QED
        BY <1>2, <1>7, <4>1
    <3> QED
      BY <1>7, <3>1 DEF Core, StaysConnected, Connected
  <2>5. n = TailNode(body[p])
    <3>1. m \in Node /\ \A s \in S : s \in Node
      BY <1>3
    <3>2. n \notin S
      BY <1>7, <2>4, <3>1, AdjacentSymmetric
    <3> QED
      BY <1>2, <1>7, <2>4, <3>2
  <2>6. PICK q \in InState({"Idle"}) : q \in particles /\ q # p /\ m \in Nodes(body[q])
    BY <2>3
  <2>7. m \in Node /\ Adjacent(n, m)
    BY <1>1, <1>3, <2>4, <2>5, AdjacentSymmetric
  <2>8. PICK d \in Dir : m = NodeInDir(n, d)
    BY <2>7 DEF Adjacent, Nbrs
  <2>9. m \notin Nodes(body[p]) /\ n \in Nodes(body[p])
    BY <1>1, <2>5, <2>6 DEF Core, ApartIn, particles
  <2>10. PICK l \in Labels(body[p]) : /\ OccupiedNodeIncidentToLabel(body[p], l) = n
                                     /\ LabelToGlobalDir(body[p], l) = d
    BY <1>1, <2>8, <2>9, PortExists
  <2>11. NbrNode(body[p], l) = m
    BY <2>8, <2>10 DEF NbrNode
  <2> QED
    BY <2>6, <2>11 DEF HasNbrInState, LabelsOfNbrs
<1>8. CASE Shape' \subseteq T
  <2> HIDE DEF U
  <2>1. U \in SUBSET Occupied' /\ T \cup U = Occupied' /\ T \cap U = {} /\ U # {}
        /\ \A m \in T, n \in U : ~ Adjacent(m, n)
    BY DEF U
  <2> QED
    BY <1>7, <1>8, <2>1
<1>9. CASE Shape' \subseteq U
  <2> HIDE DEF U
  <2>1. U \in SUBSET Occupied' /\ U \cup T = Occupied' /\ U \cap T = {}
    BY DEF U
  <2> QED
    BY <1>5, <1>7, <1>9, <2>1
<1> QED
  BY <1>6, <1>8, <1>9

-----------------------------------------------------------------------------
(* Steps beside the shape                                                  *)

\* A step that leaves the shape, and where it points, as they are.
Still ==
  /\ particles' = particles /\ UNCHANGED <<mode, turnSignal>> /\ Shaped' = Shaped
  /\ \A p \in Shaped : /\ body'[p] = body[p] /\ state'[p] = state[p]
                       /\ constructionDir'[p] = constructionDir[p]

\* Such a step leaves the shape, its walls and its pointers alone.
LEMMA ShapeStays ==
  ASSUME Core, Still
  PROVE  /\ Shape' = Shape /\ Anchored'
         /\ ShapeOpen => ShapeOpen'
<1>1. \A p \in Shaped : p \in particles /\ p \in Shaped'
  BY DEF Still, Shaped, InState
<1>2. Shape = {body[p].head : p \in Shaped} /\ Shape' = {body'[p].head : p \in Shaped'}
  BY DEF Shape, Shaped
<1>3. Shape' = Shape
  BY <1>2 DEF Still
<1>4. ASSUME NEW p \in particles PROVE state'[p] = "Seed" <=> p = 1
  <2>1. state'[p] = "Seed" => p \in Shaped
    BY <1>4 DEF Still, Shaped, InState
  <2>2. p = 1 => p \in Shaped
    BY ShapeNodes
  <2> QED
    BY <1>4, <2>1, <2>2 DEF Still, Core, Anchored
<1>5. Anchored'
  <2>1. body'[1].head = <<0, 0>> /\ 1 \in particles
    BY ShapeNodes DEF Still, Core, Anchored
  <2>2. \A p \in Shaped : constructionDir'[p] \in Dir
    BY DEF Still, Core, Anchored
  <2> QED
    BY <1>3, <1>4, <2>1, <2>2 DEF Still, Core, Anchored
<1> QED
  BY <1>3, <1>5 DEF ShapeOpen

\* So Core holds after it if its other parts do.
LEMMA CoreKept ==
  ASSUME Core, Still, TypeOK', ApartIn(body'), AtShape', Led', Rooted', StaysConnected'
  PROVE  Core'
  BY ShapeStays DEF Core

\* A particle whose tail no follower points at: HasTailFollower looks at every
\* neighbour.
LEMMA NoFollowerAtTail ==
  ASSUME Core, NEW p \in particles, IsExpanded(body[p]), ~ HasTailFollower(p),
         NEW q \in Followers
  PROVE  Target(q) # TailNode(body[p])
<1> SUFFICES ASSUME Target(q) = TailNode(body[p]) PROVE FALSE
  OBVIOUS
<1>1. /\ body[p] \in Body /\ body[q] \in Body /\ q \in particles
      /\ followDir[q] \in Dir
      /\ Target(q) \notin Nodes(body[q])
      /\ NbrNode(body[q], ParentLabel(q)) = Target(q)
  BY FollowerPoints DEF Core, TypeOK
<1>2. TailNode(body[p]) \in Nodes(body[p]) /\ TailNode(body[p]) \in Node
  BY <1>1, NodesType
<1>3. p # q
  BY <1>1, <1>2
<1>4. body[q].head \in Nodes(body[q]) /\ body[q].head \in Node
  BY <1>1, NodesType
<1>5. body[q].head \notin Nodes(body[p])
  BY <1>1, <1>3, <1>4 DEF Core, ApartIn, particles
<1> DEFINE g == LocalToGlobalDir(body[q], followDir[q])
<1>6. g \in Dir /\ TailNode(body[p]) = NodeInDir(body[q].head, g)
  BY <1>1, CompassType DEF Target, Pointed
<1>7. Opposite(g) \in Dir /\ NodeInDir(TailNode(body[p]), Opposite(g)) = body[q].head
  BY <1>4, <1>6, NodeInDirBack, OppositeType
<1> HIDE DEF g
<1>8. PICK l \in Labels(body[p]) : /\ OccupiedNodeIncidentToLabel(body[p], l) = TailNode(body[p])
                                   /\ LabelToGlobalDir(body[p], l) = Opposite(g)
  BY <1>1, <1>2, <1>5, <1>7, PortExists
<1>9. NbrNode(body[p], l) = body[q].head
  BY <1>7, <1>8 DEF NbrNode
<1>10. l \in LabelsOfNbrs(p, InState({"Follow"}))
  BY <1>4, <1>9 DEF LabelsOfNbrs, Followers
<1>11. NbrAtLabel(p, l) = q
  BY <1>1, <1>4, <1>9, ParticleFound DEF NbrAtLabel, Core
<1>12. PointsAtMyTail(body[p], body[q], ParentLabel(q))
  BY <1>1 DEF PointsAtMyTail
<1> QED
  BY <1>10, <1>11, <1>12 DEF HasTailFollower

\* Where the body of a contraction ends up.
LEMMA ContractMoves ==
  ASSUME Core, NEW p \in particles, IsExpanded(body[p]),
         body' = AfterContractTail(p), UNCHANGED <<mode, state, turnSignal, constructionDir>>
  PROVE  /\ Still /\ ApartIn(body') /\ body' \in [particles -> Body]
         /\ IsContracted(body'[p]) /\ Nodes(body'[p]) = {body[p].head}
         /\ Nodes(body[p]) = {body[p].head, TailNode(body[p])}
         /\ \A q \in particles : /\ body'[q].head = body[q].head
                                 /\ body'[q].orientation = body[q].orientation
                                 /\ Nodes(body'[q]) \subseteq Nodes(body[q])
                                 /\ q # p => body'[q] = body[q]
<1> DEFINE x == TailContracted(body[p])
<1>1. body \in [particles -> Body] /\ body[p] \in Body
  BY DEF Core, TypeOK
<1>2. /\ x \in Body /\ IsContracted(x) /\ Nodes(x) = {body[p].head}
      /\ x.head = body[p].head /\ x.orientation = body[p].orientation
  <2>1. x.head = body[p].head /\ x.orientation = body[p].orientation
    BY <1>1 DEF TailContracted, Body
  <2> QED
    BY <1>1, <2>1, ContractedBody
<1>3. body' = [body EXCEPT ![p] = x]
  BY DEF AfterContractTail
<1> HIDE DEF x
<1>4. /\ particles' = particles /\ body' \in [particles -> Body]
      /\ body'[p] = x /\ \A q \in particles \ {p} : body'[q] = body[q]
  BY <1>1, <1>2, <1>3 DEF particles
<1>5. Nodes(body[p]) = {body[p].head, TailNode(body[p])}
  BY <1>1, NodesType
<1>6. \A q \in particles : /\ body'[q].head = body[q].head
                           /\ body'[q].orientation = body[q].orientation
                           /\ Nodes(body'[q]) \subseteq Nodes(body[q])
                           /\ q # p => body'[q] = body[q]
  BY <1>2, <1>4, <1>5
<1>7. ApartIn(body')
  <2>1. DOMAIN body' = particles
    BY <1>4
  <2> QED
    BY <1>6, <2>1 DEF ApartIn, Core, particles
<1>8. Still
  <2>1. p \notin Shaped
    BY ShapeNodes DEF IsExpanded
  <2>2. Shaped' = Shaped /\ Shaped \subseteq particles
    BY <1>4 DEF Shaped, InState
  <2> QED
    BY <1>4, <1>6, <2>1, <2>2 DEF Still
<1> QED
  BY <1>2, <1>4, <1>5, <1>6, <1>7, <1>8

\* Drawing in a tail that no follower points at, and no idle particle is next
\* to, loses nobody.
LEMMA ContractKeeps ==
  ASSUME Core, NEW p \in particles, IsExpanded(body[p]),
         ~ HasNbrInState(p, {"Idle"}), ~ HasTailFollower(p),
         body' = AfterContractTail(p),
         UNCHANGED <<mode, state, turnSignal, constructionDir, followDir>>,
         moveDir' \in [particles -> MaybeDir]
  PROVE  Core' /\ Still
<1>1. /\ Still /\ ApartIn(body') /\ body' \in [particles -> Body] /\ particles' = particles
      /\ IsContracted(body'[p]) /\ Nodes(body'[p]) = {body[p].head}
      /\ Nodes(body[p]) = {body[p].head, TailNode(body[p])}
      /\ \A q \in particles : /\ body'[q].head = body[q].head
                              /\ body'[q].orientation = body[q].orientation
                              /\ Nodes(body'[q]) \subseteq Nodes(body[q])
                              /\ q # p => body'[q] = body[q]
  BY ContractMoves DEF Still
<1>2. Shape' = Shape /\ Anchored'
  BY <1>1, ShapeStays
<1>3. /\ Followers' = Followers /\ Active' = Active /\ Leaders' = Leaders
      /\ Leaders \subseteq particles
      /\ InState({"Seed", "Finish", "Idle"})' = InState({"Seed", "Finish", "Idle"})
      /\ InState({"Seed", "Finish", "Idle"}) \subseteq particles
  BY <1>1 DEF Followers, Active, Leaders, InState
<1>4. TypeOK'
  <2>1. \A q \in InState({"Seed", "Finish", "Idle"}) : IsContracted(body'[q])
    BY <1>1, <1>3 DEF TypeOK, Core
  <2> QED
    BY <1>1, <1>3, <2>1 DEF TypeOK, Core
<1>5. AtShape'
  BY <1>1, <1>2, <1>3 DEF AtShape, Core
<1>6. ASSUME NEW q \in Followers
      PROVE  /\ followDir'[q] \in Dir /\ followDir'[q] # TailDir(body'[q])
             /\ Up[q] \in Active /\ Target(q)' \in Nodes(body'[Up[q]])
             /\ q \in particles /\ Up[q] \in particles
  <2>1. /\ q \in particles /\ followDir[q] \in Dir
        /\ Up[q] \in Active /\ Up[q] \in particles
        /\ Target(q) \in Nodes(body[Up[q]])
    BY FollowerPoints
  <2>2. Target(q)' = Target(q)
    BY <1>1, <2>1 DEF Target, Pointed, LocalToGlobalDir
  <2>3. Target(q) # TailNode(body[p])
    BY NoFollowerAtTail
  <2>4. Target(q) \in Nodes(body'[Up[q]])
    BY <1>1, <2>1, <2>3
  <2>5. followDir[q] # TailDir(body'[q])
    <3>1. CASE q = p
      BY <1>1, <2>1, <3>1, ContractedFrame DEF Dir
    <3>2. CASE q # p
      BY <1>1, <2>1, <3>2 DEF Core, Led
    <3> QED
      BY <3>1, <3>2
  <2> QED
    BY <2>1, <2>2, <2>4, <2>5
<1>7. Led'
  BY <1>3, <1>6 DEF Led
<1>8. \A q \in Followers : Up'[q] = Up[q]
  BY <1>1, <1>6, UpNext
<1>9. Rooted'
  BY <1>3, <1>8 DEF Rooted, ForestOf, Core
<1>10. Hanging'
  BY <1>1, <1>4, <1>5, <1>7, <1>9 DEF Hanging
<1>11. StaysConnected'
  <2>1. Connected(Shape') /\ Shape' # {}
    BY <1>2, ShapeNodes DEF Core, Anchored
  <2>2. Shape' \subseteq Occupied'
    <3>1. ASSUME NEW q \in Shaped PROVE q \in particles' /\ body'[q].head \in Nodes(body'[q])
      BY <1>1, NodesType DEF Shaped, InState
    <3>2. Shape' = {body'[q].head : q \in Shaped'} /\ Shaped' = Shaped
      BY <1>1 DEF Shape, Shaped, Still
    <3> QED
      BY <3>1, <3>2 DEF Occupied
  <2> QED
    BY <1>1, <1>10, <2>1, <2>2, TailLetGo DEF StaysConnected
<1> QED
  BY <1>1, <1>4, <1>5, <1>7, <1>9, <1>11, CoreKept

\* FollowContracts keeps Core: nobody hangs on the tail it lets go.
LEMMA FollowContractsKeeps ==
  ASSUME Core, NEW p \in particles, FollowContracts(p)
  PROVE  Core' /\ Still
<1>1. moveDir' \in [particles -> MaybeDir]
  BY DEF FollowContracts, Core, TypeOK
<1> QED
  BY <1>1, ContractKeeps DEF FollowContracts

\* So does LeadContracts, and the leader's head stays beside the shape.
LEMMA LeadContractsKeeps ==
  ASSUME Core, ShapeOpen, NEW p \in particles, LeadContracts(p)
  PROVE  Core' /\ Still
<1>1. /\ IsExpanded(body[p]) /\ p \in Leaders
      /\ ~ HasNbrInState(p, {"Idle"}) /\ ~ HasTailFollower(p)
      /\ body' = AfterContractTail(p)
      /\ UNCHANGED <<mode, state, turnSignal, constructionDir, followDir>>
      /\ moveDir' = [moveDir EXCEPT ![p] = NextMoveDir(p)']
  BY DEF LeadContracts, Leaders, InState
<1>2. /\ Still /\ IsContracted(body'[p]) /\ body'[p] \in Body
      /\ body'[p].head = body[p].head /\ particles' = particles
  BY <1>1, ContractMoves DEF Still
<1>3. /\ Shape' = Shape /\ Shape' = {body'[q].head : q \in Shaped'}
      /\ \A q \in Shaped' : Nodes(body'[q]) = {body'[q].head}
  <2>1. \A q \in Shaped : Nodes(body[q]) = {body[q].head}
    BY ShapeNodes
  <2> QED
    BY <1>2, <2>1, ShapeStays DEF Shape, Shaped, Still
<1> DEFINE L == {l \in Dir : NbrNode(body'[p], l) \in Shape}
<1>4. NextMoveDir(p)' = FreeClockwise[L]
  <2>1. ShapeLabels(p)' = {l \in Labels(body'[p]) :
                             \E q \in Shaped' : NbrNode(body'[p], l) \in Nodes(body'[q])}
    BY DEF ShapeLabels, LabelsOfNbrs, Shaped
  <2>2. Labels(body'[p]) = Dir
    BY <1>2, ContractedPorts
  <2>3. \A n : n \in Shape <=> \E q \in Shaped' : n \in Nodes(body'[q])
    BY <1>3
  <2>4. ShapeLabels(p)' = L
    BY <2>1, <2>2, <2>3
  <2> QED
    BY <2>4 DEF NextMoveDir
<1>5. FreeClockwise[L] \in Dir
  <2>1. body[p].head \in Node \ Shape
    <3>1. p \in particles \ Shaped /\ body[p] \in Body
      BY <1>1 DEF Leaders, Shaped, InState, Core, TypeOK
    <3> QED
      BY <3>1, NodesType, ShapeNodes
  <2>2. Nbrs(body[p].head) \cap Shape # {} /\ ~ (Nbrs(body[p].head) \subseteq Shape)
    BY <1>1, <2>1 DEF Core, AtShape, ShapeOpen
  <2> QED
    BY <1>2, <2>2, SurfaceWalk
<1> HIDE DEF L
<1>6. moveDir' \in [particles -> MaybeDir]
  BY <1>1, <1>4, <1>5 DEF Core, TypeOK, MaybeDir
<1> QED
  BY <1>1, <1>6, ContractKeeps

\* Becoming a leader takes a particle off the forest.
LEMMA BecomeLeadKeeps ==
  ASSUME Core, ShapeOpen, NEW p \in particles, BecomeLead(p)
  PROVE  Core' /\ Still
<1>1. /\ body[p] \in Body /\ IsContracted(body[p]) /\ p \notin Shaped
      /\ body' = body
      /\ UNCHANGED <<mode, turnSignal, constructionDir, followDir>>
      /\ state' = [state EXCEPT ![p] = "Lead"]
      /\ moveDir' = [moveDir EXCEPT ![p] = NextMoveDir(p)]
  BY DEF BecomeLead, Core, TypeOK, Shaped, InState
<1>2. Nbrs(body[p].head) \cap Shape # {}
  BY <1>1, ShapePorts DEF BecomeLead
<1>3. NextMoveDir(p) \in Dir
  BY <1>1, <1>2, SurfaceDir
<1>4. /\ particles' = particles
      /\ state' \in [particles -> States]
      /\ state'[p] = "Lead" /\ \A q \in particles \ {p} : state'[q] = state[q]
      /\ moveDir' \in [particles -> MaybeDir]
  BY <1>1, <1>3 DEF particles, Core, TypeOK, States, MaybeDir
<1>5. Still
  BY <1>1, <1>4 DEF Still, Shaped, InState
<1>6. /\ Followers' \subseteq Followers \ {p} /\ Active \subseteq Active'
      /\ Leaders' \subseteq Leaders \cup {p}
      /\ InState({"Seed", "Finish", "Idle"})' \subseteq InState({"Seed", "Finish", "Idle"})
  BY <1>4 DEF Followers, Active, Leaders, InState
<1>7. TypeOK'
  BY <1>1, <1>4, <1>6 DEF Core, TypeOK
<1>8. ApartIn(body') /\ AtShape' /\ StaysConnected'
  <2>1. Shape' = Shape /\ Occupied' = Occupied
    BY <1>1, <1>5, ShapeStays DEF Occupied, Still
  <2> QED
    BY <1>1, <1>2, <1>6, <2>1 DEF Core, AtShape, StaysConnected
<1>9. \A q \in Followers' : /\ q \in Followers /\ q \in particles
                            /\ followDir'[q] = followDir[q] /\ Target(q)' = Target(q)
  BY <1>1, <1>4, <1>6, FollowerPoints DEF Target
<1>10. Led'
  BY <1>1, <1>6, <1>9 DEF Led, Core
<1>11. \A q \in Followers' : Up'[q] = Up[q]
  BY <1>1, <1>4, <1>8, <1>9, FollowerPoints, UpNext
<1>12. Rooted'
  BY <1>6, <1>11 DEF Rooted, ForestOf, Core
<1> QED
  BY <1>5, <1>7, <1>8, <1>10, <1>12, CoreKept

\* A new follower points at one that is in the forest, and nobody at it.
LEMMA BecomeFollowKeeps ==
  ASSUME Core, NEW p \in particles, BecomeFollow(p)
  PROVE  Core' /\ Still
<1> DEFINE Ahead == InState({"Lead", "Follow"})
           L == LabelsOfNbrs(p, Ahead)
           d == LabelOfFirstNbr(p, Ahead, 0)
<1>1. /\ body[p] \in Body /\ IsContracted(body[p]) /\ state[p] = "Idle"
      /\ L # {} /\ body' = body
      /\ UNCHANGED <<mode, turnSignal, constructionDir, moveDir>>
      /\ state' = [state EXCEPT ![p] = "Follow"]
      /\ followDir' = [followDir EXCEPT ![p] = d]
  BY DEF BecomeFollow, HasNbrInState, Core, TypeOK
<1>2. d \in L /\ L \subseteq Dir
  <2>1. Labels(body[p]) = Dir /\ LabelLimit(body[p]) = 6
    BY <1>1, ContractedFrame
  <2>2. L \subseteq Dir /\ d = FirstFrom(L, 0, 6)
    BY <2>1 DEF LabelsOfNbrs, LabelOfFirstNbr
  <2> HIDE DEF L, d
  <2> QED
    BY <1>1, <2>2, FirstFound
<1>3. PICK r \in Ahead : NbrNode(body[p], d) \in Nodes(body[r])
  BY <1>2 DEF LabelsOfNbrs
<1>4. r \in Active /\ r \in particles
  BY DEF Active, InState
<1> HIDE DEF d, L, Ahead
<1>5. /\ d \in Dir /\ NbrNode(body[p], d) = Pointed(body[p], d)
      /\ TailDir(body[p]) = -1 /\ d # -1
      /\ Pointed(body[p], d) \notin Nodes(body[p])
  <2>1. d \in Dir /\ TailDir(body[p]) = -1 /\ d # -1
    BY <1>1, <1>2, ContractedFrame DEF Dir
  <2> QED
    BY <1>1, <2>1, ContractedPorts, PointerPort
<1>6. /\ particles' = particles
      /\ state' \in [particles -> States]
      /\ state'[p] = "Follow" /\ \A q \in particles \ {p} : state'[q] = state[q]
      /\ followDir' \in [particles -> MaybeDir]
      /\ followDir'[p] = d /\ \A q \in particles \ {p} : followDir'[q] = followDir[q]
  BY <1>1, <1>5 DEF particles, Core, TypeOK, States, MaybeDir
<1>7. Still
  BY <1>1, <1>6 DEF Still, Shaped, InState
<1>8. /\ Followers' = Followers \cup {p} /\ p \notin Followers /\ p \notin Active
      /\ Active' = Active \cup {p} /\ Leaders' = Leaders
      /\ InState({"Seed", "Finish", "Idle"})' \subseteq InState({"Seed", "Finish", "Idle"})
  BY <1>1, <1>6 DEF Followers, Active, Leaders, InState
<1>9. TypeOK'
  BY <1>1, <1>6, <1>8 DEF Core, TypeOK
<1>10. ApartIn(body') /\ AtShape' /\ StaysConnected'
  <2>1. Shape' = Shape /\ Occupied' = Occupied
    BY <1>1, <1>7, ShapeStays DEF Occupied, Still
  <2> QED
    BY <1>1, <1>8, <2>1 DEF Core, AtShape, StaysConnected
<1>11. Target(p)' = NbrNode(body[p], d)
  BY <1>1, <1>5, <1>6 DEF Target
<1>12. ASSUME NEW q \in Followers
       PROVE  /\ q \in particles /\ followDir'[q] = followDir[q] /\ Target(q)' = Target(q)
              /\ Up[q] \in particles /\ Target(q) \in Nodes(body'[Up[q]]) /\ Up[q] # p
  <2>1. q # p /\ q \in particles
    BY <1>8, FollowerPoints
  <2> QED
    BY <1>1, <1>6, <1>8, <2>1, FollowerPoints DEF Target
<1>13. Led'
  <2>1. /\ followDir'[p] \in Dir /\ followDir'[p] # TailDir(body'[p])
        /\ Target(p)' \in Nodes(body'[r]) /\ r \in Active'
    BY <1>1, <1>3, <1>4, <1>5, <1>6, <1>8, <1>11
  <2>2. ASSUME NEW q \in Followers
        PROVE  /\ followDir'[q] \in Dir /\ followDir'[q] # TailDir(body'[q])
               /\ \E s \in Active' : Target(q)' \in Nodes(body'[s])
    BY <1>1, <1>8, <1>12 DEF Core, Led
  <2> QED
    BY <1>8, <2>1, <2>2 DEF Led
<1>14. Up'[p] = r /\ r # p
  BY <1>1, <1>3, <1>4, <1>6, <1>8, <1>10, <1>11, UpNext
<1>15. \A q \in Followers : Up'[q] = Up[q]
  BY <1>6, <1>10, <1>12, UpNext
<1>16. Rooted'
  <2>1. \A q \in Followers : Up'[q] = Up[q] /\ Up[q] # p
    BY <1>12, <1>15
  <2>2. ForestOf(Followers, Up)
    BY DEF Core, Rooted
  <2>3. ForestOf(Followers \cup {p}, Up')
    BY <1>14, <2>1, <2>2, ForestJoined
  <2> QED
    BY <1>8, <2>3 DEF Rooted
<1> QED
  BY <1>7, <1>9, <1>10, <1>13, <1>16, CoreKept

-----------------------------------------------------------------------------
(* Handovers and expansions                                                *)

\* Where the two bodies of a handover end up.
LEMMA PushMoves ==
  ASSUME Core, NEW p \in particles, IsContracted(body[p]), NEW l \in Dir,
         HasTailAtLabel(p, l), NEW r, r = NbrAtLabel(p, l), body' = AfterPush(p, l)
  PROVE  /\ r \in particles /\ r # p /\ body[r] \in Body /\ IsExpanded(body[r])
         /\ TailNode(body[r]) = NbrNode(body[p], l)
         /\ Nodes(body[r]) = {body[r].head, TailNode(body[r])}
         /\ particles' = particles /\ body' \in [particles -> Body] /\ ApartIn(body')
         /\ body'[p].head = TailNode(body[r]) /\ body'[p].orientation = body[p].orientation
         /\ Nodes(body'[p]) = {TailNode(body[r]), body[p].head}
         /\ body'[r].head = body[r].head /\ body'[r].orientation = body[r].orientation
         /\ IsContracted(body'[r]) /\ Nodes(body'[r]) = {body[r].head}
         /\ \A q \in particles \ {p, r} : body'[q] = body[q]
         /\ Occupied' = Occupied
<1>1. /\ body \in [particles -> Body] /\ ApartIn(body)
      /\ body[p] \in Body /\ l \in Labels(body[p])
  BY ContractedFrame DEF Core, TypeOK
<1>2. PICK q \in particles : NbrNode(body[p], l) \in Nodes(body[q])
  BY DEF HasTailAtLabel, HasNbrAtLabel, Occupied
<1>3. r = q
  BY <1>1, <1>2, ParticleFound DEF NbrAtLabel
<1>4. /\ r \in particles /\ body[r] \in Body /\ IsExpanded(body[r])
      /\ TailNode(body[r]) = NbrNode(body[p], l)
  BY <1>1, <1>2, <1>3 DEF HasTailAtLabel
<1>5. body' = PushOff(body, p, r, l)
  <2>1. r # p
    BY <1>4 DEF IsExpanded
  <2> QED
    BY <1>1, <1>4, <2>1 DEF AfterPush, PushOff
<1>6. /\ p # r /\ body' \in [particles -> Body] /\ ApartIn(body')
      /\ body'[p].head = TailNode(body[r]) /\ body'[p].orientation = body[p].orientation
      /\ Nodes(body'[p]) = {TailNode(body[r]), body[p].head}
      /\ body'[r].head = body[r].head /\ body'[r].orientation = body[r].orientation
      /\ IsContracted(body'[r]) /\ Nodes(body'[r]) = {body[r].head}
      /\ \A q1 \in particles \ {p, r} : body'[q1] = body[q1]
  BY <1>1, <1>4, <1>5, PushedOff
<1>7. particles' = particles
  BY <1>6 DEF particles
<1>8. Nodes(body[r]) = {body[r].head, TailNode(body[r])} /\ Nodes(body[p]) = {body[p].head}
  BY <1>1, <1>4, NodesType
<1>9. Occupied' = Occupied
  <2>1. \A s \in particles : Nodes(body'[s]) \subseteq Occupied
    BY <1>4, <1>6, <1>8 DEF Occupied
  <2>2. \A s \in particles : Nodes(body[s]) \subseteq Occupied'
    BY <1>4, <1>6, <1>7, <1>8 DEF Occupied
  <2> QED
    BY <1>7, <2>1, <2>2 DEF Occupied
<1> QED
  BY <1>4, <1>6, <1>7, <1>8, <1>9

\* And those of an expansion.
LEMMA ExpandMoves ==
  ASSUME Core, NEW p \in particles, IsContracted(body[p]), NEW l \in Dir,
         ~ HasNbrAtLabel(p, l), body' = AfterExpand(p, l)
  PROVE  /\ particles' = particles /\ body' \in [particles -> Body] /\ ApartIn(body')
         /\ body'[p].head = NbrNode(body[p], l)
         /\ Nodes(body'[p]) = {NbrNode(body[p], l), body[p].head}
         /\ \A q \in particles \ {p} : body'[q] = body[q]
         /\ StaysConnected'
<1> DEFINE x == Expanded(body[p], l)
<1>1. /\ body \in [particles -> Body] /\ ApartIn(body)
      /\ body[p] \in Body /\ l \in Labels(body[p])
  BY ContractedFrame DEF Core, TypeOK
<1>2. x \in Body /\ x.head = NbrNode(body[p], l) /\ Nodes(x) = {NbrNode(body[p], l), body[p].head}
  BY <1>1, ExpandedBody
<1>3. body' = [body EXCEPT ![p] = x]
  BY DEF AfterExpand
<1> HIDE DEF x
<1>4. Nodes(body[p]) = {body[p].head}
  BY <1>1, NodesType
<1>5. \A r \in particles \ {p} : Nodes(x) \cap Nodes(body[r]) = {}
  BY <1>1, <1>2, <1>4 DEF HasNbrAtLabel, Occupied, ApartIn, particles
<1>6. body' \in [particles -> Body] /\ body'[p] = x /\ \A q \in particles \ {p} : body'[q] = body[q]
  BY <1>1, <1>2, <1>3
<1>7. particles' = particles
  BY <1>6 DEF particles
<1>8. ApartIn(body')
  <2>1. DOMAIN body' = particles
    BY <1>6
  <2>2. ASSUME NEW r \in particles, NEW s \in particles, r # s
        PROVE  Nodes(body'[r]) \cap Nodes(body'[s]) = {}
    BY <1>1, <1>5, <1>6, <2>2 DEF ApartIn, particles
  <2> QED
    BY <2>1, <2>2 DEF ApartIn
<1>9. StaysConnected'
  <2> DEFINE n == NbrNode(body[p], l)
  <2>1. Occupied' = Occupied \cup {n}
    BY <1>2, <1>4, <1>6, <1>7 DEF Occupied
  <2>2. n \in Node /\ Adjacent(body[p].head, n)
    BY <1>1, ContractedPorts DEF Adjacent
  <2>3. body[p].head \in Occupied
    BY <1>4 DEF Occupied
  <2> HIDE DEF n
  <2> QED
    BY <2>1, <2>2, <2>3, ConnectedJoined, ShapeNodes DEF StaysConnected, Core
<1> QED
  BY <1>2, <1>6, <1>7, <1>8, <1>9

\* What becomes of the other pointers in a handover: those at the tail that is
\* pushed off now lead to the one that pushes, all others to whom they did.
LEMMA PushReroutes ==
  ASSUME Core, NEW p \in particles, IsContracted(body[p]), NEW l \in Dir,
         HasTailAtLabel(p, l), NEW r, r = NbrAtLabel(p, l), body' = AfterPush(p, l),
         NEW q \in Followers, q # p, followDir'[q] = followDir[q]
  PROVE  /\ q \in particles /\ followDir'[q] \in Dir /\ followDir'[q] # TailDir(body'[q])
         /\ Up'[q] = Up[q] \/ (Up'[q] = p /\ Up[q] = r)
         /\ Up'[q] \in Active \cup {p} /\ Target(q)' \in Nodes(body'[Up'[q]])
<1>1. /\ r \in particles /\ r # p /\ particles' = particles /\ ApartIn(body')
      /\ Nodes(body[r]) = {body[r].head, TailNode(body[r])}
      /\ Nodes(body'[p]) = {TailNode(body[r]), body[p].head}
      /\ body'[r].head = body[r].head /\ body'[r].orientation = body[r].orientation
      /\ IsContracted(body'[r]) /\ Nodes(body'[r]) = {body[r].head}
      /\ body'[r] \in Body
      /\ \A s \in particles \ {p, r} : body'[s] = body[s]
  BY PushMoves
<1>2. /\ q \in particles /\ followDir[q] \in Dir
      /\ Up[q] \in Active /\ Up[q] \in particles
      /\ Target(q) \in Nodes(body[Up[q]])
  BY FollowerPoints
<1>3. Target(q)' = Target(q)
  BY <1>1, <1>2 DEF Target, Pointed, LocalToGlobalDir
<1>4. followDir[q] # TailDir(body'[q])
  <2>1. CASE q = r
    BY <1>1, <1>2, <2>1, ContractedFrame DEF Dir
  <2>2. CASE q # r
    BY <1>1, <1>2, <2>2 DEF Core, Led
  <2> QED
    BY <2>1, <2>2
<1>5. Nodes(body[p]) = {body[p].head}
  BY NodesType DEF Core, TypeOK
<1>6. CASE Up[q] = r /\ Target(q) = TailNode(body[r])
  <2>1. Up'[q] = p
    BY <1>1, <1>2, <1>3, <1>6, UpNext
  <2> QED
    BY <1>1, <1>2, <1>3, <1>4, <1>6, <2>1
<1>7. CASE ~ (Up[q] = r /\ Target(q) = TailNode(body[r]))
  <2>1. Target(q) \in Nodes(body'[Up[q]])
    BY <1>1, <1>2, <1>5, <1>7
  <2>2. Up'[q] = Up[q]
    BY <1>1, <1>2, <1>3, <2>1, UpNext
  <2> QED
    BY <1>2, <1>3, <1>4, <2>1, <2>2
<1> QED
  BY <1>6, <1>7

\* A follower that pushes its parent off its tail turns its pointer to the
\* parent's head.
LEMMA FollowPushesKeeps ==
  ASSUME Core, NEW p \in particles, FollowPushes(p)
  PROVE  Core' /\ Still
<1> DEFINE l == followDir[p]
           r == NbrAtLabel(p, l)
           d == NbrDirToDir(body[p], body[r], Opposite(TailDir(body[r])))
<1>1. /\ IsContracted(body[p]) /\ p \in Followers
      /\ HasTailAtLabel(p, l) /\ body' = AfterPush(p, l)
      /\ followDir' = [followDir EXCEPT ![p] = d]
      /\ UNCHANGED <<mode, state, turnSignal, constructionDir, moveDir>>
  BY DEF FollowPushes, Followers, InState
<1>2. /\ body[p] \in Body /\ l \in Dir /\ Up[p] \in Active
      /\ Target(p) \in Nodes(body[Up[p]]) /\ Up[p] \in particles
  BY <1>1, FollowerPoints
<1> HIDE DEF l
<1>3. /\ r \in particles /\ r # p /\ body[r] \in Body /\ IsExpanded(body[r])
      /\ TailNode(body[r]) = NbrNode(body[p], l)
      /\ Nodes(body[r]) = {body[r].head, TailNode(body[r])}
      /\ particles' = particles /\ body' \in [particles -> Body] /\ ApartIn(body')
      /\ body'[p].head = TailNode(body[r]) /\ body'[p].orientation = body[p].orientation
      /\ Nodes(body'[p]) = {TailNode(body[r]), body[p].head}
      /\ body'[r].head = body[r].head /\ Nodes(body'[r]) = {body[r].head}
      /\ \A q \in particles \ {p, r} : body'[q] = body[q]
      /\ Occupied' = Occupied
  <2> HIDE DEF r
  <2> QED
    BY <1>1, <1>2, PushMoves DEF r
<1>4. Target(p) = TailNode(body[r])
  BY <1>1, <1>2, <1>3, ContractedPorts DEF Target, l
<1>5. Up[p] = r /\ r \in Active
  BY <1>2, <1>3, <1>4, ParticleFound DEF Core, Up
<1>6. d \in Dir /\ NodeInDir(TailNode(body[r]), LocalToGlobalDir(body[p], d)) = body[r].head
  BY <1>2, <1>3, TurnedRound
<1>7. \A q \in Followers \ {p} :
        followDir'[q] = followDir[q] =>
          /\ q \in particles /\ followDir'[q] \in Dir /\ followDir'[q] # TailDir(body'[q])
          /\ Up'[q] = Up[q] \/ (Up'[q] = p /\ Up[q] = r)
          /\ Up'[q] \in Active \cup {p} /\ Target(q)' \in Nodes(body'[Up'[q]])
  <2> HIDE DEF r
  <2> QED
    BY <1>1, <1>2, PushReroutes DEF r
<1> HIDE DEF r, d
<1>8. /\ followDir' \in [particles -> MaybeDir]
      /\ followDir'[p] = d /\ \A q \in particles \ {p} : followDir'[q] = followDir[q]
  BY <1>1, <1>6 DEF Core, TypeOK, MaybeDir
<1>9. /\ Followers' = Followers /\ Active' = Active /\ Followers \subseteq Active
      /\ Followers \subseteq particles
      /\ Leaders' = Leaders /\ p \notin Leaders
  BY <1>1, <1>3 DEF Followers, Active, Leaders, InState
<1>10. Still
  <2>1. p \notin Shaped /\ r \notin Shaped /\ Shaped \subseteq particles
    BY <1>1, <1>3, ShapeNodes DEF Followers, Shaped, InState, IsExpanded
  <2> QED
    BY <1>1, <1>3, <2>1 DEF Still, Shaped, InState
<1>11. TypeOK'
  <2>1. /\ InState({"Seed", "Finish", "Idle"})' = InState({"Seed", "Finish", "Idle"})
        /\ \A q \in InState({"Seed", "Finish", "Idle"}) : q # p /\ q # r /\ q \in particles
    BY <1>1, <1>3 DEF InState, Followers, Core, TypeOK, IsExpanded
  <2> QED
    BY <1>1, <1>3, <1>8, <2>1 DEF Core, TypeOK
<1>12. AtShape' /\ StaysConnected'
  <2>1. \A q \in Leaders : body'[q].head = body[q].head
    BY <1>3, <1>9 DEF Leaders, InState
  <2> QED
    BY <1>3, <1>9, <1>10, <2>1, ShapeStays DEF AtShape, StaysConnected, Core
<1>13. Target(p)' = body[r].head
  BY <1>3, <1>6, <1>8 DEF Target, Pointed, LocalToGlobalDir
<1>14. /\ Up'[p] = r
       /\ followDir'[p] # TailDir(body'[p])
  <2>1. Target(p)' \in Nodes(body'[r])
    BY <1>3, <1>13
  <2>2. Target(p)' \notin Nodes(body'[p])
    BY <1>3, <2>1 DEF ApartIn
  <2>3. body'[p] \in Body /\ Target(p)' = Pointed(body'[p], d)
    BY <1>3, <1>8 DEF Target
  <2>4. d # TailDir(body'[p])
    BY <1>6, <2>2, <2>3, PointerPort
  <2> QED
    BY <1>3, <1>8, <2>1, <2>4, UpNext
<1>15. Led'
  <2>1. ASSUME NEW q \in Followers, q # p
        PROVE  /\ followDir'[q] \in Dir /\ followDir'[q] # TailDir(body'[q])
               /\ \E s \in Active : Target(q)' \in Nodes(body'[s])
    BY <1>1, <1>7, <1>8, <1>9, <2>1
  <2>2. /\ followDir'[p] \in Dir /\ followDir'[p] # TailDir(body'[p])
        /\ r \in Active /\ Target(p)' \in Nodes(body'[r])
    BY <1>3, <1>5, <1>6, <1>8, <1>13, <1>14
  <2> QED
    BY <1>9, <2>1, <2>2 DEF Led
<1>16. Rooted'
  <2>1. \A q \in Followers : Up'[q] = Up[q] \/ (Up'[q] = p /\ Up[q] = r)
    BY <1>5, <1>7, <1>8, <1>9, <1>14
  <2>2. ForestOf(Followers, Up)
    BY DEF Core, Rooted
  <2>3. ForestOf(Followers, Up')
    BY <1>1, <1>5, <1>14, <2>1, <2>2, ForestPushed
  <2> QED
    BY <1>9, <2>3 DEF Rooted
<1> QED
  BY <1>3, <1>10, <1>11, <1>12, <1>15, <1>16, CoreKept

\* A step of a leader to a node beside the shape disturbs only the pointers at
\* a tail it pushes off, and those now end at the leader.
LEMMA LeadKeeps ==
  ASSUME Core, NEW p \in Leaders, NEW d \in Dir,
         Nbrs(NbrNode(body[p], d)) \cap Shape # {},
         body'[p].head = NbrNode(body[p], d),
         \A q \in Leaders \ {p} : body'[q].head = body[q].head,
         \A q \in InState({"Seed", "Finish", "Idle"}) : body'[q] = body[q],
         particles' = particles, body' \in [particles -> Body], ApartIn(body'),
         StaysConnected',
         UNCHANGED <<mode, state, turnSignal, constructionDir, followDir>>,
         moveDir' = [moveDir EXCEPT ![p] = d],
         \A q \in Followers :
           /\ followDir'[q] \in Dir /\ followDir'[q] # TailDir(body'[q])
           /\ Up'[q] = Up[q] \/ Up'[q] = p
           /\ Up'[q] \in Active /\ Target(q)' \in Nodes(body'[Up'[q]])
  PROVE  Core' /\ Still
<1>1. p \in particles /\ p \notin Followers
  BY DEF InState, Leaders, Followers
<1>2. /\ Followers' = Followers /\ Active' = Active /\ Leaders' = Leaders
      /\ Shaped' = Shaped /\ Shaped \subseteq InState({"Seed", "Finish", "Idle"})
      /\ InState({"Seed", "Finish", "Idle"})' = InState({"Seed", "Finish", "Idle"})
  BY DEF Followers, Active, Leaders, Shaped, InState
<1>3. TypeOK'
  BY <1>1, <1>2 DEF Core, TypeOK, MaybeDir
<1>4. Still
  BY <1>2 DEF Still
<1>5. AtShape'
  BY <1>2, <1>4, ShapeStays DEF AtShape, Core
<1>6. Led'
  BY <1>2 DEF Led
<1>7. Rooted'
  <2>1. ForestOf(Followers, Up) /\ Followers \in SUBSET Followers
    BY DEF Core, Rooted
  <2>2. \A q \in Followers : Up'[q] = Up[q] \/ Up'[q] \notin Followers
    BY <1>1
  <2>3. ForestOf(Followers, Up')
    BY <2>1, <2>2, ForestLeft
  <2> QED
    BY <1>2, <2>3 DEF Rooted
<1> QED
  BY <1>3, <1>4, <1>5, <1>6, <1>7, CoreKept

\* LeadMoves keeps Core: the walk leads to a node beside the shape, whether the
\* leader expands into it or pushes the tail that is there.
LEMMA LeadMovesKeeps ==
  ASSUME Core, ShapeOpen, NEW p \in particles, LeadMoves(p)
  PROVE  Core' /\ Still
<1> DEFINE d == NextMoveDir(p)
           Go == ~ HasNbrAtLabel(p, d) /\ body' = AfterExpand(p, d)
           Push == HasTailAtLabel(p, d) /\ body' = AfterPush(p, d)
<1>1. /\ IsContracted(body[p]) /\ p \in Leaders /\ p \notin Shaped /\ body[p] \in Body
      /\ moveDir' = [moveDir EXCEPT ![p] = d]
      /\ UNCHANGED <<mode, state, turnSignal, constructionDir, followDir>>
      /\ Go \/ Push \/ body' = body
  BY DEF LeadMoves, Leaders, Shaped, InState, Core, TypeOK
<1>2. /\ d \in Dir
      /\ Nbrs(NbrNode(body[p], d)) \cap Shape # {}
  <2>1. Nbrs(body[p].head) \cap Shape # {}
    BY <1>1 DEF Core, AtShape
  <2> HIDE DEF d
  <2> QED
    BY <1>1, <2>1, SurfaceDir DEF d
<1> HIDE DEF d
<1>3. \A q \in Followers : /\ q \in particles /\ q # p /\ followDir'[q] = followDir[q]
                           /\ Up[q] \in Active /\ Up[q] \in particles
                           /\ followDir[q] \in Dir /\ followDir[q] # TailDir(body[q])
                           /\ Target(q) \in Nodes(body[Up[q]])
  BY <1>1, FollowerPoints DEF Followers, Leaders, InState
<1>4. CASE Go
  <2>1. /\ particles' = particles /\ body' \in [particles -> Body] /\ ApartIn(body')
        /\ body'[p].head = NbrNode(body[p], d)
        /\ Nodes(body'[p]) = {NbrNode(body[p], d), body[p].head}
        /\ \A q \in particles \ {p} : body'[q] = body[q]
        /\ StaysConnected'
    BY <1>1, <1>2, <1>4, ExpandMoves
  <2>2. Nodes(body[p]) = {body[p].head}
    BY <1>1, NodesType
  <2>3. ASSUME NEW q \in Followers
        PROVE  /\ followDir'[q] \in Dir /\ followDir'[q] # TailDir(body'[q])
               /\ Up'[q] = Up[q] \/ Up'[q] = p
               /\ Up'[q] \in Active /\ Target(q)' \in Nodes(body'[Up'[q]])
    <3>1. Target(q)' = Target(q)
      BY <1>3, <2>1 DEF Target
    <3>2. Target(q) \in Nodes(body'[Up[q]])
      BY <1>3, <2>1, <2>2
    <3>3. Up'[q] = Up[q]
      BY <1>3, <2>1, <3>1, <3>2, UpNext
    <3> QED
      BY <1>3, <2>1, <3>1, <3>2, <3>3
  <2>4. /\ \A q \in Leaders \ {p} : body'[q].head = body[q].head
        /\ \A q \in InState({"Seed", "Finish", "Idle"}) : body'[q] = body[q]
    BY <1>1, <2>1 DEF Leaders, InState
  <2> QED
    BY <1>1, <1>2, <2>1, <2>3, <2>4, LeadKeeps
<1>5. CASE Push
  <2> DEFINE r == NbrAtLabel(p, d)
  <2>1. /\ r \in particles /\ r # p /\ body[r] \in Body /\ IsExpanded(body[r])
        /\ TailNode(body[r]) = NbrNode(body[p], d)
        /\ particles' = particles /\ body' \in [particles -> Body] /\ ApartIn(body')
        /\ body'[p].head = NbrNode(body[p], d)
        /\ body'[r].head = body[r].head
        /\ \A q \in particles \ {p, r} : body'[q] = body[q]
        /\ Occupied' = Occupied
    <3> HIDE DEF r
    <3> QED
      BY <1>1, <1>2, <1>5, PushMoves DEF r
  <2>2. ASSUME NEW q \in Followers
        PROVE  /\ followDir'[q] \in Dir /\ followDir'[q] # TailDir(body'[q])
               /\ Up'[q] = Up[q] \/ Up'[q] = p
               /\ Up'[q] \in Active /\ Target(q)' \in Nodes(body'[Up'[q]])
    <3>1. p \in Active
      BY <1>1 DEF Active, Leaders, InState
    <3> HIDE DEF r
    <3> QED
      BY <1>1, <1>2, <1>3, <1>5, <3>1, PushReroutes DEF r
  <2> HIDE DEF r
  <2>3. /\ \A q \in Leaders \ {p} : body'[q].head = body[q].head
        /\ \A q \in InState({"Seed", "Finish", "Idle"}) : body'[q] = body[q]
    BY <1>1, <2>1 DEF Leaders, InState, Core, TypeOK, IsExpanded
  <2>4. StaysConnected'
    BY <2>1 DEF StaysConnected, Core
  <2> QED
    BY <1>1, <1>2, <2>1, <2>2, <2>3, <2>4, LeadKeeps
<1>6. CASE body' = body
  <2>1. /\ particles' = particles /\ Followers' = Followers /\ Active' = Active
        /\ Leaders' = Leaders /\ Shaped' = Shaped /\ Occupied' = Occupied
        /\ InState({"Seed", "Finish", "Idle"})' = InState({"Seed", "Finish", "Idle"})
    BY <1>1, <1>6 DEF particles, Followers, Active, Leaders, Shaped, InState, Occupied
  <2>2. TypeOK'
    BY <1>1, <1>2, <1>6, <2>1 DEF Core, TypeOK, MaybeDir
  <2>3. Still
    BY <1>1, <1>6, <2>1 DEF Still
  <2>4. ApartIn(body') /\ AtShape' /\ StaysConnected'
    BY <1>1, <1>6, <2>1, <2>3, ShapeStays DEF Core, AtShape, StaysConnected
  <2>5. \A q \in Followers : Target(q)' = Target(q)
    BY <1>3, <1>6 DEF Target
  <2>6. Led'
    BY <1>3, <1>6, <2>1, <2>5 DEF Led
  <2>7. \A q \in Followers : Up'[q] = Up[q]
    BY <1>3, <1>6, <2>1, <2>4, <2>5, UpNext
  <2>8. Rooted'
    BY <2>1, <2>7 DEF Rooted, ForestOf, Core
  <2> QED
    BY <2>2, <2>3, <2>4, <2>6, <2>8, CoreKept
<1> QED
  BY <1>1, <1>4, <1>5, <1>6

-----------------------------------------------------------------------------
(* Finishing                                                               *)

\* In every mode the turn is a direction and a turn signal.
LEMMA TurnType ==
  ASSUME Core, NEW p \in particles, NEW r \in Dir
  PROVE  /\ ConstructionTurn(p, r)[1] \in Dir
         /\ ConstructionTurn(p, r)[2] \in FreshTurnSignal \cup {0, 1}
<1> DEFINE q == NbrAtLabel(p, r)
           Signal == FreshTurnSignal \cup {0, 1}
           t == turnSignal[p]
<1>1. t \in Signal /\ 0 \in Signal /\ 1 \in Signal
  BY DEF Core, TypeOK
<1>2. \A d \in Dir, k \in Nat : Turn(d, k) \in Dir
  BY DEF Turn, Dir
<1> HIDE DEF Signal, t, q
<1>3. HexagonTurn(p, q, r)[1] \in Dir /\ HexagonTurn(p, q, r)[2] \in Signal
  BY <1>1, <1>2 DEF HexagonTurn, t
<1>4. SquareTurn(p, q, r)[1] \in Dir /\ SquareTurn(p, q, r)[2] \in Signal
  <2> DEFINE first == CASE state[q] = "Seed"   -> <<Turn(r, 1), turnSignal[p]>>
                 [] state[q] # "Seed" /\ turnSignal[q] = 0 -> <<Turn(r, 2), 1>>
                 [] state[q] # "Seed" /\ turnSignal[q] = 1 -> <<Turn(r, 1), 0>>
                 [] OTHER               -> <<r, turnSignal[p]>>
  <2>1. first[1] \in Dir /\ first[2] \in Signal
    BY <1>1, <1>2 DEF t
  <2> HIDE DEF first
  <2>2. Turn(first[1], 1) \in Dir /\ Turn(first[1], 2) \in Dir
    BY <1>2, <2>1
  <2>3. SquareTurn(p, q, r) =
          CASE ~ StateAt(p, first[1], {"Finish", "Seed"}) -> first
            [] StateAt(p, first[1], {"Finish", "Seed"}) /\ first[2] = 1 -> <<Turn(first[1], 1), 0>>
            [] StateAt(p, first[1], {"Finish", "Seed"}) /\ first[2] = 0 -> <<Turn(first[1], 2), 1>>
            [] OTHER -> first
    BY DEF SquareTurn, first
  <2> QED
    BY <1>1, <2>1, <2>2, <2>3
<1>5. VertexTriangleTurn(p, q, r)[1] \in Dir /\ VertexTriangleTurn(p, q, r)[2] \in Signal
  BY <1>1, <1>2 DEF VertexTriangleTurn, t
<1>6. CenterTriangleTurn(p, q, r)[1] \in Dir /\ CenterTriangleTurn(p, q, r)[2] \in Signal
  BY <1>1, <1>2 DEF CenterTriangleTurn, t
<1>7. LineTurn(p, q, r)[1] \in Dir /\ LineTurn(p, q, r)[2] \in Signal
  BY <1>1, <1>2 DEF LineTurn, t
<1>8. \/ ConstructionTurn(p, r) = HexagonTurn(p, q, r)
      \/ ConstructionTurn(p, r) = SquareTurn(p, q, r)
      \/ ConstructionTurn(p, r) = VertexTriangleTurn(p, q, r)
      \/ ConstructionTurn(p, r) = CenterTriangleTurn(p, q, r)
      \/ ConstructionTurn(p, r) = LineTurn(p, q, r)
  BY DEF ConstructionTurn, q, Core, Anchored
<1> QED
  BY <1>3, <1>4, <1>5, <1>6, <1>7, <1>8 DEF Signal

\* What a receiving label says: one of the shape's particles points at p, or
\* in a line away from it.
LEMMA Receives ==
  ASSUME Core, NEW p \in Leaders, IsContracted(body[p]), NEW r \in ReceiveLabels(p)
  PROVE  /\ r \in Dir
         /\ NbrAtLabel(p, r) \in Shaped
         /\ body[NbrAtLabel(p, r)].head = Pointed(body[p], r)
         /\ \/ Pointed(body[NbrAtLabel(p, r)], constructionDir[NbrAtLabel(p, r)]) = body[p].head
            \/ /\ mode = "l"
               /\ Pointed(body[NbrAtLabel(p, r)], Opposite(constructionDir[NbrAtLabel(p, r)]))
                    = body[p].head
<1> DEFINE q == NbrAtLabel(p, r)
<1>1. p \in particles /\ body[p] \in Body
  BY DEF Leaders, InState, Core, TypeOK
<1>2. r \in Dir /\ NbrNode(body[p], r) \in Shape /\ NbrNode(body[p], r) = Pointed(body[p], r)
  BY <1>1, ShapePorts, ContractedPorts DEF ReceiveLabels
<1>3. PICK s \in Shaped : body[s].head = NbrNode(body[p], r)
  BY <1>2 DEF Shape, Shaped
<1>4. q = s
  BY <1>3, ShapeNodes, ParticleFound DEF NbrAtLabel, Core
<1>5. q \in Shaped /\ body[q] \in Body /\ IsContracted(body[q])
      /\ body[q].head = Pointed(body[p], r) /\ constructionDir[q] \in Dir
  BY <1>2, <1>3, <1>4, ShapeNodes DEF Core, Anchored
<1>6. \/ PointsAtMe(body[p], body[q], constructionDir[q])
      \/ mode = "l" /\ PointsAtMe(body[p], body[q], Opposite(constructionDir[q]))
  BY DEF ReceiveLabels
<1> HIDE DEF q
<1>7. \A c \in Dir : PointsAtMe(body[p], body[q], c) => Pointed(body[q], c) = body[p].head
  BY <1>5, ContractedPorts DEF PointsAtMe, PointsAtMyHead, IsExpanded
<1>8. Opposite(constructionDir[q]) \in Dir
  BY <1>5, OppositeType
<1> QED
  BY <1>2, <1>5, <1>6, <1>7, <1>8 DEF q

\* A leader finishes beside the shape and becomes part of it.
LEMMA FinishKeeps ==
  ASSUME Core, NEW p \in particles, Finish(p)
  PROVE  /\ Core'
         /\ p \in Leaders /\ IsContracted(body[p]) /\ body' = body /\ mode' = mode
         /\ Shaped' = Shaped \cup {p} /\ Shape' = Shape \cup {body[p].head}
         /\ state' = [state EXCEPT ![p] = "Finish"]
         /\ \E r \in ReceiveLabels(p) :
              /\ constructionDir' = [constructionDir EXCEPT ![p] = ConstructionTurn(p, r)[1]]
              /\ turnSignal' = [turnSignal EXCEPT ![p] = ConstructionTurn(p, r)[2]]
<1>1. /\ p \in Leaders /\ IsContracted(body[p]) /\ body[p] \in Body
      /\ body' = body
      /\ UNCHANGED <<mode, moveDir, followDir>>
      /\ state' = [state EXCEPT ![p] = "Finish"]
  BY DEF Finish, Leaders, InState, Core, TypeOK
<1>2. PICK r \in ReceiveLabels(p) :
        /\ constructionDir' = [constructionDir EXCEPT ![p] = ConstructionTurn(p, r)[1]]
        /\ turnSignal' = [turnSignal EXCEPT ![p] = ConstructionTurn(p, r)[2]]
  BY DEF Finish
<1>3. /\ r \in Dir /\ NbrAtLabel(p, r) \in Shaped
      /\ body[NbrAtLabel(p, r)].head = Pointed(body[p], r)
  BY <1>1, Receives
<1> DEFINE turn == ConstructionTurn(p, r)
<1>4. turn[1] \in Dir /\ turn[2] \in FreshTurnSignal \cup {0, 1}
  BY <1>3, TurnType
<1> HIDE DEF turn
<1>5. /\ constructionDir' = [constructionDir EXCEPT ![p] = turn[1]]
      /\ turnSignal' = [turnSignal EXCEPT ![p] = turn[2]]
  BY <1>2 DEF turn
<1>6. /\ particles' = particles
      /\ state' \in [particles -> States]
      /\ state'[p] = "Finish" /\ \A q \in particles \ {p} : state'[q] = state[q]
      /\ constructionDir' \in [particles -> MaybeDir]
      /\ constructionDir'[p] \in Dir
      /\ \A q \in particles \ {p} : constructionDir'[q] = constructionDir[q]
      /\ turnSignal' \in [particles -> FreshTurnSignal \cup {0, 1}]
  BY <1>1, <1>4, <1>5 DEF particles, Core, TypeOK, States, MaybeDir
<1>7. /\ Shaped' = Shaped \cup {p} /\ p \notin Shaped
      /\ Followers' = Followers /\ Followers \subseteq particles
      /\ Active' = Active /\ Leaders' \subseteq Leaders
      /\ InState({"Seed", "Finish", "Idle"})' = InState({"Seed", "Finish", "Idle"}) \cup {p}
      /\ state[p] = "Lead"
  BY <1>1, <1>6 DEF Shaped, Followers, Active, Leaders, InState
<1>8. Shape' = Shape \cup {body[p].head}
  BY <1>1, <1>7 DEF Shape, Shaped
<1>9. TypeOK'
  BY <1>1, <1>6, <1>7 DEF Core, TypeOK
<1>10. ApartIn(body') /\ AtShape' /\ StaysConnected'
  <2>1. Occupied' = Occupied
    BY <1>1, <1>6 DEF Occupied
  <2> QED
    BY <1>1, <1>7, <1>8, <2>1 DEF Core, AtShape, StaysConnected
<1>11. Anchored'
  <2>1. Connected(Shape')
    <3>1. body[p].head \in Node /\ Pointed(body[p], r) \in Shape
      BY <1>1, <1>3, NodesType, ShapeNodes
    <3>2. Pointed(body[p], r) \in Node /\ Adjacent(Pointed(body[p], r), body[p].head)
      BY <1>1, <1>3, ContractedPorts DEF Adjacent
    <3> QED
      BY <1>8, <3>1, <3>2, ConnectedJoined, ShapeNodes DEF Core, Anchored
  <2>2. \A q \in particles : state'[q] = "Seed" <=> q = 1
    BY <1>6, <1>7 DEF Core, Anchored
  <2>3. \A q \in Shaped' : constructionDir'[q] \in Dir
    BY <1>6, <1>7, ShapeNodes DEF Core, Anchored
  <2> QED
    BY <1>1, <1>6, <2>1, <2>2, <2>3 DEF Core, Anchored
<1>12. \A q \in Followers : Target(q)' = Target(q)
  BY <1>1 DEF Target
<1>13. Led'
  BY <1>1, <1>7, <1>12 DEF Led, Core
<1>14. \A q \in Followers : Up'[q] = Up[q]
  BY <1>1, <1>6, <1>10, <1>12, FollowerPoints, UpNext
<1>15. Rooted'
  BY <1>7, <1>14 DEF Rooted, ForestOf, Core
<1> QED
  BY <1>1, <1>2, <1>7, <1>8, <1>9, <1>10, <1>11, <1>13, <1>15 DEF Core

-----------------------------------------------------------------------------
(* The start                                                               *)

\* The start: one seed, at the origin, is the shape.
LEMMA CoreInit ==
  ASSUME Init
  PROVE  /\ Core /\ Shaped = {1} /\ Shape = {<<0, 0>>} /\ constructionDir[1] = 0
<1>1. PICK places \in Starts : \E compass \in [1 .. Len(places) -> Orientation] :
        /\ body = [p \in 1 .. Len(places) |-> [head |-> places[p], globalTailDir |-> -1,
                                               orientation |-> compass[p]]]
        /\ state = [p \in 1 .. Len(places) |-> IF p = 1 THEN "Seed" ELSE "Idle"]
        /\ turnSignal \in [1 .. Len(places) -> FreshTurnSignal]
        /\ constructionDir = [p \in 1 .. Len(places) |-> IF p = 1 THEN 0 ELSE -1]
        /\ moveDir = [p \in 1 .. Len(places) |-> -1]
        /\ followDir = [p \in 1 .. Len(places) |-> -1]
  BY DEF Init
<1> DEFINE ids == 1 .. Len(places)
<1>16. PICK compass \in [ids -> Orientation] :
         body = [p \in ids |-> [head |-> places[p], globalTailDir |-> -1,
                                orientation |-> compass[p]]]
  BY <1>1
<1>2. /\ places \in Seq(Node) /\ places # << >> /\ places[1] = <<0, 0>>
      /\ \A i, j \in ids : places[i] = places[j] => i = j
      /\ Connected({places[i] : i \in ids})
      /\ Orientation \subseteq Dir
  BY StartsAssumption
<1>3. 1 \in ids /\ \A p \in ids : places[p] \in Node /\ compass[p] \in Dir
  BY <1>2
<1>4. particles = ids
  BY <1>16 DEF particles
<1> HIDE DEF ids
<1>5. \A p \in particles : /\ body[p] \in Body
                           /\ body[p].head = places[p]
                           /\ IsContracted(body[p])
  BY <1>3, <1>4, <1>16 DEF Body, IsContracted, ids
<1>6. \A p \in particles : Nodes(body[p]) = {places[p]}
  BY <1>5 DEF Nodes
<1>7. body \in [particles -> Body]
  BY <1>4, <1>5, <1>16 DEF ids
<1>8. \A p \in particles : state[p] = IF p = 1 THEN "Seed" ELSE "Idle"
  BY <1>1, <1>4 DEF ids
<1>9. TypeOK
  <2>1. state \in [particles -> States]
    BY <1>1, <1>4 DEF States, ids
  <2>2. /\ moveDir \in [particles -> MaybeDir] /\ followDir \in [particles -> MaybeDir]
        /\ constructionDir \in [particles -> MaybeDir]
    BY <1>1, <1>4 DEF ids, MaybeDir, Dir
  <2>3. turnSignal \in [particles -> FreshTurnSignal \cup {0, 1}]
    BY <1>1, <1>4 DEF ids
  <2> QED
    BY <1>5, <1>7, <2>1, <2>2, <2>3 DEF TypeOK, InState
<1>10. ApartIn(body)
  BY <1>2, <1>4, <1>6 DEF ApartIn, particles
<1>11. /\ Shaped = {1} /\ Leaders = {} /\ Followers = {}
  BY <1>3, <1>4, <1>8 DEF Shaped, Leaders, Followers, InState
<1>12. Shape = {<<0, 0>>}
  <2>1. body[1].head = <<0, 0>>
    BY <1>2, <1>3, <1>4, <1>5
  <2>2. Shape = {body[p].head : p \in {1}}
    BY <1>11 DEF Shape, Shaped
  <2> QED
    BY <2>1, <2>2
<1>13. constructionDir[1] = 0
  BY <1>1, <1>3 DEF ids
<1>14. Anchored
  <2>1. Connected(Shape)
    BY <1>12 DEF Connected
  <2>2. mode \in {"h", "s", "t1", "t2", "l"}
    BY ModesAssumption DEF Init
  <2>3. \A p \in particles : state[p] = "Seed" <=> p = 1
    BY <1>8
  <2>4. 1 \in particles /\ body[1].head = <<0, 0>>
    BY <1>2, <1>3, <1>4, <1>5
  <2>5. \A p \in Shaped : constructionDir[p] \in Dir
    BY <1>11, <1>13 DEF Dir
  <2> QED
    BY <2>1, <2>2, <2>3, <2>4, <2>5 DEF Anchored
<1>15. StaysConnected
  <2>1. Occupied = {places[i] : i \in ids}
    BY <1>4, <1>6 DEF Occupied
  <2> QED
    BY <1>2, <2>1 DEF StaysConnected, ids
<1> QED
  BY <1>9, <1>10, <1>11, <1>12, <1>13, <1>14, <1>15
     DEF Core, AtShape, Led, Rooted, ForestOf

-----------------------------------------------------------------------------
(* As the seed sees it                                                     *)

Compass      == body[1].orientation
Seen(n)      == Rotated(Compass, n)
SeenDir(p, d) == NbrDirToDir(body[1], body[p], d)
SeenShape    == {Seen(n) : n \in Shape}

\* What a particle of the shape points at.
Aim(q) == Pointed(body[q], constructionDir[q])

\* Every node is seen as one node, the seed's own as the origin.
LEMMA SeenNode ==
  ASSUME Core
  PROVE  /\ Compass \in Dir
         /\ \A n \in Node : /\ Seen(n) \in Node
                            /\ Seen(n) = <<0, 0>> <=> n = <<0, 0>>
                            /\ Rotated((6 - Compass) % 6, n) \in Node
                            /\ Seen(Rotated((6 - Compass) % 6, n)) = n
         /\ \A m, n \in Node : Seen(m) = Seen(n) => m = n
         /\ \A n \in Node : Seen(n) \in SeenShape <=> n \in Shape
<1>1. Compass \in Dir /\ Shape \subseteq Node
  BY ShapeNodes DEF Compass, Core, Anchored, TypeOK, Body
<1>2. \A n \in Node : /\ Seen(n) \in Node
                      /\ Seen(n) = <<0, 0>> <=> n = <<0, 0>>
                      /\ Rotated((6 - Compass) % 6, n) \in Node
                      /\ Seen(Rotated((6 - Compass) % 6, n)) = n
                      /\ Rotated((6 - Compass) % 6, Seen(n)) = n
  BY <1>1, RotatedNode DEF Seen
<1>3. \A m, n \in Node : Seen(m) = Seen(n) => m = n
  BY <1>2
<1>4. \A n \in Node : Seen(n) \in SeenShape <=> n \in Shape
  BY <1>1, <1>3 DEF SeenShape
<1> QED
  BY <1>1, <1>2, <1>3, <1>4

\* A step in a direction of a particle's compass, and its turns.
LEMMA SeenStep ==
  ASSUME Core, NEW p \in particles, NEW d \in Dir
  PROVE  /\ SeenDir(p, d) \in Dir /\ Pointed(body[p], d) \in Node
         /\ Seen(Pointed(body[p], d)) = NodeInDir(Seen(body[p].head), SeenDir(p, d))
         /\ \A i \in Dir : SeenDir(p, (d + i) % 6) = (SeenDir(p, d) + i) % 6
         /\ SeenDir(p, Opposite(d)) = Opposite(SeenDir(p, d))
<1>1. body[p] \in Body /\ body[1] \in Body /\ body[p].head \in Node /\ Compass \in Dir
  BY SeenNode, NodesType DEF Core, TypeOK, Anchored
<1> DEFINE g == LocalToGlobalDir(body[p], d)
<1>2. g \in Dir /\ SeenDir(p, d) = GlobalToLocalDir(body[1], g) /\ SeenDir(p, d) \in Dir
  BY <1>1, CompassType DEF SeenDir, NbrDirToDir
<1>3. (Compass + SeenDir(p, d)) % 6 = g
  BY <1>1, <1>2, CompassInverse DEF LocalToGlobalDir, Compass
<1>4. Pointed(body[p], d) = NodeInDir(body[p].head, g) /\ Pointed(body[p], d) \in Node
  BY <1>1, <1>2, NodeInDirType DEF Pointed
<1> HIDE DEF g
<1>5. Seen(Pointed(body[p], d)) = NodeInDir(Seen(body[p].head), SeenDir(p, d))
  BY <1>1, <1>2, <1>3, <1>4, RotatedStep DEF Seen
<1>6. \A i \in Dir : LocalToGlobalDir(body[p], (d + i) % 6) = (g + i) % 6
  BY <1>1, CompassInverse DEF g
<1>7. \A i \in Dir : GlobalToLocalDir(body[1], (g + i) % 6) = (GlobalToLocalDir(body[1], g) + i) % 6
  BY <1>1, <1>2 DEF GlobalToLocalDir, Body, Dir
<1>8. \A i \in Dir : SeenDir(p, (d + i) % 6) = (SeenDir(p, d) + i) % 6
  BY <1>2, <1>6, <1>7 DEF SeenDir, NbrDirToDir
<1>9. SeenDir(p, Opposite(d)) = Opposite(SeenDir(p, d))
  BY <1>8 DEF Opposite, Dir
<1> QED
  BY <1>2, <1>4, <1>5, <1>8, <1>9

\* The tests of updateConstructionDir().
LEMMA SeenTests ==
  ASSUME Core, NEW p \in particles, IsContracted(body[p]), NEW d \in Dir
  PROVE  /\ StateAt(p, d, {"Finish", "Seed"}) <=>
              NodeInDir(Seen(body[p].head), SeenDir(p, d)) \in SeenShape
         /\ StateAt(p, d, {"Finish"}) <=>
              /\ NodeInDir(Seen(body[p].head), SeenDir(p, d)) \in SeenShape
              /\ NodeInDir(Seen(body[p].head), SeenDir(p, d)) # <<0, 0>>
<1> DEFINE n == Pointed(body[p], d)
<1>1. n \in Node /\ NbrNode(body[p], d) = n /\ Seen(n) = NodeInDir(Seen(body[p].head), SeenDir(p, d))
  BY SeenStep, ContractedPorts DEF Core, TypeOK
<1>2. /\ Seen(n) \in SeenShape <=> n \in Shape
      /\ Seen(n) = <<0, 0>> <=> n = <<0, 0>>
  BY <1>1, SeenNode
<1> HIDE DEF n
<1>3. StateAt(p, d, {"Finish", "Seed"}) <=> n \in Shape
  <2>1. ASSUME n \in Shape PROVE StateAt(p, d, {"Finish", "Seed"})
    <3>1. PICK q \in Shaped : body[q].head = n
      BY <2>1 DEF Shape, Shaped
    <3>2. ParticleAt(n) = q /\ n \in Occupied
      BY <2>1, <3>1, ShapeNodes, ParticleFound DEF Core
    <3> QED
      BY <1>1, <3>1, <3>2 DEF StateAt, HasNbrAtLabel, NbrAtLabel, Shaped, InState
  <2>2. ASSUME StateAt(p, d, {"Finish", "Seed"}) PROVE n \in Shape
    <3>1. n \in Occupied /\ state[ParticleAt(n)] \in {"Finish", "Seed"}
      BY <1>1, <2>2 DEF StateAt, HasNbrAtLabel, NbrAtLabel
    <3>2. PICK q \in particles : n \in Nodes(body[q])
      BY <3>1 DEF Occupied
    <3>3. ParticleAt(n) = q
      BY <3>2, ParticleFound DEF Core
    <3>4. q \in Shaped
      BY <3>1, <3>3 DEF Shaped, InState
    <3> QED
      BY <3>2, <3>4, ShapeNodes
  <2> QED
    BY <2>1, <2>2
<1>4. ASSUME n \in Shape PROVE StateAt(p, d, {"Finish"}) <=> n # <<0, 0>>
  <2>1. PICK q \in Shaped : body[q].head = n
    BY <1>4 DEF Shape, Shaped
  <2>2. ParticleAt(n) = q /\ n \in Occupied /\ q \in particles
    BY <1>4, <2>1, ShapeNodes, ParticleFound DEF Core
  <2>3. state[q] = "Finish" <=> q # 1
    BY <2>1, <2>2 DEF Shaped, InState, Core, Anchored
  <2>4. q = 1 <=> n = <<0, 0>>
    <3>1. n = <<0, 0>> => ParticleAt(n) = 1
      BY ShapeNodes, ParticleFound DEF Core, Anchored
    <3> QED
      BY <2>1, <2>2, <3>1 DEF Core, Anchored
  <2> QED
    BY <1>1, <2>2, <2>3, <2>4 DEF StateAt, HasNbrAtLabel, NbrAtLabel
<1>5. StateAt(p, d, {"Finish"}) => StateAt(p, d, {"Finish", "Seed"})
  BY DEF StateAt
<1> QED
  BY <1>1, <1>2, <1>3, <1>4, <1>5

\* updateConstructionDir() is the turn that the seed sees.
LEMMA TurnsAlike ==
  ASSUME Core, NEW p \in particles, IsContracted(body[p]), NEW r \in Dir,
         NEW q \in particles, q = NbrAtLabel(p, r), mode # "l",
         mode \in {"s", "t1"} => turnSignal[p] = 0 /\ (q # 1 => turnSignal[q] \in {0, 1}),
         NEW fromSeed \in BOOLEAN, fromSeed <=> q = 1,
         NEW w, w = TurnSeen(mode, SeenDir(p, r), fromSeed, turnSignal[q], turnSignal[p],
                             SeenShape, Seen(body[p].head))
  PROVE  SeenDir(p, ConstructionTurn(p, r)[1]) = w[1] /\ ConstructionTurn(p, r)[2] = w[2]
<1> DEFINE R == SeenDir(p, r)
           N == Seen(body[p].head)
           S == SeenShape
           on(d) == StateAt(p, d, {"Finish", "Seed"})
           past(d) == StateAt(p, d, {"Finish"})
           t == ConstructionTurn(p, r)
<1>1. R \in Dir /\ (state[q] = "Seed" <=> fromSeed)
  BY SeenStep DEF Core, Anchored
<1>2. \A d, i \in Dir : /\ SeenDir(p, (d + i) % 6) = (SeenDir(p, d) + i) % 6 /\ (d + i) % 6 \in Dir
  <2>1. \A d, i \in Dir : (d + i) % 6 \in Dir
    BY DEF Dir
  <2> QED
    BY <2>1, SeenStep
<1>3. \A d \in Dir : /\ on(d) <=> NodeInDir(N, SeenDir(p, d)) \in S
                     /\ past(d) <=> /\ NodeInDir(N, SeenDir(p, d)) \in S
                                    /\ NodeInDir(N, SeenDir(p, d)) # <<0, 0>>
  BY SeenTests
<1>4. 1 \in Dir /\ 2 \in Dir /\ 3 \in Dir /\ 4 \in Dir /\ 5 \in Dir
  BY DEF Dir
<1>5. \A i \in Dir : SeenDir(p, (r + i) % 6) = (R + i) % 6 /\ (r + i) % 6 \in Dir
  BY <1>2
<1>6. mode \in Figures
  BY DEF Figures, Core, Anchored
<1> HIDE DEF R, N, S
<1>7. w = TurnSeen(mode, R, fromSeed, turnSignal[q], turnSignal[p], S, N)
  BY DEF R, N, S
<1>8. CASE mode = "h"
  <2> DEFINE d == IF fromSeed THEN (r + 1) % 6 ELSE (r + 2) % 6
             e == IF fromSeed THEN (R + 1) % 6 ELSE (R + 2) % 6
  <2>1. d \in Dir /\ SeenDir(p, d) = e /\ SeenDir(p, (d + 1) % 6) = (e + 1) % 6
    BY <1>2, <1>4, <1>5
  <2>2. t = <<IF past(d) THEN (d + 1) % 6 ELSE d, turnSignal[p]>>
    BY <1>1, <1>8 DEF ConstructionTurn, HexagonTurn, Turn
  <2>3. w = <<IF NodeInDir(N, e) \in S /\ NodeInDir(N, e) # <<0, 0>> THEN (e + 1) % 6 ELSE e, turnSignal[p]>>
    BY <1>7, <1>8 DEF TurnSeen
  <2>4. past(d) <=> NodeInDir(N, e) \in S /\ NodeInDir(N, e) # <<0, 0>>
    BY <1>3, <2>1
  <2> HIDE DEF d, e, t, past
  <2> QED
    BY <2>1, <2>2, <2>3, <2>4 DEF t
<1>9. CASE mode = "s"
  <2> DEFINE f == IF fromSeed THEN <<(r + 1) % 6, turnSignal[p]>>
                  ELSE IF turnSignal[q] = 0 THEN <<(r + 2) % 6, 1>> ELSE <<(r + 1) % 6, 0>>
             g == IF fromSeed THEN <<(R + 1) % 6, turnSignal[p]>>
                  ELSE IF turnSignal[q] = 0 THEN <<(R + 2) % 6, 1>> ELSE <<(R + 1) % 6, 0>>
  <2>1. f[1] \in Dir /\ SeenDir(p, f[1]) = g[1] /\ f[2] = g[2] /\ f = <<f[1], f[2]>>
    BY <1>4, <1>5
  <2>2. SeenDir(p, (f[1] + 1) % 6) = (g[1] + 1) % 6 /\ SeenDir(p, (f[1] + 2) % 6) = (g[1] + 2) % 6
    BY <1>2, <1>4, <2>1
  <2>3. f = CASE state[q] = "Seed"   -> <<Turn(r, 1), turnSignal[p]>>
              [] state[q] # "Seed" /\ turnSignal[q] = 0 -> <<Turn(r, 2), 1>>
              [] state[q] # "Seed" /\ turnSignal[q] = 1 -> <<Turn(r, 1), 0>>
              [] OTHER               -> <<r, turnSignal[p]>>
    BY <1>1, <1>9 DEF Turn
  <2>4. fromSeed => f[2] = turnSignal[p]
    OBVIOUS
  <2>5. ~ fromSeed => f[2] \in {0, 1}
    OBVIOUS
  <2> HIDE DEF f
  <2>6. SquareTurn(p, q, r) = CASE ~ on(f[1]) -> f
            [] on(f[1]) /\ f[2] = 1 -> <<Turn(f[1], 1), 0>>
            [] on(f[1]) /\ f[2] = 0 -> <<Turn(f[1], 2), 1>>
            [] OTHER -> f
    BY <2>3 DEF SquareTurn
  <2>7. f[2] \in {0, 1}
    BY <1>9, <2>4, <2>5
  <2>8. t = SquareTurn(p, q, r)
    BY <1>9 DEF ConstructionTurn
  <2>9. w = IF ~ (NodeInDir(N, g[1]) \in S) THEN g
            ELSE IF g[2] = 1 THEN <<(g[1] + 1) % 6, 0>> ELSE <<(g[1] + 2) % 6, 1>>
    BY <1>7, <1>9 DEF TurnSeen
  <2>10. on(f[1]) <=> NodeInDir(N, g[1]) \in S
    BY <1>3, <2>1
  <2> HIDE DEF t, g, on
  <2>11. CASE ~ on(f[1])
    <3>1. t = f /\ w = g
      BY <2>6, <2>8, <2>9, <2>10, <2>11
    <3> QED
      BY <2>1, <3>1 DEF t
  <2>12. CASE on(f[1]) /\ f[2] = 1
    <3>1. t = <<(f[1] + 1) % 6, 0>> /\ w = <<(g[1] + 1) % 6, 0>>
      BY <2>1, <2>6, <2>8, <2>9, <2>10, <2>12 DEF Turn
    <3> QED
      BY <2>2, <3>1 DEF t
  <2>13. CASE on(f[1]) /\ f[2] = 0
    <3>1. t = <<(f[1] + 2) % 6, 1>> /\ w = <<(g[1] + 2) % 6, 1>>
      BY <2>1, <2>6, <2>8, <2>9, <2>10, <2>13 DEF Turn
    <3> QED
      BY <2>2, <3>1 DEF t
  <2> QED
    BY <2>7, <2>11, <2>12, <2>13
<1>10. CASE mode = "t1"
  <2> DEFINE in(i) == NodeInDir(N, (R + i) % 6) \in S
             out(i) == in(i) /\ NodeInDir(N, (R + i) % 6) # <<0, 0>>
             left  == in(5)
             right == ~ left /\ out(1)
             inRow == (left /\ out(4)) \/ (right /\ out(2))
             i == IF fromSeed THEN 5 ELSE IF inRow THEN 3 ELSE IF left THEN 2 ELSE IF right THEN 4
                  ELSE IF turnSignal[q] = 0 THEN 5 ELSE 1
             v == IF fromSeed \/ inRow THEN turnSignal[p] ELSE IF left THEN 1 ELSE IF right THEN 0
                  ELSE turnSignal[p]
  <2>1. \A e \in Dir : (on((r + e) % 6) <=> in(e)) /\ (past((r + e) % 6) <=> out(e))
    BY <1>3, <1>5
  <2>2. w = <<(R + i) % 6, v>>
    <3>1. TurnSeen("t1", R, fromSeed, turnSignal[q], turnSignal[p], S, N) =
            IF fromSeed THEN <<(R + 5) % 6, turnSignal[p]>>
            ELSE IF inRow THEN <<(R + 3) % 6, turnSignal[p]>>
            ELSE IF left  THEN <<(R + 2) % 6, 1>>
            ELSE IF right THEN <<(R + 4) % 6, 0>>
            ELSE IF turnSignal[q] = 0 THEN <<(R + 5) % 6, turnSignal[p]>>
            ELSE <<(R + 1) % 6, turnSignal[p]>>
      BY DEF TurnSeen
    <3> HIDE DEF in, inRow, right
    <3> QED
      BY <1>7, <1>10, <3>1
  <2>3. t = <<(r + i) % 6, v>>
    <3>1. (on((r + 5) % 6) <=> in(5)) /\ (past((r + 1) % 6) <=> out(1))
          /\ (past((r + 4) % 6) <=> out(4)) /\ (past((r + 2) % 6) <=> out(2))
      BY <1>4, <2>1
    <3>2. fromSeed \/ turnSignal[q] = 0 \/ turnSignal[q] = 1
      BY <1>10
    <3>3. t = VertexTriangleTurn(p, q, r)
      BY <1>10 DEF ConstructionTurn
    <3> DEFINE lf == on((r + 5) % 6)
               rt == ~ lf /\ past((r + 1) % 6)
               row == (lf /\ past((r + 4) % 6)) \/ (rt /\ past((r + 2) % 6))
    <3>4. VertexTriangleTurn(p, q, r) =
            IF state[q] = "Seed"       THEN <<(r + 5) % 6, turnSignal[p]>>
            ELSE IF row                THEN <<(r + 3) % 6, turnSignal[p]>>
            ELSE IF lf                 THEN <<(r + 2) % 6, 1>>
            ELSE IF rt                 THEN <<(r + 4) % 6, 0>>
            ELSE IF turnSignal[q] = 0  THEN <<(r + 5) % 6, turnSignal[p]>>
            ELSE IF turnSignal[q] = 1  THEN <<(r + 1) % 6, turnSignal[p]>>
            ELSE <<r, turnSignal[p]>>
      BY DEF VertexTriangleTurn, Turn
    <3>5. (lf <=> left) /\ (rt <=> right) /\ (row <=> inRow)
      BY <3>1
    <3> HIDE DEF in, out, on, past, left, right, inRow, lf, rt, row, t
    <3> QED
      BY <1>1, <3>2, <3>3, <3>4, <3>5
  <2>4. i \in Dir
    BY <1>4
  <2> HIDE DEF i, t, v
  <2> QED
    BY <1>5, <2>2, <2>3, <2>4 DEF t
<1>11. CASE mode = "t2"
  <2>1. t = <<IF on((r + 1) % 6) THEN (((r + 1) % 6) + 2) % 6 ELSE (r + 1) % 6, turnSignal[p]>>
    <3>1. {"Seed", "Finish"} = {"Finish", "Seed"}
      OBVIOUS
    <3> QED
      BY <1>11, <3>1 DEF ConstructionTurn, CenterTriangleTurn, Turn
  <2>2. w = <<IF NodeInDir(N, (R + 1) % 6) \in S THEN (R + 3) % 6 ELSE (R + 1) % 6, turnSignal[p]>>
    BY <1>7, <1>11 DEF TurnSeen
  <2>3. (((r + 1) % 6) + 2) % 6 = (r + 3) % 6
    BY DEF Dir
  <2>4. on((r + 1) % 6) <=> NodeInDir(N, (R + 1) % 6) \in S
    BY <1>3, <1>4, <1>5
  <2> HIDE DEF t, on
  <2> QED
    BY <1>4, <1>5, <2>1, <2>2, <2>3, <2>4 DEF t
<1> QED
  BY <1>6, <1>8, <1>9, <1>10, <1>11 DEF Figures

-----------------------------------------------------------------------------
(* How the shape grows                                                     *)

\* The shape is the figure at stage (k, s, j), and a particle that points off
\* it points at the node to be filled.
GrownAt(k, s, j) ==
  /\ Stage(mode, k, s, j)
  /\ \A n \in Node : n \in Shape <=> Filled(mode, k, s, j, Seen(n))
  /\ IsFiniteSet(Shape) /\ 2 * Cardinality(Shape) = Twice(mode, k, s, j)
  /\ \A q \in Shaped : Aim(q) \notin Shape =>
       /\ Seen(Aim(q)) = NextNode(mode, k, s, j)
       /\ SeenDir(q, constructionDir[q]) = NextDir(mode, s, j)
       /\ q = 1 <=> k = 1 /\ s = 0 /\ j = 1
       /\ mode \in {"s", "t1"} /\ q # 1 => turnSignal[q] = NextSignal(mode, s, j)

\* In mode l the shape is a line, and its particles point along it.
LineAt(lo, hi) ==
  /\ lo \in Int /\ hi \in Int /\ lo <= 0 /\ 0 <= hi
  /\ \A n \in Node : n \in Shape <=> Seen(n)[2] = 0 /\ Seen(n)[1] \in lo .. hi
  /\ IsFiniteSet(Shape) /\ Cardinality(Shape) = hi - lo + 1
  /\ \A q \in Shaped : SeenDir(q, constructionDir[q]) \in {0, 3}

\* Who has not finished has not set a signal.
Unsignalled == mode \in {"s", "t1"} => \A p \in particles \ Shaped : turnSignal[p] = 0

\* The shape is its mode's figure at some stage, or a line.
Grown ==
  /\ Unsignalled
  /\ mode # "l" => \E k, s, j : GrownAt(k, s, j)
  /\ mode = "l" => \E lo, hi : LineAt(lo, hi)

\* A shape that grows like this walls no node in.
LEMMA GrownOpen ==
  ASSUME Core, Grown
  PROVE  ShapeOpen
<1> SUFFICES ASSUME NEW n \in Node, n \notin Shape PROVE \E m \in Nbrs(n) : m \notin Shape
  BY DEF ShapeOpen
<1>1. \A d \in Dir : LET m == NodeInDir(n, (Compass + d) % 6)
                     IN  m \in Nbrs(n) /\ m \in Node /\ Seen(m) = NodeInDir(Seen(n), d)
  <2> TAKE d \in Dir
  <2>1. (Compass + d) % 6 \in Dir /\ Compass \in Dir
    BY SeenNode DEF Dir
  <2> QED
    BY <2>1, NodeInDirType, RotatedStep DEF Nbrs, Seen
<1>2. CASE mode # "l"
  <2>1. PICK k, s, j : GrownAt(k, s, j)
    BY <1>2 DEF Grown
  <2>2. mode \in Figures
    BY <1>2 DEF Core, Anchored, Figures
  <2>3. PICK d \in Dir : ~ Filled(mode, k, s, j, NodeInDir(Seen(n), d))
    BY <2>1, <2>2, SeenNode, FigureOpen DEF GrownAt
  <2> QED
    BY <1>1, <2>1, <2>3 DEF GrownAt
<1>3. CASE mode = "l"
  <2>1. PICK lo, hi : LineAt(lo, hi)
    BY <1>3 DEF Grown
  <2>2. PICK x \in Int, y \in Int : Seen(n) = <<x, y>>
    BY SeenNode DEF Node
  <2>3. y # 0 \/ x \notin lo .. hi
    BY <2>1, <2>2 DEF LineAt
  <2>4. NodeInDir(Seen(n), 1) = <<x, y + 1>> /\ NodeInDir(Seen(n), 4) = <<x, y - 1>>
    BY <2>2, StepsAre
  <2>5. 1 \in Dir /\ 4 \in Dir
    BY DEF Dir
  <2>6. y + 1 # 0 \/ y - 1 # 0
    BY <2>2
  <2> QED
    BY <1>1, <2>1, <2>4, <2>5, <2>6 DEF LineAt
<1> QED
  BY <1>2, <1>3

\* Steps beside the shape do not change how it has grown.
LEMMA StillKeepsGrown ==
  ASSUME Core, Still, Grown
  PROVE  Grown'
<1>1. /\ particles' = particles /\ mode' = mode /\ turnSignal' = turnSignal
      /\ Shaped' = Shaped /\ Shape' = Shape
      /\ \A q \in Shaped : body'[q] = body[q] /\ constructionDir'[q] = constructionDir[q]
  BY ShapeStays DEF Still
<1>2. body'[1] = body[1]
  BY <1>1, ShapeNodes
<1>3. /\ \A n : Seen(n)' = Seen(n)
      /\ \A q \in Shaped : /\ Aim(q)' = Aim(q)
                           /\ SeenDir(q, constructionDir[q])' = SeenDir(q, constructionDir[q])
  BY <1>1, <1>2 DEF Seen, Compass, Aim, SeenDir
<1>4. Unsignalled'
  BY <1>1 DEF Unsignalled, Grown
<1>5. ASSUME NEW k, NEW s, NEW j, GrownAt(k, s, j) PROVE GrownAt(k, s, j)'
  BY <1>1, <1>3, <1>5 DEF GrownAt
<1>6. ASSUME NEW lo, NEW hi, LineAt(lo, hi) PROVE LineAt(lo, hi)'
  BY <1>1, <1>3, <1>6 DEF LineAt
<1> QED
  BY <1>1, <1>4, <1>5, <1>6 DEF Grown

\* The leader that finishes receives from a particle of the shape, off which
\* it is: what Finish does, as the seed sees it.
LEMMA FinishSeen ==
  ASSUME Core, NEW p \in particles, Finish(p)
  PROVE  \E r \in Dir, q \in Shaped, e \in Dir :
           /\ q = NbrAtLabel(p, r) /\ q \in particles
           /\ e = constructionDir[q] \/ (mode = "l" /\ e = Opposite(constructionDir[q]))
           /\ Pointed(body[q], e) = body[p].head
           /\ SeenDir(p, r) = Opposite(SeenDir(q, e))
           /\ constructionDir' = [constructionDir EXCEPT ![p] = ConstructionTurn(p, r)[1]]
           /\ turnSignal' = [turnSignal EXCEPT ![p] = ConstructionTurn(p, r)[2]]
<1>1. p \in Leaders /\ IsContracted(body[p])
  BY FinishKeeps
<1>2. PICK r \in ReceiveLabels(p) :
        /\ constructionDir' = [constructionDir EXCEPT ![p] = ConstructionTurn(p, r)[1]]
        /\ turnSignal' = [turnSignal EXCEPT ![p] = ConstructionTurn(p, r)[2]]
  BY FinishKeeps
<1> DEFINE q == NbrAtLabel(p, r)
<1>3. /\ r \in Dir /\ q \in Shaped /\ q \in particles
      /\ body[q].head = Pointed(body[p], r)
      /\ constructionDir[q] \in Dir /\ Opposite(constructionDir[q]) \in Dir
  BY <1>1, Receives, ShapeNodes, OppositeType DEF Core, Anchored
<1>4. PICK e \in Dir : /\ e = constructionDir[q] \/ (mode = "l" /\ e = Opposite(constructionDir[q]))
                       /\ Pointed(body[q], e) = body[p].head
  BY <1>1, <1>3, Receives
<1> HIDE DEF q
<1> DEFINE N == Seen(body[p].head)
           M == Seen(body[q].head)
<1>5. /\ NodeInDir(M, SeenDir(q, e)) = N /\ SeenDir(q, e) \in Dir
      /\ NodeInDir(N, SeenDir(p, r)) = M /\ SeenDir(p, r) \in Dir
  BY <1>3, <1>4, SeenStep
<1>6. M \in Node /\ N \in Node
  BY <1>3, SeenNode, NodesType DEF Core, TypeOK
<1> HIDE DEF M, N
<1>7. NodeInDir(N, Opposite(SeenDir(q, e))) = M /\ Opposite(SeenDir(q, e)) \in Dir
  BY <1>5, <1>6, NodeInDirBack, OppositeType
<1>8. SeenDir(p, r) = Opposite(SeenDir(q, e))
  BY <1>5, <1>6, <1>7, NodeInDirInjective
<1> QED
  BY <1>2, <1>3, <1>4, <1>8 DEF q

\* The shape and who sees it after a leader has finished.
LEMMA FinishGrowsShape ==
  ASSUME Core, NEW p \in particles, Finish(p)
  PROVE  /\ particles' = particles /\ mode' = mode /\ body' = body
         /\ Shaped' = Shaped \cup {p} /\ Shape' = Shape \cup {body[p].head}
         /\ p \notin Shaped /\ p # 1 /\ IsContracted(body[p])
         /\ body[p].head \in Node /\ body[p].head \notin Shape
         /\ IsFiniteSet(Shape) => /\ IsFiniteSet(Shape')
                                  /\ Cardinality(Shape') = Cardinality(Shape) + 1
         /\ \A n : Seen(n)' = Seen(n)
         /\ \A q, d : SeenDir(q, d)' = SeenDir(q, d)
         /\ \A q \in Shaped : /\ Aim(q)' = Aim(q) /\ constructionDir'[q] = constructionDir[q]
                              /\ turnSignal'[q] = turnSignal[q]
<1>1. /\ p \in Leaders /\ IsContracted(body[p]) /\ body' = body /\ mode' = mode
      /\ Shaped' = Shaped \cup {p} /\ Shape' = Shape \cup {body[p].head}
  BY FinishKeeps
<1>2. PICK r : /\ constructionDir' = [constructionDir EXCEPT ![p] = ConstructionTurn(p, r)[1]]
               /\ turnSignal' = [turnSignal EXCEPT ![p] = ConstructionTurn(p, r)[2]]
  BY FinishKeeps
<1>3. p \notin Shaped /\ p # 1
  BY <1>1, ShapeNodes DEF Leaders, Shaped, InState
<1>4. body[p].head \in Node /\ body[p].head \notin Shape
  BY <1>3, ShapeNodes, NodesType DEF Core, TypeOK
<1>5. \A q \in Shaped : constructionDir'[q] = constructionDir[q] /\ turnSignal'[q] = turnSignal[q]
  BY <1>2, <1>3, ShapeNodes DEF Core, TypeOK
<1>6. /\ \A n : Seen(n)' = Seen(n)
      /\ \A q, d : SeenDir(q, d)' = SeenDir(q, d)
      /\ \A q \in Shaped : Aim(q)' = Aim(q)
  BY <1>1, <1>5 DEF Seen, Compass, SeenDir, Aim
<1>7. IsFiniteSet(Shape) => /\ IsFiniteSet(Shape')
                            /\ Cardinality(Shape') = Cardinality(Shape) + 1
  BY <1>1, <1>4, FS_AddElement
<1> QED
  BY <1>1, <1>3, <1>4, <1>5, <1>6, <1>7 DEF particles

\* A particle that finishes fills the node to be filled, and points at the next.
LEMMA FinishGrowsFigure ==
  ASSUME Core, mode # "l", Unsignalled, NEW k, NEW s, NEW j, GrownAt(k, s, j),
         NEW p \in particles, Finish(p), NEW a, a = After(mode, k, s, j)
  PROVE  GrownAt(a[1], a[2], a[3])'
<1> DEFINE H == body[p].head
           N == NextNode(mode, k, s, j)
           D == NextDir(mode, s, j)
           t(r) == ConstructionTurn(p, r)
<1>1. /\ particles' = particles /\ mode' = mode /\ body' = body
      /\ Shaped' = Shaped \cup {p} /\ Shape' = Shape \cup {H}
      /\ p \notin Shaped /\ p # 1 /\ IsContracted(body[p])
      /\ H \in Node /\ H \notin Shape
      /\ IsFiniteSet(Shape) => /\ IsFiniteSet(Shape')
                               /\ Cardinality(Shape') = Cardinality(Shape) + 1
      /\ \A n : Seen(n)' = Seen(n)
      /\ \A q, d : SeenDir(q, d)' = SeenDir(q, d)
      /\ \A q \in Shaped : /\ Aim(q)' = Aim(q) /\ constructionDir'[q] = constructionDir[q]
                           /\ turnSignal'[q] = turnSignal[q]
  BY FinishGrowsShape
<1>2. PICK r \in Dir, q \in Shaped :
        /\ q = NbrAtLabel(p, r) /\ q \in particles
        /\ Aim(q) = H
        /\ SeenDir(p, r) = Opposite(SeenDir(q, constructionDir[q]))
        /\ constructionDir' = [constructionDir EXCEPT ![p] = t(r)[1]]
        /\ turnSignal' = [turnSignal EXCEPT ![p] = t(r)[2]]
  BY FinishSeen DEF Aim
<1>3. mode \in Figures
  BY DEF Core, Anchored, Figures
<1>4. /\ Stage(mode, k, s, j)
      /\ \A n \in Node : n \in Shape <=> Filled(mode, k, s, j, Seen(n))
      /\ IsFiniteSet(Shape) /\ 2 * Cardinality(Shape) = Twice(mode, k, s, j)
      /\ \A x \in Shaped : Aim(x) \notin Shape =>
           /\ Seen(Aim(x)) = N /\ SeenDir(x, constructionDir[x]) = D
           /\ x = 1 <=> k = 1 /\ s = 0 /\ j = 1
           /\ mode \in {"s", "t1"} /\ x # 1 => turnSignal[x] = NextSignal(mode, s, j)
  BY DEF GrownAt
<1> DEFINE first == k = 1 /\ s = 0 /\ j = 1
<1>5. /\ Seen(H) = N /\ SeenDir(p, r) = (D + 3) % 6
      /\ q = 1 <=> first
      /\ mode \in {"s", "t1"} /\ q # 1 => turnSignal[q] = NextSignal(mode, s, j)
  BY <1>1, <1>2, <1>4 DEF Opposite
<1>6. /\ Stage(mode, a[1], a[2], a[3]) /\ ~ (a[1] = 1 /\ a[2] = 0 /\ a[3] = 1)
      /\ N \in Node /\ ~ Filled(mode, k, s, j, N)
      /\ \A n \in Node : Filled(mode, a[1], a[2], a[3], n) <=> Filled(mode, k, s, j, n) \/ n = N
      /\ Twice(mode, a[1], a[2], a[3]) = Twice(mode, k, s, j) + 2
  BY <1>3, <1>4, FigureGrows
<1>7. \A i \in Node : i \in SeenShape <=> Filled(mode, k, s, j, i)
  <2> TAKE i \in Node
  <2> DEFINE m == Rotated((6 - Compass) % 6, i)
  <2>1. m \in Node /\ Seen(m) = i
    BY SeenNode
  <2> QED
    BY <1>4, <2>1, SeenNode
<1>8. mode \in {"s", "t1"} => NextSignal(mode, s, j) \in {0, 1}
  BY <1>4 DEF Stage, EndSide, SideLength, NextSignal, SquareSignal, ConeSignal, SquareLength, ConeLength
<1>9. mode \in {"s", "t1"} => turnSignal[p] = 0 /\ (q # 1 => turnSignal[q] \in {0, 1})
  BY <1>1, <1>5, <1>8 DEF Unsignalled
<1>10. PICK fromSeed \in BOOLEAN : fromSeed <=> q = 1
  OBVIOUS
<1> DEFINE w == TurnSeen(mode, SeenDir(p, r), fromSeed, turnSignal[q], turnSignal[p], SeenShape, Seen(H))
<1>11. SeenDir(p, t(r)[1]) = w[1] /\ t(r)[2] = w[2]
  BY <1>1, <1>2, <1>9, <1>10, TurnsAlike
<1>12. /\ w[1] = NextDir(mode, a[2], a[3])
       /\ mode \in {"s", "t1"} => w[2] = NextSignal(mode, a[2], a[3])
       /\ NodeInDir(N, NextDir(mode, a[2], a[3])) = NextNode(mode, a[1], a[2], a[3])
  <2>1. mode \in {"s", "t1"} => turnSignal[p] = 0 /\ (first \/ turnSignal[q] = NextSignal(mode, s, j))
    BY <1>5, <1>9
  <2>2. fromSeed <=> first
    BY <1>5, <1>10
  <2>3. w = TurnSeen(mode, (D + 3) % 6, fromSeed, turnSignal[q], turnSignal[p], SeenShape, N)
    BY <1>5
  <2> HIDE DEF w, D, N
  <2> QED
    BY <1>3, <1>4, <1>7, <2>1, <2>2, <2>3, FigureTurns DEF D, N
<1>13. t(r)[1] \in Dir
  BY <1>2, TurnType
<1> HIDE DEF w, t, H, N, D
<1>14. /\ constructionDir'[p] = t(r)[1] /\ turnSignal'[p] = t(r)[2]
       /\ Aim(p)' = Pointed(body[p], t(r)[1])
  BY <1>1, <1>2 DEF Aim, Core, TypeOK
<1>15. Seen(Pointed(body[p], t(r)[1])) = NextNode(mode, a[1], a[2], a[3])
  BY <1>5, <1>11, <1>12, <1>13, SeenStep DEF H
<1>16. \A n \in Node : n \in Shape' <=> Filled(mode, a[1], a[2], a[3], Seen(n))
  BY <1>1, <1>4, <1>5, <1>6, SeenNode
<1>17. IsFiniteSet(Shape') /\ 2 * Cardinality(Shape') = Twice(mode, a[1], a[2], a[3])
  <2>1. Cardinality(Shape) \in Nat
    BY <1>4, FS_CardinalityType
  <2> QED
    BY <1>1, <1>4, <1>6, <2>1
<1>18. ASSUME NEW x \in Shaped', Aim(x)' \notin Shape'
       PROVE  /\ Seen(Aim(x)') = NextNode(mode, a[1], a[2], a[3])
              /\ SeenDir(x, constructionDir'[x]) = NextDir(mode, a[2], a[3])
              /\ x # 1
              /\ mode \in {"s", "t1"} => turnSignal'[x] = NextSignal(mode, a[2], a[3])
  <2>1. x = p
    <3>1. SUFFICES ASSUME x \in Shaped PROVE FALSE
      BY <1>1, <1>18
    <3>2. Aim(x) \notin Shape /\ Aim(x) # H
      BY <1>1, <1>18, <3>1
    <3>3. Seen(Aim(x)) = Seen(H)
      BY <1>4, <1>5, <3>1, <3>2
    <3>4. Aim(x) \in Node
      BY <3>1, ShapeNodes, SeenStep DEF Aim, Core, Anchored
    <3> QED
      BY <1>1, <3>2, <3>3, <3>4, SeenNode
  <2> QED
    BY <1>1, <1>11, <1>12, <1>14, <1>15, <2>1
<1>19. \A x \in Shaped' : Aim(x)' \notin Shape' =>
         /\ Seen(Aim(x))' = NextNode(mode, a[1], a[2], a[3])
         /\ SeenDir(x, constructionDir[x])' = NextDir(mode, a[2], a[3])
         /\ x = 1 <=> a[1] = 1 /\ a[2] = 0 /\ a[3] = 1
         /\ mode \in {"s", "t1"} /\ x # 1 => turnSignal'[x] = NextSignal(mode, a[2], a[3])
  BY <1>1, <1>6, <1>18 DEF Seen, Compass, SeenDir
<1>20. \A n \in Node : n \in Shape' <=> Filled(mode, a[1], a[2], a[3], Seen(n)')
  BY <1>1, <1>16
<1> QED
  BY <1>1, <1>6, <1>17, <1>19, <1>20 DEF GrownAt

\* In mode l it lengthens the line at one of its ends.
LEMMA FinishGrowsLine ==
  ASSUME Core, mode = "l", NEW lo, NEW hi, LineAt(lo, hi), NEW p \in particles, Finish(p)
  PROVE  LineAt(lo, hi + 1)' \/ LineAt(lo - 1, hi)'
<1> DEFINE H == body[p].head
           t(r) == ConstructionTurn(p, r)
<1>1. /\ particles' = particles /\ mode' = mode /\ body' = body
      /\ Shaped' = Shaped \cup {p} /\ Shape' = Shape \cup {H}
      /\ p \notin Shaped /\ p # 1 /\ IsContracted(body[p])
      /\ H \in Node /\ H \notin Shape
      /\ IsFiniteSet(Shape) => /\ IsFiniteSet(Shape')
                               /\ Cardinality(Shape') = Cardinality(Shape) + 1
      /\ \A n : Seen(n)' = Seen(n)
      /\ \A q, d : SeenDir(q, d)' = SeenDir(q, d)
      /\ \A q \in Shaped : /\ Aim(q)' = Aim(q) /\ constructionDir'[q] = constructionDir[q]
                           /\ turnSignal'[q] = turnSignal[q]
  BY FinishGrowsShape
<1>2. PICK r \in Dir, q \in Shaped, e \in Dir :
        /\ q = NbrAtLabel(p, r) /\ q \in particles
        /\ e = constructionDir[q] \/ e = Opposite(constructionDir[q])
        /\ Pointed(body[q], e) = H
        /\ SeenDir(p, r) = Opposite(SeenDir(q, e))
        /\ constructionDir' = [constructionDir EXCEPT ![p] = t(r)[1]]
  BY FinishSeen
<1>3. /\ lo \in Int /\ hi \in Int /\ lo <= 0 /\ 0 <= hi
      /\ \A n \in Node : n \in Shape <=> Seen(n)[2] = 0 /\ Seen(n)[1] \in lo .. hi
      /\ IsFiniteSet(Shape) /\ Cardinality(Shape) = hi - lo + 1
      /\ \A x \in Shaped : SeenDir(x, constructionDir[x]) \in {0, 3}
  BY DEF LineAt
<1>4. SeenDir(q, e) \in {0, 3}
  <2>1. SeenDir(q, constructionDir[q]) \in {0, 3} /\ constructionDir[q] \in Dir
    BY <1>2, <1>3 DEF Core, Anchored
  <2>2. SeenDir(q, Opposite(constructionDir[q])) = Opposite(SeenDir(q, constructionDir[q]))
    BY <1>2, <2>1, SeenStep
  <2>3. Opposite(0) = 3 /\ Opposite(3) = 0
    BY DEF Opposite
  <2> QED
    BY <1>2, <2>1, <2>2, <2>3
<1>5. PICK x \in lo .. hi : Seen(body[q].head) = <<x, 0>>
  <2>1. Seen(body[q].head) \in Node /\ body[q].head \in Node /\ body[q].head \in Shape
    BY <1>2, ShapeNodes, SeenNode
  <2>2. Seen(body[q].head)[2] = 0 /\ Seen(body[q].head)[1] \in lo .. hi
    BY <1>3, <2>1
  <2>3. PICK a \in Int, b \in Int : Seen(body[q].head) = <<a, b>>
    BY <2>1 DEF Node
  <2> QED
    BY <2>2, <2>3
<1>6. Seen(H) = <<x + 1, 0>> \/ Seen(H) = <<x - 1, 0>>
  <2>1. Seen(H) = NodeInDir(<<x, 0>>, SeenDir(q, e))
    BY <1>2, <1>5, SeenStep
  <2>2. x \in Int /\ 0 \in Int
    BY <1>3
  <2> QED
    BY <1>4, <2>1, <2>2, StepsAre
<1>7. ~ (Seen(H)[2] = 0 /\ Seen(H)[1] \in lo .. hi)
  BY <1>1, <1>3
<1>8. Seen(H) = <<hi + 1, 0>> \/ Seen(H) = <<lo - 1, 0>>
  BY <1>3, <1>5, <1>6, <1>7
<1>9. t(r) = <<(r + 3) % 6, turnSignal[p]>> /\ (r + 3) % 6 = Opposite(r) /\ Opposite(r) \in Dir
  BY OppositeType DEF ConstructionTurn, LineTurn, Turn, Opposite
<1> HIDE DEF t, H
<1>10. constructionDir'[p] = Opposite(r)
  BY <1>2, <1>9 DEF Core, TypeOK
<1>11. SeenDir(p, Opposite(r)) \in {0, 3}
  <2>1. SeenDir(p, Opposite(r)) = Opposite(Opposite(SeenDir(q, e)))
    BY <1>2, SeenStep
  <2>2. Opposite(Opposite(0)) = 0 /\ Opposite(Opposite(3)) = 3
    BY DEF Opposite
  <2> QED
    BY <1>4, <2>1, <2>2
<1>12. \A i \in Shaped' : SeenDir(i, constructionDir[i])' \in {0, 3}
  <2> TAKE i \in Shaped'
  <2>1. CASE i = p
    BY <1>1, <1>10, <1>11, <2>1 DEF SeenDir
  <2>2. CASE i \in Shaped
    BY <1>1, <1>3, <2>2 DEF SeenDir
  <2> QED
    BY <1>1, <2>1, <2>2
<1>13. \A n \in Node : n \in Shape' <=> (Seen(n)[2] = 0 /\ Seen(n)[1] \in lo .. hi) \/ Seen(n) = Seen(H)
  BY <1>1, <1>3, SeenNode
<1>14. \A n \in Node : \E i \in Int, l \in Int : Seen(n) = <<i, l>>
  BY SeenNode DEF Node
<1>15. CASE Seen(H) = <<hi + 1, 0>>
  <2>1. \A n \in Node : n \in Shape' <=> Seen(n)[2] = 0 /\ Seen(n)[1] \in lo .. hi + 1
    <3> TAKE n \in Node
    <3>1. PICK i \in Int, l \in Int : Seen(n) = <<i, l>>
      BY <1>14
    <3>2. n \in Shape' <=> (l = 0 /\ i \in lo .. hi) \/ (i = hi + 1 /\ l = 0)
      BY <1>13, <1>15, <3>1
    <3> QED
      BY <1>3, <3>1, <3>2
  <2>2. \A n \in Node : n \in Shape' <=> Seen(n)'[2] = 0 /\ Seen(n)'[1] \in lo .. hi + 1
    BY <1>1, <2>1
  <2>3. IsFiniteSet(Shape') /\ Cardinality(Shape') = (hi + 1) - lo + 1
    BY <1>1, <1>3
  <2> QED
    BY <1>3, <1>12, <2>2, <2>3 DEF LineAt
<1>16. CASE Seen(H) = <<lo - 1, 0>>
  <2>1. \A n \in Node : n \in Shape' <=> Seen(n)[2] = 0 /\ Seen(n)[1] \in lo - 1 .. hi
    <3> TAKE n \in Node
    <3>1. PICK i \in Int, l \in Int : Seen(n) = <<i, l>>
      BY <1>14
    <3>2. n \in Shape' <=> (l = 0 /\ i \in lo .. hi) \/ (i = lo - 1 /\ l = 0)
      BY <1>13, <1>16, <3>1
    <3> QED
      BY <1>3, <3>1, <3>2
  <2>2. \A n \in Node : n \in Shape' <=> Seen(n)'[2] = 0 /\ Seen(n)'[1] \in lo - 1 .. hi
    BY <1>1, <2>1
  <2>3. IsFiniteSet(Shape') /\ Cardinality(Shape') = hi - (lo - 1) + 1
    BY <1>1, <1>3
  <2> QED
    BY <1>3, <1>12, <2>2, <2>3 DEF LineAt
<1> QED
  BY <1>8, <1>15, <1>16

\* Finish takes the figure to its next stage, in every mode.
LEMMA FinishKeepsGrown ==
  ASSUME Core, Grown, NEW p \in particles, Finish(p)
  PROVE  Grown'
<1>1. /\ particles' = particles /\ mode' = mode /\ Shaped' = Shaped \cup {p}
      /\ p \notin Shaped
  BY FinishGrowsShape
<1>2. PICK r : turnSignal' = [turnSignal EXCEPT ![p] = ConstructionTurn(p, r)[2]]
  BY FinishKeeps
<1>3. Unsignalled'
  BY <1>1, <1>2 DEF Unsignalled, Grown, Core, TypeOK
<1>4. ASSUME mode # "l" PROVE \E k, s, j : GrownAt(k, s, j)'
  <2>1. PICK k, s, j : GrownAt(k, s, j)
    BY <1>4 DEF Grown
  <2> QED
    BY <1>4, <2>1, FinishGrowsFigure DEF Grown
<1>5. ASSUME mode = "l" PROVE \E lo, hi : LineAt(lo, hi)'
  <2>1. PICK lo, hi : LineAt(lo, hi)
    BY <1>5 DEF Grown
  <2> QED
    BY <1>5, <2>1, FinishGrowsLine
<1> QED
  BY <1>1, <1>3, <1>4, <1>5 DEF Grown

-----------------------------------------------------------------------------
(* The inductive invariant                                                 *)

\* turnSignal is set by nobody before the turns read it; the proof is about
\* builds in which it happens to hold zero.
SignalsSet == mode \in {"s", "t1"} => FreshTurnSignal = {0}

\* The inductive invariant.
IInv == SignalsSet => Core /\ Grown

\* The seed alone is the first stage of every figure.
LEMMA InitHolds ==
  ASSUME Init
  PROVE  IInv
<1> SUFFICES ASSUME SignalsSet PROVE Core /\ Grown
  BY DEF IInv
<1>1. Core /\ Shaped = {1} /\ Shape = {<<0, 0>>} /\ constructionDir[1] = 0
  BY CoreInit
<1>2. Unsignalled
  BY DEF Init, SignalsSet, Unsignalled, particles
<1>3. /\ IsFiniteSet(Shape) /\ Cardinality(Shape) = 1
      /\ \A n \in Node : n \in Shape <=> Seen(n) = <<0, 0>>
  BY <1>1, SeenNode, FS_Singleton
<1>4. SeenDir(1, 0) = 0 /\ Seen(<<0, 0>>) = <<0, 0>>
      /\ Seen(Aim(1)) = NodeInDir(<<0, 0>>, 0)
  <2>1. 1 \in particles /\ body[1] \in Body /\ body[1].head = <<0, 0>> /\ 0 \in Dir /\ <<0, 0>> \in Node
    BY <1>1, ShapeNodes DEF Core, Anchored, TypeOK, Dir, Node
  <2>2. SeenDir(1, 0) = 0
    BY <2>1, CompassInverse DEF SeenDir, NbrDirToDir
  <2>3. Seen(<<0, 0>>) = <<0, 0>>
    BY <1>1, <2>1, SeenNode
  <2> QED
    BY <1>1, <2>1, <2>2, <2>3, SeenStep DEF Aim
<1>5. mode # "l" => GrownAt(1, 0, 1)
  <2> SUFFICES ASSUME mode \in Figures PROVE GrownAt(1, 0, 1)
    BY <1>1 DEF Core, Anchored, Figures
  <2>1. /\ Stage(mode, 1, 0, 1) /\ NextNode(mode, 1, 0, 1) = NodeInDir(<<0, 0>>, 0)
        /\ \A n \in Node : Filled(mode, 1, 0, 1, n) <=> n = <<0, 0>>
        /\ Twice(mode, 1, 0, 1) = 2 /\ NextDir(mode, 0, 1) = 0
    BY FigureFirst
  <2>2. \A n \in Node : n \in Shape <=> Filled(mode, 1, 0, 1, Seen(n))
    BY <1>1, <1>3, <2>1, SeenNode
  <2> QED
    BY <1>1, <1>3, <1>4, <2>1, <2>2 DEF GrownAt
<1>6. LineAt(0, 0)
  <2>1. \A n \in Node : n \in Shape <=> Seen(n)[2] = 0 /\ Seen(n)[1] \in 0 .. 0
    <3> TAKE n \in Node
    <3>1. PICK x \in Int, y \in Int : Seen(n) = <<x, y>>
      BY <1>1, SeenNode DEF Node
    <3> QED
      BY <1>3, <3>1
  <2> QED
    BY <1>1, <1>3, <1>4, <2>1 DEF LineAt
<1> QED
  BY <1>1, <1>2, <1>5, <1>6 DEF Grown

\* One case for each handler.
LEMMA StepHolds ==
  ASSUME IInv, [Next]_vars
  PROVE  IInv'
<1>1. mode' = mode
  BY DEF Next, Activate, FollowContracts, LeadContracts, BecomeLead, BecomeFollow, FollowPushes,
         Finish, LeadMoves, vars
<1> SUFFICES ASSUME SignalsSet PROVE Core' /\ Grown'
  BY <1>1 DEF IInv, SignalsSet
<1>2. Core /\ Grown /\ ShapeOpen
  BY GrownOpen DEF IInv
<1>3. ASSUME NEW p \in particles, FollowContracts(p) PROVE Core' /\ Grown'
  BY <1>2, <1>3, FollowContractsKeeps, StillKeepsGrown
<1>4. ASSUME NEW p \in particles, LeadContracts(p) PROVE Core' /\ Grown'
  BY <1>2, <1>4, LeadContractsKeeps, StillKeepsGrown
<1>5. ASSUME NEW p \in particles, BecomeLead(p) PROVE Core' /\ Grown'
  BY <1>2, <1>5, BecomeLeadKeeps, StillKeepsGrown
<1>6. ASSUME NEW p \in particles, BecomeFollow(p) PROVE Core' /\ Grown'
  BY <1>2, <1>6, BecomeFollowKeeps, StillKeepsGrown
<1>7. ASSUME NEW p \in particles, FollowPushes(p) PROVE Core' /\ Grown'
  BY <1>2, <1>7, FollowPushesKeeps, StillKeepsGrown
<1>8. ASSUME NEW p \in particles, Finish(p) PROVE Core' /\ Grown'
  BY <1>2, <1>8, FinishKeeps, FinishKeepsGrown
<1>9. ASSUME NEW p \in particles, LeadMoves(p) PROVE Core' /\ Grown'
  BY <1>2, <1>9, LeadMovesKeeps, StillKeepsGrown
<1>10. ASSUME UNCHANGED vars PROVE Core' /\ Grown'
  <2>1. UNCHANGED <<body, mode, state, turnSignal, constructionDir, moveDir, followDir>>
    BY <1>10 DEF vars
  <2>2. Core'
    <3>1. /\ particles' = particles /\ Shaped' = Shaped /\ Leaders' = Leaders
          /\ Followers' = Followers /\ Active' = Active
          /\ Shape' = Shape /\ Occupied' = Occupied
      BY <2>1 DEF particles, Shaped, Leaders, Followers, Active, InState, Shape, Occupied
    <3>2. (\A q : Target(q)' = Target(q)) /\ Up' = Up
      BY <2>1 DEF Target, Up, ParticleAt, particles
    <3>3. TypeOK'
      BY <1>2, <2>1 DEF Core, TypeOK, particles, InState
    <3>4. ApartIn(body')
      BY <1>2, <2>1 DEF Core
    <3>5. Anchored' /\ AtShape' /\ StaysConnected'
      BY <1>2, <2>1, <3>1 DEF Core, Anchored, AtShape, StaysConnected
    <3>6. Led'
      BY <1>2, <2>1, <3>1, <3>2 DEF Core, Led
    <3>7. Rooted'
      BY <1>2, <3>1, <3>2 DEF Core, Rooted
    <3> QED
      BY <3>3, <3>4, <3>5, <3>6, <3>7 DEF Core
  <2>3. Still
    BY <2>1 DEF Still, particles, Shaped, InState
  <2> QED
    BY <1>2, <2>2, <2>3, StillKeepsGrown
<1> QED
  BY <1>3, <1>4, <1>5, <1>6, <1>7, <1>8, <1>9, <1>10 DEF Next, Activate

\* No step of any handler breaks the inductive invariant, so a system that takes
\* the same steps for other reasons keeps it too.
THEOREM ShapeStep == IInv /\ [Next]_vars => IInv'
  BY StepHolds

\* The inductive invariant holds whether or not the system is fair.
THEOREM ShapeInvCorrect == Init /\ [][Next]_vars => []IInv
  BY InitHolds, ShapeStep, PTL

\* While they walk and finish in any order, nobody loses the surface, the way
\* to it or the others (ForestOnSurface): for every start, all compasses, and
\* all five modes.
THEOREM ForestCorrect == Spec => [](SignalsSet => ForestOnSurface)
<1>1. IInv => (SignalsSet => ForestOnSurface)
  BY GrownOpen, CoreCorrect DEF IInv
<1> QED
  BY <1>1, ShapeInvCorrect, PTL DEF Spec

-----------------------------------------------------------------------------
(* The figures fit                                                         *)

\* The squares, in the seed's view.
LEMMA SquareFigure ==
  ASSUME NEW k \in Nat \ {0}, NEW s \in 0..3, NEW j \in 1..SquareLength(k, s), NEW w \in Node,
         NEW K, K = IF s <= 1 THEN 2 * k - 1 ELSE 2 * k,
         NEW m, m = IF s = 0 THEN 2 * k - 1 ELSE IF s = 3 THEN 2 * k + 1 ELSE 2 * k,
         NEW n, n = << <<1 - k, k - 1>>, <<k, k - 1>>, <<k, - k>>, <<- k, - k>> >>[s + 1],
         NEW d, d = <<4, 3, 1, 0>>[s + 1], NEW e, e = <<0, 4, 3, 1>>[s + 1]
  PROVE  SquareFilled(k, s, j, w) <=> w \in Block(n, d, m, e, K) \cup Row(Far(n, e, K), d, j - 1)
<1>1. PICK x \in Int, y \in Int : w = <<x, y>>
  BY DEF Node
<1>2. w \in Block(n, d, m, e, K) <=> \E i \in 0 .. K - 1 : <<x, y>> \in Row(Far(n, e, i), d, m)
  BY <1>1 DEF Block
<1>3. \A i \in 0 .. K - 1 : i \in Int
  OBVIOUS
<1>4. K \in Int /\ m \in Int /\ j - 1 \in Int /\ 1 - k \in Int /\ k - 1 \in Int /\ - k \in Int
  OBVIOUS
<1>5. CASE s = 0
  <2>1. n = <<1 - k, k - 1>> /\ d = 4 /\ e = 0 /\ K = 2 * k - 1 /\ m = 2 * k - 1
    BY <1>5
  <2>2. \A i \in Int : Far(<<1 - k, k - 1>>, 0, i) = <<1 - k + i, k - 1>>
    BY DEF Far, xOffset, yOffset
  <2>3. \A c \in Int, l \in Int : <<x, y>> \in Row(<<c, k - 1>>, 4, l)
            <=> x = c /\ y \in k - 1 - l + 1 .. k - 1
    BY <1>4, RowIs
  <2>4. w \in Block(n, d, m, e, K)
            <=> \E i \in 0 .. K - 1 : x = 1 - k + i /\ y \in k - 1 - m + 1 .. k - 1
    <3>1. \A i \in 0 .. K - 1 : 1 - k + i \in Int
      OBVIOUS
    <3>2. ASSUME NEW i \in 0 .. K - 1
          PROVE  <<x, y>> \in Row(Far(n, e, i), d, m)
                     <=> x = 1 - k + i /\ y \in k - 1 - m + 1 .. k - 1
      <4>1. Far(n, e, i) = <<1 - k + i, k - 1>>
        BY <1>3, <2>1, <2>2
      <4> QED
        BY <1>4, <2>1, <2>3, <3>1, <4>1
    <3> QED
      BY <1>2, <3>2
  <2>5. w \in Row(Far(n, e, K), d, j - 1) <=> x = k /\ y \in k - 1 - (j - 1) + 1 .. k - 1
    <3>1. Far(n, e, K) = <<k, k - 1>>
      BY <1>4, <2>1, <2>2
    <3>2. w \in Row(<<k, k - 1>>, d, j - 1) <=> x = k /\ y \in k - 1 - (j - 1) + 1 .. k - 1
      BY <1>1, <1>4, <2>1, <2>3
    <3> QED
      BY <3>1, <3>2
  <2>6. (\E i \in 0 .. K - 1 : x = 1 - k + i /\ y \in k - 1 - m + 1 .. k - 1)
          <=> x - (1 - k) \in 0 .. K - 1 /\ y \in k - 1 - m + 1 .. k - 1
    <3>1. x - (1 - k) \in Int
      OBVIOUS
    <3> QED
      BY <1>4, <3>1
  <2> QED
    BY <1>1, <1>5, <2>1, <2>4, <2>5, <2>6 DEF SquareFilled
<1>6. CASE s = 1
  <2>1. n = <<k, k - 1>> /\ d = 3 /\ e = 4 /\ K = 2 * k - 1 /\ m = 2 * k
    BY <1>6
  <2>2. \A i \in Int : Far(<<k, k - 1>>, 4, i) = <<k, k - 1 - i>>
    BY DEF Far, xOffset, yOffset
  <2>3. \A c \in Int, l \in Int : <<x, y>> \in Row(<<k, c>>, 3, l) <=> y = c /\ x \in k - l + 1 .. k
    BY <1>4, RowIs
  <2>4. w \in Block(n, d, m, e, K) <=> \E i \in 0 .. K - 1 : y = k - 1 - i /\ x \in k - m + 1 .. k
    <3>1. \A i \in 0 .. K - 1 : k - 1 - i \in Int
      OBVIOUS
    <3> QED
      BY <1>2, <1>3, <1>4, <2>1, <2>2, <2>3, <3>1
  <2>5. w \in Row(Far(n, e, K), d, j - 1) <=> y = - k /\ x \in k - (j - 1) + 1 .. k
    <3>1. Far(n, e, K) = <<k, - k>>
      BY <1>4, <2>1, <2>2
    <3>2. w \in Row(<<k, - k>>, d, j - 1) <=> y = - k /\ x \in k - (j - 1) + 1 .. k
      BY <1>1, <1>4, <2>1, <2>3
    <3> QED
      BY <3>1, <3>2
  <2>6. (\E i \in 0 .. K - 1 : y = k - 1 - i /\ x \in k - m + 1 .. k)
          <=> k - 1 - y \in 0 .. K - 1 /\ x \in k - m + 1 .. k
    <3>1. k - 1 - y \in Int
      OBVIOUS
    <3> QED
      BY <1>4, <3>1
  <2> QED
    BY <1>1, <1>6, <2>1, <2>4, <2>5, <2>6 DEF SquareFilled
<1>7. CASE s = 2
  <2>1. n = <<k, - k>> /\ d = 1 /\ e = 3 /\ K = 2 * k /\ m = 2 * k
    BY <1>7
  <2>2. \A i \in Int : Far(<<k, - k>>, 3, i) = <<k - i, - k>>
    BY DEF Far, xOffset, yOffset
  <2>3. \A c \in Int, l \in Int : <<x, y>> \in Row(<<c, - k>>, 1, l)
            <=> x = c /\ y \in - k .. - k + l - 1
    BY <1>4, RowIs
  <2>4. w \in Block(n, d, m, e, K) <=> \E i \in 0 .. K - 1 : x = k - i /\ y \in - k .. - k + m - 1
    <3>1. \A i \in 0 .. K - 1 : k - i \in Int
      OBVIOUS
    <3> QED
      BY <1>2, <1>3, <1>4, <2>1, <2>2, <2>3, <3>1
  <2>5. w \in Row(Far(n, e, K), d, j - 1) <=> x = - k /\ y \in - k .. - k + (j - 1) - 1
    <3>1. Far(n, e, K) = <<- k, - k>>
      BY <1>4, <2>1, <2>2
    <3>2. w \in Row(<<- k, - k>>, d, j - 1) <=> x = - k /\ y \in - k .. - k + (j - 1) - 1
      BY <1>1, <1>4, <2>1, <2>3
    <3> QED
      BY <3>1, <3>2
  <2>6. (\E i \in 0 .. K - 1 : x = k - i /\ y \in - k .. - k + m - 1)
          <=> k - x \in 0 .. K - 1 /\ y \in - k .. - k + m - 1
    <3>1. k - x \in Int
      OBVIOUS
    <3> QED
      BY <1>4, <3>1
  <2> QED
    BY <1>1, <1>7, <2>1, <2>4, <2>5, <2>6 DEF SquareFilled
<1>8. CASE s = 3
  <2>1. n = <<- k, - k>> /\ d = 0 /\ e = 1 /\ K = 2 * k /\ m = 2 * k + 1
    BY <1>8
  <2>2. \A i \in Int : Far(<<- k, - k>>, 1, i) = <<- k, - k + i>>
    BY DEF Far, xOffset, yOffset
  <2>3. \A c \in Int, l \in Int : <<x, y>> \in Row(<<- k, c>>, 0, l)
            <=> y = c /\ x \in - k .. - k + l - 1
    BY <1>4, RowIs
  <2>4. w \in Block(n, d, m, e, K) <=> \E i \in 0 .. K - 1 : y = - k + i /\ x \in - k .. - k + m - 1
    <3>1. \A i \in 0 .. K - 1 : - k + i \in Int
      OBVIOUS
    <3> QED
      BY <1>2, <1>3, <1>4, <2>1, <2>2, <2>3, <3>1
  <2>5. w \in Row(Far(n, e, K), d, j - 1) <=> y = k /\ x \in - k .. - k + (j - 1) - 1
    <3>1. Far(n, e, K) = <<- k, k>>
      BY <1>4, <2>1, <2>2
    <3>2. w \in Row(<<- k, k>>, d, j - 1) <=> y = k /\ x \in - k .. - k + (j - 1) - 1
      BY <1>1, <1>4, <2>1, <2>3
    <3> QED
      BY <3>1, <3>2
  <2>6. (\E i \in 0 .. K - 1 : y = - k + i /\ x \in - k .. - k + m - 1)
          <=> y - (- k) \in 0 .. K - 1 /\ x \in - k .. - k + m - 1
    <3>1. y - (- k) \in Int
      OBVIOUS
    <3> QED
      BY <1>4, <3>1
  <2> QED
    BY <1>1, <1>8, <2>1, <2>4, <2>5, <2>6 DEF SquareFilled
<1> QED
  BY <1>5, <1>6, <1>7, <1>8

\* The triangle with the seed at a vertex.
LEMMA ConeFigure ==
  ASSUME NEW k \in Nat \ {0}, NEW s \in 0..1, NEW j \in 1..ConeLength(k, s), NEW w \in Node,
         NEW K, K = 2 * k - 1 + s,
         NEW n, n = <<0, 0>>,
         NEW d, d = s, NEW e, e = 1 - s,
         NEW b, b = IF s = 0 THEN 2 ELSE 5
  PROVE  ConeFilled(k, s, j, w) <=> w \in Triangle(n, d, e, K) \cup Row(Far(n, d, K), b, j - 1)
<1>1. PICK x \in Int, y \in Int : w = <<x, y>>
  BY DEF Node
<1>2. w \in Triangle(n, d, e, K) <=> \E i \in 0 .. K - 1 : <<x, y>> \in Row(Far(n, e, i), d, K - i)
  BY <1>1 DEF Triangle
<1>3. \A i \in 0 .. K - 1 : i \in Int /\ K - i \in Int
  OBVIOUS
<1>4. K \in Nat \ {0} /\ j - 1 \in Int
  OBVIOUS
<1>5. CASE s = 0
  <2>1. n = <<0, 0>> /\ d = 0 /\ e = 1 /\ b = 2 /\ K = 2 * k - 1
    BY <1>5
  <2>2. \A i \in Int : /\ Far(<<0, 0>>, 1, i) = <<0, i>>
                      /\ 0 \in Int /\ i \in Int
    BY DEF Far, xOffset, yOffset
  <2>3. \A u \in Int, v \in Int, l \in Int : <<x, y>> \in Row(<<u, v>>, 0, l)
            <=> y = v /\ x \in u .. u + l - 1
    BY RowIs
  <2>4. w \in Triangle(n, d, e, K) <=> \E i \in 0 .. K - 1 : y = i /\ x \in 0 .. 0 + (K - i) - 1
    <3>1. ASSUME NEW i \in 0 .. K - 1
          PROVE  <<x, y>> \in Row(Far(n, e, i), d, K - i) <=> y = i /\ x \in 0 .. 0 + (K - i) - 1
      <4>1. Far(n, e, i) = <<0, i>> /\ 0 \in Int /\ i \in Int
        BY <1>3, <2>1, <2>2
      <4> QED
        BY <1>3, <2>1, <2>3, <4>1
    <3> QED
      BY <1>2, <3>1
  <2>5. w \in Row(Far(n, d, K), b, j - 1) <=> x + y = K + 0 /\ x \in K - (j - 1) + 1 .. K
    <3>1. Far(<<0, 0>>, 0, K) = <<K, 0>> /\ K \in Int /\ 0 \in Int
      BY <2>1 DEF Far, xOffset, yOffset
    <3> QED
      BY <1>1, <1>4, <2>1, <3>1, RowIs
  <2>6. (\E i \in 0 .. K - 1 : y = i /\ x \in 0 .. 0 + (K - i) - 1)
          <=> y \in 0 .. K - 1 /\ x \in 0 .. 0 + (K - y) - 1
    <3>1. y \in Int
      OBVIOUS
    <3> QED
      BY <1>4, <3>1
  <2> QED
    BY <1>1, <1>5, <2>1, <2>4, <2>5, <2>6 DEF ConeFilled, ConeLength
<1>6. CASE s = 1
  <2>1. n = <<0, 0>> /\ d = 1 /\ e = 0 /\ b = 5 /\ K = 2 * k
    BY <1>6
  <2>2. \A i \in Int : /\ Far(<<0, 0>>, 0, i) = <<i, 0>>
                      /\ i \in Int /\ 0 \in Int
    BY DEF Far, xOffset, yOffset
  <2>3. \A u \in Int, v \in Int, l \in Int : <<x, y>> \in Row(<<u, v>>, 1, l)
            <=> x = u /\ y \in v .. v + l - 1
    BY RowIs
  <2>4. w \in Triangle(n, d, e, K) <=> \E i \in 0 .. K - 1 : x = i /\ y \in 0 .. 0 + (K - i) - 1
    <3>1. ASSUME NEW i \in 0 .. K - 1
          PROVE  <<x, y>> \in Row(Far(n, e, i), d, K - i) <=> x = i /\ y \in 0 .. 0 + (K - i) - 1
      <4>1. Far(n, e, i) = <<i, 0>> /\ i \in Int /\ 0 \in Int
        BY <1>3, <2>1, <2>2
      <4> QED
        BY <1>3, <2>1, <2>3, <4>1
    <3> QED
      BY <1>2, <3>1
  <2>5. w \in Row(Far(n, d, K), b, j - 1) <=> x + y = 0 + K /\ x \in 0 .. 0 + (j - 1) - 1
    <3>1. Far(<<0, 0>>, 1, K) = <<0, K>> /\ 0 \in Int /\ K \in Int
      BY <2>1 DEF Far, xOffset, yOffset
    <3> QED
      BY <1>1, <1>4, <2>1, <3>1, RowIs
  <2>6. (\E i \in 0 .. K - 1 : x = i /\ y \in 0 .. 0 + (K - i) - 1)
          <=> x \in 0 .. K - 1 /\ y \in 0 .. 0 + (K - x) - 1
    <3>1. x \in Int
      OBVIOUS
    <3> QED
      BY <1>4, <3>1
  <2> QED
    BY <1>1, <1>6, <2>1, <2>4, <2>5, <2>6 DEF ConeFilled, ConeLength
<1> QED
  BY <1>5, <1>6


\* The triangle that goes round the seed.
LEMMA SpiralFigure ==
  ASSUME NEW k \in Nat \ {0}, NEW s \in 0..2, NEW j \in 1..SpiralLength(k, s), NEW w \in Node,
         NEW K, K = 3 * k - 2 + s,
         NEW n, n = << <<2 - 2 * k, k - 1>>, <<k, k - 1>>, <<k, - 2 * k>> >>[s + 1],
         NEW d, d = <<0, 4, 2>>[s + 1], NEW e, e = <<5, 3, 1>>[s + 1],
         NEW b, b = <<4, 2, 0>>[s + 1]
  PROVE  SpiralFilled(k, s, j, w) <=> w \in Triangle(n, d, e, K) \cup Row(Far(n, d, K), b, j - 1)
<1>1. PICK x \in Int, y \in Int : w = <<x, y>>
  BY DEF Node
<1>2. w \in Triangle(n, d, e, K) <=> \E i \in 0 .. K - 1 : <<x, y>> \in Row(Far(n, e, i), d, K - i)
  BY <1>1 DEF Triangle
<1>3. \A i \in 0 .. K - 1 : i \in Int /\ K - i \in Int
  OBVIOUS
<1>4. K \in Nat \ {0} /\ j - 1 \in Int
  OBVIOUS
<1>5. CASE s = 0
  <2>1. n = <<2 - 2 * k, k - 1>> /\ d = 0 /\ e = 5 /\ b = 4 /\ K = 3 * k - 2
    BY <1>5
  <2>2. \A i \in Int : /\ Far(<<2 - 2 * k, k - 1>>, 5, i) = <<2 - 2 * k + i, k - 1 - i>>
                      /\ 2 - 2 * k + i \in Int /\ k - 1 - i \in Int
    BY DEF Far, xOffset, yOffset
  <2>3. \A u \in Int, v \in Int, l \in Int : <<x, y>> \in Row(<<u, v>>, 0, l)
            <=> y = v /\ x \in u .. u + l - 1
    BY RowIs
  <2>4. w \in Triangle(n, d, e, K)
            <=> \E i \in 0 .. K - 1 : y = (k - 1 - i) /\ x \in (2 - 2 * k + i) .. (2 - 2 * k + i) + (K - i) - 1
    <3>1. ASSUME NEW i \in 0 .. K - 1
          PROVE  <<x, y>> \in Row(Far(n, e, i), d, K - i)
                     <=> y = (k - 1 - i) /\ x \in (2 - 2 * k + i) .. (2 - 2 * k + i) + (K - i) - 1
      <4>1. Far(n, e, i) = <<2 - 2 * k + i, k - 1 - i>> /\ 2 - 2 * k + i \in Int /\ k - 1 - i \in Int
        BY <1>3, <2>1, <2>2
      <4> QED
        BY <1>3, <2>1, <2>3, <4>1
    <3> QED
      BY <1>2, <3>1
  <2>5. w \in Row(Far(n, d, K), b, j - 1) <=> x = k /\ y \in (k - 1) - (j - 1) + 1 .. (k - 1)
    <3>1. Far(<<2 - 2 * k, k - 1>>, 0, K) = <<k, k - 1>> /\ k \in Int /\ k - 1 \in Int
      BY <2>1 DEF Far, xOffset, yOffset
    <3>2. \A u \in Int, v \in Int : <<x, y>> \in Row(<<u, v>>, 4, j - 1)
              <=> x = u /\ y \in v - (j - 1) + 1 .. v
      BY <1>4, RowIs
    <3> QED
      BY <1>1, <2>1, <3>1, <3>2
  <2>6. (\E i \in 0 .. K - 1 : y = (k - 1 - i) /\ x \in (2 - 2 * k + i) .. (2 - 2 * k + i) + (K - i) - 1)
         
              <=> k - 1 - y \in 0 .. K - 1 /\ x \in (2 - 2 * k + (k - 1 - y)) .. (2 - 2 * k + (k - 1 - y)) + (K - (k - 1 - y)) - 1
    <3>1. k - 1 - y \in Int
      OBVIOUS
    <3> QED
      BY <1>4, <3>1
  <2> QED
    BY <1>1, <1>5, <2>1, <2>4, <2>5, <2>6 DEF SpiralFilled, SpiralLength
<1>6. CASE s = 1
  <2>1. n = <<k, k - 1>> /\ d = 4 /\ e = 3 /\ b = 2 /\ K = 3 * k - 1
    BY <1>6
  <2>2. \A i \in Int : /\ Far(<<k, k - 1>>, 3, i) = <<k - i, k - 1>>
                      /\ k - i \in Int /\ k - 1 \in Int
    BY DEF Far, xOffset, yOffset
  <2>3. \A u \in Int, v \in Int, l \in Int : <<x, y>> \in Row(<<u, v>>, 4, l)
            <=> x = u /\ y \in v - l + 1 .. v
    BY RowIs
  <2>4. w \in Triangle(n, d, e, K)
            <=> \E i \in 0 .. K - 1 : x = (k - i) /\ y \in (k - 1) - (K - i) + 1 .. (k - 1)
    <3>1. ASSUME NEW i \in 0 .. K - 1
          PROVE  <<x, y>> \in Row(Far(n, e, i), d, K - i)
                     <=> x = (k - i) /\ y \in (k - 1) - (K - i) + 1 .. (k - 1)
      <4>1. Far(n, e, i) = <<k - i, k - 1>> /\ k - i \in Int /\ k - 1 \in Int
        BY <1>3, <2>1, <2>2
      <4> QED
        BY <1>3, <2>1, <2>3, <4>1
    <3> QED
      BY <1>2, <3>1
  <2>5. w \in Row(Far(n, d, K), b, j - 1) <=> x + y = k + (- 2 * k) /\ x \in k - (j - 1) + 1 .. k
    <3>1. Far(<<k, k - 1>>, 4, K) = <<k, - 2 * k>> /\ k \in Int /\ - 2 * k \in Int
      BY <2>1 DEF Far, xOffset, yOffset
    <3>2. \A u \in Int, v \in Int : <<x, y>> \in Row(<<u, v>>, 2, j - 1)
              <=> x + y = u + v /\ x \in u - (j - 1) + 1 .. u
      BY <1>4, RowIs
    <3> QED
      BY <1>1, <2>1, <3>1, <3>2
  <2>6. (\E i \in 0 .. K - 1 : x = (k - i) /\ y \in (k - 1) - (K - i) + 1 .. (k - 1))
          <=> k - x \in 0 .. K - 1 /\ y \in (k - 1) - (K - (k - x)) + 1 .. (k - 1)
    <3>1. k - x \in Int
      OBVIOUS
    <3> QED
      BY <1>4, <3>1
  <2> QED
    BY <1>1, <1>6, <2>1, <2>4, <2>5, <2>6 DEF SpiralFilled, SpiralLength
<1>7. CASE s = 2
  <2>1. n = <<k, - 2 * k>> /\ d = 2 /\ e = 1 /\ b = 0 /\ K = 3 * k
    BY <1>7
  <2>2. \A i \in Int : /\ Far(<<k, - 2 * k>>, 1, i) = <<k, - 2 * k + i>>
                      /\ k \in Int /\ - 2 * k + i \in Int
    BY DEF Far, xOffset, yOffset
  <2>3. \A u \in Int, v \in Int, l \in Int : <<x, y>> \in Row(<<u, v>>, 2, l)
            <=> x + y = u + v /\ x \in u - l + 1 .. u
    BY RowIs
  <2>4. w \in Triangle(n, d, e, K)
            <=> \E i \in 0 .. K - 1 : x + y = k + (- 2 * k + i) /\ x \in k - (K - i) + 1 .. k
    <3>1. ASSUME NEW i \in 0 .. K - 1
          PROVE  <<x, y>> \in Row(Far(n, e, i), d, K - i)
                     <=> x + y = k + (- 2 * k + i) /\ x \in k - (K - i) + 1 .. k
      <4>1. Far(n, e, i) = <<k, - 2 * k + i>> /\ k \in Int /\ - 2 * k + i \in Int
        BY <1>3, <2>1, <2>2
      <4> QED
        BY <1>3, <2>1, <2>3, <4>1
    <3> QED
      BY <1>2, <3>1
  <2>5. w \in Row(Far(n, d, K), b, j - 1) <=> y = k /\ x \in (- 2 * k) .. (- 2 * k) + (j - 1) - 1
    <3>1. Far(<<k, - 2 * k>>, 2, K) = <<- 2 * k, k>> /\ - 2 * k \in Int /\ k \in Int
      BY <2>1 DEF Far, xOffset, yOffset
    <3>2. \A u \in Int, v \in Int : <<x, y>> \in Row(<<u, v>>, 0, j - 1)
              <=> y = v /\ x \in u .. u + (j - 1) - 1
      BY <1>4, RowIs
    <3> QED
      BY <1>1, <2>1, <3>1, <3>2
  <2>6. (\E i \in 0 .. K - 1 : x + y = k + (- 2 * k + i) /\ x \in k - (K - i) + 1 .. k)
          <=> x + y + k \in 0 .. K - 1 /\ x \in k - (K - (x + y + k)) + 1 .. k
    <3>1. x + y + k \in Int
      OBVIOUS
    <3> QED
      BY <1>4, <3>1
  <2> QED
    BY <1>1, <1>7, <2>1, <2>4, <2>5, <2>6 DEF SpiralFilled, SpiralLength
<1> QED
  BY <1>5, <1>6, <1>7

\* Each holds the node its rows start from.
LEMMA CornerIn ==
  ASSUME NEW n \in Node, NEW d \in Dir, NEW e \in Dir, NEW m \in Nat \ {0}, NEW l \in Nat \ {0}
  PROVE  n \in Block(n, d, m, e, l) /\ n \in Triangle(n, d, e, l)
<1>1. n = Far(n, e, 0) /\ n = Far(n, d, 0)
  BY FarNowhere
<1>2. n \in Row(n, d, m) /\ n \in Row(n, d, l - 0)
  BY <1>1 DEF Row
<1>3. 0 \in 0 .. l - 1
  OBVIOUS
<1> QED
  BY <1>1, <1>2, <1>3 DEF Block, Triangle

\* A set that is a stage of one of them, turned, is the figure.
LEMMA SquareIs ==
  ASSUME NEW f, NEW h, Symmetry(f, h, 1), NEW S \in SUBSET Node, Cardinality(S) \in Nat,
         NEW k \in Nat \ {0}, NEW s \in 0..3, NEW j \in 1..SquareLength(k, s),
         \A w \in Node : w \in S <=> SquareFilled(k, s, j, f[w]),
         2 * Cardinality(S) = SquareTwice(k, s, j)
  PROVE  IsSquare(S)
<1> DEFINE size == Cardinality(S)
           K == IF s <= 1 THEN 2 * k - 1 ELSE 2 * k
           m == IF s = 0 THEN 2 * k - 1 ELSE IF s = 3 THEN 2 * k + 1 ELSE 2 * k
           n == << <<1 - k, k - 1>>, <<k, k - 1>>, <<k, - k>>, <<- k, - k>> >>[s + 1]
           d == <<4, 3, 1, 0>>[s + 1]
           e == <<0, 4, 3, 1>>[s + 1]
           turn == <<2, 1, 2, 1>>[s + 1]
           added == j - 1
<1>1. s = 0 \/ s = 1 \/ s = 2 \/ s = 3
  OBVIOUS
<1>2. d \in Dir /\ e \in Dir /\ turn \in {1, 2, 4, 5} /\ e = (d + turn) % 6
  BY <1>1 DEF Dir
<1>3. n \in Node
  <2>1. 1 - k \in Int /\ k - 1 \in Int /\ k \in Int /\ - k \in Int
    OBVIOUS
  <2>2. \A u, v \in Int : <<u, v>> \in Node
    BY DEF Node
  <2> QED
    BY <1>1, <2>1, <2>2
<1>4. K \in Nat \ {0} /\ m \in Nat \ {0} /\ m \in K .. K + 1 /\ added \in 0 .. m - 1
  BY <1>1 DEF SquareLength
<1>5. K * K <= size
  <2>1. size = (2 * k - 1) * (2 * k - 1) + <<0, 2 * k - 1, 4 * k - 1, 6 * k - 1>>[s + 1] + j - 1
    BY <1>1 DEF SquareTwice
  <2>2. (2 * k) * (2 * k) = (2 * k - 1) * (2 * k - 1) + (4 * k - 1)
    OBVIOUS
  <2>3. (2 * k - 1) * (2 * k - 1) \in Nat /\ (2 * k) * (2 * k) \in Nat
    OBVIOUS
  <2> HIDE DEF size
  <2>4. CASE s = 0 \/ s = 1
    BY <2>1, <2>3, <2>4
  <2>5. CASE s = 2 \/ s = 3
    BY <2>1, <2>2, <2>3, <2>5
  <2> QED
    BY <1>1, <2>4, <2>5
<1>6. K \in 1 .. size
  <2> HIDE DEF K, size
  <2>1. K * K >= K
    BY <1>4, Squares
  <2> QED
    BY <1>4, <1>5, <2>1 DEF size
<1>7. ASSUME NEW w \in Node
      PROVE  w \in S <=> f[w] \in Block(n, d, m, e, K) \cup Row(Far(n, e, K), d, added)
  <2>1. f[w] \in Node
    BY DEF Symmetry
  <2> QED
    BY <2>1, SquareFigure
<1> HIDE DEF K, m, n, d, e, turn, added
<1>8. n \in Block(n, d, m, e, K)
  BY <1>2, <1>3, <1>4, CornerIn
<1> QED
  BY <1>2, <1>3, <1>4, <1>5, <1>6, <1>7, <1>8, SquareAlike DEF size

\* The same of the triangle of mode t1.
LEMMA ConeIs ==
  ASSUME NEW f, NEW h, Symmetry(f, h, 1), NEW S \in SUBSET Node, Cardinality(S) \in Nat,
         NEW k \in Nat \ {0}, NEW s \in 0..1, NEW j \in 1..ConeLength(k, s),
         \A w \in Node : w \in S <=> ConeFilled(k, s, j, f[w]),
         2 * Cardinality(S) = ConeTwice(k, s, j)
  PROVE  IsTriangle(S)
<1> DEFINE size == Cardinality(S)
           K == 2 * k - 1 + s
           n == <<0, 0>>
           d == s
           e == 1 - s
           b == IF s = 0 THEN 2 ELSE 5
           turn == IF s = 0 THEN 1 ELSE 5
           added == j - 1
<1>1. s = 0 \/ s = 1
  OBVIOUS
<1>2. d \in Dir /\ e \in Dir /\ turn \in {1, 5} /\ e = (d + turn) % 6 /\ b = (d + 2 * turn) % 6
  BY <1>1 DEF Dir
<1>3. n \in Node
  BY DEF Node
<1>4. K \in Nat \ {0} /\ added \in 0 .. K
  BY <1>1 DEF ConeLength
<1>5. 2 * size = K * (K + 1) + 2 * added
  <2>1. K + 1 = 2 * k + s
    OBVIOUS
  <2> QED
    BY <2>1 DEF ConeTwice
<1>6. ASSUME NEW w \in Node
      PROVE  w \in S <=> f[w] \in Triangle(n, d, e, K) \cup Row(Far(n, d, K), b, added)
  <2>1. f[w] \in Node
    BY DEF Symmetry
  <2> QED
    BY <2>1, ConeFigure
<1> HIDE DEF size, K, n, d, e, b, turn, added
<1>7. K * (K + 1) <= 2 * size /\ K \in 1 .. size
  <2>1. K * K >= K /\ K * K \in Nat /\ K * (K + 1) = K * K + K
    BY <1>4, Squares
  <2> QED
    BY <1>4, <1>5, <2>1 DEF size
<1>8. n \in Triangle(n, d, e, K)
  BY <1>2, <1>3, <1>4, CornerIn
<1> QED
  BY <1>2, <1>3, <1>4, <1>6, <1>7, <1>8, TriangleAlike DEF size

\* The same of the triangle of mode t2.
LEMMA SpiralIs ==
  ASSUME NEW f, NEW h, Symmetry(f, h, 1), NEW S \in SUBSET Node, Cardinality(S) \in Nat,
         NEW k \in Nat \ {0}, NEW s \in 0..2, NEW j \in 1..SpiralLength(k, s),
         \A w \in Node : w \in S <=> SpiralFilled(k, s, j, f[w]),
         2 * Cardinality(S) = SpiralTwice(k, s, j)
  PROVE  IsTriangle(S)
<1> DEFINE size == Cardinality(S)
           K == 3 * k - 2 + s
           n == << <<2 - 2 * k, k - 1>>, <<k, k - 1>>, <<k, - 2 * k>> >>[s + 1]
           d == <<0, 4, 2>>[s + 1]
           e == <<5, 3, 1>>[s + 1]
           b == <<4, 2, 0>>[s + 1]
           turn == 5
           added == j - 1
<1>1. s = 0 \/ s = 1 \/ s = 2
  OBVIOUS
<1>2. d \in Dir /\ e \in Dir /\ turn \in {1, 5} /\ e = (d + turn) % 6 /\ b = (d + 2 * turn) % 6
  BY <1>1 DEF Dir
<1>3. n \in Node
  <2>1. 2 - 2 * k \in Int /\ k - 1 \in Int /\ k \in Int /\ - 2 * k \in Int
    OBVIOUS
  <2>2. \A u, v \in Int : <<u, v>> \in Node
    BY DEF Node
  <2> QED
    BY <1>1, <2>1, <2>2
<1>4. K \in Nat \ {0} /\ added \in 0 .. K
  BY <1>1 DEF SpiralLength
<1>5. 2 * size = K * (K + 1) + 2 * added
  <2>1. K + 1 = 3 * k - 1 + s
    OBVIOUS
  <2> QED
    BY <2>1 DEF SpiralTwice
<1>6. ASSUME NEW w \in Node
      PROVE  w \in S <=> f[w] \in Triangle(n, d, e, K) \cup Row(Far(n, d, K), b, added)
  <2>1. f[w] \in Node
    BY DEF Symmetry
  <2> QED
    BY <2>1, SpiralFigure
<1> HIDE DEF size, K, n, d, e, b, turn, added
<1>7. K * (K + 1) <= 2 * size /\ K \in 1 .. size
  <2>1. K * K >= K /\ K * K \in Nat /\ K * (K + 1) = K * K + K
    BY <1>4, Squares
  <2> QED
    BY <1>4, <1>5, <2>1 DEF size
<1>8. n \in Triangle(n, d, e, K)
  BY <1>2, <1>3, <1>4, CornerIn
<1> QED
  BY <1>2, <1>3, <1>4, <1>6, <1>7, <1>8, TriangleAlike DEF size

\* A set whose image is an interval is a line.
LEMMA LineIs ==
  ASSUME NEW f, NEW h, Symmetry(f, h, 1), NEW S \in SUBSET Node,
         NEW lo \in Int, NEW hi \in Int, lo <= 0, 0 <= hi,
         \A w \in Node : w \in S <=> f[w][2] = 0 /\ f[w][1] \in lo .. hi,
         Cardinality(S) = hi - lo + 1
  PROVE  IsLine(S)
<1> DEFINE m == hi - lo + 1
           n == <<lo, 0>>
<1>1. m \in 1 .. Cardinality(S) /\ n \in Node /\ 0 \in Dir
  BY DEF Node, Dir
<1>2. ASSUME NEW w \in Node PROVE w \in S <=> f[w] \in Row(n, 0, m)
  <2>1. f[w] \in Node
    BY DEF Symmetry
  <2>2. PICK x \in Int, y \in Int : f[w] = <<x, y>>
    BY <2>1 DEF Node
  <2>3. <<x, y>> \in Row(<<lo, 0>>, 0, m) <=> y = 0 /\ x \in lo .. lo + m - 1
    BY RowIs
  <2> QED
    BY <2>2, <2>3
<1> HIDE DEF m, n
<1> QED
  BY <1>1, <1>2, LineAlike

\* The shape is the figure, turned.
LEMMA ShapeTurned ==
  ASSUME Core, NEW f, f = [n \in Node |-> Rotated(Compass, n)]
  PROVE  /\ \E h : Symmetry(f, h, 1)
         /\ Shape \in SUBSET Node
         /\ \A w \in Node : f[w] = Seen(w) /\ f[w] \in Node
         /\ f[<<0, 0>>] = <<0, 0>>
         /\ \A l \in Nat, w \in Node : w \in Ball(l) <=> f[w] \in Ball(l)
<1>1. Compass \in Dir
  BY SeenNode
<1>2. \A w \in Node : f[w] = Rotated(Compass, w)
  OBVIOUS
<1>3. Symmetry(f, [d \in Dir |-> (Compass + d) % 6], 1)
  <2> HIDE DEF Compass
  <2> QED
    BY <1>1, TurnedSymmetry
<1>4. \A w \in Node : f[w] = Seen(w) /\ f[w] \in Node
  BY <1>2, SeenNode DEF Seen
<1>5. f[<<0, 0>>] = <<0, 0>>
  <2>1. <<0, 0>> \in Node
    BY DEF Node
  <2> QED
    BY <1>4, <2>1, SeenNode
<1>6. ASSUME NEW l \in Nat, NEW w \in Node PROVE w \in Ball(l) <=> f[w] \in Ball(l)
  BY <1>1, <1>2, BallTurned
<1> QED
  BY <1>3, <1>4, <1>5, <1>6, ShapeNodes

\* In every mode the shape is its figure.
LEMMA GrownFull == Core /\ Grown => FigureIsFull
<1> SUFFICES ASSUME Core, Grown PROVE FigureIsFull
  OBVIOUS
<1>1. PICK f : f = [n \in Node |-> Rotated(Compass, n)]
  OBVIOUS
<1>2. /\ \E h : Symmetry(f, h, 1)
      /\ Shape \in SUBSET Node
      /\ \A w \in Node : f[w] = Seen(w) /\ f[w] \in Node
      /\ f[<<0, 0>>] = <<0, 0>>
      /\ \A l \in Nat, w \in Node : w \in Ball(l) <=> f[w] \in Ball(l)
  BY <1>1, ShapeTurned
<1>3. PICK h : Symmetry(f, h, 1)
  BY <1>2
<1>4. mode \in {"h", "s", "t1", "t2", "l"}
  BY DEF Core, Anchored
<1>5. CASE mode # "l"
  <2>1. PICK k, s, j : GrownAt(k, s, j)
    BY <1>5 DEF Grown
  <2>2. /\ k \in Nat \ {0} /\ s \in 0 .. EndSide(mode) /\ j \in 1 .. SideLength(mode, k, s)
        /\ \A w \in Node : w \in Shape <=> Filled(mode, k, s, j, f[w])
        /\ Cardinality(Shape) \in Nat /\ 2 * Cardinality(Shape) = Twice(mode, k, s, j)
    BY <1>2, <2>1, FS_CardinalityType DEF GrownAt, Stage
  <2>3. CASE mode = "h"
    <3>1. /\ s \in 0..5 /\ j \in 1 .. HexLength(k, s)
          /\ \A w \in Node : w \in Shape <=> HexFilled(k, s, j, f[w])
          /\ 2 * Cardinality(Shape) = HexTwice(k, s, j)
      BY <2>2, <2>3 DEF EndSide, SideLength, Filled, Twice
    <3>2. IsHexagon(Shape)
      BY <1>2, <1>3, <2>2, <3>1, HexagonIs
    <3> QED
      BY <2>3, <3>2 DEF FigureIsFull
  <2>4. CASE mode = "s"
    <3>1. /\ s \in 0..3 /\ j \in 1 .. SquareLength(k, s)
          /\ \A w \in Node : w \in Shape <=> SquareFilled(k, s, j, f[w])
          /\ 2 * Cardinality(Shape) = SquareTwice(k, s, j)
      BY <2>2, <2>4 DEF EndSide, SideLength, Filled, Twice
    <3>2. IsSquare(Shape)
      BY <1>2, <1>3, <2>2, <3>1, SquareIs
    <3> QED
      BY <2>4, <3>2 DEF FigureIsFull
  <2>5. CASE mode = "t1"
    <3>1. /\ s \in 0..1 /\ j \in 1 .. ConeLength(k, s)
          /\ \A w \in Node : w \in Shape <=> ConeFilled(k, s, j, f[w])
          /\ 2 * Cardinality(Shape) = ConeTwice(k, s, j)
      BY <2>2, <2>5 DEF EndSide, SideLength, Filled, Twice
    <3>2. IsTriangle(Shape)
      BY <1>2, <1>3, <2>2, <3>1, ConeIs
    <3> QED
      BY <2>5, <3>2 DEF FigureIsFull
  <2>6. CASE mode = "t2"
    <3>1. /\ s \in 0..2 /\ j \in 1 .. SpiralLength(k, s)
          /\ \A w \in Node : w \in Shape <=> SpiralFilled(k, s, j, f[w])
          /\ 2 * Cardinality(Shape) = SpiralTwice(k, s, j)
      BY <2>2, <2>6 DEF EndSide, SideLength, Filled, Twice
    <3>2. IsTriangle(Shape)
      BY <1>2, <1>3, <2>2, <3>1, SpiralIs
    <3> QED
      BY <2>6, <3>2 DEF FigureIsFull
  <2> QED
    BY <1>4, <1>5, <2>3, <2>4, <2>5, <2>6
<1>6. CASE mode = "l"
  <2>1. PICK lo, hi : LineAt(lo, hi)
    BY <1>6 DEF Grown
  <2>2. /\ lo \in Int /\ hi \in Int /\ lo <= 0 /\ 0 <= hi
        /\ \A w \in Node : w \in Shape <=> f[w][2] = 0 /\ f[w][1] \in lo .. hi
        /\ Cardinality(Shape) = hi - lo + 1
    BY <1>2, <2>1 DEF LineAt
  <2>3. IsLine(Shape)
    BY <1>2, <1>3, <2>2, LineIs
  <2> QED
    BY <1>6, <2>3 DEF FigureIsFull
<1> QED
  BY <1>5, <1>6

\* Whoever finishes when, in whatever order they are activated, the shape is
\* always the figure of its mode, filled node by node (FigureIsFull).
THEOREM FiguresCorrect == Spec => [](SignalsSet => FigureIsFull)
<1>1. IInv => (SignalsSet => FigureIsFull)
  BY GrownFull DEF IInv
<1> QED
  BY <1>1, ShapeInvCorrect, PTL DEF Spec

\* The same of every system that only takes steps of shape formation and has
\* the turn signals at zero.
THEOREM ShapeStepsCorrect ==
  Init /\ [][Next]_vars => [](FreshTurnSignal = {0} => ForestOnSurface /\ FigureIsFull)
<1>1. IInv => (FreshTurnSignal = {0} => ForestOnSurface /\ FigureIsFull)
  BY GrownOpen, CoreCorrect, GrownFull DEF IInv, SignalsSet
<1> QED
  BY <1>1, ShapeInvCorrect, PTL

=============================================================================
