------------------------------- MODULE Lattice -------------------------------
(***************************************************************************)
(* The triangular lattice the simulator lives on (core/node.h): a node is  *)
(* a pair of integer coordinates, and the six global directions are        *)
(* numbered counter-clockwise from east.                                   *)
(***************************************************************************)
EXTENDS Integers

Node == Int \X Int

Dir == 0..5

xOffset == <<1, 0, -1, -1,  0,  1>>
yOffset == <<0, 1,  1,  0, -1, -1>>

\* operator<: by x, then by y.
Before(m, n) == m[1] < n[1] \/ (m[1] = n[1] /\ m[2] < n[2])

\* The node adjacent to n in global direction d.
NodeInDir(n, d) == <<n[1] + xOffset[d + 1], n[2] + yOffset[d + 1]>>

\* The code writes (d + 3) % 6 wherever it turns round.
Opposite(d) == (d + 3) % 6

Nbrs(n) == {NodeInDir(n, d) : d \in Dir}

Adjacent(m, n) == n \in Nbrs(m)

NbrsOfSet(S) == (UNION {Nbrs(n) : n \in S}) \ S

\* S is one component: no part of it is cut off from the rest.
Connected(S) ==
  \A T \in SUBSET S : T # {} /\ T # S => \E m \in T, n \in S \ T : Adjacent(m, n)
=============================================================================
