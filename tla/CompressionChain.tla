--------------------------- MODULE CompressionChain ---------------------------
(***************************************************************************)
(* The Markov chain that compression simulates, as its possible moves: one *)
(* particle at a time jumps to an adjacent free node, when the particles   *)
(* around the two nodes hang together without it and no hole can form.     *)
(* Compression is shown to implement this.                                 *)
(***************************************************************************)
EXTENDS Lattice, FiniteSets

CONSTANT Starts     \* the configurations it can start in

VARIABLE settled    \* the occupied nodes

vars == <<settled>>

Common(n, m) == Nbrs(n) \cap Nbrs(m) \cap settled
Around(n, m) == NbrsOfSet({n, m}) \cap settled

\* Each particle around n and m is linked, around them, to one next to both.
Property1(n, m) ==
  /\ Common(n, m) # {}
  /\ \A T \in SUBSET (Around(n, m) \ Common(n, m)) :
       T # {} => \E a \in T, b \in Around(n, m) \ T : Adjacent(a, b)

\* None is next to both; those next to n hang together, and those next to m.
Property2(n, m) ==
  /\ Common(n, m) = {}
  /\ \A end \in {n, m} :
       LET near == (Nbrs(end) \cap settled) \ {n}
       IN  near # {} /\ Connected(near)

Init == settled \in Starts

Jump(n, m) ==
  /\ m \notin settled
  /\ Cardinality(Nbrs(n) \cap settled) # 5
  /\ Property1(n, m) \/ Property2(n, m)
  /\ settled' = (settled \ {n}) \cup {m}

Next == \E n \in settled : \E m \in Nbrs(n) : Jump(n, m)

Spec == Init /\ [][Next]_vars
=============================================================================
