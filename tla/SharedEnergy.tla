----------------------------- MODULE SharedEnergy -----------------------------
(***************************************************************************)
(* What alg/energyshape.cpp and alg/energysharing.cpp have in common: the  *)
(* energy that the roots of a spanning forest harvest and share along it,  *)
(* and the stress and inhibition that travel up and down.  e is the energy *)
(* of all particles, a record each: its state, the label of its parent, -1 *)
(* for none, the battery and two flags.                                    *)
(***************************************************************************)
EXTENDS Amoebots

CONSTANTS
  Capacity,          \* _capacity, _transferRate and _demand of all particles
  TransferRate,
  Demand

\* What an instance has to assume.
EnergyAssumption == {Capacity, TransferRate, Demand} \subseteq Nat \ {0} /\ Demand <= Capacity

Children(p, e) ==
  {q \in particles \ {p} : e[q].parentLabel # -1 /\ PointsAtMe(body[p], body[q], e[q].parentLabel)}

Starved(p, e) == e[p].battery < Demand \/ \E q \in Children(p, e) : e[q].stress

\* communicate()
Communicated(p, e) ==
  IF e[p].state = "Root"
  THEN [e EXCEPT ![p].inhibit = Starved(p, e)]
  ELSE [e EXCEPT ![p].stress = Starved(p, e),
                 ![p].inhibit = e[NbrAtLabel(p, e[p].parentLabel)].inhibit]

Least(a, b) == IF a <= b THEN a ELSE b

\* shareEnergy(): first a root harvests; then a child is drawn.
Harvested(p, e) ==
  IF e[p].state = "Root" THEN [e EXCEPT ![p].battery = Least(@ + TransferRate, Capacity)] ELSE e

Needy(p, e) == {q \in Children(p, e) : e[p].battery >= TransferRate /\ e[q].battery < Capacity}

SharedWith(p, e, child) ==
  LET amount == Least(TransferRate, Capacity - e[child].battery)
  IN  [e EXCEPT ![p].battery = @ - amount, ![child].battery = @ + amount]

\* The outcomes of communicate() and shareEnergy().
AfterSharing(p, e) ==
  LET harvested == Harvested(p, Communicated(p, e))
  IN  IF Needy(p, harvested) = {} THEN {harvested}
      ELSE {SharedWith(p, harvested, child) : child \in Needy(p, harvested)}

Paid(p, e) == [e EXCEPT ![p].battery = @ - Demand]
=============================================================================
