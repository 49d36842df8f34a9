---------------------------- MODULE EnergyFramework ----------------------------
(***************************************************************************)
(* The energy distribution framework, which alg/edfhexagonformation.cpp    *)
(* and alg/edfleaderelectionbyerosion.cpp repeat word for word: what one   *)
(* activation does to the energy of all particles.  energy is a record of  *)
(* three functions: the state, the parent pointer (up, -1 for none) and    *)
(* the battery of each particle; children are those whose pointers lead to *)
(* p, and adopted gives the idle neighbours of p the pointers that would.  *)
(***************************************************************************)
EXTENDS Integers, FiniteSets

CONSTANTS
  Capacity,          \* _capacity, _transferRate and _demand of all particles
  TransferRate,
  Demand

ASSUME EnergyAssumption == {Capacity, TransferRate, Demand} \subseteq Nat \ {0} /\ Demand <= Capacity

EnergyStates == {"Source", "Idle", "Active", "Asking", "Growing", "Pruning"}

NewEnergy(sources, all) ==
  [state   |-> [p \in all |-> IF p \in sources THEN "Source" ELSE "Idle"],
   up      |-> [p \in all |-> -1],
   battery |-> [p \in all |-> 0]]

\* The condition on every action of the algorithm that runs on the framework.
MaySpend(p, energy, nbrs) ==
  /\ energy.battery[p] >= Demand
  /\ energy.state[p] \notin {"Idle", "Pruning"}
  /\ \A q \in nbrs : energy.state[q] \notin {"Idle", "Pruning"}

Spent(p, energy) == [energy EXCEPT !.battery[p] = @ - Demand]

\* prune()
Pruned(p, energy, children) ==
  [energy EXCEPT
    !.state = [q \in DOMAIN @ |-> IF q \in children THEN "Pruning"
                                  ELSE IF q = p /\ @[p] # "Source" THEN "Idle" ELSE @[q]],
    !.up    = [q \in DOMAIN @ |-> IF q \in children THEN -1 ELSE @[q]]]

AfterGetPruned(p, energy, children) ==
  IF energy.state[p] = "Pruning" THEN Pruned(p, energy, children) ELSE energy

AfterAskGrowth(p, energy, wanted) ==
  IF energy.state[p] = "Active" /\ wanted THEN [energy EXCEPT !.state[p] = "Asking"] ELSE energy

\* Mutant: a source does not answer the children that ask.
AfterGrowForestDeaf(p, energy, adopted, asking) ==
  IF energy.state[p] = "Growing" \/ (energy.state[p] = "Source" /\ DOMAIN adopted # {})
  THEN [energy EXCEPT
         !.state = [q \in DOMAIN @ |->
                      IF q \in DOMAIN adopted \/ (q = p /\ @[p] = "Growing") THEN "Active"
                      ELSE IF q \in asking THEN "Growing" ELSE @[q]],
         !.up    = [q \in DOMAIN @ |-> IF q \in DOMAIN adopted THEN adopted[q] ELSE @[q]]]
  ELSE energy

AfterGrowForest(p, energy, adopted, asking) ==
  IF \/ energy.state[p] = "Growing"
     \/ energy.state[p] = "Source" /\ DOMAIN adopted \cup asking # {}
  THEN [energy EXCEPT
         !.state = [q \in DOMAIN @ |->
                      IF q \in DOMAIN adopted \/ (q = p /\ @[p] = "Growing") THEN "Active"
                      ELSE IF q \in asking THEN "Growing" ELSE @[q]],
         !.up    = [q \in DOMAIN @ |-> IF q \in DOMAIN adopted THEN adopted[q] ELSE @[q]]]
  ELSE energy

AfterHarvest(p, energy) ==
  IF energy.state[p] = "Source" /\ energy.battery[p] < Capacity
  THEN [energy EXCEPT !.battery[p] = @ + TransferRate] ELSE energy

\* All that the distribution of one activation can lead to.  The sets of
\* neighbours are found before the first of its steps; the child that gets
\* energy is drawn at random.
Distributed(p, energy, children, adopted) ==
  LET asking  == {q \in children : energy.state[q] = "Asking"}
      nonFull == {q \in children : energy.battery[q] < Capacity}
      pruned  == AfterGetPruned(p, energy, children)
      asked   == AfterAskGrowth(p, pruned, DOMAIN adopted \cup asking # {})
      filled  == AfterHarvest(p, AfterGrowForest(p, asked, adopted, asking))
      shares  == /\ filled.state[p] \notin {"Idle", "Pruning"}
                 /\ filled.battery[p] >= TransferRate
                 /\ nonFull # {}
  IN  IF shares
      THEN {[filled EXCEPT !.battery = [filled.battery EXCEPT ![p] = @ - TransferRate,
                                                              ![child] = @ + TransferRate]] :
              child \in nonFull}
      ELSE {filled}

\* Everybody is in the forest and has a full battery.
FullyCharged(energy) ==
  /\ \A p \in DOMAIN energy.state : energy.state[p] \notin {"Idle", "Pruning"}
  /\ \A p \in DOMAIN energy.battery : energy.battery[p] >= Capacity
=============================================================================
