----------------------------- MODULE EnergySharing -----------------------------
(***************************************************************************)
(* alg/energysharing.cpp: particles that never move share energy along a   *)
(* spanning forest and use it, either just so (Uniform) or for the         *)
(* insertion of a new particle next to them (Reproduce).                   *)
(***************************************************************************)
EXTENDS SharedEnergy, Sequences

CONSTANTS
  Starts,            \* the nodes the constructor fills, in the order of the numbers
  Compasses,         \* its draws of randDir(), one direction per particle
  Orientation,       \* the draws of randDir() for a new particle
  EnergyRoots,       \* the sets of particles that may be the energy roots
  Usages,
  MaxParticles       \* bound on the reproduction

\* What an instance has to assume.
StartsAssumption ==
  /\ Orientation \subseteq Dir
  /\ \A places \in Starts :
       /\ places \in Seq(Node)
       /\ \A i, j \in 1 .. Len(places) : places[i] = places[j] => i = j
       /\ \A compass \in Compasses : \A p \in 1 .. Len(places) : compass[p] \in Dir

VARIABLES
  usage,             \* _usage of all particles
  energy             \* the other members of each particle

vars == <<body, objects, usage, energy>>

NewBody(node, compass) == [head |-> node, globalTailDir |-> -1, orientation |-> compass]
NewEnergy(state) ==
  [state |-> state, parentLabel |-> -1, battery |-> 0, stress |-> FALSE, inhibit |-> FALSE]

Init ==
  /\ objects = {}
  /\ usage \in Usages
  /\ \E places \in Starts, compass \in Compasses, roots \in EnergyRoots :
       /\ roots \subseteq 1 .. Len(places)
       /\ body = [p \in 1 .. Len(places) |-> NewBody(places[p], compass[p])]
       /\ energy = [p \in 1 .. Len(places) |-> NewEnergy(IF p \in roots THEN "Root" ELSE "Idle")]

InForest == {p \in particles : energy[p].state \in {"Root", "Active"}}

Join(p) ==
  /\ energy[p].state = "Idle"
  /\ LabelsOfNbrs(p, InForest) # {}
  /\ energy' = [energy EXCEPT ![p].state = "Active",
                              ![p].parentLabel = LabelOfFirstNbr(p, InForest, 0)]
  /\ UNCHANGED <<body, objects, usage>>

\* The directions to reproduce in.
FreeDirs(p) == {d \in Dir : ~ HasNbrAtLabel(p, d)}

\* Mutant: the inhibition is not heeded.
MayUseInhibited(p, e) ==
  /\ e[p].battery >= Demand
  /\ usage = "Reproduce" => FreeDirs(p) # {}

MayUse(p, e) ==
  /\ ~ e[p].inhibit
  /\ e[p].battery >= Demand
  /\ usage = "Reproduce" => FreeDirs(p) # {}

Save(p, e) ==
  /\ ~ MayUse(p, e)
  /\ energy' = e
  /\ UNCHANGED <<body, objects, usage>>

Spend(p, e) ==
  /\ usage = "Uniform"
  /\ MayUse(p, e)
  /\ energy' = Paid(p, e)
  /\ UNCHANGED <<body, objects, usage>>

\* insert(), of what the system knows of a particle
Inserted(f, child, value) == [p \in DOMAIN f \cup {child} |-> IF p = child THEN value ELSE f[p]]

\* In the first free direction; the new particle is the last of the system.
Reproduce(p, e) ==
  /\ usage = "Reproduce"
  /\ MayUse(p, e)
  /\ Cardinality(particles) < MaxParticles
  /\ \E child \in {Cardinality(particles) + 1}, compass \in Orientation :
       /\ \E node \in {NbrNode(body[p], FirstFrom(FreeDirs(p), 0, 6))} :
            body' = Inserted(body, child, NewBody(node, compass))
       /\ energy' = Inserted(Paid(p, e), child, NewEnergy("Idle"))
  /\ UNCHANGED <<objects, usage>>

\* communicate(), shareEnergy() and useEnergy().
Live(p) ==
  /\ energy[p].state # "Idle"
  /\ \E e \in AfterSharing(p, energy) : Save(p, e) \/ Spend(p, e) \/ Reproduce(p, e)

Activate(p) == Join(p) \/ Live(p)

Next == \E p \in particles : Activate(p)

\* The system activates particles at random for ever, so none waits for ever.
Spec == Init /\ [][Next]_vars /\ \A p \in 1 .. MaxParticles : WF_vars(p \in particles /\ Activate(p))

-----------------------------------------------------------------------------
(* Properties                                                              *)

\* The type invariant.
EnergyRecord ==
  [state : {"Root", "Idle", "Active"}, parentLabel : {-1} \cup Dir, battery : 0 .. Capacity,
   stress : BOOLEAN, inhibit : BOOLEAN]
TypeOK == body \in [particles -> Body] /\ energy \in [particles -> EnergyRecord]

ParentOf(p) == NbrAtLabel(p, energy[p].parentLabel)

\* The forest reaches down from the roots, also to particles that were inserted
\* meanwhile (useEnergy): nobody's parents go round in a circle, and a child of
\* p is one that would read p in communicate().
ForestStands ==
  LET active == {p \in particles : energy[p].state = "Active"}
  IN  /\ \A p \in active : ParentOf(p) \in InForest /\ p \in Children(ParentOf(p), energy)
      /\ \A C \in SUBSET active : C # {} => \E p \in C : ParentOf(p) \notin C

HasEnergy(p) == p \in particles /\ energy[p].battery >= Demand

\* Where energy is just used, nobody is left without any (communicate,
\* shareEnergy), though it is chance which child gets some: a root that is short
\* of it inhibits its tree, so that the others fill up and leave the energy to the
\* last.
EnergyReachesAll ==
  usage = "Uniform" => \A p \in 1 .. MaxParticles : (p \in particles) ~> HasEnergy(p)
=============================================================================
