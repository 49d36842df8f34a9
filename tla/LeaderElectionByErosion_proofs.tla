------------------- MODULE LeaderElectionByErosion_proofs -------------------
(***************************************************************************)
(* Leader election by erosion, proved for every connected shape: there is  *)
(* never more than one leader, nobody else is left in the race when there  *)
(* is one, and erosion never disconnects what remains.                     *)
(*                                                                         *)
(* Under the energy distribution framework the election promises the same: *)
(* energy decides when a particle acts, never what it does.  And no        *)
(* battery is ever overdrawn, nor filled to more than one transfer beyond  *)
(* its capacity.                                                           *)
(*                                                                         *)
(* The election by tokens comes last, for every shape: its agents stand in *)
(* rings, at whose next and previous agents their tokens arrive.           *)
(***************************************************************************)
EXTENDS MCElections, Geometry_proofs, FiniteSetTheorems, Sequences

\* A leader is alone: every other particle has eroded.
LeaderAlone ==
  \A n \in InState("Leader") : \A m \in particles \ {n} : state[m] = "Eroded"

\* The inductive invariant of erosion.
IInv == TypeOK /\ NoEarlyErosion /\ RestConnected /\ LeaderAlone

\* The nodes that have not eroded.
Rest == particles \ InState("Eroded")

-----------------------------------------------------------------------------
(* The erosion rule                                                        *)

\* What a sweep collects is joined to its start.
LEMMA SweepRuns ==
  ASSUME NEW D \in SUBSET Dir, NEW c \in D, NEW d \in Sweep(D, c)
  PROVE  /\ d \in D
         /\ \/ \E k \in 0..5 : /\ d = (c + k) % 6
                               /\ \A i \in 0..k : (c + i) % 6 \in D
            \/ \E k \in 0..5 : /\ d = (c - k + 6) % 6
                               /\ \A i \in 0..k : (c - i + 6) % 6 \in D
<1> DEFINE up(k) == (c + k) % 6
           dn(k) == (c - k + 6) % 6
<1>1. \/ \E k \in 0..5 : d = up(k) /\ \A i \in 0..k : up(i) \in D
      \/ \E k \in 0..5 : d = dn(k) /\ \A i \in 0..k : dn(i) \in D
  BY DEF Sweep
<1>2. \A k \in 0..5 : k \in 0..k
  OBVIOUS
<1>3. d \in D
  <2> HIDE DEF up, dn
  <2> QED
    BY <1>1, <1>2
<1> QED
  BY <1>1, <1>3

\* Both rules of canErode accept only neighbourhoods that hang together.
LEMMA CanErodeUnsplit ==
  ASSUME NEW D \in SUBSET Dir, CanErode(D)
  PROVE  D # {} /\ Unsplit(D)
<1>0. IsFiniteSet(Dir)
  <2>1. 0 \in Int /\ 5 \in Int
    OBVIOUS
  <2> QED
    BY <2>1, FS_Interval, Zenon DEF Dir
<1>1. IsFiniteSet(D)
  BY <1>0, FS_Subset
<1>2. CASE Cardinality(D) = 1
  <2>1. PICK x : D = {x}
    BY <1>1, <1>2, FS_Singleton
  <2> QED
    BY <2>1, OneEndUnsplit
<1>3. CASE Cardinality(D) # 1
  <2>1. PICK c \in D : Cardinality(D) = Cardinality(Sweep(D, c))
    BY <1>3 DEF CanErode
  <2>2. Sweep(D, c) \in SUBSET D
    BY SweepRuns
  <2>3. Sweep(D, c) = D
    BY <1>1, <2>1, <2>2, FS_Subset
  <2> QED
    BY <2>3, SweepRuns, RunsUnsplit
<1> QED
  BY <1>2, <1>3

\* The candidate neighbours of a particle about to erode are all that remain
\* next to it: nobody there is Null, and there is no leader yet.
LEMMA CandidatesAreRest ==
  ASSUME IInv, NEW n \in particles, Erode(n)
  PROVE  {d \in Dir : NodeInDir(n, d) \in Rest} = CandNbrs(n)
<1>1. state[n] = "Candidate" /\ ~ HasNbrInState(n, {"Null"})
  BY DEF Erode
<1>2. ASSUME NEW d \in Dir, NodeInDir(n, d) \in Rest
      PROVE  state[NodeInDir(n, d)] = "Candidate"
  <2> DEFINE m == NodeInDir(n, d)
  <2>1. m \in particles /\ state[m] # "Eroded" /\ state[m] \in States
    BY <1>2 DEF Rest, InState, IInv, TypeOK
  <2>2. state[m] # "Null"
    BY <1>1, <2>1 DEF HasNbrInState, Nbrs
  <2>3. state[m] # "Leader"
    BY <1>1, <2>1 DEF IInv, LeaderAlone, InState
  <2> QED
    BY <2>1, <2>2, <2>3 DEF States
<1> QED
  BY <1>2 DEF CandNbrs, InState, Rest

\* The particles are nodes of the lattice, finitely many.
LEMMA ParticlesType ==
  ASSUME IInv
  PROVE  particles \subseteq Node /\ IsFiniteSet(particles) /\ Rest \in SUBSET Node
  BY ShapesAssumption DEF IInv, TypeOK, Rest

\* What one step does to the state of the particles.
LEMMA StateStep ==
  ASSUME IInv, NEW n \in particles, NEW s \in States, state' = [state EXCEPT ![n] = s]
  PROVE  /\ particles' = particles
         /\ state' \in [particles -> States]
         /\ state'[n] = s
         /\ \A m \in particles \ {n} : state'[m] = state[m]
  BY DEF IInv, TypeOK, particles

-----------------------------------------------------------------------------
(* The steps                                                               *)

\* A particle that sets itself up has no eroded neighbour to be late for.
LEMMA SetupInv ==
  ASSUME IInv, NEW n \in particles, Setup(n)
  PROVE  IInv' /\ Rest' = Rest /\ InState("Leader")' = InState("Leader")
<1>1. state[n] = "Null" /\ state' = [state EXCEPT ![n] = "Candidate"]
  BY DEF Setup
<1>2. /\ particles' = particles
      /\ state' \in [particles -> States]
      /\ state'[n] = "Candidate"
      /\ \A m \in particles \ {n} : state'[m] = state[m]
  BY <1>1, StateStep DEF States
<1>3. /\ InState("Eroded")' = InState("Eroded")
      /\ InState("Leader")' = InState("Leader")
  BY <1>1, <1>2 DEF InState
<1>4. NoEarlyErosion'
  <2>1. ASSUME NEW m \in InState("Eroded") \cup InState("Leader")
        PROVE  ~ HasNbrInState(m, {"Null"})'
    BY <1>2 DEF IInv, NoEarlyErosion, HasNbrInState
  <2> QED
    BY <1>3, <2>1 DEF NoEarlyErosion
<1>5. LeaderAlone'
  BY <1>1, <1>2, <1>3 DEF IInv, LeaderAlone, InState
<1>6. Rest' = Rest
  BY <1>2, <1>3 DEF Rest
<1>7. TypeOK' /\ RestConnected'
  BY <1>2, <1>3 DEF IInv, TypeOK, RestConnected
<1> QED
  BY <1>3, <1>4, <1>5, <1>6, <1>7 DEF IInv

\* A particle that erodes has a whole neighbourhood that is set up, and what
\* remains of it hangs together.
LEMMA ErodeInv ==
  ASSUME IInv, NEW n \in particles, Erode(n)
  PROVE  /\ IInv'
         /\ n \in Rest /\ Rest' = Rest \ {n} /\ Rest' # {} /\ Connected(Rest')
         /\ InState("Leader")' = InState("Leader")
<1>1. state[n] = "Candidate" /\ state' = [state EXCEPT ![n] = "Eroded"]
  BY DEF Erode
<1>2. /\ particles' = particles
      /\ state' \in [particles -> States]
      /\ state'[n] = "Eroded"
      /\ \A m \in particles \ {n} : state'[m] = state[m]
  BY <1>1, StateStep DEF States
<1>3. /\ InState("Eroded")' = InState("Eroded") \cup {n}
      /\ InState("Leader")' = InState("Leader")
      /\ InState("Leader") = {}
  BY <1>1, <1>2 DEF InState, IInv, LeaderAlone
<1>4. n \in Rest /\ Rest' = Rest \ {n}
  BY <1>1, <1>2, <1>3 DEF Rest, InState
<1>5. CandNbrs(n) # {} /\ Unsplit(CandNbrs(n))
  BY CanErodeUnsplit DEF CandNbrs, Erode
<1>6. Connected(Rest \ {n})
  BY <1>4, <1>5, CandidatesAreRest, ParticlesType, ErosionKeepsConnected
  DEF IInv, RestConnected, Rest
<1>7. Rest \ {n} # {}
  <2>1. PICK d \in Dir : NodeInDir(n, d) \in Rest
    BY <1>5, CandidatesAreRest DEF CandNbrs
  <2> QED
    BY <2>1, NodeInDirMoves, ParticlesType
<1>8. NoEarlyErosion'
  <2>1. ASSUME NEW m \in InState("Eroded") \cup {n}
        PROVE  ~ HasNbrInState(m, {"Null"})'
    <3>1. ~ HasNbrInState(m, {"Null"})
      BY DEF IInv, NoEarlyErosion, Erode
    <3> QED
      BY <1>2, <3>1 DEF HasNbrInState
  <2> QED
    BY <1>3, <2>1 DEF NoEarlyErosion
<1>9. TypeOK' /\ RestConnected' /\ LeaderAlone'
  BY <1>2, <1>3, <1>4, <1>6 DEF IInv, TypeOK, RestConnected, LeaderAlone, Rest
<1> QED
  BY <1>3, <1>4, <1>6, <1>7, <1>8, <1>9 DEF IInv

\* A particle that declares itself leader is the last one.
LEMMA DeclareInv ==
  ASSUME IInv, NEW n \in particles, DeclareLeader(n)
  PROVE  IInv' /\ Rest = {n} /\ Rest' = Rest /\ InState("Leader")' = {n}
<1>1. state[n] = "Candidate" /\ state' = [state EXCEPT ![n] = "Leader"]
  BY DEF DeclareLeader
<1>2. /\ particles' = particles
      /\ state' \in [particles -> States]
      /\ state'[n] = "Leader"
      /\ \A m \in particles \ {n} : state'[m] = state[m]
  BY <1>1, StateStep DEF States
<1>3. InState("Leader") = {}
  BY <1>1 DEF InState, IInv, LeaderAlone
<1>4. /\ InState("Eroded")' = InState("Eroded")
      /\ InState("Leader")' = {n}
  BY <1>1, <1>2, <1>3 DEF InState
<1>5. n \in Rest /\ Rest' = Rest
  BY <1>1, <1>2, <1>4 DEF Rest, InState
<1>6. \A d \in Dir : NodeInDir(n, d) \notin Rest
  <2> SUFFICES ASSUME NEW d \in Dir, NodeInDir(n, d) \in Rest
               PROVE  FALSE
    OBVIOUS
  <2> DEFINE m == NodeInDir(n, d)
  <2>1. m \in particles /\ state[m] \in {"Null", "Candidate", "Leader"}
    BY DEF Rest, InState, IInv, TypeOK, States
  <2>2. state[m] \notin {"Null", "Candidate"}
    BY <2>1 DEF DeclareLeader, HasNbrInState, Nbrs
  <2>3. m \in InState("Leader")
    BY <2>1, <2>2 DEF InState
  <2> QED
    BY <1>3, <2>3
<1>7. Rest = {n}
  BY <1>5, <1>6, AloneIsAll, ParticlesType DEF IInv, RestConnected, Rest
<1>8. LeaderAlone'
  BY <1>2, <1>4, <1>7 DEF LeaderAlone, Rest, InState
<1>9. NoEarlyErosion'
  <2>1. ~ HasNbrInState(n, {"Null"})'
    BY <1>2 DEF DeclareLeader, HasNbrInState
  <2>2. ASSUME NEW m \in InState("Eroded")
        PROVE  ~ HasNbrInState(m, {"Null"})'
    BY <1>2 DEF IInv, NoEarlyErosion, HasNbrInState
  <2> QED
    BY <1>4, <2>1, <2>2 DEF NoEarlyErosion
<1>10. TypeOK' /\ RestConnected'
  BY <1>2, <1>4 DEF IInv, TypeOK, RestConnected
<1> QED
  BY <1>4, <1>5, <1>7, <1>8, <1>9, <1>10 DEF IInv

\* The constructor establishes the invariant.
LEMMA InitInv == Init => IInv
<1> SUFFICES ASSUME Init PROVE IInv
  OBVIOUS
<1>1. PICK S \in Shapes : state = [n \in S |-> "Null"]
  BY DEF Init
<1>2. particles = S /\ InState("Eroded") = {} /\ InState("Leader") = {}
  BY <1>1 DEF particles, InState
<1>3. TypeOK
  BY <1>1, <1>2 DEF TypeOK, States
<1>4. RestConnected
  BY <1>2, ShapesAssumption DEF RestConnected
<1> QED
  BY <1>2, <1>3, <1>4 DEF IInv, NoEarlyErosion, LeaderAlone

\* Every activation preserves the invariant.
LEMMA StepInv == IInv /\ [Next]_vars => IInv'
<1> SUFFICES ASSUME IInv, [Next]_vars PROVE IInv'
  OBVIOUS
<1>1. CASE UNCHANGED vars
  BY <1>1 DEF vars, IInv, TypeOK, NoEarlyErosion, RestConnected, LeaderAlone,
              HasNbrInState, InState, particles
<1> QED
  BY <1>1, SetupInv, ErodeInv, DeclareInv DEF Next, Activate

\* In a state with a leader it is alone.
LEMMA OneLeader == IInv => ElectionOver
<1> SUFFICES ASSUME IInv, HasTerminated PROVE ElectionOver
  BY DEF ElectionOver
<1>1. PICK n \in particles : state[n] = "Leader"
  BY DEF HasTerminated, InState
<1>2. \A m \in particles : state[m] = IF m = n THEN "Leader" ELSE "Eroded"
  BY <1>1 DEF IInv, LeaderAlone, InState
<1>3. state = [m \in particles |-> IF m = n THEN "Leader" ELSE "Eroded"]
  BY <1>2 DEF IInv, TypeOK
<1> QED
  BY <1>1, <1>3 DEF ElectionOver

\* The constructor starts the abstract erosion.
LEMMA ErosionInit == Init => Abstract!Init
<1> SUFFICES ASSUME Init PROVE Abstract!Init
  OBVIOUS
<1>1. PICK S \in Shapes : state = [n \in S |-> "Null"]
  BY DEF Init
<1>2. particles = S /\ InState("Eroded") = {} /\ InState("Leader") = {}
  BY <1>1 DEF particles, InState
<1> QED
  BY <1>2 DEF Abstract!Init

\* An activation takes a step of the abstract erosion, or none.
LEMMA ErosionStep == IInv /\ [Next]_vars => [Abstract!Next]_Abstract!vars
<1> SUFFICES ASSUME IInv, [Next]_vars PROVE [Abstract!Next]_Abstract!vars
  OBVIOUS
<1>1. ASSUME NEW n \in particles, Setup(n)
      PROVE  UNCHANGED Abstract!vars
  BY <1>1, SetupInv DEF Abstract!vars, Rest
<1>2. ASSUME NEW n \in particles, Erode(n)
      PROVE  Abstract!Next
  <2>1. n \in Rest /\ Rest' = Rest \ {n} /\ Rest' # {} /\ Connected(Rest')
        /\ InState("Leader")' = InState("Leader")
    BY <1>2, ErodeInv
  <2>2. Abstract!Connected(Rest \ {n})
    BY <2>1 DEF Connected, Abstract!Connected, Adjacent, Abstract!Adjacent, Nbrs,
                Abstract!Nbrs, Dir, Abstract!Dir, NodeInDir, Abstract!NodeInDir,
                xOffset, Abstract!xOffset, yOffset, Abstract!yOffset
  <2>3. Abstract!Erode(n)
    BY <2>1, <2>2 DEF Abstract!Erode, Rest
  <2> QED
    BY <2>1, <2>3 DEF Abstract!Next, Rest
<1>3. ASSUME NEW n \in particles, DeclareLeader(n)
      PROVE  Abstract!Next
  <2>1. Rest = {n} /\ Rest' = Rest /\ InState("Leader")' = {n}
    BY <1>3, DeclareInv
  <2>2. Abstract!Declare(n)
    BY <2>1 DEF Abstract!Declare, Rest
  <2> QED
    BY <2>1, <2>2 DEF Abstract!Next, Rest
<1>4. CASE UNCHANGED vars
  BY <1>4 DEF vars, Abstract!vars, InState, particles
<1> QED
  BY <1>1, <1>2, <1>3, <1>4 DEF Next, Activate

-----------------------------------------------------------------------------
(* The theorems                                                            *)

\* The invariant holds in every behaviour, on every connected shape.
THEOREM InvCorrect == Spec => []IInv
  BY InitInv, StepInv, PTL DEF Spec

\* The states keep their type.
THEOREM TypeCorrect == Spec => []TypeOK
<1>1. IInv => TypeOK
  BY DEF IInv
<1> QED
  BY <1>1, InvCorrect, PTL

\* No particle erodes next to one that is not set up.
THEOREM SetupFirst == Spec => []NoEarlyErosion
<1>1. IInv => NoEarlyErosion
  BY DEF IInv
<1> QED
  BY <1>1, InvCorrect, PTL

\* Erosion keeps the particles that remain connected.
THEOREM StaysConnected == Spec => []RestConnected
<1>1. IInv => RestConnected
  BY DEF IInv
<1> QED
  BY <1>1, InvCorrect, PTL

\* When hasTerminated is true exactly one particle is the leader and every
\* other one has eroded.
THEOREM UniqueLeader == Spec => []ElectionOver
  BY OneLeader, InvCorrect, PTL

\* Every step of the algorithm is a step of abstract erosion or leaves its
\* state alone.
THEOREM RefinesErosion == Spec => Abstract!SafeSpec
  BY ErosionInit, ErosionStep, InvCorrect, PTL DEF Spec, Abstract!SafeSpec

-----------------------------------------------------------------------------
(* Under the energy distribution framework                                 *)

EInv == IInv /\ EDFTypeOK /\ compass \in Compasses

\* The energy of the particles of a set P.
EnergyOf(P) ==
  [state : [P -> EnergyStates \ {"Pruning"}], up : [P -> {-1} \cup Dir],
   battery : [P -> 0 .. Capacity + TransferRate - 1]]

-----------------------------------------------------------------------------
(* The election                                                            *)

\* A step under the framework is a step of the election or leaves it alone.
LEMMA StepOfElection == [EDFNext]_edfVars => [Next]_vars
  BY DEF EDFNext, EDFActivate, Act, DistributeEnergy, Next, edfVars

-----------------------------------------------------------------------------
(* The energy                                                              *)

\* An action costs what the battery of the particle holds.
LEMMA SpentType ==
  ASSUME NEW P, NEW e \in EnergyOf(P), NEW p \in P, e.battery[p] >= Demand
  PROVE  Spent(p, e) \in EnergyOf(P)
<1>1. Demand \in Nat /\ Capacity \in Nat /\ TransferRate \in Nat
  BY EnergyAssumption
<1>2. e.battery \in [P -> 0 .. Capacity + TransferRate - 1]
  BY DEF EnergyOf
<1>3. [e.battery EXCEPT ![p] = @ - Demand] \in [P -> 0 .. Capacity + TransferRate - 1]
  BY <1>1, <1>2
<1>4. Spent(p, e) = [e EXCEPT !.battery = [e.battery EXCEPT ![p] = @ - Demand]]
  BY DEF Spent, EnergyOf
<1> QED
  BY <1>3, <1>4 DEF EnergyOf

\* Nobody is ever pruned: the particles never move.
LEMMA GetPrunedStutters ==
  ASSUME NEW P, NEW e \in EnergyOf(P), NEW p \in P, NEW children
  PROVE  AfterGetPruned(p, e, children) = e
  BY DEF AfterGetPruned, EnergyOf

LEMMA AskGrowthType ==
  ASSUME NEW P, NEW e \in EnergyOf(P), NEW p \in P, NEW wanted \in BOOLEAN
  PROVE  /\ AfterAskGrowth(p, e, wanted) \in EnergyOf(P)
         /\ AfterAskGrowth(p, e, wanted).battery = e.battery
<1>1. e.state \in [P -> EnergyStates \ {"Pruning"}]
  BY DEF EnergyOf
<1>2. [e.state EXCEPT ![p] = "Asking"] \in [P -> EnergyStates \ {"Pruning"}]
  BY <1>1 DEF EnergyStates
<1>3. [e EXCEPT !.state[p] = "Asking"] = [e EXCEPT !.state = [e.state EXCEPT ![p] = "Asking"]]
  BY DEF EnergyOf
<1> QED
  BY <1>2, <1>3 DEF AfterAskGrowth, EnergyOf

LEMMA GrowForestType ==
  ASSUME NEW P, NEW e \in EnergyOf(P), NEW p \in P, NEW A, NEW adopted \in [A -> Dir],
         NEW asking
  PROVE  /\ AfterGrowForest(p, e, adopted, asking) \in EnergyOf(P)
         /\ AfterGrowForest(p, e, adopted, asking).battery = e.battery
<1> DEFINE grown == [q \in DOMAIN e.state |->
                       IF q \in DOMAIN adopted \/ (q = p /\ e.state[p] = "Growing") THEN "Active"
                       ELSE IF q \in asking THEN "Growing" ELSE e.state[q]]
           led   == [q \in DOMAIN e.up |-> IF q \in DOMAIN adopted THEN adopted[q] ELSE e.up[q]]
<1>1. /\ e.state \in [P -> EnergyStates \ {"Pruning"}]
      /\ e.up \in [P -> {-1} \cup Dir]
  BY DEF EnergyOf
<1>2. grown \in [P -> EnergyStates \ {"Pruning"}]
  BY <1>1 DEF EnergyStates
<1>3. led \in [P -> {-1} \cup Dir]
  BY <1>1
<1>4. AfterGrowForest(p, e, adopted, asking) \in {e, [e EXCEPT !.state = grown, !.up = led]}
  BY DEF AfterGrowForest, EnergyOf
<1> HIDE DEF grown, led
<1>5. [e EXCEPT !.state = grown, !.up = led] \in EnergyOf(P)
  BY <1>2, <1>3 DEF EnergyOf
<1>6. [e EXCEPT !.state = grown, !.up = led].battery = e.battery
  BY DEF EnergyOf
<1> QED
  BY <1>4, <1>5, <1>6

\* A source harvests while its battery is not full.
LEMMA HarvestType ==
  ASSUME NEW P, NEW e \in EnergyOf(P), NEW p \in P
  PROVE  /\ AfterHarvest(p, e) \in EnergyOf(P)
         /\ \A q \in P \ {p} : AfterHarvest(p, e).battery[q] = e.battery[q]
<1>1. Capacity \in Nat /\ TransferRate \in Nat
  BY EnergyAssumption
<1>2. e.battery \in [P -> 0 .. Capacity + TransferRate - 1]
  BY DEF EnergyOf
<1>3. CASE e.state[p] = "Source" /\ e.battery[p] < Capacity
  <2> DEFINE filled == [e.battery EXCEPT ![p] = @ + TransferRate]
  <2>1. filled \in [P -> 0 .. Capacity + TransferRate - 1]
    BY <1>1, <1>2, <1>3
  <2>2. \A q \in P \ {p} : filled[q] = e.battery[q]
    BY <1>2
  <2>3. AfterHarvest(p, e) = [e EXCEPT !.battery = filled]
    BY <1>3 DEF AfterHarvest, EnergyOf
  <2> HIDE DEF filled
  <2> QED
    BY <2>1, <2>2, <2>3 DEF EnergyOf
<1>4. CASE ~ (e.state[p] = "Source" /\ e.battery[p] < Capacity)
  BY <1>4 DEF AfterHarvest
<1> QED
  BY <1>3, <1>4

\* Whatever the distribution of one activation leads to has the type.
LEMMA DistributedType ==
  ASSUME NEW P, NEW e \in EnergyOf(P), NEW p \in P, NEW children \in SUBSET (P \ {p}),
         NEW A, NEW adopted \in [A -> Dir], NEW f \in Distributed(p, e, children, adopted)
  PROVE  f \in EnergyOf(P)
<1> DEFINE asking  == {q \in children : e.state[q] = "Asking"}
           nonFull == {q \in children : e.battery[q] < Capacity}
           pruned  == AfterGetPruned(p, e, children)
           asked   == AfterAskGrowth(p, pruned, DOMAIN adopted \cup asking # {})
           forest  == AfterGrowForest(p, asked, adopted, asking)
           filled  == AfterHarvest(p, forest)
           shared(child) == [filled.battery EXCEPT ![p] = @ - TransferRate,
                                                   ![child] = @ + TransferRate]
           shares  == /\ filled.state[p] \notin {"Idle", "Pruning"}
                      /\ filled.battery[p] >= TransferRate
                      /\ nonFull # {}
           sharedWith(child) ==
             [filled EXCEPT !.battery = [filled.battery EXCEPT ![p] = @ - TransferRate,
                                                               ![child] = @ + TransferRate]]
<1>1. pruned = e
  BY GetPrunedStutters
<1>2. asked \in EnergyOf(P) /\ asked.battery = e.battery
  <2> DEFINE wanted == DOMAIN adopted \cup asking # {}
  <2>1. wanted \in BOOLEAN
    BY Zenon
  <2>2. asked = AfterAskGrowth(p, e, wanted)
    BY <1>1
  <2> HIDE DEF wanted, asked
  <2> QED
    BY <2>1, <2>2, AskGrowthType
<1>3. forest \in EnergyOf(P) /\ forest.battery = e.battery
  <2> HIDE DEF asked, asking
  <2> QED
    BY <1>2, GrowForestType
<1>4. filled \in EnergyOf(P) /\ \A q \in P \ {p} : filled.battery[q] = e.battery[q]
  <2> HIDE DEF forest
  <2> QED
    BY <1>3, HarvestType
<1>5. f \in IF shares THEN {sharedWith(child) : child \in nonFull} ELSE {filled}
  BY Zenon DEF Distributed
<1> HIDE DEF filled, nonFull
<1>6. \A child : sharedWith(child) = [filled EXCEPT !.battery = shared(child)]
  BY Zenon DEF sharedWith, shared
<1> HIDE DEF sharedWith
<1>7. ASSUME NEW child \in nonFull, shares
      PROVE  [filled EXCEPT !.battery = shared(child)] \in EnergyOf(P)
  <2>1. Capacity \in Nat /\ TransferRate \in Nat
    BY EnergyAssumption
  <2>2. child \in P /\ child # p /\ filled.battery[child] < Capacity
    BY <1>4 DEF nonFull
  <2>3. filled.battery \in [P -> 0 .. Capacity + TransferRate - 1]
    BY <1>4 DEF EnergyOf
  <2>4. shared(child) \in [P -> 0 .. Capacity + TransferRate - 1]
    BY <1>7, <2>1, <2>2, <2>3
  <2> HIDE DEF shared
  <2> QED
    BY <1>4, <2>4 DEF EnergyOf
<1> HIDE DEF shares, shared
<1> QED
  BY <1>4, <1>5, <1>6, <1>7

-----------------------------------------------------------------------------
(* The invariant                                                           *)

\* Turned from one compass to another a direction is one.
LEMMA DirToNbrDirType ==
  ASSUME NEW b, NEW nb, b.orientation \in Dir, nb.orientation \in Dir, NEW d \in Dir
  PROVE  DirToNbrDir(b, nb, Opposite(d)) \in Dir
<1>1. Opposite(d) \in Dir
  BY DEF Opposite, Dir
<1>2. LocalToGlobalDir(b, Opposite(d)) \in Dir
  BY <1>1 DEF LocalToGlobalDir, Dir
<1>3. GlobalToLocalDir(nb, LocalToGlobalDir(b, Opposite(d))) \in Dir
  BY <1>2 DEF GlobalToLocalDir, Dir
<1> QED
  BY <1>3 DEF DirToNbrDir

\* The directions adopted particles get are directions.
LEMMA DirBackType ==
  ASSUME EInv, NEW n \in particles, NEW m \in NbrParticles(n)
  PROVE  DirBack(n, m) \in Dir
<1>1. n \in UNION Shapes /\ m \in UNION Shapes
  BY DEF EInv, IInv, TypeOK, NbrParticles
<1>2. compass[n] \in Dir /\ compass[m] \in Dir
  BY <1>1, CompassAssumption DEF EInv
<1>3. IsContracted(BodyAt(n)) /\ UniqueLabels(BodyAt(n)) = Dir
  BY DEF BodyAt, IsContracted, UniqueLabels, Labels, LabelLimit, Dir
<1>4. \A l \in Dir : NbrNode(BodyAt(n), l) = NodeInDir(n, (compass[n] + l) % 6)
  BY <1>3 DEF NbrNode, OccupiedNodeIncidentToLabel, HeadLabels, Labels, LabelLimit,
              LabelToGlobalDir, LabelToDir, LocalToGlobalDir, BodyAt, Dir
<1>5. PICK d \in Dir : m = NodeInDir(n, d)
  BY DEF NbrParticles, Nbrs
<1>6. PICK l \in Dir : (compass[n] + l) % 6 = d
  <2>1. \A c, a \in Dir : \E l \in Dir : (c + l) % 6 = a
    <3> TAKE c, a \in Dir
    <3> DEFINE turn == (a - c + 6) % 6
    <3>1. turn \in Dir /\ (c + turn) % 6 = a
      BY DEF Dir
    <3> HIDE DEF turn
    <3> QED
      BY <3>1
  <2> QED
    BY <1>2, <2>1
<1>7. NbrNode(BodyAt(n), l) = m
  BY <1>4, <1>5, <1>6
<1> DEFINE label == CHOOSE k \in UniqueLabels(BodyAt(n)) : NbrNode(BodyAt(n), k) = m
<1>8. label \in Dir
  BY <1>3, <1>6, <1>7
<1>9. DirBack(n, m) = DirToNbrDir(BodyAt(n), BodyAt(m), Opposite(LabelToDir(BodyAt(n), label)))
  BY DEF DirBack
<1> HIDE DEF label
<1>10. LabelToDir(BodyAt(n), label) = label
  BY <1>3 DEF LabelToDir
<1>11. BodyAt(n).orientation \in Dir /\ BodyAt(m).orientation \in Dir
  BY <1>2 DEF BodyAt
<1> QED
  BY <1>8, <1>9, <1>10, <1>11, DirToNbrDirType

\* The energy of the particles is that of their set.
LEMMA EnergyType == EDFTypeOK <=> TypeOK /\ Energy \in EnergyOf(particles)
  BY DEF EDFTypeOK, EnergyOf, Energy

\* The constructor establishes the invariant.
LEMMA EDFInitInv == EDFInit => EInv
<1> SUFFICES ASSUME EDFInit PROVE EInv
  OBVIOUS
<1>1. IInv
  BY InitInv DEF EDFInit
<1>2. PICK sources : /\ eState = NewEnergy(sources, particles).state
                     /\ eParentDir = NewEnergy(sources, particles).up
                     /\ battery = NewEnergy(sources, particles).battery
  BY DEF EDFInit
<1>3. 0 \in 0 .. Capacity + TransferRate - 1
  BY EnergyAssumption
<1>4. EDFTypeOK
  BY <1>1, <1>2, <1>3 DEF IInv, EDFTypeOK, NewEnergy, EnergyStates
<1> QED
  BY <1>1, <1>4 DEF EInv, EDFInit

\* So does every step.
LEMMA EDFStepInv == EInv /\ [EDFNext]_edfVars => EInv'
<1> SUFFICES ASSUME EInv, [EDFNext]_edfVars PROVE EInv'
  OBVIOUS
<1>1. IInv'
  BY StepOfElection, StepInv DEF EInv
<1>2. TypeOK' /\ particles' = particles
  <2>1. particles' = particles
    <3>1. CASE UNCHANGED vars
      BY <3>1 DEF vars, particles
    <3>2. ASSUME NEW n \in particles, Activate(n)
          PROVE  particles' = particles
      BY <3>2 DEF Activate, Setup, Erode, DeclareLeader, EInv, IInv, TypeOK, particles
    <3> QED
      BY <3>1, <3>2, StepOfElection DEF Next
  <2> QED
    BY <1>1, <2>1 DEF IInv
<1>3. Energy \in EnergyOf(particles)
  BY EnergyType DEF EInv
<1>4. ASSUME NEW n \in particles, Act(n)
      PROVE  EInv'
  <2>1. Spent(n, Energy) \in EnergyOf(particles)
    BY <1>3, <1>4, SpentType DEF Act, CanAct, MaySpend
  <2>2. Energy' \in EnergyOf(particles)
    BY <1>4, <2>1 DEF Act, SetEnergy, Energy, EnergyOf
  <2> QED
    BY <1>1, <1>2, <1>4, <2>2 DEF Act, EInv, EDFTypeOK, EnergyOf, Energy
<1>5. ASSUME NEW n \in particles, DistributeEnergy(n)
      PROVE  EInv'
  <2> DEFINE A == {q \in NbrParticles(n) : eState[q] = "Idle"}
             adopted == [m \in A |-> DirBack(n, m)]
  <2>1. adopted \in [A -> Dir]
    BY DirBackType
  <2>2. Children(n) \in SUBSET (particles \ {n})
    <3>1. n \in Node
      BY ParticlesType DEF EInv
    <3> QED
      BY <3>1, NodeInDirMoves DEF Children, NbrParticles, Nbrs
  <2>3. PICK e \in Distributed(n, Energy, Children(n), adopted) : SetEnergy(e)
    BY <1>5 DEF DistributeEnergy
  <2> HIDE DEF A, adopted
  <2>4. e \in EnergyOf(particles)
    BY <1>3, <2>1, <2>2, DistributedType
  <2>5. Energy' \in EnergyOf(particles)
    BY <2>3, <2>4 DEF SetEnergy, Energy, EnergyOf
  <2> QED
    BY <1>1, <1>2, <1>5, <2>5 DEF DistributeEnergy, EInv, EDFTypeOK, EnergyOf, Energy
<1>6. CASE UNCHANGED edfVars
  BY <1>1, <1>2, <1>6 DEF EInv, EDFTypeOK, edfVars
<1> QED
  BY <1>4, <1>5, <1>6 DEF EDFNext, EDFActivate

-----------------------------------------------------------------------------
(* The theorems                                                            *)

\* The invariant holds in every behaviour, on every connected shape, for all
\* compasses, sources and sizes of batteries and transfers.
THEOREM EDFInvCorrect == EDFSpec => []EInv
  BY EDFInitInv, EDFStepInv, PTL DEF EDFSpec

\* Types: no battery ever holds less than nothing (Demand, ShareEnergy) or more
\* than a harvest beyond its capacity (HarvestEnergy).
THEOREM BatteriesCorrect == EDFSpec => []EDFTypeOK
<1>1. EInv => EDFTypeOK
  BY DEF EInv
<1> QED
  BY <1>1, EDFInvCorrect, PTL

\* What the election guarantees it guarantees however energy is spread: nobody
\* erodes too early, the rest stays connected, a leader is the only one.
THEOREM EDFElectionCorrect == EDFSpec => [](NoEarlyErosion /\ RestConnected /\ ElectionOver)
<1>1. EInv => NoEarlyErosion /\ RestConnected /\ ElectionOver
  BY OneLeader DEF EInv, IInv
<1> QED
  BY <1>1, EDFInvCorrect, PTL

\* The election under the framework still implements abstract erosion.
THEOREM EDFRefinesErosion == EDFSpec => Abstract!SafeSpec
<1>1. EDFInit => Abstract!Init
  BY ErosionInit DEF EDFInit
<1>2. EInv /\ [EDFNext]_edfVars => [Abstract!Next]_Abstract!vars
  BY StepOfElection, ErosionStep DEF EInv
<1> QED
  BY <1>1, <1>2, EDFInvCorrect, PTL DEF EDFSpec, Abstract!SafeSpec

-----------------------------------------------------------------------------
(* The election by tokens, alg/leaderelection.cpp                          *)

\* The bodies of the instance are those of the geometry.
LEMMA AgentBodies ==
  /\ LE!Body = Body /\ LE!Dir = Dir
  /\ \A b : LE!IsContracted(b) <=> IsContracted(b)
  /\ \A d : LE!Opposite(d) = Opposite(d)
  /\ \A n, d : LE!NodeInDir(n, d) = NodeInDir(n, d)
  /\ \A n : n \in LE!Occupied <=> \E p \in LE!particles : n \in Nodes(body[p])
  /\ \A n : LE!ParticleAt(n) = CHOOSE p \in LE!particles : n \in Nodes(body[p])
  /\ \A b, l : LE!NbrNode(b, l) = NbrNode(b, l)
  /\ \A L, start, limit : LE!FirstFrom(L, start, limit) = FirstFrom(L, start, limit)
<1>1. /\ LE!Node = Node /\ LE!Dir = Dir
      /\ \A n, d : LE!NodeInDir(n, d) = NodeInDir(n, d)
      /\ \A d : LE!Opposite(d) = Opposite(d)
      /\ LE!labels = labels /\ LE!labelDir = labelDir
  BY DEF LE!Node, Node, LE!Dir, Dir, LE!NodeInDir, NodeInDir,
         LE!xOffset, xOffset, LE!yOffset, yOffset, LE!Opposite, Opposite,
         LE!labels, labels, LE!labelDir, labelDir
<1>2. /\ LE!Body = Body
      /\ \A b : LE!IsContracted(b) <=> IsContracted(b)
      /\ \A b, d : LE!LocalToGlobalDir(b, d) = LocalToGlobalDir(b, d)
      /\ \A b, d : LE!GlobalToLocalDir(b, d) = GlobalToLocalDir(b, d)
      /\ \A b : LE!TailNode(b) = TailNode(b)
  BY <1>1 DEF LE!Body, Body, LE!IsContracted, IsContracted,
         LE!LocalToGlobalDir, LocalToGlobalDir, LE!GlobalToLocalDir, GlobalToLocalDir,
         LE!TailNode, TailNode
<1>3. /\ \A b : LE!Nodes(b) = Nodes(b)
      /\ \A b : LE!TailDir(b) = TailDir(b)
      /\ \A b : LE!LabelLimit(b) = LabelLimit(b)
  BY <1>1, <1>2 DEF LE!Nodes, Nodes, LE!TailDir, TailDir, LE!LabelLimit, LabelLimit
<1>4. /\ \A n : n \in LE!Occupied <=> \E p \in LE!particles : n \in Nodes(body[p])
      /\ \A n : LE!ParticleAt(n) = CHOOSE p \in LE!particles : n \in Nodes(body[p])
      /\ \A b : LE!Labels(b) = Labels(b)
      /\ \A b, l : LE!LabelToDir(b, l) = LabelToDir(b, l)
  BY <1>1, <1>2, <1>3 DEF LE!Occupied, LE!ParticleAt, LE!Labels, Labels,
         LE!LabelToDir, LabelToDir
<1>5. /\ \A b : LE!HeadLabels(b) = HeadLabels(b)
      /\ \A b, l : LE!LabelToGlobalDir(b, l) = LabelToGlobalDir(b, l)
  BY <1>1, <1>2, <1>3, <1>4 DEF LE!HeadLabels, HeadLabels, LE!LabelToGlobalDir, LabelToGlobalDir
<1>6. \A b, l : LE!NbrNode(b, l) = NbrNode(b, l)
  BY <1>1, <1>2, <1>5 DEF LE!NbrNode, NbrNode, LE!OccupiedNodeIncidentToLabel,
         OccupiedNodeIncidentToLabel
<1>7. \A L, start, limit : LE!FirstFrom(L, start, limit) = FirstFrom(L, start, limit)
  BY DEF LE!FirstFrom, FirstFrom
<1> QED
  BY <1>1, <1>2, <1>4, <1>6, <1>7

\* Contracted particles at nodes of their own, which never move.
Placed ==
  \A p \in LE!particles :
    /\ body[p] \in Body /\ IsContracted(body[p])
    /\ \A q \in LE!particles : body[p].head = body[q].head => p = q

\* The node in a direction of the particle's own.
Beside(p, d) == NodeInDir(body[p].head, LocalToGlobalDir(body[p], d))

\* There is a neighbour in a direction if a particle is there.
LEMMA NbrIs ==
  ASSUME Placed, NEW p \in LE!particles, NEW d \in Dir
  PROVE  /\ body[p].head \in Node /\ LocalToGlobalDir(body[p], d) \in Dir
         /\ d \in LE!NbrDirs(p) <=> \E q \in LE!particles : body[q].head = Beside(p, d)
         /\ \A q \in LE!particles : body[q].head = Beside(p, d) => LE!NbrAtLabel(p, d) = q
<1>1. body[p] \in Body /\ IsContracted(body[p])
  BY DEF Placed
<1>2. \A q \in LE!particles : Nodes(body[q]) = {body[q].head}
  BY NodesType DEF Placed
<1>3. NbrNode(body[p], d) = Beside(p, d)
  BY <1>1, ContractedFrame DEF NbrNode, Beside
<1>4. d \in LE!NbrDirs(p) <=> \E q \in LE!particles : body[q].head = Beside(p, d)
  BY <1>2, <1>3, AgentBodies DEF LE!NbrDirs, LE!HasNbrAtLabel
<1>5. ASSUME NEW q \in LE!particles, body[q].head = Beside(p, d)
      PROVE  LE!NbrAtLabel(p, d) = q
  <2>1. \A r \in LE!particles : Beside(p, d) \in Nodes(body[r]) <=> r = q
    BY <1>2, <1>5 DEF Placed
  <2>2. LE!NbrAtLabel(p, d) = CHOOSE r \in LE!particles : Beside(p, d) \in Nodes(body[r])
    BY <1>3, AgentBodies DEF LE!NbrAtLabel
  <2> QED
    BY <2>1, <2>2
<1> QED
  BY <1>1, <1>4, <1>5, CompassType, NodesType

\* A neighbour, the direction back from it, and the nodes that are beside both.
LEMMA NbrBack ==
  ASSUME Placed, NEW p \in LE!particles, NEW d \in LE!NbrDirs(p),
         NEW q, q = LE!NbrAtLabel(p, d), NEW l, l = LE!LabelTo(q, p)
  PROVE  /\ q \in LE!particles
         /\ d \in Dir /\ l \in LE!NbrDirs(q) /\ l \in Dir
         /\ (d + 1) % 6 \in LE!NbrDirs(p) <=> (l + 5) % 6 \in LE!NbrDirs(q)
         /\ (d + 5) % 6 \in LE!NbrDirs(p) <=> (l + 1) % 6 \in LE!NbrDirs(q)
         /\ LE!NbrAtLabel(q, l) = p /\ LE!LabelTo(p, q) = d
<1>1. d \in Dir
  BY AgentBodies DEF LE!NbrDirs
<1>2. /\ q \in LE!particles /\ body[q].head = Beside(p, d) /\ body[p].head \in Node
  BY <1>1, NbrIs
<1> DEFINE g == LocalToGlobalDir(body[p], d)
           m == GlobalToLocalDir(body[q], Opposite(g))
<1>3. /\ body[p] \in Body /\ body[q] \in Body
      /\ body[q].head \in Node /\ g \in Dir /\ Opposite(g) \in Dir
  BY <1>1, <1>2, NbrIs, OppositeType, NodesType DEF Placed
<1>4. m \in Dir /\ LocalToGlobalDir(body[q], m) = Opposite(g)
  BY <1>3, CompassType, CompassInverse
<1>5. Beside(q, m) = body[p].head
  BY <1>2, <1>3, <1>4, NodeInDirBack DEF Beside
<1>6. m \in LE!NbrDirs(q) /\ LE!NbrAtLabel(q, m) = p
  BY <1>2, <1>4, <1>5, NbrIs
<1>7. ASSUME NEW a \in LE!particles, NEW b \in LE!particles, NEW i \in LE!NbrDirs(a), NEW j \in LE!NbrDirs(a),
             LE!NbrAtLabel(a, i) = b, LE!NbrAtLabel(a, j) = b
      PROVE  i = j
  <2>1. i \in Dir /\ j \in Dir
    BY AgentBodies DEF LE!NbrDirs
  <2>2. Beside(a, i) = body[b].head /\ Beside(a, j) = body[b].head /\ body[a] \in Body
    BY <1>7, <2>1, NbrIs DEF Placed
  <2>3. /\ body[a].head \in Node
        /\ LocalToGlobalDir(body[a], i) \in Dir /\ LocalToGlobalDir(body[a], j) \in Dir
    BY <2>1, NbrIs
  <2>4. LocalToGlobalDir(body[a], i) = LocalToGlobalDir(body[a], j)
    BY <2>2, <2>3, NodeInDirInjective DEF Beside
  <2> QED
    BY <2>1, <2>2, <2>4, CompassInverse
<1>8. l = m
  BY <1>2, <1>6, <1>7 DEF LE!LabelTo
<1>9. LE!LabelTo(p, q) = d
  BY <1>2, <1>7 DEF LE!LabelTo
<1> DEFINE n == body[p].head
<1>10. NodeInDir(n, g) = body[q].head
  BY <1>2 DEF Beside
<1>11. /\ (d + 1) % 6 \in Dir /\ (d + 5) % 6 \in Dir /\ (m + 1) % 6 \in Dir /\ (m + 5) % 6 \in Dir
       /\ 1 \in Dir /\ 5 \in Dir
  BY <1>1, <1>4 DEF Dir
<1>12. /\ Beside(p, (d + 1) % 6) = NodeInDir(n, (g + 1) % 6)
       /\ Beside(p, (d + 5) % 6) = NodeInDir(n, (g + 5) % 6)
       /\ Beside(q, (m + 1) % 6) = NodeInDir(body[q].head, (Opposite(g) + 1) % 6)
       /\ Beside(q, (m + 5) % 6) = NodeInDir(body[q].head, (Opposite(g) + 5) % 6)
  BY <1>1, <1>3, <1>4, <1>11, CompassInverse DEF Beside
<1>13. /\ (g + 1) % 6 \in Dir /\ (g + 5) % 6 \in Dir
       /\ (Opposite(g) + 1) % 6 = (g + 4) % 6 /\ (Opposite(g) + 5) % 6 = (g + 2) % 6
       /\ (g + 4) % 6 \in Dir /\ (g + 2) % 6 \in Dir
  BY <1>3 DEF Dir, Opposite
<1>14. \A a \in Dir, c \in Dir :
         \/ a = (g + 1) % 6 /\ c = (g + 2) % 6
         \/ a = (g + 5) % 6 /\ c = (g + 4) % 6
         => NodeInDir(n, a) = NodeInDir(NodeInDir(n, g), c)
  <2> TAKE a \in Dir, c \in Dir
  <2> HAVE \/ a = (g + 1) % 6 /\ c = (g + 2) % 6
           \/ a = (g + 5) % 6 /\ c = (g + 4) % 6
  <2>1. /\ xOffset[a + 1] = xOffset[g + 1] + xOffset[c + 1]
        /\ yOffset[a + 1] = yOffset[g + 1] + yOffset[c + 1]
    BY <1>3, StepSums
  <2>2. /\ \A k \in Dir : xOffset[k + 1] \in Int /\ yOffset[k + 1] \in Int
        /\ n[1] \in Int /\ n[2] \in Int
    BY <1>2 DEF Node, Dir, xOffset, yOffset
  <2>3. /\ n[1] + xOffset[a + 1] = (n[1] + xOffset[g + 1]) + xOffset[c + 1]
        /\ n[2] + yOffset[a + 1] = (n[2] + yOffset[g + 1]) + yOffset[c + 1]
    <3> DEFINE xa == xOffset[a + 1]
               xc == xOffset[c + 1]
               xg == xOffset[g + 1]
               ya == yOffset[a + 1]
               yc == yOffset[c + 1]
               yg == yOffset[g + 1]
    <3>1. /\ xa \in Int /\ xc \in Int /\ xg \in Int /\ ya \in Int /\ yc \in Int /\ yg \in Int
          /\ xa = xg + xc /\ ya = yg + yc
      BY <1>3, <2>1, <2>2
    <3> HIDE DEF xa, xc, xg, ya, yc, yg
    <3>2. n[1] + xa = (n[1] + xg) + xc /\ n[2] + ya = (n[2] + yg) + yc
      BY <2>2, <3>1
    <3> QED
      BY <3>2 DEF xa, xc, xg, ya, yc, yg
  <2> QED
    BY <2>3 DEF NodeInDir
<1>15. /\ Beside(p, (d + 1) % 6) = Beside(q, (m + 5) % 6)
       /\ Beside(p, (d + 5) % 6) = Beside(q, (m + 1) % 6)
  BY <1>10, <1>12, <1>13, <1>14
<1>16. ASSUME NEW i \in Dir, NEW j \in Dir, Beside(p, i) = Beside(q, j)
       PROVE  i \in LE!NbrDirs(p) <=> j \in LE!NbrDirs(q)
  <2>1. i \in LE!NbrDirs(p) <=> \E r \in LE!particles : body[r].head = Beside(p, i)
    BY NbrIs
  <2>2. j \in LE!NbrDirs(q) <=> \E r \in LE!particles : body[r].head = Beside(q, j)
    BY <1>2, NbrIs
  <2> QED
    BY <1>16, <2>1, <2>2
<1>17. /\ (d + 1) % 6 \in LE!NbrDirs(p) <=> (m + 5) % 6 \in LE!NbrDirs(q)
       /\ (d + 5) % 6 \in LE!NbrDirs(p) <=> (m + 1) % 6 \in LE!NbrDirs(q)
  BY <1>11, <1>15, <1>16
<1> QED
  BY <1>1, <1>2, <1>4, <1>6, <1>8, <1>9, <1>17

-----------------------------------------------------------------------------
(* The agents of a particle                                                *)

\* The directions of agents and the next neighbour from one, where D has the
\* directions of the neighbours.
Gaps(D) == {d \in Dir \ D : (d + 1) % 6 \in D}
NextOver(D, a) == CHOOSE d \in D : \A e \in D : (a - d + 6) % 6 <= (a - e + 6) % 6

\* Before the next neighbour there is none (getNextAgentDir).
LEMMA NextOverIs ==
  ASSUME NEW D \in SUBSET Dir, D # {}, NEW a \in Dir
  PROVE  /\ NextOver(D, a) \in D
         /\ \A k \in Dir : k < (a - NextOver(D, a) + 6) % 6 => (a - k + 6) % 6 \notin D
<1> DEFINE V == {(a - d + 6) % 6 : d \in D}
<1>1. V \in SUBSET Dir /\ V # {}
  <2>1. \A d \in Dir : (a - d + 6) % 6 \in Dir
    BY DEF Dir
  <2> QED
    BY <2>1
<1>2. PICK v \in V : \A w \in V : v <= w
  BY <1>1, LeastDir
<1>3. \E d \in D : \A e \in D : (a - d + 6) % 6 <= (a - e + 6) % 6
  BY <1>2
<1>4. /\ NextOver(D, a) \in D
      /\ \A e \in D : (a - NextOver(D, a) + 6) % 6 <= (a - e + 6) % 6
  BY <1>3 DEF NextOver
<1>5. ASSUME NEW k \in Dir, k < (a - NextOver(D, a) + 6) % 6, (a - k + 6) % 6 \in D
      PROVE  FALSE
  <2>1. (a - ((a - k + 6) % 6) + 6) % 6 = k
    BY DEF Dir
  <2>2. (a - NextOver(D, a) + 6) % 6 <= k
    BY <1>4, <1>5, <2>1
  <2>3. NextOver(D, a) \in Dir
    BY <1>4
  <2>4. (a - NextOver(D, a) + 6) % 6 \in Int /\ k \in Int
    BY <2>3 DEF Dir
  <2> QED
    BY <1>5, <2>2, <2>4
<1> QED
  BY <1>4, <1>5

\* The previous neighbour is the one the agent is in front of (getPrevAgentDir).
LEMMA PrevOverIs ==
  ASSUME NEW D \in SUBSET Dir, NEW a \in Gaps(D)
  PROVE  FirstFrom(D, a, 6) = (a + 1) % 6
<1>1. a \in Dir /\ (a + 1) % 6 \in D /\ (a + 1) % 6 \in Dir
  BY DEF Gaps
<1>2. \A m \in D : m \in Dir /\ m # a
  BY DEF Gaps
<1>3. \A m \in Dir \ {a} :
        /\ (((a + 1) % 6) - a + 6) % 6 <= (m - a + 6) % 6
        /\ (m - a + 6) % 6 <= (((a + 1) % 6) - a + 6) % 6 => m = (a + 1) % 6
  BY <1>1 DEF Dir
<1>4. \A m \in D : (((a + 1) % 6) - a + 6) % 6 <= (m - a + 6) % 6
  BY <1>2, <1>3
<1>5. ASSUME NEW l \in D, \A m \in D : (l - a + 6) % 6 <= (m - a + 6) % 6
      PROVE  l = (a + 1) % 6
  BY <1>1, <1>2, <1>3, <1>5
<1> QED
  BY <1>1, <1>4, <1>5 DEF FirstFrom

\* Behind a neighbour that is followed by a gap there is one agent.
LEMMA GapBehind ==
  ASSUME NEW D \in SUBSET Dir, NEW n \in D
  PROVE  /\ \A a \in Gaps(D) : NextOver(D, a) = n => (n + 1) % 6 \notin D
         /\ \A a, b \in Gaps(D) : NextOver(D, a) = n /\ NextOver(D, b) = n => a = b
         /\ (n + 1) % 6 \notin D => \E a \in Gaps(D) : NextOver(D, a) = n
<1>0. n \in Dir /\ D # {}
  OBVIOUS
<1>1. ASSUME NEW a \in Gaps(D), NextOver(D, a) = n
      PROVE  /\ a \in Dir /\ a # n /\ (a + 1) % 6 \in D
             /\ \A k \in Dir : k < (a - n + 6) % 6 => (a - k + 6) % 6 \notin D
  BY <1>0, <1>1, NextOverIs DEF Gaps
<1>2. ASSUME NEW a \in Gaps(D), NextOver(D, a) = n
      PROVE  (n + 1) % 6 \notin D
  <2>1. a \in Dir /\ a # n
    BY <1>1, <1>2
  <2>2. PICK k \in Dir : k < (a - n + 6) % 6 /\ (a - k + 6) % 6 = (n + 1) % 6
    <3> DEFINE k == (a - n + 5) % 6
    <3>1. k \in Dir /\ k < (a - n + 6) % 6 /\ (a - k + 6) % 6 = (n + 1) % 6
      BY <1>0, <2>1 DEF Dir
    <3> QED
      BY <3>1
  <2> QED
    BY <1>1, <1>2, <2>2
<1>3. ASSUME NEW a \in Gaps(D), NEW b \in Gaps(D), NextOver(D, a) = n, NextOver(D, b) = n
      PROVE  ~ ((a - n + 6) % 6 < (b - n + 6) % 6)
  <2>1. a \in Dir /\ b \in Dir /\ a # n /\ b # n
    BY <1>1, <1>3
  <2>2. SUFFICES ASSUME (a - n + 6) % 6 < (b - n + 6) % 6 PROVE FALSE
    OBVIOUS
  <2> DEFINE k == (b - a + 5) % 6
  <2>3. k \in Dir /\ k < (b - n + 6) % 6 /\ (b - k + 6) % 6 = (a + 1) % 6
    BY <1>0, <2>1, <2>2 DEF Dir
  <2> HIDE DEF k
  <2> QED
    BY <1>1, <1>3, <2>3
<1>4. ASSUME NEW a \in Gaps(D), NEW b \in Gaps(D), NextOver(D, a) = n, NextOver(D, b) = n
      PROVE  a = b
  <2>1. a \in Dir /\ b \in Dir
    BY <1>1, <1>4
  <2>2. (a - n + 6) % 6 = (b - n + 6) % 6
    <3>1. (a - n + 6) % 6 \in Int /\ (b - n + 6) % 6 \in Int
      BY <1>0, <2>1 DEF Dir
    <3> QED
      BY <1>3, <1>4, <3>1
  <2> QED
    BY <1>0, <2>1, <2>2 DEF Dir
<1>5. ASSUME (n + 1) % 6 \notin D
      PROVE  \E a \in Gaps(D) : NextOver(D, a) = n
  <2> DEFINE V == {k \in Dir : (n + k + 1) % 6 \in D}
  <2>1. 5 \in V
    BY <1>0 DEF Dir
  <2>2. PICK k \in V : \A j \in V : k <= j
    <3> HIDE DEF V
    <3>1. V \in SUBSET Dir /\ V # {}
      BY <2>1 DEF V
    <3> QED
      BY <3>1, LeastDir
  <2>3. k \in Dir /\ k # 0 /\ (n + k + 1) % 6 \in D
    BY <1>0, <1>5, <2>2 DEF Dir
  <2>4. \A j \in Dir : j < k => (n + j + 1) % 6 \notin D
    <3> TAKE j \in Dir
    <3>1. j \in Int /\ k \in Int
      BY <2>3 DEF Dir
    <3> QED
      BY <2>2, <3>1
  <2> DEFINE a == (n + k) % 6
  <2>5. /\ a \in Dir /\ (a + 1) % 6 = (n + k + 1) % 6 /\ (a - n + 6) % 6 = k
    BY <1>0, <2>3 DEF Dir
  <2>6. a \notin D
    <3> DEFINE j == k - 1
    <3>1. j \in Dir /\ j < k /\ (n + j + 1) % 6 = a
      BY <1>0, <2>3 DEF Dir
    <3> QED
      BY <2>4, <3>1
  <2>7. a \in Gaps(D)
    BY <2>3, <2>5, <2>6 DEF Gaps
  <2>8. NextOver(D, a) = n
    <3> DEFINE m == NextOver(D, a)
               j == k - ((a - m + 6) % 6) - 1
    <3>1. m \in D /\ m \in Dir
      BY <1>0, <2>5, NextOverIs
    <3>2. ~ (k < (a - m + 6) % 6)
      <4>1. \A i \in Dir : i < (a - m + 6) % 6 => (a - i + 6) % 6 \notin D
        BY <1>0, <2>5, NextOverIs
      <4>2. (a - k + 6) % 6 = n
        BY <1>0, <2>3 DEF Dir
      <4> QED
        BY <2>3, <4>1, <4>2
    <3> HIDE DEF m
    <3>3. ASSUME (a - m + 6) % 6 # k
          PROVE  j \in Dir /\ j < k /\ (n + j + 1) % 6 = m
      BY <1>0, <2>3, <3>1, <3>2, <3>3 DEF Dir
    <3>4. (a - m + 6) % 6 = k
      BY <2>4, <3>1, <3>3
    <3>5. m = n
      BY <1>0, <2>3, <3>1, <3>4 DEF Dir
    <3> QED
      BY <3>5 DEF m
  <2> QED
    BY <2>7, <2>8
<1> QED
  BY <1>2, <1>4, <1>5

\* There are three at most, and the numbering of NewAgents has each of them.
LEMMA GapsCount ==
  ASSUME NEW D \in SUBSET Dir
  PROVE  /\ IsFiniteSet(Gaps(D)) /\ Cardinality(Gaps(D)) \in 0 .. 3
         /\ D \notin {{}, Dir} => Gaps(D) # {}
         /\ Gaps(D) # {} => Cardinality(Gaps(D)) # 0
         /\ \A k \in 1 .. Cardinality(Gaps(D)) :
              \E d \in Gaps(D) : Cardinality({e \in Gaps(D) : e < d}) = k - 1
         /\ \A d \in Gaps(D) : Cardinality({e \in Gaps(D) : e < d}) + 1 \in 1 .. Cardinality(Gaps(D))
         /\ \A d, f \in Gaps(D) :
              Cardinality({e \in Gaps(D) : e < d}) = Cardinality({e \in Gaps(D) : e < f}) => d = f
<1> DEFINE A == Gaps(D)
           c(i) == Cardinality({e \in A : e < i})
<1>1. A \subseteq Dir /\ \A d \in A : (d + 1) % 6 \notin A
  BY DEF Gaps
<1>2. IsFiniteSet(Dir)
  <2>1. 0 \in Int /\ 5 \in Int
    OBVIOUS
  <2> QED
    BY <2>1, FS_Interval, Zenon DEF Dir
<1>3. \A i : IsFiniteSet({e \in A : e < i})
  <2>1. \A i : {e \in A : e < i} \subseteq Dir
    BY <1>1
  <2> QED
    BY <1>2, <2>1, FS_Subset
<1>10. D \notin {{}, Dir} => A # {}
  <2>1. SUFFICES ASSUME A = {}, NEW d \in D PROVE \A e \in Dir : e \in D
    OBVIOUS
  <2>2. \A e \in Dir : (e + 1) % 6 \in D => e \in D
    BY <2>1 DEF Gaps
  <2>3. /\ 0 \in D => 5 \in D
        /\ 1 \in D => 0 \in D
        /\ 2 \in D => 1 \in D
        /\ 3 \in D => 2 \in D
        /\ 4 \in D => 3 \in D
        /\ 5 \in D => 4 \in D
    BY <2>2 DEF Dir
  <2>4. d = 0 \/ d = 1 \/ d = 2 \/ d = 3 \/ d = 4 \/ d = 5
    BY DEF Dir
  <2>5. 0 \in D /\ 1 \in D /\ 2 \in D /\ 3 \in D /\ 4 \in D /\ 5 \in D
    BY <2>3, <2>4
  <2> QED
    BY <2>5 DEF Dir
<1> HIDE DEF A
<1>4. {e \in A : e < 0} = {} /\ {e \in A : e < 6} = A
  <2>1. \A e \in Dir : ~ (e < 0) /\ e < 6
    BY DEF Dir
  <2> QED
    BY <1>1, <2>1
<1>5. c(0) = 0 /\ c(6) = Cardinality(A)
  BY <1>4, FS_EmptySet
<1>6. ASSUME NEW i \in Dir
      PROVE  c(i + 1) = c(i) + (IF i \in A THEN 1 ELSE 0)
  <2>0. /\ ~ (i < i)
        /\ \A e \in Dir : e < i + 1 <=> (e < i \/ e = i)
    BY DEF Dir
  <2>1. CASE i \in A
    <3>1. {e \in A : e < i + 1} = {e \in A : e < i} \cup {i} /\ i \notin {e \in A : e < i}
      BY <1>1, <2>0, <2>1
    <3> QED
      BY <1>3, <2>1, <3>1, FS_AddElement
  <2>2. CASE i \notin A
    <3>1. {e \in A : e < i + 1} = {e \in A : e < i}
      BY <1>1, <2>0, <2>2
    <3>2. c(i) \in Nat
      BY <1>3, FS_CardinalityType
    <3> QED
      BY <2>2, <3>1, <3>2
  <2> QED
    BY <2>1, <2>2
<1>7. /\ c(1) = c(0) + (IF 0 \in A THEN 1 ELSE 0)
      /\ c(2) = c(1) + (IF 1 \in A THEN 1 ELSE 0)
      /\ c(3) = c(2) + (IF 2 \in A THEN 1 ELSE 0)
      /\ c(4) = c(3) + (IF 3 \in A THEN 1 ELSE 0)
      /\ c(5) = c(4) + (IF 4 \in A THEN 1 ELSE 0)
      /\ c(6) = c(5) + (IF 5 \in A THEN 1 ELSE 0)
  <2>1. /\ 0 + 1 = 1 /\ 1 + 1 = 2 /\ 2 + 1 = 3 /\ 3 + 1 = 4 /\ 4 + 1 = 5 /\ 5 + 1 = 6
        /\ 0 \in Dir /\ 1 \in Dir /\ 2 \in Dir /\ 3 \in Dir /\ 4 \in Dir /\ 5 \in Dir
    BY DEF Dir
  <2> HIDE DEF c
  <2> QED
    BY <1>6, <2>1
<1>8. \A d \in A : d = 0 \/ d = 1 \/ d = 2 \/ d = 3 \/ d = 4 \/ d = 5
  BY <1>1 DEF Dir
<1>9. /\ ~ (0 \in A /\ 1 \in A) /\ ~ (2 \in A /\ 3 \in A) /\ ~ (4 \in A /\ 5 \in A)
  <2>1. (0 + 1) % 6 = 1 /\ (2 + 1) % 6 = 3 /\ (4 + 1) % 6 = 5
    OBVIOUS
  <2> QED
    BY <1>1, <2>1
<1>11. A # {} => 0 \in A \/ 1 \in A \/ 2 \in A \/ 3 \in A \/ 4 \in A \/ 5 \in A
  BY <1>8
<1>12. IsFiniteSet(A)
  BY <1>3, <1>4
<1> HIDE DEF c
<1> DEFINE n == Cardinality(A)
<1>13. /\ n \in 0 .. 3 /\ (A # {} => n # 0)
       /\ \A i \in Dir : c(i) \in Int
  BY <1>5, <1>7, <1>9, <1>11 DEF Dir
<1>14. ASSUME NEW k \in 1 .. n
       PROVE  \E d \in A : c(d) = k - 1
  <2>1. n = c(6) /\ k \in 1 .. 3 /\ k <= n
    BY <1>5, <1>13
  <2> HIDE DEF n
  <2> QED
    BY <1>5, <1>7, <2>1
<1>15. ASSUME NEW d \in A
       PROVE  c(d) + 1 \in 1 .. n
  <2>1. n = c(6)
    BY <1>5
  <2> HIDE DEF n
  <2> QED
    BY <1>5, <1>7, <1>8, <2>1
<1>16. ASSUME NEW d \in A, NEW f \in A, c(d) = c(f)
       PROVE  d = f
  BY <1>5, <1>7, <1>8, <1>16
<1> QED
  BY <1>10, <1>12, <1>13, <1>14, <1>15, <1>16 DEF A, c, n

\* Counting is the same in the instance.
LEMMA AgentCounts == \A S : LE!Cardinality(S) = Cardinality(S)
  BY DEF LE!Cardinality, Cardinality

\* The agents that a particle starts with: one for each gap among its
\* neighbours, three at most, so that no assertion of activate() fails.
LEMMA NewAgentsAre ==
  ASSUME NEW p, NEW D, D = LE!NbrDirs(p), D \notin {{}, Dir}
  PROVE  /\ D \in SUBSET Dir
         /\ \E n \in 1 .. 3 : DOMAIN LE!NewAgents(p) = 1 .. n /\ Len(LE!NewAgents(p)) = n
         /\ LE!NewAgents(p) \in Seq(LE!Agent)
         /\ \A k \in DOMAIN LE!NewAgents(p) :
              LET a == LE!NewAgents(p)[k]
              IN  /\ a.agentDir \in Gaps(D) /\ a.flags = {}
                  /\ a.nextAgentDir = NextOver(D, a.agentDir)
                  /\ a.prevAgentDir = (a.agentDir + 1) % 6
         /\ \A d \in Gaps(D) : \E k \in DOMAIN LE!NewAgents(p) : LE!NewAgents(p)[k].agentDir = d
         /\ \A k, l \in DOMAIN LE!NewAgents(p) :
              LE!NewAgents(p)[k].agentDir = LE!NewAgents(p)[l].agentDir => k = l
<1> DEFINE A == LE!AgentDirs(p)
           N == LE!NewAgents(p)
           n == Cardinality(A)
           c(d) == Cardinality({e \in A : e < d})
           nth(k) == CHOOSE d \in A : c(d) = k - 1
<1>1. D \in SUBSET Dir
  BY AgentBodies DEF LE!NbrDirs
<1>2. A = Gaps(D)
  BY AgentBodies DEF LE!AgentDirs, Gaps
<1>3. /\ n \in 1 .. 3
      /\ \A k \in 1 .. n : \E d \in A : c(d) = k - 1
      /\ \A d \in A : c(d) + 1 \in 1 .. n
      /\ \A d, f \in A : c(d) = c(f) => d = f
  <2> HIDE DEF A
  <2>1. n \in 0 .. 3 /\ n # 0
    BY <1>1, <1>2, GapsCount
  <2>2. n \in 1 .. 3
    BY <2>1
  <2> QED
    BY <1>1, <1>2, <2>2, GapsCount
<1>4. N = [k \in 1 .. n |-> LE!NewAgent(p, nth(k), k)]
  BY Zenon DEF LE!NewAgents, LE!Cardinality, Cardinality
<1>5. A \subseteq Dir
  BY <1>2 DEF Gaps
<1> HIDE DEF A, n, c
<1>6. \A k \in 1 .. n : nth(k) \in A /\ c(nth(k)) = k - 1
  BY <1>3
<1> HIDE DEF nth
<1>7. ASSUME NEW d \in A
      PROVE  /\ LE!NextAgentDir(p, d) = NextOver(D, d) /\ NextOver(D, d) \in Dir
             /\ LE!PrevAgentDir(p, d) = (d + 1) % 6 /\ (d + 1) % 6 \in Dir
  <2>1. d \in Dir /\ D # {} /\ d \in Gaps(D)
    BY <1>2, <1>5
  <2>2. LE!NextAgentDir(p, d) = NextOver(D, d)
    BY DEF LE!NextAgentDir, NextOver
  <2>3. NextOver(D, d) \in Dir
    BY <1>1, <2>1, NextOverIs
  <2>4. LE!PrevAgentDir(p, d) = (d + 1) % 6
    BY <1>1, <2>1, PrevOverIs, AgentBodies DEF LE!PrevAgentDir
  <2>5. (d + 1) % 6 \in Dir
    BY <2>1 DEF Dir
  <2> QED
    BY <2>2, <2>3, <2>4, <2>5
<1>8. ASSUME NEW k \in 1 .. n
      PROVE  /\ N[k] = LE!NewAgent(p, nth(k), k)
             /\ N[k] \in LE!Agent
             /\ N[k].agentDir = nth(k) /\ nth(k) \in A /\ N[k].flags = {}
             /\ N[k].nextAgentDir = NextOver(D, nth(k))
             /\ N[k].prevAgentDir = (nth(k) + 1) % 6
  <2>1. N[k] = LE!NewAgent(p, nth(k), k)
    BY <1>4
  <2>2. nth(k) \in A /\ nth(k) \in Dir /\ k \in 1 .. 3
    BY <1>3, <1>5, <1>6
  <2>3. N[k] = [localId |-> k, agentDir |-> nth(k), nextAgentDir |-> NextOver(D, nth(k)),
                prevAgentDir |-> (nth(k) + 1) % 6, agentState |-> "Candidate",
                subPhase |-> "SegmentComparison", flags |-> {}]
    BY <1>7, <2>1, <2>2 DEF LE!NewAgent
  <2>4. N[k] \in LE!Agent
    BY <1>7, <2>2, <2>3, AgentBodies DEF LE!Agent, LE!States, LE!Flags
  <2> QED
    BY <2>1, <2>2, <2>3, <2>4
<1>9. DOMAIN N = 1 .. n /\ Len(N) = n /\ N \in Seq(LE!Agent)
  <2>1. n \in Nat
    BY <1>3
  <2>2. N \in [1 .. n -> LE!Agent]
    BY <1>4, <1>8
  <2> HIDE DEF N
  <2> QED
    BY <2>1, <2>2
<1>10. ASSUME NEW d \in A
       PROVE  \E k \in 1 .. n : N[k].agentDir = d
  <2>1. c(d) + 1 \in 1 .. n /\ c(nth(c(d) + 1)) = (c(d) + 1) - 1 /\ nth(c(d) + 1) \in A
    BY <1>3, <1>6
  <2>2. c(d) \in Int
    <3>1. IsFiniteSet(A) /\ {e \in A : e < d} \subseteq A
      BY <1>1, <1>2, GapsCount
    <3> QED
      BY <3>1, FS_CardinalityType, FS_Subset DEF c
  <2>3. nth(c(d) + 1) = d
    BY <1>3, <2>1, <2>2
  <2> QED
    BY <1>8, <2>1, <2>3
<1>11. ASSUME NEW k \in 1 .. n, NEW l \in 1 .. n, N[k].agentDir = N[l].agentDir
       PROVE  k = l
  <2>1. k - 1 = l - 1
    BY <1>6, <1>8, <1>11
  <2> QED
    BY <2>1
<1>12. \E m \in 1 .. 3 : DOMAIN N = 1 .. m /\ Len(N) = m
  <2>1. n \in 1 .. 3 /\ DOMAIN N = 1 .. n /\ Len(N) = n
    BY <1>3, <1>9
  <2> QED
    BY <2>1
<1>13. \A d \in Gaps(D) : \E k \in DOMAIN N : N[k].agentDir = d
  BY <1>2, <1>9, <1>10
<1>14. \A k, l \in DOMAIN N : N[k].agentDir = N[l].agentDir => k = l
  BY <1>9, <1>11
<1>15. \A k \in DOMAIN N :
         /\ N[k].agentDir \in Gaps(D) /\ N[k].flags = {}
         /\ N[k].nextAgentDir = NextOver(D, N[k].agentDir)
         /\ N[k].prevAgentDir = (N[k].agentDir + 1) % 6
  BY <1>2, <1>8, <1>9
<1> QED
  BY <1>1, <1>9, <1>12, <1>13, <1>14, <1>15

\* The directions of an agent, which it keeps.
SameAgent(a, b) ==
  /\ a.localId = b.localId /\ a.agentDir = b.agentDir
  /\ a.nextAgentDir = b.nextAgentDir /\ a.prevAgentDir = b.prevAgentDir

\* An agent stands between two neighbours, and there is one at each end of a
\* row of neighbours.
LEMMA AgentsBetween ==
  ASSUME NEW p, NEW D, D = LE!NbrDirs(p), D \notin {{}, Dir},
         NEW as, DOMAIN as = DOMAIN LE!NewAgents(p),
         \A k \in DOMAIN as : SameAgent(as[k], LE!NewAgents(p)[k])
  PROVE  /\ \A k \in DOMAIN as :
              /\ as[k].nextAgentDir \in D /\ (as[k].nextAgentDir + 1) % 6 \notin D
              /\ as[k].prevAgentDir \in D /\ (as[k].prevAgentDir + 5) % 6 \notin D
         /\ \A d \in D : (d + 1) % 6 \notin D =>
              \E i \in DOMAIN as : \A k \in DOMAIN as : as[k].nextAgentDir = d <=> k = i
         /\ \A d \in D : (d + 5) % 6 \notin D =>
              \E i \in DOMAIN as : \A k \in DOMAIN as : as[k].prevAgentDir = d <=> k = i
<1>0. D \in SUBSET Dir /\ D # {}
  BY NewAgentsAre
<1> DEFINE N == LE!NewAgents(p)
<1>8. /\ \A k \in DOMAIN N : /\ N[k].agentDir \in Gaps(D)
                             /\ N[k].nextAgentDir = NextOver(D, N[k].agentDir)
                             /\ N[k].prevAgentDir = (N[k].agentDir + 1) % 6
      /\ \A d \in Gaps(D) : \E k \in DOMAIN N : N[k].agentDir = d
      /\ \A k, l \in DOMAIN N : N[k].agentDir = N[l].agentDir => k = l
  BY NewAgentsAre
<1>9. DOMAIN as = DOMAIN N /\ \A k \in DOMAIN N : SameAgent(as[k], N[k])
  OBVIOUS
<1> HIDE DEF N
<1>1. \A k \in DOMAIN as :
        /\ as[k].agentDir \in Gaps(D)
        /\ as[k].nextAgentDir = NextOver(D, as[k].agentDir)
        /\ as[k].prevAgentDir = (as[k].agentDir + 1) % 6
  BY <1>8, <1>9 DEF SameAgent
<1>2. \A d \in Gaps(D) : \E k \in DOMAIN as : as[k].agentDir = d
  <2> TAKE d \in Gaps(D)
  <2>1. PICK k \in DOMAIN N : N[k].agentDir = d
    BY <1>8
  <2>2. k \in DOMAIN as /\ as[k].agentDir = d
    BY <1>9, <2>1 DEF SameAgent
  <2> QED
    BY <2>2
<1>3. \A k, l \in DOMAIN as : as[k].agentDir = as[l].agentDir => k = l
  BY <1>8, <1>9 DEF SameAgent
<1>4. \A a \in Gaps(D) : /\ a \in Dir /\ a \notin D /\ (a + 1) % 6 \in D
                         /\ (((a + 1) % 6) + 5) % 6 = a
                         /\ NextOver(D, a) \in D
  <2> TAKE a \in Gaps(D)
  <2>1. a \in Dir /\ a \notin D /\ (a + 1) % 6 \in D
    BY DEF Gaps
  <2>2. (((a + 1) % 6) + 5) % 6 = a
    BY <2>1 DEF Dir
  <2> QED
    BY <1>0, <2>1, <2>2, NextOverIs
<1>5. ASSUME NEW k \in DOMAIN as
      PROVE  /\ as[k].nextAgentDir \in D /\ (as[k].nextAgentDir + 1) % 6 \notin D
             /\ as[k].prevAgentDir \in D /\ (as[k].prevAgentDir + 5) % 6 \notin D
  <2>1. as[k].nextAgentDir \in D
    BY <1>1, <1>4
  <2>2. (as[k].nextAgentDir + 1) % 6 \notin D
    BY <1>0, <1>1, <2>1, GapBehind
  <2>3. as[k].prevAgentDir \in D /\ (as[k].prevAgentDir + 5) % 6 \notin D
    BY <1>1, <1>4
  <2> QED
    BY <2>1, <2>2, <2>3
<1>6. ASSUME NEW d \in D, (d + 1) % 6 \notin D
      PROVE  \E i \in DOMAIN as : \A k \in DOMAIN as : as[k].nextAgentDir = d <=> k = i
  <2>1. PICK a \in Gaps(D) : NextOver(D, a) = d
    BY <1>0, <1>6, GapBehind
  <2>2. PICK i \in DOMAIN as : as[i].agentDir = a
    BY <1>2
  <2>3. \A k \in DOMAIN as : as[k].nextAgentDir = d => as[k].agentDir = a
    BY <1>0, <1>1, <2>1, GapBehind
  <2>4. \A k \in DOMAIN as : as[k].nextAgentDir = d <=> k = i
    BY <1>1, <1>3, <2>1, <2>2, <2>3
  <2> QED
    BY <2>4
<1>7. ASSUME NEW d \in D, (d + 5) % 6 \notin D
      PROVE  \E i \in DOMAIN as : \A k \in DOMAIN as : as[k].prevAgentDir = d <=> k = i
  <2> DEFINE a == (d + 5) % 6
  <2>1. a \in Gaps(D) /\ (a + 1) % 6 = d
    <3>1. a \in Dir /\ (a + 1) % 6 = d
      BY <1>0 DEF Dir
    <3> QED
      BY <1>7, <3>1 DEF Gaps
  <2>2. PICK i \in DOMAIN as : as[i].agentDir = a
    BY <1>2, <2>1
  <2>3. \A k \in DOMAIN as : as[k].prevAgentDir = d => as[k].agentDir = a
    BY <1>1, <1>4
  <2>4. \A k \in DOMAIN as : as[k].prevAgentDir = d <=> k = i
    BY <1>1, <1>3, <2>1, <2>2, <2>3
  <2> QED
    BY <2>4
<1> QED
  BY <1>5, <1>6, <1>7

-----------------------------------------------------------------------------
(* What an activation of an agent keeps                                    *)

\* The tokens a particle may hold: each for an agent that it has, or will have.
Letters(p) ==
  {t \in LE!Token :
     /\ t.origin \in LE!NbrDirs(p)
     /\ IF LE!GoesAhead(t) THEN (t.origin + 5) % 6 \notin LE!NbrDirs(p)
                           ELSE (t.origin + 1) % 6 \notin LE!NbrDirs(p)}
Mails == {f \in [LE!particles -> Seq(LE!Token)] : \A q \in LE!particles : f[q] \in Seq(Letters(q))}

\* The agent a of p stands between two of its neighbours.
Stands(p, a) ==
  /\ Placed
  /\ p \in LE!particles
  /\ a.nextAgentDir \in LE!NbrDirs(p) /\ (a.nextAgentDir + 1) % 6 \notin LE!NbrDirs(p)
  /\ a.prevAgentDir \in LE!NbrDirs(p) /\ (a.prevAgentDir + 5) % 6 \notin LE!NbrDirs(p)

\* What the agent a of p may make of itself and of the tokens.
Acting(p, a) ==
  {s \in [p : {p}, a : LE!Agent, tokens : Mails] :
     /\ SameAgent(s.a, a)
     /\ s.a.agentState = "Candidate" => /\ a.agentState = "Candidate"
                                        /\ "absorbedActiveToken" \notin s.a.flags}

\* Tokens on their way to the next agent and to the previous one, wherever
\* they came from.
Envelope ==
  [type : LE!Types, origin : {-1} \cup Dir, flag : BOOLEAN, number : -1..4, turn : Dir]
Outgoing  == {t \in Envelope : LE!GoesAhead(t)}
Returning == {t \in Envelope : ~ LE!GoesAhead(t)}

AheadTypes ==
  {"SegmentLead", "PassiveSegmentClean", "FinalSegmentClean", "CandidacyAnnounce", "BorderTest"}
BackTypes ==
  {"PassiveSegment", "ActiveSegment", "ActiveSegmentClean", "CandidacyAck",
   "PositiveX", "PositiveY", "NegativeX", "NegativeY"}

\* The type of a token says which way it goes, but for the solitude token,
\* which goes back once it has been given an identifier.
LEMMA WaysOfTokens ==
  /\ AheadTypes \subseteq LE!Types /\ BackTypes \subseteq LE!Types
  /\ \A t \in Envelope : /\ t.type \in AheadTypes => t \in Outgoing
                         /\ t.type \in BackTypes => t \in Returning
                         /\ t.type = "SolitudeActive" =>
                              t \in (IF t.number = -1 THEN Outgoing ELSE Returning)
  /\ \A type \in LE!Types : \A flag \in BOOLEAN :
       /\ LE!NewToken(type) \in Envelope /\ LE!Flagged(type, flag) \in Envelope
       /\ LE!NewToken(type).type = type
       /\ LE!Flagged(type, flag).type = type /\ LE!Flagged(type, flag).number = -1
  /\ LE!Token \subseteq Envelope
<1>1. AheadTypes \subseteq LE!Types /\ BackTypes \subseteq LE!Types
  BY DEF AheadTypes, BackTypes, LE!Types, LE!VectorTokens
<1>2. \A t \in Envelope : /\ t.type \in AheadTypes => t \in Outgoing
                          /\ t.type \in BackTypes => t \in Returning
                          /\ t.type = "SolitudeActive" =>
                               t \in (IF t.number = -1 THEN Outgoing ELSE Returning)
  BY DEF Outgoing, Returning, AheadTypes, BackTypes, LE!GoesAhead
<1>3. \A type \in LE!Types : \A flag \in BOOLEAN :
        /\ LE!NewToken(type) \in Envelope /\ LE!Flagged(type, flag) \in Envelope
        /\ LE!NewToken(type).type = type
        /\ LE!Flagged(type, flag).type = type /\ LE!Flagged(type, flag).number = -1
  BY DEF Envelope, LE!NewToken, LE!Flagged, Dir
<1>4. LE!Token \subseteq Envelope
  BY AgentBodies DEF LE!Token, Envelope
<1> QED
  BY <1>1, <1>2, <1>3, <1>4

\* A token that is found is one of the queue, and taking it leaves the others
\* (takeToken).
LEMMA TokenFound ==
  ASSUME NEW S, NEW queue \in Seq(S), NEW type, NEW dir, LE!HasAgentToken(queue, type, dir)
  PROVE  /\ LE!PeekAgentToken(queue, type, dir) \in S
         /\ LE!PeekAgentToken(queue, type, dir).type = type
         /\ LE!PeekAgentToken(queue, type, dir).origin = dir
         /\ LE!TakeAgentToken(queue, type, dir) \in Seq(S)
         /\ LE!Min(LE!Positions(queue, type, dir)) \in LE!Positions(queue, type, dir)
<1> DEFINE I == LE!Positions(queue, type, dir)
           i == LE!Min(I)
<1>1. I \subseteq DOMAIN queue /\ I # {} /\ DOMAIN queue = 1 .. Len(queue)
  BY DEF LE!HasAgentToken, LE!Positions
<1>2. I \in SUBSET Nat
  <2> HIDE DEF I
  <2> QED
    BY <1>1
<1>3. i \in I
  <2> HIDE DEF I
  <2>1. \E x \in I : \A y \in I : x <= y
    BY <1>1, <1>2, NatLeast
  <2> QED
    BY <2>1 DEF LE!Min
<1>4. queue[i].type = type /\ queue[i].origin = dir /\ i \in 1 .. Len(queue)
  BY <1>1, <1>3 DEF LE!Positions
<1> HIDE DEF i
<1>5. queue[i] \in S /\ Head(queue) \in S /\ Len(queue) \in Nat /\ Len(queue) > 0
  BY <1>4
<1> DEFINE w == [queue EXCEPT ![i] = Head(queue)]
<1>6. w \in Seq(S) /\ w # << >>
  <2>1. w \in [1 .. Len(queue) -> S]
    BY <1>4, <1>5
  <2>2. w \in Seq(S) /\ Len(w) = Len(queue)
    BY <1>5, <2>1
  <2> QED
    BY <1>5, <2>2
<1>7. Tail(w) \in Seq(S)
  <2> HIDE DEF w
  <2> QED
    BY <1>6
<1> QED
  BY <1>3, <1>4, <1>5, <1>7 DEF LE!PeekAgentToken, LE!TakeAgentToken, i

\* A queue is changed.
LEMMA MailChanged ==
  ASSUME NEW f \in Mails, NEW q \in LE!particles, NEW w \in Seq(Letters(q))
  PROVE  [f EXCEPT ![q] = w] \in Mails
<1>1. Letters(q) \subseteq LE!Token
  BY DEF Letters
<1>2. w \in Seq(LE!Token)
  BY <1>1
<1> QED
  BY <1>2 DEF Mails

\* The fields of what acts.
LEMMA ActingType ==
  ASSUME NEW p, NEW a, Stands(p, a), NEW s \in Acting(p, a)
  PROVE  /\ s.p = p /\ s.a \in LE!Agent /\ SameAgent(s.a, a) /\ s.tokens \in Mails
         /\ LE!Queue(s) \in Seq(Letters(p)) /\ Letters(p) \subseteq LE!Token
         /\ s.a.nextAgentDir = a.nextAgentDir /\ s.a.prevAgentDir = a.prevAgentDir
         /\ s.a.localId \in 1 .. 3
         /\ s.a.agentState = "Candidate" => /\ a.agentState = "Candidate"
                                            /\ "absorbedActiveToken" \notin s.a.flags
<1>1. /\ s.p = p /\ s.a \in LE!Agent /\ SameAgent(s.a, a) /\ s.tokens \in Mails
      /\ s.a.agentState = "Candidate" => /\ a.agentState = "Candidate"
                                         /\ "absorbedActiveToken" \notin s.a.flags
  BY DEF Acting
<1>2. LE!Queue(s) \in Seq(Letters(p)) /\ Letters(p) \subseteq LE!Token
  BY <1>1 DEF Stands, Mails, LE!Queue, Letters
<1>3. /\ s.a.nextAgentDir = a.nextAgentDir /\ s.a.prevAgentDir = a.prevAgentDir
      /\ s.a.localId \in 1 .. 3
  BY <1>1 DEF SameAgent, LE!Agent
<1> QED
  BY <1>1, <1>2, <1>3

\* A change of the tokens alone.
LEMMA TokensChanged ==
  ASSUME NEW p, NEW a, Stands(p, a), NEW s \in Acting(p, a),
         NEW q \in LE!particles, NEW w \in Seq(Letters(q))
  PROVE  [s EXCEPT !.tokens[q] = w] \in Acting(p, a)
<1>1. [s.tokens EXCEPT ![q] = w] \in Mails
  BY ActingType, MailChanged
<1>2. [s EXCEPT !.tokens[q] = w] = [s EXCEPT !.tokens = [s.tokens EXCEPT ![q] = w]]
  BY DEF Acting
<1> QED
  BY <1>1, <1>2 DEF Acting

\* What is found there, and taken away.
LEMMA Taking ==
  ASSUME NEW p, NEW a, Stands(p, a), NEW s \in Acting(p, a), NEW type
  PROVE  /\ LE!AtNext(s, type) => /\ LE!NextToken(s, type) \in Letters(p)
                                  /\ LE!NextToken(s, type) \in Envelope
                                  /\ LE!NextToken(s, type).type = type
                                  /\ LE!TakeNext(s, type) \in Acting(p, a)
         /\ LE!AtPrev(s, type) => /\ LE!PrevToken(s, type) \in Letters(p)
                                  /\ LE!PrevToken(s, type) \in Envelope
                                  /\ LE!PrevToken(s, type).type = type
                                  /\ LE!TakePrev(s, type) \in Acting(p, a)
         /\ LE!DropNext(s, type) \in Acting(p, a)
         /\ LE!DropPrev(s, type) \in Acting(p, a)
<1>1. /\ s.p = p /\ LE!Queue(s) \in Seq(Letters(p)) /\ Letters(p) \subseteq Envelope
      /\ p \in LE!particles /\ LE!Queue(s) = s.tokens[p]
  BY ActingType, WaysOfTokens DEF Stands, LE!Queue
<1>2. ASSUME LE!AtNext(s, type)
      PROVE  /\ LE!NextToken(s, type) \in Letters(p)
             /\ LE!NextToken(s, type).type = type
             /\ LE!TakeNext(s, type) \in Acting(p, a)
  <2> DEFINE w == LE!TakeAgentToken(s.tokens[s.p], type, s.a.nextAgentDir)
  <2>1. w \in Seq(Letters(p)) /\ LE!NextToken(s, type) \in Letters(p) /\ LE!NextToken(s, type).type = type
    BY <1>1, <1>2, TokenFound DEF LE!AtNext, LE!NextToken
  <2>2. LE!TakeNext(s, type) = [s EXCEPT !.tokens[p] = w]
    BY <1>1 DEF LE!TakeNext
  <2> HIDE DEF w
  <2>3. [s EXCEPT !.tokens[p] = w] \in Acting(p, a)
    BY <1>1, <2>1, TokensChanged
  <2> QED
    BY <2>1, <2>2, <2>3
<1>3. ASSUME LE!AtPrev(s, type)
      PROVE  /\ LE!PrevToken(s, type) \in Letters(p)
             /\ LE!PrevToken(s, type).type = type
             /\ LE!TakePrev(s, type) \in Acting(p, a)
  <2> DEFINE w == LE!TakeAgentToken(s.tokens[s.p], type, s.a.prevAgentDir)
  <2>1. w \in Seq(Letters(p)) /\ LE!PrevToken(s, type) \in Letters(p) /\ LE!PrevToken(s, type).type = type
    BY <1>1, <1>3, TokenFound DEF LE!AtPrev, LE!PrevToken
  <2>2. LE!TakePrev(s, type) = [s EXCEPT !.tokens[p] = w]
    BY <1>1 DEF LE!TakePrev
  <2> HIDE DEF w
  <2>3. [s EXCEPT !.tokens[p] = w] \in Acting(p, a)
    BY <1>1, <2>1, TokensChanged
  <2> QED
    BY <2>1, <2>2, <2>3
<1> QED
  BY <1>1, <1>2, <1>3 DEF LE!DropNext, LE!DropPrev

\* A token that is passed, either way, comes to where its agent looks for it
\* (passAgentToken, putToken).
LEMMA Passing ==
  ASSUME NEW p, NEW a, Stands(p, a), NEW s \in Acting(p, a)
  PROVE  /\ \A t \in Outgoing : LE!PassNext(s, t) \in Acting(p, a)
         /\ \A t \in Returning : /\ LE!PassPrev(s, t) \in Acting(p, a)
                                 /\ LE!PutOwn(s, t) \in Acting(p, a)
<1>1. /\ s.p = p /\ p \in LE!particles /\ Placed /\ s.tokens \in Mails
      /\ s.a.nextAgentDir = a.nextAgentDir /\ s.a.prevAgentDir = a.prevAgentDir
  BY ActingType DEF Stands
<1>2. ASSUME NEW t \in Envelope, NEW q \in LE!particles, NEW l \in LE!NbrDirs(q),
             IF LE!GoesAhead(t) THEN (l + 5) % 6 \notin LE!NbrDirs(q)
                                ELSE (l + 1) % 6 \notin LE!NbrDirs(q)
      PROVE  [s EXCEPT !.tokens[q] = Append(s.tokens[q], [t EXCEPT !.origin = l])] \in Acting(p, a)
  <2> DEFINE u == [t EXCEPT !.origin = l]
  <2>1. l \in Dir
    BY AgentBodies DEF LE!NbrDirs
  <2>2. u \in LE!Token /\ u.origin = l /\ (LE!GoesAhead(u) <=> LE!GoesAhead(t))
    BY <2>1, AgentBodies DEF Envelope, LE!Token, LE!GoesAhead
  <2>3. u \in Letters(q)
    BY <1>2, <2>2 DEF Letters
  <2>4. s.tokens[q] \in Seq(Letters(q))
    BY <1>1 DEF Mails
  <2> HIDE DEF u
  <2>5. Append(s.tokens[q], u) \in Seq(Letters(q))
    BY <2>3, <2>4
  <2>6. [s EXCEPT !.tokens[q] = Append(s.tokens[q], u)] \in Acting(p, a)
    BY <2>5, TokensChanged
  <2> QED
    BY <2>6 DEF u
<1>3. ASSUME NEW t \in Outgoing
      PROVE  LE!PassNext(s, t) \in Acting(p, a)
  <2> DEFINE q == LE!NbrAtLabel(p, a.nextAgentDir)
             l == LE!LabelTo(q, p)
  <2>1. q \in LE!particles /\ l \in LE!NbrDirs(q) /\ (l + 5) % 6 \notin LE!NbrDirs(q)
    BY <1>1, NbrBack DEF Stands
  <2>2. LE!PassNext(s, t) = [s EXCEPT !.tokens[q] = Append(s.tokens[q], [t EXCEPT !.origin = l])]
    BY <1>1 DEF LE!PassNext, LE!Pass
  <2>3. t \in Envelope /\ LE!GoesAhead(t)
    BY DEF Outgoing
  <2> HIDE DEF q, l
  <2> QED
    BY <1>2, <2>1, <2>2, <2>3
<1>4. ASSUME NEW t \in Returning
      PROVE  LE!PassPrev(s, t) \in Acting(p, a)
  <2> DEFINE q == LE!NbrAtLabel(p, a.prevAgentDir)
             l == LE!LabelTo(q, p)
  <2>1. q \in LE!particles /\ l \in LE!NbrDirs(q) /\ (l + 1) % 6 \notin LE!NbrDirs(q)
    BY <1>1, NbrBack DEF Stands
  <2>2. LE!PassPrev(s, t) = [s EXCEPT !.tokens[q] = Append(s.tokens[q], [t EXCEPT !.origin = l])]
    BY <1>1 DEF LE!PassPrev, LE!Pass
  <2>3. t \in Envelope /\ ~ LE!GoesAhead(t)
    BY DEF Returning
  <2> HIDE DEF q, l
  <2> QED
    BY <1>2, <2>1, <2>2, <2>3
<1>5. ASSUME NEW t \in Returning
      PROVE  LE!PutOwn(s, t) \in Acting(p, a)
  <2>1. /\ a.nextAgentDir \in LE!NbrDirs(p) /\ (a.nextAgentDir + 1) % 6 \notin LE!NbrDirs(p)
        /\ t \in Envelope /\ ~ LE!GoesAhead(t)
    BY DEF Stands, Returning
  <2>2. LE!PutOwn(s, t)
          = [s EXCEPT !.tokens[p] = Append(s.tokens[p], [t EXCEPT !.origin = a.nextAgentDir])]
    BY <1>1 DEF LE!PutOwn
  <2> QED
    BY <1>1, <1>2, <2>1, <2>2
<1> QED
  BY <1>3, <1>4, <1>5

\* Changes of the agent.
LEMMA AgentChanged ==
  ASSUME NEW p, NEW a, Stands(p, a), NEW s \in Acting(p, a)
  PROVE  /\ \A flags \in SUBSET LE!Flags :
              /\ ("absorbedActiveToken" \in flags => a.agentState # "Candidate") =>
                   LE!Raise(s, flags) \in Acting(p, a)
              /\ LE!Enter(LE!Raise(s, flags), "Demoted") \in Acting(p, a)
         /\ \A flags : LE!Lower(s, flags) \in Acting(p, a)
         /\ \A st \in {"SoleCandidate", "Demoted", "Leader", "Finished"} :
              LE!Enter(s, st) \in Acting(p, a)
         /\ \A phase \in {"SegmentComparison", "CoinFlipping", "SolitudeVerification"} :
              LE!EnterPhase(s, phase) \in Acting(p, a)
<1> DEFINE B == [localId : 1..3, agentDir : Dir, nextAgentDir : Dir, prevAgentDir : Dir,
                 agentState : {"Candidate", "SoleCandidate", "Demoted", "Leader", "Finished"},
                 flags : SUBSET LE!Flags,
                 subPhase : {"SegmentComparison", "CoinFlipping", "SolitudeVerification"}]
<1>1. LE!Agent = B
  BY AgentBodies DEF LE!Agent, LE!States
<1>2. \A b \in B : SameAgent(b, a) /\ (b.agentState = "Candidate" =>
         a.agentState = "Candidate" /\ "absorbedActiveToken" \notin b.flags) =>
         [s EXCEPT !.a = b] \in Acting(p, a)
  BY <1>1 DEF Acting
<1>3. /\ s.a \in B /\ SameAgent(s.a, a)
      /\ s.a.agentState = "Candidate" => a.agentState = "Candidate"
                                         /\ "absorbedActiveToken" \notin s.a.flags
      /\ s = [p |-> s.p, a |-> s.a, tokens |-> s.tokens]
  BY <1>1 DEF Acting
<1>4. ASSUME NEW flags \in SUBSET LE!Flags
      PROVE  /\ ("absorbedActiveToken" \in flags => a.agentState # "Candidate") =>
                  LE!Raise(s, flags) \in Acting(p, a)
             /\ LE!Enter(LE!Raise(s, flags), "Demoted") \in Acting(p, a)
  <2>1. LE!Raise(s, flags) = [s EXCEPT !.a = [s.a EXCEPT !.flags = s.a.flags \cup flags]]
    BY <1>3 DEF LE!Raise
  <2>2. LE!Enter(LE!Raise(s, flags), "Demoted")
          = [s EXCEPT !.a = [s.a EXCEPT !.flags = s.a.flags \cup flags, !.agentState = "Demoted"]]
    BY <1>3 DEF LE!Raise, LE!Enter
  <2>3. [s.a EXCEPT !.flags = s.a.flags \cup flags] \in B
    BY <1>3
  <2>4. [s.a EXCEPT !.flags = s.a.flags \cup flags, !.agentState = "Demoted"] \in B
    BY <1>3
  <2>5. ("absorbedActiveToken" \in flags => a.agentState # "Candidate") =>
          LE!Raise(s, flags) \in Acting(p, a)
    BY <1>2, <1>3, <2>1, <2>3 DEF SameAgent
  <2>6. LE!Enter(LE!Raise(s, flags), "Demoted") \in Acting(p, a)
    BY <1>2, <1>3, <2>2, <2>4 DEF SameAgent
  <2> QED
    BY <2>5, <2>6
<1>5. ASSUME NEW flags
      PROVE  LE!Lower(s, flags) \in Acting(p, a)
  <2>1. LE!Lower(s, flags) = [s EXCEPT !.a = [s.a EXCEPT !.flags = s.a.flags \ flags]]
    BY <1>3 DEF LE!Lower
  <2>2. [s.a EXCEPT !.flags = s.a.flags \ flags] \in B
    BY <1>3
  <2> QED
    BY <1>2, <1>3, <2>1, <2>2 DEF SameAgent
<1>6. ASSUME NEW st \in {"SoleCandidate", "Demoted", "Leader", "Finished"}
      PROVE  LE!Enter(s, st) \in Acting(p, a)
  <2>1. LE!Enter(s, st) = [s EXCEPT !.a = [s.a EXCEPT !.agentState = st]]
    BY <1>3 DEF LE!Enter
  <2>2. [s.a EXCEPT !.agentState = st] \in B /\ st # "Candidate"
    BY <1>3
  <2> QED
    BY <1>2, <1>3, <2>1, <2>2 DEF SameAgent
<1>7. ASSUME NEW phase \in {"SegmentComparison", "CoinFlipping", "SolitudeVerification"}
      PROVE  LE!EnterPhase(s, phase) \in Acting(p, a)
  <2>1. LE!EnterPhase(s, phase) = [s EXCEPT !.a = [s.a EXCEPT !.subPhase = phase]]
    BY <1>3 DEF LE!EnterPhase
  <2>2. [s.a EXCEPT !.subPhase = phase] \in B
    BY <1>3
  <2> QED
    BY <1>2, <1>3, <2>1, <2>2 DEF SameAgent
<1> QED
  BY <1>4, <1>5, <1>6, <1>7

\* A token that is only passed on.
LEMMA Moving ==
  ASSUME NEW p, NEW a, Stands(p, a), NEW s \in Acting(p, a)
  PROVE  /\ \A type \in AheadTypes : LE!AtPrev(s, type) => LE!MoveOn(s, type) \in Acting(p, a)
         /\ \A type \in BackTypes : LE!AtNext(s, type) => LE!MoveBack(s, type) \in Acting(p, a)
<1>1. ASSUME NEW type \in AheadTypes, LE!AtPrev(s, type)
      PROVE  LE!MoveOn(s, type) \in Acting(p, a)
  <2>1. LE!PrevToken(s, type) \in Outgoing /\ LE!TakePrev(s, type) \in Acting(p, a)
    BY <1>1, Taking, WaysOfTokens
  <2> QED
    BY <2>1, Passing DEF LE!MoveOn
<1>2. ASSUME NEW type \in BackTypes, LE!AtNext(s, type)
      PROVE  LE!MoveBack(s, type) \in Acting(p, a)
  <2>1. LE!NextToken(s, type) \in Returning /\ LE!TakeNext(s, type) \in Acting(p, a)
    BY <1>2, Taking, WaysOfTokens
  <2> QED
    BY <2>1, Passing DEF LE!MoveBack
<1> QED
  BY <1>1, <1>2

\* The types of the tokens that are cleaned away.
CleanedTypes ==
  {"ActiveSegment", "FinalSegmentClean", "SolitudeActive", "SegmentLead", "CandidacyAnnounce",
   "PassiveSegment", "CandidacyAck", "PositiveX", "PositiveY", "NegativeX", "NegativeY"}

\* Cleaning only takes such tokens away and lowers flags
\* (cleanSolitudeVerificationTokens, activeClean, passiveClean): it keeps what
\* these keep.
LEMMA CleaningOnly ==
  ASSUME NEW W, NEW s \in W,
         \A t \in W : \A type \in CleanedTypes : LE!DropNext(t, type) \in W /\ LE!DropPrev(t, type) \in W,
         \A t \in W : \A flags : LE!Lower(t, flags) \in W
  PROVE  /\ LE!CleanVectors(s) \in W
         /\ \A first : LE!ActiveClean(s, first) \in W
         /\ \A first : LE!PassiveClean(s, first) \in W
<1>0. \A t \in W : /\ LE!DropNext(t, "PositiveX") \in W /\ LE!DropNext(t, "PositiveY") \in W
                   /\ LE!DropNext(t, "NegativeX") \in W /\ LE!DropNext(t, "NegativeY") \in W
                   /\ LE!DropNext(t, "ActiveSegment") \in W
                   /\ LE!DropPrev(t, "FinalSegmentClean") \in W
                   /\ LE!DropPrev(t, "SolitudeActive") \in W /\ LE!DropNext(t, "SolitudeActive") \in W
                   /\ LE!DropPrev(t, "SegmentLead") \in W
                   /\ LE!DropPrev(t, "CandidacyAnnounce") \in W
                   /\ LE!DropNext(t, "PassiveSegment") \in W
                   /\ LE!DropNext(t, "CandidacyAck") \in W
  BY DEF CleanedTypes
<1>1. ASSUME NEW t \in W
      PROVE  LE!CleanVectors(t) \in W
  BY <1>0 DEF LE!CleanVectors
<1>2. ASSUME NEW first
      PROVE  LE!ActiveClean(s, first) \in W
  BY <1>0 DEF LE!ActiveClean
<1>3. LE!CleanOutward(s) \in W
  <2> DEFINE t == IF LE!OutwardAtPrev(s) THEN LE!TakePrev(s, "SolitudeActive") ELSE s
  <2>1. t \in W
    BY <1>0 DEF LE!OutwardAtPrev, LE!DropPrev
  <2> HIDE DEF t
  <2> QED
    BY <1>0, <2>1 DEF LE!CleanOutward, t
<1>4. ASSUME NEW t \in W
      PROVE  LE!DropReturned(t) \in W
  BY <1>0 DEF LE!DropReturned, LE!ReturnedAtNext, LE!DropNext
<1>5. ASSUME NEW t \in W, NEW first
      PROVE  LE!CleanReplies(t, first) \in W
  BY <1>0, <1>1, <1>4 DEF LE!CleanReplies
<1>6. ASSUME NEW first
      PROVE  LE!PassiveClean(s, first) \in W
  BY <1>3, <1>5 DEF LE!PassiveClean
<1> QED
  BY <1>1, <1>2, <1>6

\* A token of another type is still there when one has been taken.
LEMMA OthersFound ==
  ASSUME NEW S, NEW queue \in Seq(S), NEW type, NEW dir, LE!HasAgentToken(queue, type, dir),
         NEW other, NEW way, other # type, LE!HasAgentToken(queue, other, way)
  PROVE  LE!HasAgentToken(LE!TakeAgentToken(queue, type, dir), other, way)
<1> DEFINE i == LE!Min(LE!Positions(queue, type, dir))
           w == [queue EXCEPT ![i] = Head(queue)]
<1>1. i \in 1 .. Len(queue) /\ queue[i].type = type
  BY TokenFound DEF LE!Positions
<1>2. PICK j \in 1 .. Len(queue) : queue[j].type = other /\ queue[j].origin = way
  BY DEF LE!HasAgentToken, LE!Positions
<1>3. LE!TakeAgentToken(queue, type, dir) = Tail(w)
  BY DEF LE!TakeAgentToken
<1> HIDE DEF i
<1>4. /\ Len(w) = Len(queue) /\ w \in Seq(S) /\ w # << >>
      /\ \A k \in 1 .. Len(queue) : w[k] = IF k = i THEN queue[1] ELSE queue[k]
  <2>1. Len(queue) \in Nat /\ Len(queue) > 0 /\ Head(queue) = queue[1] /\ queue[1] \in S
    BY <1>1
  <2>2. w \in [1 .. Len(queue) -> S]
    BY <1>1, <2>1
  <2>3. w \in Seq(S) /\ Len(w) = Len(queue)
    BY <2>1, <2>2
  <2> QED
    BY <1>1, <2>1, <2>3
<1>5. /\ i # j /\ i \in Nat /\ j \in Nat /\ Len(queue) \in Nat
      /\ 1 <= i /\ i <= Len(queue) /\ 1 <= j /\ j <= Len(queue)
  BY <1>1, <1>2
<1> HIDE DEF w
<1>6. /\ Len(Tail(w)) = Len(queue) - 1 /\ Tail(w) \in Seq(S)
      /\ \A k \in 1 .. Len(queue) - 1 : Tail(w)[k] = w[k + 1]
  BY <1>4, <1>5
<1>7. PICK k \in 1 .. Len(queue) - 1 : Tail(w)[k] = queue[j]
  <2>1. CASE j = 1
    <3>1. i - 1 \in 1 .. Len(queue) - 1 /\ (i - 1) + 1 = i
      BY <1>5, <2>1
    <3>2. Tail(w)[i - 1] = queue[1]
      BY <1>1, <1>4, <1>6, <3>1
    <3> QED
      BY <2>1, <3>1, <3>2
  <2>2. CASE j # 1
    <3>1. j - 1 \in 1 .. Len(queue) - 1 /\ (j - 1) + 1 = j
      BY <1>5, <2>2
    <3>2. Tail(w)[j - 1] = queue[j]
      BY <1>2, <1>4, <1>5, <1>6, <3>1
    <3> QED
      BY <3>1, <3>2
  <2> QED
    BY <2>1, <2>2
<1>8. k \in DOMAIN Tail(w)
  BY <1>5, <1>6
<1>9. k \in LE!Positions(Tail(w), other, way)
  BY <1>2, <1>7, <1>8 DEF LE!Positions
<1> QED
  BY <1>3, <1>9 DEF LE!HasAgentToken

\* An agent that has a token of a type from a direction.
ActingWith(p, a, type, dir) ==
  {s \in Acting(p, a) : LE!HasAgentToken(LE!Queue(s), type, dir)}

\* Cleaning leaves an agent acting, with the tokens that clean.
LEMMA Cleaning ==
  ASSUME NEW p, NEW a, Stands(p, a)
  PROVE  /\ \A s \in Acting(p, a) :
              /\ LE!CleanVectors(s) \in Acting(p, a)
              /\ \A first : LE!ActiveClean(s, first) \in Acting(p, a)
              /\ \A first : LE!PassiveClean(s, first) \in Acting(p, a)
         /\ \A type : type \notin CleanedTypes => \A dir : \A s \in ActingWith(p, a, type, dir) :
              /\ \A first : LE!ActiveClean(s, first) \in ActingWith(p, a, type, dir)
              /\ \A first : LE!PassiveClean(s, first) \in ActingWith(p, a, type, dir)
<1>1. ASSUME NEW s \in Acting(p, a)
      PROVE  /\ LE!CleanVectors(s) \in Acting(p, a)
             /\ \A first : LE!ActiveClean(s, first) \in Acting(p, a)
             /\ \A first : LE!PassiveClean(s, first) \in Acting(p, a)
  <2>1. \A t \in Acting(p, a) : \A type \in CleanedTypes :
          LE!DropNext(t, type) \in Acting(p, a) /\ LE!DropPrev(t, type) \in Acting(p, a)
    BY Taking
  <2>2. \A t \in Acting(p, a) : \A flags : LE!Lower(t, flags) \in Acting(p, a)
    BY AgentChanged
  <2> QED
    BY <2>1, <2>2, CleaningOnly
<1>2. ASSUME NEW type, type \notin CleanedTypes, NEW dir, NEW s \in ActingWith(p, a, type, dir)
      PROVE  /\ \A first : LE!ActiveClean(s, first) \in ActingWith(p, a, type, dir)
             /\ \A first : LE!PassiveClean(s, first) \in ActingWith(p, a, type, dir)
  <2> DEFINE W == ActingWith(p, a, type, dir)
  <2>1. ASSUME NEW t \in W, NEW other \in CleanedTypes
        PROVE  LE!DropNext(t, other) \in W /\ LE!DropPrev(t, other) \in W
    <3>1. /\ t \in Acting(p, a) /\ LE!HasAgentToken(LE!Queue(t), type, dir) /\ other # type
          /\ t.p = p /\ p \in LE!particles /\ LE!Queue(t) \in Seq(Letters(p))
          /\ t.tokens \in Mails /\ LE!Queue(t) = t.tokens[t.p]
      BY <1>2, ActingType DEF ActingWith, Stands, LE!Queue
    <3>2. /\ LE!DropNext(t, other) \in Acting(p, a) /\ LE!DropPrev(t, other) \in Acting(p, a)
      BY <3>1, Taking
    <3>3. ASSUME NEW w
          PROVE  LE!Queue([t EXCEPT !.tokens[t.p] = w]) = w
      <4>1. t = [p |-> t.p, a |-> t.a, tokens |-> t.tokens] /\ p \in DOMAIN t.tokens
        BY <3>1 DEF Acting, Mails
      <4>2. [t EXCEPT !.tokens[t.p] = w] = [p |-> p, a |-> t.a, tokens |-> [t.tokens EXCEPT ![p] = w]]
        BY <3>1, <4>1
      <4> QED
        BY <4>1, <4>2 DEF LE!Queue
    <3>4. LE!HasAgentToken(LE!Queue(LE!DropNext(t, other)), type, dir)
      <4>1. CASE LE!AtNext(t, other)
        <5> DEFINE w == LE!TakeAgentToken(t.tokens[t.p], other, t.a.nextAgentDir)
        <5>1. LE!DropNext(t, other) = [t EXCEPT !.tokens[t.p] = w]
          BY <4>1 DEF LE!DropNext, LE!TakeNext
        <5>2. LE!HasAgentToken(w, type, dir)
          BY <3>1, <4>1, OthersFound DEF LE!AtNext
        <5> HIDE DEF w
        <5> QED
          BY <3>3, <5>1, <5>2
      <4>2. CASE ~ LE!AtNext(t, other)
        BY <3>1, <4>2 DEF LE!DropNext
      <4> QED
        BY <4>1, <4>2
    <3>5. LE!HasAgentToken(LE!Queue(LE!DropPrev(t, other)), type, dir)
      <4>1. CASE LE!AtPrev(t, other)
        <5> DEFINE w == LE!TakeAgentToken(t.tokens[t.p], other, t.a.prevAgentDir)
        <5>1. LE!DropPrev(t, other) = [t EXCEPT !.tokens[t.p] = w]
          BY <4>1 DEF LE!DropPrev, LE!TakePrev
        <5>2. LE!HasAgentToken(w, type, dir)
          BY <3>1, <4>1, OthersFound DEF LE!AtPrev
        <5> HIDE DEF w
        <5> QED
          BY <3>3, <5>1, <5>2
      <4>2. CASE ~ LE!AtPrev(t, other)
        BY <3>1, <4>2 DEF LE!DropPrev
      <4> QED
        BY <4>1, <4>2
    <3> QED
      BY <3>2, <3>4, <3>5 DEF ActingWith
  <2>2. ASSUME NEW t \in W, NEW flags
        PROVE  LE!Lower(t, flags) \in W
    <3>1. t \in Acting(p, a) /\ LE!HasAgentToken(LE!Queue(t), type, dir)
      BY DEF ActingWith
    <3>2. LE!Queue(LE!Lower(t, flags)) = LE!Queue(t)
      BY <3>1 DEF Acting, LE!Lower, LE!Queue
    <3> QED
      BY <3>1, <3>2, AgentChanged DEF ActingWith
  <2> HIDE DEF W
  <2>3. s \in W
    BY DEF W
  <2>4. /\ \A first : LE!ActiveClean(s, first) \in W
        /\ \A first : LE!PassiveClean(s, first) \in W
    BY <2>1, <2>2, <2>3, CleaningOnly
  <2> QED
    BY <2>4 DEF W
<1> QED
  BY <1>1, <1>2

\* Settling changes a token where it lies.
LEMMA Settling ==
  ASSUME NEW p, NEW a, Stands(p, a), NEW s \in Acting(p, a)
  PROVE  /\ \A type : LE!AtNext(s, type) => LE!Settle(s, type) \in Acting(p, a)
         /\ \A type : LE!SettleNext(s, type) \in Acting(p, a)
         /\ LE!SettleVectors(s) \in Acting(p, a)
<1>1. ASSUME NEW t \in Acting(p, a), NEW type, LE!AtNext(t, type)
      PROVE  LE!Settle(t, type) \in Acting(p, a)
  <2> DEFINE q == t.tokens[p]
             i == LE!Min(LE!Positions(LE!Queue(t), type, t.a.nextAgentDir))
             u == [q[i] EXCEPT !.flag = TRUE]
             w == [q EXCEPT ![i] = u]
  <2>1. /\ t.p = p /\ LE!Queue(t) = q /\ q \in Seq(Letters(p)) /\ t.tokens \in Mails
        /\ p \in LE!particles
    BY ActingType DEF Stands, LE!Queue
  <2>2. i \in LE!Positions(q, type, t.a.nextAgentDir)
    BY <1>1, <2>1, TokenFound DEF LE!AtNext
  <2>3. i \in 1 .. Len(q) /\ q[i] \in Letters(p)
    <3> HIDE DEF i, q
    <3>1. i \in DOMAIN q
      BY <2>2 DEF LE!Positions
    <3> QED
      BY <2>1, <3>1
  <2>4. u \in Letters(p)
    <3>1. q[i] \in LE!Token
      BY <2>3 DEF Letters
    <3>2. u \in LE!Token /\ u.origin = q[i].origin /\ (LE!GoesAhead(u) <=> LE!GoesAhead(q[i]))
      BY <3>1 DEF LE!Token, LE!GoesAhead
    <3> QED
      BY <2>3, <3>2 DEF Letters
  <2>5. LE!Settle(t, type) = [t EXCEPT !.tokens[p] = w]
    <3>1. t.tokens = [r \in LE!particles |-> t.tokens[r]]
      BY <2>1 DEF Mails
    <3>2. LE!Settle(t, type) = [t EXCEPT !.tokens[p][i].flag = TRUE]
      BY <2>1 DEF LE!Settle
    <3> QED
      BY <3>2
  <2> HIDE DEF u, i
  <2>6. w \in Seq(Letters(p))
    BY <2>1, <2>3, <2>4
  <2> HIDE DEF w
  <2>7. [t EXCEPT !.tokens[p] = w] \in Acting(p, a)
    BY <2>1, <2>6, TokensChanged
  <2> QED
    BY <2>5, <2>7
<1>2. ASSUME NEW t \in Acting(p, a), NEW type
      PROVE  LE!SettleNext(t, type) \in Acting(p, a)
  BY <1>1 DEF LE!SettleNext
<1>3. LE!SettleVectors(s) \in Acting(p, a)
  <2>1. LE!SettleNext(LE!SettleNext(s, "NegativeX"), "PositiveX") \in Acting(p, a)
    BY <1>2
  <2> DEFINE t == LE!SettleNext(LE!SettleNext(s, "NegativeX"), "PositiveX")
  <2> HIDE DEF t
  <2>2. LE!SettleNext(LE!SettleNext(t, "NegativeY"), "PositiveY") \in Acting(p, a)
    BY <1>2, <2>1 DEF t
  <2> QED
    BY <2>2 DEF LE!SettleVectors, t
<1> QED
  BY <1>1, <1>2, <1>3

\* The vectors that are put down are for the agent itself; turns are directions
\* and sums are remainders (augmentDirVector, addNextBorder).
LEMMA Turning ==
  ASSUME NEW p, NEW a, Stands(p, a), NEW s \in Acting(p, a)
  PROVE  /\ \A turn \in Dir : LE!Augmented(s, turn) \in Dir
         /\ \A sum \in -1..4 : LE!AddNextBorder(s, sum) \in 0..4
         /\ \A turn \in Dir : LE!GenerateVectors(s, turn) \in Acting(p, a)
<1>1. s.a.nextAgentDir \in Dir /\ s.a.prevAgentDir \in Dir
  BY ActingType, AgentBodies DEF LE!Agent
<1>2. \A turn \in Dir : LE!Augmented(s, turn) \in Dir
  BY <1>1, AgentBodies DEF LE!Augmented, Opposite, Dir
<1>3. \A sum \in -1..4 : LE!AddNextBorder(s, sum) \in 0..4
  <2> TAKE sum \in -1..4
  <2> DEFINE x == (Opposite(s.a.prevAgentDir) - s.a.nextAgentDir + 8) % 6
  <2>1. x \in 0..5
    BY <1>1 DEF Opposite, Dir
  <2>2. LE!AddNextBorder(s, sum) = (sum + (x - 2) + 5) % 5
    BY AgentBodies DEF LE!AddNextBorder
  <2> HIDE DEF x
  <2> QED
    BY <2>1, <2>2
<1>4. ASSUME NEW turn \in Dir
      PROVE  LE!GenerateVectors(s, turn) \in Acting(p, a)
  <2> DEFINE x == LE!NodeInDir(<<0, 0>>, turn)[1]
             y == LE!NodeInDir(<<0, 0>>, turn)[2]
             t == CASE x = -1 -> LE!PutOwn(s, LE!NewToken("NegativeX"))
                    [] x = 1  -> LE!PutOwn(s, LE!NewToken("PositiveX"))
                    [] x = 0  -> s
  <2>1. x \in {-1, 0, 1} /\ y \in {-1, 0, 1}
    BY AgentBodies DEF NodeInDir, Dir, xOffset, yOffset
  <2>2. \A type \in {"NegativeX", "PositiveX", "NegativeY", "PositiveY"} :
          LE!NewToken(type) \in Returning
    BY WaysOfTokens DEF BackTypes
  <2> HIDE DEF x, y
  <2>3. t \in Acting(p, a)
    <3>1. CASE x = -1
      BY <2>2, <3>1, Passing
    <3>2. CASE x = 1
      BY <2>2, <3>2, Passing
    <3>3. CASE x = 0
      BY <3>3
    <3> QED
      BY <2>1, <3>1, <3>2, <3>3
  <2>4. LE!GenerateVectors(s, turn)
          = CASE y = -1 -> LE!PutOwn(t, LE!NewToken("NegativeY"))
              [] y = 1  -> LE!PutOwn(t, LE!NewToken("PositiveY"))
              [] y = 0  -> t
    BY DEF LE!GenerateVectors, x, y
  <2> HIDE DEF t
  <2>5. CASE y = -1
    <3>1. LE!GenerateVectors(s, turn) = LE!PutOwn(t, LE!NewToken("NegativeY"))
      BY <2>4, <2>5
    <3> QED
      BY <2>2, <2>3, <3>1, Passing
  <2>6. CASE y = 1
    <3>1. LE!GenerateVectors(s, turn) = LE!PutOwn(t, LE!NewToken("PositiveY"))
      BY <2>4, <2>6
    <3> QED
      BY <2>2, <2>3, <3>1, Passing
  <2>7. CASE y = 0
    BY <2>3, <2>4, <2>7
  <2> QED
    BY <2>1, <2>5, <2>6, <2>7
<1> QED
  BY <1>2, <1>3, <1>4

\* What has been cleaned up for is still there.
LEMMA CleanersStay ==
  ASSUME NEW p, NEW a, Stands(p, a), NEW s \in Acting(p, a), NEW first
  PROVE  /\ LE!AtNext(s, "ActiveSegmentClean") =>
              LE!AtNext(LE!ActiveClean(s, first), "ActiveSegmentClean")
         /\ LE!AtPrev(s, "PassiveSegmentClean") =>
              LE!AtPrev(LE!PassiveClean(s, first), "PassiveSegmentClean")
<1>1. "ActiveSegmentClean" \notin CleanedTypes /\ "PassiveSegmentClean" \notin CleanedTypes
  BY DEF CleanedTypes
<1>2. /\ s.a.nextAgentDir = a.nextAgentDir /\ s.a.prevAgentDir = a.prevAgentDir
      /\ \A t \in Acting(p, a) : t.a.nextAgentDir = a.nextAgentDir /\ t.a.prevAgentDir = a.prevAgentDir
  BY ActingType
<1>3. ASSUME LE!AtNext(s, "ActiveSegmentClean")
      PROVE  LE!AtNext(LE!ActiveClean(s, first), "ActiveSegmentClean")
  <2>1. s \in ActingWith(p, a, "ActiveSegmentClean", a.nextAgentDir)
    BY <1>2, <1>3 DEF ActingWith, LE!AtNext
  <2>2. LE!ActiveClean(s, first) \in ActingWith(p, a, "ActiveSegmentClean", a.nextAgentDir)
    BY <1>1, <2>1, Cleaning
  <2> QED
    BY <1>2, <2>2 DEF ActingWith, LE!AtNext
<1>4. ASSUME LE!AtPrev(s, "PassiveSegmentClean")
      PROVE  LE!AtPrev(LE!PassiveClean(s, first), "PassiveSegmentClean")
  <2>1. s \in ActingWith(p, a, "PassiveSegmentClean", a.prevAgentDir)
    BY <1>2, <1>4 DEF ActingWith, LE!AtPrev
  <2>2. LE!PassiveClean(s, first) \in ActingWith(p, a, "PassiveSegmentClean", a.prevAgentDir)
    BY <1>1, <2>1, Cleaning
  <2> QED
    BY <1>2, <2>2 DEF ActingWith, LE!AtPrev
<1> QED
  BY <1>3, <1>4

\* New tokens, by the way they go.
LEMMA NewTokens ==
  /\ \A type \in AheadTypes : /\ LE!NewToken(type) \in Outgoing
                              /\ \A flag \in BOOLEAN : LE!Flagged(type, flag) \in Outgoing
  /\ \A type \in BackTypes : /\ LE!NewToken(type) \in Returning
                             /\ \A flag \in BOOLEAN : LE!Flagged(type, flag) \in Returning
  /\ LE!Flagged("SolitudeActive", TRUE) \in Outgoing
<1>1. "SolitudeActive" \in LE!Types /\ TRUE \in BOOLEAN
  BY DEF LE!Types
<1>2. LE!Flagged("SolitudeActive", TRUE) \in Outgoing
  BY <1>1, WaysOfTokens
<1>3. /\ \A type \in AheadTypes : type \in LE!Types
      /\ \A type \in BackTypes : type \in LE!Types
  BY WaysOfTokens
<1> QED
  BY <1>1, <1>2, <1>3, WaysOfTokens

-----------------------------------------------------------------------------
(* A candidate                                                             *)

\* It cleans and answers for its segment.
LEMMA CandidateAnswers ==
  ASSUME NEW p, NEW a, Stands(p, a), NEW s \in Acting(p, a)
  PROVE  /\ LE!CandidateCleans(s) \in Acting(p, a)
         /\ LE!AnswerLead(s) \in Acting(p, a)
         /\ \A d : LE!AnswerAnnounce(s, d) \in Acting(p, a)
         /\ \A d : LE!AnswerSolitude(s, d) \in Acting(p, a)
<1>1. LE!CandidateCleans(s) \in Acting(p, a)
  <2> DEFINE t == IF LE!AtNext(s, "ActiveSegmentClean")
                  THEN LE!TakeNext(LE!ActiveClean(s, FALSE), "ActiveSegmentClean") ELSE s
  <2>1. t \in Acting(p, a)
    BY Cleaning, CleanersStay, Taking
  <2> HIDE DEF t
  <2>2. LE!CandidateCleans(s)
          = IF LE!AtPrev(t, "PassiveSegmentClean")
            THEN LE!TakePrev(LE!PassiveClean(t, FALSE), "PassiveSegmentClean") ELSE t
    BY DEF LE!CandidateCleans, t
  <2>3. ASSUME LE!AtPrev(t, "PassiveSegmentClean")
        PROVE  LE!TakePrev(LE!PassiveClean(t, FALSE), "PassiveSegmentClean") \in Acting(p, a)
    <3>1. LE!PassiveClean(t, FALSE) \in Acting(p, a)
      BY <2>1, Cleaning
    <3>2. LE!AtPrev(LE!PassiveClean(t, FALSE), "PassiveSegmentClean")
      BY <2>1, <2>3, CleanersStay
    <3> QED
      BY <3>1, <3>2, Taking
  <2> QED
    BY <2>1, <2>2, <2>3
<1>2. LE!AnswerLead(s) \in Acting(p, a)
  <2>1. LE!Flagged("PassiveSegment", TRUE) \in Returning
    BY NewTokens DEF BackTypes
  <2> QED
    BY <2>1, Taking, Passing DEF LE!AnswerLead
<1>3. ASSUME NEW d
      PROVE  LE!AnswerAnnounce(s, d) \in Acting(p, a)
  <2> DEFINE flag == IF LE!Is(s, "waitingForTransferAck") THEN "gotAnnounceBeforeAck"
                                                          ELSE "gotAnnounceInCompare"
  <2>1. LE!NewToken("CandidacyAck") \in Returning
    BY NewTokens DEF BackTypes
  <2>2. {flag} \in SUBSET LE!Flags /\ "absorbedActiveToken" \notin {flag}
    BY DEF LE!Flags
  <2> HIDE DEF flag
  <2>3. ASSUME LE!AtPrev(s, "CandidacyAnnounce")
        PROVE  LE!Raise(LE!PassPrev(LE!TakePrev(s, "CandidacyAnnounce"), LE!NewToken("CandidacyAck")),
                        {flag}) \in Acting(p, a)
    <3>1. LE!PassPrev(LE!TakePrev(s, "CandidacyAnnounce"), LE!NewToken("CandidacyAck")) \in Acting(p, a)
      BY <2>1, <2>3, Taking, Passing
    <3> QED
      BY <2>2, <3>1, AgentChanged
  <2> QED
    BY <2>3 DEF LE!AnswerAnnounce, flag
<1>4. ASSUME NEW d
      PROVE  LE!AnswerSolitude(s, d) \in Acting(p, a)
  <2> DEFINE t == [LE!PrevToken(s, "SolitudeActive") EXCEPT !.number = s.a.localId]
  <2>1. ASSUME LE!OutwardAtPrev(s)
        PROVE  LE!PassPrev(LE!TakePrev(s, "SolitudeActive"), t) \in Acting(p, a)
    <3>1. /\ LE!PrevToken(s, "SolitudeActive") \in Envelope
          /\ LE!PrevToken(s, "SolitudeActive").type = "SolitudeActive"
          /\ LE!TakePrev(s, "SolitudeActive") \in Acting(p, a)
      BY <2>1, Taking DEF LE!OutwardAtPrev
    <3>2. s.a.localId \in 1 .. 3
      BY ActingType
    <3>3. t \in Envelope /\ t.type = "SolitudeActive" /\ t.number # -1
      BY <3>1, <3>2 DEF Envelope
    <3>4. t \in Returning
      BY <3>3, WaysOfTokens
    <3> QED
      BY <3>1, <3>4, Passing
  <2> QED
    BY <2>1 DEF LE!AnswerSolitude
<1> QED
  BY <1>1, <1>2, <1>3, <1>4

\* When it is covered it gives up.
LEMMA CandidateMeets ==
  ASSUME NEW p, NEW a, Stands(p, a), NEW s \in Acting(p, a), NEW d
  PROVE  LE!MeetSegment(s, d) \in Acting(p, a)
<1>1. CASE ~ (LE!AtNext(s, "ActiveSegment") /\ d = 0 /\ ~ LE!Is(s, "absorbedActiveToken"))
  BY <1>1 DEF LE!MeetSegment
<1>2. CASE LE!AtNext(s, "ActiveSegment") /\ d = 0 /\ ~ LE!Is(s, "absorbedActiveToken")
  <2> DEFINE final == LE!PassNext(LE!TakeNext(s, "ActiveSegment"), LE!Flagged("FinalSegmentClean", TRUE))
             t == LE!PassiveClean(LE!PassNext(s, LE!NewToken("PassiveSegmentClean")), TRUE)
             u == LE!ActiveClean(LE!PutOwn(t, LE!NewToken("ActiveSegmentClean")), TRUE)
             gone == LE!Enter(LE!Raise(u, {"generatedCleanToken", "absorbedActiveToken",
                                           "isCoveredCandidate"}), "Demoted")
  <2>1. final \in Acting(p, a)
    <3>1. LE!Flagged("FinalSegmentClean", TRUE) \in Outgoing
      BY NewTokens DEF AheadTypes
    <3> QED
      BY <1>2, <3>1, Taking, Passing
  <2>2. t \in Acting(p, a)
    <3>1. LE!NewToken("PassiveSegmentClean") \in Outgoing
      BY NewTokens DEF AheadTypes
    <3>2. LE!PassNext(s, LE!NewToken("PassiveSegmentClean")) \in Acting(p, a)
      BY <3>1, Passing
    <3> QED
      BY <3>2, Cleaning
  <2> HIDE DEF t
  <2>3. u \in Acting(p, a)
    <3>1. LE!NewToken("ActiveSegmentClean") \in Returning
      BY NewTokens DEF BackTypes
    <3>2. LE!PutOwn(t, LE!NewToken("ActiveSegmentClean")) \in Acting(p, a)
      BY <2>2, <3>1, Passing
    <3> QED
      BY <3>2, Cleaning
  <2> HIDE DEF u
  <2>4. gone \in Acting(p, a)
    <3>1. {"generatedCleanToken", "absorbedActiveToken", "isCoveredCandidate"} \in SUBSET LE!Flags
      BY DEF LE!Flags
    <3> QED
      BY <2>3, <3>1, AgentChanged
  <2>5. LE!MeetSegment(s, d) = IF LE!NextToken(s, "ActiveSegment").flag THEN final
                               ELSE IF LE!NextFreeOf(s, "PassiveSegmentClean") THEN gone ELSE s
    BY <1>2 DEF LE!MeetSegment, t, u
  <2> HIDE DEF final, gone
  <2> QED
    BY <2>1, <2>4, <2>5
<1> QED
  BY <1>1, <1>2

\* It compares the lengths of segments.
LEMMA CandidateCompares ==
  ASSUME NEW p, NEW a, Stands(p, a), NEW s \in Acting(p, a), NEW d
  PROVE  LE!CompareSegments(s, d) \in Acting(p, a)
<1> DEFINE active == LE!PassPrev(LE!TakeNext(s, "PassiveSegment"),
                       LE!Flagged("ActiveSegment", LE!NextToken(s, "PassiveSegment").flag))
           t == LE!Lower(LE!TakePrev(s, "FinalSegmentClean"), {"comparingSegment", "gotAnnounceInCompare"})
           lead == LE!Raise(LE!PassNext(s, LE!NewToken("SegmentLead")), {"comparingSegment"})
<1>1. ASSUME LE!AtNext(s, "PassiveSegment")
      PROVE  active \in Acting(p, a)
  <2>1. /\ LE!NextToken(s, "PassiveSegment").flag \in BOOLEAN
        /\ LE!TakeNext(s, "PassiveSegment") \in Acting(p, a)
    BY <1>1, Taking DEF Envelope
  <2>2. LE!Flagged("ActiveSegment", LE!NextToken(s, "PassiveSegment").flag) \in Returning
    BY <2>1, NewTokens DEF BackTypes
  <2> QED
    BY <2>1, <2>2, Passing
<1>2. ASSUME LE!AtPrev(s, "FinalSegmentClean")
      PROVE  LE!EnterPhase(t, "CoinFlipping") \in Acting(p, a) /\ LE!Enter(t, "Demoted") \in Acting(p, a)
  <2>1. t \in Acting(p, a)
    BY <1>2, Taking, AgentChanged
  <2> HIDE DEF t
  <2> QED
    BY <2>1, AgentChanged
<1>3. lead \in Acting(p, a)
  <2>1. LE!NewToken("SegmentLead") \in Outgoing
    BY NewTokens DEF AheadTypes
  <2>2. LE!PassNext(s, LE!NewToken("SegmentLead")) \in Acting(p, a)
    BY <2>1, Passing
  <2>3. {"comparingSegment"} \in SUBSET LE!Flags /\ "absorbedActiveToken" \notin {"comparingSegment"}
    BY DEF LE!Flags
  <2> QED
    BY <2>2, <2>3, AgentChanged
<1> HIDE DEF active, lead
<1>4. CASE d = 1 /\ LE!AtNext(s, "PassiveSegment")
  BY <1>1, <1>4 DEF LE!CompareSegments, active
<1>5. CASE ~ (d = 1 /\ LE!AtNext(s, "PassiveSegment")) /\ LE!AtPrev(s, "FinalSegmentClean")
  <2>1. LE!CompareSegments(s, d)
          = IF LE!PrevToken(s, "FinalSegmentClean").flag \/ LE!Is(s, "gotAnnounceInCompare")
            THEN LE!EnterPhase(t, "CoinFlipping") ELSE LE!Enter(t, "Demoted")
    BY <1>5 DEF LE!CompareSegments
  <2> HIDE DEF t
  <2> QED
    BY <1>2, <1>5, <2>1
<1>6. CASE ~ (d = 1 /\ LE!AtNext(s, "PassiveSegment")) /\ ~ LE!AtPrev(s, "FinalSegmentClean")
  BY <1>3, <1>6 DEF LE!CompareSegments, lead
<1> QED
  BY <1>4, <1>5, <1>6

\* It flips coins.
LEMMA CandidateFlips ==
  ASSUME NEW p, NEW a, Stands(p, a), NEW s \in Acting(p, a), NEW d, NEW coin
  PROVE  LE!FlipCoin(s, d, coin) \in Acting(p, a)
<1> DEFINE t == LE!Lower(LE!TakeNext(s, "CandidacyAck"), {"waitingForTransferAck", "gotAnnounceBeforeAck"})
           tells == LE!Raise(LE!PassNext(s, LE!NewToken("CandidacyAnnounce")), {"waitingForTransferAck"})
<1>1. tells \in Acting(p, a)
  <2>1. LE!NewToken("CandidacyAnnounce") \in Outgoing
    BY NewTokens DEF AheadTypes
  <2>2. LE!PassNext(s, LE!NewToken("CandidacyAnnounce")) \in Acting(p, a)
    BY <2>1, Passing
  <2>3. {"waitingForTransferAck"} \in SUBSET LE!Flags
        /\ "absorbedActiveToken" \notin {"waitingForTransferAck"}
    BY DEF LE!Flags
  <2> QED
    BY <2>2, <2>3, AgentChanged
<1>2. CASE LE!AtNext(s, "CandidacyAck")
  <2>1. t \in Acting(p, a)
    BY <1>2, Taking, AgentChanged
  <2>2. LE!FlipCoin(s, d, coin) = IF LE!Is(s, "gotAnnounceBeforeAck")
                                  THEN LE!EnterPhase(t, "SolitudeVerification") ELSE LE!Enter(t, "Demoted")
    BY <1>2 DEF LE!FlipCoin
  <2> HIDE DEF t
  <2> QED
    BY <2>1, <2>2, AgentChanged
<1>3. CASE ~ LE!AtNext(s, "CandidacyAck")
  <2> HIDE DEF tells
  <2> QED
    BY <1>1, <1>3 DEF LE!FlipCoin, tells
<1> QED
  BY <1>2, <1>3

\* It verifies that it is alone.
LEMMA CandidateVerifies ==
  ASSUME NEW p, NEW a, Stands(p, a), NEW s \in Acting(p, a), NEW d
  PROVE  LE!VerifySolitude(s, d) \in Acting(p, a)
<1> DEFINE starts == LE!Raise(LE!PutOwn(LE!PassNext(s, LE!Flagged("SolitudeActive", TRUE)),
                                        LE!Flagged("PositiveX", TRUE)),
                              {"createdLead", "hasGeneratedTokens"})
           t == LE!CleanVectors(LE!Lower(LE!TakeNext(s, "SolitudeActive"), {"createdLead"}))
<1>1. starts \in Acting(p, a)
  <2>1. LE!Flagged("SolitudeActive", TRUE) \in Outgoing /\ LE!Flagged("PositiveX", TRUE) \in Returning
    BY NewTokens DEF BackTypes
  <2>2. LE!PassNext(s, LE!Flagged("SolitudeActive", TRUE)) \in Acting(p, a)
    BY <2>1, Passing
  <2>3. LE!PutOwn(LE!PassNext(s, LE!Flagged("SolitudeActive", TRUE)), LE!Flagged("PositiveX", TRUE))
          \in Acting(p, a)
    BY <2>1, <2>2, Passing
  <2>4. {"createdLead", "hasGeneratedTokens"} \in SUBSET LE!Flags
        /\ "absorbedActiveToken" \notin {"createdLead", "hasGeneratedTokens"}
    BY DEF LE!Flags
  <2> QED
    BY <2>3, <2>4, AgentChanged
<1>2. ASSUME LE!ReturnedAtNext(s)
      PROVE  t \in Acting(p, a)
  <2>1. LE!Lower(LE!TakeNext(s, "SolitudeActive"), {"createdLead"}) \in Acting(p, a)
    BY <1>2, Taking, AgentChanged DEF LE!ReturnedAtNext
  <2> QED
    BY <2>1, Cleaning
<1>3. CASE ~ LE!Is(s, "createdLead") /\ d = 0
  <2> HIDE DEF starts
  <2> QED
    BY <1>1, <1>3 DEF LE!VerifySolitude, starts
<1>4. CASE ~ (~ LE!Is(s, "createdLead") /\ d = 0) /\ ~ LE!ReturnedAtNext(s)
  BY <1>4 DEF LE!VerifySolitude
<1>5. CASE ~ (~ LE!Is(s, "createdLead") /\ d = 0) /\ LE!ReturnedAtNext(s)
  <2>1. \/ LE!VerifySolitude(s, d) = LE!Enter(t, "SoleCandidate")
        \/ LE!VerifySolitude(s, d) = s
        \/ LE!VerifySolitude(s, d) = LE!EnterPhase(t, "SegmentComparison")
    <3> HIDE DEF t
    <3> QED
      BY <1>5 DEF LE!VerifySolitude, t
  <2> HIDE DEF t
  <2> QED
    BY <1>2, <1>5, <2>1, AgentChanged
<1> QED
  BY <1>3, <1>4, <1>5

\* So an activation of a candidate is sound.
LEMMA CandidateActs ==
  ASSUME NEW p, NEW a, Stands(p, a), NEW s \in Acting(p, a), NEW d, NEW coin
  PROVE  LE!CandidateActivates(s, d, coin) \in Acting(p, a)
<1> DEFINE met == LE!MeetSegment(LE!AnswerLead(LE!CandidateCleans(s)), d)
           answered == LE!SettleVectors(LE!AnswerSolitude(LE!AnswerAnnounce(met, d), d))
<1>1. met \in Acting(p, a)
  <2>1. LE!AnswerLead(LE!CandidateCleans(s)) \in Acting(p, a)
    BY CandidateAnswers
  <2> QED
    BY <2>1, CandidateMeets
<1> HIDE DEF met
<1>2. answered \in Acting(p, a)
  <2>1. LE!AnswerSolitude(LE!AnswerAnnounce(met, d), d) \in Acting(p, a)
    BY <1>1, CandidateAnswers
  <2> QED
    BY <2>1, Settling
<1> HIDE DEF answered
<1>3. LE!CandidateActivates(s, d, coin)
        = IF met.a.agentState = "Demoted" THEN met
          ELSE CASE s.a.subPhase = "SegmentComparison"    -> LE!CompareSegments(answered, d)
                 [] s.a.subPhase = "CoinFlipping"         -> LE!FlipCoin(answered, d, coin)
                 [] s.a.subPhase = "SolitudeVerification" -> LE!VerifySolitude(answered, d)
  BY DEF LE!CandidateActivates, met, answered
<1>4. /\ LE!CompareSegments(answered, d) \in Acting(p, a)
      /\ LE!FlipCoin(answered, d, coin) \in Acting(p, a)
      /\ LE!VerifySolitude(answered, d) \in Acting(p, a)
  BY <1>2, CandidateCompares, CandidateFlips, CandidateVerifies
<1>5. s.a.subPhase \in {"SegmentComparison", "CoinFlipping", "SolitudeVerification"}
  BY ActingType DEF LE!Agent
<1>6. CASE met.a.agentState = "Demoted"
  BY <1>1, <1>3, <1>6
<1>7. CASE met.a.agentState # "Demoted"
  <2>1. CASE s.a.subPhase = "SegmentComparison"
    BY <1>3, <1>4, <1>7, <2>1
  <2>2. CASE s.a.subPhase = "CoinFlipping"
    BY <1>3, <1>4, <1>7, <2>2
  <2>3. CASE s.a.subPhase = "SolitudeVerification"
    BY <1>3, <1>4, <1>7, <2>3
  <2> QED
    BY <1>5, <2>1, <2>2, <2>3
<1> QED
  BY <1>6, <1>7

-----------------------------------------------------------------------------
(* An agent that has been demoted, and the last candidate                  *)

\* It passes the cleaners on, which clean up on their way.
LEMMA DemotedCleans ==
  ASSUME NEW p, NEW a, Stands(p, a), NEW s \in Acting(p, a), NEW d
  PROVE  /\ LE!PassPassiveClean(s, d) \in Acting(p, a)
         /\ LE!PassActiveClean(s, d) \in Acting(p, a)
<1>1. LE!PassPassiveClean(s, d) \in Acting(p, a)
  <2> DEFINE t == LE!PassiveClean(s, FALSE)
  <2>1. t \in Acting(p, a)
    BY Cleaning
  <2>2. LE!AtPrev(s, "PassiveSegmentClean") => LE!AtPrev(t, "PassiveSegmentClean")
    BY CleanersStay
  <2>3. LE!PassPassiveClean(s, d)
          = IF ~ LE!AtPrev(s, "PassiveSegmentClean") THEN s
            ELSE IF d = 0 /\ LE!NextFreeOf(t, "PassiveSegmentClean")
                 THEN LE!MoveOn(t, "PassiveSegmentClean") ELSE t
    BY DEF LE!PassPassiveClean
  <2> HIDE DEF t
  <2>4. LE!AtPrev(t, "PassiveSegmentClean") => LE!MoveOn(t, "PassiveSegmentClean") \in Acting(p, a)
    BY <2>1, Moving DEF AheadTypes
  <2> QED
    BY <2>1, <2>2, <2>3, <2>4
<1>2. LE!PassActiveClean(s, d) \in Acting(p, a)
  <2> DEFINE t == LE!ActiveClean(s, LE!Is(s, "generatedCleanToken"))
             u == LE!MoveBack(t, "ActiveSegmentClean")
  <2>1. t \in Acting(p, a)
    BY Cleaning
  <2>2. LE!AtNext(s, "ActiveSegmentClean") => LE!AtNext(t, "ActiveSegmentClean")
    BY CleanersStay
  <2>3. LE!PassActiveClean(s, d)
          = IF ~ LE!AtNext(s, "ActiveSegmentClean") THEN s
            ELSE IF d = 1 /\ LE!PrevFreeOf(t, "ActiveSegmentClean")
                 THEN LE!Lower(u, {"generatedCleanToken"}) ELSE t
    BY DEF LE!PassActiveClean
  <2> HIDE DEF t
  <2>4. LE!AtNext(t, "ActiveSegmentClean") => u \in Acting(p, a)
    BY <2>1, Moving DEF BackTypes
  <2> HIDE DEF u
  <2>5. u \in Acting(p, a) => LE!Lower(u, {"generatedCleanToken"}) \in Acting(p, a)
    BY AgentChanged
  <2> QED
    BY <2>1, <2>2, <2>3, <2>4, <2>5
<1> QED
  BY <1>1, <1>2

\* It passes on the tokens of the comparison of segments.
LEMMA DemotedCompares ==
  ASSUME NEW p, NEW a, Stands(p, a), a.agentState # "Candidate", NEW s \in Acting(p, a), NEW d
  PROVE  /\ LE!PassLead(s, d) \in Acting(p, a)
         /\ LE!PassPassive(s, d) \in Acting(p, a)
         /\ LE!PassActive(s, d) \in Acting(p, a)
         /\ LE!PassFinal(s, d) \in Acting(p, a)
<1>1. LE!PassLead(s, d) \in Acting(p, a)
  <2>1. LE!Flagged("PassiveSegment", FALSE) \in Returning
    BY NewTokens DEF BackTypes
  <2>2. LE!AtPrev(s, "SegmentLead") => LE!MoveOn(s, "SegmentLead") \in Acting(p, a)
    BY Moving DEF AheadTypes
  <2> QED
    BY <2>1, <2>2, Passing DEF LE!PassLead
<1>2. LE!PassPassive(s, d) \in Acting(p, a)
  <2>1. LE!AtNext(s, "PassiveSegment") => LE!MoveBack(s, "PassiveSegment") \in Acting(p, a)
    BY Moving DEF BackTypes
  <2> QED
    BY <2>1 DEF LE!PassPassive
<1>3. LE!PassActive(s, d) \in Acting(p, a)
  <2> DEFINE t == LE!TakeNext(s, "ActiveSegment")
             final == LE!PassNext(t, LE!Flagged("FinalSegmentClean", FALSE))
             absorbs == LE!Raise(t, {"absorbedActiveToken"})
  <2>1. LE!AtNext(s, "ActiveSegment") => t \in Acting(p, a)
    BY Taking
  <2>2. \/ LE!PassActive(s, d) = s
        \/ LE!AtNext(s, "ActiveSegment") /\ LE!PassActive(s, d)
             \in {final, absorbs, LE!MoveBack(s, "ActiveSegment")}
    <3> HIDE DEF t
    <3> QED
      BY DEF LE!PassActive, t
  <2> HIDE DEF t
  <2>3. LE!AtNext(s, "ActiveSegment") => LE!MoveBack(s, "ActiveSegment") \in Acting(p, a)
    BY Moving DEF BackTypes
  <2>4. t \in Acting(p, a) => final \in Acting(p, a)
    <3>1. LE!Flagged("FinalSegmentClean", FALSE) \in Outgoing
      BY NewTokens DEF AheadTypes
    <3> QED
      BY <3>1, Passing
  <2>5. t \in Acting(p, a) => absorbs \in Acting(p, a)
    <3>1. {"absorbedActiveToken"} \in SUBSET LE!Flags
      BY DEF LE!Flags
    <3> QED
      BY <3>1, AgentChanged
  <2> HIDE DEF final, absorbs
  <2> QED
    BY <2>1, <2>2, <2>3, <2>4, <2>5
<1>4. LE!PassFinal(s, d) \in Acting(p, a)
  <2> DEFINE token == LE!PrevToken(s, "FinalSegmentClean")
             t == LE!Lower(LE!TakePrev(s, "FinalSegmentClean"),
                           {"absorbedActiveToken", "isCoveredCandidate"})
             u == [token EXCEPT !.flag = @ \/ LE!Is(s, "isCoveredCandidate")]
  <2>1. ASSUME LE!AtPrev(s, "FinalSegmentClean")
        PROVE  LE!PassNext(t, u) \in Acting(p, a)
    <3>1. token \in Envelope /\ token.type = "FinalSegmentClean"
      BY <2>1, Taking
    <3>2. t \in Acting(p, a)
      BY <2>1, Taking, AgentChanged
    <3>3. u \in Envelope /\ u.type = "FinalSegmentClean"
      <4> HIDE DEF token
      <4> QED
        BY <3>1 DEF Envelope
    <3> HIDE DEF t, u
    <3>4. u \in Outgoing
      BY <3>3, WaysOfTokens DEF AheadTypes
    <3> QED
      BY <3>2, <3>4, Passing
  <2>2. LE!PassFinal(s, d) = IF ~ (d = 0 /\ LE!AtPrev(s, "FinalSegmentClean")) THEN s
                             ELSE LE!PassNext(t, u)
    BY DEF LE!PassFinal
  <2> HIDE DEF t, u
  <2> QED
    BY <2>1, <2>2
<1> QED
  BY <1>1, <1>2, <1>3, <1>4

\* It passes on announcements, solitude tokens and vectors.
LEMMA DemotedPasses ==
  ASSUME NEW p, NEW a, Stands(p, a), NEW s \in Acting(p, a), NEW d
  PROVE  /\ LE!PassAnnounce(s, d) \in Acting(p, a)
         /\ LE!PassAck(s, d) \in Acting(p, a)
         /\ LE!PassSolitude(s, d) \in Acting(p, a)
         /\ LE!PassVectors(s, d) \in Acting(p, a)
         /\ LE!PassBorder(s, d) \in Acting(p, a)
<1>1. LE!PassAnnounce(s, d) \in Acting(p, a)
  <2>1. LE!AtPrev(s, "CandidacyAnnounce") => LE!MoveOn(s, "CandidacyAnnounce") \in Acting(p, a)
    BY Moving DEF AheadTypes
  <2> QED
    BY <2>1 DEF LE!PassAnnounce
<1>2. LE!PassAck(s, d) \in Acting(p, a)
  <2>1. LE!AtNext(s, "CandidacyAck") => LE!MoveBack(s, "CandidacyAck") \in Acting(p, a)
    BY Moving DEF BackTypes
  <2> QED
    BY <2>1 DEF LE!PassAck
<1>3. LE!PassSolitude(s, d) \in Acting(p, a)
  <2> DEFINE out == LE!PrevToken(s, "SolitudeActive")
             turn == LE!Augmented(s, out.turn)
             u == [out EXCEPT !.turn = turn]
             t == LE!GenerateVectors(LE!TakePrev(s, "SolitudeActive"), turn)
             ahead == LE!Raise(LE!PassNext(t, u), {"hasGeneratedTokens"})
             token == LE!NextToken(s, "SolitudeActive")
             v == [token EXCEPT !.flag = FALSE]
             r == LE!TakeNext(s, "SolitudeActive")
             back(w) == LE!CleanVectors(LE!PassPrev(r, w))
  <2>1. ASSUME LE!OutwardAtPrev(s)
        PROVE  ahead \in Acting(p, a)
    <3>1. /\ out \in Envelope /\ out.type = "SolitudeActive" /\ out.number = -1
          /\ LE!TakePrev(s, "SolitudeActive") \in Acting(p, a)
      BY <2>1, Taking DEF LE!OutwardAtPrev
    <3> HIDE DEF out
    <3>2. turn \in Dir
      BY <3>1, Turning DEF Envelope
    <3> HIDE DEF turn
    <3>3. u \in Envelope /\ u.type = "SolitudeActive" /\ u.number = -1
      BY <3>1, <3>2 DEF Envelope
    <3> HIDE DEF u
    <3>4. u \in Outgoing
      BY <3>3, WaysOfTokens
    <3>5. t \in Acting(p, a)
      BY <3>1, <3>2, Turning
    <3> HIDE DEF t
    <3>6. LE!PassNext(t, u) \in Acting(p, a)
      BY <3>4, <3>5, Passing
    <3>7. {"hasGeneratedTokens"} \in SUBSET LE!Flags /\ "absorbedActiveToken" \notin {"hasGeneratedTokens"}
      BY DEF LE!Flags
    <3> QED
      BY <3>6, <3>7, AgentChanged
  <2>2. ASSUME LE!ReturnedAtNext(s)
        PROVE  back(token) \in Acting(p, a) /\ back(v) \in Acting(p, a)
    <3>1. /\ token \in Envelope /\ token.type = "SolitudeActive" /\ token.number # -1
          /\ r \in Acting(p, a)
      BY <2>2, Taking DEF LE!ReturnedAtNext
    <3> HIDE DEF token, r
    <3>2. v \in Envelope /\ v.type = "SolitudeActive" /\ v.number # -1
      BY <3>1 DEF Envelope
    <3> HIDE DEF v
    <3>3. token \in Returning /\ v \in Returning
      BY <3>1, <3>2, WaysOfTokens
    <3>4. LE!PassPrev(r, token) \in Acting(p, a) /\ LE!PassPrev(r, v) \in Acting(p, a)
      BY <3>1, <3>3, Passing
    <3> QED
      BY <3>4, Cleaning
  <2>3. \/ LE!OutwardAtPrev(s) /\ LE!PassSolitude(s, d) = ahead
        \/ LE!ReturnedAtNext(s) /\ LE!PassSolitude(s, d) \in {back(token), back(v)}
        \/ LE!PassSolitude(s, d) = s
    <3> HIDE DEF out, token, r, back, ahead
    <3>1. LE!PassSolitude(s, d)
            = IF /\ d = 0 /\ LE!OutwardAtPrev(s)
                 /\ LE!NextFreeOf(s, "PassiveSegmentClean") /\ ~ LE!Is(s, "hasGeneratedTokens")
              THEN ahead
              ELSE IF d = 1 /\ LE!ReturnedAtNext(s) /\ LE!Is(s, "hasGeneratedTokens")
              THEN IF {LE!CheckX(s), LE!CheckY(s)} = {"match"} \/ ~ token.flag THEN back(token)
                   ELSE IF "mismatch" \in {LE!CheckX(s), LE!CheckY(s)} THEN back(v)
                   ELSE s
              ELSE s
      BY DEF LE!PassSolitude, out, token, r, back, ahead
    <3> QED
      BY <3>1
  <2> HIDE DEF ahead, back, token, v
  <2> QED
    BY <2>1, <2>2, <2>3
<1>4. ASSUME NEW t \in Acting(p, a), NEW type \in LE!VectorTokens
      PROVE  LE!PassVector(t, d, type) \in Acting(p, a)
  <2>1. type \in BackTypes
    BY DEF LE!VectorTokens, BackTypes
  <2>2. LE!AtNext(t, type) => /\ LE!MoveBack(t, type) \in Acting(p, a)
                              /\ LE!Settle(t, type) \in Acting(p, a)
    BY <2>1, Moving, Settling
  <2>3. \/ LE!PassVector(t, d, type) = t
        \/ LE!AtNext(t, type) /\ LE!PassVector(t, d, type) \in {LE!MoveBack(t, type), LE!Settle(t, type)}
    BY DEF LE!PassVector
  <2> QED
    BY <2>2, <2>3
<1>5. LE!PassVectors(s, d) \in Acting(p, a)
  <2>1. /\ "NegativeX" \in LE!VectorTokens /\ "PositiveX" \in LE!VectorTokens
        /\ "NegativeY" \in LE!VectorTokens /\ "PositiveY" \in LE!VectorTokens
    BY DEF LE!VectorTokens
  <2> DEFINE t == LE!PassVector(LE!PassVector(s, d, "NegativeX"), d, "PositiveX")
  <2>2. t \in Acting(p, a)
    BY <1>4, <2>1
  <2>3. LE!PassVectors(s, d) = LE!PassVector(LE!PassVector(t, d, "NegativeY"), d, "PositiveY")
    BY DEF LE!PassVectors
  <2> HIDE DEF t
  <2> QED
    BY <1>4, <2>1, <2>2, <2>3
<1>6. LE!PassBorder(s, d) \in Acting(p, a)
  <2> DEFINE token == LE!PrevToken(s, "BorderTest")
             u == [token EXCEPT !.number = LE!AddNextBorder(s, token.number)]
             t == LE!PassNext(LE!TakePrev(s, "BorderTest"), u)
  <2>1. ASSUME LE!AtPrev(s, "BorderTest")
        PROVE  LE!Enter(t, "Finished") \in Acting(p, a)
    <3>1. /\ token \in Envelope /\ token.type = "BorderTest"
          /\ LE!TakePrev(s, "BorderTest") \in Acting(p, a)
      BY <2>1, Taking
    <3> HIDE DEF token
    <3>2. LE!AddNextBorder(s, token.number) \in 0..4
      BY <3>1, Turning DEF Envelope
    <3>3. u \in Envelope /\ u.type = "BorderTest"
      BY <3>1, <3>2 DEF Envelope
    <3> HIDE DEF u
    <3>4. u \in Outgoing
      BY <3>3, WaysOfTokens DEF AheadTypes
    <3>5. t \in Acting(p, a)
      BY <3>1, <3>4, Passing
    <3> HIDE DEF t
    <3> QED
      BY <3>5, AgentChanged
  <2>2. LE!PassBorder(s, d) = IF d = 0 /\ LE!AtPrev(s, "BorderTest") THEN LE!Enter(t, "Finished") ELSE s
    BY DEF LE!PassBorder
  <2> HIDE DEF t
  <2> QED
    BY <2>1, <2>2
<1> QED
  BY <1>1, <1>2, <1>3, <1>5, <1>6

\* So whatever an agent does when it is activated is sound.
LEMMA AgentActs ==
  ASSUME NEW p, NEW a, Stands(p, a), NEW s \in Acting(p, a), s.a = a, NEW d, NEW coin
  PROVE  LE!AgentActivates(s, d, coin) \in Acting(p, a)
<1>1. a.agentState \in {"Candidate", "SoleCandidate", "Demoted", "Leader", "Finished"}
  BY ActingType DEF LE!Agent, LE!States
<1>2. CASE a.agentState = "Candidate"
  BY <1>2, CandidateActs DEF LE!AgentActivates
<1>3. CASE a.agentState = "Demoted"
  <2> DEFINE cleaned == LE!PassActiveClean(LE!PassPassiveClean(s, d), d)
             compared == LE!PassFinal(LE!PassActive(LE!PassPassive(LE!PassLead(cleaned, d), d), d), d)
             flipped == LE!PassAck(LE!PassAnnounce(compared, d), d)
  <2>1. cleaned \in Acting(p, a)
    BY DemotedCleans
  <2> HIDE DEF cleaned
  <2>2. LE!PassPassive(LE!PassLead(cleaned, d), d) \in Acting(p, a)
    BY <1>3, <2>1, DemotedCompares
  <2>3. compared \in Acting(p, a)
    <3> DEFINE t == LE!PassPassive(LE!PassLead(cleaned, d), d)
    <3> HIDE DEF t
    <3>1. LE!PassFinal(LE!PassActive(t, d), d) \in Acting(p, a)
      BY <1>3, <2>2, DemotedCompares DEF t
    <3> QED
      BY <3>1 DEF t
  <2> HIDE DEF compared
  <2>4. flipped \in Acting(p, a)
    BY <2>3, DemotedPasses
  <2> HIDE DEF flipped
  <2>5. LE!PassBorder(LE!PassVectors(LE!PassSolitude(flipped, d), d), d) \in Acting(p, a)
    <3>1. LE!PassVectors(LE!PassSolitude(flipped, d), d) \in Acting(p, a)
      BY <2>4, DemotedPasses
    <3> QED
      BY <3>1, DemotedPasses
  <2> QED
    BY <1>3, <2>5 DEF LE!AgentActivates, LE!DemotedActivates, cleaned, compared, flipped
<1>4. CASE a.agentState = "SoleCandidate"
  <2> DEFINE u == [LE!NewToken("BorderTest") EXCEPT !.number = LE!AddNextBorder(s, 0)]
             tests == LE!Raise(LE!PassNext(s, u), {"testingBorder"})
             t == LE!Lower(LE!TakePrev(s, "BorderTest"), {"testingBorder"})
  <2>1. tests \in Acting(p, a)
    <3>1. LE!NewToken("BorderTest") \in Envelope /\ LE!NewToken("BorderTest").type = "BorderTest"
      BY WaysOfTokens DEF LE!Types
    <3>2. LE!AddNextBorder(s, 0) \in 0..4
      BY Turning
    <3>3. u \in Envelope /\ u.type = "BorderTest"
      BY <3>1, <3>2 DEF Envelope
    <3> HIDE DEF u
    <3>4. u \in Outgoing
      BY <3>3, WaysOfTokens DEF AheadTypes
    <3>5. LE!PassNext(s, u) \in Acting(p, a)
      BY <3>4, Passing
    <3>6. {"testingBorder"} \in SUBSET LE!Flags /\ "absorbedActiveToken" \notin {"testingBorder"}
      BY DEF LE!Flags
    <3> QED
      BY <3>5, <3>6, AgentChanged
  <2>2. LE!AtPrev(s, "BorderTest") => t \in Acting(p, a)
    BY Taking, AgentChanged
  <2>3. \/ LE!SoleCandidateActivates(s) = tests
        \/ LE!SoleCandidateActivates(s) = s
        \/ /\ LE!AtPrev(s, "BorderTest")
           /\ LE!SoleCandidateActivates(s) \in {LE!Enter(t, "Leader"), LE!Enter(t, "Finished")}
    <3> HIDE DEF tests, t
    <3> QED
      BY DEF LE!SoleCandidateActivates, tests, t
  <2> HIDE DEF tests, t
  <2>4. t \in Acting(p, a) => /\ LE!Enter(t, "Leader") \in Acting(p, a)
                              /\ LE!Enter(t, "Finished") \in Acting(p, a)
    BY AgentChanged
  <2>5. LE!SoleCandidateActivates(s) \in Acting(p, a)
    BY <2>1, <2>2, <2>3, <2>4
  <2> QED
    BY <1>4, <2>5 DEF LE!AgentActivates
<1>5. CASE a.agentState \in {"Leader", "Finished"}
  BY <1>5 DEF LE!AgentActivates
<1> QED
  BY <1>1, <1>2, <1>3, <1>4, <1>5

-----------------------------------------------------------------------------
(* The invariant                                                           *)

\* An agent stands between two rows of the neighbours in the directions D.
Between(D, a) ==
  /\ a.nextAgentDir \in D /\ (a.nextAgentDir + 1) % 6 \notin D
  /\ a.prevAgentDir \in D /\ (a.prevAgentDir + 5) % 6 \notin D

\* The agents of p: one at each end of a row of neighbours.
Ringed(p) ==
  /\ agents[p] \in Seq(LE!Agent) /\ Len(agents[p]) \in 1..3
  /\ \A k \in DOMAIN agents[p] :
       /\ Between(LE!NbrDirs(p), agents[p][k])
       /\ agents[p][k].agentState = "Candidate" => "absorbedActiveToken" \notin agents[p][k].flags
  /\ \A d \in LE!NbrDirs(p) : (d + 1) % 6 \notin LE!NbrDirs(p) =>
       \E i \in DOMAIN agents[p] : \A k \in DOMAIN agents[p] : agents[p][k].nextAgentDir = d <=> k = i
  /\ \A d \in LE!NbrDirs(p) : (d + 5) % 6 \notin LE!NbrDirs(p) =>
       \E i \in DOMAIN agents[p] : \A k \in DOMAIN agents[p] : agents[p][k].prevAgentDir = d <=> k = i

\* What a particle has, by its state.
Staffed(p) ==
  /\ state[p] \in LE!States /\ currentAgent[p] \in 1..3
  /\ agents[p] = << >> \/ Ringed(p)
  /\ state[p] = "Candidate" => Ringed(p) /\ currentAgent[p] \in DOMAIN agents[p]
  /\ state[p] = "Idle" => agents[p] = << >> /\ currentAgent[p] = 1

\* The inductive invariant of the election: the particles stay where they are,
\* their agents where the rows of neighbours end, and their tokens are letters.
AgentInv ==
  /\ Placed
  /\ DOMAIN state = LE!particles /\ DOMAIN currentAgent = LE!particles /\ DOMAIN agents = LE!particles
  /\ \A p \in LE!particles : Staffed(p)
  /\ tokens \in Mails

\* Nothing that is said of the bodies changes.
LEMMA AgentsStay ==
  ASSUME body' = body
  PROVE  /\ LE!particles' = LE!particles
         /\ \A p : LE!NbrDirs(p)' = LE!NbrDirs(p)
         /\ Placed' <=> Placed
         /\ Mails' = Mails
<1>1. LE!particles' = LE!particles
  BY DEF LE!particles
<1>2. \A p : LE!NbrDirs(p)' = LE!NbrDirs(p)
  <2>1. LE!Occupied' = LE!Occupied
    BY DEF LE!Occupied, LE!particles
  <2> QED
    BY <2>1 DEF LE!NbrDirs, LE!HasNbrAtLabel
<1>3. Placed' <=> Placed
  BY <1>1 DEF Placed
<1>4. Mails' = Mails
  <2>1. \A q : Letters(q)' = Letters(q)
    BY <1>2 DEF Letters
  <2> QED
    BY <1>1, <2>1 DEF Mails
<1> QED
  BY <1>1, <1>2, <1>3, <1>4

\* A particle is staffed by its own state alone.
LEMMA StaffStays ==
  ASSUME body' = body, NEW q, state'[q] = state[q], currentAgent'[q] = currentAgent[q],
         agents'[q] = agents[q]
  PROVE  Staffed(q)' <=> Staffed(q)
<1>1. Ringed(q)' <=> Ringed(q)
  BY AgentsStay DEF Ringed
<1> QED
  BY <1>1 DEF Staffed

\* A particle on a boundary gets its agents (activate()).
LEMMA RingStarts ==
  ASSUME AgentInv, NEW p \in LE!particles, LE!NbrDirs(p) \notin {{}, Dir}, body' = body,
         agents'[p] = LE!NewAgents(p)
  PROVE  Ringed(p)'
<1> DEFINE N == LE!NewAgents(p)
           D == LE!NbrDirs(p)
<1>1. /\ N \in Seq(LE!Agent) /\ Len(N) \in 1..3
      /\ \A k \in DOMAIN N : N[k].flags = {}
  BY NewAgentsAre
<1>2. /\ \A k \in DOMAIN N :
           /\ N[k].nextAgentDir \in D /\ (N[k].nextAgentDir + 1) % 6 \notin D
           /\ N[k].prevAgentDir \in D /\ (N[k].prevAgentDir + 5) % 6 \notin D
      /\ \A d \in D : (d + 1) % 6 \notin D =>
           \E i \in DOMAIN N : \A k \in DOMAIN N : N[k].nextAgentDir = d <=> k = i
      /\ \A d \in D : (d + 5) % 6 \notin D =>
           \E i \in DOMAIN N : \A k \in DOMAIN N : N[k].prevAgentDir = d <=> k = i
  <2>1. \A k \in DOMAIN N : SameAgent(N[k], N[k])
    BY DEF SameAgent
  <2> QED
    BY <2>1, AgentsBetween
<1> HIDE DEF N
<1>3. agents'[p] = N /\ LE!NbrDirs(p)' = D
  BY AgentsStay DEF N
<1> HIDE DEF D
<1>4. \A k \in DOMAIN N : Between(D, N[k])
  BY <1>2 DEF Between
<1>5. /\ agents'[p] \in Seq(LE!Agent) /\ Len(agents'[p]) \in 1..3
      /\ \A k \in DOMAIN agents'[p] : /\ Between(D, agents'[p][k])
                                     /\ "absorbedActiveToken" \notin agents'[p][k].flags
  BY <1>1, <1>3, <1>4
<1> QED
  BY <1>2, <1>3, <1>5 DEF Ringed

\* An agent that has been activated stands where it stood.
LEMMA RingKept ==
  ASSUME AgentInv, NEW p \in LE!particles, Ringed(p), body' = body,
         NEW i \in DOMAIN agents[p], NEW s \in Acting(p, agents[p][i]),
         agents' = [agents EXCEPT ![p][i] = s.a]
  PROVE  Ringed(p)' /\ DOMAIN agents'[p] = DOMAIN agents[p]
<1> DEFINE A == agents[p]
           B == agents'[p]
           D == LE!NbrDirs(p)
<1>1. /\ A \in Seq(LE!Agent) /\ Len(A) \in 1..3 /\ DOMAIN A = 1 .. Len(A)
      /\ p \in DOMAIN agents
  BY DEF Ringed, AgentInv
<1>2. s.a \in LE!Agent /\ SameAgent(s.a, A[i])
      /\ (s.a.agentState = "Candidate" => "absorbedActiveToken" \notin s.a.flags)
  BY DEF Acting
<1>3. B = [A EXCEPT ![i] = s.a]
  BY <1>1
<1>4. LE!NbrDirs(p)' = D
  BY AgentsStay
<1>5. /\ \A k \in DOMAIN A : Between(D, A[k])
      /\ \A k \in DOMAIN A : A[k].agentState = "Candidate" => "absorbedActiveToken" \notin A[k].flags
      /\ \A d \in D : (d + 1) % 6 \notin D =>
           \E j \in DOMAIN A : \A k \in DOMAIN A : A[k].nextAgentDir = d <=> k = j
      /\ \A d \in D : (d + 5) % 6 \notin D =>
           \E j \in DOMAIN A : \A k \in DOMAIN A : A[k].prevAgentDir = d <=> k = j
  BY DEF Ringed
<1> HIDE DEF A, B, D
<1>6. /\ B \in Seq(LE!Agent) /\ Len(B) = Len(A) /\ DOMAIN B = DOMAIN A
      /\ \A k \in DOMAIN A : B[k] = IF k = i THEN s.a ELSE A[k]
  <2>1. i \in DOMAIN A
    BY DEF A
  <2>2. B \in [1 .. Len(A) -> LE!Agent]
    BY <1>1, <1>2, <1>3, <2>1
  <2>3. Len(A) \in Nat
    BY <1>1
  <2> QED
    BY <1>1, <1>3, <2>1, <2>2, <2>3
<1>7. \A k \in DOMAIN B : /\ B[k].nextAgentDir = A[k].nextAgentDir
                          /\ B[k].prevAgentDir = A[k].prevAgentDir
                          /\ B[k].agentState = "Candidate" => "absorbedActiveToken" \notin B[k].flags
  BY <1>2, <1>5, <1>6 DEF SameAgent
<1>8. \A k \in DOMAIN B : Between(D, B[k])
  BY <1>5, <1>6, <1>7 DEF Between
<1>9. /\ \A d \in D : (d + 1) % 6 \notin D =>
           \E j \in DOMAIN B : \A k \in DOMAIN B : B[k].nextAgentDir = d <=> k = j
      /\ \A d \in D : (d + 5) % 6 \notin D =>
           \E j \in DOMAIN B : \A k \in DOMAIN B : B[k].prevAgentDir = d <=> k = j
  <2>1. DOMAIN B = DOMAIN A
        /\ \A k \in DOMAIN A : /\ B[k].nextAgentDir = A[k].nextAgentDir
                                /\ B[k].prevAgentDir = A[k].prevAgentDir
    BY <1>6, <1>7
  <2> QED
    BY <1>5, <2>1
<1>10. Ringed(p)'
  BY <1>1, <1>4, <1>6, <1>7, <1>8, <1>9 DEF Ringed, B
<1> QED
  BY <1>6, <1>10 DEF A, B

\* It holds at the start.
LEMMA AgentStarts ==
  ASSUME LE!ShapesAssumption, LE!Init
  PROVE  AgentInv
<1>1. Placed
  BY AgentBodies DEF LE!ShapesAssumption, LE!Init, Placed, LE!particles
<1>2. /\ DOMAIN state = LE!particles /\ DOMAIN currentAgent = LE!particles
      /\ DOMAIN agents = LE!particles
      /\ \A p \in LE!particles : state[p] = "Idle" /\ currentAgent[p] = 1 /\ agents[p] = << >>
  BY DEF LE!Init
<1>3. \A p \in LE!particles : Staffed(p)
  BY <1>2 DEF Staffed, LE!States
<1>4. tokens \in Mails
  <2>1. tokens = [p \in LE!particles |-> << >>]
    BY DEF LE!Init
  <2>2. \A S : << >> \in Seq(S)
    OBVIOUS
  <2> QED
    BY <2>1, <2>2 DEF Mails
<1> QED
  BY <1>1, <1>2, <1>3, <1>4 DEF AgentInv

\* A particle is activated: it needs no agents, it gets its agents, or one of
\* them acts.
LEMMA AgentStep ==
  ASSUME AgentInv, NEW p \in LE!particles, LE!Activate(p)
  PROVE  AgentInv'
<1>1. body' = body
  BY DEF LE!Activate, LE!NeedNoAgents, LE!BecomeCandidate, LE!ActivateAgent
<1>2. /\ Placed /\ p \in DOMAIN state /\ p \in DOMAIN currentAgent /\ p \in DOMAIN agents
      /\ DOMAIN state = LE!particles /\ DOMAIN currentAgent = LE!particles
      /\ DOMAIN agents = LE!particles
      /\ \A q \in LE!particles : Staffed(q)
      /\ tokens \in Mails
  BY DEF AgentInv
<1>3. Placed' /\ LE!particles' = LE!particles /\ Mails' = Mails
      /\ LE!NbrDirs(p)' = LE!NbrDirs(p)
  BY <1>1, <1>2, AgentsStay
<1>4. ASSUME NEW q \in LE!particles, q # p, state'[q] = state[q],
             currentAgent'[q] = currentAgent[q], agents'[q] = agents[q]
      PROVE  Staffed(q)'
  BY <1>1, <1>2, <1>4, StaffStays
<1>5. CASE LE!NeedNoAgents(p)
  <2>1. /\ state[p] = "Idle" /\ state' = [state EXCEPT ![p] = state'[p]]
        /\ state'[p] \in {"Leader", "Finished"}
        /\ currentAgent' = currentAgent /\ agents' = agents /\ tokens' = tokens
    BY <1>2, <1>5 DEF LE!NeedNoAgents
  <2>2. Staffed(p)'
    BY <1>2, <2>1 DEF Staffed, LE!States
  <2>3. ASSUME NEW q \in LE!particles, q # p
        PROVE  Staffed(q)'
    BY <1>2, <1>4, <2>1, <2>3
  <2> QED
    BY <1>2, <1>3, <2>1, <2>2, <2>3 DEF AgentInv
<1>6. CASE LE!BecomeCandidate(p)
  <2>1. /\ state[p] = "Idle" /\ LE!NbrDirs(p) \notin {{}, Dir}
        /\ state' = [state EXCEPT ![p] = "Candidate"]
        /\ agents' = [agents EXCEPT ![p] = LE!NewAgents(p)]
        /\ currentAgent' = currentAgent /\ tokens' = tokens
    BY <1>6, AgentBodies DEF LE!BecomeCandidate
  <2>2. state'[p] = "Candidate" /\ agents'[p] = LE!NewAgents(p) /\ currentAgent'[p] = 1
    BY <1>2, <2>1 DEF Staffed
  <2>3. Ringed(p)'
    BY <1>1, <2>1, <2>2, RingStarts
  <2>4. currentAgent'[p] \in DOMAIN agents'[p]
    <3>1. Len(agents'[p]) \in 1..3 /\ agents'[p] \in Seq(LE!Agent)'
      BY <2>3 DEF Ringed
    <3> QED
      BY <2>2, <3>1
  <2>5. Staffed(p)'
    BY <2>2, <2>3, <2>4 DEF Staffed, LE!States
  <2>6. ASSUME NEW q \in LE!particles, q # p
        PROVE  Staffed(q)'
    BY <1>2, <1>4, <2>1, <2>6
  <2> QED
    BY <1>2, <1>3, <2>1, <2>5, <2>6 DEF AgentInv
<1>7. ASSUME NEW d \in {0, 1}, LE!ActivateAgent(p, d)
      PROVE  AgentInv'
  <2> DEFINE i == currentAgent[p]
             a == agents[p][i]
             s0 == [p |-> p, a |-> a, tokens |-> tokens]
  <2>1. /\ state[p] = "Candidate" /\ Ringed(p) /\ i \in DOMAIN agents[p]
    BY <1>2, <1>7 DEF LE!ActivateAgent, Staffed
  <2>2. /\ a \in LE!Agent /\ Between(LE!NbrDirs(p), a)
        /\ a.agentState = "Candidate" => "absorbedActiveToken" \notin a.flags
    BY <2>1 DEF Ringed
  <2>3. Stands(p, a)
    BY <1>2, <2>2 DEF Stands, Between
  <2>4. s0 \in Acting(p, a) /\ s0.a = a
    BY <1>2, <2>2 DEF Acting, SameAgent
  <2>5. PICK coin : LET s == LE!AgentActivates(s0, d, coin)
                    IN  agents' = [agents EXCEPT ![p][i] = s.a] /\ tokens' = s.tokens
    BY <1>7 DEF LE!ActivateAgent
  <2> DEFINE s == LE!AgentActivates(s0, d, coin)
  <2>6. s \in Acting(p, a)
    <3> HIDE DEF s0, a
    <3> QED
      BY <2>3, <2>4, AgentActs
  <2>7. agents' = [agents EXCEPT ![p][i] = s.a] /\ tokens' = s.tokens
    BY <2>5
  <2> HIDE DEF s
  <2>8. Ringed(p)' /\ DOMAIN agents'[p] = DOMAIN agents[p]
    BY <1>1, <2>1, <2>6, <2>7, RingKept
  <2>9. tokens' \in Mails
    BY <2>6, <2>7 DEF Acting
  <2>10. /\ currentAgent' = [currentAgent EXCEPT ![p] = (i % Len(agents[p])) + 1]
         /\ \E st \in {"Leader", "Finished", state[p]} : state' = [state EXCEPT ![p] = st]
    BY <1>7 DEF LE!ActivateAgent
  <2>11. currentAgent'[p] \in DOMAIN agents'[p] /\ currentAgent'[p] \in 1..3
    <3>1. Len(agents[p]) \in 1..3 /\ DOMAIN agents[p] = 1 .. Len(agents[p])
      BY <2>1 DEF Ringed
    <3>2. currentAgent'[p] = (i % Len(agents[p])) + 1 /\ i \in 1..3
      BY <1>2, <2>1, <2>10, <3>1
    <3> DEFINE n == Len(agents[p])
    <3> HIDE DEF i, n
    <3>3. (i % n) + 1 \in 1 .. n /\ (i % n) + 1 \in 1..3
      <4>1. n = 1 \/ n = 2 \/ n = 3
        BY <3>1 DEF n
      <4> QED
        BY <3>2, <4>1
    <3> QED
      BY <2>8, <3>1, <3>2, <3>3 DEF n
  <2>12. state'[p] \in {"Leader", "Finished", "Candidate"}
    BY <1>2, <2>1, <2>10
  <2>13. Staffed(p)'
    BY <2>8, <2>11, <2>12 DEF Staffed, LE!States
  <2>14. ASSUME NEW q \in LE!particles, q # p
         PROVE  Staffed(q)'
    <3>1. agents'[q] = agents[q] /\ currentAgent'[q] = currentAgent[q] /\ state'[q] = state[q]
      BY <1>2, <2>7, <2>10, <2>14
    <3> QED
      BY <1>4, <2>14, <3>1
  <2>15. DOMAIN state' = LE!particles /\ DOMAIN currentAgent' = LE!particles /\ DOMAIN agents' = LE!particles
    BY <1>2, <2>7, <2>10
  <2> QED
    BY <1>3, <2>9, <2>13, <2>14, <2>15 DEF AgentInv
<1> QED
  BY <1>5, <1>6, <1>7 DEF LE!Activate

-----------------------------------------------------------------------------
(* What follows from it                                                    *)

\* A vector that is at an agent has settled.
Settled(s, type) == LE!AtNext(s, type) => LE!NextToken(s, type).flag

\* A vector stays settled when another settles.
LEMMA SettledStays ==
  ASSUME NEW p, NEW a, Stands(p, a), NEW s \in Acting(p, a), NEW type, NEW other
  PROVE  /\ Settled(LE!SettleNext(s, type), type)
         /\ Settled(s, other) => Settled(LE!SettleNext(s, type), other)
<1>1. CASE ~ LE!AtNext(s, type)
  BY <1>1 DEF LE!SettleNext, Settled
<1>2. CASE LE!AtNext(s, type)
  <2> DEFINE n == s.a.nextAgentDir
             q == s.tokens[p]
             i == LE!Min(LE!Positions(q, type, n))
             w == [q EXCEPT ![i].flag = TRUE]
             t == LE!SettleNext(s, type)
  <2>1. /\ s.p = p /\ p \in LE!particles /\ LE!Queue(s) = q /\ q \in Seq(LE!Token)
        /\ s.tokens \in [LE!particles -> Seq(LE!Token)]
    BY ActingType DEF Stands, LE!Queue, Mails
  <2>2. i \in LE!Positions(q, type, n)
    <3>1. LE!HasAgentToken(q, type, n)
      BY <1>2, <2>1 DEF LE!AtNext
    <3> QED
      BY <2>1, <3>1, TokenFound
  <2>3. i \in DOMAIN q
    BY <2>2 DEF LE!Positions
  <2>4. t.a = s.a /\ LE!Queue(t) = w
    <3>1. s = [p |-> s.p, a |-> s.a, tokens |-> s.tokens]
      BY DEF Acting
    <3>2. t = [s EXCEPT !.tokens[p][i].flag = TRUE]
      BY <1>2, <2>1 DEF LE!SettleNext, LE!Settle
    <3> HIDE DEF t, i
    <3>3. t.a = s.a /\ t.p = p /\ t.tokens = [s.tokens EXCEPT ![p] = w]
      BY <2>1, <3>1, <3>2
    <3>4. t.tokens[p] = w
      BY <2>1, <3>3
    <3> QED
      BY <3>3, <3>4 DEF LE!Queue
  <2> HIDE DEF t, i
  <2>5. /\ DOMAIN w = DOMAIN q
        /\ \A j \in DOMAIN q : /\ w[j].type = q[j].type /\ w[j].origin = q[j].origin
                               /\ q[j].flag => w[j].flag
        /\ w[i].flag
    <3>1. \A j \in DOMAIN q : q[j] \in LE!Token
      BY <2>1
    <3> QED
      BY <2>3, <3>1 DEF LE!Token
  <2> HIDE DEF w, n, q
  <2>6. \A o : LE!Positions(w, o, n) = LE!Positions(q, o, n)
    BY <2>5 DEF LE!Positions
  <2>7. \A o : /\ LE!AtNext(t, o) <=> LE!AtNext(s, o)
               /\ LE!NextToken(t, o) = w[LE!Min(LE!Positions(q, o, n))]
               /\ LE!NextToken(s, o) = q[LE!Min(LE!Positions(q, o, n))]
               /\ LE!AtNext(s, o) => LE!Min(LE!Positions(q, o, n)) \in DOMAIN q
    <3> TAKE o
    <3>1. LE!AtNext(t, o) <=> LE!AtNext(s, o)
      BY <2>1, <2>4, <2>6 DEF LE!AtNext, LE!HasAgentToken, n
    <3>2. /\ LE!NextToken(t, o) = w[LE!Min(LE!Positions(q, o, n))]
          /\ LE!NextToken(s, o) = q[LE!Min(LE!Positions(q, o, n))]
      BY <2>1, <2>4, <2>6 DEF LE!NextToken, LE!PeekAgentToken, n
    <3>3. LE!AtNext(s, o) => LE!HasAgentToken(q, o, n)
      BY <2>1 DEF LE!AtNext, n
    <3>4. LE!HasAgentToken(q, o, n) => LE!Min(LE!Positions(q, o, n)) \in LE!Positions(q, o, n)
      BY <2>1, TokenFound
    <3>5. LE!Positions(q, o, n) \subseteq DOMAIN q
      BY DEF LE!Positions
    <3> QED
      BY <3>1, <3>2, <3>3, <3>4, <3>5
  <2>8. Settled(t, type)
    BY <2>5, <2>7 DEF Settled, i
  <2>9. Settled(s, other) => Settled(t, other)
    BY <2>5, <2>7 DEF Settled
  <2> QED
    BY <2>8, <2>9 DEF t
<1> QED
  BY <1>1, <1>2

\* So none is left unsettled (checkSolitudeXTokens, checkSolitudeYTokens).
LEMMA AllSettled ==
  ASSUME NEW p, NEW a, Stands(p, a), NEW s \in Acting(p, a)
  PROVE  "unsettled" \notin {LE!CheckX(LE!SettleVectors(s)), LE!CheckY(LE!SettleVectors(s))}
<1> DEFINE t1 == LE!SettleNext(s, "NegativeX")
           t2 == LE!SettleNext(t1, "PositiveX")
           t3 == LE!SettleNext(t2, "NegativeY")
           t4 == LE!SettleNext(t3, "PositiveY")
<1>1. t1 \in Acting(p, a) /\ Settled(t1, "NegativeX")
  BY Settling, SettledStays
<1> HIDE DEF t1
<1>2. t2 \in Acting(p, a) /\ Settled(t2, "NegativeX") /\ Settled(t2, "PositiveX")
  BY <1>1, Settling, SettledStays
<1> HIDE DEF t2
<1>3. t3 \in Acting(p, a) /\ Settled(t3, "NegativeX") /\ Settled(t3, "PositiveX")
      /\ Settled(t3, "NegativeY")
  BY <1>2, Settling, SettledStays
<1> HIDE DEF t3
<1>4. /\ Settled(t4, "NegativeX") /\ Settled(t4, "PositiveX")
      /\ Settled(t4, "NegativeY") /\ Settled(t4, "PositiveY")
  BY <1>3, SettledStays
<1> HIDE DEF t4
<1>5. LE!SettleVectors(s) = t4
  BY DEF LE!SettleVectors, t1, t2, t3, t4
<1>6. ASSUME NEW axis, \A type \in axis : Settled(t4, type)
      PROVE  LE!CheckTokens(t4, axis) # "unsettled"
  <2> DEFINE settled == [type \in {u \in axis : LE!AtNext(t4, u)} |-> LE!NextToken(t4, type).flag]
  <2>1. \A type \in DOMAIN settled : settled[type]
    BY <1>6 DEF Settled
  <2>2. LE!CheckTokens(t4, axis) = IF \E type \in DOMAIN settled : ~ settled[type] THEN "unsettled"
                                   ELSE IF LE!Cardinality(DOMAIN settled) = 1 THEN "mismatch" ELSE "match"
    BY DEF LE!CheckTokens
  <2> HIDE DEF settled
  <2> QED
    BY <2>1, <2>2
<1>7. /\ LE!CheckX(t4) # "unsettled" /\ LE!CheckY(t4) # "unsettled"
  BY <1>4, <1>6 DEF LE!CheckX, LE!CheckY
<1> QED
  BY <1>5, <1>7

\* The agents of a particle next to each other find each other.
LEMMA AgentsMeet ==
  ASSUME AgentInv, NEW p \in LE!particles, Ringed(p), NEW i \in DOMAIN agents[p]
  PROVE  LET s == LE!View(<<p, i>>)
             a == agents[p][i]
         IN  /\ agents[LE!NbrAtLabel(p, a.nextAgentDir)] # << >> => LE!NextAgent(s) # {}
             /\ agents[LE!NbrAtLabel(p, a.prevAgentDir)] # << >> => LE!PrevAgent(s) # {}
<1> DEFINE a == agents[p][i]
           s == LE!View(<<p, i>>)
<1>1. Between(LE!NbrDirs(p), a) /\ Placed
  BY DEF Ringed, AgentInv
<1>2. s.p = p /\ s.a = a
  BY DEF LE!View, LE!Of
<1>3. ASSUME agents[LE!NbrAtLabel(p, a.nextAgentDir)] # << >>
      PROVE  LE!NextAgent(s) # {}
  <2> DEFINE q == LE!NbrAtLabel(p, a.nextAgentDir)
             l == LE!LabelTo(q, p)
  <2>1. q \in LE!particles /\ l \in LE!NbrDirs(q) /\ (l + 5) % 6 \notin LE!NbrDirs(q)
    BY <1>1, NbrBack DEF Between
  <2>2. Ringed(q)
    BY <1>3, <2>1 DEF AgentInv, Staffed
  <2>3. PICK j \in DOMAIN agents[q] : agents[q][j].prevAgentDir = l
    <3> HIDE DEF q, l
    <3> QED
      BY <2>1, <2>2 DEF Ringed
  <2>4. LE!NextAgent(s)
          = {agents[q][k] : k \in {j1 \in DOMAIN agents[q] : agents[q][j1].prevAgentDir = l}}
    BY <1>2 DEF LE!NextAgent
  <2> HIDE DEF q, l
  <2> QED
    BY <2>3, <2>4
<1>4. ASSUME agents[LE!NbrAtLabel(p, a.prevAgentDir)] # << >>
      PROVE  LE!PrevAgent(s) # {}
  <2> DEFINE q == LE!NbrAtLabel(p, a.prevAgentDir)
             l == LE!LabelTo(q, p)
  <2>1. q \in LE!particles /\ l \in LE!NbrDirs(q) /\ (l + 1) % 6 \notin LE!NbrDirs(q)
    BY <1>1, NbrBack DEF Between
  <2>2. Ringed(q)
    BY <1>4, <2>1 DEF AgentInv, Staffed
  <2>3. PICK j \in DOMAIN agents[q] : agents[q][j].nextAgentDir = l
    <3> HIDE DEF q, l
    <3> QED
      BY <2>1, <2>2 DEF Ringed
  <2>4. LE!PrevAgent(s)
          = {agents[q][k] : k \in {j1 \in DOMAIN agents[q] : agents[q][j1].nextAgentDir = l}}
    BY <1>2 DEF LE!PrevAgent
  <2> HIDE DEF q, l
  <2> QED
    BY <2>3, <2>4
<1> QED
  BY <1>3, <1>4

\* The invariant says that the election is well formed.
LEMMA AgentsWellFormed ==
  ASSUME AgentInv
  PROVE  LE!WellFormed
<1>1. LE!TypeOK
  <2>1. ASSUME NEW p \in LE!particles
        PROVE  /\ state[p] \in LE!States
               /\ \A i \in DOMAIN agents[p] : agents[p][i] \in LE!Agent
               /\ currentAgent[p] \in 1..3
               /\ \A i \in DOMAIN tokens[p] : tokens[p][i] \in LE!Token
    <3>1. Staffed(p) /\ tokens[p] \in Seq(LE!Token)
      BY DEF AgentInv, Mails
    <3>2. \A i \in DOMAIN agents[p] : agents[p][i] \in LE!Agent
      BY <3>1 DEF Staffed, Ringed
    <3>3. \A i \in DOMAIN tokens[p] : tokens[p][i] \in LE!Token
      BY <3>1
    <3> QED
      BY <3>1, <3>2, <3>3 DEF Staffed
  <2> QED
    BY <2>1 DEF LE!TypeOK
<1>2. LE!AssertionsHold
  <2>1. ASSUME NEW p \in LE!particles, NEW i \in DOMAIN agents[p], NEW x, x = <<p, i>>
        PROVE  /\ agents[LE!NbrAtLabel(x[1], LE!Of(x).nextAgentDir)] # << >> =>
                    LE!NextAgent(LE!View(x)) # {}
               /\ agents[LE!NbrAtLabel(x[1], LE!Of(x).prevAgentDir)] # << >> =>
                    LE!PrevAgent(LE!View(x)) # {}
               /\ LE!Of(x).agentState = "Candidate" => ~ LE!Is(LE!View(x), "absorbedActiveToken")
               /\ "unsettled" \notin {LE!CheckX(LE!SettleVectors(LE!View(x))),
                                      LE!CheckY(LE!SettleVectors(LE!View(x)))}
    <3> DEFINE a == agents[p][i]
    <3>1. Ringed(p)
      BY DEF AgentInv, Staffed
    <3>2. LE!Of(x) = a /\ LE!View(x) = [p |-> p, a |-> a, tokens |-> tokens] /\ x[1] = p
      BY <2>1 DEF LE!Of, LE!View
    <3>3. /\ a \in LE!Agent /\ Between(LE!NbrDirs(p), a) /\ Placed /\ tokens \in Mails
          /\ a.agentState = "Candidate" => "absorbedActiveToken" \notin a.flags
      BY <3>1 DEF Ringed, AgentInv
    <3>4. Stands(p, a) /\ LE!View(x) \in Acting(p, a)
      BY <3>2, <3>3 DEF Stands, Between, Acting, SameAgent
    <3>5. /\ agents[LE!NbrAtLabel(p, a.nextAgentDir)] # << >> => LE!NextAgent(LE!View(x)) # {}
          /\ agents[LE!NbrAtLabel(p, a.prevAgentDir)] # << >> => LE!PrevAgent(LE!View(x)) # {}
      BY <2>1, <3>1, AgentsMeet
    <3>6. LE!Is(LE!View(x), "absorbedActiveToken") <=> "absorbedActiveToken" \in a.flags
      BY <3>2 DEF LE!Is
    <3> HIDE DEF a
    <3> QED
      BY <3>2, <3>3, <3>4, <3>5, <3>6, AllSettled
  <2>2. \A x \in LE!AgentIds : \E p \in LE!particles : \E i \in DOMAIN agents[p] : x = <<p, i>>
    BY DEF LE!AgentIds
  <2> QED
    BY <2>1, <2>2 DEF LE!AssertionsHold
<1>3. LE!TokensAddressed
  <2>1. ASSUME NEW p \in LE!particles, agents[p] # << >>, NEW j \in DOMAIN tokens[p]
        PROVE  \E i \in DOMAIN agents[p] :
                 \A k \in DOMAIN agents[p] : LE!IsFor(tokens[p][j], agents[p][k]) <=> k = i
    <3> DEFINE t == tokens[p][j]
    <3>1. Ringed(p) /\ t \in Letters(p)
      BY <2>1 DEF AgentInv, Staffed, Mails
    <3> HIDE DEF t
    <3>2. CASE LE!GoesAhead(t)
      <4>1. t.origin \in LE!NbrDirs(p) /\ (t.origin + 5) % 6 \notin LE!NbrDirs(p)
        BY <3>1, <3>2 DEF Letters
      <4>2. PICK i \in DOMAIN agents[p] :
              \A k \in DOMAIN agents[p] : agents[p][k].prevAgentDir = t.origin <=> k = i
        BY <3>1, <4>1 DEF Ringed
      <4>3. \A k \in DOMAIN agents[p] : LE!IsFor(t, agents[p][k]) <=> k = i
        BY <3>2, <4>2 DEF LE!IsFor
      <4> QED
        BY <4>3 DEF t
    <3>3. CASE ~ LE!GoesAhead(t)
      <4>1. t.origin \in LE!NbrDirs(p) /\ (t.origin + 1) % 6 \notin LE!NbrDirs(p)
        BY <3>1, <3>3 DEF Letters
      <4>2. PICK i \in DOMAIN agents[p] :
              \A k \in DOMAIN agents[p] : agents[p][k].nextAgentDir = t.origin <=> k = i
        BY <3>1, <4>1 DEF Ringed
      <4>3. \A k \in DOMAIN agents[p] : LE!IsFor(t, agents[p][k]) <=> k = i
        BY <3>3, <4>2 DEF LE!IsFor
      <4> QED
        BY <4>3 DEF t
    <3> QED
      BY <3>2, <3>3
  <2> QED
    BY <2>1 DEF LE!TokensAddressed
<1> QED
  BY <1>1, <1>2, <1>3 DEF LE!WellFormed

\* Agents form rings: the next and the previous agent are there when the
\* neighbour has its agents, every token is for one agent of its holder, which
\* finds it, and no assertion of an agent on flags and vectors fails
\* (passAgentToken, takeAgentToken, nextAgent, prevAgent), whatever the shape,
\* holes included.
THEOREM AgentsCorrect == LE!Spec => []WellFormed
<1>1. LE!Init => AgentInv
  BY AgentsAssumption, AgentStarts
<1>2. AgentInv /\ [LE!Next]_LE!vars => AgentInv'
  <2> SUFFICES ASSUME AgentInv, [LE!Next]_LE!vars
               PROVE  AgentInv'
    OBVIOUS
  <2>1. CASE LE!Next
    BY <2>1, AgentStep DEF LE!Next
  <2>2. CASE UNCHANGED LE!vars
    <3>1. /\ body' = body /\ state' = state /\ currentAgent' = currentAgent /\ agents' = agents
          /\ tokens' = tokens
      BY <2>2 DEF LE!vars
    <3>2. \A q \in LE!particles : Staffed(q)'
      BY <3>1, StaffStays DEF AgentInv
    <3> QED
      BY <3>1, <3>2, AgentsStay DEF AgentInv
  <2> QED
    BY <2>1, <2>2
<1>3. AgentInv => WellFormed
  BY AgentsWellFormed DEF WellFormed
<1> QED
  BY <1>1, <1>2, <1>3, PTL DEF LE!Spec
=============================================================================
