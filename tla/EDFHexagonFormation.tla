-------------------------- MODULE EDFHexagonFormation --------------------------
(***************************************************************************)
(* alg/edfhexagonformation.cpp: hexagon formation by particles that need   *)
(* energy.  Sources grow a forest over the other particles along which     *)
(* energy is shared; a tree is pruned where the body of a particle leaves  *)
(* a node, and the particles cut off wait to be adopted again.             *)
(*                                                                         *)
(* The actions of HexagonFormation are those of the source's alpha_1 to    *)
(* alpha_6; its state, parentDir and hexagonDir are _sState, _sParentDir   *)
(* and _hexagonDir here.                                                   *)
(***************************************************************************)
EXTENDS HexagonFormation, EnergyFramework

CONSTANT Sources     \* the numbers of particles that may be the only source

VARIABLES
  eState,            \* _eState, _eParentLabel and _battery of each particle
  eParentLabel,
  battery

energyVars == <<eState, eParentLabel, battery>>
edfVars    == <<vars, energyVars>>

Energy == [state |-> eState, up |-> eParentLabel, battery |-> battery]
SetEnergy(energy) ==
  eState' = energy.state /\ eParentLabel' = energy.up /\ battery' = energy.battery

InEnergyState(S) == {p \in particles : eState[p] \in S}

EnergyInit ==
  \E source \in Sources \cap particles :
    \E energy \in {NewEnergy({source}, particles)} :
      eState = energy.state /\ eParentLabel = energy.up /\ battery = energy.battery

EDFInit == Init /\ EnergyInit

\* The particles eChildLabels() leads to; up holds the parent labels.
EChildren(p, up) == {q \in particles \ {p} : up[q] # -1 /\ PointsAtMe(body[p], body[q], up[q])}

\* The neighbours of p among the particles of Q.
NbrsAmong(p, Q) == {NbrAtLabel(p, l) : l \in LabelsOfNbrs(p, Q \ {p})}

-----------------------------------------------------------------------------
(* The actions of hexagon formation.                                       *)

CanAct(p) == MaySpend(p, Energy, NbrsAmong(p, particles))

PaidStateChange(p) ==
  /\ CanAct(p)
  /\ BecomeRoot(p) \/ BecomeFollower(p) \/ Retire(p)
  /\ SetEnergy(Spent(p, Energy))

\* Mutant: the label is kept, as if the ports were not renumbered.
PaidExpandSameLabel(p) ==
  /\ CanAct(p)
  /\ Expand(p)
  /\ SetEnergy(Spent(p, Energy))

PaidExpand(p) ==
  /\ CanAct(p)
  /\ Expand(p)
  /\ SetEnergy([Spent(p, Energy) EXCEPT
       !.up[p] = IF @ = -1 THEN -1 ELSE DirToTailLabelAfterExpansion(@, hexagonDir[p])])

\* Before it leaves a node, a particle leaves its tree and prunes its children.
Detached(p) == Pruned(p, [Spent(p, Energy) EXCEPT !.up[p] = -1], EChildren(p, eParentLabel))

PaidPull(p) ==
  /\ CanAct(p)
  /\ Pull(p)
  /\ LET child == NbrAtLabel(p, PulledLabel(p))
     IN  SetEnergy([Detached(p) EXCEPT
           !.up[child] = IF @ = -1 THEN -1 ELSE DirToTailLabelAfterExpansion(@, parentDir[child])])

PaidContractTail(p) ==
  /\ CanAct(p)
  /\ ContractTail(p)
  /\ SetEnergy(Detached(p))

\* One of the guards alpha_1 to alpha_6 holds.
HasWork(p) == Alpha1(p) \/ Alpha2(p) \/ Alpha3(p) \/ Alpha4(p) \/ Alpha5(p) \/ Alpha6(p)

-----------------------------------------------------------------------------
(* The energy distribution, of a particle that has nothing else to do.     *)

\* The first unique label of an adopted particle q that points at p.
AdoptingLabel(p, q) ==
  LET pointing == {l \in UniqueLabels(body[q]) : PointsAtMe(body[p], body[q], l)}
  IN  CHOOSE l \in pointing : \A m \in pointing : l <= m

DistributeEnergy(p) ==
  /\ ~ (CanAct(p) /\ HasWork(p))
  /\ LET adopted == [q \in NbrsAmong(p, InEnergyState({"Idle"})) |-> AdoptingLabel(p, q)]
     IN  \E energy \in Distributed(p, Energy, EChildren(p, eParentLabel), adopted) :
           energy # Energy /\ SetEnergy(energy)
  /\ UNCHANGED vars

\* activate(); in every other case it changes nothing.
EDFActivate(p) ==
  \/ PaidStateChange(p) \/ PaidExpand(p) \/ PaidPull(p) \/ PaidContractTail(p)
  \/ DistributeEnergy(p)

EDFNext == \E p \in particles : EDFActivate(p)

EDFHasTerminated == HasTerminated /\ FullyCharged(Energy)

\* The system activates particles at random for ever, so while one of them can
\* do something, something happens.
EDFSpec == EDFInit /\ [][EDFNext]_edfVars /\ WF_edfVars(EDFNext)

-----------------------------------------------------------------------------
(* Properties                                                              *)

\* The type invariant.
EDFTypeOK ==
  /\ TypeOK
  /\ eState \in [particles -> EnergyStates]
  /\ \A p \in particles : eParentLabel[p] \in {-1} \cup Labels(body[p])
  /\ battery \in [particles -> 0 .. Capacity + TransferRate - 1]

EParentOf(p) == ParticleAt(NbrNode(body[p], eParentLabel[p]))

\* The energy forest stays a forest while its particles move (alpha_4 to
\* alpha_6, prune): labels are renumbered and trees are cut so that the members
\* of the trees, and nobody else, point at a particle, and every tree hangs on a
\* source or on a particle that knows it has been cut off.
ForestRooted ==
  /\ \A p \in particles :
       (eParentLabel[p] # -1) <=> eState[p] \in {"Active", "Asking", "Growing"}
  /\ \A p \in InEnergyState({"Active", "Asking", "Growing"}) :
       NbrNode(body[p], eParentLabel[p]) \in Occupied \ Nodes(body[p])
  /\ \A C \in SUBSET InEnergyState({"Active", "Asking", "Growing"}) :
       C # {} => \E p \in C : EParentOf(p) \notin C
  /\ \A p \in InEnergyState({"Active", "Asking", "Growing"}) : eState[EParentOf(p)] # "Idle"

\* The hexagon is completed and all batteries are full.
EDFTerminates == <>EDFHasTerminated
=============================================================================
