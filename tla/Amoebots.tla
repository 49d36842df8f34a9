------------------------------- MODULE Amoebots -------------------------------
(***************************************************************************)
(* The interface of AmoebotParticle as the algorithms see it.  An          *)
(* activation is one step of these modules, so the map from nodes to       *)
(* particles is the one the bodies determine (AmoebotSystem's              *)
(* MapConsistent), and a call is an operator on bodies, with a condition   *)
(* CanX for the assertions X makes.                                        *)
(***************************************************************************)
EXTENDS LocalParticle, FiniteSets

VARIABLES
  body,      \* the bodies of the particles
  objects    \* the nodes of the objects

particles == DOMAIN body

Occupied == UNION {Nodes(body[p]) : p \in particles}

\* particleMap
ParticleAt(n) == CHOOSE p \in particles : n \in Nodes(body[p])

HasNbrAtLabel(p, l)    == NbrNode(body[p], l) \in Occupied
NbrAtLabel(p, l)       == ParticleAt(NbrNode(body[p], l))
HasObjectAtLabel(p, l) == NbrNode(body[p], l) \in objects
HasObjectNbr(p)        == \E l \in Labels(body[p]) : HasObjectAtLabel(p, l)

HasHeadAtLabel(p, l) ==
  HasNbrAtLabel(p, l) /\ body[NbrAtLabel(p, l)].head = NbrNode(body[p], l)
HasTailAtLabel(p, l) ==
  /\ HasNbrAtLabel(p, l)
  /\ IsExpanded(body[NbrAtLabel(p, l)])
  /\ TailNode(body[NbrAtLabel(p, l)]) = NbrNode(body[p], l)

\* labelOfFirstNbrWithProperty, for the particles of Q.
LabelsOfNbrs(p, Q) ==
  {l \in Labels(body[p]) : \E q \in Q : NbrNode(body[p], l) \in Nodes(body[q])}
LabelOfFirstNbr(p, Q, start) == FirstFrom(LabelsOfNbrs(p, Q), start, LabelLimit(body[p]))

CanExpand(p, l) ==
  IsContracted(body[p]) /\ ~ HasNbrAtLabel(p, l) /\ ~ HasObjectAtLabel(p, l)
CanPush(p, l) ==
  IsContracted(body[p]) /\ HasNbrAtLabel(p, l) /\ IsExpanded(body[NbrAtLabel(p, l)])
CanPull(p, l) ==
  IsExpanded(body[p]) /\ HasNbrAtLabel(p, l) /\ IsContracted(body[NbrAtLabel(p, l)])

AfterExpand(p, l)      == [body EXCEPT ![p] = Expanded(@, l)]
AfterContractTail(p)   == [body EXCEPT ![p] = TailContracted(@)]
AfterContractHead(p)   == [body EXCEPT ![p] = HeadContracted(@)]
AfterPush(p, l) ==
  [body EXCEPT ![p] = Expanded(@, l),
               ![NbrAtLabel(p, l)] = Released(@, NbrNode(body[p], l))]
AfterPull(p, l) ==
  LET n == OccupiedNodeIncidentToLabel(body[p], l)
  IN  [body EXCEPT ![p] = Released(@, n),
                   ![NbrAtLabel(p, l)] = PulledOnto(@, n, LabelToGlobalDir(body[p], l))]
=============================================================================
