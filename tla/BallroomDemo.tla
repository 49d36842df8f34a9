----------------------------- MODULE BallroomDemo -----------------------------
(***************************************************************************)
(* alg/demo/ballroomdemo.cpp: pairs of a leader and a follower dance       *)
(* through a closed rhombus of objects, by handovers in which either of    *)
(* the two sets the pointer of the follower.  The odd numbers lead, the    *)
(* next even number follows; the colours are left out.                     *)
(***************************************************************************)
EXTENDS Amoebots, Walls

CONSTANTS
  NumPairs,
  Compasses          \* the draws of randDir(), one direction per particle

VARIABLE partnerLbl  \* _partnerLbl of each particle

vars == <<body, objects, partnerLbl>>

Leads(p) == p % 2 = 1

\* 2.6 times the square root of the number of particles, rounded.
SideLen == CHOOSE s \in 1 .. 6 * NumPairs :
             /\ 25 * (2 * s - 1) * (2 * s - 1) <= 676 * 2 * NumPairs
             /\ 676 * 2 * NumPairs < 25 * (2 * s + 1) * (2 * s + 1)

\* There is a floor, and the draws are directions.
BallAssumption ==
  /\ NumPairs \in Nat /\ SideLen \in Nat
  /\ \A compass \in Compasses : \A p \in 1 .. 2 * NumPairs : compass[p] \in Dir

Init ==
  /\ objects = Rhombus(SideLen)
  /\ \E leaderNode \in [1 .. NumPairs -> (2 .. SideLen - 2) \X (2 .. SideLen - 2)],
        followerDir \in [1 .. NumPairs -> Dir], compass \in Compasses :
       \E place \in {[p \in 1 .. 2 * NumPairs |->
                        LET pair == (p + 1) \div 2
                        IN  IF Leads(p) THEN leaderNode[pair]
                                        ELSE NodeInDir(leaderNode[pair], followerDir[pair])]} :
         /\ \A p, q \in 1 .. 2 * NumPairs : p # q => place[p] # place[q]
         /\ body = [p \in 1 .. 2 * NumPairs |->
                     [head |-> place[p], globalTailDir |-> -1, orientation |-> compass[p]]]
         /\ partnerLbl = [p \in 1 .. 2 * NumPairs |->
                           IF Leads(p) THEN -1
                           ELSE GlobalToLocalDir(body[p], Opposite(followerDir[p \div 2]))]

LeaderExpands(p) ==
  /\ Leads(p) /\ IsContracted(body[p])
  /\ \E expandDir \in Dir : CanExpand(p, expandDir) /\ body' = AfterExpand(p, expandDir)
  /\ UNCHANGED <<objects, partnerLbl>>

\* The tail labels of p whose neighbours' pointers lead to p; those of expanded
\* ones are read as labels, too.  headLabels() and tailLabels() start at the
\* label whose predecessor is not among them.
PointingLabels(p) ==
  {l \in TailLabels(body[p]) :
     /\ HasNbrAtLabel(p, l)
     /\ \E q \in {NbrAtLabel(p, l)} :
          partnerLbl[q] # -1 /\ PointsAtMe(body[p], body[q], partnerLbl[q])}
FirstTailLabel(p) == CHOOSE l \in TailLabels(body[p]) : (l + 9) % 10 \notin TailLabels(body[p])

\* Mutant: the follower is left pointing as it did.
LeaderPullsSilently(p) ==
  /\ Leads(p) /\ IsExpanded(body[p])
  /\ PointingLabels(p) # {}
  /\ \E label \in {FirstFrom(PointingLabels(p), FirstTailLabel(p), 10)} :
       CanPull(p, label) /\ body' = AfterPull(p, label)
  /\ UNCHANGED <<objects, partnerLbl>>

\* The first of them is pulled, if it can be.
LeaderPulls(p) ==
  /\ Leads(p) /\ IsExpanded(body[p])
  /\ PointingLabels(p) # {}
  /\ \E label \in {FirstFrom(PointingLabels(p), FirstTailLabel(p), 10)} :
       /\ CanPull(p, label)
       /\ \E q \in {NbrAtLabel(p, label)} :
            partnerLbl' = [partnerLbl EXCEPT
                            ![q] = DirToNbrDir(body[p], body[q], Opposite(TailDir(body[p])))]
       /\ body' = AfterPull(p, label)
  /\ UNCHANGED objects

FollowerPushes(p) ==
  /\ ~ Leads(p)
  /\ CanPush(p, partnerLbl[p])
  /\ \E leader \in {body[NbrAtLabel(p, partnerLbl[p])]} :
       partnerLbl' = [partnerLbl EXCEPT
                       ![p] = NbrDirToDir(body[p], leader, Opposite(TailDir(leader)))]
  /\ body' = AfterPush(p, partnerLbl[p])
  /\ UNCHANGED objects

FollowerContracts(p) ==
  /\ ~ Leads(p) /\ IsExpanded(body[p])
  /\ body' = AfterContractTail(p)
  /\ UNCHANGED <<objects, partnerLbl>>

\* activate(); in every other case it changes nothing.
Activate(p) == LeaderExpands(p) \/ LeaderPulls(p) \/ FollowerPushes(p) \/ FollowerContracts(p)

Next == \E p \in particles : Activate(p)

Spec == Init /\ [][Next]_vars

-----------------------------------------------------------------------------
(* Properties                                                              *)

\* The type invariant.
TypeOK ==
  /\ body \in [particles -> Body]
  /\ \A p \in particles : partnerLbl[p] \in IF Leads(p) THEN {-1} ELSE Dir

\* Whoever redirects a pointer, in a pull or a push, the dancers stay with
\* their partners: the head of a follower has its leader in the direction the
\* pointer says, and nobody pulls or pushes a particle of another pair.
PartnersStay ==
  \A p \in particles :
    ~ Leads(p) => NodeInDir(body[p].head, LocalToGlobalDir(body[p], partnerLbl[p])) \in Nodes(body[p - 1])

\* The wall has no gap: nobody ever gets out.
WallHolds == Occupied \subseteq InRhombus(SideLen)
=============================================================================
