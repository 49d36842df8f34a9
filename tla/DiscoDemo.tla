------------------------------- MODULE DiscoDemo -------------------------------
(***************************************************************************)
(* alg/demo/discodemo.cpp: particles in a closed hexagon of objects that   *)
(* expand and contract at random and change colour now and then; and       *)
(* alg/demo/metricsdemo.cpp: the same particles, whose bumps into the wall *)
(* are counted.  The two measures of the latter, which read the bodies and *)
(* the colours and change nothing, are left out.                           *)
(***************************************************************************)
EXTENDS Amoebots, Walls

CONSTANTS
  NumParticles,
  CounterMax,        \* _counterMax
  Colors,            \* the values of State
  Compasses,         \* the draws of randDir(), one direction per particle
  MaxBumps           \* the bumps that are told apart

VARIABLES
  state,             \* _state and _counter of each particle
  counter,
  wallBumps    \* the value of the count "# Wall Bumps", of MetricsDemo only

vars == <<body, objects, state, counter>>

\* 1.4 times the square root of the number of particles, rounded.
SideLen == CHOOSE s \in 1 .. 2 * NumParticles :
             /\ 25 * (2 * s - 1) * (2 * s - 1) <= 196 * NumParticles
             /\ 196 * NumParticles < 25 * (2 * s + 1) * (2 * s + 1)

\* There is a floor, and the draws are directions.
DiscoAssumption ==
  /\ NumParticles \in Nat /\ SideLen \in Nat /\ CounterMax \in Nat \ {0}
  /\ \A compass \in Compasses : \A p \in 1 .. NumParticles : compass[p] \in Dir

Init ==
  /\ objects = Hexagon(SideLen)
  /\ \E place \in [1 .. NumParticles -> InHexagon(SideLen)], compass \in Compasses :
       /\ \A p, q \in 1 .. NumParticles : p # q => place[p] # place[q]
       /\ body = [p \in 1 .. NumParticles |->
                   [head |-> place[p], globalTailDir |-> -1, orientation |-> compass[p]]]
  /\ state \in [1 .. NumParticles -> Colors]
  /\ counter = [p \in 1 .. NumParticles |-> CounterMax]

CountDown(p) ==
  IF counter[p] = 1
  THEN /\ counter' = [counter EXCEPT ![p] = CounterMax]
       /\ \E color \in Colors : state' = [state EXCEPT ![p] = color]
  ELSE /\ counter' = [counter EXCEPT ![p] = @ - 1]
       /\ UNCHANGED state

\* In a random direction, where nobody and no object is.
Expand(p) ==
  /\ IsContracted(body[p])
  /\ \E expandDir \in Dir : CanExpand(p, expandDir) /\ body' = AfterExpand(p, expandDir)

Stay(p) ==
  /\ IsContracted(body[p])
  /\ \E expandDir \in Dir : ~ CanExpand(p, expandDir)
  /\ UNCHANGED body

Contract(p) == IsExpanded(body[p]) /\ body' = AfterContractTail(p)

Activate(p) ==
  /\ CountDown(p)
  /\ Expand(p) \/ Stay(p) \/ Contract(p)
  /\ UNCHANGED objects

Next == \E p \in particles : Activate(p)

Spec == Init /\ [][Next]_vars

-----------------------------------------------------------------------------
(* MetricsDemo                                                             *)

metricsVars == <<vars, wallBumps>>

MetricsInit == Init /\ wallBumps = 0

Min2(a, b) == IF a <= b THEN a ELSE b

\* An expansion into the wall; into another particle it is no bump.
Bump(p) ==
  /\ IsContracted(body[p])
  /\ \E expandDir \in Dir : HasObjectAtLabel(p, expandDir)
  /\ wallBumps' = Min2(wallBumps + 1, MaxBumps)
  /\ UNCHANGED body

StayByParticle(p) ==
  /\ IsContracted(body[p])
  /\ \E expandDir \in Dir : ~ CanExpand(p, expandDir) /\ ~ HasObjectAtLabel(p, expandDir)
  /\ UNCHANGED <<body, wallBumps>>

MetricsActivate(p) ==
  /\ CountDown(p)
  /\ \/ Bump(p) \/ StayByParticle(p)
     \/ (Expand(p) \/ Contract(p)) /\ UNCHANGED wallBumps
  /\ UNCHANGED objects

MetricsNext == \E p \in particles : MetricsActivate(p)

MetricsSpec == MetricsInit /\ [][MetricsNext]_metricsVars

-----------------------------------------------------------------------------
(* Properties                                                              *)

\* The type invariant.
TypeOK ==
  /\ body \in [particles -> Body]
  /\ state \in [particles -> Colors]
  /\ counter \in [particles -> 1 .. CounterMax]

\* The wall has no gap (the constructor, canExpand): nobody ever gets out.
WallHolds == Occupied \subseteq InHexagon(SideLen)
=============================================================================
