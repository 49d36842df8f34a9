------------------------------- MODULE Metrics -------------------------------
(***************************************************************************)
(* The bookkeeping of the system (core/metric.h and the register functions *)
(* of core/amoebotsystem.cpp) as operators on one record, the log:         *)
(*                                                                         *)
(*   activated        the particles activated since the last round         *)
(*   rounds, activations, moves    the three default counts                *)
(*   countHistory     what was committed of them, once per round           *)
(*   measureHistory   the values of one measure of frequency MeasureFreq   *)
(*                                                                         *)
(* The actions of the modules that use it apply these operators in the     *)
(* order in which the code makes the calls.                                *)
(***************************************************************************)
EXTENDS Integers, Sequences, FiniteSets

CONSTANT MeasureFreq

ASSUME MeasureFreqAssumption == MeasureFreq \in Nat \ {0}

NewLog ==
  [activated |-> {}, rounds |-> 0, activations |-> 0, moves |-> 0,
   countHistory |-> << >>, measureHistory |-> << >>]

RegisterMovement(log, n) == [log EXCEPT !.moves = @ + n]

\* Mutant: the round is counted before the counts are committed.
RegisterRoundEarly(log, measure) ==
  [log EXCEPT
    !.countHistory   = Append(@, [rounds |-> log.rounds + 1,
                                  activations |-> log.activations,
                                  moves |-> log.moves]),
    !.measureHistory = IF log.rounds % MeasureFreq = 0 THEN Append(@, measure) ELSE @,
    !.rounds         = @ + 1]

\* Commits the counts, takes the measure when it is due, and only then counts
\* the round.
RegisterRound(log, measure) ==
  [log EXCEPT
    !.countHistory   = Append(@, [rounds |-> log.rounds,
                                  activations |-> log.activations,
                                  moves |-> log.moves]),
    !.measureHistory = IF log.rounds % MeasureFreq = 0 THEN Append(@, measure) ELSE @,
    !.rounds         = @ + 1]

\* Mutants: a round is one activation short; the sizes are compared before the
\* particle is in the set.
RegisterActivationShort(log, p, particles, measure) ==
  LET logged == [log EXCEPT !.activations = @ + 1, !.activated = @ \cup {p}]
  IN  IF Cardinality(logged.activated) + 1 >= Cardinality(particles)
      THEN [RegisterRound(logged, measure) EXCEPT !.activated = {}]
      ELSE logged
RegisterActivationLate(log, p, particles, measure) ==
  LET logged == [log EXCEPT !.activations = @ + 1, !.activated = @ \cup {p}]
  IN  IF Cardinality(log.activated) = Cardinality(particles)
      THEN [RegisterRound(logged, measure) EXCEPT !.activated = {}]
      ELSE logged

RegisterActivation(log, p, particles, measure) ==
  LET logged == [log EXCEPT !.activations = @ + 1, !.activated = @ \cup {p}]
  IN  IF Cardinality(logged.activated) = Cardinality(particles)
      THEN [RegisterRound(logged, measure) EXCEPT !.activated = {}]
      ELSE logged
=============================================================================
