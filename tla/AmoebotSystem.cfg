SPECIFICATION Spec
CONSTANTS
  Particle = {p1, p2}
  NoParticle = NoParticle
  Region <- MCRegion
  ObjectSite <- MCSite
  Orientation = {0, 2}
  InsertTailDir <- MCContracted
  MaxActivations = 4
  MaxMoves = 5
  MeasureFreq = 2
SYMMETRY ParticleSymmetry
INVARIANTS MapConsistent ActivatedAlive HistoryAgrees
PROPERTIES RoundFound RoundCost ImplementsModel
CHECK_DEADLOCK FALSE
