SPECIFICATION Spec
CONSTANTS
  Particle = {p1, p2}
  NoParticle = NoParticle
  Region <- MCHexagon
  ObjectSite = {}
  Orientation = {0, 1, 2, 3, 4, 5}
  InsertTailDir <- MCAnyTail
  MaxActivations = 0
  MaxMoves = 0
  MeasureFreq = 1
INVARIANTS PortTables PredictionRight PairsAgree
CHECK_DEADLOCK FALSE
