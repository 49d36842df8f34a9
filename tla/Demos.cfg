SPECIFICATION MCSpec
CONSTANTS
  Compasses <- MixedCompasses
  Shapes <- MCShapes
  RingSide = 2
  RingCompasses <- MCRingCompasses
  TokensPerColor = 2
  Lifetime = 6
  FillerStarts <- MCFillerStarts
  NumPairs = 2
  FloorWidth = 3
  NumDancers = 2
  CounterMax = 2
  Colors = {"Red", "Blue"}
  MaxBumps = 1
INVARIANTS PointersLeadOut FillersHoldTogether DancersStay
PROPERTIES ImplementsErosion TokensGoRound DemosEnd
CHECK_DEADLOCK FALSE
