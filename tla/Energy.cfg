SPECIFICATION MCSpec
CONSTANTS
  Compasses <- MCCompasses
  PlainStarts <- MCPlainStarts
  Starts <- MCStarts
  PayingStarts <- MCPayingStarts
  Sources = {1, 2, 3}
  PayingRoots <- MCPayingRoots
  SharingStarts <- MCSharingStarts
  SharingRoots = {{1}}
  SharingOrientation = {2}
  MaxParticles = 3
  Capacity = 2
  TransferRate = 1
  Demand = 1
INVARIANTS HexagonsAreFull HexagonWalkersLed EnergyForestRooted SharingForestStands
PROPERTIES PayingImplementsShapeFormation HexagonsTerminate EnergyReachesAll
CHECK_DEADLOCK FALSE
