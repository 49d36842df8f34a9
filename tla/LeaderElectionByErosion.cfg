SPECIFICATION MCSpec
CONSTANT Shapes <- MCShapes
INVARIANTS NoEarlyErosion RestConnected ElectionOver
PROPERTIES RunsEnd ImplementsErosion
CHECK_DEADLOCK FALSE
CONSTANTS
  Compasses <- MCCompasses
  SourceSets <- MCSourceSets
  MaxPowered = 4
  Capacity = 2
  TransferRate = 1
  Demand = 2
  AgentShapes <- MCAgentShapes
  Retrying <- MCSmall
