SPECIFICATION AgentsSpec
CONSTANT Shapes <- MCShapes
INVARIANTS WellFormed SoleIsAlone AnswerUnderWay
CHECK_DEADLOCK FALSE
CONSTANTS
  Compasses <- MCCompasses
  SourceSets <- MCSourceSets
  MaxPowered = 4
  Capacity = 2
  TransferRate = 1
  Demand = 2
  AgentShapes <- MCAgentShapes
  Retrying <- MCSmall
