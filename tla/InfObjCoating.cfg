SPECIFICATION Spec
CONSTANTS
  Builds <- MCBuilds
  Compasses <- MCCompasses
INVARIANT ForestOnSurface
PROPERTIES AllJoin WalkStops
CHECK_DEADLOCK FALSE
