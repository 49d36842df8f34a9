SPECIFICATION Spec
CONSTANTS
  Builds <- MCBuilds
  Compasses <- MCCompasses
CHECK_DEADLOCK FALSE
PROPERTY Coats
