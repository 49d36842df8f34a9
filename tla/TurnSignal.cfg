SPECIFICATION Spec
CONSTANTS
  Modes = {"s"}
  Starts <- MCLine
  Orientation = {0}
  FreshTurnSignal = {0, 2}
PROPERTY Terminates
CHECK_DEADLOCK FALSE
