SPECIFICATION MCSpec
CONSTANTS
  Modes = {"h", "s", "t1", "t2", "l"}
  Starts <- MCStarts
  Orientation = {0}
  FreshTurnSignal = {0}
INVARIANTS ForestOnSurface FigureIsFull
PROPERTY Terminates
CHECK_DEADLOCK FALSE
