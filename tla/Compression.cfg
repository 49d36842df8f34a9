SPECIFICATION Spec
CONSTANTS
  Starts <- MCStarts
  Orientation = {0}
  Region <- MCRegion
INVARIANTS ExpandedKnow StaysConnected PerimeterRight
PROPERTY ImplementsChain
CHECK_DEADLOCK FALSE
