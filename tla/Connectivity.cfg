SPECIFICATION Spec
CONSTANT Systems <- MCSystems
INVARIANT ChecksConnected
CHECK_DEADLOCK FALSE
