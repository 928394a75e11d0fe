CONSTANTS
  MaxThreads = 1
  MaxConns = 2
  MaxFds = 2
  MaxRemovals = 1
SPECIFICATION Spec
INVARIANTS ClosedOnce
CHECK_DEADLOCK FALSE
