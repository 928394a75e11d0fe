CONSTANTS
  InitialSize = 6
  W = 5
  Zero = Zero
  Requests <- MCRequests
  Bodies <- MCBodies
  ReadMax = 22
  MaxRequests = 2
  MaxArrivals = 2
SPECIFICATION Spec
INVARIANTS InputIntact OutputIsQueue WholeRequestAnswered
CHECK_DEADLOCK FALSE
