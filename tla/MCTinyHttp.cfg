CONSTANTS
  BufSize = 2
  MaxLine = 4
  Char <- MCChar
  CR = "cr"
  LF = "lf"
  Target <- MCTarget
  Files <- MCFiles
  Scripts <- MCScripts
  SendBuf = 2
  MaxConnections = 2
SPECIFICATION FairSpec
INVARIANTS LinesAreStream OnlyParentAccepts AcceptHoldsNothing OneAnswer
PROPERTIES CompleteRequestEnds
CHECK_DEADLOCK FALSE
