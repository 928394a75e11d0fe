CONSTANTS
  SendBuffer = 1
  MaxLength = 2
  MaxMessages = 2
SPECIFICATION Spec
INVARIANTS TypeOK OutputWatched MessagesKept
PROPERTIES OutputDrains
CHECK_DEADLOCK FALSE
