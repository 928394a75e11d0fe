CONSTANTS
  SendBuffer = 1
  MaxLength = 2
  MaxMessages = 2
SPECIFICATION Spec
PROPERTIES PeerCloseNoticed
CHECK_DEADLOCK FALSE
