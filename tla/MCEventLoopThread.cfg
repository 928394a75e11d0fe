CONSTANTS
  Threads = {main, t}
  Owner = main
  LoopThread = io
  Functors = {f, g}
  NoFunctor = none
  Channels = {}
  WakeupChannel = wakeup
  EventSlots = 1
  MaxPending = 2
  MaxWakeups = 8
SPECIFICATION ThreadSpec
INVARIANTS ThreadTypeOK StartedLoopIsAlive
PROPERTIES EarlyWorkRuns StopThenJoin
CHECK_DEADLOCK FALSE
