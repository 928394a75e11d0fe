CONSTANTS
  Threads = {t1, t2}
  LoopThread = io
  Functors = {f, g}
  NoFunctor = none
  Channels = {c}
  WakeupChannel = wakeup
  EventSlots = 1
  MaxPending = 2
  MaxWakeups = 2
SPECIFICATION LiveSpec
INVARIANTS TypeOK NoLostWakeup NoSleepOverStop
PROPERTIES RunsFunctorsInOrder QueuedFunctorRuns ReadyChannelServed StopEndsLoop WakeupsConsumed
