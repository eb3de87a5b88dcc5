SPECIFICATION Spec
CONSTANTS
  TimerLimit = 1
  SocketLimit = 2
  DispatchLimit = 1
  NonceMod = 3
  Fds = {f1}
  WakeupFd = w
  Delays <- MCOnTime
  Intervals = {0, 1}
  PollCap = 1
  ZeroAfterPoll = TRUE
  Foreign <- AnyThread
  Destroys = {TRUE, FALSE}
  MayStop = TRUE
  MaxTime = 1
  MaxReg = 2
  f1 = f1
  w = w
INVARIANTS
  LooperInv
  NoLostWakeup
  TeardownReleasesUsed
CHECK_DEADLOCK FALSE
