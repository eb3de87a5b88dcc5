SPECIFICATION FairSpec
CONSTANTS
  TimerLimit = 1
  SocketLimit = 2
  DispatchLimit = 2
  NonceMod = 8
  Fds = {f1}
  WakeupFd = w
  Delays <- MCOnTime
  Intervals = {0}
  PollCap <- MCForever
  ZeroAfterPoll = FALSE
  Foreign <- NoClear
  Destroys = {TRUE}
  MayStop = FALSE
  MaxTime = 1
  MaxReg = 2
  f1 = f1
  w = w
PROPERTIES
  DispatchIsFifo
  TimerFires
  RemovedIsReleased
CHECK_DEADLOCK FALSE
