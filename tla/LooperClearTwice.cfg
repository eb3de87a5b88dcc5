SPECIFICATION Spec
CONSTANTS
  TimerLimit = 2
  SocketLimit = 1
  DispatchLimit = 0
  NonceMod = 8
  Fds = {}
  WakeupFd = w
  Delays <- MCOnTime
  Intervals = {0}
  PollCap <- MCForever
  ZeroAfterPoll = FALSE
  Foreign <- NoClear
  Destroys = {TRUE, FALSE}
  MayStop = FALSE
  MaxTime = 1
  MaxReg = 2
  w = w
PROPERTIES
  ClearTimerAsserts
