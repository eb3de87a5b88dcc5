SPECIFICATION Spec
CONSTANTS
  TimerLimit = 0
  SocketLimit = 3
  DispatchLimit = 0
  NonceMod = 8
  Fds = {f1, f2}
  WakeupFd = w
  Delays <- MCOnTime
  Intervals = {0}
  PollCap <- MCForever
  ZeroAfterPoll = TRUE
  Foreign <- JustAdd
  Destroys = {TRUE}
  MayStop = FALSE
  MaxTime = 0
  MaxReg = 3
  f1 = f1
  f2 = f2
  w = w
INVARIANTS
  SocketTable
PROPERTIES
  OwnHandle
  NoCallAfterRelease
CHECK_DEADLOCK FALSE
