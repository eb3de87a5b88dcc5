SPECIFICATION Spec
CONSTANTS
  TimerLimit = 2
  SocketLimit = 1
  DispatchLimit = 0
  NonceMod = 8
  Fds = {}
  WakeupFd = w
  Delays <- MCRepeat
  Intervals = {0}
  PollCap <- MCForever
  ZeroAfterPoll = FALSE
  Foreign <- NoClear
  Destroys = {TRUE, FALSE}
  MayStop = FALSE
  MaxTime = 3
  MaxReg = 3
  w = w
INVARIANTS
  SleepCoversTimers
  OnceOnly
PROPERTIES
  TimerNotEarly
  StaleIdHarmless
  CancelledNeverRuns
