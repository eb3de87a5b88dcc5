SPECIFICATION Spec
CONSTANTS
  Alloc = 2
  Generations = 8
  Data <- MCData
  Times = {}
  Delays = {1}
  Capacity = 0
  QueueMax = 16
  Threads = {t1}
  Sources = {}
  SourceMax = 2
  WakeMax = 1
  LoopCalls = {"startTimer"}
  ThreadCalls <- TimerCalls
  IntervalsToo = {FALSE, TRUE}
  Destroys = {TRUE}
  SelectFails = FALSE
  Signals = FALSE
  Finalizes = FALSE
  MaxTime = 1
  MaxReg = 3
  t1 = t1
INVARIANTS
  SleepCoversTimers
PROPERTIES
  StoppedIsSilent
  TimerNotEarly
CHECK_DEADLOCK FALSE
