SPECIFICATION Spec
CONSTANTS
  Alloc = 1
  Generations = 8
  Data <- MCData
  Times = {}
  Delays = {}
  Capacity = 0
  QueueMax = 4
  Threads = {t1}
  Sources = {}
  SourceMax = 2
  WakeMax = 2
  LoopCalls <- WorkCalls
  ThreadCalls <- WorkCalls
  IntervalsToo = {FALSE}
  Destroys = {TRUE, FALSE}
  SelectFails = FALSE
  Signals = FALSE
  Finalizes = FALSE
  MaxTime = 0
  MaxReg = 4
  t1 = t1
PROPERTIES
  PushTaken
CHECK_DEADLOCK FALSE
