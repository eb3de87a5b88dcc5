SPECIFICATION FairSpec
CONSTANTS
  Alloc = 1
  Generations = 8
  Data <- MCData
  Times = {}
  Delays = {}
  Capacity = 1
  QueueMax = 4
  Threads = {t1, t2}
  Sources = {}
  SourceMax = 2
  WakeMax = 2
  LoopCalls <- WorkCalls
  ThreadCalls <- WorkCalls
  IntervalsToo = {FALSE}
  Destroys = {TRUE}
  SelectFails = TRUE
  Signals = TRUE
  Finalizes = FALSE
  MaxTime = 0
  MaxReg = 3
  t1 = t1
  t2 = t2
INVARIANTS
  LooperInv
  NoLostWork
PROPERTIES
  WorkIsFifo
  WaitEndsLast
  WorkRuns
  WaitEnds
CHECK_DEADLOCK FALSE
