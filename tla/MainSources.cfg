SPECIFICATION FairSpec
CONSTANTS
  Alloc = 1
  Generations = 8
  Data <- MCData
  Times = {}
  Delays = {0, 1}
  Capacity = 0
  QueueMax = 16
  Threads = {t1}
  Sources = {s1, s2}
  SourceMax = 2
  WakeMax = 1
  LoopCalls = {"startTimer", "stopTimer", "attach", "detach"}
  ThreadCalls = {"attach", "detach", "call", "startTimer", "stopTimer"}
  IntervalsToo = {FALSE, TRUE}
  Destroys = {TRUE, FALSE}
  SelectFails = TRUE
  Signals = FALSE
  Finalizes = TRUE
  MaxTime = 0
  MaxReg = 1
  t1 = t1
  s1 = s1
  s2 = s2
INVARIANTS
  SourceTable
  FinalizeReleases
PROPERTIES
  TimerFires
  SourceCalled
CHECK_DEADLOCK FALSE
