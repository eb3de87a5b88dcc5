SPECIFICATION TimerSpec
CONSTANTS
  Alloc = 3
  Generations = 2
  Data = {d1}
  d1 = d1
  Times = {0, 2}
  Delays = {0, 1}
INVARIANTS
  TimerInv
PROPERTIES
  ImplementsTimerSet
