SPECIFICATION Spec
CONSTANTS
  WakeupTime = 2
  AliveTime = 3
  IntervalTime = 4
  Horizon = 9
  MaxIntervals = 2
  MaxTimers = 5
  MaxLag = 1
INVARIANT Armed
INVARIANT NoStalePointer
PROPERTY EveryTimerRuns
CHECK_DEADLOCK FALSE
