SPECIFICATION Spec
CONSTANTS
  Texts <- MCTexts
  Setup <- MCSetup
  MaxId = 5
  MaxIntervals = 1
  ShortWrites = TRUE
  Hangups = TRUE
INVARIANT TypeOK
INVARIANT NoLostWakeup
INVARIANT TimerHasWakeup
INVARIANT AliveRecordHeld
PROPERTY ImplementsAtQueue
CHECK_DEADLOCK FALSE
