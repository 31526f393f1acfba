SPECIFICATION Spec
CONSTANTS
  Texts <- MCTexts
  Setup <- MCSetup
  MaxId = 5
  MaxIntervals = 1
  ShortWrites = FALSE
  Hangups = FALSE
INVARIANT AnsweredIsAlive
CHECK_DEADLOCK FALSE
