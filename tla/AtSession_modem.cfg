SPECIFICATION SSpec
CONSTANTS
  Texts <- MCTexts
  Setup <- MCSetup
  MaxId = 11
  MaxIntervals = 1
  ShortWrites = FALSE
  Hangups = FALSE
  ClientIds = 4
  LateWakeups = TRUE
INVARIANT OneExecuting
PROPERTY AnswersMatchInTime
PROPERTY BodyAfterPrompt
PROPERTY AllFinished
CHECK_DEADLOCK FALSE
