SPECIFICATION Spec
CONSTANTS
  Sessions <- AllSessions
  Results <- MCResults
  MaxLines = 2
  Foreign <- ForeignLines
  MaxForeign = 1
  Garbled = FALSE
  Preset = TRUE
  SilentLines = FALSE
INVARIANT WellAnswered
INVARIANT ListEnds
INVARIANT OwnLine
INVARIANT SuccessIsTrue
CHECK_DEADLOCK FALSE
