SPECIFICATION Spec
CONSTANTS
  Width = 4
  Height = 4
  Word = 1024
  Boards <- MCBoards
  Layout <- MCLayout
  Touchable <- MCTouchable
  MaxTouches = 5
  MaxRuns = 2
  MaxProcs = 4
  MaxRequests = 1
 
INVARIANT AsPressed
 
INVARIANT WholeReport
PROPERTY TestEnds
CHECK_DEADLOCK FALSE
