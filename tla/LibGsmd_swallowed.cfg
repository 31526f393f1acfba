SPECIFICATION LSpec
CONSTANTS
  Slots = {s1}
  Requests = {"pass"}
  MaxConns = 1
  MaxRequests = 1
  MaxEvents = 1
  MaxLines = 0
  Pipelined = FALSE
  LeavesBusy = FALSE
  LeavesAny = FALSE
  MaxParts = 0
  Asks <- MCOne
  Bursts = TRUE
PROPERTY WaitEnds
CHECK_DEADLOCK FALSE
