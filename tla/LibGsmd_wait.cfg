SPECIFICATION LSpec
CONSTANTS
  Slots = {s1, s2}
  Requests = {"pass", "list", "hangup"}
  Asks <- MCAsks
  Bursts = FALSE
  MaxConns = 2
  MaxRequests = 2
  MaxEvents = 0
  MaxLines = 2
  Pipelined = FALSE
  LeavesBusy = FALSE
  LeavesAny = FALSE
  MaxParts = 0
PROPERTY WaitEnds
 
CHECK_DEADLOCK FALSE
