SPECIFICATION Spec
CONSTANTS
  Slots = {s1, s2}
  Requests = {"pass", "list", "quiet", "subscribe", "unsubscribe", "hangup", "invalid"}
  MaxConns = 2
  MaxRequests = 2
  MaxEvents = 1
  MaxLines = 1
  Pipelined = TRUE
  LeavesBusy = FALSE
  LeavesAny = TRUE
  MaxParts = 1
INVARIANT RepliesToOwner
INVARIANT WritersPolled
INVARIANT InOrder
SYMMETRY Symmetry
CHECK_DEADLOCK FALSE
