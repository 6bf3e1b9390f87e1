\* a socket fails between ACK and HISTORY; the system may stop when the bounds are reached
CONSTANTS
  e1 = e1
  e2 = e2
  Device = {d1, d2}
  Edit = {e1, e2}
  None = None
  HistoryLimit = 1
  MaxSequence = 1
  MaxUnread = 20
  ResetEnabled = FALSE
  MaxAttempts = 2
  Scenarios <- MCMissed
SPECIFICATION Spec
INVARIANT CaughtUp
CHECK_DEADLOCK FALSE
