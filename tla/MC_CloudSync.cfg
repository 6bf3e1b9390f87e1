\* with and without failures; the system may stop when the bounds are reached
CONSTANTS
  e1 = e1
  e2 = e2
  Device = {d1, d2}
  Edit = {e1, e2}
  None = None
  HistoryLimit = 2
  MaxSequence = 2
  MaxUnread = 20
  ResetEnabled = FALSE
  MaxAttempts = 2
  Scenarios <- MCScenarios
SPECIFICATION FairSpec
INVARIANTS TypeOK NeverAhead CaughtUpWhenStable Delivered
PROPERTIES ImplementsRelay Converges
CHECK_DEADLOCK FALSE
