CONSTANTS
  Device = {a, b}
  MaxConns = 2
  Update = {u1, u2}
  None = None
  Dialers = {a, b}
  Kind = {"direct"}
  WireSize = 0
  Budgets <- MCBroadcasts
  Coalesced = FALSE
SPECIFICATION FairSpec
PROPERTIES BroadcastEnds
CHECK_DEADLOCK FALSE
