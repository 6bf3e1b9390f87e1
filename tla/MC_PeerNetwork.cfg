CONSTANTS
  Device = {a, b}
  MaxConns = 2
  Update = {u1}
  None = None
  Dialers = {a}
  Kind = {"direct", "reconnect"}
  WireSize = 0
  Budgets <- MCBudgets
  Coalesced = TRUE
SPECIFICATION FairSpec
INVARIANTS TypeOK BlockedGetsNoBroadcast 
PROPERTIES BroadcastEnds DeadStreamLeaves ListenerHears
CHECK_DEADLOCK FALSE
