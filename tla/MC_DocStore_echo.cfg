CONSTANTS
  Device = {a, b}
  Edit = {1, 2}
  Torn = Torn
  Budgets <- MCConnected
SPECIFICATION FairSpec
PROPERTIES ComesToRest
CHECK_DEADLOCK FALSE
