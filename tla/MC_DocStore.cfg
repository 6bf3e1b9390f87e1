CONSTANTS
  Device = {a, b}
  Edit = {1, 2}
  Torn = Torn
  Budgets <- MCBudgets
SPECIFICATION FairSpec
INVARIANTS TypeOK SavedSurvives
PROPERTIES Promise ReachesDisk ReachesPeer
CHECK_DEADLOCK FALSE
