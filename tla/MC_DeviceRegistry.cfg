\* the system may stop when the bounds are reached
CONSTANTS
  phone = phone
  laptop = laptop
  Device = {phone, laptop}
  Birth = {1, 2, 3}
  FirstBirth <- MCFirstBirth
  None = None
  Broken = Broken
  MaxMail = 1
  Budgets <- MCBudgets
SPECIFICATION FairSpec
INVARIANT TypeOK
PROPERTIES RevocationsStay NeverForks Agree
CHECK_DEADLOCK FALSE
