\* the devices may stop when the bound on writes is reached
CONSTANTS
  n1 = n1
  n2 = n2
  n3 = n3
  Device = {1, 2}
  Id = {n1, n2, n3}
  Old = {n1, n2}
  None = None
  Scenarios <- MCScenarios
SPECIFICATION Spec
INVARIANT TypeOK
PROPERTIES   DeleteManyIsExact
CHECK_DEADLOCK FALSE
