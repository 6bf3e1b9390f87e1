\* two devices write the same note; the devices may stop when the bound is reached
CONSTANTS
  n1 = n1
  n2 = n2
  n3 = n3
  Device = {1, 2}
  Id = {n1, n2, n3}
  Old = {n1, n2}
  None = None
  Scenarios <- MCBodies
SPECIFICATION Spec
INVARIANT BodiesReadable
CHECK_DEADLOCK FALSE
