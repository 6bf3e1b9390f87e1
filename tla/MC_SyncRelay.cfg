\* two devices, three sockets between them, three rows, with the reset endpoint
CONSTANTS
  Device = {d1, d2}
  Conn = {c1, c2, c3}
  Edit = {e1}
  HistoryLimit = 2
  MaxSequence = 3
  MaxUnread = 1
  ResetEnabled = TRUE
SYMMETRY Symmetry
SPECIFICATION Spec
INVARIANTS TypeOK SequenceAgrees HasHistoryIsTruthful NoRevokedSession HistoryIsGapFree
PROPERTIES RevokedDeviceGetsNothing
