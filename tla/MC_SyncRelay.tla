---------------------------- MODULE MC_SyncRelay ----------------------------
(* SyncRelay with two devices and interchangeable sockets.                  *)
EXTENDS SyncRelay, TLC

Symmetry == Permutations(Conn)
=============================================================================
