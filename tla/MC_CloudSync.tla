---------------------------- MODULE MC_CloudSync ----------------------------
(* CloudSync with two devices; the scenarios are named in the cfg files.    *)
EXTENDS CloudSync

CONSTANTS e1, e2

\* two edits, typed or not, when nothing fails; one edit and three sockets with failing
\* sockets, or a restarting relay; two sockets with both, and with calls that fail
MCScenarios ==
  {[edits |-> {e1, e2}, sockets |-> 4, may |-> {"bodies"}],
   [edits |-> {e1}, sockets |-> 3, may |-> {"offline", "drops"}],
   [edits |-> {e1}, sockets |-> 3, may |-> {"restarts"}],
   [edits |-> {e1}, sockets |-> 2, may |-> {"offline", "drops", "restarts"}],
   [edits |-> {e1, e2}, sockets |-> 2, may |-> {"offline", "fails"}]}

MCMissed == {[edits |-> {e1}, sockets |-> 3, may |-> {"drops"}]}
=============================================================================
