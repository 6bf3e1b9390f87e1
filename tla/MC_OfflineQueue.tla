--------------------------- MODULE MC_OfflineQueue ---------------------------
(* OfflineQueue; what may happen in each behaviour.                         *)
EXTENDS OfflineQueue

Run(u, c, what) == [updates |-> u, connections |-> c, may |-> what]

\* three updates with one connection and kills; two updates and two connections with a
\* disconnect and kills; failures alone, with kills, and with a disconnect
MCScenarios ==
  {Run(3, 1, {"kill"}), Run(2, 2, {"disconnect", "kill"}),
   Run(2, 2, {"fail"}), Run(2, 1, {"fail", "kill"}), Run(2, 1, {"fail", "disconnect"})}
=============================================================================
