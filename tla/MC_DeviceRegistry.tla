-------------------------- MODULE MC_DeviceRegistry --------------------------
(* Two devices and a third birth, between theirs, for a restart.           *)
EXTENDS DeviceRegistry, TLC

CONSTANTS phone, laptop

MCFirstBirth == (phone :> 1) @@ (laptop :> 3)

LOCAL Bound(registers, revokes, renames, kills, failures, dials, paired) ==
  [registers |-> registers, revokes |-> revokes, renames |-> renames,
   kills |-> kills, failures |-> failures, dials |-> dials, paired |-> paired]

\* both register; one registers and is revoked by the other; a restart and a failure
\* after both, and together; local peers, before and after devices are known
MCBudgets == {Bound(2, 0, 0, 0, 0, 0, 0), Bound(1, 1, 0, 0, 0, 0, 0),
              Bound(1, 0, 0, 1, 0, 0, 0), Bound(0, 1, 0, 1, 0, 0, 1),
              Bound(0, 1, 0, 0, 1, 0, 1), Bound(0, 0, 1, 0, 1, 1, 1),
              Bound(1, 0, 0, 1, 1, 0, 1), Bound(1, 0, 0, 0, 0, 1, 0),
              Bound(0, 1, 0, 0, 0, 1, 1)}

MCRestart == {Bound(0, 1, 0, 1, 0, 0, 1)}
=============================================================================
