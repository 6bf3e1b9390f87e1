-------------------------------- MODULE Vault --------------------------------
(***************************************************************************)
(* What sync promises about the vaults of one user's devices, whatever     *)
(* carries them: a vault is a set of edits; a device makes new edits or    *)
(* merges edits some device made; it never loses one while it runs, and    *)
(* begins with none when it is started again.                              *)
(*                                                                         *)
(* DocStore implements it over local peers, the relay and the file on disk.*)
(***************************************************************************)
EXTENDS Naturals

CONSTANTS Device, Edit

VARIABLES
  vault,         \* [Device -> the edits it has]
  made,          \* the edits that were ever made
  starts         \* [Device -> how often it was started again]

\* the user changes the vault of d
Make(d) ==
  /\ \E e \in Edit \ made : /\ made' = made \cup {e}
                            /\ vault' = [vault EXCEPT ![d] = @ \cup {e}]
  /\ UNCHANGED starts

\* d merges what reached it from other devices, or from its own disk
Merge(d) ==
  /\ \E S \in SUBSET made : vault' = [vault EXCEPT ![d] = @ \cup S]
  /\ UNCHANGED <<made, starts>>

\* the process of d ends; what it has left comes back by merging
Restart(d) ==
  /\ starts' = [starts EXCEPT ![d] = @ + 1]
  /\ vault' = [vault EXCEPT ![d] = {}]
  /\ made' = made

Init ==
  /\ vault = [d \in Device |-> {}]
  /\ made = {}
  /\ starts = [d \in Device |-> 0]

Next == \E d \in Device : Make(d) \/ Merge(d) \/ Restart(d)

Spec == Init /\ [][Next]_<<vault, made, starts>>
=============================================================================
