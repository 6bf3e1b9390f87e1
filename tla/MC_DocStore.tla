----------------------------- MODULE MC_DocStore -----------------------------
(* DocStore with two devices that may be local peers; the .cfg files say    *)
(* which of them use the relay.                                             *)
EXTENDS DocStore

Events(e, k, l, u, c, o, f) ==
  [edits |-> e, kills |-> k, links |-> l, unlinks |-> u, clouds |-> c, overlaps |-> o,
   failures |-> f]

\* overlapping writes and a kill; writes that fail, and a kill; a connection that breaks; a
\* kill of a connected device; two devices on the relay that are connected as well
MCBudgets == {Events(2, 1, 0, 0, 0, 1, 0), Events(1, 1, 0, 0, 0, 0, 1),
              Events(1, 0, 1, 1, 0, 0, 0), Events(1, 1, 1, 0, 0, 0, 0),
              Events(1, 0, 1, 0, 2, 0, 0)}

\* one edit on a connection that stays
MCConnected == {Events(1, 0, 1, 0, 0, 0, 0)}
=============================================================================
