--------------------------- MODULE MC_PeerNetwork ---------------------------
(* PeerNetwork with two devices and two connections.                        *)
EXTENDS PeerNetwork

Events(dials, broadcasts, pings, blocks, registries, failures) ==
  [dials |-> dials, broadcasts |-> broadcasts, pings |-> pings,
   blocks |-> blocks, registries |-> registries, failures |-> failures]

\* PINGs from both ends around a broadcast; a block among two connections, and
\* one with a failure; blocks, registries and failures without a connection; a
\* failure around a broadcast on two connections
MCBudgets == {Events(1, 1, 2, 0, 0, 0), Events(2, 0, 0, 1, 0, 0), Events(1, 0, 0, 1, 0, 1),
              Events(0, 0, 0, 2, 1, 2), Events(2, 1, 0, 0, 0, 1)}

\* each device dials and broadcasts
MCBroadcasts == {Events(2, 2, 0, 0, 0, 0)}
=============================================================================
