----------------------------- MODULE PeerNetwork -----------------------------
(***************************************************************************)
(* Local sync: TCP connections between the devices of one user             *)
(* (src-tauri/src/network: server.rs, client.rs, commands.rs, state.rs,    *)
(* blocklist.rs).                                                          *)
(*                                                                         *)
(* Each device accepts and dials.  Both ends of a connection enter the     *)
(* other device in two tables, connected_peers and peer_streams, in two    *)
(* steps, and remove it in two steps, by device id.  A broadcast holds the *)
(* lock of peer_streams while it writes to one peer after the other.       *)
(*                                                                         *)
(* The blocklist is in memory and in a file.  The front end keeps a list   *)
(* of its own in the same file (DeviceRegistryStore.saveBlocklist), with   *)
(* other field names: the network reads it as a list without devices.      *)
(*                                                                         *)
(* Handshakes between different Skeleton Keys and messages above           *)
(* MAX_MESSAGE_SIZE are left out.  A heartbeat only writes PING; when it   *)
(* ends, nothing else happens, so its time-out is not modelled.            *)
(***************************************************************************)
EXTENDS Integers, Sequences, FiniteSets

CONSTANTS
  Device,
  MaxConns,     \* bound on the connections
  Update,       \* payloads to broadcast, each once
  None,
  Dialers,      \* the devices that dial
  Kind,         \* the commands they dial with
  WireSize,     \* how many messages TCP buffers before a write has to wait
  Budgets,      \* bounds on dials, broadcasts, PINGs, calls of device_block, registries
                \* received, and failures (broken links, restarts, failed writes of
                \* the blocklist): a behaviour takes one of these records
  Coalesced     \* may one read return the ACK and what follows it?

ASSUME DialerAssumption ==
  Dialers \subseteq Device /\ Kind \subseteq {"discovered", "direct", "reconnect"}
Budget == [{"dials", "broadcasts", "pings", "blocks", "registries", "failures"} -> Nat]
ASSUME BoundAssumption ==
  /\ MaxConns \in Nat \ {0} /\ WireSize \in Nat
  /\ Budgets \subseteq Budget
ASSUME CoalescedAssumption == Coalesced \in BOOLEAN
ASSUME NoneAssumption ==
  /\ None \notin [by : Device, to : Device, kind : Kind]
  /\ \A list \in SUBSET Device : list # None

\* numbered in the order in which they are dialed
Conn == 1..MaxConns
End == Conn \X {"dial", "accept"}
Opposite(e) == <<e[1], IF e[2] = "dial" THEN "accept" ELSE "dial">>

VARIABLES
  dialed,           \* [Conn -> the dialer, the device dialed and the command]
  link,             \* [Conn -> state of the TCP connection]
  wire,             \* [End -> what was written to it and it did not read]
  phase,            \* [End -> how far the task of this end has come]
  held,             \* [Conn -> updates in the event channel of the dialer]
  connected_peers,  \* [Device -> the devices in the table]
  peer_streams,     \* [Device -> [Device -> connection written to]]
  sending,          \* [Device -> the broadcast that holds the lock]
  heard,            \* [Device -> updates given to the front end]
  sent,             \* updates that have been broadcast, each once
  blocked,          \* [Device -> the blocklist in memory]
  blocklistFile,    \* [Device -> the list load finds on disk, None if it finds none]
  storeSaving,      \* [Device -> is a write of the store's list under way?]
  loading,          \* [Device -> how far load has come, and what it read]
  blocking,         \* [Device -> [Device -> where device_block stands]]
  acknowledged,     \* [Device -> devices whose block was reported as done]
  unsaved,          \* [Device -> has the network failed to write the blocklist?]
  foreign,          \* [Device -> has anything come over the network's last write?]
  forgotten,        \* [Device -> has load read such a file, or come after a block?]
  overtaken,        \* ends whose peer was blocked after their check
  budget            \* what is left of the run's bounds

linkVars == <<dialed, link, wire, held>>
tableVars == <<connected_peers, peer_streams>>
blockVars == <<blocked, blocklistFile, storeSaving, loading, blocking, acknowledged,
               unsaved, foreign, forgotten, overtaken>>
vars == <<dialed, link, wire, phase, held, connected_peers, peer_streams,
          sending, heard, sent, blocked, blocklistFile, storeSaving, loading,
          blocking, acknowledged, unsaved, foreign, forgotten, overtaken, budget>>

Me(e) == IF e[2] = "dial" THEN dialed[e[1]].by ELSE dialed[e[1]].to
Peer(e) == Me(Opposite(e))
Used(c) == dialed[c] # None
\* cache_reconnect_all drops the receiver of the event channel
Listens(e) == e[2] = "accept" \/ dialed[e[1]].kind # "reconnect"

\* the last write to e has returned, and the lock of its stream is free
HasRoom(e) == Len(wire[e]) <= WireSize
\* a task that waits for the write lock of peer_streams
LockFree(d) == sending[d] = None

\* (bound) an outside event of this kind, if the run has one left
Spend(kind) ==
  /\ budget[kind] > 0
  /\ budget' = [budget EXCEPT ![kind] = @ - 1]

-----------------------------------------------------------------------------
(* The dialing end: network_connect_to_peer ("discovered"),                 *)
(* connect_to_peer_direct ("direct"), cache_reconnect_all ("reconnect").    *)

\* all but connect_to_peer_direct ask the blocklist before they dial
dial(c, a, b, kind) ==
  /\ Spend("dials")
  /\ \A n \in Conn : Used(n) <=> n < c
  /\ a \in Dialers /\ a # b
  /\ kind # "direct" => b \notin blocked[a]
  /\ dialed' = [dialed EXCEPT ![c] = [by |-> a, to |-> b, kind |-> kind]]
  /\ link' = [link EXCEPT ![c] = "up"]
  /\ phase' = [phase EXCEPT ![<<c, "dial">>] = "handshake",
                            ![<<c, "accept">>] = "handshake"]
  /\ UNCHANGED <<wire, held, tableVars, sending, heard, sent, blockVars>>

\* the ACK is here; bytes that came with it are dropped with the buffer of the
\* handshake, and the read loop finds no message in the rest of a cut one
connected(c) ==
  /\ phase[<<c, "dial">>] = "handshake"
  /\ phase[<<c, "accept">>] \notin {"handshake", "refused"}
  /\ \E cut \in IF Coalesced THEN 0..Len(wire[<<c, "dial">>]) ELSE {0} :
       wire' = [wire EXCEPT ![<<c, "dial">>] = SubSeq(@, cut + 1, Len(@))]
  /\ phase' = [phase EXCEPT ![<<c, "dial">>] =
                 IF dialed[c].kind = "direct" THEN "unchecked" ELSE "checked"]
  /\ UNCHANGED <<dialed, link, held, tableVars, sending, heard, sent,
                 blockVars, budget>>

\* (wrong) a connection this device asked for need not be checked
checkDirectTrusting(c) ==
  /\ phase[<<c, "dial">>] = "unchecked"
  /\ phase' = [phase EXCEPT ![<<c, "dial">>] = "checked"]
  /\ UNCHANGED <<linkVars, tableVars, sending, heard, sent, blockVars, budget>>

\* connect_to_peer_direct asks the blocklist when it is connected; the tasks
\* that read and ping stay
checkDirect(c) ==
  /\ phase[<<c, "dial">>] = "unchecked"
  /\ phase' = [phase EXCEPT ![<<c, "dial">>] =
                 IF dialed[c].to \in blocked[dialed[c].by] THEN "deaf" ELSE "checked"]
  /\ UNCHANGED <<linkVars, tableVars, sending, heard, sent, blockVars, budget>>

notConnected(c) ==
  /\ phase[<<c, "dial">>] = "handshake"
  /\ link[c] = "down"
  /\ phase[<<c, "accept">>] \in {"handshake", "refused", "over"}
  /\ phase' = [phase EXCEPT ![<<c, "dial">>] = "over"]
  /\ UNCHANGED <<linkVars, tableVars, sending, heard, sent, blockVars, budget>>

-----------------------------------------------------------------------------
(* The accepting end: handle_connection of server.rs.                       *)

\* HELLO: refuse a blocked device, or answer with HELLO and ACK
handshake(c) ==
  LET refused == dialed[c].by \in blocked[dialed[c].to] IN
  /\ phase[<<c, "accept">>] = "handshake"
  /\ phase' = [phase EXCEPT ![<<c, "accept">>] =
                 IF refused \/ link[c] = "down" THEN "refused" ELSE "checked"]
  /\ link' = [link EXCEPT ![c] = IF refused THEN "down" ELSE @]
  /\ UNCHANGED <<dialed, wire, held, tableVars, sending, heard, sent,
                 blockVars, budget>>

-----------------------------------------------------------------------------
(* Both ends.                                                               *)

enterPeers(e) ==
  /\ phase[e] = "checked"
  /\ connected_peers' = [connected_peers EXCEPT ![Me(e)] = @ \cup {Peer(e)}]
  /\ phase' = [phase EXCEPT ![e] = "listed"]
  /\ UNCHANGED <<linkVars, peer_streams, sending, heard, sent, blockVars, budget>>

\* (wrong) the entry names the peer
enterStreamsById(e) ==
  /\ phase[e] = "listed"
  /\ LockFree(Me(e))
  /\ peer_streams' = [peer_streams EXCEPT ![Me(e)][Peer(e)] = Peer(e)]
  /\ phase' = [phase EXCEPT ![e] = IF Listens(e) THEN "listening" ELSE "deaf"]
  /\ UNCHANGED <<linkVars, connected_peers, sending, heard, sent, blockVars, budget>>

enterStreams(e) ==
  /\ phase[e] = "listed"
  /\ LockFree(Me(e))
  /\ peer_streams' = [peer_streams EXCEPT ![Me(e)][Peer(e)] = e[1]]
  /\ phase' = [phase EXCEPT ![e] = IF Listens(e) THEN "listening" ELSE "deaf"]
  /\ UNCHANGED <<linkVars, connected_peers, sending, heard, sent, blockVars, budget>>

\* the accepting end reads once it is in the tables, the dialing end from the
\* moment it is connected
Reads(e) ==
  \/ phase[e] \in {"listening", "deaf"}
  \/ e[2] = "dial" /\ phase[e] \in {"unchecked", "checked", "listed"}

\* (wrong) both ends answer PING
PongedByBoth(e) == TRUE

\* the accepting end answers PING; the dialing end hands it on as a message
\* nobody wants
Ponged(e) == e[2] = "accept"

\* one message: an update goes to the front end, at the dialing end through
\* the event channel; the answer to a PING has to be written before the next
\* message is read
read(e) ==
  LET m == Head(wire[e]) IN
  /\ Reads(e)
  /\ wire[e] # <<>>
  /\ IF m = "PING" /\ Ponged(e) /\ link[e[1]] = "up"
     THEN /\ HasRoom(Opposite(e))
          /\ wire' = [wire EXCEPT ![e] = Tail(@), ![Opposite(e)] = Append(@, "PONG")]
     ELSE wire' = [wire EXCEPT ![e] = Tail(@)]
  /\ heard' = IF m \in Update /\ e[2] = "accept"
              THEN [heard EXCEPT ![Me(e)] = @ \cup {m}] ELSE heard
  /\ held' = IF m \in Update /\ e[2] = "dial" /\ Listens(e) /\ phase[e] # "deaf"
             THEN [held EXCEPT ![e[1]] = @ \cup {m}] ELSE held
  /\ UNCHANGED <<dialed, link, phase, tableVars, sending, sent, blockVars, budget>>

\* (wrong) updates are compared with another message type
hearNothing(c) ==
  /\ phase[<<c, "dial">>] = "listening"
  /\ held[c] # {}
  /\ held' = [held EXCEPT ![c] = {}]
  /\ UNCHANGED <<dialed, link, wire, phase, tableVars, sending, heard, sent, blockVars,
                 budget>>

\* the event task of the dialing end
hear(c) ==
  /\ phase[<<c, "dial">>] = "listening"
  /\ held[c] # {}
  /\ heard' = [heard EXCEPT ![dialed[c].by] = @ \cup held[c]]
  /\ held' = [held EXCEPT ![c] = {}]
  /\ UNCHANGED <<dialed, link, wire, phase, tableVars, sending, sent, blockVars, budget>>

\* heartbeat_loop
ping(e) ==
  /\ Used(e[1]) /\ Reads(e)
  /\ link[e[1]] = "up" /\ HasRoom(Opposite(e))
  /\ Spend("pings")
  /\ wire' = [wire EXCEPT ![Opposite(e)] = Append(@, "PING")]
  /\ UNCHANGED <<dialed, link, phase, held, tableVars, sending, heard, sent, blockVars>>

\* the read loop ends, and the entry of the peer goes, whichever connection
\* made it; a deaf end leaves the entries where they are
endOfStream(e) ==
  /\ phase[e] \in {"listening", "deaf"}
  /\ link[e[1]] = "down" /\ wire[e] = <<>>
  /\ e[2] = "dial" => held[e[1]] = {}
  /\ IF phase[e] = "listening"
     THEN /\ phase' = [phase EXCEPT ![e] = "unlisted"]
          /\ connected_peers' = [connected_peers EXCEPT ![Me(e)] = @ \ {Peer(e)}]
     ELSE /\ phase' = [phase EXCEPT ![e] = "over"]
          /\ UNCHANGED connected_peers
  /\ UNCHANGED <<linkVars, peer_streams, sending, heard, sent, blockVars, budget>>

\* (wrong) the write half is forgotten
leaveStreamsNot(e) ==
  /\ phase[e] = "unlisted"
  /\ phase' = [phase EXCEPT ![e] = "over"]
  /\ UNCHANGED <<linkVars, tableVars, sending, heard, sent, blockVars, budget>>

leaveStreams(e) ==
  /\ phase[e] = "unlisted"
  /\ LockFree(Me(e))
  /\ peer_streams' = [peer_streams EXCEPT ![Me(e)][Peer(e)] = None]
  /\ phase' = [phase EXCEPT ![e] = "over"]
  /\ UNCHANGED <<linkVars, connected_peers, sending, heard, sent, blockVars, budget>>

-----------------------------------------------------------------------------
(* broadcast_sync and broadcast_raw.                                        *)

Streams(d) == {x \in Device : peer_streams[d][x] # None}

broadcast(d, u) ==
  /\ Spend("broadcasts")
  /\ u \notin sent /\ LockFree(d) /\ Streams(d) # {}
  /\ sent' = sent \cup {u}
  /\ sending' = [sending EXCEPT ![d] = [data |-> u, left |-> Streams(d), writing |-> None]]
  /\ UNCHANGED <<linkVars, phase, tableVars, heard, blockVars>>

\* the end that x has of the connection peer_streams[d] holds for it
TargetEnd(d, x) ==
  LET c == peer_streams[d][x]
  IN  <<c, IF dialed[c].by = d THEN "accept" ELSE "dial">>

\* the lock of the stream of x, and the start of the write
sendTo(d, x) ==
  /\ sending[d] # None
  /\ sending[d].writing = None /\ x \in sending[d].left
  /\ link[peer_streams[d][x]] = "up" => HasRoom(TargetEnd(d, x))
  /\ wire' = IF link[peer_streams[d][x]] = "up"
             THEN [wire EXCEPT ![TargetEnd(d, x)] = Append(@, sending[d].data)]
             ELSE wire
  /\ sending' = [sending EXCEPT ![d].writing = x]
  /\ UNCHANGED <<dialed, link, held, phase, tableVars, heard, sent, blockVars, budget>>

\* the write returns: TCP has taken the message, or the link is down
written(d, x) ==
  /\ sending[d] # None
  /\ sending[d].writing = x
  /\ HasRoom(TargetEnd(d, x)) \/ link[peer_streams[d][x]] = "down"
  /\ sending' = [sending EXCEPT ![d] =
                   IF @.left = {x} THEN None
                   ELSE [@ EXCEPT !.left = sending[d].left \ {x}, !.writing = None]]
  /\ UNCHANGED <<linkVars, phase, tableVars, heard, sent, blockVars, budget>>

-----------------------------------------------------------------------------
(* device_block, and the file of the blocklist.                             *)

\* an end that has asked the blocklist of its device and is not in the tables
PastCheck(e) ==
  \/ phase[e] \in {"checked", "listed"}
  \/ phase[e] = "handshake" /\ e[2] = "dial" /\ dialed[e[1]].kind # "direct"

\* the store of the front end starts to save its own list and does not wait for
\* it; device_block enters the device in memory, and one that is in the set
\* already is not written again
block(d, x) ==
  /\ Spend("blocks")
  /\ d # x /\ blocking[d][x] = "none"
  /\ storeSaving' = [storeSaving EXCEPT ![d] = TRUE]
  /\ blocked' = [blocked EXCEPT ![d] = @ \cup {x}]
  /\ blocking' = [blocking EXCEPT ![d][x] = IF x \in blocked[d] THEN "known" ELSE "entered"]
  /\ forgotten' = [forgotten EXCEPT ![d] = @ \/ loading[d].at # "loaded"]
  /\ overtaken' = overtaken \cup
       {e \in End : Used(e[1]) /\ Me(e) = d /\ Peer(e) = x /\ PastCheck(e)}
  /\ UNCHANGED <<linkVars, phase, tableVars, sending, heard, sent, blocklistFile,
                 loading, acknowledged, unsaved, foreign>>

\* (wrong) the list is written as it was before the device was entered
blockSaveEarly(d, x) ==
  /\ blocking[d][x] \in {"entered", "known"}
  /\ blocking' = [blocking EXCEPT ![d][x] = "unlisted"]
  /\ connected_peers' = [connected_peers EXCEPT ![d] = @ \ {x}]
  /\ IF blocking[d][x] = "entered"
     THEN /\ blocklistFile' = [blocklistFile EXCEPT ![d] = blocked[d] \ {x}]
          /\ foreign' = [foreign EXCEPT ![d] = FALSE]
     ELSE UNCHANGED <<blocklistFile, foreign>>
  /\ UNCHANGED <<linkVars, phase, peer_streams, sending, heard, sent, blocked, storeSaving,
                 loading, acknowledged, unsaved, forgotten, overtaken, budget>>

\* save, and the removal from connected_peers; the store's write, begun at the
\* same time, may have mixed with it; with an error device_block ends
blockSave(d, x) ==
  /\ \/ /\ blocking[d][x] = "entered"
        /\ \E list \in {blocked[d], None} :
             /\ blocklistFile' = [blocklistFile EXCEPT ![d] = list]
             /\ foreign' = [foreign EXCEPT ![d] = list = None]
        /\ blocking' = [blocking EXCEPT ![d][x] = "unlisted"]
        /\ connected_peers' = [connected_peers EXCEPT ![d] = @ \ {x}]
        /\ UNCHANGED <<unsaved, budget>>
     \/ /\ blocking[d][x] = "entered"
        /\ Spend("failures")
        /\ \E list \in {blocklistFile[d], None} :
             blocklistFile' = [blocklistFile EXCEPT ![d] = list]
        /\ blocking' = [blocking EXCEPT ![d][x] = "none"]
        /\ unsaved' = [unsaved EXCEPT ![d] = TRUE]
        /\ UNCHANGED <<foreign, connected_peers>>
     \/ /\ blocking[d][x] = "known"
        /\ blocking' = [blocking EXCEPT ![d][x] = "unlisted"]
        /\ connected_peers' = [connected_peers EXCEPT ![d] = @ \ {x}]
        /\ UNCHANGED <<blocklistFile, foreign, unsaved, budget>>
  /\ UNCHANGED <<linkVars, phase, peer_streams, sending, heard, sent, blocked, storeSaving,
                 loading, acknowledged, forgotten, overtaken>>

\* the connection itself stays
blockDone(d, x) ==
  /\ blocking[d][x] = "unlisted"
  /\ LockFree(d)
  /\ peer_streams' = [peer_streams EXCEPT ![d][x] = None]
  /\ blocking' = [blocking EXCEPT ![d][x] = "none"]
  /\ acknowledged' = [acknowledged EXCEPT ![d] = @ \cup {x}]
  /\ UNCHANGED <<linkVars, phase, connected_peers, sending, heard, sent, blocked,
                 blocklistFile, storeSaving, loading, unsaved, foreign, forgotten,
                 overtaken, budget>>

\* the store imports a registry, and saves its list whatever was in it
handleSyncUpdate(d) ==
  /\ Spend("registries")
  /\ storeSaving' = [storeSaving EXCEPT ![d] = TRUE]
  /\ UNCHANGED <<linkVars, phase, tableVars, sending, heard, sent, blocked, blocklistFile,
                 loading, blocking, acknowledged, unsaved, foreign, forgotten, overtaken>>

\* the store's write ends: the file is in its format, cut short by an error or
\* mixed with the network's, or the network's write came after it
saveBlocklist(d) ==
  /\ storeSaving[d]
  /\ storeSaving' = [storeSaving EXCEPT ![d] = FALSE]
  /\ \/ /\ \E list \in {{}, None} : blocklistFile' = [blocklistFile EXCEPT ![d] = list]
        /\ foreign' = [foreign EXCEPT ![d] = TRUE]
     \/ UNCHANGED <<blocklistFile, foreign>>
  /\ UNCHANGED <<linkVars, phase, tableVars, sending, heard, sent, blocked, loading,
                 blocking, acknowledged, unsaved, forgotten, overtaken, budget>>

Writing(d) == storeSaving[d] \/ \E x \in Device : blocking[d][x] = "entered"

\* load reads the file, in the background; it ends where there is none or it
\* does not parse
loadRead(d) ==
  /\ loading[d].at = "started"
  /\ \E list \in {blocklistFile[d]} \cup (IF Writing(d) THEN {None} ELSE {}) :
       /\ loading' = [loading EXCEPT ![d] = IF list = None
                                            THEN [at |-> "loaded", found |-> {}]
                                            ELSE [at |-> "read", found |-> list]]
       /\ forgotten' = [forgotten EXCEPT ![d] = @ \/ foreign[d] \/ list # blocklistFile[d]]
  /\ UNCHANGED <<linkVars, phase, tableVars, sending, heard, sent, blocked, blocklistFile,
                 storeSaving, blocking, acknowledged, unsaved, foreign, overtaken, budget>>

\* load clears the set and enters what it read; a connection that is in the
\* tables by then, or past its check, stays
loadEnter(d) ==
  LET found == loading[d].found IN
  /\ loading[d].at = "read"
  /\ loading' = [loading EXCEPT ![d] = [at |-> "loaded", found |-> {}]]
  /\ blocked' = [blocked EXCEPT ![d] = found]
  /\ overtaken' = overtaken \cup
       {e \in End : /\ Used(e[1]) /\ Me(e) = d /\ Peer(e) \in found
                    /\ PastCheck(e) \/ peer_streams[d][Peer(e)] = e[1]}
  /\ UNCHANGED <<linkVars, phase, tableVars, sending, heard, sent, blocklistFile,
                 storeSaving, blocking, acknowledged, unsaved, foreign, forgotten, budget>>

-----------------------------------------------------------------------------
(* Failures.                                                                *)

\* a link breaks; what was under way arrives or does not
breakLink(c) ==
  /\ Spend("failures")
  /\ link[c] = "up"
  /\ link' = [link EXCEPT ![c] = "down"]
  /\ \E lost \in SUBSET {<<c, "dial">>, <<c, "accept">>} :
       wire' = [e \in End |-> IF e \in lost THEN <<>> ELSE wire[e]]
  /\ UNCHANGED <<dialed, held, phase, tableVars, sending, heard, sent, blockVars>>

\* the process of d ends, and a write under way may leave a torn file; it starts
\* again with an empty set in memory, and load starts
restart(d) ==
  /\ Spend("failures")
  /\ LET mine == {c \in Conn : Used(c) /\ d \in {dialed[c].by, dialed[c].to}}
         ends == {e \in End : e[1] \in mine /\ Me(e) = d}
     IN  /\ link' = [c \in Conn |-> IF c \in mine THEN "down" ELSE link[c]]
         /\ phase' = [e \in End |-> IF e \in ends THEN "over" ELSE phase[e]]
         /\ wire' = [e \in End |-> IF e[1] \in mine THEN <<>> ELSE wire[e]]
         /\ held' = [c \in Conn |-> IF <<c, "dial">> \in ends THEN {} ELSE held[c]]
  /\ connected_peers' = [connected_peers EXCEPT ![d] = {}]
  /\ peer_streams' = [peer_streams EXCEPT ![d] = [x \in Device |-> None]]
  /\ sending' = [sending EXCEPT ![d] = None]
  /\ \/ UNCHANGED <<blocklistFile, foreign>>
     \/ /\ Writing(d)
        /\ blocklistFile' = [blocklistFile EXCEPT ![d] = None]
        /\ foreign' = [foreign EXCEPT ![d] = TRUE]
  /\ blocked' = [blocked EXCEPT ![d] = {}]
  /\ storeSaving' = [storeSaving EXCEPT ![d] = FALSE]
  /\ loading' = [loading EXCEPT ![d] = [at |-> "started", found |-> {}]]
  /\ blocking' = [blocking EXCEPT ![d] = [x \in Device |-> "none"]]
  /\ UNCHANGED <<dialed, heard, sent, acknowledged, unsaved, forgotten, overtaken>>

-----------------------------------------------------------------------------
Init ==
  /\ dialed = [c \in Conn |-> None]
  /\ link = [c \in Conn |-> "none"]
  /\ wire = [e \in End |-> <<>>]
  /\ phase = [e \in End |-> "none"]
  /\ held = [c \in Conn |-> {}]
  /\ connected_peers = [d \in Device |-> {}]
  /\ peer_streams = [d \in Device |-> [x \in Device |-> None]]
  /\ sending = [d \in Device |-> None]
  /\ heard = [d \in Device |-> {}]
  /\ sent = {}
  /\ blocked = [d \in Device |-> {}]
  /\ blocklistFile = [d \in Device |-> None]
  /\ storeSaving = [d \in Device |-> FALSE]
  /\ loading = [d \in Device |-> [at |-> "loaded", found |-> {}]]
  /\ blocking = [d \in Device |-> [x \in Device |-> "none"]]
  /\ acknowledged = [d \in Device |-> {}]
  /\ unsaved = [d \in Device |-> FALSE]
  /\ foreign = [d \in Device |-> FALSE]
  /\ forgotten = [d \in Device |-> FALSE]
  /\ overtaken = {}
  /\ budget \in Budgets

\* the tasks of a connection
ConnectionStep(c) == connected(c) \/ checkDirect(c) \/ notConnected(c) \/ handshake(c)
EndStep(e) ==
  \/ enterPeers(e) \/ enterStreams(e) \/ endOfStream(e) \/ leaveStreams(e)
BroadcastStep(d, x) == sendTo(d, x) \/ written(d, x)
BlockStep(d, x) == blockSave(d, x) \/ blockDone(d, x)
FileStep(d) == handleSyncUpdate(d) \/ saveBlocklist(d) \/ loadRead(d) \/ loadEnter(d)

Next ==
  \/ \E c \in Conn : \/ \E a, b \in Device, k \in Kind : dial(c, a, b, k)
                     \/ ConnectionStep(c) \/ hear(c) \/ breakLink(c)
  \/ \E e \in End : EndStep(e) \/ read(e) \/ ping(e)
  \/ \E d \in Device : \/ FileStep(d) \/ restart(d)
                       \/ \E u \in Update : broadcast(d, u)
  \/ \E d, x \in Device : BroadcastStep(d, x) \/ block(d, x) \/ BlockStep(d, x)

Spec == Init /\ [][Next]_vars

Fairness ==
  /\ \A c \in Conn : WF_vars(ConnectionStep(c)) /\ WF_vars(hear(c))
  /\ \A e \in End : WF_vars(EndStep(e)) /\ WF_vars(read(e))
  /\ \A d \in Device : \A x \in Device \ {d} :
       WF_vars(BroadcastStep(d, x)) /\ WF_vars(BlockStep(d, x))

FairSpec == Spec /\ Fairness

-----------------------------------------------------------------------------
(* Properties.                                                              *)

\* Every variable has the shape the code gives it.
TypeOK ==
  /\ dialed \in [Conn -> {None} \cup [by : Dialers, to : Device, kind : Kind]]
  /\ link \in [Conn -> {"none", "up", "down"}]
  /\ wire \in [End -> Seq(Update \cup {"PING", "PONG"})]
  /\ phase \in [End -> {"none", "handshake", "unchecked", "refused", "checked",
                        "listed", "listening", "deaf", "unlisted", "over"}]
  /\ held \in [Conn -> SUBSET Update]
  /\ connected_peers \in [Device -> SUBSET Device]
  /\ peer_streams \in [Device -> [Device -> Conn \cup {None}]]
  /\ sending \in [Device -> {None} \cup [data : Update, left : SUBSET Device,
                                         writing : Device \cup {None}]]
  /\ heard \in [Device -> SUBSET Update] /\ sent \subseteq Update
  /\ {blocked, acknowledged} \subseteq [Device -> SUBSET Device]
  /\ blocklistFile \in [Device -> {None} \cup SUBSET Device]
  /\ loading \in [Device -> [at : {"started", "read", "loaded"}, found : SUBSET Device]]
  /\ blocking \in [Device -> [Device -> {"none", "entered", "known", "unlisted"}]]
  /\ {storeSaving, unsaved, foreign, forgotten} \subseteq [Device -> BOOLEAN]
  /\ overtaken \subseteq End
  /\ budget \in Budget

\* Once device_block has returned, the blocked device gets no broadcast, except
\* on a connection that had passed its own check when the block was entered or
\* read from disk: there is no third way into peer_streams for it, by any
\* command, at either end, before or after a restart.
BlockedGetsNoBroadcast ==
  \A d, x \in Device :
    (x \in blocked[d] /\ blocking[d][x] = "none" /\ ~ unsaved[d] /\ x \in Streams(d))
      => \E e \in overtaken : Me(e) = d /\ e[1] = peer_streams[d][x]

\* A block that was reported as done is lost in three ways only: the network
\* failed to write its list, load read a file that the store or a kill had
\* written over, or load came after the block.
BlockSurvives ==
  \A d \in Device :
    ~ unsaved[d] /\ ~ forgotten[d] /\ loading[d].at = "loaded"
      => acknowledged[d] \subseteq blocked[d]

\* Every write of a broadcast returns: the two directions of the connections of
\* two devices, their read loops and the locks of their tables never wait for
\* one another.
BroadcastEnds ==
  \A d \in Device : (sending[d] # None) ~> (sending[d] = None)

\* The table stops naming a connection that is down, if its task listens.
DeadStreamLeaves ==
  \A d \in Device, c \in Conn : \A x \in Device \ {d} :
    LET e == <<c, IF Used(c) /\ dialed[c].by = d THEN "dial" ELSE "accept">> IN
    (peer_streams[d][x] = c /\ link[c] = "down" /\ phase[e] # "deaf" /\ Listens(e))
      ~> (peer_streams[d][x] # c)

\* An update written to a connection whose other end listens is heard there,
\* unless the link breaks.
ListenerHears ==
  \A e \in End, u \in Update :
    (phase[e] = "listening" /\ u \in {wire[e][i] : i \in DOMAIN wire[e]})
      ~> (link[e[1]] = "down" \/ (Used(e[1]) /\ u \in heard[Me(e)]))
=============================================================================
