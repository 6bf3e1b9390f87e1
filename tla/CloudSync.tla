------------------------------ MODULE CloudSync ------------------------------
(***************************************************************************)
(* Cloud sync: one SyncClient (src/lib/sync/client.ts) and one             *)
(* LoroDocStore (src/lib/loro/store.ts) per device, talking to the relay   *)
(* of SyncRelay.tla over sockets.                                          *)
(*                                                                         *)
(* A vault is the set of edits it contains: importing a snapshot is union, *)
(* whatever the order.  A socket carries messages in order, in each        *)
(* direction, until it closes; what was under way is lost then.            *)
(*                                                                         *)
(* Typing in the editor of an object's body saves but calls no sync: what  *)
(* was typed leaves the device with the next broadcast.                    *)
(*                                                                         *)
(* encrypt and decrypt are calls to the back end: between the call and its *)
(* answer anything else may happen, two answers come in any order, and a   *)
(* call may fail.                                                          *)
(* The offline queue is one step per operation here; OfflineQueue.tla has  *)
(* the steps in between.  Device revocation, disconnect() by the user, and *)
(* the message types the application never sends (SNAPSHOT_REQUEST,        *)
(* SNAPSHOT, COMPACT) are left out.                                        *)
(***************************************************************************)
EXTENDS Integers, Sequences, FiniteSetsExt

CONSTANTS
  Device, Edit, HistoryLimit, MaxSequence, MaxUnread, ResetEnabled,
  None,          \* this.ws === null
  MaxAttempts,   \* bound on the sockets a device creates
  Scenarios      \* the edits to make, a bound on the sockets all devices create, and
                 \* what may happen: "bodies", edits that are typed; "offline", edits while
                 \* a client is not connected; "drops", sockets that fail at any time;
                 \* "restarts", a relay that stops, crashes or cleans up its idle room;
                 \* "fails", a call of the back end.  A behaviour takes one.

ASSUME AttemptsAssumption == MaxAttempts \in Nat
ASSUME NoneAssumption == None \notin Device \X Nat
\* what SyncRelay assumes
ASSUME RelayAssumption ==
  /\ Device # {} /\ HistoryLimit \in Nat \ {0}
  /\ MaxSequence \in Nat /\ MaxUnread \in Nat /\ ResetEnabled \in BOOLEAN
Mishap == {"offline", "drops", "restarts", "fails"}
Scenario == [edits : SUBSET Edit, sockets : Nat, may : SUBSET (Mishap \cup {"bodies"})]
ASSUME ScenarioAssumption == Scenarios \subseteq Scenario

\* the sockets, each named for the device that creates it
Conn == Device \X (1..MaxAttempts)
Owner(c) == c[1]

VARIABLES
  \* the relay
  updates, autoincrement, revoked_devices, cleared, room, currentSequence,
  attached, connections, readyState, deviceId, greeted, down,
  \* the sockets
  socket,        \* [Conn -> readyState on the client's side]
  up,            \* [Conn -> what the client sent and the relay did not read]
  \* SyncClient
  ws,            \* this.ws
  status,
  lastSequence,
  queue,         \* the offline queue
  decrypting,    \* messages whose handler waits for decrypt
  encrypting,    \* snapshots whose sendUpdate waits for encrypt
  \* LoroDocStore
  doc,
  syncTimer,     \* is a debounced broadcast pending?
  typed,         \* history: body edits made since the last export for the relay
  scenario       \* what the run's bounds let happen

Relay == INSTANCE SyncRelay

relayVars == <<updates, autoincrement, revoked_devices, cleared, room,
               currentSequence, attached, connections, readyState, deviceId, greeted, down>>
clientVars == <<ws, status, lastSequence, queue, decrypting, encrypting>>
docVars == <<doc, syncTimer, typed>>
vars == <<updates, autoincrement, revoked_devices, cleared, room,
          currentSequence, attached, connections, readyState, deviceId, greeted, down,
          socket, up, ws, status, lastSequence, queue, decrypting, encrypting,
          doc, syncTimer, typed, scenario>>

Hello(n) == [type |-> "HELLO", lastSequence |-> n]
CatchUp(n) == [type |-> "CATCH_UP", fromSequence |-> n]
Update(data) == [type |-> "UPDATE", data |-> data]

UpMessage ==
  [type : {"HELLO"}, lastSequence : Nat]
    \cup [type : {"CATCH_UP"}, fromSequence : Nat]
    \cup [type : {"UPDATE"}, data : SUBSET Edit]

\* (wrong) any socket will do
IsOpenUnchecked(d) == ws[d] # None

\* this.ws?.readyState === WebSocket.OPEN
IsOpen(d) == ws[d] # None /\ socket[ws[d]] = "open"

-----------------------------------------------------------------------------
(* SyncClient: the connection.                                              *)

\* the next socket of device d, None after the last
Fresh(d) ==
  LET unused == {n \in 1..MaxAttempts : socket[<<d, n>>] = "none"}
  IN  IF unused = {} THEN None ELSE <<d, Min(unused)>>

\* connect, called by SyncContext, its reconnect and Retry buttons, and the
\* reconnect timer: it gives up only when the present socket is open
connect(d, c) ==
  /\ c = Fresh(d)
  /\ Cardinality({s \in Conn : socket[s] # "none"}) < scenario.sockets
  /\ ~ IsOpen(d)
  /\ socket' = [socket EXCEPT ![c] = "connecting"]
  /\ ws' = [ws EXCEPT ![d] = c]
  /\ status' = [status EXCEPT ![d] = "connecting"]
  /\ UNCHANGED <<relayVars, docVars, up, lastSequence, queue, decrypting,
                 encrypting>>

\* the relay accepts the socket
accept(c) ==
  /\ socket[c] = "connecting"
  /\ Relay!handleConnection(c, Owner(c))
  /\ UNCHANGED <<clientVars, docVars, socket, up>>

\* handleOpen says HELLO on this.ws, which need not be the socket that has
\* opened; a socket that is still connecting refuses it with an exception
handleOpen(c) ==
  /\ socket[c] = "connecting"
  /\ readyState[c] # "none"
  /\ socket' = [socket EXCEPT ![c] = "open"]
  /\ LET to == ws[Owner(c)] IN
       up' = IF to # None /\ (to = c \/ socket[to] = "open")
             THEN [up EXCEPT ![to] = Append(@, Hello(lastSequence[Owner(c)]))]
             ELSE up
  /\ UNCHANGED <<relayVars, clientVars, docVars>>

\* the close event of any socket the client created, the present one or not
handleClose(c) ==
  /\ socket[c] \in {"connecting", "open"}
  /\ "drops" \in scenario.may \/ readyState[c] \in {"closing", "closed"}
  /\ socket' = [socket EXCEPT ![c] = "closed"]
  /\ ws' = [ws EXCEPT ![Owner(c)] = None]
  /\ status' = [status EXCEPT ![Owner(c)] = "disconnected"]
  /\ UNCHANGED <<relayVars, docVars, up, lastSequence, queue, decrypting,
                 encrypting>>

-----------------------------------------------------------------------------
(* SyncClient: messages from the relay.  A message is handled on whichever  *)
(* socket it came; answers go to this.ws.                                   *)

\* (wrong) lastSequence is advanced before it is used
AfterAckLate(d, ack) ==
  (IF ack.hasHistory /\ lastSequence[d] < ack.currentSequence
   THEN <<CatchUp(ack.currentSequence)>> ELSE <<>>)
    \o [i \in DOMAIN queue[d] |-> Update(queue[d][i])]

\* (wrong) the bound of the request is inclusive
AfterAckInclusive(d, ack) ==
  (IF ack.hasHistory /\ lastSequence[d] < ack.currentSequence
   THEN <<CatchUp(lastSequence[d] - 1)>> ELSE <<>>)
    \o [i \in DOMAIN queue[d] |-> Update(queue[d][i])]

\* the messages of handleAck: CATCH_UP when rows are missing, then flushQueue
AfterAck(d, ack) ==
  (IF ack.hasHistory /\ lastSequence[d] < ack.currentSequence
   THEN <<CatchUp(lastSequence[d])>> ELSE <<>>)
    \o [i \in DOMAIN queue[d] |-> Update(queue[d][i])]

\* lastSequence is advanced before the rows are here
handleAck(c) ==
  LET d == Owner(c) IN
  /\ socket[c] = "open"
  /\ down[c] # <<>>
  /\ Head(down[c]).type = "ACK"
  /\ lastSequence' = [lastSequence EXCEPT ![d] = Head(down[c]).currentSequence]
  /\ status' = [status EXCEPT ![d] = "connected"]
  /\ IF IsOpen(d)
     THEN /\ up' = [up EXCEPT ![ws[d]] = @ \o AfterAck(d, Head(down[c]))]
          /\ queue' = [queue EXCEPT ![d] = <<>>]
     ELSE UNCHANGED <<up, queue>>
  /\ Relay!read(c)
  /\ UNCHANGED <<docVars, socket, ws, decrypting, encrypting>>

\* handleUpdate and handleHistory, up to decrypt
handleData(c) ==
  /\ socket[c] = "open"
  /\ down[c] # <<>>
  /\ Head(down[c]).type \in {"UPDATE", "HISTORY"}
  /\ decrypting' = [decrypting EXCEPT ![Owner(c)] = @ \cup {Head(down[c])}]
  /\ Relay!read(c)
  /\ UNCHANGED <<docVars, socket, up, ws, status, lastSequence, queue,
                 encrypting>>

\* the rest of handleUpdate and handleHistory, and the import by LoroDocStore;
\* isImporting keeps the import from scheduling a broadcast
decrypted(d, m) ==
  /\ m \in decrypting[d]
  /\ decrypting' = [decrypting EXCEPT ![d] = @ \ {m}]
  /\ doc' = [doc EXCEPT ![d] = @ \cup m.data]
  /\ lastSequence' = IF m.type = "HISTORY"
                     THEN [lastSequence EXCEPT ![d] = m.toSequence]
                     ELSE lastSequence
  /\ UNCHANGED <<relayVars, syncTimer, typed, socket, up, ws, status, queue, encrypting>>

\* decrypt is rejected: an update is dropped; of a batch the rows that failed are left
\* out, and its end is taken for the last sequence all the same
decryptFails(d, m) ==
  /\ "fails" \in scenario.may
  /\ m \in decrypting[d]
  /\ decrypting' = [decrypting EXCEPT ![d] = @ \ {m}]
  /\ IF m.type = "HISTORY"
     THEN /\ \E data \in SUBSET m.data : doc' = [doc EXCEPT ![d] = @ \cup data]
          /\ lastSequence' = [lastSequence EXCEPT ![d] = m.toSequence]
     ELSE UNCHANGED <<doc, lastSequence>>
  /\ UNCHANGED <<relayVars, syncTimer, typed, socket, up, ws, status, queue, encrypting>>

-----------------------------------------------------------------------------
(* LoroDocStore.                                                            *)

New(d, e) ==
  /\ \A x \in Device : e \notin doc[x]
  /\ e \in scenario.edits
  /\ "offline" \in scenario.may \/ status[d] = "connected"

\* the user makes edit e, of anything but a body, and refreshData calls sync: nothing is
\* scheduled unless the client says connected
edit(d, e) ==
  /\ New(d, e)
  /\ doc' = [doc EXCEPT ![d] = @ \cup {e}]
  /\ syncTimer' = IF status[d] = "connected" THEN [syncTimer EXCEPT ![d] = TRUE]
                  ELSE syncTimer
  /\ UNCHANGED <<relayVars, clientVars, typed, socket, up>>

\* the user types in the body of an object: a save is scheduled, and nothing else
handleContentChange(d, e) ==
  /\ "bodies" \in scenario.may
  /\ New(d, e)
  /\ doc' = [doc EXCEPT ![d] = @ \cup {e}]
  /\ typed' = [typed EXCEPT ![d] = @ \cup {e}]
  /\ UNCHANGED <<relayVars, clientVars, syncTimer, socket, up>>

\* (wrong) nothing is sent while a message is being decrypted
broadcastWhenIdle(d) ==
  /\ syncTimer[d]
  /\ syncTimer' = [syncTimer EXCEPT ![d] = FALSE]
  /\ IF status[d] = "connected" /\ decrypting[d] = {}
     THEN /\ encrypting' = [encrypting EXCEPT ![d] = @ \cup {doc[d]}]
          /\ typed' = [typed EXCEPT ![d] = {}]
     ELSE UNCHANGED <<encrypting, typed>>
  /\ UNCHANGED <<relayVars, doc, socket, up, ws, status, lastSequence, queue,
                 decrypting>>

\* the debounce timer of sync: the whole vault is exported and handed to
\* sendUpdate, unless the client is not connected any more
broadcast(d) ==
  /\ syncTimer[d]
  /\ syncTimer' = [syncTimer EXCEPT ![d] = FALSE]
  /\ IF status[d] = "connected"
     THEN /\ encrypting' = [encrypting EXCEPT ![d] = @ \cup {doc[d]}]
          /\ typed' = [typed EXCEPT ![d] = {}]
     ELSE UNCHANGED <<encrypting, typed>>
  /\ UNCHANGED <<relayVars, doc, socket, up, ws, status, lastSequence, queue,
                 decrypting>>

\* the rest of sendUpdate
encrypted(d, data) ==
  /\ data \in encrypting[d]
  /\ encrypting' = [encrypting EXCEPT ![d] = @ \ {data}]
  /\ IF IsOpen(d)
     THEN /\ up' = [up EXCEPT ![ws[d]] = Append(@, Update(data))]
          /\ queue' = queue
     ELSE /\ queue' = [queue EXCEPT ![d] = Append(@, data)]
          /\ up' = up
  /\ UNCHANGED <<relayVars, docVars, socket, ws, status, lastSequence, decrypting>>

\* encrypt is rejected: the snapshot is dropped
encryptFails(d, data) ==
  /\ "fails" \in scenario.may
  /\ data \in encrypting[d]
  /\ encrypting' = [encrypting EXCEPT ![d] = @ \ {data}]
  /\ UNCHANGED <<relayVars, docVars, socket, up, ws, status, lastSequence, queue, decrypting>>

-----------------------------------------------------------------------------
(* The relay's side.                                                        *)

\* the next message of c reaches the room, or is ignored by a closed one; (bound) no
\* socket has more than MaxUnread messages to read
relayReceive(c) ==
  /\ up[c] # <<>>
  /\ \A s \in Conn : Len(down[s]) < MaxUnread
  /\ up' = [up EXCEPT ![c] = Tail(@)]
  /\ LET m == Head(up[c]) IN
       \/ m.type = "HELLO" /\ Relay!handleHello(c, m.lastSequence)
       \/ m.type = "CATCH_UP" /\ Relay!handleCatchUp(c, m.fromSequence)
       \/ m.type = "UPDATE" /\ Relay!handleUpdate(c, m.data)
       \/ ~ Relay!CanHandle(c) /\ UNCHANGED relayVars
  /\ UNCHANGED <<clientVars, docVars, socket>>

\* the relay notices that the socket was closed or lost
relayClose(c) ==
  /\ "drops" \in scenario.may \/ socket[c] = "closed" \/ readyState[c] = "closing"
  /\ Relay!handleClose(c)
  /\ up' = [up EXCEPT ![c] = <<>>]
  /\ UNCHANGED <<clientVars, docVars, socket>>

relayRestart ==
  /\ "restarts" \in scenario.may
  /\ Relay!cleanupIdleRooms \/ Relay!stop \/ Relay!crash
  /\ UNCHANGED <<clientVars, docVars, socket, up>>

-----------------------------------------------------------------------------
Init ==
  /\ Relay!Init
  /\ socket = [c \in Conn |-> "none"]
  /\ up = [c \in Conn |-> <<>>]
  /\ ws = [d \in Device |-> None]
  /\ status = [d \in Device |-> "disconnected"]
  /\ lastSequence = [d \in Device |-> 0]
  /\ queue = [d \in Device |-> <<>>]
  /\ decrypting = [d \in Device |-> {}]
  /\ encrypting = [d \in Device |-> {}]
  /\ doc = [d \in Device |-> {}]
  /\ syncTimer = [d \in Device |-> FALSE]
  /\ typed = [d \in Device |-> {}]
  /\ scenario \in Scenarios

\* steps nobody decides on: messages, timers and answers of the back end
Progress ==
  \/ \E c \in Conn : \/ accept(c) \/ handleOpen(c) \/ handleAck(c)
                     \/ handleData(c) \/ relayReceive(c)
  \/ \E d \in Device : \/ broadcast(d)
                       \/ \E m \in decrypting[d] : decrypted(d, m)
                       \/ \E data \in encrypting[d] : encrypted(d, data)

Next ==
  /\ \/ Progress
     \/ \E d \in Device, c \in Conn : connect(d, c)
     \/ \E c \in Conn : handleClose(c) \/ relayClose(c)
     \/ \E d \in Device, e \in Edit : edit(d, e) \/ handleContentChange(d, e)
     \/ \E d \in Device : \/ \E m \in decrypting[d] : decryptFails(d, m)
                          \/ \E data \in encrypting[d] : encryptFails(d, data)
     \/ relayRestart
  /\ UNCHANGED scenario

Spec == Init /\ [][Next]_vars

FairSpec == Spec /\ WF_vars(Progress /\ UNCHANGED scenario)

-----------------------------------------------------------------------------
(* Properties.                                                              *)

Stored == UNION {updates[s] : s \in DOMAIN updates}

\* device d is connected, the relay has its session, and nothing is under way
AtRest(d) ==
  /\ status[d] = "connected"
  /\ ws[d] \in connections
  /\ readyState[ws[d]] = "open"
  /\ decrypting[d] = {} /\ encrypting[d] = {} /\ ~ syncTimer[d]
  /\ \A c \in Conn : Owner(c) = d => up[c] = <<>> /\ down[c] = <<>>

\* Every client variable has the shape the code gives it.
TypeOK ==
  /\ socket \in [Conn -> {"none", "connecting", "open", "closed"}]
  /\ up \in [Conn -> Seq(UpMessage)]
  /\ ws \in [Device -> Conn \cup {None}]
  /\ status \in [Device -> {"disconnected", "connecting", "connected"}]
  /\ lastSequence \in [Device -> Nat]
  /\ queue \in [Device -> Seq(SUBSET Edit)]
  /\ decrypting \in [Device -> SUBSET Relay!Message]
  /\ encrypting \in [Device -> SUBSET SUBSET Edit]
  /\ doc \in [Device -> SUBSET Edit]
  /\ syncTimer \in [Device -> BOOLEAN]
  /\ typed \in [Device -> SUBSET Edit]

\* The clients keep the relay's rules: whatever sockets overlap, fail or are
\* replaced, each step of the whole is a step of SyncRelay, whose devices say
\* HELLO on a socket before anything else.
ImplementsRelay == Relay!Spec

\* A device never says it has rows the relay did not insert, whatever the
\* order in which acknowledgements and history batches are handled.
NeverAhead == \A d \in Device : lastSequence[d] <= autoincrement

\* nothing fails and the relay goes on; every edit is made while connected
Stable == scenario.may \cap Mishap = {}

\* A connected device that has nothing under way has every row of the relay:
\* what came live, between HELLO and ACK, or by CATCH_UP adds up, as long as one
\* batch has room for all rows: nobody asks for a second one.
CaughtUp ==
  \A d \in Device : AtRest(d) => Stored \subseteq doc[d]
OneBatch == autoincrement <= HistoryLimit
CaughtUpWhenStable == Stable /\ OneBatch => CaughtUp

\* When nothing fails, a connected device that has nothing under way has handed every
\* edit it has to the relay, but for what was typed in bodies since the last export: one
\* refreshData is enough for all that was typed before it.
Delivered ==
  Stable => \A d \in Device : AtRest(d) => doc[d] \ typed[d] \subseteq Stored

\* When nothing fails, an edit made on one device, but for what was only typed in a body
\* there, reaches every device that stays connected, as long as one batch has room for
\* all rows.
Converges ==
  \A d \in Device, e \in Edit :
    (Stable /\ status[d] = "connected" /\ \E x \in Device : e \in doc[x] \ typed[x])
      ~> (e \in doc[d] \/ ~ OneBatch)
=============================================================================
