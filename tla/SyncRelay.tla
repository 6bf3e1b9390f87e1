------------------------------ MODULE SyncRelay ------------------------------
(***************************************************************************)
(* The self-hosted sync relay, for one user id: the SQLite file           *)
(* (sync-relay/src/storage.ts), the room held in memory while devices are  *)
(* attached to it (sync-room.ts), and the server that creates, cleans up   *)
(* and resets rooms (server.ts).                                           *)
(*                                                                         *)
(* The relay never looks inside a payload.  A payload is an encrypted      *)
(* whole-document snapshot (LoroDocStore.exportAll), so it is modelled by  *)
(* what decrypting and importing it yields: a set of edits.                *)
(*                                                                         *)
(* The devices are the environment here.  They keep the one rule that      *)
(* SyncClient.handleOpen keeps: the first message on a socket is HELLO.    *)
(* CloudSync.tla replaces this environment by the client code.             *)
(***************************************************************************)
EXTENDS Integers, FiniteSets, Sequences, FiniteSetsExt

CONSTANTS
  Device,        \* device ids
  Conn,          \* sockets; one is used for one connection attempt
  Edit,          \* edits made to the vault
  HistoryLimit,  \* rows per HISTORY batch (100 in the code)
  MaxSequence,   \* bound on the rows ever inserted
  MaxUnread,     \* bound on unread messages per socket, guards new requests
  ResetEnabled   \* whether DELETE /sync/:userId/reset may be called

ASSUME DeviceAssumption == Device # {}
ASSUME HistoryLimitAssumption == HistoryLimit \in Nat \ {0}
ASSUME MaxSequenceAssumption == MaxSequence \in Nat
ASSUME MaxUnreadAssumption == MaxUnread \in Nat
ASSUME ResetEnabledAssumption == ResetEnabled \in BOOLEAN

Payload == SUBSET Edit

VARIABLES
  \* the SQLite file, which survives the process
  updates,          \* table updates: a function from sequence to payload
  autoincrement,    \* the largest rowid SQLite ever gave to that table
  revoked_devices,  \* table revoked_devices: the device ids
  cleared,          \* history: was the vault ever reset?
  \* the server process
  room,             \* is the user's room in SyncRelayServer.rooms?
  currentSequence,  \* SyncStorage.currentSequence of that room
  attached,         \* sockets whose handlers belong to that room
  connections,      \* SyncRoom.connections: the sockets that said HELLO
  \* the sockets
  readyState,       \* [Conn -> state of the socket on the relay's side]
  deviceId,         \* [Conn -> the device at the other end]
  greeted,          \* sockets whose HELLO has been handled
  down              \* [Conn -> what the relay sent and the device did not read]

storageVars == <<updates, autoincrement, revoked_devices, cleared>>
roomVars == <<room, currentSequence, attached, connections>>
socketVars == <<readyState, deviceId, greeted>>
vars == <<updates, autoincrement, revoked_devices, cleared, room,
          currentSequence, attached, connections, readyState, deviceId, greeted, down>>

-----------------------------------------------------------------------------
(* Messages from the relay to a device.                                     *)

Ack == [type : {"ACK"}, currentSequence : Nat, hasHistory : BOOLEAN]
Reject == [type : {"REJECT"}]
Live == [type : {"UPDATE", "SNAPSHOT"}, data : Payload]
Ask == [type : {"SNAPSHOT_REQUEST"}]
History == [type : {"HISTORY"}, toSequence : Nat, data : Payload]
Revocation == [type : {"DEVICE_REVOKE"}, device : Device]
RevokeAck == [type : {"DEVICE_REVOKE_ACK"}, device : Device]
Message == Ack \cup Reject \cup Live \cup Ask \cup History \cup Revocation
             \cup RevokeAck

\* ws.send: a socket that is closing or closed drops what it is given
send(to, m) ==
  down' = [c \in Conn |-> IF c \in to /\ readyState[c] = "open"
                          THEN Append(down[c], m) ELSE down[c]]

\* SyncRoom.broadcastExcept
broadcastExcept(c, m) == send(connections \ {c}, m)

-----------------------------------------------------------------------------
(* SyncStorage.                                                             *)

Sequences == DOMAIN updates

\* the table without rows
NoRows == [s \in {} |-> {}]

\* (wrong) COUNT for MAX: differs once compaction has removed rows
CountSeq == Cardinality(Sequences)

\* (wrong) the next sequence instead of the last
NextSeq == IF Sequences = {} THEN 1 ELSE Max(Sequences) + 1

\* SELECT MAX(sequence), 0 for an empty table (initializeDatabase)
MaxSeq == IF Sequences = {} THEN 0 ELSE Max(Sequences)

\* (wrong) the row gets the counter before its increment
InsertedEarly(u, data) ==
  [s \in DOMAIN u \cup {autoincrement} |->
     IF s = autoincrement THEN data ELSE u[s]]

\* the table after INSERT of a row into table u
Inserted(u, data) ==
  [s \in DOMAIN u \cup {autoincrement + 1} |->
     IF s = autoincrement + 1 THEN data ELSE u[s]]

\* (wrong) the counter of the process is not kept in step with the table
storeUpdateUncounted(u, data) ==
  /\ autoincrement < MaxSequence
  /\ updates' = Inserted(u, data)
  /\ autoincrement' = autoincrement + 1
  /\ currentSequence' = Cardinality(DOMAIN u) + 1

\* storeUpdate on table u: the row id comes from SQLite's AUTOINCREMENT
\* and the sequence number from a counter of the process
storeUpdate(u, data) ==
  /\ autoincrement < MaxSequence
  /\ updates' = Inserted(u, data)
  /\ autoincrement' = autoincrement + 1
  /\ currentSequence' = currentSequence + 1

\* (wrong) the last rows instead of the first ones, ORDER BY sequence DESC
getUpdatesNewestFirst(from) ==
  {s \in Sequences : /\ s > from
                     /\ Cardinality({t \in Sequences : s < t}) < HistoryLimit}

\* the rows of getUpdatesAfter(from): the first HistoryLimit rows after from
getUpdatesAfter(from) ==
  {s \in Sequences : /\ s > from
                     /\ Cardinality({t \in Sequences : from < t /\ t < s})
                          < HistoryLimit}

\* the table without the rows that compactUpdates deletes
NotCompacted(upTo) == [s \in {t \in Sequences : t > upTo} |-> updates[s]]

-----------------------------------------------------------------------------
(* SyncRoom: one action per message.  A handler of a room that has been     *)
(* closed finds its database closed, throws, and the error is caught in     *)
(* handleMessage: only sockets attached to the live room have an effect.    *)

\* a message on socket c can reach the room's handlers
CanHandle(c) == c \in attached /\ readyState[c] \in {"open", "closing"}

handleHelloRevoked(c) ==
  /\ CanHandle(c)
  /\ deviceId[c] \in revoked_devices
  /\ send({c}, [type |-> "REJECT"])
  /\ readyState' = [readyState EXCEPT ![c] = "closing"]
  /\ greeted' = greeted \cup {c}
  /\ UNCHANGED <<storageVars, roomVars, deviceId>>

\* (wrong) HELLO does not ask for revocations
handleHelloUnchecked(c, lastSequence) ==
  /\ CanHandle(c)
  /\ connections' = connections \cup {c}
  /\ send({c}, [type |-> "ACK", currentSequence |-> currentSequence,
                hasHistory |-> currentSequence > lastSequence])
  /\ greeted' = greeted \cup {c}
  /\ UNCHANGED <<storageVars, room, currentSequence, attached, readyState,
                 deviceId>>

handleHello(c, lastSequence) ==
  /\ CanHandle(c)
  /\ deviceId[c] \notin revoked_devices
  /\ connections' = connections \cup {c}
  /\ send({c}, [type |-> "ACK", currentSequence |-> currentSequence,
                hasHistory |-> currentSequence > lastSequence])
  /\ greeted' = greeted \cup {c}
  /\ UNCHANGED <<storageVars, room, currentSequence, attached, readyState,
                 deviceId>>

handleUpdate(c, data) ==
  /\ CanHandle(c)
  /\ storeUpdate(updates, data)
  /\ broadcastExcept(c, [type |-> "UPDATE", data |-> data])
  /\ UNCHANGED <<revoked_devices, cleared, room, attached, connections,
                 socketVars>>

\* no other device is asked when rows are stored: CATCH_UP is for that; the
\* code takes the first of the other sockets, here it is any of them
handleSnapshotRequest(c) ==
  /\ CanHandle(c)
  /\ IF Sequences # {} \/ connections \subseteq {c} THEN down' = down
     ELSE \E other \in connections \ {c} :
            send({other}, [type |-> "SNAPSHOT_REQUEST"])
  /\ UNCHANGED <<storageVars, roomVars, socketVars>>

handleSnapshot(c, data) ==
  /\ CanHandle(c)
  /\ storeUpdate(updates, data)
  /\ broadcastExcept(c, [type |-> "SNAPSHOT", data |-> data])
  /\ UNCHANGED <<revoked_devices, cleared, room, attached, connections,
                 socketVars>>

handleCatchUp(c, fromSequence) ==
  /\ CanHandle(c)
  /\ LET rows == getUpdatesAfter(fromSequence) IN
       IF rows = {} THEN down' = down
       ELSE send({c}, [type |-> "HISTORY",
                       toSequence |-> Max(rows),
                       data |-> UNION {updates[s] : s \in rows}])
  /\ UNCHANGED <<storageVars, roomVars, socketVars>>

\* compactUpdates is one SQLite transaction
handleCompact(c, upToSequence, snapshot) ==
  /\ CanHandle(c)
  /\ storeUpdate(NotCompacted(upToSequence), snapshot)
  /\ UNCHANGED <<revoked_devices, cleared, room, attached, connections,
                 socketVars, down>>

\* (wrong) the revoked device is told but its socket is left open
handleDeviceRevokeForwardOnly(c, d) ==
  /\ CanHandle(c)
  /\ revoked_devices' = revoked_devices \cup {d}
  /\ broadcastExcept(c, [type |-> "DEVICE_REVOKE", device |-> d])
  /\ UNCHANGED <<updates, autoincrement, cleared, roomVars, socketVars>>

\* store, acknowledge, forward to the other devices, close the revoked ones
handleDeviceRevoke(c, d) ==
  /\ CanHandle(c)
  /\ revoked_devices' = revoked_devices \cup {d}
  /\ down' = [s \in Conn |->
        IF readyState[s] # "open" THEN down[s]
        ELSE IF s = c
        THEN Append(down[s], [type |-> "DEVICE_REVOKE_ACK", device |-> d])
        ELSE IF s \in connections
        THEN Append(down[s], [type |-> "DEVICE_REVOKE", device |-> d])
        ELSE down[s]]
  /\ readyState' = [s \in Conn |->
        IF s \in connections \ {c} /\ deviceId[s] = d /\ readyState[s] = "open"
        THEN "closing" ELSE readyState[s]]
  /\ UNCHANGED <<updates, autoincrement, cleared, roomVars, deviceId, greeted>>

\* the 'close' event: the handshake ended or the transport was lost
handleClose(c) ==
  /\ readyState[c] \in {"open", "closing"}
  /\ readyState' = [readyState EXCEPT ![c] = "closed"]
  /\ connections' = connections \ {c}
  /\ attached' = attached \ {c}
  /\ UNCHANGED <<storageVars, room, currentSequence, deviceId, greeted, down>>

-----------------------------------------------------------------------------
(* SyncRelayServer.                                                         *)

\* handleConnection: device d's socket is accepted, and the room is created
\* from the SQLite file when it is not in memory
handleConnection(c, d) ==
  /\ readyState[c] = "none"
  /\ readyState' = [readyState EXCEPT ![c] = "open"]
  /\ deviceId' = [deviceId EXCEPT ![c] = d]
  /\ room' = TRUE
  /\ currentSequence' = IF room THEN currentSequence ELSE MaxSeq
  /\ attached' = attached \cup {c}
  /\ UNCHANGED <<storageVars, connections, greeted, down>>

\* a room without connections is closed after five idle minutes; a socket
\* that was accepted and said nothing yet stays with the closed room
cleanupIdleRooms ==
  /\ room
  /\ connections = {}
  /\ room' = FALSE
  /\ attached' = {}
  /\ UNCHANGED <<storageVars, currentSequence, connections, socketVars, down>>

\* DELETE /sync/:userId/reset, answered 404 when the room is not in memory
reset ==
  /\ ResetEnabled
  /\ room
  /\ updates' = NoRows
  /\ currentSequence' = 0
  /\ cleared' = TRUE
  /\ UNCHANGED <<autoincrement, revoked_devices, room, attached, connections,
                 socketVars, down>>

\* stop(): the room closes the sockets of its connections (1001)
stop ==
  /\ room
  /\ room' = FALSE
  /\ attached' = {}
  /\ connections' = {}
  /\ readyState' = [c \in Conn |->
        IF c \in connections /\ readyState[c] = "open" THEN "closing"
        ELSE readyState[c]]
  /\ UNCHANGED <<storageVars, currentSequence, deviceId, greeted, down>>

\* the process dies and is started again: only the SQLite file is left
crash ==
  /\ room' = FALSE
  /\ attached' = {}
  /\ connections' = {}
  /\ readyState' = [c \in Conn |->
        IF readyState[c] = "none" THEN "none" ELSE "closed"]
  /\ UNCHANGED <<storageVars, currentSequence, deviceId, greeted, down>>

-----------------------------------------------------------------------------
(* The environment: devices connect, say HELLO first, and read.             *)

Init ==
  /\ updates = NoRows
  /\ autoincrement = 0
  /\ revoked_devices = {}
  /\ cleared = FALSE
  /\ room = FALSE
  /\ currentSequence = 0
  /\ attached = {}
  /\ connections = {}
  /\ readyState = [c \in Conn |-> "none"]
  /\ deviceId = [c \in Conn |-> CHOOSE d \in Device : TRUE]
  /\ greeted = {}
  /\ down = [c \in Conn |-> <<>>]

\* a device reads the next message of its socket
read(c) ==
  /\ down[c] # <<>>
  /\ down' = [down EXCEPT ![c] = Tail(@)]
  /\ UNCHANGED <<storageVars, roomVars, socketVars>>

Hello(c) ==
  /\ Len(down[c]) < MaxUnread
  /\ \/ handleHelloRevoked(c)
     \/ \E n \in 0..MaxSequence : handleHello(c, n)

\* DeviceRegistryContext.revokeDevice refuses to revoke the current device
Request(c) ==
  /\ c \in greeted
  /\ \A s \in Conn : Len(down[s]) < MaxUnread
  /\ \/ \E data \in Payload : handleUpdate(c, data) \/ handleSnapshot(c, data)
     \/ handleSnapshotRequest(c)
     \/ \E n \in 0..MaxSequence : handleCatchUp(c, n)
     \/ \E n \in 0..MaxSequence, data \in Payload : handleCompact(c, n, data)
     \/ \E d \in Device \ {deviceId[c]} : handleDeviceRevoke(c, d)

Next ==
  \/ \E c \in Conn, d \in Device : handleConnection(c, d)
  \/ \E c \in Conn : Hello(c) \/ Request(c) \/ read(c) \/ handleClose(c)
  \/ cleanupIdleRooms \/ reset \/ stop \/ crash

Spec == Init /\ [][Next]_vars

-----------------------------------------------------------------------------
(* Properties.                                                              *)

\* Every variable has the shape the code gives it: the table is a function
\* from sequences to payloads, the room's sets hold sockets.
TypeOK ==
  /\ Sequences \in SUBSET (1..MaxSequence)
  /\ updates \in [Sequences -> Payload]
  /\ autoincrement \in 0..MaxSequence
  /\ revoked_devices \in SUBSET Device
  /\ cleared \in BOOLEAN
  /\ room \in BOOLEAN
  /\ currentSequence \in Nat
  /\ attached \in SUBSET Conn
  /\ connections \in SUBSET Conn
  /\ readyState \in [Conn -> {"none", "open", "closing", "closed"}]
  /\ deviceId \in [Conn -> Device]
  /\ greeted \in SUBSET Conn
  /\ down \in [Conn -> Seq(Message)]

\* SyncStorage.currentSequence is a counter of its own, which storeUpdate
\* increments beside SQLite's AUTOINCREMENT, and the room re-reads it from
\* the table when it is created.  Until the vault is reset the two never
\* part: the number an ACK reports is the sequence of the newest row, whatever
\* the order of stores, compactions, idle clean-ups and restarts.  (A reset
\* sets the counter to 0 and leaves AUTOINCREMENT where it is.)
SequenceAgrees ==
  ~ cleared =>
    /\ Sequences # {} => autoincrement \in Sequences
    /\ Sequences = {} => autoincrement = 0
    /\ room => currentSequence = autoincrement

\* Until the vault is reset, hasHistory of an ACK, computed from the counter,
\* tells a device that asks with any lastSequence whether the table has rows
\* for it.
HasHistoryIsTruthful ==
  room /\ ~ cleared => \A lastSequence \in 0..MaxSequence :
                            (currentSequence > lastSequence)
                              <=> \E s \in Sequences : s > lastSequence

\* No socket of a revoked device is left open in the room: the revocation
\* closes those it finds (handleDeviceRevoke) and HELLO rejects those that
\* come later, however the two interleave with connects, idle clean-ups and
\* restarts of the relay.
NoRevokedSession ==
  \A c \in connections : deviceId[c] \in revoked_devices => readyState[c] # "open"

\* From the step after its revocation on, a device is sent nothing but the
\* rejection of its HELLO: no update, no history, no request for a snapshot.
RevokedDeviceGetsNothing ==
  [][\A c \in Conn :
       /\ readyState[c] # "none"
       /\ deviceId[c] \in revoked_devices
       /\ Len(down'[c]) > Len(down[c])
       => down'[c][Len(down'[c])].type = "REJECT"]_vars

\* A HISTORY batch is a gap-free continuation of what the device asked for:
\* the rows up to the batch's toSequence that it left out are those the
\* device said it has, and a batch is empty only when no row is left.
HistoryIsGapFree ==
  \A fromSequence \in 0..MaxSequence :
    LET rows == getUpdatesAfter(fromSequence)
        missing == {s \in Sequences : s > fromSequence} \ rows
    IN  /\ \A s \in missing, t \in rows : t < s
        /\ missing # {} => rows # {}

=============================================================================
