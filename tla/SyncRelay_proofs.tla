-------------------------- MODULE SyncRelay_proofs --------------------------
(* Theorems about the relay, for every set of devices, sockets and edits,   *)
(* every batch size and every bound.                                        *)
EXTENDS SyncRelay, TLAPS, FiniteSetTheorems, Extremes

\* What send leaves behind: each queue is the old one or the old one with
\* the message appended, and only open sockets are appended to.
LEMMA SendEffect ==
  ASSUME NEW to, NEW m, down \in [Conn -> Seq(Message)], send(to, m)
  PROVE  /\ m \in Message => down' \in [Conn -> Seq(Message)]
         /\ \A c \in Conn : \/ down'[c] = down[c]
                            \/ /\ c \in to
                               /\ readyState[c] = "open"
                               /\ down'[c] = Append(down[c], m)
  BY DEF send

\* storeUpdate keeps the table's type.
LEMMA StoreType ==
  ASSUME TypeOK, NEW u, DOMAIN u \in SUBSET (1..MaxSequence),
         u \in [DOMAIN u -> Payload], NEW data \in Payload,
         storeUpdate(u, data)
  PROVE  /\ Sequences' = DOMAIN u \cup {autoincrement + 1}
         /\ Sequences' \in SUBSET (1..MaxSequence)
         /\ updates' \in [Sequences' -> Payload]
         /\ autoincrement' \in 0..MaxSequence
         /\ currentSequence' \in Nat
  <1> USE MaxSequenceAssumption
  <1>1. autoincrement + 1 \in 1..MaxSequence
    BY DEF TypeOK, storeUpdate
  <1>2. updates' = [s \in DOMAIN u \cup {autoincrement + 1} |->
                      IF s = autoincrement + 1 THEN data ELSE u[s]]
    BY DEF storeUpdate, Inserted
  <1>3. Sequences' = DOMAIN u \cup {autoincrement + 1}
    BY <1>2 DEF Sequences
  <1>4. updates' \in [Sequences' -> Payload]
    BY <1>2, <1>3
  <1> QED
    BY <1>1, <1>3, <1>4 DEF TypeOK, storeUpdate

-----------------------------------------------------------------------------
(* Type correctness.                                                        *)

\* Every variable keeps its shape: handlers, clean-ups, resets and restarts
\* leave a table from sequences to payloads and queues of messages.
THEOREM TypeCorrect == Spec => []TypeOK
  <1> USE MaxSequenceAssumption
  <1>1. Init => TypeOK
    <2> SUFFICES ASSUME Init PROVE TypeOK
      OBVIOUS
    <2>1. Sequences = {} /\ updates \in [Sequences -> Payload]
      BY DEF NoRows, Init, Sequences
    <2>2. deviceId \in [Conn -> Device]
      BY DeviceAssumption DEF Init
    <2>3. down \in [Conn -> Seq(Message)]
      BY DEF Init
    <2>4. readyState \in [Conn -> {"none", "open", "closing", "closed"}]
      BY DEF Init
    <2>5. autoincrement \in 0..MaxSequence /\ currentSequence \in Nat
      BY DEF Init
    <2>6. room \in BOOLEAN /\ cleared \in BOOLEAN
      BY DEF Init
    <2>7. /\ revoked_devices = {} /\ attached = {}
          /\ connections = {} /\ greeted = {}
      BY DEF Init
    <2>8. Sequences \in SUBSET (1..MaxSequence)
      BY <2>1
    <2> QED
      BY <2>1, <2>2, <2>3, <2>4, <2>5, <2>6, <2>7, <2>8 DEF TypeOK
  <1>2. TypeOK /\ [Next]_vars => TypeOK'
    <2> SUFFICES ASSUME TypeOK, [Next]_vars PROVE TypeOK'
      OBVIOUS
    <2>1. ASSUME NEW c \in Conn, NEW d \in Device, handleConnection(c, d)
          PROVE  TypeOK'
      <3>1. MaxSeq \in Nat
        <4>1. ASSUME Sequences # {} PROVE Max(Sequences) \in 1..MaxSequence
          <5>1. /\ MaxSequence \in Nat /\ Sequences \subseteq 1..MaxSequence
                /\ Sequences \in SUBSET Nat
            BY MaxSequenceAssumption DEF TypeOK
          <5> QED
            BY <4>1, <5>1, MaxIsLargest
        <4> QED
          BY <4>1 DEF MaxSeq
      <3> QED
        BY <2>1, <3>1 DEF TypeOK, handleConnection, storageVars, Sequences
    <2>2. ASSUME NEW c \in Conn, handleHelloRevoked(c) PROVE TypeOK'
      <3>1. down' \in [Conn -> Seq(Message)]
        BY <2>2, SendEffect DEF TypeOK, handleHelloRevoked, Message, Reject
      <3> QED
        BY <2>2, <3>1
        DEF TypeOK, handleHelloRevoked, storageVars, roomVars, Sequences
    <2>3. ASSUME NEW c \in Conn, NEW n \in 0..MaxSequence, handleHello(c, n)
          PROVE  TypeOK'
      <3> DEFINE m == [type |-> "ACK", currentSequence |-> currentSequence,
                       hasHistory |-> currentSequence > n]
      <3>1. m \in Message
        BY DEF TypeOK, Message, Ack
      <3>2. send({c}, m)
        BY <2>3 DEF handleHello
      <3> HIDE DEF m
      <3>3. down' \in [Conn -> Seq(Message)]
        BY <3>1, <3>2, SendEffect DEF TypeOK
      <3> QED
        BY <2>3, <3>3 DEF TypeOK, handleHello, storageVars, Sequences
    <2>4. ASSUME NEW c \in Conn, NEW data \in Payload,
                 handleUpdate(c, data) \/ handleSnapshot(c, data)
          PROVE  TypeOK'
      <3>1. storeUpdate(updates, data)
        BY <2>4 DEF handleUpdate, handleSnapshot
      <3>2. PICK type \in {"UPDATE", "SNAPSHOT"} :
              send(connections \ {c}, [type |-> type, data |-> data])
        BY <2>4 DEF handleUpdate, handleSnapshot, broadcastExcept
      <3>3. [type |-> type, data |-> data] \in Message
        BY DEF Message, Live
      <3>4. down' \in [Conn -> Seq(Message)]
        BY <3>2, <3>3, SendEffect DEF TypeOK
      <3>5. /\ Sequences' \in SUBSET (1..MaxSequence)
            /\ updates' \in [Sequences' -> Payload]
            /\ autoincrement' \in 0..MaxSequence
            /\ currentSequence' \in Nat
        BY <3>1, StoreType DEF TypeOK, Sequences
      <3> QED
        BY <2>4, <3>4, <3>5 DEF TypeOK, handleUpdate, handleSnapshot, socketVars
    <2>5. ASSUME NEW c \in Conn, handleSnapshotRequest(c) PROVE TypeOK'
      <3>1. down' \in [Conn -> Seq(Message)]
        <4>1. CASE down' = down
          BY <4>1 DEF TypeOK
        <4>2. CASE \E other \in connections \ {c} :
                     send({other}, [type |-> "SNAPSHOT_REQUEST"])
          <5>1. [type |-> "SNAPSHOT_REQUEST"] \in Message
            BY DEF Message, Ask
          <5> QED
            BY <4>2, <5>1, SendEffect DEF TypeOK
        <4> QED
          BY <2>5, <4>1, <4>2 DEF handleSnapshotRequest
      <3> QED
        BY <2>5, <3>1
        DEF TypeOK, handleSnapshotRequest, storageVars, roomVars, socketVars,
            Sequences
    <2>6. ASSUME NEW c \in Conn, NEW n \in 0..MaxSequence, handleCatchUp(c, n)
          PROVE  TypeOK'
      <3> DEFINE rows == getUpdatesAfter(n)
                 to == Max(rows)
                 all == UNION {updates[s] : s \in rows}
                 m == [type |-> "HISTORY", toSequence |-> to, data |-> all]
      <3>1. down' = down \/ (rows # {} /\ send({c}, m))
        BY <2>6 DEF handleCatchUp
      <3>2. rows \in SUBSET (1..MaxSequence) /\ rows \subseteq Sequences
        BY DEF TypeOK, getUpdatesAfter
      <3>3. ASSUME rows # {} PROVE m \in Message
        <4>1. to \in Nat
          <5> HIDE DEF rows
          <5>1. MaxSequence \in Nat /\ rows \subseteq 1..MaxSequence /\ rows \in SUBSET Nat
            BY <3>2, MaxSequenceAssumption
          <5>2. Max(rows) \in rows
            BY <3>3, <5>1, MaxIsLargest
          <5> QED
            BY <3>3, <5>1, <5>2
        <4>2. all \in Payload
          <5> HIDE DEF rows
          <5> QED
            BY <3>2 DEF TypeOK, Payload, Sequences
        <4> HIDE DEF to, all
        <4> QED
          BY <4>1, <4>2 DEF Message, History
      <3> HIDE DEF m, rows
      <3>4. down' \in [Conn -> Seq(Message)]
        BY <3>1, <3>3, SendEffect DEF TypeOK
      <3> QED
        BY <2>6, <3>4
        DEF TypeOK, handleCatchUp, storageVars, roomVars, socketVars, Sequences
    <2>7. ASSUME NEW c \in Conn, NEW n \in 0..MaxSequence, NEW data \in Payload,
                 handleCompact(c, n, data)
          PROVE  TypeOK'
      <3> DEFINE u == NotCompacted(n)
      <3>1. storeUpdate(u, data)
        BY <2>7 DEF handleCompact
      <3>2. /\ DOMAIN u \in SUBSET (1..MaxSequence)
            /\ u \in [DOMAIN u -> Payload]
        BY DEF NotCompacted, TypeOK, Sequences
      <3> HIDE DEF u
      <3>3. /\ Sequences' \in SUBSET (1..MaxSequence)
            /\ updates' \in [Sequences' -> Payload]
            /\ autoincrement' \in 0..MaxSequence
            /\ currentSequence' \in Nat
        BY <3>1, <3>2, StoreType
      <3> QED
        BY <2>7, <3>3 DEF TypeOK, handleCompact, socketVars
    <2>8. ASSUME NEW c \in Conn, NEW d \in Device, handleDeviceRevoke(c, d)
          PROVE  TypeOK'
      <3>1. [type |-> "DEVICE_REVOKE_ACK", device |-> d] \in Message
        BY DEF Message, RevokeAck
      <3>2. [type |-> "DEVICE_REVOKE", device |-> d] \in Message
        BY DEF Message, Revocation
      <3>3. down' \in [Conn -> Seq(Message)]
        BY <2>8, <3>1, <3>2 DEF TypeOK, handleDeviceRevoke
      <3>4. readyState' \in [Conn -> {"none", "open", "closing", "closed"}]
        BY <2>8 DEF TypeOK, handleDeviceRevoke
      <3> QED
        BY <2>8, <3>3, <3>4 DEF TypeOK, handleDeviceRevoke, roomVars, Sequences
    <2>9. ASSUME NEW c \in Conn, handleClose(c) \/ read(c) PROVE TypeOK'
      <3>1. CASE handleClose(c)
        BY <3>1 DEF TypeOK, handleClose, storageVars, Sequences
      <3>2. CASE read(c)
        <4>1. Tail(down[c]) \in Seq(Message)
          BY <3>2 DEF TypeOK, read
        <4>2. down' \in [Conn -> Seq(Message)]
          BY <3>2, <4>1 DEF TypeOK, read
        <4> QED
          BY <3>2, <4>2
          DEF TypeOK, read, storageVars, roomVars, socketVars, Sequences
      <3> QED
        BY <2>9, <3>1, <3>2
    <2>10. ASSUME cleanupIdleRooms \/ stop \/ crash PROVE TypeOK'
      BY <2>10
      DEF TypeOK, cleanupIdleRooms, stop, crash, storageVars, socketVars, Sequences
    <2>11. CASE reset
      <3>1. Sequences' = {} /\ updates' \in [Sequences' -> Payload]
        BY <2>11 DEF NoRows, reset, Sequences
      <3> QED
        BY <2>11, <3>1 DEF TypeOK, reset, socketVars
    <2>12. CASE UNCHANGED vars
      BY <2>12 DEF TypeOK, vars, Sequences
    <2> QED
      BY <2>1, <2>2, <2>3, <2>4, <2>5, <2>6, <2>7, <2>8, <2>9, <2>10, <2>11,
         <2>12
      DEF Next, Hello, Request
  <1> QED
    BY <1>1, <1>2, PTL DEF Spec

-----------------------------------------------------------------------------
(* The counter and the table.                                               *)

\* SequenceAgrees is not inductive: a store keeps it only because the room
\* that handles the message is the live one, and because no row lies beyond
\* AUTOINCREMENT.
LogInv ==
  /\ TypeOK
  /\ Sequences \subseteq 1..autoincrement
  /\ attached # {} => room
  /\ SequenceAgrees

\* A store into the table, or into what compaction leaves of it, keeps the
\* counter, AUTOINCREMENT and the newest row together.
LEMMA StoreKeepsLogInv ==
  ASSUME LogInv, room, TypeOK',
         NEW u, DOMAIN u \subseteq Sequences, u \in [DOMAIN u -> Payload],
         NEW data \in Payload, storeUpdate(u, data),
         UNCHANGED <<room, attached, cleared>>
  PROVE  LogInv'
  <1>1. Sequences' = DOMAIN u \cup {autoincrement + 1}
    BY StoreType DEF LogInv, TypeOK
  <1>2. autoincrement' = autoincrement + 1 /\ currentSequence' = currentSequence + 1
    BY DEF storeUpdate
  <1>3. autoincrement \in Nat
    BY MaxSequenceAssumption DEF LogInv, TypeOK
  <1>4. Sequences' \subseteq 1..autoincrement'
    BY <1>1, <1>2, <1>3 DEF LogInv
  <1> QED
    BY <1>1, <1>2, <1>3, <1>4 DEF LogInv, SequenceAgrees

\* The newest row is the one AUTOINCREMENT numbered last, so a new room
\* starts counting where the last one stopped.
LEMMA MaxSeqIsAutoincrement ==
  ASSUME LogInv, ~ cleared PROVE MaxSeq = autoincrement
  <1>1. autoincrement \in Nat
    BY MaxSequenceAssumption DEF LogInv, TypeOK
  <1>2. CASE Sequences = {}
    BY <1>2 DEF LogInv, SequenceAgrees, MaxSeq
  <1>3. CASE Sequences # {}
    <2>1. /\ Max(Sequences) \in Sequences
          /\ \A t \in Sequences : t <= Max(Sequences)
      <3>1. /\ MaxSequence \in Nat /\ Sequences \subseteq 1..MaxSequence
            /\ Sequences \in SUBSET Nat
        BY MaxSequenceAssumption DEF LogInv, TypeOK
      <3> QED
        BY <1>3, <3>1, MaxIsLargest
    <2>2. autoincrement \in Sequences /\ Max(Sequences) \in 1..autoincrement
      BY <1>3, <2>1 DEF LogInv, SequenceAgrees
    <2>3. Max(Sequences) = autoincrement
      BY <1>1, <2>1, <2>2
    <2> QED
      BY <1>3, <2>3 DEF MaxSeq
  <1> QED
    BY <1>2, <1>3

\* LogInv holds of every behaviour: a reset voids SequenceAgrees.
LEMMA LogInvHolds == Spec => []LogInv
  <1>1. Init /\ TypeOK => LogInv
    BY DEF NoRows, Init, LogInv, SequenceAgrees, Sequences
  <1>2. LogInv /\ TypeOK' /\ [Next]_vars => LogInv'
    <2> SUFFICES ASSUME LogInv, TypeOK', [Next]_vars PROVE LogInv'
      OBVIOUS
    <2>1. ASSUME NEW c \in Conn, NEW d \in Device, handleConnection(c, d)
          PROVE  LogInv'
      BY <2>1, MaxSeqIsAutoincrement
      DEF LogInv, SequenceAgrees, handleConnection, storageVars, Sequences
    <2>2. ASSUME NEW c \in Conn, NEW data \in Payload,
                 handleUpdate(c, data) \/ handleSnapshot(c, data)
          PROVE  LogInv'
      <3>1. storeUpdate(updates, data) /\ UNCHANGED <<room, attached, cleared>>
        BY <2>2 DEF handleUpdate, handleSnapshot
      <3>2. room
        BY <2>2 DEF LogInv, handleUpdate, handleSnapshot, CanHandle
      <3> QED
        BY <3>1, <3>2, StoreKeepsLogInv DEF LogInv, TypeOK, Sequences
    <2>3. ASSUME NEW c \in Conn, NEW n \in 0..MaxSequence, NEW data \in Payload,
                 handleCompact(c, n, data)
          PROVE  LogInv'
      <3> DEFINE u == NotCompacted(n)
      <3>1. storeUpdate(u, data) /\ UNCHANGED <<room, attached, cleared>>
        BY <2>3 DEF handleCompact
      <3>2. DOMAIN u \subseteq Sequences /\ u \in [DOMAIN u -> Payload]
        BY DEF NotCompacted, LogInv, TypeOK, Sequences
      <3>3. room
        BY <2>3 DEF LogInv, handleCompact, CanHandle
      <3> HIDE DEF u
      <3> QED
        BY <3>1, <3>2, <3>3, StoreKeepsLogInv
    <2>4. ASSUME NEW c \in Conn, NEW n \in 0..MaxSequence,
                 \/ handleHelloRevoked(c) \/ handleHello(c, n)
                 \/ handleSnapshotRequest(c) \/ handleCatchUp(c, n) \/ read(c)
          PROVE  LogInv'
      <3>1. UNCHANGED <<updates, autoincrement, cleared, room, currentSequence,
                        attached>>
        BY <2>4 DEF handleHelloRevoked, handleHello, handleSnapshotRequest,
                    handleCatchUp, read, storageVars, roomVars
      <3> QED
        BY <3>1 DEF LogInv, SequenceAgrees, Sequences
    <2>5. ASSUME NEW c \in Conn, NEW d \in Device,
                 handleDeviceRevoke(c, d) \/ handleClose(c)
          PROVE  LogInv'
      BY <2>5
      DEF LogInv, SequenceAgrees, handleDeviceRevoke, handleClose, storageVars,
          roomVars, Sequences
    <2>6. CASE cleanupIdleRooms \/ stop \/ crash
      BY <2>6
      DEF LogInv, SequenceAgrees, cleanupIdleRooms, stop, crash, storageVars,
          Sequences
    <2>7. CASE reset
      BY <2>7 DEF NoRows, LogInv, SequenceAgrees, reset, Sequences
    <2>8. CASE UNCHANGED vars
      BY <2>8 DEF LogInv, SequenceAgrees, vars, Sequences
    <2>9. 0 \in 0..MaxSequence /\ \E d \in Device : TRUE
      BY MaxSequenceAssumption, DeviceAssumption
    <2> QED
      BY <2>1, <2>2, <2>3, <2>4, <2>5, <2>6, <2>7, <2>8, <2>9 DEF Next, Hello, Request
  <1> QED
    BY <1>1, <1>2, TypeCorrect, PTL DEF Spec

\* Until the vault is reset, the number in an ACK is the newest row's, and
\* hasHistory tells the truth to every device, over every interleaving of
\* stores, compactions, idle clean-ups and restarts.
THEOREM AckIsTruthful ==
  Spec => [](SequenceAgrees /\ HasHistoryIsTruthful)
  <1>1. LogInv => SequenceAgrees /\ HasHistoryIsTruthful
    <2> SUFFICES ASSUME LogInv, room, ~ cleared, NEW n \in 0..MaxSequence
                 PROVE  (currentSequence > n) <=> \E s \in Sequences : s > n
      BY DEF LogInv, HasHistoryIsTruthful
    <2>1. currentSequence = autoincrement /\ autoincrement \in Nat /\ n \in Nat
      BY MaxSequenceAssumption DEF LogInv, SequenceAgrees, TypeOK
    <2>2. CASE Sequences = {}
      BY <2>1, <2>2 DEF LogInv, SequenceAgrees
    <2>3. CASE Sequences # {}
      BY <2>1, <2>3 DEF LogInv, SequenceAgrees
    <2> QED
      BY <2>2, <2>3
  <1> QED
    BY <1>1, LogInvHolds, PTL

\* A HISTORY batch leaves out only rows that come after all of its own, and
\* it is empty only when the device has every row.
THEOREM HistoryHasNoGap == Spec => []HistoryIsGapFree
  <1>1. TypeOK => HistoryIsGapFree
    <2> SUFFICES ASSUME TypeOK, NEW n \in 0..MaxSequence PROVE
          LET rows == getUpdatesAfter(n)
              missing == {s \in Sequences : s > n} \ rows
          IN  /\ \A s \in missing, t \in rows : t < s
              /\ missing # {} => rows # {}
      BY DEF HistoryIsGapFree
    <2> DEFINE rows == getUpdatesAfter(n)
               missing == {s \in Sequences : s > n} \ rows
               before(s) == {t \in Sequences : n < t /\ t < s}
    <2>1. Sequences \subseteq Nat /\ IsFiniteSet(Sequences) /\ n \in Nat
      <3>1. IsFiniteSet(1..MaxSequence)
        BY FS_Interval, MaxSequenceAssumption
      <3>2. Sequences \subseteq 1..MaxSequence
        BY DEF TypeOK
      <3>3. IsFiniteSet(Sequences)
        BY <3>1, <3>2, FS_Subset
      <3> QED
        BY <3>2, <3>3, MaxSequenceAssumption
    <2>2. ASSUME NEW s \in Nat
          PROVE  IsFiniteSet(before(s)) /\ Cardinality(before(s)) \in Nat
      BY <2>1, FS_Subset, FS_CardinalityType
    <2>3. ASSUME NEW s \in missing, NEW t \in rows PROVE t < s
      <3>1. s \in Sequences /\ s > n /\ ~ (Cardinality(before(s)) < HistoryLimit)
        BY <2>3 DEF getUpdatesAfter
      <3>2. t \in Sequences /\ t > n /\ Cardinality(before(t)) < HistoryLimit
        BY <2>3 DEF getUpdatesAfter
      <3>3. ASSUME s <= t PROVE FALSE
        <4>1. before(s) \subseteq before(t)
          <5>1. s \in Nat /\ t \in Nat
            BY <2>1, <3>1, <3>2
          <5>2. \A r \in Sequences : r < s => r < t
            BY <2>1, <3>3, <5>1
          <5> QED
            BY <5>2
        <4>2. Cardinality(before(s)) <= Cardinality(before(t))
          BY <2>1, <2>2, <3>2, <4>1, FS_Subset
        <4>3. Cardinality(before(s)) \in Nat /\ Cardinality(before(t)) \in Nat
          BY <2>1, <2>2, <3>1, <3>2
        <4> HIDE DEF before
        <4> QED
          BY <3>1, <3>2, <4>2, <4>3, HistoryLimitAssumption
      <3> QED
        BY <2>1, <3>1, <3>2, <3>3
    <2>4. ASSUME missing # {} PROVE rows # {}
      <3> DEFINE after == {s \in Sequences : s > n}
      <3>1. PICK s \in after : \A t \in after : s <= t
        <4>1. after \in SUBSET Nat /\ after # {}
          BY <2>1, <2>4
        <4> HIDE DEF after
        <4> QED
          BY <4>1, MinIsSmallest
      <3>2. before(s) = {}
        <4>1. s \in Nat
          BY <2>1
        <4>2. \A t \in Sequences : n < t => ~ (t < s)
          BY <2>1, <3>1, <4>1
        <4> QED
          BY <4>2
      <3>3. Cardinality(before(s)) = 0
        BY <3>2, FS_EmptySet
      <3> QED
        BY <3>1, <3>3, HistoryLimitAssumption DEF getUpdatesAfter
    <2> QED
      BY <2>3, <2>4
  <1> QED
    BY <1>1, TypeCorrect, PTL

-----------------------------------------------------------------------------
(* Revocation.                                                              *)

\* NoRevokedSession needs to know where a socket stands in the room: what is
\* attached is not yet closed, what is registered is attached, and an open
\* socket whose HELLO was handled by the live room is registered there.
SessionInv ==
  /\ TypeOK
  /\ \A c \in attached : readyState[c] \in {"open", "closing"}
  /\ \A c \in greeted : readyState[c] # "none"
  /\ connections \subseteq attached
  /\ \A c \in attached \cap greeted : readyState[c] = "open" => c \in connections
  /\ NoRevokedSession

\* SessionInv holds of every behaviour.
LEMMA SessionInvHolds == Spec => []SessionInv
  <1>1. Init /\ TypeOK => SessionInv
    BY DEF Init, SessionInv, NoRevokedSession
  <1>2. SessionInv /\ TypeOK' /\ [Next]_vars => SessionInv'
    <2> SUFFICES ASSUME SessionInv, TypeOK', [Next]_vars PROVE SessionInv'
      OBVIOUS
    <2>1. ASSUME NEW c \in Conn, NEW d \in Device, handleConnection(c, d)
          PROVE  SessionInv'
      BY <2>1 DEF SessionInv, NoRevokedSession, TypeOK, handleConnection,
                  storageVars
    <2>2. ASSUME NEW c \in Conn, handleHelloRevoked(c) PROVE SessionInv'
      BY <2>2 DEF SessionInv, NoRevokedSession, TypeOK, handleHelloRevoked,
                  storageVars, roomVars, CanHandle
    <2>3. ASSUME NEW c \in Conn, NEW n \in 0..MaxSequence, handleHello(c, n)
          PROVE  SessionInv'
      BY <2>3 DEF SessionInv, NoRevokedSession, TypeOK, handleHello, storageVars,
                  CanHandle
    <2>4. ASSUME NEW c \in Conn, c \in greeted, NEW d \in Device \ {deviceId[c]},
                 handleDeviceRevoke(c, d)
          PROVE  SessionInv'
      <3>1. UNCHANGED <<attached, connections, deviceId, greeted>>
        BY <2>4 DEF handleDeviceRevoke, roomVars
      <3>2. ASSUME NEW s \in Conn
            PROVE  \/ readyState'[s] = readyState[s]
                   \/ readyState[s] = "open" /\ readyState'[s] = "closing"
        BY <2>4 DEF SessionInv, TypeOK, handleDeviceRevoke
      <3>3. NoRevokedSession'
        <4> SUFFICES ASSUME NEW s \in connections, deviceId[s] \in revoked_devices'
                     PROVE  readyState'[s] # "open"
          BY <3>1 DEF NoRevokedSession
        <4>1. s \in Conn
          BY DEF SessionInv, TypeOK
        <4>2. CASE deviceId[s] \in revoked_devices
          BY <3>2, <4>1, <4>2 DEF SessionInv, NoRevokedSession
        <4>3. CASE deviceId[s] = d
          BY <2>4, <4>1, <4>3 DEF SessionInv, TypeOK, handleDeviceRevoke
        <4> QED
          BY <2>4, <4>2, <4>3 DEF handleDeviceRevoke
      <3> QED
        BY <3>1, <3>2, <3>3 DEF SessionInv, TypeOK
    <2>5. ASSUME NEW c \in Conn, handleClose(c) PROVE SessionInv'
      BY <2>5 DEF SessionInv, NoRevokedSession, TypeOK, handleClose, storageVars
    <2>6. CASE cleanupIdleRooms \/ reset \/ stop \/ crash
      BY <2>6 DEF SessionInv, NoRevokedSession, TypeOK, cleanupIdleRooms, reset,
                  stop, crash, storageVars, socketVars
    <2>7. ASSUME UNCHANGED <<revoked_devices, attached, connections, socketVars>>
          PROVE  SessionInv'
      BY <2>7 DEF SessionInv, NoRevokedSession, socketVars
    <2>8. ASSUME NEW c \in Conn, NEW n \in 0..MaxSequence, NEW data \in Payload,
                 \/ handleUpdate(c, data) \/ handleSnapshot(c, data)
                 \/ handleSnapshotRequest(c) \/ handleCatchUp(c, n)
                 \/ handleCompact(c, n, data) \/ read(c)
          PROVE  UNCHANGED <<revoked_devices, attached, connections, socketVars>>
      BY <2>8 DEF handleUpdate, handleSnapshot, handleSnapshotRequest,
                  handleCatchUp, handleCompact, read, storageVars, roomVars,
                  socketVars
    <2>9. CASE UNCHANGED vars
      BY <2>7, <2>9 DEF vars, socketVars
    <2>10. 0 \in 0..MaxSequence /\ {} \in Payload
      BY MaxSequenceAssumption DEF Payload
    <2> QED
      BY <2>1, <2>2, <2>3, <2>4, <2>5, <2>6, <2>7, <2>8, <2>9, <2>10
      DEF Next, Hello, Request
  <1> QED
    BY <1>1, <1>2, TypeCorrect, PTL DEF Spec

\* A revoked device never keeps an open socket in the room.
THEOREM RevokedHasNoSession == Spec => []NoRevokedSession
  <1>1. SessionInv => NoRevokedSession
    BY DEF SessionInv
  <1> QED
    BY <1>1, SessionInvHolds, PTL

\* From the step after its revocation on, a device is sent nothing but the
\* rejection of its HELLO.
THEOREM RevokedGetsNothing == Spec => RevokedDeviceGetsNothing
  <1> DEFINE OnlyRejected ==
        \A c \in Conn :
          /\ readyState[c] # "none"
          /\ deviceId[c] \in revoked_devices
          /\ Len(down'[c]) > Len(down[c])
          => down'[c][Len(down'[c])].type = "REJECT"
  <1>1. SessionInv /\ [Next]_vars => OnlyRejected
    <2> SUFFICES ASSUME SessionInv, [Next]_vars, NEW c \in Conn,
                        readyState[c] # "none", deviceId[c] \in revoked_devices
                 PROVE  Len(down'[c]) > Len(down[c])
                          => down'[c][Len(down'[c])].type = "REJECT"
      OBVIOUS
    <2>1. down[c] \in Seq(Message) /\ down \in [Conn -> Seq(Message)]
      BY DEF SessionInv, TypeOK
    <2>2. ~ (readyState[c] = "open" /\ c \in connections)
      BY DEF SessionInv, NoRevokedSession
    <2>3. ASSUME NEW s \in Conn, handleHelloRevoked(s)
          PROVE  \/ down'[c] = down[c]
                 \/ down'[c] = Append(down[c], [type |-> "REJECT"])
      BY <2>1, <2>3, SendEffect DEF handleHelloRevoked
    <2>4. ASSUME NEW s \in Conn, NEW n \in 0..MaxSequence, handleHello(s, n)
          PROVE  down'[c] = down[c]
      <3>1. PICK m : send({s}, m)
        BY <2>4 DEF handleHello
      <3>2. s # c
        BY <2>4 DEF handleHello
      <3> QED
        BY <2>1, <3>1, <3>2, SendEffect
    <2>5. ASSUME NEW s \in Conn, NEW data \in Payload,
                 handleUpdate(s, data) \/ handleSnapshot(s, data)
          PROVE  down'[c] = down[c]
      <3>1. PICK m : send(connections \ {s}, m)
        BY <2>5 DEF handleUpdate, handleSnapshot, broadcastExcept
      <3> QED
        BY <2>1, <2>2, <3>1, SendEffect
    <2>6. ASSUME NEW s \in Conn, handleSnapshotRequest(s)
          PROVE  down'[c] = down[c]
      <3>1. \/ down' = down
            \/ \E other \in connections : \E m : send({other}, m)
        BY <2>6 DEF handleSnapshotRequest
      <3> QED
        BY <2>1, <2>2, <3>1, SendEffect
    <2>7. ASSUME NEW s \in Conn, s \in greeted, NEW n \in 0..MaxSequence,
                 handleCatchUp(s, n)
          PROVE  down'[c] = down[c]
      <3>1. down' = down \/ \E m : send({s}, m)
        BY <2>7 DEF handleCatchUp
      <3>2. s = c => readyState[c] # "open"
        BY <2>2, <2>7 DEF SessionInv, handleCatchUp, CanHandle
      <3> QED
        BY <2>1, <3>1, <3>2, SendEffect
    <2>8. ASSUME NEW s \in Conn, s \in greeted, NEW d \in Device,
                 handleDeviceRevoke(s, d)
          PROVE  down'[c] = down[c]
      <3>1. s = c => readyState[c] # "open"
        BY <2>2, <2>8 DEF SessionInv, handleDeviceRevoke, CanHandle
      <3> QED
        BY <2>2, <2>8, <3>1 DEF handleDeviceRevoke
    <2>9. ASSUME NEW s \in Conn, read(s)
          PROVE  down'[c] = down[c] \/ (down[c] # <<>> /\ down'[c] = Tail(down[c]))
      BY <2>1, <2>9 DEF read
    <2>10. ASSUME NEW s \in Conn, NEW d \in Device, NEW n \in 0..MaxSequence,
                  NEW data \in Payload,
                  \/ handleConnection(s, d) \/ handleClose(s)
                  \/ handleCompact(s, n, data)
           PROVE  down'[c] = down[c]
      BY <2>10 DEF handleConnection, handleClose, handleCompact
    <2>11. ASSUME \/ cleanupIdleRooms \/ reset \/ stop \/ crash
                  \/ UNCHANGED vars
           PROVE  down'[c] = down[c]
      BY <2>11 DEF cleanupIdleRooms, reset, stop, crash, vars
    <2>12. /\ 0 \in 0..MaxSequence
           /\ {} \in Payload
           /\ \E d \in Device : TRUE
      BY MaxSequenceAssumption, DeviceAssumption DEF Payload
    <2>13. \/ down'[c] = down[c]
           \/ down'[c] = Append(down[c], [type |-> "REJECT"])
           \/ (down[c] # <<>> /\ down'[c] = Tail(down[c]))
      BY <2>3, <2>4, <2>5, <2>6, <2>7, <2>8, <2>9, <2>10, <2>11, <2>12
      DEF Next, Hello, Request
    <2>14. CASE down'[c] = Append(down[c], [type |-> "REJECT"])
      <3>1. down'[c][Len(down'[c])] = [type |-> "REJECT"]
        BY <2>1, <2>14
      <3> QED
        BY <3>1
    <2>15. CASE down[c] # <<>> /\ down'[c] = Tail(down[c])
      BY <2>1, <2>15
    <2>16. CASE down'[c] = down[c]
      BY <2>1, <2>16
    <2> QED
      BY <2>13, <2>14, <2>15, <2>16
  <1> QED
    BY <1>1, SessionInvHolds, PTL DEF Spec, RevokedDeviceGetsNothing
=============================================================================
