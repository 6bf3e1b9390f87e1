--------------------------- MODULE CloudSync_proofs ---------------------------
(***************************************************************************)
(* Proofs about CloudSync, for any devices, edits and bounds: its type     *)
(* invariant and the relay's, that no device says it has rows the relay    *)
(* did not insert, that every step is a step of SyncRelay, and, when       *)
(* nothing fails, that a device at rest has every row as long as one batch *)
(* has room for them, and has handed over every edit.                      *)
(***************************************************************************)
EXTENDS CloudSync, TLAPS, SequenceTheorems, Extremes

\* messages that mention no row beyond the n-th
Data(n) ==
  [type : {"UPDATE"}, data : SUBSET Edit]
    \cup [type : {"HISTORY"}, toSequence : 0..n, data : SUBSET Edit]
Told(n) ==
  [type : {"ACK"}, currentSequence : 0..n, hasHistory : BOOLEAN] \cup Data(n)
Asked(n) ==
  [type : {"HELLO"}, lastSequence : 0..n]
    \cup [type : {"CATCH_UP"}, fromSequence : 0..n]
    \cup [type : {"UPDATE"}, data : SUBSET Edit]

\* NeverAhead is not inductive: what a device says comes from the relay's counter,
\* through messages on their way, messages being decrypted and lastSequence.
RelayInv ==
  /\ autoincrement \in 0..MaxSequence
  /\ DOMAIN updates \subseteq 1..autoincrement
  /\ updates \in [DOMAIN updates -> SUBSET Edit]
  /\ currentSequence \in 0..autoincrement
  /\ revoked_devices = {} /\ cleared = FALSE /\ room \in BOOLEAN
  /\ attached \subseteq Conn /\ connections \subseteq Conn /\ greeted \subseteq Conn
  /\ readyState \in [Conn -> {"none", "open", "closing", "closed"}]
  /\ deviceId \in [Conn -> Device]
  /\ down \in [Conn -> Seq(Told(autoincrement))]

ClientInv ==
  /\ socket \in [Conn -> {"none", "connecting", "open", "closed"}]
  /\ up \in [Conn -> Seq(Asked(autoincrement))]
  /\ ws \in [Device -> Conn \cup {None}]
  /\ \A d \in Device : ws[d] # None => Owner(ws[d]) = d
  /\ status \in [Device -> {"disconnected", "connecting", "connected"}]
  /\ lastSequence \in [Device -> 0..autoincrement]
  /\ queue \in [Device -> Seq(SUBSET Edit)]
  /\ decrypting \in [Device -> SUBSET Data(autoincrement)]
  /\ encrypting \in [Device -> SUBSET SUBSET Edit]
  /\ doc \in [Device -> SUBSET Edit]
  /\ syncTimer \in [Device -> BOOLEAN]
  /\ typed \in [Device -> SUBSET Edit]

\* The relay's environment keeps its rule only because a socket that is this.ws has
\* said HELLO when it is open: HELLO has been handled, has been ignored by a closed
\* room, or is the first message on its way.
Ignored(c) == readyState[c] # "none" /\ ~ Relay!CanHandle(c)
Opening(c) ==
  /\ socket[c] = "open" \/ up[c] # <<>> => readyState[c] # "none"
  /\ \/ c \in greeted \/ Ignored(c)
     \/ up[c] # <<>> /\ Head(up[c]).type = "HELLO"
     \/ up[c] = <<>> /\ ~ (socket[c] = "open" /\ ws[Owner(c)] = c)
HelloFirst == \A c \in Conn : Opening(c)

Inv == RelayInv /\ ClientInv /\ HelloFirst

-----------------------------------------------------------------------------
(* The invariant.                                                           *)

\* What is true of the messages stays true when a row is inserted.
LEMMA Growth ==
  ASSUME NEW m \in Nat, NEW n \in Nat, m <= n
  PROVE  /\ 0..m \subseteq 0..n /\ Data(m) \subseteq Data(n)
         /\ Told(m) \subseteq Told(n) /\ Asked(m) \subseteq Asked(n)
         /\ Seq(Told(m)) \subseteq Seq(Told(n)) /\ Seq(Asked(m)) \subseteq Seq(Asked(n))
<1>1. 0..m \subseteq 0..n
  OBVIOUS
<1>2. Data(m) \subseteq Data(n) /\ Told(m) \subseteq Told(n)
  BY <1>1 DEF Data, Told
<1>3. Asked(m) \subseteq Asked(n)
  BY <1>1 DEF Asked
<1> QED
  BY <1>1, <1>2, <1>3, SeqMonotonic

\* The relay's handlers tell nobody of a row that is not there.
LEMMA RelayKeeps ==
  ASSUME RelayInv,
         \/ UNCHANGED relayVars
         \/ \E c \in Conn : \/ Relay!handleConnection(c, Owner(c)) \/ Relay!read(c)
                            \/ Relay!handleClose(c)
                            \/ \E n \in Nat : Relay!handleHello(c, n) \/ Relay!handleCatchUp(c, n)
                            \/ \E data \in SUBSET Edit : Relay!handleUpdate(c, data)
         \/ Relay!cleanupIdleRooms \/ Relay!stop \/ Relay!crash
  PROVE  RelayInv' /\ autoincrement \in Nat /\ autoincrement' \in Nat
                   /\ autoincrement <= autoincrement'
<1> USE RelayAssumption
<1>1. autoincrement \in Nat /\ currentSequence \in 0..autoincrement
  BY DEF RelayInv
<1> \A S : Relay!Max(S) = Max(S)
  BY DEF Relay!Max, Max
<1>2. CASE UNCHANGED relayVars
  BY <1>1, <1>2 DEF relayVars, RelayInv
<1>3. ASSUME NEW c \in Conn, Relay!handleConnection(c, Owner(c))
      PROVE  RelayInv' /\ UNCHANGED autoincrement
  <2>1. Relay!MaxSeq \in 0..autoincrement
    <3>1. CASE Relay!Sequences = {}
      BY <1>1, <3>1 DEF Relay!MaxSeq
    <3>2. CASE Relay!Sequences # {}
      <4>1. Relay!Sequences \in SUBSET (1..autoincrement)
        BY DEF RelayInv, Relay!Sequences
      <4>2. Max(Relay!Sequences) \in 1..autoincrement
        <5>1. Relay!Sequences \in SUBSET Nat
          BY <1>1, <4>1
        <5> QED
          BY <1>1, <3>2, <4>1, <5>1, MaxIsLargest
      <4> QED
        BY <1>1, <3>2, <4>2 DEF Relay!MaxSeq
    <3> QED
      BY <3>1, <3>2
  <2>2. Owner(c) \in Device
    BY DEF Conn, Owner
  <2> QED
    BY <1>3, <2>1, <2>2 DEF Relay!handleConnection, Relay!storageVars, RelayInv
<1>4. ASSUME NEW c \in Conn, Relay!read(c)
      PROVE  RelayInv' /\ UNCHANGED autoincrement
  <2>1. Tail(down[c]) \in Seq(Told(autoincrement))
    BY <1>4 DEF RelayInv, Relay!read
  <2>2. down' \in [Conn -> Seq(Told(autoincrement))]
    BY <1>4, <2>1 DEF RelayInv, Relay!read
  <2> QED
    BY <1>4, <2>2 DEF RelayInv, Relay!read, Relay!storageVars, Relay!roomVars, Relay!socketVars
<1>5. ASSUME NEW c \in Conn, Relay!handleClose(c)
      PROVE  RelayInv' /\ UNCHANGED autoincrement
  BY <1>5 DEF RelayInv, Relay!handleClose, Relay!storageVars
<1>6. ASSUME NEW to, NEW m \in Told(autoincrement), Relay!send(to, m)
      PROVE  down' \in [Conn -> Seq(Told(autoincrement))]
  BY <1>6 DEF RelayInv, Relay!send
<1>7. ASSUME NEW c \in Conn, NEW n \in Nat, Relay!handleHello(c, n)
      PROVE  RelayInv' /\ UNCHANGED autoincrement
  <2> DEFINE ack == [type |-> "ACK", currentSequence |-> currentSequence,
                     hasHistory |-> currentSequence > n]
  <2>1. ack \in Told(autoincrement)
    BY <1>1 DEF Told
  <2>2. Relay!send({c}, ack)
    BY <1>7 DEF Relay!handleHello
  <2> HIDE DEF ack
  <2>3. down' \in [Conn -> Seq(Told(autoincrement))]
    BY <1>6, <2>1, <2>2
  <2> QED
    BY <1>7, <2>3 DEF RelayInv, Relay!handleHello, Relay!storageVars
<1>8. ASSUME NEW c \in Conn, NEW n \in Nat, Relay!handleCatchUp(c, n)
      PROVE  RelayInv' /\ UNCHANGED autoincrement
  <2> DEFINE rows == Relay!getUpdatesAfter(n)
             all == UNION {updates[s] : s \in rows}
             batch == [type |-> "HISTORY", toSequence |-> Max(rows), data |-> all]
  <2>1. down' = down \/ (rows # {} /\ Relay!send({c}, batch))
    BY <1>8 DEF Relay!handleCatchUp
  <2>2. rows \subseteq DOMAIN updates /\ rows \in SUBSET (1..autoincrement)
    BY DEF RelayInv, Relay!getUpdatesAfter, Relay!Sequences
  <2>3. ASSUME rows # {} PROVE batch \in Told(autoincrement)
    <3>1. Max(rows) \in 0..autoincrement
      <4> HIDE DEF rows
      <4>1. rows \in SUBSET Nat
        BY <1>1, <2>2
      <4>2. Max(rows) \in rows
        BY <1>1, <2>2, <2>3, <4>1, MaxIsLargest
      <4> QED
        BY <1>1, <2>2, <4>2
    <3>2. all \in SUBSET Edit
      <4> HIDE DEF rows
      <4> QED
        BY <2>2 DEF RelayInv
    <3> HIDE DEF rows, all
    <3> QED
      BY <3>1, <3>2 DEF Told, Data
  <2> HIDE DEF batch, rows
  <2>4. down' \in [Conn -> Seq(Told(autoincrement))]
    BY <1>6, <2>1, <2>3 DEF RelayInv
  <2> QED
    BY <1>8, <2>4
    DEF RelayInv, Relay!handleCatchUp, Relay!storageVars, Relay!roomVars, Relay!socketVars
<1>9. ASSUME NEW c \in Conn, NEW data \in SUBSET Edit, Relay!handleUpdate(c, data)
      PROVE  RelayInv' /\ autoincrement' = autoincrement + 1
  <2>1. /\ autoincrement < MaxSequence /\ autoincrement' = autoincrement + 1
        /\ currentSequence' = currentSequence + 1
        /\ updates' = Relay!Inserted(updates, data)
        /\ Relay!send(connections \ {c}, [type |-> "UPDATE", data |-> data])
        /\ UNCHANGED <<revoked_devices, cleared, room, attached, connections,
                       readyState, deviceId, greeted>>
    BY <1>9 DEF Relay!handleUpdate, Relay!storeUpdate, Relay!broadcastExcept, Relay!socketVars
  <2>2. [type |-> "UPDATE", data |-> data] \in Told(autoincrement)
    BY DEF Told, Data
  <2>3. down' \in [Conn -> Seq(Told(autoincrement))]
    BY <1>6, <2>1, <2>2
  <2>4. down' \in [Conn -> Seq(Told(autoincrement'))]
    BY <1>1, <2>1, <2>3, Growth
  <2>5. /\ DOMAIN updates' = DOMAIN updates \cup {autoincrement + 1}
        /\ updates' \in [DOMAIN updates' -> SUBSET Edit]
    BY <2>1 DEF Relay!Inserted, RelayInv
  <2>6. /\ autoincrement' \in 0..MaxSequence /\ currentSequence' \in 0..autoincrement'
        /\ DOMAIN updates' \subseteq 1..autoincrement'
    BY <1>1, <2>1, <2>5 DEF RelayInv
  <2> QED
    BY <2>1, <2>4, <2>5, <2>6 DEF RelayInv
<1>10. CASE Relay!cleanupIdleRooms \/ Relay!stop \/ Relay!crash
  <2>1. RelayInv' /\ UNCHANGED autoincrement
    BY <1>10 DEF RelayInv, Relay!cleanupIdleRooms, Relay!stop, Relay!crash,
                 Relay!storageVars, Relay!socketVars
  <2> QED
    BY <1>1, <2>1
<1> QED
  BY <1>1, <1>2, <1>3, <1>4, <1>5, <1>7, <1>8, <1>9, <1>10

\* Inv holds of every behaviour.
LEMMA InvHolds == Spec => []Inv
<1> USE AttemptsAssumption, NoneAssumption, RelayAssumption
<1>1. Init => Inv
  <2> SUFFICES ASSUME Init PROVE Inv
    OBVIOUS
  <2>1. RelayInv
    <3>1. deviceId \in [Conn -> Device]
      BY DEF Init, Relay!Init
    <3>2. updates \in [DOMAIN updates -> SUBSET Edit] /\ DOMAIN updates = {}
      BY DEF Init, Relay!Init, Relay!NoRows
    <3>3. down \in [Conn -> Seq(Told(autoincrement))]
      BY DEF Init, Relay!Init
    <3>4. /\ autoincrement \in 0..MaxSequence /\ currentSequence \in 0..autoincrement
          /\ readyState \in [Conn -> {"none", "open", "closing", "closed"}]
      BY DEF Init, Relay!Init
    <3> QED
      BY <3>1, <3>2, <3>3, <3>4 DEF Init, Relay!Init, RelayInv
  <2>2. ClientInv /\ HelloFirst
    BY DEF Init, Relay!Init, ClientInv, HelloFirst, Opening
  <2> QED
    BY <2>1, <2>2 DEF Inv
<1>2. Inv /\ [Next]_vars => Inv'
  <2> SUFFICES ASSUME Inv, [Next]_vars
               PROVE  Inv'
    OBVIOUS
  <2>1. /\ RelayInv /\ ClientInv /\ HelloFirst /\ autoincrement \in Nat
        /\ \A c \in Conn : Owner(c) \in Device
        /\ None \notin Conn
    BY DEF Inv, RelayInv, Conn, Owner
  \* what the relay does alone leaves the clients as they are
  <2>2. ASSUME UNCHANGED <<clientVars, docVars, socket>>, autoincrement' \in Nat,
               autoincrement <= autoincrement', up' \in [Conn -> Seq(Asked(autoincrement))]
        PROVE  ClientInv'
    <3>1. /\ up' \in [Conn -> Seq(Asked(autoincrement'))]
          /\ lastSequence \in [Device -> 0..autoincrement']
          /\ decrypting \in [Device -> SUBSET Data(autoincrement')]
      BY <2>1, <2>2, Growth DEF ClientInv
    <3> QED
      BY <2>1, <2>2, <3>1 DEF ClientInv, clientVars, docVars
  \* what the clients do alone leaves the relay as it is
  <2>3. ASSUME UNCHANGED relayVars
        PROVE  /\ RelayInv' /\ UNCHANGED <<autoincrement, readyState, greeted, down>>
               /\ \A c \in Conn : Ignored(c)' = Ignored(c)
    BY <2>1, <2>3, RelayKeeps DEF relayVars, Ignored, Relay!CanHandle
  <2>4. ASSUME UNCHANGED <<socket, up, ws>>, greeted \subseteq greeted',
               \A c \in Conn : /\ readyState[c] # "none" => readyState'[c] # "none"
                               /\ Ignored(c) => Ignored(c)'
        PROVE  HelloFirst'
    BY <2>1, <2>4 DEF HelloFirst, Opening
  \* a client that finds its socket open has said HELLO on it
  <2>5. ASSUME NEW d \in Device, IsOpen(d)
        PROVE  /\ ws[d] \in Conn /\ readyState[ws[d]] # "none"
               /\ \/ ws[d] \in greeted \/ Ignored(ws[d])
                  \/ up[ws[d]] # <<>> /\ Head(up[ws[d]]).type = "HELLO"
    BY <2>1, <2>5 DEF IsOpen, ClientInv, HelloFirst, Opening
  \* and what it sends then comes after HELLO
  <2>6. ASSUME NEW c \in Conn, NEW longer,
               UNCHANGED <<readyState, greeted, attached, socket, ws>>,
               up' = [up EXCEPT ![c] = longer], readyState[c] # "none",
               up[c] # <<>> => longer # <<>> /\ Head(longer) = Head(up[c]),
               \/ c \in greeted \/ Ignored(c)
               \/ longer # <<>> /\ Head(longer).type = "HELLO"
        PROVE  HelloFirst'
    <3>1. \A s \in Conn : Ignored(s)' = Ignored(s)
      BY <2>6 DEF Ignored, Relay!CanHandle
    <3>2. up'[c] = longer /\ \A s \in Conn \ {c} : up'[s] = up[s]
      BY <2>1, <2>6 DEF ClientInv
    <3>3. ASSUME NEW s \in Conn, s # c PROVE Opening(s)'
      BY <2>1, <2>6, <3>1, <3>2, <3>3 DEF HelloFirst, Opening
    <3>4. Opening(c)'
      BY <2>6, <3>1, <3>2 DEF Opening
    <3> QED
      BY <3>3, <3>4 DEF HelloFirst
  <2>7. ASSUME NEW s \in Seq(Asked(autoincrement)), NEW m \in Asked(autoincrement)
        PROVE  /\ Append(s, m) \in Seq(Asked(autoincrement)) /\ Append(s, m) # <<>>
               /\ s # <<>> => Head(Append(s, m)) = Head(s)
               /\ s = <<>> => Head(Append(s, m)) = m
    BY <2>7, AppendProperties, HeadTailAppend
  <2>8. ASSUME NEW d \in Device, NEW c \in Conn, connect(d, c)
        PROVE  Inv'
    <3>1. socket[c] = "none" /\ Owner(c) = d
      <4> DEFINE unused == {n \in 1..MaxAttempts : socket[<<d, n>>] = "none"}
      <4>1. unused # {} /\ c = <<d, Min(unused)>>
        BY <2>1, <2>8 DEF connect, Fresh
      <4>2. Min(unused) \in unused
        <5>1. unused \in SUBSET Nat
          OBVIOUS
        <5> HIDE DEF unused
        <5> QED
          BY <4>1, <5>1, MinIsSmallest
      <4> QED
        BY <4>1, <4>2 DEF Owner
    <3>2. RelayInv' /\ UNCHANGED <<autoincrement, readyState, greeted>>
          /\ \A s \in Conn : Ignored(s)' = Ignored(s)
      BY <2>3, <2>8 DEF connect
    <3>3. ClientInv'
      BY <2>1, <2>8, <3>1, <3>2 DEF connect, ClientInv, docVars
    <3>4. \A s \in Conn : /\ socket'[s] = "open" => socket[s] = "open" /\ s # c
                          /\ ws'[Owner(s)] = s => ws[Owner(s)] = s \/ s = c
      BY <2>1, <2>8 DEF connect, ClientInv
    <3>5. ASSUME NEW s \in Conn PROVE Opening(s)'
      <4>1. up' = up
        BY <2>8 DEF connect
      <4>2. ~ (socket[s] = "open" /\ ws[Owner(s)] = s) =>
              ~ (socket'[s] = "open" /\ ws'[Owner(s)] = s)
        BY <3>4
      <4> QED
        BY <2>1, <3>2, <3>4, <4>1, <4>2 DEF HelloFirst, Opening
    <3> QED
      BY <3>2, <3>3, <3>5 DEF Inv, HelloFirst
  <2>9. ASSUME NEW c \in Conn, accept(c)
        PROVE  Inv'
    <3>1. RelayInv' /\ autoincrement' \in Nat /\ autoincrement <= autoincrement'
      BY <2>1, <2>9, RelayKeeps DEF accept
    <3>2. ClientInv'
      BY <2>1, <2>2, <2>9, <3>1 DEF accept, ClientInv
    <3>3. /\ readyState[c] = "none" /\ readyState'[c] = "open" /\ UNCHANGED greeted
          /\ \A s \in Conn \ {c} : /\ readyState'[s] = readyState[s]
                                   /\ s \in attached' <=> s \in attached
      BY <2>1, <2>9 DEF accept, Relay!handleConnection, RelayInv
    <3>4. Opening(c)'
      BY <2>1, <2>9, <3>3 DEF accept, HelloFirst, Opening, Ignored
    <3>5. ASSUME NEW s \in Conn \ {c} PROVE Opening(s)'
      <4>1. Ignored(s)' = Ignored(s)
        BY <3>3 DEF Ignored, Relay!CanHandle
      <4> QED
        BY <2>1, <2>9, <3>3, <4>1 DEF accept, HelloFirst, Opening, clientVars
    <3> QED
      BY <3>1, <3>2, <3>4, <3>5 DEF Inv, HelloFirst
  <2>10. ASSUME NEW c \in Conn, handleOpen(c)
         PROVE  Inv'
    <3> DEFINE d == Owner(c)
               hello == Hello(lastSequence[d])
    <3>1. d \in Device /\ hello \in Asked(autoincrement) /\ hello.type = "HELLO"
      BY <2>1 DEF ClientInv, Hello, Asked
    <3>2. RelayInv' /\ UNCHANGED <<autoincrement, readyState, greeted>>
          /\ \A s \in Conn : Ignored(s)' = Ignored(s)
      BY <2>3, <2>10 DEF handleOpen
    <3>3. /\ socket[c] = "connecting" /\ readyState[c] # "none"
          /\ socket' = [socket EXCEPT ![c] = "open"] /\ UNCHANGED <<clientVars, docVars>>
      BY <2>10 DEF handleOpen
    <3> HIDE DEF hello
    <3>4. ASSUME NEW to \in Conn, ws[d] = to, to = c \/ socket[to] = "open"
          PROVE  Inv'
      <4>1. up' = [up EXCEPT ![to] = Append(up[to], hello)]
        BY <2>1, <2>10, <3>1, <3>4 DEF handleOpen, ClientInv, hello
      <4>2. Append(up[to], hello) \in Seq(Asked(autoincrement))
        BY <2>1, <2>7, <3>1 DEF ClientInv
      <4>3. ClientInv'
        BY <2>1, <3>2, <3>3, <4>1, <4>2 DEF ClientInv, clientVars, docVars
      <4>4. Opening(to)'
        <5>1. readyState[to] # "none"
          BY <2>1, <3>3, <3>4 DEF HelloFirst, Opening
        <5>2. up'[to] = Append(up[to], hello) /\ up[to] \in Seq(Asked(autoincrement))
          BY <2>1, <4>1 DEF ClientInv
        <5>3. CASE up[to] = <<>>
          BY <2>7, <3>1, <3>2, <5>1, <5>2, <5>3 DEF Opening
        <5>4. CASE up[to] # <<>>
          <6>1. up'[to] # <<>> /\ Head(up'[to]) = Head(up[to])
            BY <2>7, <3>1, <5>2, <5>4
          <6> QED
            BY <2>1, <3>2, <5>1, <5>4, <6>1 DEF HelloFirst, Opening
        <5> QED
          BY <5>3, <5>4
      <4>5. ASSUME NEW s \in Conn, s # to PROVE Opening(s)'
        <5>1. up'[s] = up[s]
          BY <2>1, <4>1, <4>5 DEF ClientInv
        <5>2. socket'[s] = "open" => socket[s] = "open" \/ s = c
          BY <2>1, <3>3 DEF ClientInv
        <5>3. s = c => ws[Owner(s)] # s
          BY <3>4, <4>5
        <5> QED
          BY <2>1, <3>2, <3>3, <5>1, <5>2, <5>3 DEF HelloFirst, Opening, clientVars
      <4> QED
        BY <3>2, <4>3, <4>4, <4>5 DEF Inv, HelloFirst
    <3>5. CASE ws[d] = None \/ ~ (ws[d] = c \/ socket[ws[d]] = "open")
      <4>1. up' = up /\ ws[d] # c
        BY <2>1, <2>10, <3>5 DEF handleOpen
      <4>2. ClientInv'
        BY <2>1, <3>2, <3>3, <4>1 DEF ClientInv, clientVars, docVars
      <4>3. HelloFirst'
        BY <2>1, <3>2, <3>3, <4>1 DEF ClientInv, HelloFirst, Opening, clientVars
      <4> QED
        BY <3>2, <4>2, <4>3 DEF Inv
    <3> QED
      BY <2>1, <3>1, <3>4, <3>5 DEF ClientInv
  \* messages from the relay
  <2>11. ASSUME NEW c \in Conn, Relay!read(c)
         PROVE  /\ RelayInv' /\ Head(down[c]) \in Told(autoincrement)
                /\ UNCHANGED <<autoincrement, readyState, greeted, attached>>
    <3>1. Head(down[c]) \in Told(autoincrement)
      BY <2>1, <2>11, HeadTailProperties DEF RelayInv, Relay!read
    <3>2. RelayInv'
      BY <2>1, <2>11, RelayKeeps
    <3> QED
      BY <2>11, <3>1, <3>2 DEF Relay!read, Relay!storageVars, Relay!roomVars, Relay!socketVars
  <2>12. ASSUME NEW c \in Conn, handleAck(c)
         PROVE  Inv'
    <3> DEFINE d == Owner(c)
               ack == Head(down[c])
    <3>1. /\ RelayInv' /\ ack \in Told(autoincrement) /\ d \in Device
          /\ UNCHANGED <<autoincrement, readyState, greeted, attached>>
      BY <2>1, <2>11, <2>12 DEF handleAck
    <3>2. ack.type = "ACK" /\ ack.currentSequence \in 0..autoincrement
      BY <2>12, <3>1 DEF handleAck, Told, Data
    <3>3. lastSequence' \in [Device -> 0..autoincrement]
      BY <2>1, <2>12, <3>2 DEF handleAck, ClientInv
    <3>4. status' \in [Device -> {"disconnected", "connecting", "connected"}]
      BY <2>1, <2>12 DEF handleAck, ClientInv
    <3>5. AfterAck(d, ack) \in Seq(Asked(autoincrement))
      <4>1. /\ <<CatchUp(lastSequence[d])>> \in Seq(Asked(autoincrement))
            /\ <<>> \in Seq(Asked(autoincrement))
        <5>1. CatchUp(lastSequence[d]) \in Asked(autoincrement)
          BY <2>1, <3>1 DEF CatchUp, Asked, ClientInv
        <5> QED
          BY <5>1
      <4>2. [i \in DOMAIN queue[d] |-> Update(queue[d][i])] \in Seq(Asked(autoincrement))
        <5>1. queue[d] \in Seq(SUBSET Edit)
          BY <2>1, <3>1 DEF ClientInv
        <5>2. \A i \in DOMAIN queue[d] : Update(queue[d][i]) \in Asked(autoincrement)
          BY <5>1 DEF Update, Asked
        <5> QED
          BY <5>1, <5>2
      <4> HIDE DEF ack, d
      <4> QED
        BY <4>1, <4>2, ConcatProperties DEF AfterAck
    <3> HIDE DEF ack
    <3>6. CASE IsOpen(d)
      <4>1. PICK to \in Conn : to = ws[d]
        BY <2>5, <3>1, <3>6
      <4> DEFINE longer == up[to] \o AfterAck(d, ack)
      <4>2. up[to] \in Seq(Asked(autoincrement))
        BY <2>1, <4>1 DEF ClientInv
      <4>3. /\ longer \in Seq(Asked(autoincrement))
            /\ up[to] # <<>> => longer # <<>> /\ Head(longer) = Head(up[to])
        <5>1. /\ longer \in Seq(Asked(autoincrement))
              /\ Len(longer) = Len(up[to]) + Len(AfterAck(d, ack))
              /\ up[to] # <<>> => longer[1] = up[to][1] /\ Len(longer) >= 1
          BY <3>5, <4>2, ConcatProperties, EmptySeq, LenProperties
        <5> QED
          BY <4>2, <5>1
      <4>4. up' = [up EXCEPT ![to] = longer] /\ queue' = [queue EXCEPT ![d] = <<>>]
        BY <2>12, <3>6, <4>1 DEF handleAck, ack
      <4>5. ClientInv'
        <5>1. /\ UNCHANGED <<doc, syncTimer, typed, socket, ws, decrypting, encrypting>>
              /\ up' \in [Conn -> Seq(Asked(autoincrement))]
              /\ queue' \in [Device -> Seq(SUBSET Edit)]
          BY <2>1, <2>12, <4>3, <4>4 DEF handleAck, ClientInv, docVars
        <5> QED
          BY <2>1, <3>1, <3>3, <3>4, <5>1 DEF ClientInv
      <4>6. HelloFirst'
        <5>1. UNCHANGED <<socket, ws>>
          BY <2>12 DEF handleAck
        <5> HIDE DEF longer
        <5> QED
          BY <2>5, <2>6, <3>1, <3>6, <4>1, <4>3, <4>4, <5>1
      <4> QED
        BY <3>1, <4>5, <4>6 DEF Inv
    <3>7. CASE ~ IsOpen(d)
      <4>1. UNCHANGED <<up, queue, socket, ws, decrypting, encrypting, docVars>>
        BY <2>12, <3>7 DEF handleAck
      <4>2. ClientInv'
        BY <2>1, <3>1, <3>3, <3>4, <4>1 DEF ClientInv, docVars
      <4>3. HelloFirst'
        BY <2>4, <3>1, <4>1 DEF Ignored, Relay!CanHandle
      <4> QED
        BY <3>1, <4>2, <4>3 DEF Inv
    <3> QED
      BY <3>6, <3>7
  <2>13. ASSUME NEW c \in Conn, handleData(c)
         PROVE  Inv'
    <3>1. /\ RelayInv' /\ Head(down[c]) \in Told(autoincrement) /\ Owner(c) \in Device
          /\ UNCHANGED <<autoincrement, readyState, greeted, attached>>
      BY <2>1, <2>11, <2>13 DEF handleData
    <3>2. Head(down[c]) \in Data(autoincrement)
      BY <2>13, <3>1 DEF handleData, Told
    <3>3. ClientInv'
      BY <2>1, <2>13, <3>1, <3>2 DEF handleData, ClientInv, docVars
    <3>4. HelloFirst'
      BY <2>4, <2>13, <3>1 DEF handleData, Ignored, Relay!CanHandle
    <3> QED
      BY <3>1, <3>3, <3>4 DEF Inv
  \* steps of the back end, the user and the timer: sockets and the relay stay
  <2>14. ASSUME UNCHANGED <<relayVars, socket, up, ws>>, ClientInv'
         PROVE  Inv'
    BY <2>3, <2>4, <2>14 DEF Inv
  <2>15. ASSUME NEW d \in Device, NEW m \in decrypting[d], decrypted(d, m) \/ decryptFails(d, m)
         PROVE  Inv'
    <3>1. UNCHANGED <<relayVars, socket, up, ws, status, queue, encrypting, syncTimer, typed,
                      autoincrement>>
      BY <2>15 DEF decrypted, decryptFails, relayVars
    <3>2. m \in Data(autoincrement)
      BY <2>1, <2>15 DEF ClientInv
    <3>3. lastSequence' \in [Device -> 0..autoincrement]
      <4>1. m.type = "HISTORY" => m.toSequence \in 0..autoincrement
        BY <3>2 DEF Data
      <4>2. \/ lastSequence' = lastSequence
            \/ m.type = "HISTORY" /\ lastSequence' = [lastSequence EXCEPT ![d] = m.toSequence]
        BY <2>15 DEF decrypted, decryptFails
      <4>3. lastSequence \in [Device -> 0..autoincrement]
        BY <2>1 DEF ClientInv
      <4> QED
        BY <4>1, <4>2, <4>3
    <3>4. doc' \in [Device -> SUBSET Edit]
      <4>1. m.data \in SUBSET Edit
        BY <3>2 DEF Data
      <4>2. PICK data \in SUBSET Edit : doc' = doc \/ doc' = [doc EXCEPT ![d] = doc[d] \cup data]
        BY <2>15, <4>1 DEF decrypted, decryptFails
      <4>3. doc \in [Device -> SUBSET Edit] /\ doc[d] \cup data \in SUBSET Edit
        BY <2>1 DEF ClientInv
      <4> QED
        BY <4>2, <4>3
    <3>5. decrypting' \in [Device -> SUBSET Data(autoincrement)]
      <4>1. decrypting' = [decrypting EXCEPT ![d] = decrypting[d] \ {m}]
        BY <2>15 DEF decrypted, decryptFails
      <4> QED
        BY <2>1, <4>1 DEF ClientInv
    <3>6. ClientInv'
      BY <2>1, <3>1, <3>3, <3>4, <3>5 DEF ClientInv
    <3> QED
      BY <2>14, <3>1, <3>6
  <2>16. ASSUME NEW d \in Device,
                \/ broadcast(d)
                \/ \E e \in Edit : edit(d, e) \/ handleContentChange(d, e)
                \/ \E data \in encrypting[d] : encryptFails(d, data)
         PROVE  Inv'
    <3>1. UNCHANGED <<relayVars, socket, up, ws, autoincrement>>
      BY <2>16 DEF broadcast, edit, handleContentChange, encryptFails, relayVars, clientVars
    <3>2. CASE broadcast(d)
      <4>1. encrypting' \in [Device -> SUBSET SUBSET Edit]
        <5>1. \/ encrypting' = encrypting
              \/ encrypting' = [encrypting EXCEPT ![d] = encrypting[d] \cup {doc[d]}]
          BY <3>2 DEF broadcast
        <5>2. /\ encrypting \in [Device -> SUBSET SUBSET Edit]
              /\ encrypting[d] \cup {doc[d]} \in SUBSET SUBSET Edit
          BY <2>1 DEF ClientInv
        <5> QED
          BY <5>1, <5>2
      <4>2. typed' \in [Device -> SUBSET Edit]
        <5>1. typed' = typed \/ typed' = [typed EXCEPT ![d] = {}]
          BY <3>2 DEF broadcast
        <5> QED
          BY <2>1, <5>1 DEF ClientInv
      <4> QED
        BY <2>1, <2>14, <3>1, <3>2, <4>1, <4>2 DEF broadcast, ClientInv
    <3>3. ASSUME NEW e \in Edit, edit(d, e)
          PROVE  Inv'
      BY <2>1, <2>14, <3>1, <3>3 DEF edit, ClientInv, clientVars
    <3>4. ASSUME NEW e \in Edit, handleContentChange(d, e)
          PROVE  Inv'
      BY <2>1, <2>14, <3>1, <3>4 DEF handleContentChange, ClientInv, clientVars
    <3>5. ASSUME NEW data \in encrypting[d], encryptFails(d, data)
          PROVE  Inv'
      BY <2>1, <2>14, <3>1, <3>5 DEF encryptFails, ClientInv, docVars
    <3> QED
      BY <2>16, <3>2, <3>3, <3>4, <3>5
  <2>17. ASSUME NEW d \in Device, NEW data \in encrypting[d], encrypted(d, data)
         PROVE  Inv'
    <3>1. /\ RelayInv' /\ UNCHANGED <<autoincrement, readyState, greeted, attached>>
          /\ UNCHANGED <<relayVars, docVars, socket, ws, status, lastSequence, decrypting>>
      BY <2>3, <2>17 DEF encrypted, relayVars
    <3>2. data \in SUBSET Edit /\ encrypting' \in [Device -> SUBSET SUBSET Edit]
      BY <2>1, <2>17 DEF encrypted, ClientInv
    <3>3. CASE IsOpen(d)
      <4>1. PICK to \in Conn : to = ws[d]
        BY <2>5, <3>3
      <4>2. up' = [up EXCEPT ![to] = Append(up[to], Update(data))] /\ UNCHANGED queue
        BY <2>17, <3>3, <4>1 DEF encrypted
      <4>3. Update(data) \in Asked(autoincrement) /\ up[to] \in Seq(Asked(autoincrement))
        BY <2>1, <3>2 DEF Update, Asked, ClientInv
      <4>4. /\ Append(up[to], Update(data)) \in Seq(Asked(autoincrement))
            /\ Append(up[to], Update(data)) # <<>>
            /\ up[to] # <<>> => Head(Append(up[to], Update(data))) = Head(up[to])
        BY <2>7, <4>3
      <4>5. ClientInv'
        BY <2>1, <3>1, <3>2, <4>2, <4>4 DEF ClientInv, docVars
      <4>6. HelloFirst'
        BY <2>5, <2>6, <3>1, <3>3, <4>1, <4>2, <4>4
      <4> QED
        BY <3>1, <4>5, <4>6 DEF Inv
    <3>4. CASE ~ IsOpen(d)
      <4>1. UNCHANGED up /\ queue' = [queue EXCEPT ![d] = Append(queue[d], data)]
        BY <2>17, <3>4 DEF encrypted
      <4>2. Append(queue[d], data) \in Seq(SUBSET Edit)
        BY <2>1, <3>2 DEF ClientInv
      <4>3. ClientInv'
        BY <2>1, <3>1, <3>2, <4>1, <4>2 DEF ClientInv, docVars
      <4> QED
        BY <2>14, <3>1, <4>1, <4>3
    <3> QED
      BY <3>3, <3>4
  \* the relay's side
  <2>18. ASSUME NEW c \in Conn, relayReceive(c)
         PROVE  Inv'
    <3> DEFINE m == Head(up[c])
    <3>1. /\ up[c] # <<>> /\ m \in Asked(autoincrement)
          /\ Tail(up[c]) \in Seq(Asked(autoincrement))
      BY <2>1, <2>18, HeadTailProperties DEF relayReceive, ClientInv
    <3>2. /\ up' = [up EXCEPT ![c] = Tail(up[c])]
          /\ up' \in [Conn -> Seq(Asked(autoincrement))]
          /\ UNCHANGED <<clientVars, docVars, socket, ws>>
      BY <2>1, <2>18, <3>1 DEF relayReceive, ClientInv, clientVars
    <3>3. \/ m.type = "HELLO" /\ Relay!handleHello(c, m.lastSequence)
          \/ m.type = "CATCH_UP" /\ Relay!handleCatchUp(c, m.fromSequence)
          \/ m.type = "UPDATE" /\ Relay!handleUpdate(c, m.data)
          \/ ~ Relay!CanHandle(c) /\ UNCHANGED relayVars
      BY <2>18 DEF relayReceive
    <3>4. /\ m.type = "HELLO" => m.lastSequence \in Nat
          /\ m.type = "CATCH_UP" => m.fromSequence \in Nat
          /\ m.type = "UPDATE" => m.data \in SUBSET Edit
      BY <2>1, <3>1 DEF Asked
    <3> HIDE DEF m
    <3>5. /\ RelayInv' /\ autoincrement' \in Nat /\ autoincrement <= autoincrement'
      BY <2>1, <3>3, <3>4, RelayKeeps
    <3>6. /\ UNCHANGED <<readyState, attached>>
          /\ greeted \subseteq greeted' /\ (m.type = "HELLO" => c \in greeted' \/ ~ Relay!CanHandle(c))
      BY <3>3 DEF Relay!handleHello, Relay!handleCatchUp, Relay!handleUpdate, relayVars,
                  Relay!storageVars, Relay!roomVars, Relay!socketVars
    <3>7. ClientInv'
      BY <2>2, <3>2, <3>5
    <3>8. \A s \in Conn : Ignored(s)' = Ignored(s)
      BY <3>6 DEF Ignored, Relay!CanHandle
    <3>9. Opening(c)'
      BY <2>1, <3>1, <3>6, <3>8 DEF HelloFirst, Opening, Ignored, m
    <3>10. ASSUME NEW s \in Conn, s # c PROVE Opening(s)'
      <4>1. up'[s] = up[s]
        BY <2>1, <3>2, <3>10 DEF ClientInv
      <4> QED
        BY <2>1, <3>2, <3>6, <3>8, <4>1 DEF HelloFirst, Opening
    <3> QED
      BY <3>5, <3>7, <3>9, <3>10 DEF Inv, HelloFirst
  <2>19. ASSUME NEW c \in Conn, relayClose(c)
         PROVE  Inv'
    <3>1. RelayInv' /\ autoincrement' \in Nat /\ autoincrement <= autoincrement'
      BY <2>1, <2>19, RelayKeeps DEF relayClose
    <3>2. /\ up' = [up EXCEPT ![c] = <<>>] /\ up' \in [Conn -> Seq(Asked(autoincrement))]
          /\ UNCHANGED <<clientVars, docVars, socket, ws>>
      BY <2>1, <2>19 DEF relayClose, ClientInv, clientVars
    <3>3. /\ readyState'[c] = "closed" /\ UNCHANGED greeted
          /\ \A s \in Conn \ {c} : /\ readyState'[s] = readyState[s]
                                   /\ s \in attached' <=> s \in attached
      BY <2>1, <2>19 DEF relayClose, Relay!handleClose, RelayInv
    <3>4. ClientInv'
      BY <2>2, <3>1, <3>2
    <3>5. Opening(c)'
      BY <3>3 DEF Opening, Ignored, Relay!CanHandle
    <3>6. ASSUME NEW s \in Conn, s # c PROVE Opening(s)'
      <4>1. up'[s] = up[s] /\ Ignored(s)' = Ignored(s)
        BY <2>1, <3>2, <3>3, <3>6 DEF ClientInv, Ignored, Relay!CanHandle
      <4> QED
        BY <2>1, <3>2, <3>3, <3>6, <4>1 DEF HelloFirst, Opening
    <3> QED
      BY <3>1, <3>4, <3>5, <3>6 DEF Inv, HelloFirst
  <2>20. ASSUME relayRestart
         PROVE  Inv'
    <3>1. RelayInv' /\ autoincrement' \in Nat /\ autoincrement <= autoincrement'
      BY <2>1, <2>20, RelayKeeps DEF relayRestart
    <3>2. ClientInv'
      BY <2>1, <2>2, <2>20, <3>1 DEF relayRestart, ClientInv
    <3>3. /\ attached' = {} /\ UNCHANGED greeted
          /\ \A s \in Conn : readyState[s] # "none" => readyState'[s] # "none"
      BY <2>1, <2>20 DEF relayRestart, Relay!cleanupIdleRooms, Relay!stop, Relay!crash,
                         Relay!socketVars, RelayInv
    <3>4. HelloFirst'
      BY <2>4, <2>20, <3>3 DEF relayRestart, clientVars, Ignored, Relay!CanHandle
    <3> QED
      BY <3>1, <3>2, <3>4 DEF Inv
  <2>21. ASSUME NEW c \in Conn, handleClose(c)
         PROVE  Inv'
    <3>1. /\ RelayInv' /\ UNCHANGED <<autoincrement, readyState, greeted>>
          /\ \A s \in Conn : Ignored(s)' = Ignored(s)
      BY <2>3, <2>21 DEF handleClose
    <3>2. ClientInv'
      BY <2>1, <2>21, <3>1 DEF handleClose, ClientInv, docVars
    <3>3. \A s \in Conn : /\ socket'[s] = "open" => socket[s] = "open"
                          /\ ws'[Owner(s)] = s => ws[Owner(s)] = s
      BY <2>1, <2>21 DEF handleClose, ClientInv
    <3>4. ASSUME NEW s \in Conn PROVE Opening(s)'
      <4>1. up' = up
        BY <2>21 DEF handleClose
      <4> QED
        BY <2>1, <3>1, <3>3, <4>1 DEF HelloFirst, Opening
    <3> QED
      BY <3>1, <3>2, <3>4 DEF Inv, HelloFirst
  <2>22. CASE UNCHANGED vars
    <3>1. UNCHANGED <<relayVars, socket, up, ws, clientVars, docVars, autoincrement>>
      BY <2>22 DEF vars, relayVars, clientVars, docVars
    <3> QED
      BY <2>1, <2>14, <3>1 DEF ClientInv, clientVars, docVars
  <2> QED
    BY <2>8, <2>9, <2>10, <2>12, <2>13, <2>15, <2>16, <2>17, <2>18, <2>19, <2>20, <2>21, <2>22
    DEF Next, Progress
<1> QED
  BY <1>1, <1>2, PTL DEF Spec

-----------------------------------------------------------------------------
(* The theorems.                                                            *)

\* Every variable of the clients and of the relay keeps its shape.
THEOREM TypeCorrect == Spec => [](TypeOK /\ Relay!TypeOK)
<1>1. Inv => TypeOK /\ Relay!TypeOK
  <2> SUFFICES ASSUME RelayInv, ClientInv
               PROVE  TypeOK /\ Relay!TypeOK
    BY DEF Inv
  <2>1. autoincrement \in Nat /\ 0..autoincrement \subseteq Nat
        /\ autoincrement <= MaxSequence
    BY RelayAssumption DEF RelayInv
  <2>2. /\ Told(autoincrement) \subseteq Relay!Message /\ Data(autoincrement) \subseteq Relay!Message
        /\ Asked(autoincrement) \subseteq UpMessage
    <3>1. Told(autoincrement) \subseteq Relay!Message
      BY <2>1 DEF Told, Data, Relay!Message, Relay!Ack, Relay!Live, Relay!History, Relay!Payload
    <3>2. Asked(autoincrement) \subseteq UpMessage
      BY <2>1 DEF Asked, UpMessage
    <3> QED
      BY <3>1, <3>2 DEF Told
  <2>3. /\ down \in [Conn -> Seq(Relay!Message)] /\ up \in [Conn -> Seq(UpMessage)]
        /\ decrypting \in [Device -> SUBSET Relay!Message]
    BY <2>2, SeqMonotonic DEF RelayInv, ClientInv
  <2>4. TypeOK
    BY <2>1, <2>3 DEF TypeOK, ClientInv
  <2>5. Relay!Sequences \in SUBSET (1..MaxSequence) /\ currentSequence \in Nat
    BY <2>1, RelayAssumption DEF RelayInv, Relay!Sequences
  <2> QED
    BY <2>3, <2>4, <2>5 DEF Relay!TypeOK, RelayInv, Relay!Sequences, Relay!Payload
<1> QED
  BY <1>1, InvHolds, PTL

\* No device ever says it has a row the relay did not insert (client.ts handleAck,
\* handleHistory): neither an acknowledgement nor a batch, however late it is
\* handled, mentions one.
THEOREM NobodyIsAhead == Spec => []NeverAhead
<1>1. Inv => NeverAhead
  BY DEF Inv, RelayInv, ClientInv, NeverAhead
<1> QED
  BY <1>1, InvHolds, PTL

\* CloudSync implements SyncRelay: sockets that overlap, fail and are replaced, and
\* answers that go to another socket than the one they belong to, never make the
\* relay do what its specification does not allow, and HELLO always comes first.
THEOREM Refines == Spec => ImplementsRelay
<1> USE RelayAssumption
<1>1. Init => Relay!Init
  BY DEF Init
<1>2. Inv /\ [Next]_vars => [Relay!Next]_(Relay!vars)
  <2> SUFFICES ASSUME Inv, Next
               PROVE  Relay!Next \/ UNCHANGED relayVars
    BY DEF vars, relayVars, Relay!vars
  <2>1. /\ \A c \in Conn : Owner(c) \in Device
        /\ autoincrement \in Nat /\ autoincrement <= MaxSequence
    BY DEF Inv, RelayInv, Conn, Owner
  <2>2. ASSUME NEW c \in Conn, accept(c)
        PROVE  Relay!Next
    BY <2>1, <2>2 DEF accept, Relay!Next
  <2>3. ASSUME NEW c \in Conn, handleAck(c) \/ handleData(c)
        PROVE  Relay!Next
    BY <2>3 DEF handleAck, handleData, Relay!Next
  <2>4. ASSUME NEW c \in Conn, relayReceive(c)
        PROVE  Relay!Next \/ UNCHANGED relayVars
    <3> DEFINE m == Head(up[c])
    <3>1. up[c] # <<>> /\ m \in Asked(autoincrement) /\ Opening(c)
      BY <2>4, HeadTailProperties DEF relayReceive, Inv, ClientInv, HelloFirst
    <3>2. /\ m.type = "HELLO" => m.lastSequence \in 0..MaxSequence
          /\ m.type = "CATCH_UP" => m.fromSequence \in 0..MaxSequence
          /\ m.type = "UPDATE" => m.data \in Relay!Payload
      BY <2>1, <3>1 DEF Asked, Relay!Payload
    <3>3. \/ m.type = "HELLO" /\ Relay!handleHello(c, m.lastSequence)
          \/ m.type = "CATCH_UP" /\ Relay!handleCatchUp(c, m.fromSequence)
          \/ m.type = "UPDATE" /\ Relay!handleUpdate(c, m.data)
          \/ UNCHANGED relayVars
      BY <2>4 DEF relayReceive
    <3>4. m.type # "HELLO" /\ Relay!CanHandle(c) => c \in greeted
      BY <3>1 DEF Opening, Ignored
    <3>5. \A s \in Conn : Len(down[s]) < MaxUnread
      BY <2>4 DEF relayReceive
    <3> HIDE DEF m
    <3>6. CASE m.type = "HELLO" /\ Relay!handleHello(c, m.lastSequence)
      BY <3>2, <3>5, <3>6 DEF Relay!Next, Relay!Hello
    <3>7. CASE m.type = "CATCH_UP" /\ Relay!handleCatchUp(c, m.fromSequence)
      BY <3>2, <3>4, <3>5, <3>7 DEF Relay!Next, Relay!Request, Relay!handleCatchUp
    <3>8. CASE m.type = "UPDATE" /\ Relay!handleUpdate(c, m.data)
      BY <3>2, <3>4, <3>5, <3>8 DEF Relay!Next, Relay!Request, Relay!handleUpdate
    <3> QED
      BY <3>3, <3>6, <3>7, <3>8
  <2>5. ASSUME NEW c \in Conn, relayClose(c)
        PROVE  Relay!Next
    BY <2>5 DEF relayClose, Relay!Next
  <2>6. ASSUME relayRestart
        PROVE  Relay!Next
    BY <2>6 DEF relayRestart, Relay!Next
  <2>7. ASSUME NEW d \in Device,
               \/ broadcast(d) \/ \E c \in Conn : connect(d, c)
               \/ \E e \in Edit : edit(d, e) \/ handleContentChange(d, e)
               \/ \E m \in decrypting[d] : decrypted(d, m) \/ decryptFails(d, m)
               \/ \E data \in encrypting[d] : encrypted(d, data) \/ encryptFails(d, data)
        PROVE  UNCHANGED relayVars
    BY <2>7 DEF broadcast, connect, edit, handleContentChange, decrypted, decryptFails,
                encrypted, encryptFails
  <2>8. ASSUME NEW c \in Conn, handleOpen(c) \/ handleClose(c)
        PROVE  UNCHANGED relayVars
    BY <2>8 DEF handleOpen, handleClose
  <2> QED
    BY <2>2, <2>3, <2>4, <2>5, <2>6, <2>7, <2>8 DEF Next, Progress
<1> QED
  BY <1>1, <1>2, InvHolds, PTL DEF Spec, ImplementsRelay, Relay!Spec

-----------------------------------------------------------------------------
(* When nothing fails.  Neither theorem below is inductive: what a device   *)
(* at rest has, and has handed over, was carried by its sockets and the     *)
(* back end, so the invariant follows each row and each edit on its way.    *)

In(q) == {q[i] : i \in DOMAIN q}

\* No socket is lost: what is sent and received goes over this.ws, which is open.
Sockets ==
  /\ currentSequence = autoincrement
  /\ ~ room => attached = {} /\ autoincrement = 0
  /\ connections = greeted
  /\ \A c \in Conn :
       /\ socket[c] \in {"none", "connecting", "open"}
       /\ readyState[c] = IF c \in attached THEN "open" ELSE "none"
       /\ socket[c] = "open" => c \in attached
       /\ up[c] # <<>> \/ c \in greeted => ws[Owner(c)] = c /\ socket[c] = "open"
       /\ down[c] # <<>> => c \in greeted

\* Before its ACK a device has nothing but HELLOs to say, and claims no row.
Devices ==
  \A d \in Device :
    /\ queue[d] = <<>>
    /\ status[d] = "connected" => ws[d] \in greeted
    /\ status[d] # "connected" =>
         /\ lastSequence[d] = 0 /\ encrypting[d] = {} /\ ~ syncTimer[d]
         /\ \A m \in decrypting[d] : m.type # "HISTORY"
         /\ \A c \in Conn : Owner(c) = d =>
              /\ \A m \in In(up[c]) : m = Hello(0)
              /\ \A m \in In(down[c]) : m.type # "HISTORY"

\* What a device hands over it has; what the relay sends it has stored.
Payloads ==
  /\ \A c \in Conn :
       /\ \A m \in In(up[c]) : m.type = "UPDATE" => m.data \subseteq doc[Owner(c)]
       /\ \A m \in In(down[c]) : m.type # "ACK" => m.data \subseteq Stored
  /\ \A d \in Device : /\ \A data \in encrypting[d] : data \subseteq doc[d]
                       /\ \A m \in decrypting[d] : m.data \subseteq Stored

\* An edit that waits for no other to be handed over is stored, or waits for the timer,
\* for encrypt or for the relay.
Leaving(d, e) ==
  \/ e \in Stored \/ syncTimer[d]
  \/ \E data \in encrypting[d] : e \in data
  \/ \E c \in Conn : Owner(c) = d /\ \E m \in In(up[c]) : m.type = "UPDATE" /\ e \in m.data
HandedOver == \A d \in Device : \A e \in doc[d] \ typed[d] : Leaving(d, e)

\* A row is there, waits for decrypt, is on its way, is asked for, or will be asked
\* for when the first ACK is read.
Coming(c, s) ==
  \/ updates[s] \subseteq doc[Owner(c)]
  \/ \E m \in decrypting[Owner(c)] : updates[s] \subseteq m.data
  \/ \E m \in In(down[c]) : m.type # "ACK" /\ updates[s] \subseteq m.data
  \/ \E m \in In(up[c]) : m.type = "CATCH_UP" /\ m.fromSequence < s
  \/ /\ status[Owner(c)] # "connected"
     /\ \E m \in In(down[c]) : m.type = "ACK"
     /\ \A m \in In(down[c]) : m.type = "ACK" => m.hasHistory /\ s <= m.currentSequence
Complete == OneBatch => \A c \in connections, s \in DOMAIN updates : Coming(c, s)

Calm == Sockets /\ Devices /\ Payloads /\ HandedOver /\ Complete

\* The messages of a queue that is appended to, or read from.
LEMMA Messages ==
  ASSUME NEW T, NEW q \in Seq(T)
  PROVE  /\ In(q) \subseteq T /\ In(<<>>) = {}
         /\ \A m \in T : In(Append(q, m)) = In(q) \cup {m} /\ Append(q, m) # <<>>
         /\ q # <<>> => In(q) = In(Tail(q)) \cup {Head(q)}
<1>1. In(q) \subseteq T /\ In(<<>>) = {}
  BY DEF In
<1>2. ASSUME NEW m \in T
      PROVE  In(Append(q, m)) = In(q) \cup {m} /\ Append(q, m) # <<>>
  <2>1. /\ Len(Append(q, m)) = Len(q) + 1 /\ DOMAIN q = 1..Len(q)
        /\ DOMAIN Append(q, m) = 1..(Len(q) + 1)
        /\ \A i \in 1..Len(q) : Append(q, m)[i] = q[i]
        /\ Append(q, m)[Len(q) + 1] = m /\ Append(q, m) # <<>>
    BY AppendProperties
  <2>2. 1..(Len(q) + 1) = 1..Len(q) \cup {Len(q) + 1}
    OBVIOUS
  <2> QED
    BY <2>1, <2>2 DEF In
<1>3. ASSUME q # <<>>
      PROVE  In(q) = In(Tail(q)) \cup {Head(q)}
  <2>1. /\ Head(q) = q[1] /\ DOMAIN q = 1..Len(q) /\ Len(q) \in Nat \ {0}
        /\ DOMAIN Tail(q) = 1..(Len(q) - 1)
        /\ \A i \in 1..(Len(q) - 1) : Tail(q)[i] = q[i + 1]
    BY <1>3, EmptySeq
  <2>2. ASSUME NEW i \in DOMAIN q
        PROVE  q[i] = Head(q) \/ q[i] \in In(Tail(q))
    <3>1. i = 1 \/ i - 1 \in 1..(Len(q) - 1)
      BY <2>1
    <3>2. i - 1 \in 1..(Len(q) - 1) => Tail(q)[i - 1] = q[i]
      BY <2>1
    <3> QED
      BY <2>1, <3>1, <3>2 DEF In
  <2>3. ASSUME NEW i \in DOMAIN Tail(q)
        PROVE  Tail(q)[i] \in In(q)
    <3>1. i + 1 \in DOMAIN q /\ Tail(q)[i] = q[i + 1]
      BY <2>1
    <3> QED
      BY <3>1 DEF In
  <2>4. Head(q) \in In(q)
    BY <2>1 DEF In
  <2> QED
    BY <2>2, <2>3, <2>4 DEF In
<1> QED
  BY <1>1, <1>2, <1>3

\* What is on its way stays there as long as a step takes no data and no request away.
LEMMA ComingStays ==
  ASSUME NEW c \in Conn, NEW s \in DOMAIN updates, Coming(c, s), updates'[s] = updates[s],
         doc[Owner(c)] \subseteq doc'[Owner(c)],
         decrypting[Owner(c)] \subseteq decrypting'[Owner(c)],
         In(down[c]) \subseteq In(down'[c]),
         \A m \in In(up[c]) : m.type = "CATCH_UP" => m \in In(up'[c]),
         status[Owner(c)] # "connected" =>
           /\ status'[Owner(c)] # "connected"
           /\ \A m \in In(down'[c]) \ In(down[c]) :
                m.type = "ACK" => m.hasHistory /\ s <= m.currentSequence
  PROVE  Coming(c, s)'
BY DEF Coming

\* A step that gives no device something to say before its ACK keeps Devices.
LEMMA DevicesStay ==
  ASSUME Devices,
         \A d \in Device :
           queue'[d] = <<>> /\ (status'[d] = "connected" => ws'[d] \in greeted'),
         \A d \in Device : status'[d] # "connected" =>
           /\ status[d] # "connected" /\ lastSequence'[d] = lastSequence[d]
           /\ encrypting'[d] = encrypting[d] /\ syncTimer'[d] = syncTimer[d]
           /\ \A m \in decrypting'[d] : m \in decrypting[d] \/ m.type # "HISTORY"
           /\ \A c \in Conn : Owner(c) = d =>
                /\ In(up'[c]) \subseteq In(up[c])
                /\ \A m \in In(down'[c]) : m \in In(down[c]) \/ m.type # "HISTORY"
  PROVE  Devices'
<1> SUFFICES ASSUME NEW d \in Device, status'[d] # "connected"
             PROVE  /\ lastSequence'[d] = 0 /\ encrypting'[d] = {} /\ ~ syncTimer'[d]
                    /\ \A m \in decrypting'[d] : m.type # "HISTORY"
                    /\ \A c \in Conn : Owner(c) = d =>
                         /\ \A m \in In(up'[c]) : m = Hello(0)
                         /\ \A m \in In(down'[c]) : m.type # "HISTORY"
  BY DEF Devices, Hello
<1>1. status[d] # "connected"
  OBVIOUS
<1>2. lastSequence'[d] = 0 /\ encrypting'[d] = {} /\ ~ syncTimer'[d]
  BY <1>1 DEF Devices
<1>3. \A m \in decrypting'[d] : m.type # "HISTORY"
  BY <1>1 DEF Devices
<1>4. \A c \in Conn : Owner(c) = d =>
        /\ \A m \in In(up'[c]) : m = Hello(0)
        /\ \A m \in In(down'[c]) : m.type # "HISTORY"
  BY <1>1 DEF Devices
<1> QED
  BY <1>2, <1>3, <1>4

\* A step that takes no edit away, and gives a device nothing to hand over that it
\* does not have, keeps Payloads.
LEMMA PayloadsStay ==
  ASSUME Payloads, Stored' = Stored, down' = down, \A c \in Conn : Owner(c) \in Device,
         \A c \in Conn : \A m \in In(up'[c]) : m \in In(up[c]) \/ m.data \subseteq doc'[Owner(c)],
         \A d \in Device : /\ doc[d] \subseteq doc'[d]
                           /\ encrypting'[d] \subseteq encrypting[d]
                           /\ decrypting'[d] \subseteq decrypting[d]
  PROVE  Payloads'
<1>1. ASSUME NEW c \in Conn
      PROVE  \A m \in In(up'[c]) : m.type = "UPDATE" => m.data \subseteq doc'[Owner(c)]
  <2>1. doc[Owner(c)] \subseteq doc'[Owner(c)]
    OBVIOUS
  <2>2. \A m \in In(up[c]) : m.type = "UPDATE" => m.data \subseteq doc[Owner(c)]
    BY DEF Payloads
  <2> QED
    BY <2>1, <2>2
<1>2. \A c \in Conn : \A m \in In(down'[c]) : m.type # "ACK" => m.data \subseteq Stored'
  BY DEF Payloads
<1>3. ASSUME NEW d \in Device
      PROVE  /\ \A data \in encrypting'[d] : data \subseteq doc'[d]
             /\ \A m \in decrypting'[d] : m.data \subseteq Stored'
  BY DEF Payloads
<1> QED
  BY <1>1, <1>2, <1>3 DEF Payloads

\* What holds in every step that changes neither the relay's storage nor its sockets.
LEMMA Same ==
  ASSUME UNCHANGED relayVars
  PROVE  /\ Stored' = Stored /\ OneBatch' = OneBatch
         /\ UNCHANGED <<updates, autoincrement, room, currentSequence, attached, connections,
                        readyState, greeted, down>>
BY DEF relayVars, Stored, OneBatch

LEMMA NoneNoConn == None \notin Conn
BY NoneAssumption, AttemptsAssumption DEF Conn

\* A device that has something to say, or is connected, has an open socket.
LEMMA OpenSockets ==
  ASSUME Inv, Calm
  PROVE  /\ \A d \in Device : status[d] = "connected" => IsOpen(d) /\ ws[d] \in greeted
         /\ \A c \in Conn : up[c] # <<>> \/ c \in greeted => IsOpen(Owner(c)) /\ ws[Owner(c)] = c
         /\ \A c \in Conn : Owner(c) \in Device
         /\ \A c \in connections : readyState[c] = "open"
<1>1. None \notin Conn /\ \A c \in Conn : Owner(c) \in Device
  BY NoneAssumption, AttemptsAssumption DEF Conn, Owner
<1>2. greeted \subseteq Conn /\ connections = greeted
  BY DEF Inv, RelayInv, Calm, Sockets
<1>3. \A c \in Conn : up[c] # <<>> \/ c \in greeted =>
        ws[Owner(c)] = c /\ socket[c] = "open" /\ readyState[c] = "open"
  BY DEF Calm, Sockets
<1>4. \A d \in Device : status[d] = "connected" => ws[d] \in greeted /\ Owner(ws[d]) = d
  BY <1>1, <1>2 DEF Calm, Devices, Inv, ClientInv
<1> QED
  BY <1>1, <1>2, <1>3, <1>4 DEF IsOpen

\* A device connects: none of its sockets has said anything yet.
LEMMA ConnectIsCalm ==
  ASSUME Inv, Calm, NEW d \in Device, NEW c \in Conn, connect(d, c)
  PROVE  Calm'
<1>1. /\ ~ IsOpen(d) /\ socket' = [socket EXCEPT ![c] = "connecting"]
      /\ ws' = [ws EXCEPT ![d] = c] /\ status' = [status EXCEPT ![d] = "connecting"]
      /\ UNCHANGED <<docVars, up, lastSequence, queue, decrypting, encrypting>>
      /\ UNCHANGED relayVars
  BY DEF connect
<1>2. Owner(c) = d
  <2>1. c # None
    BY NoneAssumption, AttemptsAssumption DEF Conn
  <2> QED
    BY <2>1 DEF connect, Fresh, Owner
<1>3. status[d] # "connected" /\ \A s \in Conn : Owner(s) = d => up[s] = <<>> /\ s \notin greeted
  BY <1>1, OpenSockets
<1>4. /\ \A s \in Conn : s # c => socket'[s] = socket[s]
      /\ \A x \in Device : x # d => ws'[x] = ws[x] /\ status'[x] = status[x]
      /\ socket'[c] = "connecting" /\ status'[d] = "connecting"
  BY <1>1 DEF Inv, ClientInv
<1>5. Sockets'
  BY <1>1, <1>2, <1>3, <1>4, Same, OpenSockets DEF Calm, Sockets
<1>6. Devices'
  <2>1. UNCHANGED <<up, down, greeted, lastSequence, queue, decrypting, encrypting, syncTimer>>
    BY <1>1, Same DEF docVars
  <2>2. \A x \in Device : queue'[x] = <<>> /\ (status'[x] = "connected" => ws'[x] \in greeted')
    <3> SUFFICES ASSUME NEW x \in Device
                 PROVE  queue'[x] = <<>> /\ (status'[x] = "connected" => ws'[x] \in greeted')
      OBVIOUS
    <3>1. queue[x] = <<>> /\ (status[x] = "connected" => ws[x] \in greeted)
      BY DEF Calm, Devices
    <3> QED
      BY <1>4, <2>1, <3>1
  <2>3. \A x \in Device : status'[x] # "connected" => status[x] # "connected"
    BY <1>3, <1>4
  <2> QED
    BY <2>1, <2>2, <2>3, DevicesStay DEF Calm
<1>7. Payloads' /\ HandedOver'
  BY <1>1, Same DEF Calm, Payloads, HandedOver, Leaving, docVars
<1>8. Complete'
  <2>1. \A x \in Device : status'[x] # "connected" <=> status[x] # "connected"
    BY <1>3, <1>4
  <2> QED
    BY <1>1, <2>1, Same, OpenSockets DEF Calm, Complete, Coming, docVars, Inv, RelayInv
<1> QED
  BY <1>5, <1>6, <1>7, <1>8 DEF Calm

\* The relay accepts a socket, and finds the rows its counter was made from.
LEMMA AcceptIsCalm ==
  ASSUME Inv, Calm, NEW c \in Conn, accept(c)
  PROVE  Calm'
<1>1. /\ socket[c] = "connecting" /\ readyState[c] = "none"
      /\ readyState' = [readyState EXCEPT ![c] = "open"] /\ attached' = attached \cup {c}
      /\ room' = TRUE /\ currentSequence' = IF room THEN currentSequence ELSE Relay!MaxSeq
      /\ UNCHANGED <<updates, autoincrement, connections, greeted, down, socket, up, clientVars, docVars>>
  BY DEF accept, Relay!handleConnection, Relay!storageVars
<1>2. autoincrement = 0 => Relay!MaxSeq = 0
  <2>1. autoincrement = 0 => DOMAIN updates = {}
    <3>1. DOMAIN updates \subseteq 1..autoincrement
      BY DEF Inv, RelayInv
    <3>2. 1..0 = {}
      OBVIOUS
    <3> QED
      BY <3>1, <3>2
  <2> QED
    BY <2>1 DEF Relay!MaxSeq, Relay!Sequences
<1>3. Sockets'
  <2>1. currentSequence' = autoincrement
    BY <1>1, <1>2 DEF Calm, Sockets, Inv, RelayInv
  <2>2. /\ readyState'[c] = "open"
        /\ \A s \in Conn : s # c => readyState'[s] = readyState[s]
    BY <1>1 DEF Inv, RelayInv
  <2> QED
    BY <1>1, <2>1, <2>2 DEF Calm, Sockets, clientVars
<1>4. Stored' = Stored /\ OneBatch' = OneBatch
  BY <1>1 DEF Stored, OneBatch
<1>5. Devices' /\ Payloads'
  BY <1>1, <1>4 DEF Calm, Devices, Payloads, clientVars, docVars
<1>6. HandedOver'
  BY <1>1, <1>4 DEF Calm, HandedOver, Leaving, clientVars, docVars
<1>7. Complete'
  BY <1>1, <1>4 DEF Calm, Complete, Coming, clientVars, docVars
<1> QED
  BY <1>3, <1>5, <1>6, <1>7 DEF Calm

\* A socket opens, and HELLO is said on this.ws if that is open by now.
LEMMA OpenIsCalm ==
  ASSUME Inv, Calm, NEW c \in Conn, handleOpen(c)
  PROVE  Calm'
<1> DEFINE d == Owner(c)
           hello == Hello(lastSequence[d])
           to == ws[d]
<1>1. /\ socket[c] = "connecting" /\ readyState[c] # "none"
      /\ socket' = [socket EXCEPT ![c] = "open"]
      /\ up' = IF to # None /\ (to = c \/ socket[to] = "open")
               THEN [up EXCEPT ![to] = Append(up[to], hello)] ELSE up
      /\ UNCHANGED <<clientVars, docVars>> /\ UNCHANGED relayVars
  BY DEF handleOpen
<1>2. /\ d \in Device /\ lastSequence[d] \in 0..autoincrement
      /\ to # None => to \in Conn /\ Owner(to) = d
      /\ hello \in Asked(autoincrement) /\ hello.type = "HELLO"
  BY OpenSockets DEF Inv, ClientInv, Hello, Asked
<1>3. \A s \in Conn : up[s] \in Seq(Asked(autoincrement))
  BY DEF Inv, ClientInv
<1>4. c \in attached /\ socket'[c] = "open" /\ \A s \in Conn : s # c => socket'[s] = socket[s]
  BY <1>1 DEF Calm, Sockets, Inv, ClientInv
<1> HIDE DEF hello
<1>5. \A s \in Conn :
        \/ up'[s] = up[s]
        \/ s = to /\ In(up'[s]) = In(up[s]) \cup {hello} /\ socket'[s] = "open"
  BY <1>1, <1>2, <1>3, <1>4, Messages DEF Inv, ClientInv
<1>6. \A s \in Conn : /\ In(up[s]) \subseteq In(up'[s])
                      /\ \A m \in In(up'[s]) : m \in In(up[s]) \/ (m = hello /\ Owner(s) = d)
  <2> SUFFICES ASSUME NEW s \in Conn
               PROVE  /\ In(up[s]) \subseteq In(up'[s])
                      /\ \A m \in In(up'[s]) : m \in In(up[s]) \/ (m = hello /\ Owner(s) = d)
    OBVIOUS
  <2>1. s = to => Owner(s) = d
    BY <1>2, NoneNoConn
  <2> QED
    BY <1>5, <2>1
<1>7. Sockets'
  <2>1. ASSUME NEW s \in Conn, up'[s] # <<>> \/ s \in greeted
        PROVE  ws[Owner(s)] = s /\ socket'[s] = "open"
    BY <1>2, <1>4, <1>5, <2>1, NoneNoConn DEF Calm, Sockets
  <2> QED
    BY <1>1, <1>4, <2>1, Same DEF Calm, Sockets, clientVars
<1>8. Devices'
  <2>1. status[d] # "connected" => hello = Hello(0)
    BY <1>2 DEF Calm, Devices, hello
  <2> QED
    BY <1>1, <1>6, <2>1, Same DEF Calm, Devices, clientVars, docVars
<1>9. Payloads'
  BY <1>1, <1>2, <1>6, Same DEF Calm, Payloads, clientVars, docVars
<1>10. HandedOver'
  BY <1>1, <1>6, Same DEF Calm, HandedOver, Leaving, clientVars, docVars
<1>11. Complete'
  <2> SUFFICES ASSUME OneBatch, NEW s \in connections, NEW r \in DOMAIN updates
               PROVE  Coming(s, r)'
    BY <1>1, Same DEF Complete
  <2>1. Coming(s, r) /\ s \in Conn
    BY DEF Calm, Complete, Inv, RelayInv
  <2> QED
    BY <1>1, <1>6, <2>1, Same, ComingStays DEF clientVars, docVars
<1> QED
  BY <1>7, <1>8, <1>9, <1>10, <1>11 DEF Calm

\* A device that reads takes the first message off its socket.
LEMMA Reads ==
  ASSUME Inv, Calm, NEW c \in Conn, Relay!read(c)
  PROVE  /\ down[c] # <<>> /\ Head(down[c]) \in Told(autoincrement)
         /\ In(down[c]) = In(down'[c]) \cup {Head(down[c])}
         /\ \A s \in Conn : s # c => down'[s] = down[s]
         /\ Owner(c) \in Device /\ ws[Owner(c)] = c /\ c \in greeted /\ IsOpen(Owner(c))
         /\ Stored' = Stored /\ OneBatch' = OneBatch
         /\ UNCHANGED <<updates, autoincrement, room, currentSequence, attached, connections,
                        readyState, greeted>>
<1>1. down[c] # <<>> /\ down[c] \in Seq(Told(autoincrement)) /\ down' = [down EXCEPT ![c] = Tail(down[c])]
  BY DEF Relay!read, Inv, RelayInv
<1>2. down'[c] = Tail(down[c]) /\ \A s \in Conn : s # c => down'[s] = down[s]
  BY <1>1 DEF Inv, RelayInv
<1>3. UNCHANGED <<updates, autoincrement, room, currentSequence, attached, connections, readyState, greeted>>
  BY DEF Relay!read, Relay!storageVars, Relay!roomVars, Relay!socketVars
<1>4. Head(down[c]) \in Told(autoincrement)
  BY <1>1, HeadTailProperties
<1>5. In(down[c]) = In(down'[c]) \cup {Head(down[c])}
  BY <1>1, <1>2, Messages
<1>6. c \in greeted
  BY <1>1 DEF Calm, Sockets
<1> QED
  BY <1>1, <1>2, <1>3, <1>4, <1>5, <1>6, OpenSockets DEF Stored, OneBatch

\* A device reads its ACK, and asks for what it has no row of.
LEMMA AckIsCalm ==
  ASSUME Inv, Calm, NEW c \in Conn, handleAck(c)
  PROVE  Calm'
<1> DEFINE d == Owner(c)
           ack == Head(down[c])
           asks == ack.hasHistory /\ lastSequence[d] < ack.currentSequence
           request == CatchUp(lastSequence[d])
<1>1. /\ Relay!read(c) /\ ack.type = "ACK" /\ socket[c] = "open"
      /\ status' = [status EXCEPT ![d] = "connected"]
      /\ UNCHANGED <<docVars, socket, ws, decrypting, encrypting>>
  BY DEF handleAck
<1>2. /\ d \in Device /\ ws[d] = c /\ c \in greeted /\ ack \in Told(autoincrement)
      /\ In(down[c]) = In(down'[c]) \cup {ack} /\ \A s \in Conn : s # c => down'[s] = down[s]
      /\ Stored' = Stored /\ OneBatch' = OneBatch
      /\ UNCHANGED <<updates, autoincrement, room, currentSequence, attached, connections,
                     readyState, greeted>>
  BY <1>1, Reads
<1>3. ack.hasHistory \in BOOLEAN /\ ack.currentSequence \in 0..autoincrement
      /\ lastSequence[d] \in 0..autoincrement
  BY <1>1, <1>2 DEF Told, Data, Inv, ClientInv
<1>4. request \in Asked(autoincrement) /\ request.type = "CATCH_UP"
  BY <1>3 DEF CatchUp, Asked
<1>5. /\ \A s \in Conn : s # c => up'[s] = up[s]
      /\ In(up'[c]) = In(up[c]) \cup {m \in {request} : asks}
      /\ queue'[d] = <<>> /\ \A x \in Device : x # d => queue'[x] = queue[x]
  <2>1. up[c] \in Seq(Asked(autoincrement)) /\ queue[d] = <<>>
    BY <1>2 DEF Inv, ClientInv, Calm, Devices
  <2>2. up' = [up EXCEPT ![c] = up[c] \o AfterAck(d, ack)] /\ queue' = [queue EXCEPT ![d] = <<>>]
    BY <1>1, <1>2, Reads DEF handleAck
  <2>3. AfterAck(d, ack) = IF asks THEN <<request>> ELSE <<>>
    <3>1. [i \in DOMAIN queue[d] |-> Update(queue[d][i])] = <<>>
      BY <2>1
    <3>2. <<request>> \o <<>> = <<request>> /\ <<>> \o <<>> = <<>>
      OBVIOUS
    <3> QED
      BY <3>1, <3>2 DEF AfterAck
  <2> HIDE DEF request, asks
  <2>4. up'[c] = IF asks THEN Append(up[c], request) ELSE up[c]
    <3>1. up[c] \o <<request>> = Append(up[c], request) /\ up[c] \o <<>> = up[c]
      BY <1>4, <2>1
    <3>2. up'[c] = up[c] \o AfterAck(d, ack)
      BY <2>2 DEF Inv, ClientInv
    <3> QED
      BY <2>3, <3>1, <3>2
  <2>5. In(Append(up[c], request)) = In(up[c]) \cup {request}
    BY <1>4, <2>1, Messages
  <2> QED
    BY <1>2, <2>2, <2>4, <2>5 DEF Inv, ClientInv
<1> HIDE DEF request, asks
<1>6. /\ \A s \in Conn : In(up[s]) \subseteq In(up'[s]) /\ In(down'[s]) \subseteq In(down[s])
      /\ \A s \in Conn : \A m \in In(up'[s]) : m \in In(up[s]) \/ (m = request /\ s = c)
      /\ \A s \in Conn : \A m \in In(down[s]) : m \in In(down'[s]) \/ (m = ack /\ s = c)
  <2> HIDE DEF ack
  <2> SUFFICES ASSUME NEW s \in Conn
               PROVE  /\ In(up[s]) \subseteq In(up'[s]) /\ In(down'[s]) \subseteq In(down[s])
                      /\ \A m \in In(up'[s]) : m \in In(up[s]) \/ (m = request /\ s = c)
                      /\ \A m \in In(down[s]) : m \in In(down'[s]) \/ (m = ack /\ s = c)
    OBVIOUS
  <2>1. CASE s = c
    BY <1>2, <1>5, <2>1
  <2>2. CASE s # c
    BY <1>2, <1>5, <2>2
  <2> QED
    BY <2>1, <2>2
<1>7. status'[d] = "connected" /\ \A x \in Device : x # d => status'[x] = status[x]
  BY <1>1, <1>2 DEF Inv, ClientInv
<1>8. \A x \in Device : x # d => lastSequence'[x] = lastSequence[x]
  BY DEF handleAck, Inv, ClientInv
<1>9. Sockets'
  BY <1>1, <1>2, <1>5 DEF Calm, Sockets
<1>10. Devices'
  <2>1. \A x \in Device : queue'[x] = <<>> /\ (status'[x] = "connected" => ws'[x] \in greeted')
    <3> SUFFICES ASSUME NEW x \in Device
                 PROVE  queue'[x] = <<>> /\ (status'[x] = "connected" => ws'[x] \in greeted')
      OBVIOUS
    <3>1. CASE x = d
      BY <1>1, <1>2, <1>5, <3>1
    <3>2. CASE x # d
      BY <1>1, <1>2, <1>5, <1>7, <3>2 DEF Calm, Devices
    <3> QED
      BY <3>1, <3>2
  <2>2. ASSUME NEW x \in Device, status'[x] # "connected"
        PROVE  /\ status[x] # "connected" /\ lastSequence'[x] = lastSequence[x]
               /\ encrypting'[x] = encrypting[x] /\ syncTimer'[x] = syncTimer[x]
               /\ decrypting'[x] = decrypting[x]
               /\ \A k \in Conn : Owner(k) = x =>
                    In(up'[k]) \subseteq In(up[k]) /\ In(down'[k]) \subseteq In(down[k])
    <3>1. x # d /\ status[x] # "connected"
      BY <1>7, <2>2
    <3>2. lastSequence'[x] = lastSequence[x] /\ UNCHANGED <<encrypting, syncTimer, decrypting>>
      BY <1>1, <1>8, <3>1 DEF docVars
    <3>3. \A k \in Conn : Owner(k) = x => up'[k] = up[k] /\ down'[k] = down[k]
      BY <1>2, <1>5, <3>1
    <3> QED
      BY <3>1, <3>2, <3>3
  <2> QED
    BY <2>1, <2>2, DevicesStay DEF Calm
<1>11. Payloads'
  BY <1>1, <1>2, <1>4, <1>6 DEF Calm, Payloads, docVars
<1>12. HandedOver'
  BY <1>1, <1>2, <1>6 DEF Calm, HandedOver, Leaving, docVars
<1>13. Complete'
  <2> SUFFICES ASSUME OneBatch, NEW s \in connections, NEW r \in DOMAIN updates
               PROVE  Coming(s, r)'
    BY <1>2 DEF Complete
  <2>1. Coming(s, r) /\ s \in Conn /\ s \in greeted /\ ws[Owner(s)] = s /\ Owner(s) \in Device
    BY OpenSockets DEF Calm, Sockets, Complete, Inv, RelayInv
  <2>2. CASE s # c
    <3>1. Owner(s) # d
      BY <1>2, <2>1, <2>2
    <3> QED
      BY <1>1, <1>2, <1>5, <1>7, <2>1, <2>2, <3>1, ComingStays DEF docVars
  <2>3. CASE s = c /\ status[d] = "connected"
    BY <1>1, <1>2, <1>6, <2>1, <2>3 DEF Coming, docVars
  <2>4. CASE s = c /\ status[d] # "connected"
    <3>1. r \in 1..autoincrement /\ lastSequence[d] = 0
      BY <1>2, <2>4 DEF Inv, RelayInv, Calm, Devices
    <3>2. ASSUME ack.hasHistory, r <= ack.currentSequence
          PROVE  request \in In(up'[c]) /\ request.fromSequence < r
      BY <1>3, <1>5, <3>1, <3>2 DEF asks, request, CatchUp
    <3>3. ack \in In(down[c])
      BY <1>2
    <3> QED
      BY <1>1, <1>2, <1>4, <1>6, <2>1, <2>4, <3>2, <3>3 DEF Coming, docVars
  <2> QED
    BY <2>2, <2>3, <2>4
<1> QED
  BY <1>9, <1>10, <1>11, <1>12, <1>13 DEF Calm

\* A device reads rows, which wait for decrypt then.
LEMMA DataIsCalm ==
  ASSUME Inv, Calm, NEW c \in Conn, handleData(c)
  PROVE  Calm'
<1> DEFINE d == Owner(c)
           m == Head(down[c])
<1>1. /\ Relay!read(c) /\ m.type \in {"UPDATE", "HISTORY"}
      /\ decrypting' = [decrypting EXCEPT ![d] = decrypting[d] \cup {m}]
      /\ UNCHANGED <<docVars, socket, up, ws, status, lastSequence, queue, encrypting>>
  BY DEF handleData
<1>2. /\ d \in Device /\ ws[d] = c /\ c \in greeted /\ m \in Told(autoincrement)
      /\ In(down[c]) = In(down'[c]) \cup {m} /\ \A s \in Conn : s # c => down'[s] = down[s]
      /\ Stored' = Stored /\ OneBatch' = OneBatch
      /\ UNCHANGED <<updates, autoincrement, room, currentSequence, attached, connections,
                     readyState, greeted>>
  BY <1>1, Reads
<1> HIDE DEF m
<1>3. /\ decrypting'[d] = decrypting[d] \cup {m}
      /\ \A x \in Device : x # d => decrypting'[x] = decrypting[x]
  BY <1>1, <1>2 DEF Inv, ClientInv
<1>4. \A s \in Conn : /\ In(down'[s]) \subseteq In(down[s])
                      /\ \A t \in In(down[s]) : t \in In(down'[s]) \/ (t = m /\ s = c)
  <2> SUFFICES ASSUME NEW s \in Conn
               PROVE  /\ In(down'[s]) \subseteq In(down[s])
                      /\ \A t \in In(down[s]) : t \in In(down'[s]) \/ (t = m /\ s = c)
    OBVIOUS
  <2>1. CASE s = c
    BY <1>2, <2>1
  <2>2. CASE s # c
    BY <1>2, <2>2
  <2> QED
    BY <2>1, <2>2
<1>5. Sockets'
  BY <1>1, <1>2 DEF Calm, Sockets
<1>6. Devices'
  <2>1. \A x \in Device : queue'[x] = <<>> /\ (status'[x] = "connected" => ws'[x] \in greeted')
    BY <1>1, <1>2 DEF Calm, Devices
  <2>2. status[d] # "connected" => m.type # "HISTORY"
    BY <1>2 DEF Calm, Devices
  <2>3. ASSUME NEW x \in Device, status'[x] # "connected"
        PROVE  /\ status[x] # "connected"
               /\ \A t \in decrypting'[x] : t \in decrypting[x] \/ t.type # "HISTORY"
    <3>1. status[x] # "connected"
      BY <1>1, <2>3
    <3>2. CASE x = d
      BY <1>3, <2>2, <3>1, <3>2
    <3>3. CASE x # d
      BY <1>3, <3>1, <3>3
    <3> QED
      BY <3>1, <3>2, <3>3
  <2>4. UNCHANGED <<lastSequence, encrypting, syncTimer, up>>
    BY <1>1 DEF docVars
  <2> QED
    BY <1>4, <2>1, <2>3, <2>4, DevicesStay DEF Calm
<1>7. Payloads'
  BY <1>1, <1>2, <1>3, <1>4 DEF Calm, Payloads, docVars
<1>8. HandedOver'
  BY <1>1, <1>2 DEF Calm, HandedOver, Leaving, docVars
<1>9. Complete'
  <2> SUFFICES ASSUME OneBatch, NEW s \in connections, NEW r \in DOMAIN updates
               PROVE  Coming(s, r)'
    BY <1>2 DEF Complete
  <2>1. Coming(s, r) /\ s \in Conn /\ Owner(s) \in Device
    BY OpenSockets DEF Calm, Complete, Inv, RelayInv
  <2>2. decrypting[Owner(s)] \subseteq decrypting'[Owner(s)]
    BY <1>3, <2>1
  <2>3. \A t \in In(down[s]) : t \in In(down'[s]) \/ (t.type # "ACK" /\ t \in decrypting'[Owner(s)])
    <3>1. m.type # "ACK" /\ m \in decrypting'[d]
      BY <1>1, <1>3
    <3> QED
      BY <1>4, <2>1, <3>1
  <2> QED
    BY <1>1, <1>2, <1>4, <2>1, <2>2, <2>3 DEF Coming, docVars
<1> QED
  BY <1>5, <1>6, <1>7, <1>8, <1>9 DEF Calm

\* The steps of the user, the timer and the back end: sockets and the relay stay.
LEMMA WorkIsCalm ==
  ASSUME Inv, Calm, Stable, NEW d \in Device,
         \/ \E e \in Edit : edit(d, e) \/ handleContentChange(d, e)
         \/ broadcast(d)
         \/ \E m \in decrypting[d] : decrypted(d, m)
         \/ \E data \in encrypting[d] : encrypted(d, data)
  PROVE  Calm'
<1>1. UNCHANGED relayVars /\ UNCHANGED <<socket, ws, status>>
  BY DEF edit, handleContentChange, broadcast, decrypted, encrypted, clientVars
<1>2. /\ Stored' = Stored /\ OneBatch' = OneBatch
      /\ UNCHANGED <<updates, autoincrement, room, currentSequence, attached, connections,
                     readyState, greeted, down>>
  BY <1>1, Same
<1>3. \A s \in connections : s \in Conn /\ Owner(s) \in Device
  BY OpenSockets DEF Inv, RelayInv
\* rows and requests on their way stay there
<1>4. ASSUME \A x \in Device : doc[x] \subseteq doc'[x] /\ decrypting[x] \subseteq decrypting'[x],
             \A s \in Conn : In(up[s]) \subseteq In(up'[s])
      PROVE  Complete'
  <2> SUFFICES ASSUME OneBatch, NEW s \in connections, NEW r \in DOMAIN updates
               PROVE  Coming(s, r)'
    BY <1>2 DEF Complete
  <2> QED
    BY <1>1, <1>2, <1>3, <1>4, ComingStays DEF Calm, Complete
<1>5. ASSUME NEW e \in Edit, edit(d, e) \/ handleContentChange(d, e)
      PROVE  Calm'
  <2>1. /\ status[d] = "connected" /\ doc' = [doc EXCEPT ![d] = doc[d] \cup {e}]
        /\ \/ syncTimer' = [syncTimer EXCEPT ![d] = TRUE] /\ UNCHANGED typed
           \/ typed' = [typed EXCEPT ![d] = typed[d] \cup {e}] /\ UNCHANGED syncTimer
        /\ UNCHANGED <<up, lastSequence, queue, decrypting, encrypting>>
    BY <1>5 DEF edit, handleContentChange, New, Stable, Mishap, clientVars
  <2>2. /\ doc'[d] = doc[d] \cup {e} /\ (syncTimer'[d] \/ e \in typed'[d])
        /\ \A x \in Device : /\ x # d => doc'[x] = doc[x] /\ syncTimer'[x] = syncTimer[x]
                             /\ typed[x] \subseteq typed'[x] /\ (syncTimer[x] => syncTimer'[x])
    <3>1. CASE syncTimer' = [syncTimer EXCEPT ![d] = TRUE] /\ UNCHANGED typed
      BY <2>1, <3>1 DEF Inv, ClientInv
    <3>2. CASE typed' = [typed EXCEPT ![d] = typed[d] \cup {e}] /\ UNCHANGED syncTimer
      BY <2>1, <3>2 DEF Inv, ClientInv
    <3> QED
      BY <2>1, <3>1, <3>2
  <2>3. Sockets' /\ Devices' /\ Payloads'
    <3>1. Sockets'
      BY <1>1, <1>2, <2>1 DEF Calm, Sockets
    <3>2. Devices'
      <4>1. \A x \in Device :
              queue'[x] = <<>> /\ (status'[x] = "connected" => ws'[x] \in greeted')
        BY <1>1, <1>2, <2>1 DEF Calm, Devices
      <4>2. \A x \in Device : status'[x] # "connected" =>
              status[x] # "connected" /\ syncTimer'[x] = syncTimer[x]
        BY <1>1, <2>1, <2>2
      <4> QED
        BY <1>2, <2>1, <4>1, <4>2, DevicesStay DEF Calm
    <3>3. \A x \in Device : doc[x] \subseteq doc'[x]
      BY <2>2
    <3>4. \A k \in Conn : Owner(k) \in Device
      BY OpenSockets
    <3>5. Payloads'
      BY <1>2, <2>1, <3>3, <3>4, PayloadsStay DEF Calm
    <3> QED
      BY <3>1, <3>2, <3>5
  <2>4. HandedOver'
    <3> SUFFICES ASSUME NEW x \in Device, NEW f \in doc'[x], f \notin typed'[x]
                 PROVE  Leaving(x, f)'
      BY DEF HandedOver
    <3>1. CASE f \in doc[x]
      <4>1. Leaving(x, f)
        BY <2>2, <3>1 DEF Calm, HandedOver
      <4> QED
        BY <1>2, <2>1, <2>2, <4>1 DEF Leaving
    <3>2. CASE f \notin doc[x]
      BY <2>2, <3>2 DEF Leaving
    <3> QED
      BY <3>1, <3>2
  <2> QED
    BY <1>4, <2>1, <2>2, <2>3, <2>4 DEF Calm
<1>6. ASSUME broadcast(d)
      PROVE  Calm'
  <2>1. /\ status[d] = "connected" /\ syncTimer' = [syncTimer EXCEPT ![d] = FALSE]
        /\ encrypting' = [encrypting EXCEPT ![d] = encrypting[d] \cup {doc[d]}]
        /\ typed' = [typed EXCEPT ![d] = {}]
        /\ UNCHANGED <<doc, up, lastSequence, queue, decrypting>>
    BY <1>6 DEF broadcast, Calm, Devices
  <2>2. /\ encrypting'[d] = encrypting[d] \cup {doc[d]}
        /\ \A x \in Device : x # d => /\ encrypting'[x] = encrypting[x]
                                      /\ syncTimer'[x] = syncTimer[x] /\ typed'[x] = typed[x]
    BY <2>1 DEF Inv, ClientInv
  <2>3. Sockets' /\ Devices' /\ Payloads'
    <3>1. Sockets'
      BY <1>1, <1>2, <2>1 DEF Calm, Sockets
    <3>2. Devices'
      BY <1>1, <1>2, <2>1, <2>2 DEF Calm, Devices
    <3>3. Payloads'
      BY <1>1, <1>2, <2>1, <2>2 DEF Calm, Payloads
    <3> QED
      BY <3>1, <3>2, <3>3
  <2>4. HandedOver'
    BY <1>2, <2>1, <2>2 DEF Calm, HandedOver, Leaving
  <2> QED
    BY <1>4, <2>1, <2>3, <2>4 DEF Calm
<1>7. ASSUME NEW m \in decrypting[d], decrypted(d, m)
      PROVE  Calm'
  <2>1. /\ decrypting' = [decrypting EXCEPT ![d] = decrypting[d] \ {m}]
        /\ doc' = [doc EXCEPT ![d] = doc[d] \cup m.data]
        /\ UNCHANGED <<syncTimer, typed, up, queue, encrypting>>
    BY <1>7 DEF decrypted
  <2>2. /\ decrypting'[d] = decrypting[d] \ {m} /\ doc'[d] = doc[d] \cup m.data
        /\ \A x \in Device : x # d => decrypting'[x] = decrypting[x] /\ doc'[x] = doc[x]
    BY <2>1 DEF Inv, ClientInv
  <2>3. \A x \in Device : status[x] # "connected" => lastSequence'[x] = lastSequence[x]
    <3>1. status[d] # "connected" => m.type # "HISTORY"
      BY DEF Calm, Devices
    <3> QED
      BY <1>7, <3>1 DEF decrypted, Inv, ClientInv
  <2>4. m.data \subseteq Stored
    BY DEF Calm, Payloads
  <2>5. Sockets' /\ Devices'
    <3>1. Sockets'
      BY <1>1, <1>2, <2>1 DEF Calm, Sockets
    <3>2. \A x \in Device :
            queue'[x] = <<>> /\ (status'[x] = "connected" => ws'[x] \in greeted')
      BY <1>1, <1>2, <2>1 DEF Calm, Devices
    <3>3. \A x \in Device : decrypting'[x] \subseteq decrypting[x]
      BY <2>2
    <3>4. Devices'
      BY <1>1, <1>2, <2>1, <2>3, <3>2, <3>3, DevicesStay DEF Calm
    <3> QED
      BY <3>1, <3>4
  <2>6. Payloads'
    <3>1. \A x \in Device : doc[x] \subseteq doc'[x] /\ decrypting'[x] \subseteq decrypting[x]
      BY <2>2
    <3>2. \A k \in Conn : Owner(k) \in Device
      BY OpenSockets
    <3> QED
      BY <1>2, <2>1, <3>1, <3>2, PayloadsStay DEF Calm
  <2>7. HandedOver'
    BY <1>2, <2>1, <2>2, <2>4 DEF Calm, HandedOver, Leaving
  <2>8. Complete'
    <3> SUFFICES ASSUME OneBatch, NEW s \in connections, NEW r \in DOMAIN updates
                 PROVE  Coming(s, r)'
      BY <1>2 DEF Complete
    <3>1. Coming(s, r) /\ s \in Conn /\ Owner(s) \in Device
      BY <1>3 DEF Calm, Complete
    <3>2. CASE updates[r] \subseteq m.data /\ Owner(s) = d
      BY <1>2, <2>2, <3>2 DEF Coming
    <3>3. CASE ~ (updates[r] \subseteq m.data /\ Owner(s) = d)
      BY <1>1, <1>2, <2>1, <2>2, <3>1, <3>3 DEF Coming
    <3> QED
      BY <3>2, <3>3
  <2> QED
    BY <2>5, <2>6, <2>7, <2>8 DEF Calm
<1>8. ASSUME NEW data \in encrypting[d], encrypted(d, data)
      PROVE  Calm'
  <2> DEFINE c == ws[d]
  <2>1. status[d] = "connected" /\ IsOpen(d) /\ c \in greeted /\ c \in Conn /\ Owner(c) = d
    <3>1. status[d] = "connected"
      BY DEF Calm, Devices
    <3> QED
      BY <3>1, OpenSockets DEF Inv, ClientInv, RelayInv, IsOpen
  <2>2. /\ encrypting' = [encrypting EXCEPT ![d] = encrypting[d] \ {data}]
        /\ up' = [up EXCEPT ![c] = Append(up[c], Update(data))]
        /\ UNCHANGED <<docVars, lastSequence, queue, decrypting>>
    BY <1>8, <2>1 DEF encrypted
  <2>3. /\ In(up'[c]) = In(up[c]) \cup {Update(data)}
        /\ \A s \in Conn : s # c => up'[s] = up[s]
    <3>1. up[c] \in Seq(Asked(autoincrement)) /\ Update(data) \in Asked(autoincrement)
      BY <2>1 DEF Inv, ClientInv, Update, Asked
    <3>2. In(Append(up[c], Update(data))) = In(up[c]) \cup {Update(data)}
      BY <3>1, Messages
    <3> QED
      BY <2>1, <2>2, <3>2 DEF Inv, ClientInv
  <2>4. \A s \in Conn : /\ In(up[s]) \subseteq In(up'[s])
                        /\ \A m \in In(up'[s]) : m \in In(up[s]) \/ (m = Update(data) /\ s = c)
    <3> SUFFICES ASSUME NEW s \in Conn
                 PROVE  /\ In(up[s]) \subseteq In(up'[s])
                        /\ \A m \in In(up'[s]) : m \in In(up[s]) \/ (m = Update(data) /\ s = c)
      OBVIOUS
    <3>1. CASE s = c
      BY <2>3, <3>1
    <3>2. CASE s # c
      BY <2>3, <3>2
    <3> QED
      BY <3>1, <3>2
  <2>5. /\ encrypting'[d] = encrypting[d] \ {data}
        /\ \A x \in Device : x # d => encrypting'[x] = encrypting[x]
    BY <2>2 DEF Inv, ClientInv
  <2>6. Update(data).type = "UPDATE" /\ Update(data).data = data
    BY DEF Update
  <2>7. Sockets'
    BY <1>1, <1>2, <2>1, <2>3, OpenSockets DEF Calm, Sockets, IsOpen
  <2>8. Devices'
    BY <1>1, <1>2, <2>1, <2>2, <2>4, <2>5 DEF Calm, Devices, docVars
  <2>9. Payloads'
    <3>1. data \subseteq doc[d] /\ UNCHANGED <<doc, decrypting>>
      BY <2>2 DEF Calm, Payloads, docVars
    <3>2. \A s \in Conn : \A m \in In(up'[s]) :
            m \in In(up[s]) \/ m.data \subseteq doc'[Owner(s)]
      BY <2>1, <2>4, <2>6, <3>1
    <3>3. \A x \in Device : encrypting'[x] \subseteq encrypting[x]
      BY <2>5
    <3>4. \A k \in Conn : Owner(k) \in Device
      BY OpenSockets
    <3> QED
      BY <1>2, <3>1, <3>2, <3>3, <3>4, PayloadsStay DEF Calm
  <2>10. HandedOver'
    <3> SUFFICES ASSUME NEW x \in Device, NEW e \in doc[x] \ typed[x]
                 PROVE  Leaving(x, e)'
      BY <2>2 DEF HandedOver, docVars
    <3>1. Leaving(x, e)
      BY DEF Calm, HandedOver
    <3>2. CASE x = d /\ e \in data
      BY <2>1, <2>3, <2>6, <3>2 DEF Leaving
    <3>3. CASE ~ (x = d /\ e \in data)
      BY <1>2, <2>2, <2>4, <2>5, <3>1, <3>3 DEF Leaving, docVars
    <3> QED
      BY <3>2, <3>3
  <2> QED
    BY <1>4, <2>2, <2>4, <2>7, <2>8, <2>9, <2>10 DEF Calm, docVars
<1> QED
  BY <1>5, <1>6, <1>7, <1>8

\* The relay reads a message: its sender has an open socket, so the room handles it.
LEMMA Received ==
  ASSUME Inv, Calm, NEW c \in Conn, relayReceive(c)
  PROVE  /\ Head(up[c]) \in Asked(autoincrement) /\ In(up[c]) = In(up'[c]) \cup {Head(up[c])}
         /\ \A s \in Conn : s # c => up'[s] = up[s]
         /\ UNCHANGED <<clientVars, docVars, socket>>
         /\ UNCHANGED <<doc, syncTimer, typed, ws, status, lastSequence, queue, decrypting, encrypting>>
         /\ Owner(c) \in Device /\ ws[Owner(c)] = c /\ socket[c] = "open"
         /\ readyState[c] = "open" /\ room
         /\ Head(up[c]).type = "HELLO" => Relay!handleHello(c, Head(up[c]).lastSequence)
         /\ Head(up[c]).type = "CATCH_UP" => Relay!handleCatchUp(c, Head(up[c]).fromSequence)
         /\ Head(up[c]).type = "UPDATE" => Relay!handleUpdate(c, Head(up[c]).data)
<1> DEFINE m == Head(up[c])
<1>1. /\ up[c] # <<>> /\ up' = [up EXCEPT ![c] = Tail(up[c])]
      /\ \/ m.type = "HELLO" /\ Relay!handleHello(c, m.lastSequence)
         \/ m.type = "CATCH_UP" /\ Relay!handleCatchUp(c, m.fromSequence)
         \/ m.type = "UPDATE" /\ Relay!handleUpdate(c, m.data)
         \/ ~ Relay!CanHandle(c) /\ UNCHANGED relayVars
      /\ UNCHANGED <<clientVars, docVars, socket>>
  BY DEF relayReceive
<1>2. /\ Owner(c) \in Device /\ ws[Owner(c)] = c /\ socket[c] = "open"
      /\ readyState[c] = "open" /\ c \in attached /\ room
  BY <1>1, OpenSockets DEF Calm, Sockets
<1>3. Relay!CanHandle(c)
  BY <1>2 DEF Relay!CanHandle
<1>4. up[c] \in Seq(Asked(autoincrement)) /\ up'[c] = Tail(up[c])
      /\ \A s \in Conn : s # c => up'[s] = up[s]
  BY <1>1 DEF Inv, ClientInv
<1>5. In(up[c]) = In(up'[c]) \cup {m} /\ m \in Asked(autoincrement)
  BY <1>1, <1>4, Messages, HeadTailProperties
<1> HIDE DEF m
<1>6. /\ m.type = "HELLO" => Relay!handleHello(c, m.lastSequence)
      /\ m.type = "CATCH_UP" => Relay!handleCatchUp(c, m.fromSequence)
      /\ m.type = "UPDATE" => Relay!handleUpdate(c, m.data)
  BY <1>1, <1>3
<1> QED
  BY <1>1, <1>2, <1>4, <1>5, <1>6 DEF m, clientVars, docVars

\* The relay sends a message: an open socket has it then.
LEMMA Sent ==
  ASSUME Inv, NEW to, NEW m \in Told(autoincrement), Relay!send(to, m), NEW s \in Conn
  PROVE  /\ s \in to /\ readyState[s] = "open" => In(down'[s]) = In(down[s]) \cup {m}
         /\ s \notin to => down'[s] = down[s]
         /\ In(down[s]) \subseteq In(down'[s])
         /\ \A t \in In(down'[s]) : t \in In(down[s]) \/ t = m
<1>1. down[s] \in Seq(Told(autoincrement))
  BY DEF Inv, RelayInv
<1>2. In(Append(down[s], m)) = In(down[s]) \cup {m}
  BY <1>1, Messages
<1>3. down'[s] = IF s \in to /\ readyState[s] = "open" THEN Append(down[s], m) ELSE down[s]
  BY DEF Relay!send
<1> QED
  BY <1>2, <1>3

\* One batch holds every row after a number when it has room for all rows.
LEMMA BatchHasAll ==
  ASSUME Inv, OneBatch, NEW n \in Nat, NEW r \in DOMAIN updates, n < r
  PROVE  r \in Relay!getUpdatesAfter(n)
<1> DEFINE before == {t \in DOMAIN updates : n < t /\ t < r}
<1>1. DOMAIN updates \subseteq 1..autoincrement /\ autoincrement \in Nat
  BY RelayAssumption DEF Inv, RelayInv
<1>2. r \in Nat \ {0} /\ r <= autoincrement /\ before \subseteq 1..(r - 1)
  BY <1>1
<1>3. IsFiniteSet(1..(r - 1)) /\ Cardinality(1..(r - 1)) = r - 1
  <2>1. 1 \in Int /\ r - 1 \in Int /\ (IF 1 > r - 1 THEN 0 ELSE r - 1 - 1 + 1) = r - 1
    BY <1>2
  <2> QED
    BY <2>1, FS_Interval
<1>4. Cardinality(before) \in Nat /\ Cardinality(before) <= r - 1
  BY <1>2, <1>3, FS_Subset, FS_CardinalityType
<1> HIDE DEF before
<1>5. Cardinality(before) < HistoryLimit
  BY <1>1, <1>2, <1>4, RelayAssumption DEF OneBatch
<1> QED
  <2>1. \A S : Relay!Cardinality(S) = Cardinality(S)
    BY DEF Relay!Cardinality, Cardinality
  <2> QED
    BY <1>5, <2>1 DEF before, Relay!getUpdatesAfter, Relay!Sequences

\* HELLO is answered with the number of the last row, and the sender is told of every
\* row from now on.
LEMMA HelloIsCalm ==
  ASSUME Inv, Calm, NEW c \in Conn, relayReceive(c), Head(up[c]).type = "HELLO"
  PROVE  Calm'
<1> DEFINE d == Owner(c)
           m == Head(up[c])
           ack == [type |-> "ACK", currentSequence |-> currentSequence,
                   hasHistory |-> currentSequence > m.lastSequence]
<1>1. /\ In(up[c]) = In(up'[c]) \cup {m} /\ \A s \in Conn : s # c => up'[s] = up[s]
      /\ UNCHANGED <<doc, syncTimer, typed, ws, status, lastSequence, queue, decrypting, encrypting,
                     socket>>
      /\ d \in Device /\ ws[d] = c /\ socket[c] = "open" /\ readyState[c] = "open"
      /\ Relay!handleHello(c, m.lastSequence)
  BY Received
<1>2. /\ connections' = connections \cup {c} /\ greeted' = greeted \cup {c} /\ Relay!send({c}, ack)
      /\ UNCHANGED <<updates, autoincrement, room, currentSequence, attached, readyState>>
  BY <1>1 DEF Relay!handleHello, Relay!storageVars
<1>3. Stored' = Stored /\ OneBatch' = OneBatch
  BY <1>2 DEF Stored, OneBatch
<1>4. currentSequence = autoincrement /\ ack.type = "ACK" /\ ack \in Told(autoincrement)
  BY RelayAssumption DEF Calm, Sockets, Inv, RelayInv, Told
<1>5. ASSUME status[d] # "connected", NEW r \in DOMAIN updates
      PROVE  ack.hasHistory /\ r <= ack.currentSequence
  <2>1. m \in In(up[c])
    BY <1>1
  <2>2. m.lastSequence = 0
    BY <1>1, <1>5, <2>1 DEF Calm, Devices, Hello
  <2>3. r \in 1..autoincrement /\ autoincrement \in Nat
    BY RelayAssumption DEF Inv, RelayInv
  <2>4. r <= currentSequence /\ currentSequence > 0
    BY <1>4, <2>3
  <2> HIDE DEF m
  <2> QED
    BY <2>2, <2>4
<1> HIDE DEF ack, m
<1>6. /\ In(down'[c]) = In(down[c]) \cup {ack}
      /\ \A s \in Conn : s # c => down'[s] = down[s]
  BY <1>1, <1>2, <1>4, Sent
<1>7. /\ \A s \in Conn : \A t \in In(down'[s]) : t \in In(down[s]) \/ t = ack
      /\ \A s \in Conn : In(down[s]) \subseteq In(down'[s])
  BY <1>2, <1>4, Sent
<1>8. /\ m.type = "HELLO"
      /\ \A s \in Conn : In(up'[s]) \subseteq In(up[s])
      /\ \A s \in Conn : \A t \in In(up[s]) : t \in In(up'[s]) \/ t = m
  <2>1. m.type = "HELLO"
    BY DEF m
  <2> QED
    BY <1>1, <2>1
<1>9. Sockets'
  BY <1>1, <1>2, <1>6 DEF Calm, Sockets
<1>10. Devices'
  BY <1>1, <1>2, <1>4, <1>7, <1>8 DEF Calm, Devices
<1>11. Payloads'
  BY <1>1, <1>3, <1>4, <1>7, <1>8 DEF Calm, Payloads
<1>12. HandedOver'
  BY <1>1, <1>3, <1>8 DEF Calm, HandedOver, Leaving
<1>13. Complete'
  <2> SUFFICES ASSUME OneBatch, NEW s \in connections', NEW r \in DOMAIN updates
               PROVE  Coming(s, r)'
    BY <1>2, <1>3 DEF Complete
  <2>1. CASE s \in connections /\ s # c
    BY <1>1, <1>2, <1>6, <2>1, ComingStays DEF Calm, Complete, Inv, RelayInv
  <2>2. CASE s \in connections /\ s = c
    <3>1. Coming(c, r)
      BY <2>2 DEF Calm, Complete
    <3>2. \A t \in In(down'[c]) \ In(down[c]) : t = ack
      BY <1>7
    <3> QED
      BY <1>1, <1>2, <1>5, <1>7, <1>8, <2>2, <3>1, <3>2, ComingStays
  <2>3. CASE s \notin connections
    <3>1. s = c /\ down[c] = <<>> /\ status[d] # "connected"
      BY <1>1, <1>2, <2>3 DEF Calm, Sockets, Devices
    <3>2. In(down'[c]) = {ack}
      <4>1. In(<<>>) = {}
        BY DEF In
      <4> QED
        BY <1>6, <3>1, <4>1
    <3> QED
      BY <1>1, <1>4, <1>5, <3>1, <3>2 DEF Coming
  <2> QED
    BY <2>1, <2>2, <2>3
<1> QED
  BY <1>9, <1>10, <1>11, <1>12, <1>13 DEF Calm

\* CATCH_UP is answered with every row asked for.
LEMMA CatchUpIsCalm ==
  ASSUME Inv, Calm, NEW c \in Conn, relayReceive(c), Head(up[c]).type = "CATCH_UP"
  PROVE  Calm'
<1> DEFINE d == Owner(c)
           m == Head(up[c])
           rows == Relay!getUpdatesAfter(m.fromSequence)
           batch == [type |-> "HISTORY", toSequence |-> Relay!Max(rows),
                     data |-> UNION {updates[s] : s \in rows}]
<1>1. /\ In(up[c]) = In(up'[c]) \cup {m} /\ \A s \in Conn : s # c => up'[s] = up[s]
      /\ UNCHANGED <<doc, syncTimer, typed, ws, status, lastSequence, queue, decrypting, encrypting,
                     socket>>
      /\ d \in Device /\ ws[d] = c /\ socket[c] = "open" /\ readyState[c] = "open"
      /\ Relay!handleCatchUp(c, m.fromSequence) /\ m \in Asked(autoincrement)
  BY Received
<1>2. /\ IF rows = {} THEN down' = down ELSE Relay!send({c}, batch)
      /\ UNCHANGED <<updates, autoincrement, room, currentSequence, attached, connections,
                     readyState, greeted>>
  BY <1>1 DEF Relay!handleCatchUp, Relay!storageVars, Relay!roomVars, Relay!socketVars
<1>3. Stored' = Stored /\ OneBatch' = OneBatch
  BY <1>2 DEF Stored, OneBatch
<1>4. m.type = "CATCH_UP" /\ m.fromSequence \in 0..autoincrement
  BY <1>1 DEF Asked
<1>5. status[d] = "connected" /\ c \in greeted
  <2>1. m \in In(up[c])
    BY <1>1
  <2> HIDE DEF m
  <2>2. status[d] = "connected"
    BY <1>1, <1>4, <2>1 DEF Calm, Devices, Hello
  <2> QED
    BY <1>1, <2>2 DEF Calm, Devices
<1>6. rows # {} => batch \in Told(autoincrement) /\ batch.data \subseteq Stored
  <2>1. rows \in SUBSET DOMAIN updates
    BY DEF Relay!getUpdatesAfter, Relay!Sequences
  <2> HIDE DEF rows
  <2>2. DOMAIN updates \subseteq 1..autoincrement /\ autoincrement \in Nat
    BY RelayAssumption DEF Inv, RelayInv
  <2>3. rows # {} => Relay!Max(rows) \in 0..autoincrement
    <3>1. Relay!Max(rows) = Max(rows)
      BY DEF Relay!Max, Max
    <3>2. rows \in SUBSET Nat /\ rows \subseteq 1..autoincrement
      BY <2>1, <2>2
    <3>3. rows # {} => Max(rows) \in rows
      BY <2>2, <3>2, MaxIsLargest
    <3> QED
      <4>1. rows # {} => Max(rows) \in 1..autoincrement
        BY <3>2, <3>3
      <4>2. 1..autoincrement \subseteq 0..autoincrement
        BY <2>2
      <4> QED
        BY <3>1, <4>1, <4>2
  <2>4. UNION {updates[s] : s \in rows} \subseteq Stored
    BY <2>1 DEF Stored
  <2>5. Stored \subseteq Edit
    BY DEF Stored, Inv, RelayInv
  <2> QED
    BY <2>3, <2>4, <2>5 DEF Told, Data
<1>7. batch.type = "HISTORY" /\ \A s \in rows : updates[s] \subseteq batch.data
  <2> HIDE DEF rows
  <2> QED
    OBVIOUS
<1> HIDE DEF batch, m, rows
<1>8. /\ rows # {} => In(down'[c]) = In(down[c]) \cup {batch}
      /\ \A s \in Conn : s # c => down'[s] = down[s]
      /\ \A s \in Conn : \A t \in In(down'[s]) : t \in In(down[s]) \/ (t = batch /\ s = c /\ rows # {})
      /\ \A s \in Conn : In(down[s]) \subseteq In(down'[s])
  <2>1. CASE rows = {}
    BY <1>2, <2>1
  <2>2. CASE rows # {}
    <3>1. Relay!send({c}, batch) /\ batch \in Told(autoincrement)
      BY <1>2, <1>6, <2>2
    <3>2. \A s \in Conn : s # c => down'[s] = down[s]
      BY <3>1, Sent
    <3>3. In(down'[c]) = In(down[c]) \cup {batch}
      BY <1>1, <3>1, Sent
    <3> QED
      BY <2>2, <3>2, <3>3
  <2> QED
    BY <2>1, <2>2
<1>9. /\ \A s \in Conn : In(up'[s]) \subseteq In(up[s])
      /\ \A s \in Conn : \A t \in In(up[s]) : t \in In(up'[s]) \/ (t = m /\ s = c)
  <2> SUFFICES ASSUME NEW s \in Conn
               PROVE  /\ In(up'[s]) \subseteq In(up[s])
                      /\ \A t \in In(up[s]) : t \in In(up'[s]) \/ (t = m /\ s = c)
    OBVIOUS
  <2>1. CASE s = c
    BY <1>1, <2>1
  <2>2. CASE s # c
    BY <1>1, <2>2
  <2> QED
    BY <2>1, <2>2
<1>10. Sockets'
  BY <1>1, <1>2, <1>5, <1>8 DEF Calm, Sockets
<1>11. Devices'
  <2>1. \A x \in Device : queue'[x] = <<>> /\ (status'[x] = "connected" => ws'[x] \in greeted')
    BY <1>1, <1>2 DEF Calm, Devices
  <2>2. \A x \in Device : status'[x] # "connected" =>
          \A s \in Conn : Owner(s) = x => down'[s] = down[s]
    BY <1>1, <1>5, <1>8
  <2> QED
    BY <1>1, <1>9, <2>1, <2>2, DevicesStay DEF Calm
<1>12. Payloads'
  BY <1>1, <1>3, <1>6, <1>8, <1>9 DEF Calm, Payloads
<1>13. HandedOver'
  BY <1>1, <1>3, <1>4, <1>9 DEF Calm, HandedOver, Leaving
<1>14. Complete'
  <2> SUFFICES ASSUME OneBatch, NEW s \in connections, NEW r \in DOMAIN updates
               PROVE  Coming(s, r)'
    BY <1>2, <1>3 DEF Complete
  <2>1. Coming(s, r) /\ s \in Conn
    BY DEF Calm, Complete, Inv, RelayInv
  <2>2. CASE s # c
    BY <1>1, <1>2, <1>8, <2>1, <2>2, ComingStays
  <2>3. CASE s = c /\ m.fromSequence < r
    <3>1. r \in rows
      <4>1. m.fromSequence \in Nat
        BY <1>4, RelayAssumption DEF Inv, RelayInv
      <4> QED
        BY <2>3, <4>1, BatchHasAll DEF rows
    <3> QED
      BY <1>2, <1>7, <1>8, <2>3, <3>1 DEF Coming
  <2>4. CASE s = c /\ ~ (m.fromSequence < r)
    BY <1>1, <1>2, <1>5, <1>8, <1>9, <2>1, <2>4 DEF Coming
  <2> QED
    BY <2>2, <2>3, <2>4
<1> QED
  BY <1>10, <1>11, <1>12, <1>13, <1>14 DEF Calm

\* An UPDATE becomes a row, which every other session is sent and its sender has.
LEMMA UpdateIsCalm ==
  ASSUME Inv, Calm, NEW c \in Conn, relayReceive(c), Head(up[c]).type = "UPDATE"
  PROVE  Calm'
<1> DEFINE d == Owner(c)
           m == Head(up[c])
           live == [type |-> "UPDATE", data |-> m.data]
           row == autoincrement + 1
<1>1. /\ In(up[c]) = In(up'[c]) \cup {m} /\ \A s \in Conn : s # c => up'[s] = up[s]
      /\ UNCHANGED <<doc, syncTimer, typed, ws, status, lastSequence, queue, decrypting, encrypting,
                     socket>>
      /\ d \in Device /\ ws[d] = c /\ socket[c] = "open" /\ readyState[c] = "open" /\ room
      /\ Relay!handleUpdate(c, m.data) /\ m \in Asked(autoincrement)
  BY Received
<1>2. m.type = "UPDATE" /\ m.data \in SUBSET Edit /\ m \in In(up[c])
  BY <1>1 DEF Asked
<1> HIDE DEF m
<1>3. /\ Relay!send(connections \ {c}, live)
      /\ updates' = Relay!Inserted(updates, m.data)
      /\ autoincrement' = row /\ currentSequence' = currentSequence + 1
      /\ UNCHANGED <<room, attached, connections, readyState, greeted>>
  BY <1>1 DEF Relay!handleUpdate, Relay!storeUpdate, Relay!broadcastExcept, Relay!socketVars
<1>4. live \in Told(autoincrement) /\ live.type = "UPDATE" /\ live.data = m.data
  BY <1>2 DEF Told, Data
<1>5. autoincrement \in Nat /\ row \notin DOMAIN updates /\ DOMAIN updates \subseteq 1..autoincrement
  BY RelayAssumption DEF Inv, RelayInv
<1>6. /\ DOMAIN updates' = DOMAIN updates \cup {row} /\ updates'[row] = m.data
      /\ \A s \in DOMAIN updates : updates'[s] = updates[s]
  BY <1>3, <1>5 DEF Relay!Inserted
<1>7. Stored' = Stored \cup m.data /\ (OneBatch' => OneBatch)
  <2>1. Stored' = Stored \cup m.data
    BY <1>6 DEF Stored
  <2> QED
    BY <1>3, <1>5, <2>1, RelayAssumption DEF OneBatch
<1>8. status[d] = "connected" /\ c \in greeted /\ m.data \subseteq doc[d]
  BY <1>1, <1>2 DEF Calm, Devices, Payloads, Hello
<1> HIDE DEF live, row
<1>9. /\ \A s \in Conn : \A t \in In(down'[s]) : t \in In(down[s]) \/ t = live
      /\ \A s \in Conn : In(down[s]) \subseteq In(down'[s])
      /\ \A s \in Conn : s \notin connections => down'[s] = down[s]
      /\ \A s \in connections : s # c => live \in In(down'[s])
  <2>1. \A s \in connections : s \in Conn /\ readyState[s] = "open"
    BY OpenSockets DEF Inv, RelayInv
  <2> QED
    BY <1>3, <1>4, <2>1, Sent
<1>10. /\ \A s \in Conn : In(up'[s]) \subseteq In(up[s])
       /\ \A s \in Conn : \A t \in In(up[s]) : t \in In(up'[s]) \/ t = m
  BY <1>1
<1>11. Sockets'
  BY <1>1, <1>3, <1>5, <1>8, <1>9 DEF Calm, Sockets, row
<1>12. Devices'
  <2>1. \A x \in Device : queue'[x] = <<>> /\ (status'[x] = "connected" => ws'[x] \in greeted')
    BY <1>1, <1>3 DEF Calm, Devices
  <2>2. \A s \in Conn : \A t \in In(down'[s]) : t \in In(down[s]) \/ t.type # "HISTORY"
    BY <1>4, <1>9
  <2> QED
    BY <1>1, <1>10, <2>1, <2>2, DevicesStay DEF Calm
<1>13. Payloads'
  BY <1>1, <1>4, <1>7, <1>9, <1>10 DEF Calm, Payloads
<1>14. HandedOver'
  BY <1>1, <1>7, <1>10 DEF Calm, HandedOver, Leaving
<1>15. Complete'
  <2> SUFFICES ASSUME OneBatch, NEW s \in connections, NEW r \in DOMAIN updates'
               PROVE  Coming(s, r)'
    BY <1>3, <1>7 DEF Complete
  <2>1. s \in Conn
    BY DEF Inv, RelayInv
  <2>2. CASE r \in DOMAIN updates
    <3>1. Coming(s, r)
      BY <2>2 DEF Calm, Complete
    <3>2. \A t \in In(up[s]) : t.type = "CATCH_UP" => t \in In(up'[s])
      BY <1>2, <1>10, <2>1
    <3> QED
      BY <1>1, <1>4, <1>6, <1>9, <2>1, <2>2, <3>1, <3>2, ComingStays
  <2>3. CASE r = row /\ s = c
    BY <1>1, <1>6, <1>8, <2>3 DEF Coming
  <2>4. CASE r = row /\ s # c
    <3>1. live \in In(down'[s])
      BY <1>9, <2>4
    <3> QED
      BY <1>4, <1>6, <2>4, <3>1 DEF Coming
  <2> QED
    BY <1>6, <2>2, <2>3, <2>4
<1> QED
  BY <1>11, <1>12, <1>13, <1>14, <1>15 DEF Calm

\* Nothing that Stable excludes happens: no socket fails and the relay goes on.
LEMMA NothingFails ==
  ASSUME Calm, Stable, NEW c \in Conn
  PROVE  ~ handleClose(c) /\ ~ relayClose(c) /\ ~ relayRestart
<1>1. socket[c] # "closed" /\ readyState[c] \in {"none", "open"}
  BY DEF Calm, Sockets
<1> QED
  BY <1>1 DEF Stable, Mishap, handleClose, relayClose, relayRestart

\* Calm holds of every behaviour in which nothing fails.
LEMMA CalmHolds == Spec => [](Stable => Calm)
<1>1. Init => Calm
  <2> SUFFICES ASSUME Init PROVE Calm
    OBVIOUS
  <2>1. /\ \A c \in Conn : up[c] = <<>> /\ down[c] = <<>> /\ In(<<>>) = {}
        /\ DOMAIN updates = {}
    BY DEF Init, Relay!Init, Relay!NoRows, In
  <2>2. Sockets /\ Devices
    BY <2>1 DEF Init, Relay!Init, Sockets, Devices
  <2>3. Payloads /\ HandedOver /\ Complete
    BY <2>1 DEF Init, Relay!Init, Payloads, HandedOver, Complete
  <2> QED
    BY <2>2, <2>3 DEF Calm
<1>2. Inv /\ (Stable => Calm) /\ [Next]_vars => (Stable => Calm)'
  <2> SUFFICES ASSUME Inv, Stable => Calm, [Next]_vars, Stable'
               PROVE  Calm'
    OBVIOUS
  <2>1. scenario' = scenario /\ Stable /\ Calm
    BY DEF Next, vars, Stable
  <2>2. CASE UNCHANGED vars
    <3>1. UNCHANGED relayVars /\ UNCHANGED <<clientVars, docVars, socket, up>>
      BY <2>2 DEF vars, relayVars, clientVars, docVars
    <3>2. Sockets' /\ Devices'
      BY <2>1, <3>1, Same DEF Calm, Sockets, Devices, clientVars, docVars
    <3>3. Payloads' /\ HandedOver'
      BY <2>1, <3>1, Same DEF Calm, Payloads, HandedOver, Leaving, clientVars, docVars
    <3>4. Complete'
      BY <2>1, <3>1, Same DEF Calm, Complete, Coming, clientVars, docVars
    <3> QED
      BY <3>2, <3>3, <3>4 DEF Calm
  <2>3. ASSUME NEW d \in Device, NEW c \in Conn, connect(d, c)
        PROVE  Calm'
    BY <2>1, <2>3, ConnectIsCalm
  <2>4. ASSUME NEW c \in Conn, accept(c) \/ handleOpen(c) \/ handleAck(c) \/ handleData(c)
        PROVE  Calm'
    BY <2>1, <2>4, AcceptIsCalm, OpenIsCalm, AckIsCalm, DataIsCalm
  <2>5. ASSUME NEW c \in Conn, relayReceive(c)
        PROVE  Calm'
    <3>1. Head(up[c]).type \in {"HELLO", "CATCH_UP", "UPDATE"}
      BY <2>1, <2>5, Received DEF Asked
    <3> QED
      BY <2>1, <2>5, <3>1, HelloIsCalm, CatchUpIsCalm, UpdateIsCalm
  <2>6. ASSUME NEW d \in Device,
               \/ \E e \in Edit : edit(d, e) \/ handleContentChange(d, e)
               \/ broadcast(d)
               \/ \E m \in decrypting[d] : decrypted(d, m)
               \/ \E data \in encrypting[d] : encrypted(d, data)
        PROVE  Calm'
    BY <2>1, <2>6, WorkIsCalm
  <2>7. \A c \in Conn : ~ handleClose(c) /\ ~ relayClose(c)
    BY <2>1, NothingFails
  <2>8. ~ relayRestart
    BY <2>1 DEF Stable, Mishap, relayRestart
  <2>9. \A d \in Device : /\ \A m \in decrypting[d] : ~ decryptFails(d, m)
                         /\ \A data \in encrypting[d] : ~ encryptFails(d, data)
    BY <2>1 DEF Stable, Mishap, decryptFails, encryptFails
  <2> QED
    BY <2>2, <2>3, <2>4, <2>5, <2>6, <2>7, <2>8, <2>9 DEF Next, Progress
<1> QED
  BY <1>1, <1>2, InvHolds, PTL DEF Spec

\* A connected device at rest has every row of the relay, for any devices, edits and
\* order of messages, when nothing fails and one batch has room for all rows.
THEOREM NobodyMissesARow == Spec => []CaughtUpWhenStable
<1>1. Inv /\ (Stable => Calm) => CaughtUpWhenStable
  <2> SUFFICES ASSUME Inv, Calm, OneBatch, NEW d \in Device, AtRest(d), NEW s \in DOMAIN updates
               PROVE  updates[s] \subseteq doc[d]
    BY DEF CaughtUpWhenStable, CaughtUp, Stored
  <2> DEFINE c == ws[d]
  <2>1. c \in connections /\ c \in Conn /\ Owner(c) = d
    BY NoneNoConn DEF AtRest, Inv, RelayInv, ClientInv
  <2>2. Coming(c, s)
    BY <2>1 DEF Calm, Complete
  <2>3. up[c] = <<>> /\ down[c] = <<>> /\ In(<<>>) = {} /\ decrypting[d] = {}
    BY <2>1 DEF AtRest, In
  <2> HIDE DEF c
  <2> QED
    BY <2>1, <2>2, <2>3 DEF Coming
<1> QED
  BY <1>1, InvHolds, CalmHolds, PTL

\* A connected device at rest has handed every edit it has to the relay, when nothing
\* fails, but for what was typed in bodies since the last export, which schedules none
\* (ObjectDetailView.tsx): no other edit is left behind between the timer, encrypt and
\* the socket, and each export takes along what was typed before it.
THEOREM EditsAreHandedOver == Spec => []Delivered
<1>1. Inv /\ (Stable => Calm) => Delivered
  <2> SUFFICES ASSUME Inv, Calm, NEW d \in Device, AtRest(d), NEW e \in doc[d] \ typed[d]
               PROVE  e \in Stored
    BY DEF Delivered
  <2>1. Leaving(d, e)
    BY DEF Calm, HandedOver
  <2>2. In(<<>>) = {}
    BY DEF In
  <2> QED
    BY <2>1, <2>2 DEF Leaving, AtRest
<1> QED
  BY <1>1, InvHolds, CalmHolds, PTL
=============================================================================
