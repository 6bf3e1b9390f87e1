------------------------- MODULE PeerNetwork_proofs -------------------------
(***************************************************************************)
(* Proofs about PeerNetwork, for any devices, connections, payloads and    *)
(* bounds: its type invariant, that a block outlives restarts, and that a  *)
(* blocked device gets no broadcast but in one way.                        *)
(***************************************************************************)
EXTENDS PeerNetwork, TLAPS

\* only a connection that was dialed has tasks
Opened == \A e \in End : phase[e] # "none" => Used(e[1])

Dialed == [by : Dialers, to : Device, kind : Kind]
Phase == {"none", "handshake", "unchecked", "refused", "checked", "listed",
          "listening", "deaf", "unlisted", "over"}
Sending == [data : Update, left : SUBSET Device, writing : Device \cup {None}]
Loading == [at : {"started", "read", "loaded"}, found : SUBSET Device]
Blocking == {"none", "entered", "known", "unlisted"}
Wires == [End -> Seq(Update \cup {"PING", "PONG"})]

-----------------------------------------------------------------------------
(* The type invariant.                                                      *)

\* What the ends of a used connection are, and what a write, a read and a spent
\* bound leave behind.
LEMMA EndTypes ==
  ASSUME TypeOK
  PROVE  /\ \A c \in Conn : <<c, "dial">> \in End /\ <<c, "accept">> \in End
         /\ \A e \in End : /\ e[1] \in Conn /\ Opposite(e) \in End
                           /\ Opposite(e)[1] = e[1] /\ Opposite(e) # e
                           /\ Used(e[1]) => Me(e) \in Device /\ Peer(e) \in Device
         /\ \A kind \in {"dials", "broadcasts", "pings", "blocks", "registries", "failures"} :
              Spend(kind) => budget' \in Budget
         /\ \A e \in End : wire[e] # <<>> =>
              /\ Head(wire[e]) \in Update \cup {"PING", "PONG"}
              /\ Tail(wire[e]) \in Seq(Update \cup {"PING", "PONG"})
<1>1. \A c \in Conn : <<c, "dial">> \in End /\ <<c, "accept">> \in End
  BY DEF End
<1>2. ASSUME NEW e \in End
      PROVE  /\ e[1] \in Conn /\ Opposite(e) \in End /\ Opposite(e)[1] = e[1]
             /\ Opposite(e) # e
             /\ Used(e[1]) => Me(e) \in Device /\ Peer(e) \in Device
  <2>1. e[1] \in Conn /\ e[2] \in {"dial", "accept"} /\ e = <<e[1], e[2]>>
    BY DEF End
  <2>2. Opposite(e) \in End /\ Opposite(e)[1] = e[1] /\ Opposite(e) # e
    BY <2>1 DEF Opposite, End
  <2>3. ASSUME Used(e[1])
        PROVE  dialed[e[1]].by \in Device /\ dialed[e[1]].to \in Device
    BY <2>1, <2>3, DialerAssumption DEF TypeOK, Used
  <2> QED
    BY <2>1, <2>2, <2>3 DEF Me, Peer
<1>3. ASSUME NEW kind \in {"dials", "broadcasts", "pings", "blocks", "registries", "failures"},
             Spend(kind)
      PROVE  budget' \in Budget
  BY <1>3 DEF TypeOK, Budget, Spend
<1>4. ASSUME NEW e \in End, wire[e] # <<>>
      PROVE  /\ Head(wire[e]) \in Update \cup {"PING", "PONG"}
             /\ Tail(wire[e]) \in Seq(Update \cup {"PING", "PONG"})
  BY <1>4 DEF TypeOK
<1> QED
  BY <1>1, <1>2, <1>3, <1>4

\* Every variable keeps its shape: both ends of a connection enter and leave the
\* tables of the devices it connects, and nothing acts for one never dialed.
THEOREM TypeCorrect == Spec => [](TypeOK /\ Opened)
<1>1. Init => TypeOK /\ Opened
  BY BoundAssumption DEF Init, TypeOK, Opened
<1>2. TypeOK /\ Opened /\ [Next]_vars => TypeOK' /\ Opened'
  <2> SUFFICES ASSUME TypeOK, Opened, [Next]_vars
               PROVE  TypeOK' /\ Opened'
    OBVIOUS
  <2>1. CASE UNCHANGED vars
    BY <2>1 DEF vars, TypeOK, Opened, Used
  \* the dialing end and the handshake
  <2>2. ASSUME NEW c \in Conn, NEW a \in Device, NEW b \in Device, NEW k \in Kind,
               dial(c, a, b, k)
        PROVE  TypeOK' /\ Opened'
    <3>1. budget' \in Budget
      BY <2>2, EndTypes DEF dial
    <3>2. dialed' \in [Conn -> {None} \cup Dialed] /\ link' \in [Conn -> {"none", "up", "down"}]
      BY <2>2 DEF dial, TypeOK, Dialed
    <3>3. phase' \in [End -> Phase]
      BY <2>2 DEF dial, TypeOK, Phase
    <3>4. Opened'
      <4>1. dialed'[c] # None /\ \A n \in Conn \ {c} : dialed'[n] = dialed[n]
        <5>1. [by |-> a, to |-> b, kind |-> k] # None
          BY NoneAssumption
        <5> QED
          BY <2>2, <5>1 DEF dial, TypeOK
      <4> QED
        BY <2>2, <4>1 DEF dial, TypeOK, Opened, Used, End
    <3> QED
      BY <2>2, <3>1, <3>2, <3>3, <3>4 DEF dial, TypeOK, tableVars, blockVars, Dialed, Phase
  <2>3. ASSUME NEW c \in Conn, ConnectionStep(c)
        PROVE  TypeOK' /\ Opened'
    <3>1. <<c, "dial">> \in End /\ <<c, "accept">> \in End
      BY EndTypes
    <3>2. CASE connected(c)
      <4>1. wire' \in Wires
        <5>1. PICK cut \in IF Coalesced THEN 0..Len(wire[<<c, "dial">>]) ELSE {0} :
                wire' = [wire EXCEPT ![<<c, "dial">>] = SubSeq(@, cut + 1, Len(@))]
          BY <3>2 DEF connected
        <5>2. wire[<<c, "dial">>] \in Seq(Update \cup {"PING", "PONG"})
          BY <3>1 DEF TypeOK
        <5>3. cut \in Nat
          BY <5>1, <5>2
        <5>4. SubSeq(wire[<<c, "dial">>], cut + 1, Len(wire[<<c, "dial">>]))
                \in Seq(Update \cup {"PING", "PONG"})
          BY <5>2, <5>3
        <5> QED
          BY <5>1, <5>4 DEF TypeOK, Wires
      <4>2. phase' \in [End -> Phase] /\ Opened'
        BY <3>2 DEF connected, TypeOK, Opened, Phase, Used
      <4> QED
        BY <3>2, <4>1, <4>2 DEF connected, TypeOK, tableVars, blockVars, Wires, Phase
    <3>3. CASE checkDirect(c) \/ notConnected(c)
      <4>1. /\ phase[<<c, "dial">>] # "none"
            /\ \E p \in {"deaf", "checked", "over"} :
                 phase' = [phase EXCEPT ![<<c, "dial">>] = p]
        <5>1. CASE checkDirect(c)
          BY <5>1 DEF checkDirect
        <5>2. CASE notConnected(c)
          BY <5>2 DEF notConnected
        <5> QED
          BY <3>3, <5>1, <5>2
      <4>2. UNCHANGED <<linkVars, tableVars, sending, heard, sent, blockVars, budget>>
        BY <3>3 DEF checkDirect, notConnected
      <4>3. phase' \in [End -> Phase]
        BY <4>1 DEF TypeOK, Phase
      <4>4. Opened'
        BY <4>1, <4>2 DEF TypeOK, Opened, Used, linkVars
      <4> QED
        BY <4>2, <4>3, <4>4 DEF TypeOK, linkVars, tableVars, blockVars, Phase
    <3>4. CASE handshake(c)
      BY <3>4 DEF handshake, TypeOK, Opened, Used, linkVars, tableVars, blockVars
    <3> QED
      BY <2>3, <3>2, <3>3, <3>4 DEF ConnectionStep
  <2>4. ASSUME NEW e \in End, EndStep(e)
        PROVE  TypeOK' /\ Opened'
    <3>1. phase[e] # "none"
      BY <2>4 DEF EndStep, enterPeers, enterStreams, endOfStream, leaveStreams
    <3>2. /\ e[1] \in Conn /\ Me(e) \in Device /\ Peer(e) \in Device
      BY <3>1, EndTypes DEF Opened
    <3>3. CASE enterPeers(e)
      BY <3>2, <3>3 DEF enterPeers, TypeOK, Opened, Used, linkVars, blockVars
    <3>4. CASE enterStreams(e)
      BY <3>2, <3>4 DEF enterStreams, TypeOK, Opened, Used, linkVars, blockVars
    <3>5. CASE endOfStream(e)
      <4>1. connected_peers' \in [Device -> SUBSET Device]
        <5>1. connected_peers[Me(e)] \ {Peer(e)} \in SUBSET Device
          BY <3>2 DEF TypeOK
        <5>2. \/ connected_peers' = connected_peers
              \/ connected_peers' = [connected_peers EXCEPT
                                       ![Me(e)] = connected_peers[Me(e)] \ {Peer(e)}]
          BY <3>5 DEF endOfStream
        <5>3. connected_peers \in [Device -> SUBSET Device]
          BY DEF TypeOK
        <5> QED
          BY <5>1, <5>2, <5>3
      <4>2. phase' \in [End -> Phase] /\ Opened'
        BY <3>1, <3>5 DEF endOfStream, TypeOK, Opened, Used, linkVars, Phase
      <4> QED
        BY <3>5, <4>1, <4>2 DEF endOfStream, TypeOK, linkVars, blockVars, Phase
    <3>6. CASE leaveStreams(e)
      BY <3>2, <3>6 DEF leaveStreams, TypeOK, Opened, Used, linkVars, blockVars
    <3> QED
      BY <2>4, <3>3, <3>4, <3>5, <3>6 DEF EndStep
  <2>5. ASSUME NEW e \in End, read(e)
        PROVE  TypeOK' /\ Opened'
    <3> DEFINE m == Head(wire[e])
    <3>1. /\ m \in Update \cup {"PING", "PONG"}
          /\ Tail(wire[e]) \in Seq(Update \cup {"PING", "PONG"})
          /\ Opposite(e) \in End /\ Opposite(e) # e
      BY <2>5, EndTypes DEF read
    <3>2. wire' \in Wires
      <4>1. \/ wire' = [wire EXCEPT ![e] = Tail(@), ![Opposite(e)] = Append(@, "PONG")]
            \/ wire' = [wire EXCEPT ![e] = Tail(@)]
        BY <2>5 DEF read
      <4>2. Append(wire[Opposite(e)], "PONG") \in Seq(Update \cup {"PING", "PONG"})
        BY <3>1 DEF TypeOK
      <4> HIDE DEF m
      <4> QED
        BY <3>1, <4>1, <4>2 DEF TypeOK, Wires
    <3>3. heard' \in [Device -> SUBSET Update]
      BY <2>5 DEF read, TypeOK
    <3>4. held' \in [Conn -> SUBSET Update]
      BY <2>5 DEF read, TypeOK
    <3> QED
      BY <2>5, <3>2, <3>3, <3>4 DEF read, TypeOK, Opened, Used, tableVars, blockVars, Wires
  <2>6. ASSUME NEW e \in End, ping(e)
        PROVE  TypeOK' /\ Opened'
    <3>1. budget' \in Budget /\ Opposite(e) \in End
      BY <2>6, EndTypes DEF ping
    <3>2. wire' \in Wires
      BY <2>6, <3>1 DEF ping, TypeOK, Wires
    <3> QED
      BY <2>6, <3>1, <3>2 DEF ping, TypeOK, Opened, Used, tableVars, blockVars, Wires
  <2>7. ASSUME NEW c \in Conn, hear(c)
        PROVE  TypeOK' /\ Opened'
    BY <2>7 DEF hear, TypeOK, Opened, Used, tableVars, blockVars
  \* broadcasts
  <2>8. ASSUME NEW d \in Device, NEW u \in Update, broadcast(d, u)
        PROVE  TypeOK' /\ Opened'
    <3>1. budget' \in Budget
      BY <2>8, EndTypes DEF broadcast
    <3>2. sending' \in [Device -> {None} \cup Sending]
      BY <2>8 DEF broadcast, TypeOK, Sending, Streams
    <3> QED
      BY <2>8, <3>1, <3>2
      DEF broadcast, TypeOK, Opened, Used, linkVars, tableVars, blockVars, Sending
  <2>9. ASSUME NEW d \in Device, NEW x \in Device, BroadcastStep(d, x)
        PROVE  TypeOK' /\ Opened'
    <3>1. sending[d] \in Sending
      BY <2>9 DEF BroadcastStep, sendTo, written, TypeOK, Sending
    <3>2. CASE sendTo(d, x)
      <4>1. sending' \in [Device -> {None} \cup Sending]
        <5>1. [sending[d] EXCEPT !.writing = x] \in Sending
          BY <3>1 DEF Sending
        <5>2. sending \in [Device -> {None} \cup Sending]
          BY DEF TypeOK, Sending
        <5>3. sending' = [sending EXCEPT ![d] = [sending[d] EXCEPT !.writing = x]]
          BY <3>2 DEF sendTo
        <5> QED
          BY <5>1, <5>2, <5>3
      <4>2. wire' \in Wires
        <5> DEFINE t == TargetEnd(d, x)
        <5>1. wire' = wire \/ wire' = [wire EXCEPT ![t] = Append(@, sending[d].data)]
          BY <3>2 DEF sendTo
        <5>2. \A e \in End : Append(wire[e], sending[d].data) \in Seq(Update \cup {"PING", "PONG"})
          BY <3>1 DEF TypeOK, Sending
        <5> HIDE DEF t
        <5>3. CASE t \in End
          BY <5>1, <5>2, <5>3 DEF TypeOK, Wires
        <5>4. CASE t \notin End
          BY <5>1, <5>4 DEF TypeOK, Wires
        <5> QED
          BY <5>3, <5>4
      <4> QED
        BY <3>2, <4>1, <4>2
        DEF sendTo, TypeOK, Opened, Used, tableVars, blockVars, Sending, Wires
    <3>3. CASE written(d, x)
      <4>1. [sending[d] EXCEPT !.left = sending[d].left \ {x}, !.writing = None] \in Sending
        BY <3>1 DEF Sending
      <4>2. sending' \in [Device -> {None} \cup Sending]
        <5>1. \/ sending' = [sending EXCEPT ![d] = None]
              \/ sending' = [sending EXCEPT ![d] =
                               [sending[d] EXCEPT !.left = sending[d].left \ {x}, !.writing = None]]
          <6>1. CASE sending[d].left = {x}
            BY <3>3, <6>1 DEF written
          <6>2. CASE sending[d].left # {x}
            BY <3>3, <6>2 DEF written
          <6> QED
            BY <6>1, <6>2
        <5>2. sending \in [Device -> {None} \cup Sending]
          BY DEF TypeOK, Sending
        <5> QED
          BY <4>1, <5>1, <5>2
      <4> QED
        BY <3>3, <4>2 DEF written, TypeOK, Opened, Used, linkVars, tableVars, blockVars, Sending
    <3> QED
      BY <2>9, <3>2, <3>3 DEF BroadcastStep
  \* blocks
  <2>10. ASSUME NEW d \in Device, NEW x \in Device, block(d, x)
         PROVE  TypeOK' /\ Opened'
    <3>1. budget' \in Budget
      BY <2>10, EndTypes DEF block
    <3>2. blocked' \in [Device -> SUBSET Device] /\ overtaken' \subseteq End
      BY <2>10 DEF block, TypeOK
    <3>3. blocking' \in [Device -> [Device -> Blocking]]
      BY <2>10 DEF block, TypeOK, Blocking
    <3>4. storeSaving' \in [Device -> BOOLEAN] /\ forgotten' \in [Device -> BOOLEAN]
      BY <2>10 DEF block, TypeOK
    <3> QED
      BY <2>10, <3>1, <3>2, <3>3, <3>4
      DEF block, TypeOK, Opened, Used, linkVars, tableVars, Blocking
  <2>11. ASSUME NEW d \in Device, NEW x \in Device, blockSave(d, x)
         PROVE  TypeOK' /\ Opened'
    <3>1. /\ unsaved' \in [Device -> BOOLEAN] /\ foreign' \in [Device -> BOOLEAN]
          /\ blocking' \in [Device -> [Device -> Blocking]]
      <4>1. \E p \in Blocking : blocking' = [blocking EXCEPT ![d][x] = p]
        BY <2>11 DEF blockSave, Blocking
      <4>2. \/ UNCHANGED unsaved
            \/ unsaved' = [unsaved EXCEPT ![d] = TRUE]
        BY <2>11 DEF blockSave
      <4>3. \/ UNCHANGED foreign
            \/ \E b \in BOOLEAN : foreign' = [foreign EXCEPT ![d] = b]
        BY <2>11 DEF blockSave
      <4>4. /\ unsaved \in [Device -> BOOLEAN] /\ foreign \in [Device -> BOOLEAN]
            /\ blocking \in [Device -> [Device -> Blocking]]
        BY DEF TypeOK, Blocking
      <4>5. blocking' \in [Device -> [Device -> Blocking]]
        BY <4>1, <4>4
      <4>6. unsaved' \in [Device -> BOOLEAN]
        BY <4>2, <4>4
      <4>7. foreign' \in [Device -> BOOLEAN]
        BY <4>3, <4>4
      <4> QED
        BY <4>5, <4>6, <4>7
    <3>2. budget' \in Budget
      <4>1. Spend("failures") \/ UNCHANGED budget
        BY <2>11 DEF blockSave
      <4> QED
        BY <4>1, EndTypes DEF TypeOK
    <3>3. blocklistFile' \in [Device -> {None} \cup SUBSET Device]
      <4>1. \/ UNCHANGED blocklistFile
            \/ \E list \in {blocked[d], blocklistFile[d], None} :
                 blocklistFile' = [blocklistFile EXCEPT ![d] = list]
        BY <2>11 DEF blockSave
      <4>2. blocked[d] \in SUBSET Device
        BY DEF TypeOK
      <4> QED
        BY <4>1, <4>2 DEF TypeOK
    <3>4. connected_peers' \in [Device -> SUBSET Device]
      <4>1. \/ UNCHANGED connected_peers
            \/ connected_peers' = [connected_peers EXCEPT ![d] = connected_peers[d] \ {x}]
        BY <2>11 DEF blockSave
      <4>2. connected_peers[d] \ {x} \in SUBSET Device
        BY DEF TypeOK
      <4> QED
        BY <4>1, <4>2 DEF TypeOK
    <3> QED
      BY <2>11, <3>1, <3>2, <3>3, <3>4
      DEF blockSave, TypeOK, Opened, Used, linkVars, Blocking
  <2>12. ASSUME NEW d \in Device, NEW x \in Device, blockDone(d, x)
         PROVE  TypeOK' /\ Opened'
    BY <2>12 DEF blockDone, TypeOK, Opened, Used, linkVars
  <2>15. ASSUME NEW d \in Device, FileStep(d)
         PROVE  TypeOK' /\ Opened'
    <3>1. CASE handleSyncUpdate(d)
      <4>1. budget' \in Budget /\ storeSaving' \in [Device -> BOOLEAN]
        BY <3>1, EndTypes DEF handleSyncUpdate, TypeOK
      <4> QED
        BY <3>1, <4>1 DEF handleSyncUpdate, TypeOK, Opened, Used, linkVars, tableVars
    <3>2. CASE saveBlocklist(d)
      <4>1. /\ storeSaving' \in [Device -> BOOLEAN] /\ foreign' \in [Device -> BOOLEAN]
            /\ blocklistFile' \in [Device -> {None} \cup SUBSET Device]
        <5>1. storeSaving' \in [Device -> BOOLEAN]
          BY <3>2 DEF saveBlocklist, TypeOK
        <5>2. foreign' \in [Device -> BOOLEAN]
          BY <3>2 DEF saveBlocklist, TypeOK
        <5>3. blocklistFile' \in [Device -> {None} \cup SUBSET Device]
          <6>1. \/ UNCHANGED blocklistFile
                \/ \E list \in {{}, None} :
                     blocklistFile' = [blocklistFile EXCEPT ![d] = list]
            BY <3>2 DEF saveBlocklist
          <6>2. blocklistFile \in [Device -> {None} \cup SUBSET Device]
            BY DEF TypeOK
          <6> QED
            BY <6>1, <6>2
        <5> QED
          BY <5>1, <5>2, <5>3
      <4> QED
        BY <3>2, <4>1 DEF saveBlocklist, TypeOK, Opened, Used, linkVars, tableVars
    <3>3. CASE loadRead(d)
      <4>1. PICK list \in {None} \cup SUBSET Device :
              /\ loading' = [loading EXCEPT ![d] = IF list = None
                                                   THEN [at |-> "loaded", found |-> {}]
                                                   ELSE [at |-> "read", found |-> list]]
              /\ forgotten' = [forgotten EXCEPT ![d] = @ \/ foreign[d] \/ list # blocklistFile[d]]
        <5>1. blocklistFile[d] \in {None} \cup SUBSET Device
          BY DEF TypeOK
        <5> QED
          BY <3>3, <5>1 DEF loadRead
      <4>2. loading' \in [Device -> Loading]
        <5>1. \/ loading' = [loading EXCEPT ![d] = [at |-> "loaded", found |-> {}]]
              \/ list # None /\ loading' = [loading EXCEPT ![d] = [at |-> "read", found |-> list]]
          BY <4>1
        <5>2. [at |-> "loaded", found |-> {}] \in Loading
          BY DEF Loading
        <5>3. list # None => [at |-> "read", found |-> list] \in Loading
          BY <4>1 DEF Loading
        <5>4. loading \in [Device -> Loading]
          BY DEF TypeOK, Loading
        <5> QED
          BY <5>1, <5>2, <5>3, <5>4
      <4>3. forgotten' \in [Device -> BOOLEAN]
        BY <4>1 DEF TypeOK
      <4> QED
        BY <3>3, <4>2, <4>3 DEF loadRead, TypeOK, Opened, Used, linkVars, tableVars, Loading
    <3>4. CASE loadEnter(d)
      <4>1. blocked' \in [Device -> SUBSET Device] /\ loading' \in [Device -> Loading]
        BY <3>4 DEF loadEnter, TypeOK, Loading
      <4>2. overtaken' \subseteq End
        BY <3>4 DEF loadEnter, TypeOK
      <4> QED
        BY <3>4, <4>1, <4>2 DEF loadEnter, TypeOK, Opened, Used, linkVars, tableVars, Loading
    <3> QED
      BY <2>15, <3>1, <3>2, <3>3, <3>4 DEF FileStep
  \* failures
  <2>13. ASSUME NEW c \in Conn, breakLink(c)
         PROVE  TypeOK' /\ Opened'
    <3>1. budget' \in Budget
      BY <2>13, EndTypes DEF breakLink
    <3>2. wire' \in Wires
      BY <2>13 DEF breakLink, TypeOK, Wires
    <3> QED
      BY <2>13, <3>1, <3>2
      DEF breakLink, TypeOK, Opened, Used, tableVars, blockVars, Wires
  <2>14. ASSUME NEW d \in Device, restart(d)
         PROVE  TypeOK' /\ Opened'
    <3>1. budget' \in Budget
      BY <2>14, EndTypes DEF restart
    <3>2. wire' \in Wires
      BY <2>14 DEF restart, TypeOK, Wires
    <3>3. link' \in [Conn -> {"none", "up", "down"}] /\ held' \in [Conn -> SUBSET Update]
      BY <2>14 DEF restart, TypeOK
    <3>4. phase' \in [End -> Phase] /\ Opened'
      BY <2>14 DEF restart, TypeOK, Opened, Used, Phase
    <3>5. /\ blocked' \in [Device -> SUBSET Device]
          /\ blocking' \in [Device -> [Device -> Blocking]]
      BY <2>14 DEF restart, TypeOK, Blocking
    <3>7. /\ blocklistFile' \in [Device -> {None} \cup SUBSET Device]
          /\ storeSaving' \in [Device -> BOOLEAN] /\ foreign' \in [Device -> BOOLEAN]
          /\ loading' \in [Device -> Loading]
      BY <2>14 DEF restart, TypeOK, Loading
    <3>6. /\ connected_peers' \in [Device -> SUBSET Device]
          /\ peer_streams' \in [Device -> [Device -> Conn \cup {None}]]
          /\ sending' \in [Device -> {None} \cup Sending]
      BY <2>14 DEF restart, TypeOK, Sending
    <3> QED
      BY <2>14, <3>1, <3>2, <3>3, <3>4, <3>5, <3>6, <3>7
      DEF restart, TypeOK, Wires, Phase, Sending, Blocking, Loading
  <2> QED
    BY <2>1, <2>2, <2>3, <2>4, <2>5, <2>6, <2>7, <2>8, <2>9, <2>10, <2>11, <2>12, <2>13,
       <2>14, <2>15
    DEF Next, BlockStep
<1> QED
  BY <1>1, <1>2, PTL DEF Spec

-----------------------------------------------------------------------------
(* A block outlives restarts.                                               *)

\* load finds x
Listed(d, x) == blocklistFile[d] # None /\ x \in blocklistFile[d]

\* BlockSurvives is not inductive: what a restart brings back is on disk.  What is in
\* memory is on disk once its own device_block has gone past the save, as long as
\* nothing came over the file; from there load takes it to memory again.
Recorded(d) ==
  /\ \A x \in Device : blocking[d][x] # "none" => x \in blocked[d] /\ loading[d].at = "loaded"
  /\ \A x \in acknowledged[d] : blocking[d][x] # "entered"
  /\ loading[d].at = "loaded" =>
       /\ acknowledged[d] \subseteq blocked[d]
       /\ ~ foreign[d] => \A x \in blocked[d] : blocking[d][x] # "entered" => Listed(d, x)
  /\ loading[d].at # "loaded" => blocked[d] = {}
  /\ loading[d].at = "started" /\ ~ foreign[d] => \A x \in acknowledged[d] : Listed(d, x)
  /\ loading[d].at = "read" =>
       /\ acknowledged[d] \subseteq loading[d].found
       /\ ~ foreign[d] => /\ loading[d].found = blocklistFile[d]
                          /\ blocklistFile[d] # None

OnDisk == \A d \in Device : ~ unsaved[d] /\ ~ forgotten[d] => Recorded(d)

\* A block that was reported as done outlives every restart, unless the network failed
\* to write its list, load read a file that the store or a kill had written over, or
\* load came after the block (blocklist.rs, DeviceRegistryStore.saveBlocklist):
\* device_block reports only after its save, a device found in the set already had
\* been saved, or is being saved, and every save writes the whole set.
THEOREM BlockOutlivesRestarts == Spec => []BlockSurvives
<1>1. Init => OnDisk
  BY DEF Init, OnDisk, Recorded, Listed
<1>2. TypeOK /\ OnDisk /\ [Next]_vars => OnDisk'
  <2> SUFFICES ASSUME TypeOK, OnDisk, [Next]_vars
               PROVE  OnDisk'
    OBVIOUS
  <2>1. ASSUME UNCHANGED blockVars
        PROVE  OnDisk'
    BY <2>1 DEF OnDisk, Recorded, Listed, blockVars
  \* a step of one device leaves what the others have recorded
  <2>2. ASSUME NEW d \in Device,
               \A y \in Device \ {d} :
                 /\ blocked'[y] = blocked[y] /\ blocklistFile'[y] = blocklistFile[y]
                 /\ loading'[y] = loading[y] /\ blocking'[y] = blocking[y]
                 /\ acknowledged'[y] = acknowledged[y] /\ unsaved'[y] = unsaved[y]
                 /\ foreign'[y] = foreign[y] /\ forgotten'[y] = forgotten[y],
               unsaved[d] => unsaved'[d], forgotten[d] => forgotten'[d],
               ~ unsaved'[d] /\ ~ forgotten'[d] /\ Recorded(d) => Recorded(d)'
        PROVE  OnDisk'
    BY <2>2 DEF OnDisk, Recorded, Listed
  <2>3. ASSUME NEW d \in Device, NEW x \in Device, block(d, x)
        PROVE  OnDisk'
    <3>1. ASSUME ~ forgotten'[d], Recorded(d)
          PROVE  Recorded(d)'
      <4>1. /\ loading[d].at = "loaded" /\ blocked'[d] = blocked[d] \cup {x}
            /\ UNCHANGED <<loading, acknowledged, foreign, blocklistFile>>
        BY <2>3, <3>1 DEF block, TypeOK
      <4>2. /\ \A z \in Device \ {x} : blocking'[d][z] = blocking[d][z]
            /\ blocking'[d][x] = IF x \in blocked[d] THEN "known" ELSE "entered"
            /\ blocking[d][x] = "none"
        BY <2>3 DEF block, TypeOK
      <4>3. blocked[d] \subseteq Device /\ acknowledged[d] \subseteq Device
        BY DEF TypeOK
      <4> QED
        BY <3>1, <4>1, <4>2, <4>3 DEF Recorded, Listed
    <3> QED
      BY <2>2, <2>3, <3>1 DEF block, TypeOK
  <2>4. ASSUME NEW d \in Device, NEW x \in Device, blockSave(d, x)
        PROVE  OnDisk'
    <3>1. /\ UNCHANGED <<blocked, acknowledged, loading, forgotten>>
          /\ blocking[d][x] # "none" /\ blocking'[d][x] # "entered"
          /\ \A z \in Device \ {x} : blocking'[d][z] = blocking[d][z]
      BY <2>4 DEF blockSave, TypeOK
    <3>2. \A y \in Device \ {d} :
            /\ blocklistFile'[y] = blocklistFile[y] /\ blocking'[y] = blocking[y]
            /\ unsaved'[y] = unsaved[y] /\ foreign'[y] = foreign[y]
      BY <2>4 DEF blockSave, TypeOK
    <3>3. unsaved[d] => unsaved'[d]
      BY <2>4 DEF blockSave, TypeOK
    <3>4. ASSUME ~ unsaved'[d]
          PROVE  \/ /\ blocking[d][x] = "known"
                    /\ blocklistFile'[d] = blocklistFile[d] /\ foreign'[d] = foreign[d]
                 \/ foreign'[d] \/ blocklistFile'[d] = blocked[d]
      <4>1. \/ /\ blocking[d][x] = "known"
               /\ UNCHANGED <<blocklistFile, foreign>>
            \/ \E list \in {blocked[d], None} :
                 /\ blocklistFile' = [blocklistFile EXCEPT ![d] = list]
                 /\ foreign' = [foreign EXCEPT ![d] = list = None]
            \/ unsaved' = [unsaved EXCEPT ![d] = TRUE]
        BY <2>4 DEF blockSave
      <4>2. /\ blocklistFile \in [Device -> {None} \cup SUBSET Device]
            /\ foreign \in [Device -> BOOLEAN] /\ unsaved \in [Device -> BOOLEAN]
        BY DEF TypeOK
      <4> QED
        BY <3>4, <4>1, <4>2
    <3>5. ASSUME ~ unsaved'[d], Recorded(d)
          PROVE  Recorded(d)'
      <4>1. /\ blocked[d] \subseteq Device /\ acknowledged[d] \subseteq Device
            /\ blocked[d] # None
        BY NoneAssumption DEF TypeOK
      <4>2. loading[d].at = "loaded" /\ x \in blocked[d]
        BY <3>1, <3>5 DEF Recorded
      <4> QED
        BY <3>1, <3>4, <3>5, <4>1, <4>2 DEF Recorded, Listed
    <3> QED
      BY <2>2, <3>1, <3>2, <3>3, <3>5
  <2>5. ASSUME NEW d \in Device, NEW x \in Device, blockDone(d, x)
        PROVE  OnDisk'
    <3>1. ASSUME Recorded(d)
          PROVE  Recorded(d)'
      BY <2>5, <3>1 DEF blockDone, Recorded, Listed, TypeOK
    <3> QED
      BY <2>2, <2>5, <3>1 DEF blockDone, TypeOK
  <2>6. ASSUME NEW d \in Device, FileStep(d)
        PROVE  OnDisk'
    <3>1. CASE handleSyncUpdate(d)
      BY <3>1 DEF handleSyncUpdate, OnDisk, Recorded, Listed
    <3>2. CASE saveBlocklist(d)
      <4>1. ASSUME Recorded(d)
            PROVE  Recorded(d)'
        BY <3>2, <4>1 DEF saveBlocklist, Recorded, Listed, TypeOK
      <4> QED
        BY <2>2, <3>2, <4>1 DEF saveBlocklist, TypeOK
    <3>3. CASE loadRead(d)
      <4>1. UNCHANGED <<blocked, blocklistFile, blocking, acknowledged, unsaved, foreign>>
        BY <3>3 DEF loadRead
      <4>2. \A y \in Device \ {d} : loading'[y] = loading[y] /\ forgotten'[y] = forgotten[y]
        BY <3>3 DEF loadRead, TypeOK
      <4>3. forgotten[d] => forgotten'[d]
        BY <3>3 DEF loadRead, TypeOK
      <4>4. ASSUME ~ forgotten'[d]
            PROVE  /\ ~ foreign[d] /\ loading[d].at = "started"
                   /\ loading'[d] = IF blocklistFile[d] = None
                                    THEN [at |-> "loaded", found |-> {}]
                                    ELSE [at |-> "read", found |-> blocklistFile[d]]
        <5>1. PICK list :
                /\ loading' = [loading EXCEPT ![d] = IF list = None
                                                     THEN [at |-> "loaded", found |-> {}]
                                                     ELSE [at |-> "read", found |-> list]]
                /\ forgotten' = [forgotten EXCEPT
                                   ![d] = @ \/ foreign[d] \/ list # blocklistFile[d]]
          BY <3>3 DEF loadRead
        <5>2. forgotten'[d] = (forgotten[d] \/ foreign[d] \/ list # blocklistFile[d])
          BY <5>1 DEF TypeOK
        <5>3. ~ foreign[d] /\ list = blocklistFile[d]
          BY <4>4, <5>2 DEF TypeOK
        <5>4. loading'[d] = IF list = None THEN [at |-> "loaded", found |-> {}]
                                           ELSE [at |-> "read", found |-> list]
          BY <5>1 DEF TypeOK
        <5>5. loading[d].at = "started"
          BY <3>3 DEF loadRead
        <5> QED
          BY <5>3, <5>4, <5>5
      <4>5. ASSUME ~ forgotten'[d], Recorded(d)
            PROVE  Recorded(d)'
        <5>1. /\ \A x \in Device : blocking[d][x] = "none"
              /\ blocked[d] = {} /\ \A x \in acknowledged[d] : Listed(d, x)
          BY <4>4, <4>5 DEF Recorded, TypeOK
        <5>2. CASE blocklistFile[d] = None
          <6>1. loading'[d].at = "loaded"
            BY <4>4, <4>5, <5>2
          <6>2. acknowledged[d] = {}
            BY <5>1, <5>2 DEF Listed
          <6> QED
            BY <4>1, <5>1, <6>1, <6>2 DEF Recorded, Listed
        <5>3. CASE blocklistFile[d] # None
          <6>1. loading'[d].at = "read" /\ loading'[d].found = blocklistFile[d]
            BY <4>4, <4>5, <5>3
          <6>2. acknowledged[d] \subseteq blocklistFile[d] /\ acknowledged[d] \subseteq Device
            BY <5>1 DEF Listed, TypeOK
          <6> QED
            BY <4>1, <5>1, <5>3, <6>1, <6>2 DEF Recorded, Listed
        <5> QED
          BY <5>2, <5>3
      <4> QED
        BY <2>2, <4>1, <4>2, <4>3, <4>5
    <3>4. CASE loadEnter(d)
      <4>1. /\ UNCHANGED <<blocklistFile, blocking, acknowledged, unsaved, foreign, forgotten>>
            /\ loading[d].at = "read" /\ loading'[d].at = "loaded"
            /\ blocked'[d] = loading[d].found
            /\ \A y \in Device \ {d} : loading'[y] = loading[y] /\ blocked'[y] = blocked[y]
        BY <3>4 DEF loadEnter, TypeOK
      <4>2. ASSUME Recorded(d)
            PROVE  Recorded(d)'
        <5>1. \A x \in Device : blocking[d][x] = "none"
          BY <4>1, <4>2 DEF Recorded
        <5> QED
          BY <4>1, <4>2, <5>1 DEF Recorded, Listed
      <4> QED
        BY <2>2, <4>1, <4>2
    <3> QED
      BY <2>6, <3>1, <3>2, <3>3, <3>4 DEF FileStep
  <2>7. ASSUME NEW d \in Device, restart(d)
        PROVE  OnDisk'
    <3>1. /\ UNCHANGED <<acknowledged, unsaved, forgotten>>
          /\ blocked'[d] = {} /\ loading'[d].at = "started"
          /\ \A x \in Device : blocking'[d][x] = "none"
          /\ \/ foreign'[d]
             \/ foreign'[d] = foreign[d] /\ blocklistFile'[d] = blocklistFile[d]
      BY <2>7 DEF restart, TypeOK
    <3>2. \A y \in Device \ {d} :
            /\ blocked'[y] = blocked[y] /\ blocklistFile'[y] = blocklistFile[y]
            /\ loading'[y] = loading[y] /\ blocking'[y] = blocking[y] /\ foreign'[y] = foreign[y]
      BY <2>7 DEF restart, TypeOK
    <3>3. ASSUME Recorded(d)
          PROVE  Recorded(d)'
      <4>1. acknowledged[d] \subseteq Device
        BY DEF TypeOK
      <4>2. ASSUME ~ foreign'[d], NEW x \in acknowledged[d]
            PROVE  Listed(d, x)
        <5>1. ~ foreign[d] /\ loading[d].at \in {"started", "read", "loaded"}
          BY <3>1, <4>2 DEF TypeOK
        <5> QED
          BY <3>3, <4>2, <5>1 DEF Recorded, Listed
      <4> QED
        BY <3>1, <4>1, <4>2 DEF Recorded, Listed
    <3> QED
      BY <2>2, <3>1, <3>2, <3>3
  <2>8. ASSUME NEW c \in Conn,
               \/ \E a, b \in Device, k \in Kind : dial(c, a, b, k)
               \/ ConnectionStep(c) \/ hear(c) \/ breakLink(c)
        PROVE  OnDisk'
    BY <2>1, <2>8 DEF dial, ConnectionStep, connected, checkDirect, notConnected, handshake,
                      hear, breakLink
  <2>9. ASSUME NEW e \in End, EndStep(e) \/ read(e) \/ ping(e)
        PROVE  OnDisk'
    BY <2>1, <2>9 DEF EndStep, enterPeers, enterStreams, endOfStream, leaveStreams, read, ping
  <2>10. ASSUME NEW d \in Device,
                \/ \E u \in Update : broadcast(d, u)
                \/ \E x \in Device : BroadcastStep(d, x)
         PROVE  OnDisk'
    BY <2>1, <2>10 DEF broadcast, BroadcastStep, sendTo, written
  <2>11. CASE UNCHANGED vars
    BY <2>1, <2>11 DEF vars, blockVars
  <2> QED
    BY <2>3, <2>4, <2>5, <2>6, <2>7, <2>8, <2>9, <2>10, <2>11 DEF Next, BlockStep
<1>3. OnDisk => BlockSurvives
  BY DEF OnDisk, Recorded, BlockSurvives
<1> QED
  BY <1>1, <1>2, <1>3, TypeCorrect, PTL DEF Spec

-----------------------------------------------------------------------------
(* A blocked device gets no broadcast.                                      *)

\* Whoever enters peer_streams has asked the blocklist: a blocked peer can be in
\* the tables, or on its way to them, only at an end that was overtaken.
Screened ==
  /\ \A e \in overtaken : Used(e[1])
  /\ \A e \in End : Used(e[1]) /\ PastCheck(e) /\ Peer(e) \in blocked[Me(e)]
                        => e \in overtaken
  /\ BlockedGetsNoBroadcast

\* peer_streams holds connections between the two devices
Entered ==
  \A d, x \in Device : peer_streams[d][x] # None =>
    \E e \in End : Used(e[1]) /\ Me(e) = d /\ Peer(e) = x /\ e[1] = peer_streams[d][x]

\* A device whose block was reported gets no broadcast, except on a connection that
\* had passed its own check when the block was entered or read from disk.
THEOREM BlockedIsLeftOut == Spec => []BlockedGetsNoBroadcast
<1>1. Init => Screened /\ Entered
  BY DEF Init, Screened, Entered, BlockedGetsNoBroadcast, Streams, Used, End
<1>2. TypeOK /\ Opened /\ Screened /\ Entered /\ [Next]_vars => Screened' /\ Entered'
  <2> SUFFICES ASSUME TypeOK, Opened, Screened, Entered, [Next]_vars
               PROVE  Screened' /\ Entered'
    OBVIOUS
  \* a step that enters nobody in peer_streams
  <2>14. ASSUME \A d, x \in Device : peer_streams'[d][x] \in {peer_streams[d][x], None},
                \A e \in End : Used(e[1]) => Used(e[1])' /\ Me(e)' = Me(e) /\ Peer(e)' = Peer(e)
         PROVE  Entered'
    BY <2>14 DEF Entered
  \* a step that enters nobody in peer_streams, and lets nobody pass the check who is blocked
  <2>1. ASSUME UNCHANGED <<dialed, blocked, blocking, unsaved, overtaken>>,
               \A e \in End : PastCheck(e)' => PastCheck(e) \/ Peer(e) \notin blocked[Me(e)],
               \A d, x \in Device : peer_streams'[d][x] \in {peer_streams[d][x], None}
        PROVE  Screened' /\ Entered'
    <3>1. ASSUME NEW e \in End
          PROVE  Me(e)' = Me(e) /\ Peer(e)' = Peer(e) /\ Used(e[1])' = Used(e[1])
      BY <2>1 DEF Me, Peer, Used
    <3>2. \A e \in overtaken' : Used(e[1])'
      BY <2>1 DEF Screened, Used
    <3>3. BlockedGetsNoBroadcast'
      BY <2>1 DEF Screened, BlockedGetsNoBroadcast, Streams, Me, Peer
    <3>4. Entered'
      BY <2>1, <2>14, <3>1
    <3> QED
      BY <2>1, <3>1, <3>2, <3>3, <3>4 DEF Screened
  \* the dialing end and the handshake
  <2>2. ASSUME NEW c \in Conn, NEW a \in Device, NEW b \in Device, NEW k \in Kind,
               dial(c, a, b, k)
        PROVE  Screened' /\ Entered'
    <3>1. ~ Used(c) /\ dialed'[c] = [by |-> a, to |-> b, kind |-> k]
      <4>1. c \in Int /\ ~ c < c
        BY BoundAssumption DEF Conn
      <4>2. Used(c) <=> c < c
        BY <2>2 DEF dial
      <4>3. dialed'[c] = [by |-> a, to |-> b, kind |-> k]
        BY <2>2 DEF dial, TypeOK
      <4> QED
        BY <4>1, <4>2, <4>3
    <3>2. \A n \in Conn \ {c} : dialed'[n] = dialed[n]
      BY <2>2 DEF dial, TypeOK
    <3>3. /\ \A e \in End : e[1] # c => phase'[e] = phase[e]
          /\ phase'[<<c, "dial">>] = "handshake" /\ phase'[<<c, "accept">>] = "handshake"
      BY <2>2 DEF dial, TypeOK, End
    <3>4. UNCHANGED <<peer_streams, blocked, blocking, unsaved, overtaken>>
      BY <2>2 DEF dial, tableVars, blockVars
    <3>5. ASSUME NEW e \in End, e[1] # c
          PROVE  /\ Me(e)' = Me(e) /\ Peer(e)' = Peer(e) /\ Used(e[1])' = Used(e[1])
                 /\ PastCheck(e)' = PastCheck(e)
      <4>1. dialed'[e[1]] = dialed[e[1]] /\ phase'[e] = phase[e] /\ Opposite(e)[1] = e[1]
        BY <3>2, <3>3, <3>5, EndTypes
      <4> QED
        BY <4>1 DEF Me, Peer, Used, PastCheck
    <3>6. ASSUME NEW e \in End, e[1] = c, PastCheck(e)'
          PROVE  Peer(e)' \notin blocked'[Me(e)']
      <4>1. e = <<c, "dial">> /\ k # "direct"
        BY <3>1, <3>3, <3>6 DEF PastCheck, End
      <4>2. Me(e)' = a /\ Peer(e)' = b
        BY <3>1, <4>1 DEF Me, Peer, Opposite
      <4> QED
        BY <2>2, <3>4, <4>1, <4>2 DEF dial
    <3>7. \A e \in overtaken : e \in End /\ e[1] # c
      BY <3>1 DEF Screened, TypeOK
    <3>8. BlockedGetsNoBroadcast'
      BY <3>4, <3>5, <3>7 DEF Screened, BlockedGetsNoBroadcast, Streams
    <3>9. Entered'
      <4>1. \A e \in End : Used(e[1]) => e[1] # c
        BY <3>1
      <4> QED
        BY <2>14, <3>4, <3>5, <4>1
    <3> QED
      BY <3>4, <3>5, <3>6, <3>7, <3>8, <3>9 DEF Screened
  <2>3. ASSUME NEW c \in Conn, ConnectionStep(c)
        PROVE  Screened' /\ Entered'
    <3>1. UNCHANGED <<dialed, blocked, blocking, unsaved, overtaken, peer_streams>>
      BY <2>3 DEF ConnectionStep, connected, checkDirect, notConnected, handshake, linkVars,
                  tableVars, blockVars
    <3>2. ASSUME NEW e \in End, PastCheck(e)'
          PROVE  PastCheck(e) \/ Peer(e) \notin blocked[Me(e)]
      <4>1. CASE connected(c)
        <5>1. CASE e = <<c, "dial">>
          BY <3>1, <3>2, <4>1, <5>1 DEF connected, PastCheck, TypeOK
        <5>2. CASE e # <<c, "dial">>
          BY <3>1, <3>2, <4>1, <5>2 DEF connected, PastCheck, TypeOK
        <5> QED
          BY <5>1, <5>2
      <4>4. CASE notConnected(c)
        BY <3>1, <3>2, <4>4 DEF notConnected, PastCheck, TypeOK
      <4>2. CASE checkDirect(c)
        BY <3>1, <3>2, <4>2 DEF checkDirect, PastCheck, TypeOK, Me, Peer, Opposite
      <4>3. CASE handshake(c)
        BY <3>1, <3>2, <4>3 DEF handshake, PastCheck, TypeOK, Me, Peer, Opposite
      <4> QED
        BY <2>3, <4>1, <4>2, <4>3, <4>4 DEF ConnectionStep
    <3> QED
      BY <2>1, <3>1, <3>2
  <2>4. ASSUME NEW e \in End, enterStreams(e)
        PROVE  Screened' /\ Entered'
    <3>1. /\ Used(e[1]) /\ PastCheck(e) /\ Me(e) \in Device /\ Peer(e) \in Device
          /\ UNCHANGED <<dialed, blocked, blocking, unsaved, overtaken>>
      BY <2>4, EndTypes DEF enterStreams, Opened, PastCheck, linkVars, blockVars
    <3>2. /\ peer_streams'[Me(e)][Peer(e)] = e[1]
          /\ \A d, x \in Device :
               <<d, x>> # <<Me(e), Peer(e)>> => peer_streams'[d][x] = peer_streams[d][x]
      BY <2>4, <3>1 DEF enterStreams, TypeOK
    <3>3. ASSUME NEW o \in End
          PROVE  /\ Me(o)' = Me(o) /\ Peer(o)' = Peer(o) /\ Used(o[1])' = Used(o[1])
                 /\ PastCheck(o)' => PastCheck(o)
      BY <2>4, <3>1 DEF enterStreams, Me, Peer, Used, PastCheck, TypeOK
    <3>4. overtaken \subseteq End
      BY DEF TypeOK
    <3>5. BlockedGetsNoBroadcast'
      <4> SUFFICES ASSUME NEW d \in Device, NEW x \in Device,
                          x \in blocked[d], blocking[d][x] = "none", ~ unsaved[d],
                          peer_streams'[d][x] # None
                   PROVE  \E o \in overtaken : Me(o) = d /\ o[1] = peer_streams'[d][x]
        BY <3>1, <3>3, <3>4 DEF BlockedGetsNoBroadcast, Streams
      <4>1. CASE d = Me(e) /\ x = Peer(e)
        BY <3>1, <3>2, <4>1 DEF Screened
      <4>2. CASE <<d, x>> # <<Me(e), Peer(e)>>
        BY <3>2, <4>2 DEF Screened, BlockedGetsNoBroadcast, Streams
      <4> QED
        BY <4>1, <4>2
    <3>6. Entered'
      BY <3>1, <3>2, <3>3 DEF Entered
    <3> QED
      BY <3>1, <3>3, <3>4, <3>5, <3>6 DEF Screened
  <2>5. ASSUME NEW e \in End,
               enterPeers(e) \/ endOfStream(e) \/ leaveStreams(e) \/ read(e) \/ ping(e)
        PROVE  Screened' /\ Entered'
    <3>1. /\ UNCHANGED <<dialed, blocked, blocking, unsaved, overtaken>>
          /\ \A o \in End : PastCheck(o)' => PastCheck(o)
      BY <2>5 DEF enterPeers, endOfStream, leaveStreams, read, ping, linkVars, blockVars,
                  PastCheck, TypeOK
    <3>2. \A d, x \in Device : peer_streams'[d][x] \in {peer_streams[d][x], None}
      <4>1. CASE leaveStreams(e)
        <5>1. Me(e) \in Device /\ Peer(e) \in Device
          BY <4>1, EndTypes DEF leaveStreams, Opened
        <5> QED
          BY <4>1, <5>1 DEF leaveStreams, TypeOK
      <4>2. CASE UNCHANGED peer_streams
        BY <4>2
      <4> QED
        BY <2>5, <4>1, <4>2 DEF enterPeers, endOfStream, read, ping, tableVars
    <3> QED
      BY <2>1, <3>1, <3>2
  \* steps that leave tasks and tables alone
  <2>6. ASSUME UNCHANGED <<dialed, phase, peer_streams, blocked, blocking, unsaved, overtaken>>
        PROVE  Screened' /\ Entered'
    BY <2>1, <2>6 DEF PastCheck
  <2>7. ASSUME NEW c \in Conn, hear(c) \/ breakLink(c)
        PROVE  Screened' /\ Entered'
    BY <2>6, <2>7 DEF hear, breakLink, tableVars, blockVars
  <2>8. ASSUME NEW d \in Device,
               \/ \E u \in Update : broadcast(d, u)
               \/ \E x \in Device : BroadcastStep(d, x)
        PROVE  Screened' /\ Entered'
    BY <2>6, <2>8 DEF broadcast, BroadcastStep, sendTo, written, linkVars, tableVars, blockVars
  \* blocks
  <2>9. ASSUME NEW d \in Device, NEW x \in Device, block(d, x)
        PROVE  Screened' /\ Entered'
    <3>1. /\ UNCHANGED <<dialed, phase, peer_streams, unsaved>>
          /\ blocked'[d] = blocked[d] \cup {x}
          /\ \A y \in Device \ {d} : blocked'[y] = blocked[y]
          /\ blocking'[d][x] # "none"
          /\ \A y, z \in Device : <<y, z>> # <<d, x>> => blocking'[y][z] = blocking[y][z]
      BY <2>9 DEF block, linkVars, tableVars, TypeOK
    <3>2. overtaken' = overtaken \cup
            {e \in End : Used(e[1]) /\ Me(e) = d /\ Peer(e) = x /\ PastCheck(e)}
      BY <2>9 DEF block
    <3>3. ASSUME NEW e \in End
          PROVE  /\ Me(e)' = Me(e) /\ Peer(e)' = Peer(e) /\ Used(e[1])' = Used(e[1])
                 /\ PastCheck(e)' = PastCheck(e)
      BY <3>1 DEF Me, Peer, Used, PastCheck
    <3>4. \A e \in End : Used(e[1]) => Me(e) \in Device /\ Peer(e) \in Device
      BY EndTypes
    <3>5. overtaken \subseteq overtaken' /\ overtaken' \subseteq End
      BY <3>2 DEF TypeOK
    <3>6. BlockedGetsNoBroadcast'
      BY <3>1, <3>3, <3>5 DEF Screened, BlockedGetsNoBroadcast, Streams
    <3>7. ASSUME NEW e \in End, Used(e[1]), PastCheck(e), Peer(e) \in blocked'[Me(e)]
          PROVE  e \in overtaken'
      BY <3>1, <3>2, <3>4, <3>7 DEF Screened
    <3>8. \A e \in overtaken' : Used(e[1])
      BY <3>2 DEF Screened
    <3>9. Entered'
      BY <2>14, <3>1, <3>3
    <3> QED
      BY <3>3, <3>5, <3>6, <3>7, <3>8, <3>9 DEF Screened
  <2>10. ASSUME NEW d \in Device, NEW x \in Device, blockSave(d, x) \/ blockDone(d, x)
         PROVE  Screened' /\ Entered'
    <3>1. UNCHANGED <<dialed, phase, blocked, overtaken>>
      BY <2>10 DEF blockSave, blockDone, linkVars
    <3>2. ASSUME NEW e \in End
          PROVE  /\ Me(e)' = Me(e) /\ Peer(e)' = Peer(e) /\ Used(e[1])' = Used(e[1])
                 /\ PastCheck(e)' = PastCheck(e)
      BY <3>1 DEF Me, Peer, Used, PastCheck
    <3>3. \A y, z \in Device : <<y, z>> # <<d, x>> =>
            blocking'[y][z] = blocking[y][z] /\ peer_streams'[y][z] = peer_streams[y][z]
      BY <2>10 DEF blockSave, blockDone, TypeOK
    <3>4. blocking'[d][x] # "none" \/ unsaved'[d] \/ peer_streams'[d][x] = None
      BY <2>10 DEF blockSave, blockDone, TypeOK
    <3>5. \A y \in Device : unsaved[y] => unsaved'[y]
      BY <2>10 DEF blockSave, blockDone, TypeOK
    <3>6. overtaken \subseteq End
      BY DEF TypeOK
    <3>7. BlockedGetsNoBroadcast'
      BY <3>1, <3>2, <3>3, <3>4, <3>5, <3>6 DEF Screened, BlockedGetsNoBroadcast, Streams
    <3>8. Entered'
      <4>1. \A y, z \in Device : peer_streams'[y][z] \in {peer_streams[y][z], None}
        <5>1. UNCHANGED peer_streams \/ peer_streams' = [peer_streams EXCEPT ![d][x] = None]
          BY <2>10 DEF blockSave, blockDone
        <5>2. peer_streams \in [Device -> [Device -> Conn \cup {None}]]
          BY DEF TypeOK
        <5>3. CASE peer_streams' = [peer_streams EXCEPT ![d][x] = None]
          BY <5>2, <5>3
        <5> QED
          BY <5>1, <5>3
      <4> QED
        BY <2>14, <3>2, <4>1
    <3> QED
      BY <3>1, <3>2, <3>6, <3>7, <3>8 DEF Screened
  \* a restart empties the tables and ends the tasks of the device
  <2>11. ASSUME NEW d \in Device, restart(d)
         PROVE  Screened' /\ Entered'
    <3>1. UNCHANGED <<dialed, unsaved, overtaken>>
      BY <2>11 DEF restart
    <3>2. /\ \A y \in Device \ {d} : /\ blocked'[y] = blocked[y] /\ blocking'[y] = blocking[y]
                                     /\ peer_streams'[y] = peer_streams[y]
          /\ \A x \in Device : peer_streams'[d][x] = None
      BY <2>11 DEF restart, TypeOK
    <3>3. ASSUME NEW e \in End
          PROVE  /\ Me(e)' = Me(e) /\ Peer(e)' = Peer(e) /\ Used(e[1])' = Used(e[1])
                 /\ Used(e[1]) /\ Me(e) = d => ~ PastCheck(e)'
                 /\ Me(e) # d => PastCheck(e)' = PastCheck(e)
      <4>1. Me(e)' = Me(e) /\ Peer(e)' = Peer(e) /\ Used(e[1])' = Used(e[1])
        BY <3>1 DEF Me, Peer, Used
      <4>2. phase'[e] = IF Used(e[1]) /\ Me(e) = d THEN "over" ELSE phase[e]
        BY <2>11 DEF restart, Me, Peer, Opposite, End
      <4> QED
        BY <3>1, <4>1, <4>2 DEF PastCheck
    <3>4. \A e \in End : Used(e[1]) => Me(e) \in Device
      BY EndTypes
    <3>5. overtaken \subseteq End
      BY DEF TypeOK
    <3>6. BlockedGetsNoBroadcast'
      BY <3>1, <3>2, <3>3, <3>5 DEF Screened, BlockedGetsNoBroadcast, Streams
    <3>7. ASSUME NEW e \in End, Used(e[1]), PastCheck(e)', Peer(e) \in blocked'[Me(e)]
          PROVE  e \in overtaken
      BY <3>2, <3>3, <3>4, <3>7 DEF Screened
    <3>8. Entered'
      BY <2>14, <3>2, <3>3
    <3> QED
      BY <3>1, <3>3, <3>5, <3>6, <3>7, <3>8 DEF Screened
  \* load takes whoever is in the tables, or past the check, for overtaken
  <2>13. ASSUME NEW d \in Device, FileStep(d)
         PROVE  Screened' /\ Entered'
    <3>1. CASE handleSyncUpdate(d) \/ saveBlocklist(d) \/ loadRead(d)
      BY <2>6, <3>1 DEF handleSyncUpdate, saveBlocklist, loadRead, linkVars, tableVars
    <3>2. CASE loadEnter(d)
      <4> DEFINE found == loading[d].found
      <4>1. /\ UNCHANGED <<dialed, phase, peer_streams, blocking, unsaved>>
            /\ blocked'[d] = found /\ \A y \in Device \ {d} : blocked'[y] = blocked[y]
        BY <3>2 DEF loadEnter, linkVars, tableVars, TypeOK
      <4>2. overtaken' = overtaken \cup
              {e \in End : /\ Used(e[1]) /\ Me(e) = d /\ Peer(e) \in found
                           /\ PastCheck(e) \/ peer_streams[d][Peer(e)] = e[1]}
        BY <3>2 DEF loadEnter
      <4>3. ASSUME NEW e \in End
            PROVE  /\ Me(e)' = Me(e) /\ Peer(e)' = Peer(e) /\ Used(e[1])' = Used(e[1])
                   /\ PastCheck(e)' = PastCheck(e)
        BY <4>1 DEF Me, Peer, Used, PastCheck
      <4>4. \A e \in End : Used(e[1]) => Me(e) \in Device /\ Peer(e) \in Device
        BY EndTypes
      <4>5. overtaken \subseteq overtaken' /\ overtaken' \subseteq End
        BY <4>2 DEF TypeOK
      <4> HIDE DEF found
      <4>6. BlockedGetsNoBroadcast'
        <5> SUFFICES ASSUME NEW y \in Device, NEW x \in Device, x \in blocked'[y],
                            blocking[y][x] = "none", ~ unsaved[y], peer_streams[y][x] # None
                     PROVE  \E e \in overtaken' : Me(e) = y /\ e[1] = peer_streams[y][x]
          BY <4>1, <4>3, <4>5 DEF BlockedGetsNoBroadcast, Streams
        <5>1. CASE y = d
          <6>1. PICK e \in End : /\ Used(e[1]) /\ Me(e) = d /\ Peer(e) = x
                                 /\ e[1] = peer_streams[d][x]
            BY <5>1 DEF Entered
          <6> QED
            BY <4>1, <4>2, <5>1, <6>1
        <5>2. CASE y # d
          <6>1. x \in blocked[y]
            BY <4>1, <5>2
          <6> QED
            BY <4>5, <6>1 DEF Screened, BlockedGetsNoBroadcast, Streams
        <5> QED
          BY <5>1, <5>2
      <4>7. ASSUME NEW e \in End, Used(e[1]), PastCheck(e), Peer(e) \in blocked'[Me(e)]
            PROVE  e \in overtaken'
        BY <4>1, <4>2, <4>4, <4>7 DEF Screened
      <4>8. \A e \in overtaken' : Used(e[1])
        BY <4>2 DEF Screened
      <4>9. Entered'
        BY <2>14, <4>1, <4>3
      <4> QED
        BY <4>3, <4>5, <4>6, <4>7, <4>8, <4>9 DEF Screened
    <3> QED
      BY <2>13, <3>1, <3>2 DEF FileStep
  <2>12. CASE UNCHANGED vars
    BY <2>6, <2>12 DEF vars
  <2> QED
    BY <2>2, <2>3, <2>4, <2>5, <2>7, <2>8, <2>9, <2>10, <2>11, <2>12, <2>13
    DEF Next, EndStep, BlockStep
<1>3. Screened => BlockedGetsNoBroadcast
  BY DEF Screened
<1> QED
  BY <1>1, <1>2, <1>3, TypeCorrect, PTL DEF Spec
=============================================================================
