------------------------ MODULE DeviceRegistry_proofs ------------------------
(***************************************************************************)
(* Proofs about DeviceRegistry, for any devices and bounds: its type       *)
(* invariant, that revocations stay, and that shared registries stay       *)
(* together.                                                               *)
(***************************************************************************)
EXTENDS DeviceRegistry, TLAPS, FiniteSetTheorems, Extremes

Sound ==
  {g \in Registry :
     /\ IsFiniteSet(g.born) /\ g.born # {}
     /\ \A p \in g.devices \cup g.revocations : p[1] \in g.born}
Doc == Sound \cup {Broken}
Message ==
  [kind : {"update"}, from : Device, doc : Doc]
    \cup [kind : {"revoke"}, of : Device, by : Device]
    \cup [kind : {"rename"}, of : Device]

\* Documents on their way and in files are sound too, and nothing is verified on behalf
\* of an application that is down.
DocShape ==
  /\ registry \in [Device -> Doc]
  /\ registryFile \in [Device -> Doc \cup {None}]
  /\ births \subseteq Birth
  /\ saveTimer \in [Device -> BOOLEAN] /\ broadcastTimer \in [Device -> BOOLEAN]
BlockShape ==
  /\ localBlocklist \in [Device -> SUBSET Device] /\ blocked \in [Device -> SUBSET Device]
  /\ blockSaved \in [Device -> SUBSET Device]
  /\ blocklistFile \in
       [Device -> [by : {"nobody", "store", "network", "torn"}, ids : SUBSET Device]]
  /\ storeWrites \in [Device -> BOOLEAN]
  /\ networkWrites \in [Device -> SUBSET {"own", "other"}]
ConnShape ==
  /\ running \subseteq Device /\ online \subseteq running /\ barred \subseteq Device
  /\ online \cap barred = {}
  /\ links \subseteq running \X running
  /\ \A l \in links : l[1] # l[2]
TaskShape ==
  /\ revoking \in [Device -> {None} \cup {"sign", "block"} \X Device]
  /\ verifying \in [Device -> SUBSET Device]
  /\ mail \in [Device -> SUBSET Message]
  /\ emptySent \in BOOLEAN
Resting ==
  \A d \in Device : d \notin running =>
    /\ ~ saveTimer[d] /\ ~ broadcastTimer[d] /\ ~ storeWrites[d] /\ networkWrites[d] = {}
    /\ mail[d] = {} /\ revoking[d] = None /\ verifying[d] = {}
Shape == DocShape /\ BlockShape /\ ConnShape /\ TaskShape /\ Resting

\* While no empty registry was sent, a registry that shows no devices shows no
\* revocations, in memory or in a file, and nothing is about to revoke in it.
Quiet ==
  ~ emptySent =>
    \A d \in Device :
      /\ isEmpty(registry[d]) => getAllRevocations(registry[d]) = {}
      /\ registryFile[d] # None /\ isEmpty(registryFile[d])
           => getAllRevocations(registryFile[d]) = {}
      /\ revoking[d] # None \/ verifying[d] # {} => registry[d] = Broken \/ ~ isEmpty(registry[d])
      /\ \A m \in mail[d] : m.kind = "update" => ~ isEmpty(m.doc)

-----------------------------------------------------------------------------
(* Documents.                                                               *)

\* What each change makes of a sound document, and which containers it shows.
LEMMA Documents ==
  /\ \A b \in Birth : initializeStructure(b) \in Sound /\ Shown(initializeStructure(b)) = b
  /\ \A g \in Sound : Shown(g) \in g.born /\ g # Broken /\ g # None
  /\ \A g \in Sound, d \in Device :
       /\ registerDevice(g, d) \in Sound /\ addRevocation(g, d) \in Sound
       /\ Shown(registerDevice(g, d)) = Shown(g) /\ Shown(addRevocation(g, d)) = Shown(g)
  /\ \A g, h \in Sound : import(g, h) \in Sound /\ Shown(import(g, h)) \in {Shown(g), Shown(h)}
  /\ \A b \in Birth : getAllRevocations(initializeStructure(b)) = {}
  /\ getAllDevices(Broken) = {} /\ getAllRevocations(Broken) = {}
  /\ \A g \in Sound, d \in Device :
       /\ ~ isEmpty(registerDevice(g, d))
       /\ getAllRevocations(registerDevice(g, d)) = getAllRevocations(g)
       /\ isEmpty(addRevocation(g, d)) = isEmpty(g)
       /\ getAllRevocations(g) \subseteq getAllRevocations(addRevocation(g, d))
  /\ \A g, h \in Sound :
       /\ ~ isEmpty(g) /\ ~ isEmpty(h) => ~ isEmpty(import(g, h))
       /\ Shown(import(g, h)) = Shown(g)
            => getAllRevocations(g) \subseteq getAllRevocations(import(g, h))
<1> USE BirthAssumption, DocAssumption
<1>1. ASSUME NEW B \in SUBSET Birth, B # {}, IsFiniteSet(B)
      PROVE  Max(B) \in B /\ \A b \in B : b <= Max(B)
  BY <1>1, MaxIsLargest
<1>2. ASSUME NEW b \in Birth
      PROVE  initializeStructure(b) \in Sound /\ Shown(initializeStructure(b)) = b
  <2>1. initializeStructure(b) \in Sound
    BY FS_Singleton DEF initializeStructure, Sound, Registry
  <2>2. {b} \in SUBSET Birth /\ {b} # {} /\ IsFiniteSet({b})
    BY FS_Singleton
  <2>3. Max({b}) = b
    BY <1>1, <2>2
  <2> QED
    BY <2>1, <2>3 DEF Shown, initializeStructure
<1>3. ASSUME NEW g \in Sound
      PROVE  /\ Shown(g) \in g.born /\ \A b \in g.born : b <= Shown(g)
             /\ g.born \subseteq Birth /\ g # Broken /\ g # None
  <2>1. g \in Registry /\ g.born \in SUBSET Birth /\ g.born # {} /\ IsFiniteSet(g.born)
    BY DEF Sound, Registry
  <2> QED
    BY <1>1, <2>1 DEF Shown
<1>4. ASSUME NEW g \in Sound, NEW d \in Device
      PROVE  /\ registerDevice(g, d) \in Sound /\ addRevocation(g, d) \in Sound
             /\ Shown(registerDevice(g, d)) = Shown(g) /\ Shown(addRevocation(g, d)) = Shown(g)
             /\ ~ isEmpty(registerDevice(g, d))
             /\ getAllRevocations(registerDevice(g, d)) = getAllRevocations(g)
             /\ isEmpty(addRevocation(g, d)) = isEmpty(g)
             /\ getAllRevocations(g) \subseteq getAllRevocations(addRevocation(g, d))
  <2>1. Shown(g) \in g.born /\ Shown(g) \in Birth
    BY <1>3
  <2> DEFINE p == <<Shown(g), d>>
  <2>2. p \in Birth \X Device /\ p[1] \in g.born
    BY <2>1
  <2> HIDE DEF p
  <2>3. /\ registerDevice(g, d) = [g EXCEPT !.devices = @ \cup {p}]
        /\ addRevocation(g, d) = [g EXCEPT !.revocations = @ \cup {p}]
    BY DEF registerDevice, addRevocation, p
  <2>4. registerDevice(g, d) \in Sound /\ registerDevice(g, d).born = g.born
    BY <2>2, <2>3 DEF Sound, Registry
  <2>5. addRevocation(g, d) \in Sound /\ addRevocation(g, d).born = g.born
    BY <2>2, <2>3 DEF Sound, Registry
  <2>6. Shown(registerDevice(g, d)) = Shown(g) /\ Shown(addRevocation(g, d)) = Shown(g)
    BY <2>4, <2>5 DEF Shown
  <2>7. g # Broken /\ registerDevice(g, d) # Broken /\ addRevocation(g, d) # Broken
    BY <1>3, <2>4, <2>5
  <2>8. /\ registerDevice(g, d).devices = g.devices \cup {p}
        /\ registerDevice(g, d).revocations = g.revocations
        /\ addRevocation(g, d).devices = g.devices
        /\ addRevocation(g, d).revocations = g.revocations \cup {p}
    BY <2>3 DEF Sound, Registry
  <2>9. d \in getAllDevices(registerDevice(g, d))
    BY <2>6, <2>7, <2>8 DEF getAllDevices, p
  <2>10. /\ getAllRevocations(registerDevice(g, d)) = getAllRevocations(g)
         /\ getAllDevices(addRevocation(g, d)) = getAllDevices(g)
         /\ getAllRevocations(g) \subseteq getAllRevocations(addRevocation(g, d))
    BY <2>6, <2>7, <2>8 DEF getAllDevices, getAllRevocations
  <2> QED
    BY <2>4, <2>5, <2>6, <2>9, <2>10 DEF isEmpty
<1>5. ASSUME NEW g \in Sound, NEW h \in Sound
      PROVE  import(g, h) \in Sound /\ Shown(import(g, h)) \in {Shown(g), Shown(h)}
  <2>1. import(g, h) \in Sound
    <3>1. IsFiniteSet(g.born \cup h.born)
      BY FS_Union DEF Sound
    <3> QED
      BY <3>1 DEF Sound, Registry, import
  <2>2. import(g, h).born = g.born \cup h.born
    BY DEF import
  <2> DEFINE s == Shown(import(g, h))
  <2>3. s \in g.born \cup h.born /\ \A b \in g.born \cup h.born : b <= s
    BY <1>3, <2>1, <2>2
  <2>4. /\ Shown(g) \in g.born /\ \A b \in g.born : b <= Shown(g)
        /\ Shown(h) \in h.born /\ \A b \in h.born : b <= Shown(h)
        /\ g.born \cup h.born \subseteq Nat
    BY <1>3
  <2> HIDE DEF s
  <2>5. CASE s \in g.born
    <3>1. s <= Shown(g) /\ Shown(g) <= s /\ s \in Nat /\ Shown(g) \in Nat
      BY <2>3, <2>4, <2>5
    <3> QED
      BY <2>1, <3>1 DEF s
  <2>6. CASE s \in h.born
    <3>1. s <= Shown(h) /\ Shown(h) <= s /\ s \in Nat /\ Shown(h) \in Nat
      BY <2>3, <2>4, <2>6
    <3> QED
      BY <2>1, <3>1 DEF s
  <2> QED
    BY <2>3, <2>5, <2>6
<1>6. ASSUME NEW g \in Sound, NEW h \in Sound
      PROVE  /\ ~ isEmpty(g) /\ ~ isEmpty(h) => ~ isEmpty(import(g, h))
             /\ Shown(import(g, h)) = Shown(g)
                  => getAllRevocations(g) \subseteq getAllRevocations(import(g, h))
  <2>1. /\ import(g, h).devices = g.devices \cup h.devices
        /\ import(g, h).revocations = g.revocations \cup h.revocations
    BY DEF import
  <2>2. g # Broken /\ h # Broken /\ import(g, h) # Broken
    BY <1>3, <1>5
  <2>3. Shown(import(g, h)) = Shown(g)
          => /\ getAllDevices(g) \subseteq getAllDevices(import(g, h))
             /\ getAllRevocations(g) \subseteq getAllRevocations(import(g, h))
    BY <2>1, <2>2 DEF getAllDevices, getAllRevocations
  <2>4. Shown(import(g, h)) = Shown(h) => getAllDevices(h) \subseteq getAllDevices(import(g, h))
    BY <2>1, <2>2 DEF getAllDevices
  <2> QED
    BY <1>5, <2>3, <2>4 DEF isEmpty
<1>7. ASSUME NEW b \in Birth PROVE getAllRevocations(initializeStructure(b)) = {}
  BY DEF getAllRevocations, initializeStructure
<1>8. getAllDevices(Broken) = {} /\ getAllRevocations(Broken) = {}
  BY DEF getAllDevices, getAllRevocations
<1> QED
  BY <1>2, <1>3, <1>4, <1>5, <1>6, <1>7, <1>8

-----------------------------------------------------------------------------
(* Types.                                                                   *)

\* Every variable has the shape the code gives it, and nothing runs on behalf of an
\* application that is down.
THEOREM TypeCorrect == Spec => [](TypeOK /\ Shape)
<1> USE BirthAssumption, DocAssumption, BoundAssumption
<1>1. Init => Shape
  <2> SUFFICES ASSUME Init PROVE Shape
    OBVIOUS
  <2>1. DocShape
    <3>1. \A d \in Device : FirstBirth[d] \in Birth
      OBVIOUS
    <3>2. \A d \in Device : Paired \in Sound
      <4> SUFFICES ASSUME NEW d \in Device PROVE Paired \in Sound
        OBVIOUS
      <4> DEFINE b == FirstBirth[CHOOSE x \in Device : TRUE]
      <4>1. b \in Birth
        BY <3>1
      <4> HIDE DEF b
      <4>2. Paired = [born |-> {b}, devices |-> {b} \X Device, revocations |-> {}]
        BY DEF Paired, b
      <4> QED
        BY <4>1, <4>2, FS_Singleton DEF Sound, Registry
    <3>3. \A d \in Device : initializeStructure(FirstBirth[d]) \in Sound
      BY <3>1, Documents
    <3>4. registry \in [Device -> Doc] /\ registryFile \in [Device -> Doc \cup {None}]
      BY <3>2, <3>3 DEF Init, Doc
    <3>5. births \subseteq Birth
      BY <3>1 DEF Init
    <3> QED
      BY <3>4, <3>5 DEF Init, DocShape
  <2>2. BlockShape
    BY DEF Init, BlockShape
  <2>3. ConnShape
    BY DEF Init, ConnShape
  <2>4. TaskShape
    BY DEF Init, TaskShape
  <2>5. Resting
    BY DEF Init, Resting
  <2> QED
    BY <2>1, <2>2, <2>3, <2>4, <2>5 DEF Shape
<1>2. Shape /\ [Next]_vars => Shape'
  <2> SUFFICES ASSUME Shape, [Next]_vars PROVE Shape'
    OBVIOUS
  <2> USE DEF Shape
  \* parts of the handlers
  <2>1. ASSUME NEW d \in Device, NEW g \in Doc, NEW more \in SUBSET Device,
               handleRegistryChange(d, g, more)
        PROVE  /\ DocShape' /\ localBlocklist' \in [Device -> SUBSET Device]
               /\ \A e \in Device : e # d => /\ saveTimer'[e] = saveTimer[e]
                                           /\ broadcastTimer'[e] = broadcastTimer[e]
    <3>1. getAllRevocations(g) \in SUBSET Device
      BY DEF getAllRevocations
    <3>2. DocShape'
      BY <2>1 DEF handleRegistryChange, DocShape
    <3>3. localBlocklist' \in [Device -> SUBSET Device]
      BY <2>1, <3>1 DEF handleRegistryChange, BlockShape
    <3> QED
      BY <2>1, <3>2, <3>3 DEF handleRegistryChange, DocShape
  <2>2. ASSUME NEW d \in Device, NEW x \in Device, NEW caller \in {"own", "other"},
               applyRevocation(d, x, caller), UNCHANGED <<blocklistFile, blockSaved>>
        PROVE  /\ DocShape' /\ BlockShape'
               /\ \A e \in Device : e # d => /\ saveTimer'[e] = saveTimer[e]
                                           /\ broadcastTimer'[e] = broadcastTimer[e]
                                           /\ storeWrites'[e] = storeWrites[e]
                                           /\ networkWrites'[e] = networkWrites[e]
    <3>1. CASE registry[d] = Broken
      <4>1. localBlocklist' \in [Device -> SUBSET Device]
        BY <2>2, <3>1 DEF applyRevocation, BlockShape
      <4> QED
        BY <2>2, <3>1, <4>1 DEF applyRevocation, docVars, DocShape, BlockShape
    <3>2. CASE registry[d] # Broken
      <4>1. registry[d] \in Sound
        BY <3>2 DEF DocShape, Doc
      <4>2. addRevocation(registry[d], x) \in Doc
        BY <4>1, Documents DEF Doc
      <4>3. handleRegistryChange(d, addRevocation(registry[d], x), {x})
        BY <2>2, <3>2 DEF applyRevocation
      <4>4. /\ storeWrites' = [storeWrites EXCEPT ![d] = TRUE]
            /\ blocked' = [blocked EXCEPT ![d] = @ \cup {x}]
            /\ networkWrites' = [networkWrites EXCEPT ![d] =
                                   IF x \in blocked[d] THEN @ ELSE @ \cup {caller}]
        BY <2>2, <3>2 DEF applyRevocation, blockDevice
      <4>5. /\ storeWrites' \in [Device -> BOOLEAN] /\ blocked' \in [Device -> SUBSET Device]
            /\ networkWrites' \in [Device -> SUBSET {"own", "other"}]
        BY <4>4 DEF BlockShape
      <4>6. {x} \in SUBSET Device
        OBVIOUS
      <4>7. DocShape' /\ localBlocklist' \in [Device -> SUBSET Device]
            /\ \A e \in Device : e # d => /\ saveTimer'[e] = saveTimer[e]
                                        /\ broadcastTimer'[e] = broadcastTimer[e]
        BY <2>1, <4>2, <4>3, <4>6
      <4> QED
        BY <2>2, <4>4, <4>5, <4>7 DEF BlockShape
    <3> QED
      BY <3>1, <3>2
  <2>3. ASSUME NEW m \in Message, NEW to \in SUBSET running, mail' = Mailed(m, to)
        PROVE  /\ mail' \in [Device -> SUBSET Message]
               /\ \A e \in Device : e \notin running => mail'[e] = mail[e]
    BY <2>3 DEF Mailed, TaskShape
  <2>4. ASSUME NEW d \in Device PROVE ByRelay(d) \subseteq running /\ ByPeers(d) \subseteq running
    BY DEF ByRelay, ByPeers, ConnShape
  <2>5. ASSUME NEW d \in Device PROVE Update(d) \in Message
    BY DEF Update, Message, DocShape
  \* actions
  <2>6. ASSUME NEW d \in Device, save(d) PROVE Shape'
    <3>1. d \in running
      BY <2>6 DEF save, Resting
    <3>2. DocShape'
      <4>1. registryFile' \in {registryFile, [registryFile EXCEPT ![d] = registry[d]],
                              [registryFile EXCEPT ![d] = Broken]}
        BY <2>6 DEF save
      <4>2. registryFile' \in [Device -> Doc \cup {None}]
        BY <4>1 DEF DocShape, Doc
      <4> QED
        BY <2>6, <4>2 DEF save, DocShape
    <3> QED
      BY <2>6, <3>1, <3>2
         DEF save, blockVars, connVars, DocShape, BlockShape, ConnShape, TaskShape, Resting
  <2>7. ASSUME NEW d \in Device, saveBlocklist(d) PROVE Shape'
    <3>1. BlockShape'
      <4>1. blocklistFile' \in
              {blocklistFile, [blocklistFile EXCEPT ![d] = Torn],
               [blocklistFile EXCEPT ![d] = [by |-> "store", ids |-> localBlocklist[d]]]}
        BY <2>7 DEF saveBlocklist
      <4> QED
        BY <2>7, <4>1 DEF saveBlocklist, Torn, BlockShape
    <3>2. Resting'
      BY <2>7 DEF saveBlocklist, docVars, connVars, Resting, BlockShape
    <3> QED
      BY <2>7, <3>1, <3>2 DEF saveBlocklist, docVars, connVars, DocShape, ConnShape, TaskShape
  <2>8. ASSUME NEW d \in Device, NEW caller \in {"own", "other"}, networkSave(d, caller)
        PROVE  Shape'
    <3>1. BlockShape'
      BY <2>8 DEF networkSave, BlockShape
    <3>2. Resting'
      BY <2>8 DEF networkSave, docVars, connVars, Resting, BlockShape
    <3> QED
      BY <2>8, <3>1, <3>2 DEF networkSave, docVars, connVars, DocShape, ConnShape, TaskShape
  <2>9. ASSUME NEW d \in Device, NEW caller \in {"own", "other"}, networkSaveFails(d, caller)
        PROVE  Shape'
    <3>1. BlockShape'
      <4>1. blocklistFile' \in {blocklistFile, [blocklistFile EXCEPT ![d] = Torn]}
            /\ networkWrites' = [networkWrites EXCEPT ![d] = @ \ {caller}]
            /\ UNCHANGED <<localBlocklist, blocked, blockSaved, storeWrites>>
        BY <2>9 DEF networkSaveFails
      <4>2. Torn \in [by : {"nobody", "store", "network", "torn"}, ids : SUBSET Device]
        BY DEF Torn
      <4>3. blocklistFile' \in
              [Device -> [by : {"nobody", "store", "network", "torn"}, ids : SUBSET Device]]
        BY <4>1, <4>2 DEF BlockShape
      <4> QED
        BY <4>1, <4>3 DEF BlockShape
    <3>2. TaskShape'
      BY <2>9 DEF networkSaveFails, TaskShape
    <3>3. Resting'
      BY <2>9 DEF networkSaveFails, docVars, connVars, Resting, BlockShape, TaskShape
    <3> QED
      BY <2>9, <3>1, <3>2, <3>3 DEF networkSaveFails, docVars, connVars, DocShape, ConnShape
  <2>10. ASSUME NEW d \in Device, kill(d) PROVE Shape'
    <3>1. DocShape'
      BY <2>10 DEF kill, DocShape, Doc
    <3>2. BlockShape'
      BY <2>10 DEF kill, Torn, BlockShape
    <3>3. ConnShape'
      <4>1. /\ running' = running \ {d} /\ online' = online \ {d} /\ barred' = barred
            /\ links' = {l \in links : d \notin {l[1], l[2]}}
        BY <2>10 DEF kill
      <4>2. \A l \in links' : l \in links /\ l \in running \X running /\ l[1] # d /\ l[2] # d
        BY <4>1 DEF ConnShape
      <4>3. links' \subseteq running' \X running'
        BY <4>1, <4>2
      <4> QED
        BY <4>1, <4>2, <4>3 DEF ConnShape
    <3>4. TaskShape'
      BY <2>10 DEF kill, TaskShape
    <3>5. Resting'
      BY <2>10 DEF kill, Resting, DocShape, BlockShape, TaskShape
    <3> QED
      BY <3>1, <3>2, <3>3, <3>4, <3>5
  <2>11. ASSUME NEW d \in Device, start(d) PROVE Shape'
    <3>1. PICK b \in Birth \ births, readable \in BOOLEAN :
            /\ registry' = [registry EXCEPT ![d] = load(d, initializeStructure(b), readable)]
            /\ births' = IF registryFile[d] = None \/ ~ readable THEN births \cup {b} ELSE births
            /\ saveTimer' =
                 [saveTimer EXCEPT ![d] = readable /\ registryFile[d] \notin {None, Broken}]
      BY <2>11 DEF start
    <3>2. load(d, initializeStructure(b), readable) \in Doc
      BY Documents DEF load, DocShape, Doc
    <3>3. DocShape'
      BY <2>11, <3>1, <3>2 DEF start, DocShape
    <3>4. localBlocklist' \in [Device -> SUBSET Device] /\ blocked' \in [Device -> SUBSET Device]
      <4>1. getAllRevocations(registry'[d]) \in SUBSET Device
        BY DEF getAllRevocations
      <4>2. loadBlocklist(d, registry'[d]) \in SUBSET Device /\ networkLoad(d) \in SUBSET Device
        BY <4>1 DEF loadBlocklist, networkLoad, BlockShape
      <4> QED
        BY <2>11, <4>2 DEF start, BlockShape
    <3>5. BlockShape'
      BY <2>11, <3>4 DEF start, BlockShape
    <3>6. ConnShape'
      BY <2>11 DEF start, connVars, ConnShape
    <3>7. Resting'
      BY <2>11, <3>1 DEF start, Resting, DocShape
    <3> QED
      BY <2>11, <3>3, <3>5, <3>6, <3>7 DEF start, TaskShape
  <2>12. ASSUME NEW d \in Device, connect(d) PROVE Shape'
    BY <2>12 DEF connect, docVars, blockVars, DocShape, BlockShape, ConnShape, TaskShape, Resting
  <2>13. ASSUME NEW d \in Device, drop(d) PROVE Shape'
    <3>1. TaskShape' /\ \A e \in Device : mail[e] = {} => mail'[e] = {}
      BY <2>13 DEF drop, TaskShape
    <3> QED
      BY <2>13, <3>1 DEF drop, docVars, blockVars, DocShape, BlockShape, ConnShape, Resting
  <2>14. ASSUME NEW d \in Device, NEW e \in Device, dial(d, e) PROVE Shape'
    <3> DEFINE toD == {x \in Device : <<e, x>> \in links}
               toE == ByPeers(d) \cup {e}
    <3>1. /\ Update(d) \in Message /\ Update(e) \in Message
          /\ toD \subseteq running /\ toE \subseteq running
      BY <2>4, <2>5, <2>14 DEF dial, ConnShape
    <3>2. mail' = [x \in Device |-> mail[x] \cup (IF x \in toE THEN {Update(d)} ELSE {})
                                        \cup (IF x \in toD THEN {Update(e)} ELSE {})]
      BY <2>14 DEF dial
    <3> HIDE DEF toD, toE
    <3>3. /\ mail' \in [Device -> SUBSET Message]
          /\ \A x \in Device : x \notin running => mail'[x] = mail[x]
      BY <3>1, <3>2 DEF TaskShape
    <3>4. TaskShape'
      <4>1. emptySent' \in BOOLEAN
        BY <2>14 DEF dial
      <4> QED
        BY <2>14, <3>3, <4>1 DEF dial, TaskShape
    <3>5. ConnShape'
      BY <2>14 DEF dial, ConnShape
    <3>6. Resting'
      BY <2>14, <3>3 DEF dial, docVars, blockVars, Resting
    <3> QED
      BY <2>14, <3>4, <3>5, <3>6 DEF dial, docVars, blockVars, DocShape, BlockShape
  <2>15. ASSUME NEW l \in links, hangUp(l) PROVE Shape'
    BY <2>15 DEF hangUp, docVars, blockVars, DocShape, BlockShape, ConnShape, TaskShape, Resting
  <2>16. ASSUME NEW d \in Device, broadcast(d) PROVE Shape'
    <3>1. /\ mail' \in [Device -> SUBSET Message]
          /\ \A e \in Device : e \notin running => mail'[e] = mail[e]
      <4>1. mail' = Mailed(Update(d), ByRelay(d) \cup ByPeers(d))
        BY <2>16 DEF broadcast
      <4>2. ByRelay(d) \cup ByPeers(d) \in SUBSET running
        BY <2>4
      <4> QED
        BY <2>3, <2>5, <4>1, <4>2
    <3>2. emptySent' \in BOOLEAN
      BY <2>16 DEF broadcast
    <3>3. DocShape'
      BY <2>16 DEF broadcast, DocShape
    <3>4. Resting'
      BY <2>16, <3>1 DEF broadcast, blockVars, connVars, Resting, DocShape
    <3> QED
      BY <2>16, <3>1, <3>2, <3>3, <3>4
         DEF broadcast, blockVars, connVars, BlockShape, ConnShape, TaskShape
  <2>17. ASSUME NEW d \in Device, registerCurrentDevice(d) PROVE Shape'
    <3>1. registerDevice(registry[d], d) \in Doc
      BY <2>17, Documents DEF registerCurrentDevice, DocShape, Doc
    <3>2. /\ DocShape' /\ localBlocklist' \in [Device -> SUBSET Device]
          /\ \A e \in Device : e # d => /\ saveTimer'[e] = saveTimer[e]
                                      /\ broadcastTimer'[e] = broadcastTimer[e]
      BY <2>1, <2>17, <3>1 DEF registerCurrentDevice
    <3>3. Resting'
      BY <2>17, <3>2 DEF registerCurrentDevice, connVars, Resting
    <3> QED
      BY <2>17, <3>2, <3>3 DEF registerCurrentDevice, connVars, BlockShape, ConnShape, TaskShape
  <2>18. ASSUME NEW d \in Device, NEW x \in Device, renameDevice(d, x) PROVE Shape'
    <3>1. Rename(x) \in Message /\ registry[d] \in Doc
      BY DEF Rename, Message, DocShape
    <3>2. /\ DocShape' /\ localBlocklist' \in [Device -> SUBSET Device]
          /\ \A e \in Device : e # d => /\ saveTimer'[e] = saveTimer[e]
                                      /\ broadcastTimer'[e] = broadcastTimer[e]
      BY <2>1, <2>18, <3>1 DEF renameDevice
    <3>3. /\ mail' \in [Device -> SUBSET Message]
          /\ \A e \in Device : e \notin running => mail'[e] = mail[e]
      BY <2>3, <2>4, <2>18, <3>1 DEF renameDevice
    <3>4. Resting'
      BY <2>18, <3>2, <3>3 DEF renameDevice, connVars, Resting
    <3> QED
      BY <2>18, <3>2, <3>3, <3>4 DEF renameDevice, connVars, BlockShape, ConnShape, TaskShape
  <2>19. ASSUME NEW d \in Device, NEW x \in Device, revokeDevice(d, x) PROVE Shape'
    <3>1. TaskShape'
      BY <2>19 DEF revokeDevice, TaskShape
    <3> QED
      BY <2>19, <3>1
         DEF revokeDevice, docVars, blockVars, connVars, DocShape, BlockShape, ConnShape,
             TaskShape, Resting
  <2>20. ASSUME NEW d \in Device, revokeSigned(d) PROVE Shape'
    <3>1. PICK x \in Device :
            /\ revoking[d] = <<"sign", x>>
            /\ revoking' = [revoking EXCEPT ![d] = IF registry[d] = Broken THEN None
                                                 ELSE <<"block", x>>]
            /\ applyRevocation(d, x, "own")
      BY <2>20 DEF revokeSigned
    <3>2. revoking[d] # None => d \in running
      BY DEF Resting
    <3>3. revoking' \in [Device -> {None} \cup {"sign", "block"} \X Device]
      BY <3>1 DEF TaskShape
    <3>4. /\ DocShape' /\ BlockShape'
          /\ \A e \in Device : e # d => /\ saveTimer'[e] = saveTimer[e]
                                      /\ broadcastTimer'[e] = broadcastTimer[e]
                                      /\ storeWrites'[e] = storeWrites[e]
                                      /\ networkWrites'[e] = networkWrites[e]
      BY <2>2, <2>20, <3>1 DEF revokeSigned
    <3>5. Resting'
      <4>1. d \in running
        BY <3>1, <3>2, NoneAssumption
      <4> QED
        BY <2>20, <3>1, <3>4, <4>1 DEF revokeSigned, connVars, Resting, TaskShape
    <3> QED
      BY <2>20, <3>3, <3>4, <3>5 DEF revokeSigned, connVars, ConnShape, TaskShape
  <2>21. ASSUME NEW d \in Device, revokeAnnounced(d) PROVE Shape'
    <3>1. PICK x \in Device :
            /\ revoking[d] = <<"block", x>>
            /\ mail' = Mailed(Revocation(d, x), (ByRelay(d) \ {x}) \cup ByPeers(d))
            /\ barred' = IF d \in online THEN barred \cup {x} ELSE barred
            /\ online' = IF d \in online THEN online \ {x} ELSE online
      BY <2>21 DEF revokeAnnounced
    <3>2. /\ mail' \in [Device -> SUBSET Message]
          /\ \A e \in Device : e \notin running => mail'[e] = mail[e]
      <4>1. Revocation(d, x) \in Message /\ (ByRelay(d) \ {x}) \cup ByPeers(d) \in SUBSET running
        BY <2>4 DEF Revocation, Message
      <4> QED
        BY <2>3, <3>1, <4>1
    <3>3. revoking' = [revoking EXCEPT ![d] = None]
      BY <2>21 DEF revokeAnnounced
    <3>4. ConnShape'
      BY <2>21, <3>1 DEF revokeAnnounced, ConnShape
    <3>5. TaskShape'
      BY <2>21, <3>2, <3>3 DEF revokeAnnounced, TaskShape
    <3>6. Resting'
      BY <2>21, <3>2, <3>3 DEF revokeAnnounced, docVars, blockVars, Resting, TaskShape
    <3> QED
      BY <2>21, <3>4, <3>5, <3>6 DEF revokeAnnounced, docVars, blockVars, DocShape, BlockShape
  <2>22. ASSUME NEW d \in Device, NEW from \in Device, onDeviceRegistryUpdate(d, from)
         PROVE  Shape'
    <3>1. PICK m \in mail[d] : m.kind = "update" /\ Taken(d, m) /\ handleSyncUpdate(d, m.doc)
      BY <2>22 DEF onDeviceRegistryUpdate
    <3>2. m.doc \in Doc
      BY <3>1 DEF TaskShape, Message
    <3>3. mail' \in [Device -> SUBSET Message] /\ \A e \in Device : e # d => mail'[e] = mail[e]
      BY <3>1 DEF Taken, TaskShape
    <3>4. /\ DocShape' /\ localBlocklist' \in [Device -> SUBSET Device]
          /\ storeWrites' \in [Device -> BOOLEAN]
          /\ \A e \in Device : e # d => /\ saveTimer'[e] = saveTimer[e]
                                      /\ broadcastTimer'[e] = broadcastTimer[e]
                                      /\ storeWrites'[e] = storeWrites[e]
      <4>1. CASE registry[d] = Broken
        BY <3>1, <4>1 DEF handleSyncUpdate, docVars, DocShape, BlockShape
      <4>2. CASE registry[d] # Broken /\ isEmpty(registry[d]) /\ m.doc = Broken
        BY <3>1, <4>2 DEF handleSyncUpdate, DocShape, BlockShape, Doc
      <4>3. CASE registry[d] # Broken /\ ~ (isEmpty(registry[d]) /\ m.doc = Broken)
        <5> DEFINE g == IF isEmpty(registry[d]) THEN m.doc
                        ELSE IF m.doc = Broken THEN registry[d] ELSE import(registry[d], m.doc)
        <5>1. g \in Doc
          <6>1. registry[d] \in Sound
            BY <4>3 DEF DocShape, Doc
          <6>2. m.doc # Broken => import(registry[d], m.doc) \in Sound
            BY <3>2, <6>1, Documents DEF Doc
          <6> QED
            BY <3>2, <6>1, <6>2 DEF Doc
        <5>2. handleRegistryChange(d, g, {}) /\ storeWrites' = [storeWrites EXCEPT ![d] = TRUE]
          BY <3>1, <4>3 DEF handleSyncUpdate
        <5> HIDE DEF g
        <5>3. {} \in SUBSET Device
          OBVIOUS
        <5> QED
          BY <2>1, <5>1, <5>2, <5>3 DEF BlockShape
      <4> QED
        BY <4>1, <4>2, <4>3
    <3>5. Resting'
      BY <2>22, <3>3, <3>4 DEF onDeviceRegistryUpdate, connVars, Resting
    <3> QED
      BY <2>22, <3>3, <3>4, <3>5
         DEF onDeviceRegistryUpdate, connVars, BlockShape, ConnShape, TaskShape
  <2>23. ASSUME NEW d \in Device, onDeviceRevokeReceived(d) PROVE Shape'
    <3>1. PICK m \in mail[d] :
            /\ m.kind = "revoke" /\ Taken(d, m)
            /\ verifying' = [verifying EXCEPT ![d] =
                               IF m.by \in getAllDevices(registry[d]) THEN @ \cup {m.of} ELSE @]
      BY <2>23 DEF onDeviceRevokeReceived
    <3>2. m.of \in Device
      BY <3>1 DEF TaskShape, Message
    <3>3. mail' \in [Device -> SUBSET Message] /\ \A e \in Device : e # d => mail'[e] = mail[e]
      BY <3>1 DEF Taken, TaskShape
    <3>4. verifying' \in [Device -> SUBSET Device]
          /\ \A e \in Device : e # d => verifying'[e] = verifying[e]
      BY <3>1, <3>2 DEF TaskShape
    <3>5. Resting'
      BY <2>23, <3>3, <3>4 DEF onDeviceRevokeReceived, docVars, blockVars, Resting
    <3> QED
      BY <2>23, <3>3, <3>4, <3>5
         DEF onDeviceRevokeReceived, docVars, blockVars, connVars, DocShape, BlockShape,
             ConnShape, TaskShape
  <2>24. ASSUME NEW d \in Device, revocationVerified(d) PROVE Shape'
    <3>1. PICK x \in verifying[d] : /\ verifying' = [verifying EXCEPT ![d] = @ \ {x}]
                                   /\ applyRevocation(d, x, "other")
      BY <2>24 DEF revocationVerified
    <3>2. x \in Device /\ d \in running
      BY <3>1 DEF TaskShape, Resting
    <3>3. verifying' \in [Device -> SUBSET Device]
          /\ \A e \in Device : e # d => verifying'[e] = verifying[e]
      BY <3>1 DEF TaskShape
    <3>4. /\ DocShape' /\ BlockShape'
          /\ \A e \in Device : e # d => /\ saveTimer'[e] = saveTimer[e]
                                      /\ broadcastTimer'[e] = broadcastTimer[e]
                                      /\ storeWrites'[e] = storeWrites[e]
                                      /\ networkWrites'[e] = networkWrites[e]
      BY <2>2, <2>24, <3>1, <3>2 DEF revocationVerified
    <3>5. Resting'
      BY <2>24, <3>2, <3>3, <3>4 DEF revocationVerified, connVars, Resting
    <3> QED
      BY <2>24, <3>3, <3>4, <3>5 DEF revocationVerified, connVars, ConnShape, TaskShape
  <2>25. ASSUME NEW d \in Device, onDeviceRenameReceived(d) PROVE Shape'
    <3>1. PICK m \in mail[d] :
            /\ Taken(d, m)
            /\ IF m.of \in getAllDevices(registry[d])
               THEN handleRegistryChange(d, registry[d], {})
               ELSE UNCHANGED <<docVars, localBlocklist>>
      BY <2>25 DEF onDeviceRenameReceived
    <3>2. mail' \in [Device -> SUBSET Message] /\ \A e \in Device : e # d => mail'[e] = mail[e]
      BY <3>1 DEF Taken, TaskShape
    <3>3. /\ DocShape' /\ localBlocklist' \in [Device -> SUBSET Device]
          /\ \A e \in Device : e # d => /\ saveTimer'[e] = saveTimer[e]
                                      /\ broadcastTimer'[e] = broadcastTimer[e]
      <4>1. registry[d] \in Doc /\ {} \in SUBSET Device
        BY DEF DocShape
      <4>2. CASE handleRegistryChange(d, registry[d], {})
        BY <2>1, <4>1, <4>2
      <4>3. CASE UNCHANGED <<docVars, localBlocklist>>
        BY <4>3 DEF docVars, DocShape, BlockShape
      <4> QED
        BY <3>1, <4>2, <4>3
    <3>4. Resting'
      BY <2>25, <3>2, <3>3 DEF onDeviceRenameReceived, connVars, Resting
    <3> QED
      BY <2>25, <3>2, <3>3, <3>4
         DEF onDeviceRenameReceived, connVars, BlockShape, ConnShape, TaskShape
  <2>26. CASE UNCHANGED vars
    BY <2>26 DEF vars, docVars, blockVars, connVars, DocShape, BlockShape, ConnShape,
                 TaskShape, Resting
  <2> QED
    BY <2>6, <2>7, <2>8, <2>9, <2>10, <2>11, <2>12, <2>13, <2>14, <2>15, <2>16, <2>17,
       <2>18, <2>19, <2>20, <2>21, <2>22, <2>23, <2>24, <2>25, <2>26 DEF Next
<1>3. Shape => TypeOK
  <2> SUFFICES ASSUME Shape PROVE TypeOK
    OBVIOUS
  <2>1. \A g \in Doc : g = Broken \/ (/\ g \in Registry /\ g.born # {}
                                     /\ \A p \in g.devices \cup g.revocations : p[1] \in g.born)
    BY DEF Doc, Sound
  <2>2. \A l \in links : l[1] # l[2] /\ {l[1], l[2]} \subseteq running
    BY DEF Shape, ConnShape
  <2>3. ASSUME NEW d \in Device
        PROVE  /\ blocklistFile[d].by \in {"nobody", "store", "network", "torn"}
               /\ blocklistFile[d].ids \cup localBlocklist[d] \cup blocked[d] \cup blockSaved[d]
                    \cup verifying[d] \subseteq Device
               /\ networkWrites[d] \subseteq {"own", "other"}
               /\ revoking[d] = None \/ revoking[d] \in {"sign", "block"} \X Device
    BY DEF Shape, BlockShape, TaskShape
  <2>4. ASSUME NEW d \in Device
        PROVE  registryFile[d] \in {None, Broken} \/ registryFile[d] \in Registry
    BY <2>1 DEF Shape, DocShape
  <2> QED
    BY <2>1, <2>2, <2>3, <2>4 DEF TypeOK, Shape, DocShape, ConnShape, Resting
<1> QED
  BY <1>1, <1>2, <1>3, PTL DEF Spec

-----------------------------------------------------------------------------
(* How registries, files and messages follow from each other.               *)

Busy(d) == revoking[d] # None \/ verifying[d] # {}
Merges(d) ==
  \E m \in mail[d] :
    /\ m.kind = "update"
    /\ registry'[d] = IF isEmpty(registry[d]) THEN m.doc
                      ELSE IF m.doc = Broken THEN registry[d] ELSE import(registry[d], m.doc)
Changes(d) ==
  \/ registry'[d] = registerDevice(registry[d], d)
  \/ Busy(d) /\ \E x \in Device : registry'[d] = addRevocation(registry[d], x)
  \/ Merges(d)
Starts(d) ==
  /\ d \notin running /\ ~ Busy(d)'
  /\ \/ registryFile[d] # None /\ registry'[d] = registryFile[d]
     \/ \E b \in Birth :
          /\ registry'[d] = initializeStructure(b)
          /\ registryFile[d] = None \/ b \in births' \ births
Follows(d) ==
  /\ \/ registry'[d] = registry[d]
     \/ registry[d] \in Sound /\ Changes(d)
     \/ Starts(d)
  /\ registryFile'[d] \in {registryFile[d], registry[d], Broken}
  /\ Busy(d)' => Busy(d) \/ getAllDevices(registry[d]) # {}
  /\ \A m \in mail'[d] : m.kind = "update" =>
       m \in mail[d] \/ \E e \in Device : m.doc = registry[e] /\ (isEmpty(registry[e]) => emptySent')

\* In every step each device's registry, file and messages follow the rules above.
LEMMA RegistrySteps ==
  ASSUME Shape, [Next]_vars
  PROVE  births \subseteq births' /\ (emptySent => emptySent') /\ \A d \in Device : Follows(d)
<1> USE DEF Shape
<1> DEFINE Goal == births \subseteq births' /\ (emptySent => emptySent') /\ \A d \in Device : Follows(d)
           Quietly(d) == /\ births' = births /\ emptySent' = emptySent
                         /\ registryFile' = registryFile
                         /\ \A e \in Device : e # d => registry'[e] = registry[e]
<1>1. ASSUME NEW m, NEW to \in SUBSET running, mail' = Mailed(m, to), NEW d \in Device
      PROVE  mail'[d] \subseteq mail[d] \cup {m}
  BY <1>1 DEF Mailed
<1>2. ASSUME NEW d \in Device, NEW m \in mail[d], Taken(d, m)
      PROVE  \A e \in Device : mail'[e] \subseteq mail[e]
  BY <1>2 DEF Taken, TaskShape
\* a step that changes at most the document of d, and posts nothing
<1>3. ASSUME NEW d \in Device, registry[d] \in Sound, Changes(d), Quietly(d),
             \A e \in Device : mail'[e] \subseteq mail[e],
             \A e \in Device : Busy(e)' => Busy(e) \/ getAllDevices(registry[e]) # {}
      PROVE  Goal
  BY <1>3 DEF Follows
\* a step without a document
<1>4. ASSUME UNCHANGED <<registry, births>>,
             \A d \in Device : registryFile'[d] \in {registryFile[d], registry[d], Broken},
             emptySent => emptySent',
             \A d \in Device : Busy(d)' => Busy(d) \/ getAllDevices(registry[d]) # {},
             \A d \in Device : \A m \in mail'[d] : m.kind = "update" =>
               m \in mail[d] \/ \E e \in Device : m.doc = registry[e] /\ (isEmpty(registry[e]) => emptySent')
      PROVE  Goal
  BY <1>4 DEF Follows
<1>5. ASSUME NEW d \in Device, NEW g, NEW more, handleRegistryChange(d, g, more)
      PROVE  /\ registry'[d] = g /\ UNCHANGED <<registryFile, births>>
             /\ \A e \in Device : e # d => registry'[e] = registry[e]
  BY <1>5 DEF handleRegistryChange, DocShape
<1>6. ASSUME NEW d \in Device, NEW x \in Device, NEW caller, applyRevocation(d, x, caller),
             Busy(d), UNCHANGED <<emptySent>>,
             \A e \in Device : mail'[e] \subseteq mail[e],
             \A e \in Device : Busy(e)' => Busy(e) \/ getAllDevices(registry[e]) # {}
      PROVE  Goal
  <2>1. CASE registry[d] = Broken
    <3>1. UNCHANGED <<registry, births, registryFile>>
      BY <1>6, <2>1 DEF applyRevocation, docVars
    <3> QED
      BY <1>4, <1>6, <3>1
  <2>2. CASE registry[d] # Broken
    <3>1. handleRegistryChange(d, addRevocation(registry[d], x), {x})
      BY <1>6, <2>2 DEF applyRevocation
    <3>2. Changes(d) /\ Quietly(d)
      BY <1>5, <1>6, <3>1 DEF Changes
    <3>3. registry[d] \in Sound
      BY <2>2 DEF DocShape, Doc
    <3> QED
      BY <1>3, <1>6, <3>2, <3>3
  <2> QED
    BY <2>1, <2>2
<1> HIDE DEF Goal
<1>7. ASSUME NEW d \in Device, save(d) PROVE Goal
  <2>1. /\ UNCHANGED <<registry, births, mail, emptySent, revoking, verifying>>
        /\ registryFile' \in {registryFile, [registryFile EXCEPT ![d] = registry[d]],
                              [registryFile EXCEPT ![d] = Broken]}
    BY <1>7 DEF save
  <2> QED
    BY <1>4, <2>1 DEF Busy, DocShape
<1>8. ASSUME NEW d \in Device,
             \/ saveBlocklist(d) \/ connect(d)
             \/ \E caller \in {"own", "other"} : networkSave(d, caller)
      PROVE  Goal
  <2>1. UNCHANGED <<registry, births, registryFile, mail, emptySent, revoking, verifying>>
    BY <1>8 DEF saveBlocklist, networkSave, connect, docVars
  <2> QED
    BY <1>4, <2>1 DEF Busy
<1>9. ASSUME NEW d \in Device, NEW caller \in {"own", "other"}, networkSaveFails(d, caller)
      PROVE  Goal
  <2>1. /\ UNCHANGED <<registry, births, registryFile, mail, emptySent, verifying>>
        /\ revoking' = [revoking EXCEPT ![d] = IF caller = "own" THEN None ELSE @]
    BY <1>9 DEF networkSaveFails, docVars
  <2> QED
    BY <1>4, <2>1 DEF Busy, TaskShape
<1>10. ASSUME NEW d \in Device, kill(d) PROVE Goal
  <2>1. /\ UNCHANGED <<registry, births, emptySent>>
        /\ registryFile' = registryFile \/ registryFile' = [registryFile EXCEPT ![d] = Broken]
        /\ revoking' = [revoking EXCEPT ![d] = None] /\ verifying' = [verifying EXCEPT ![d] = {}]
        /\ mail' = [mail EXCEPT ![d] = {}]
    BY <1>10 DEF kill
  <2>2. \A e \in Device : Busy(e)' => Busy(e)
    BY <2>1 DEF Busy, TaskShape
  <2>3. \A e \in Device : mail'[e] \subseteq mail[e]
    BY <2>1 DEF TaskShape
  <2>4. \A e \in Device : registryFile'[e] \in {registryFile[e], Broken}
    BY <2>1 DEF DocShape
  <2> QED
    BY <1>4, <2>1, <2>2, <2>3, <2>4
<1>11. ASSUME NEW d \in Device, start(d) PROVE Goal
  <2>1. PICK b \in Birth \ births, readable \in BOOLEAN :
          /\ registry' = [registry EXCEPT ![d] = load(d, initializeStructure(b), readable)]
          /\ births' = IF registryFile[d] = None \/ ~ readable THEN births \cup {b} ELSE births
    BY <1>11 DEF start
  <2>2. d \notin running /\ UNCHANGED <<registryFile, revoking, verifying, mail, emptySent>>
    BY <1>11 DEF start
  <2>3. ~ Busy(d)'
    BY <2>2 DEF Busy, Resting
  <2>4. Starts(d)
    BY <2>1, <2>2, <2>3 DEF Starts, load, DocShape
  <2>5. \A e \in Device : e # d => registry'[e] = registry[e]
    BY <2>1 DEF DocShape
  <2> QED
    BY <2>1, <2>2, <2>4, <2>5 DEF Goal, Follows, Busy
<1>12. ASSUME NEW d \in Device, drop(d) PROVE Goal
  <2>1. UNCHANGED <<registry, births, registryFile, emptySent, revoking, verifying>>
        /\ \A e \in Device : mail'[e] \subseteq mail[e]
    BY <1>12 DEF drop, docVars, TaskShape
  <2> QED
    BY <1>4, <2>1 DEF Busy
<1>13. ASSUME NEW d \in Device, NEW e \in Device, dial(d, e) PROVE Goal
  <2> DEFINE toD == {x \in Device : <<e, x>> \in links}
             toE == ByPeers(d) \cup {e}
  <2>1. /\ UNCHANGED <<registry, births, registryFile, revoking, verifying>>
        /\ mail' = [x \in Device |-> mail[x] \cup (IF x \in toE THEN {Update(d)} ELSE {})
                                         \cup (IF x \in toD THEN {Update(e)} ELSE {})]
        /\ emptySent' = (emptySent \/ isEmpty(registry[d])
                           \/ (toD # {} /\ isEmpty(registry[e])))
    BY <1>13 DEF dial, docVars
  <2> HIDE DEF toD, toE
  <2>2. \A x \in Device : \A m \in mail'[x] :
          m \in mail[x] \/ m = Update(d) \/ (m = Update(e) /\ toD # {})
    BY <2>1
  <2>3. Update(d).doc = registry[d] /\ Update(e).doc = registry[e]
    BY DEF Update
  <2> QED
    BY <1>4, <2>1, <2>2, <2>3 DEF Busy
<1>14. ASSUME NEW l \in links, hangUp(l) PROVE Goal
  <2>1. UNCHANGED <<registry, births, registryFile, mail, emptySent, revoking, verifying>>
    BY <1>14 DEF hangUp, docVars
  <2> QED
    BY <1>4, <2>1 DEF Busy
<1>15. ASSUME NEW d \in Device, broadcast(d) PROVE Goal
  <2> DEFINE to == ByRelay(d) \cup ByPeers(d)
  <2>1. /\ UNCHANGED <<registry, births, registryFile, revoking, verifying>>
        /\ mail' = Mailed(Update(d), to)
        /\ emptySent' = (emptySent \/ (to # {} /\ isEmpty(registry[d])))
    BY <1>15 DEF broadcast
  <2> HIDE DEF to
  <2>2. \A x \in Device : \A m \in mail'[x] : m \in mail[x] \/ (m = Update(d) /\ to # {})
    BY <2>1 DEF Mailed
  <2>3. Update(d).doc = registry[d]
    BY DEF Update
  <2> QED
    BY <1>4, <2>1, <2>2, <2>3 DEF Busy
<1>16. ASSUME NEW d \in Device, registerCurrentDevice(d) PROVE Goal
  <2>1. /\ handleRegistryChange(d, registerDevice(registry[d], d), {}) /\ registry[d] # Broken
        /\ UNCHANGED <<mail, emptySent, revoking, verifying>>
    BY <1>16 DEF registerCurrentDevice
  <2>2. Changes(d) /\ Quietly(d)
    BY <1>5, <2>1 DEF Changes
  <2>3. registry[d] \in Sound
    BY <2>1 DEF DocShape, Doc
  <2> QED
    BY <1>3, <2>1, <2>2, <2>3 DEF Busy
<1>17. ASSUME NEW d \in Device, NEW x \in Device, renameDevice(d, x) PROVE Goal
  <2>1. /\ handleRegistryChange(d, registry[d], {}) /\ mail' = Mailed(Rename(x), ByRelay(d))
        /\ UNCHANGED <<emptySent, revoking, verifying>>
    BY <1>17 DEF renameDevice
  <2>2. UNCHANGED <<registry, registryFile, births>>
    BY <2>1 DEF handleRegistryChange, DocShape
  <2>3. \A e \in Device : \A m \in mail'[e] : m \in mail[e] \/ m = Rename(x)
    BY <2>1 DEF Mailed
  <2>4. Rename(x).kind # "update"
    BY DEF Rename
  <2> QED
    BY <1>4, <2>1, <2>2, <2>3, <2>4 DEF Busy
<1>18. ASSUME NEW d \in Device, NEW x \in Device, revokeDevice(d, x) PROVE Goal
  <2>1. /\ UNCHANGED <<registry, births, registryFile, mail, emptySent, verifying>>
        /\ x \in getAllDevices(registry[d])
        /\ revoking' = [revoking EXCEPT ![d] = <<"sign", x>>]
    BY <1>18 DEF revokeDevice, docVars
  <2>2. \A e \in Device : Busy(e)' => Busy(e) \/ getAllDevices(registry[e]) # {}
    BY <2>1 DEF Busy, TaskShape
  <2> QED
    BY <1>4, <2>1, <2>2
<1>19. ASSUME NEW d \in Device, revokeSigned(d) PROVE Goal
  <2>1. PICK x \in Device :
          /\ revoking[d] = <<"sign", x>>
          /\ revoking' = [revoking EXCEPT ![d] = IF registry[d] = Broken THEN None
                                               ELSE <<"block", x>>]
          /\ applyRevocation(d, x, "own")
    BY <1>19 DEF revokeSigned
  <2>2. Busy(d)
    BY <2>1, NoneAssumption DEF Busy
  <2>3. UNCHANGED <<mail, emptySent, verifying>>
    BY <1>19 DEF revokeSigned
  <2>4. \A e \in Device : Busy(e)' => Busy(e)
    BY <2>1, <2>2, <2>3 DEF Busy, TaskShape
  <2> QED
    BY <1>6, <2>1, <2>2, <2>3, <2>4
<1>20. ASSUME NEW d \in Device, revokeAnnounced(d) PROVE Goal
  <2>1. PICK x \in Device : mail' = Mailed(Revocation(d, x), (ByRelay(d) \ {x}) \cup ByPeers(d))
    BY <1>20 DEF revokeAnnounced
  <2>2. /\ UNCHANGED <<registry, births, registryFile, emptySent, verifying>>
        /\ revoking' = [revoking EXCEPT ![d] = None]
    BY <1>20 DEF revokeAnnounced, docVars
  <2>3. \A e \in Device : \A m \in mail'[e] : m \in mail[e] \/ m = Revocation(d, x)
    BY <2>1 DEF Mailed
  <2>4. Revocation(d, x).kind # "update"
    BY DEF Revocation
  <2>5. \A e \in Device : Busy(e)' => Busy(e)
    BY <2>2 DEF Busy, TaskShape
  <2> QED
    BY <1>4, <2>2, <2>3, <2>4, <2>5
<1>21. ASSUME NEW d \in Device, NEW from \in Device, onDeviceRegistryUpdate(d, from) PROVE Goal
  <2>1. PICK m \in mail[d] : m.kind = "update" /\ Taken(d, m) /\ handleSyncUpdate(d, m.doc)
    BY <1>21 DEF onDeviceRegistryUpdate
  <2>2. UNCHANGED <<emptySent, revoking, verifying>>
    BY <1>21 DEF onDeviceRegistryUpdate
  <2>3. \A e \in Device : mail'[e] \subseteq mail[e]
    BY <1>2, <2>1
  <2>4. CASE registry[d] = Broken
    <3>1. UNCHANGED <<registry, births, registryFile>>
      BY <2>1, <2>4 DEF handleSyncUpdate, docVars
    <3> QED
      BY <1>4, <2>2, <2>3, <3>1 DEF Busy
  <2>5. CASE registry[d] # Broken
    <3> DEFINE g == IF isEmpty(registry[d]) THEN m.doc
                    ELSE IF m.doc = Broken THEN registry[d] ELSE import(registry[d], m.doc)
    <3>1. /\ registry'[d] = g /\ UNCHANGED <<registryFile, births>>
          /\ \A e \in Device : e # d => registry'[e] = registry[e]
      <4>1. CASE isEmpty(registry[d]) /\ m.doc = Broken
        BY <2>1, <2>5, <4>1 DEF handleSyncUpdate, DocShape
      <4>2. CASE ~ (isEmpty(registry[d]) /\ m.doc = Broken)
        <5>1. handleRegistryChange(d, g, {})
          BY <2>1, <2>5, <4>2 DEF handleSyncUpdate
        <5> HIDE DEF g
        <5> QED
          BY <1>5, <5>1
      <4> QED
        BY <4>1, <4>2
    <3>2. Changes(d) /\ Quietly(d)
      BY <2>1, <2>2, <3>1 DEF Changes, Merges
    <3>3. registry[d] \in Sound
      BY <2>5 DEF DocShape, Doc
    <3> QED
      BY <1>3, <2>2, <2>3, <3>2, <3>3 DEF Busy
  <2> QED
    BY <2>4, <2>5
<1>22. ASSUME NEW d \in Device, onDeviceRevokeReceived(d) PROVE Goal
  <2>1. PICK m \in mail[d] :
          /\ Taken(d, m)
          /\ verifying' = [verifying EXCEPT ![d] =
                             IF m.by \in getAllDevices(registry[d]) THEN @ \cup {m.of} ELSE @]
    BY <1>22 DEF onDeviceRevokeReceived
  <2>2. UNCHANGED <<registry, births, registryFile, emptySent, revoking>>
    BY <1>22 DEF onDeviceRevokeReceived, docVars
  <2>3. \A e \in Device : Busy(e)' => Busy(e) \/ getAllDevices(registry[e]) # {}
    BY <2>1, <2>2 DEF Busy, TaskShape
  <2>4. \A e \in Device : mail'[e] \subseteq mail[e]
    BY <1>2, <2>1
  <2> QED
    BY <1>4, <2>2, <2>3, <2>4
<1>23. ASSUME NEW d \in Device, revocationVerified(d) PROVE Goal
  <2>1. PICK x \in verifying[d] : /\ verifying' = [verifying EXCEPT ![d] = @ \ {x}]
                                 /\ applyRevocation(d, x, "other")
    BY <1>23 DEF revocationVerified
  <2>2. x \in Device /\ Busy(d)
    BY <2>1 DEF Busy, TaskShape
  <2>3. UNCHANGED <<mail, emptySent, revoking>>
    BY <1>23 DEF revocationVerified
  <2>4. \A e \in Device : Busy(e)' => Busy(e)
    BY <2>1, <2>2, <2>3 DEF Busy, TaskShape
  <2> QED
    BY <1>6, <2>1, <2>2, <2>3, <2>4
<1>24. ASSUME NEW d \in Device, onDeviceRenameReceived(d) PROVE Goal
  <2>1. PICK m \in mail[d] :
          /\ Taken(d, m)
          /\ handleRegistryChange(d, registry[d], {}) \/ UNCHANGED <<docVars, localBlocklist>>
    BY <1>24 DEF onDeviceRenameReceived
  <2>2. UNCHANGED <<registry, registryFile, births>>
    BY <2>1 DEF handleRegistryChange, docVars, DocShape
  <2>3. UNCHANGED <<emptySent, revoking, verifying>>
    BY <1>24 DEF onDeviceRenameReceived
  <2>4. \A e \in Device : mail'[e] \subseteq mail[e]
    BY <1>2, <2>1
  <2> QED
    BY <1>4, <2>2, <2>3, <2>4 DEF Busy
<1>25. ASSUME UNCHANGED vars PROVE Goal
  <2>1. UNCHANGED <<registry, births, registryFile, mail, emptySent, revoking, verifying>>
    BY <1>25 DEF vars, docVars
  <2>2. \A d \in Device : Busy(d)' => Busy(d) \/ getAllDevices(registry[d]) # {}
    BY <2>1 DEF Busy
  <2>3. \A d \in Device : registryFile'[d] \in {registryFile[d], registry[d], Broken}
    BY <2>1
  <2>4. \A d \in Device : \A m \in mail'[d] : m.kind = "update" =>
          m \in mail[d] \/ \E e \in Device : m.doc = registry[e] /\ (isEmpty(registry[e]) => emptySent')
    BY <2>1
  <2>5. UNCHANGED <<registry, births>> /\ (emptySent => emptySent')
    BY <2>1
  <2> QED
    BY <1>4, <2>2, <2>3, <2>4, <2>5
<1>26. ASSUME NEW d \in Device,
              \/ save(d) \/ saveBlocklist(d) \/ kill(d) \/ start(d)
              \/ connect(d) \/ drop(d) \/ broadcast(d)
              \/ registerCurrentDevice(d) \/ revokeSigned(d) \/ revokeAnnounced(d)
              \/ onDeviceRevokeReceived(d) \/ revocationVerified(d) \/ onDeviceRenameReceived(d)
       PROVE  Goal
  BY <1>7, <1>8, <1>10, <1>11, <1>12, <1>15, <1>16, <1>19, <1>20, <1>22, <1>23, <1>24, <1>26
<1>27. ASSUME NEW d \in Device, NEW x \in Device,
              dial(d, x) \/ renameDevice(d, x) \/ revokeDevice(d, x) \/ onDeviceRegistryUpdate(d, x)
       PROVE  Goal
  BY <1>13, <1>17, <1>18, <1>21, <1>27
<1>28. ASSUME NEW d \in Device, NEW caller \in {"own", "other"},
              networkSave(d, caller) \/ networkSaveFails(d, caller)
       PROVE  Goal
  BY <1>8, <1>9, <1>28
<1>29. ASSUME Next PROVE Goal
  <2>1. CASE \E l \in links : hangUp(l)
    BY <1>14, <2>1
  <2>2. CASE ~ \E l \in links : hangUp(l)
    <3>1. PICK d \in Device :
            \/ \/ save(d) \/ saveBlocklist(d) \/ kill(d) \/ start(d)
               \/ connect(d) \/ drop(d) \/ broadcast(d)
               \/ registerCurrentDevice(d) \/ revokeSigned(d) \/ revokeAnnounced(d)
               \/ onDeviceRevokeReceived(d) \/ revocationVerified(d) \/ onDeviceRenameReceived(d)
            \/ \E x \in Device : dial(d, x) \/ renameDevice(d, x) \/ revokeDevice(d, x)
                                 \/ onDeviceRegistryUpdate(d, x)
            \/ \E caller \in {"own", "other"} : networkSave(d, caller) \/ networkSaveFails(d, caller)
      BY <1>29, <2>2 DEF Next
    <3> QED
      BY <1>26, <1>27, <1>28, <3>1
  <2> QED
    BY <2>1, <2>2
<1> QED
  BY <1>25, <1>29 DEF Goal

-----------------------------------------------------------------------------
(* Revocations stay.                                                        *)

\* For any devices: as long as nobody has sent a registry without devices, no
\* registration, merge, adoption or restart hides a revocation while the same container
\* is shown.
THEOREM RevocationsAreKept == Spec => RevocationsStay
<1>1. Init => Quiet
  <2> SUFFICES ASSUME Init, NEW d \in Device
               PROVE  /\ getAllRevocations(registry[d]) = {} /\ mail[d] = {}
                      /\ registryFile[d] # None => registryFile[d] = registry[d]
                      /\ revoking[d] = None /\ verifying[d] = {}
    BY DEF Quiet
  <2>1. /\ registry[d] = initializeStructure(FirstBirth[d]) \/ registry[d] = Paired
        /\ registryFile[d] # None => registryFile[d] = registry[d]
    BY DEF Init
  <2>2. getAllRevocations(Paired) = {}
    BY DEF Paired, getAllRevocations
  <2>3. getAllRevocations(initializeStructure(FirstBirth[d])) = {}
    BY Documents, BirthAssumption
  <2> QED
    BY <2>1, <2>2, <2>3 DEF Init
<1>2. ASSUME Shape, Shape', Quiet, [Next]_vars
      PROVE  /\ Quiet'
             /\ \A d \in running :
                  (registry[d] # Broken /\ registry'[d] # Broken /\ ~ emptySent') =>
                    (Shown(registry'[d]) = Shown(registry[d]) =>
                       getAllRevocations(registry[d]) \subseteq getAllRevocations(registry'[d]))
  <2> SUFFICES ASSUME ~ emptySent', NEW d \in Device
               PROVE  /\ isEmpty(registry'[d]) => getAllRevocations(registry'[d]) = {}
                      /\ registryFile'[d] # None /\ isEmpty(registryFile'[d])
                           => getAllRevocations(registryFile'[d]) = {}
                      /\ Busy(d)' => registry'[d] = Broken \/ ~ isEmpty(registry'[d])
                      /\ \A m \in mail'[d] : m.kind = "update" => ~ isEmpty(m.doc)
                      /\ d \in running /\ Shown(registry'[d]) = Shown(registry[d])
                           => getAllRevocations(registry[d]) \subseteq getAllRevocations(registry'[d])
    BY <1>2 DEF Quiet, Busy, Shape, ConnShape
  <2>1. /\ Follows(d) /\ ~ emptySent
    BY <1>2, RegistrySteps
  <2>2. /\ isEmpty(registry[d]) => getAllRevocations(registry[d]) = {}
        /\ registryFile[d] # None /\ isEmpty(registryFile[d])
             => getAllRevocations(registryFile[d]) = {}
        /\ Busy(d) => registry[d] = Broken \/ ~ isEmpty(registry[d])
        /\ \A m \in mail[d] : m.kind = "update" => ~ isEmpty(m.doc)
    BY <1>2, <2>1 DEF Quiet, Busy
  <2>3. ASSUME registry[d] \in Sound, Changes(d)
        PROVE  /\ ~ isEmpty(registry'[d])
               /\ Shown(registry'[d]) = Shown(registry[d])
                    => getAllRevocations(registry[d]) \subseteq getAllRevocations(registry'[d])
    <3>1. registry[d] # Broken
      BY <2>3, Documents
    <3>2. CASE registry'[d] = registerDevice(registry[d], d)
      BY <2>3, <3>2, Documents
    <3>3. CASE Busy(d) /\ \E x \in Device : registry'[d] = addRevocation(registry[d], x)
      BY <2>2, <2>3, <3>1, <3>3, Documents
    <3>4. CASE Merges(d)
      <4>1. PICK m \in mail[d] :
              /\ m.kind = "update"
              /\ registry'[d] = IF isEmpty(registry[d]) THEN m.doc
                                ELSE IF m.doc = Broken THEN registry[d]
                                ELSE import(registry[d], m.doc)
        BY <3>4 DEF Merges
      <4>2. ~ isEmpty(m.doc) /\ m.doc # Broken
        BY <2>2, <4>1, Documents DEF isEmpty
      <4>3. m.doc \in Sound
        BY <1>2, <4>1, <4>2 DEF Shape, TaskShape, Message, Doc
      <4>4. CASE isEmpty(registry[d])
        BY <2>2, <4>1, <4>2, <4>4
      <4>5. CASE ~ isEmpty(registry[d])
        <5>1. registry'[d] = import(registry[d], m.doc)
          BY <4>1, <4>2, <4>5
        <5>2. ~ isEmpty(import(registry[d], m.doc))
          BY <2>3, <4>2, <4>3, <4>5, Documents
        <5>3. Shown(import(registry[d], m.doc)) = Shown(registry[d]) =>
                getAllRevocations(registry[d])
                  \subseteq getAllRevocations(import(registry[d], m.doc))
          BY <2>3, <4>3, Documents
        <5> QED
          BY <5>1, <5>2, <5>3
      <4> QED
        BY <4>4, <4>5
    <3> QED
      BY <2>3, <3>2, <3>3, <3>4 DEF Changes
  <2>4. ASSUME Starts(d) PROVE isEmpty(registry'[d]) => getAllRevocations(registry'[d]) = {}
    BY <2>2, <2>4, Documents DEF Starts
  <2>5. registry[d] # None
    BY <1>2, Documents, DocAssumption DEF Shape, DocShape, Doc
  <2>6. registryFile'[d] # None /\ isEmpty(registryFile'[d])
          => getAllRevocations(registryFile'[d]) = {}
    BY <2>1, <2>2, <2>5, Documents DEF Follows
  <2>7. \A m \in mail'[d] : m.kind = "update" => ~ isEmpty(m.doc)
    BY <2>1, <2>2 DEF Follows
  <2>8. Busy(d)' => registry[d] = Broken \/ ~ isEmpty(registry[d])
    BY <2>1, <2>2 DEF Follows, isEmpty
  <2>9. CASE registry'[d] = registry[d]
    BY <2>2, <2>6, <2>7, <2>8, <2>9
  <2>10. CASE registry[d] \in Sound /\ Changes(d)
    BY <2>3, <2>6, <2>7, <2>10
  <2>11. CASE Starts(d)
    <3>1. d \notin running /\ ~ Busy(d)'
      BY <2>11 DEF Starts
    <3> QED
      BY <2>4, <2>6, <2>7, <2>11, <3>1
  <2> QED
    BY <2>1, <2>9, <2>10, <2>11 DEF Follows
<1>3. Spec => []Shape
  BY TypeCorrect, PTL
<1>4. Shape /\ Shape' /\ Quiet /\ [Next]_vars =>
        Quiet' /\ [\A d \in running \cap running' :
          (registry[d] # Broken /\ registry'[d] # Broken /\ ~emptySent') =>
            (Shown(registry'[d]) = Shown(registry[d]) =>
               getAllRevocations(registry[d]) \subseteq getAllRevocations(registry'[d]))]_vars
  BY <1>2
<1> QED
  BY <1>1, <1>3, <1>4, PTL DEF Spec, RevocationsStay

-----------------------------------------------------------------------------
(* A shared registry stays shared.                                          *)

\* For any devices: once all registries, in memory, in files and on their way, show the
\* containers of one birth, no step makes any of them show another, but for a start that
\* cannot read its file.
THEOREM StayTogether == Spec => NeverForks
<1>1. ASSUME Shape, [Next]_vars, Together, \A d \in Device : ~ KeepsNew(d) PROVE Together'
  <2>1. PICK b \in births : \A d \in Device :
          /\ Shows(registry[d], b)
          /\ registryFile[d] # None /\ Shows(registryFile[d], b)
          /\ \A m \in mail[d] : m.kind = "update" => Shows(m.doc, b)
    BY <1>1 DEF Together
  <2>2. b \in births' /\ \A d \in Device : Follows(d)
    BY <1>1, RegistrySteps
  <2> SUFFICES ASSUME NEW d \in Device
               PROVE  /\ Shows(registry'[d], b)
                      /\ registryFile'[d] # None /\ Shows(registryFile'[d], b)
                      /\ \A m \in mail'[d] : m.kind = "update" => Shows(m.doc, b)
    BY <2>2 DEF Together, Shows
  <2>3. registry[d] # None /\ None # Broken
    BY <1>1, Documents, DocAssumption DEF Shape, DocShape, Doc
  <2>4. registryFile'[d] # None /\ Shows(registryFile'[d], b)
    <3>1. registryFile'[d] \in {registryFile[d], registry[d], Broken}
      BY <2>2 DEF Follows
    <3>2. Shows(Broken, b)
      BY DEF Shows
    <3> QED
      BY <2>1, <2>3, <3>1, <3>2
  <2>5. \A m \in mail'[d] : m.kind = "update" => Shows(m.doc, b)
    BY <2>1, <2>2 DEF Follows
  <2>6. ASSUME registry[d] \in Sound, Changes(d) PROVE Shows(registry'[d], b)
    <3>1. Shown(registry[d]) = b
      BY <2>1, <2>6, Documents DEF Shows
    <3>2. CASE registry'[d] = registerDevice(registry[d], d)
      BY <2>6, <3>1, <3>2, Documents DEF Shows
    <3>3. CASE \E x \in Device : registry'[d] = addRevocation(registry[d], x)
      BY <2>6, <3>1, <3>3, Documents DEF Shows
    <3>4. CASE Merges(d)
      <4>1. PICK m \in mail[d] :
              /\ m.kind = "update"
              /\ registry'[d] = IF isEmpty(registry[d]) THEN m.doc
                                ELSE IF m.doc = Broken THEN registry[d]
                                ELSE import(registry[d], m.doc)
        BY <3>4 DEF Merges
      <4>2. Shows(m.doc, b) /\ Shows(registry[d], b)
        BY <2>1, <4>1
      <4>3. CASE m.doc = Broken
        BY <4>1, <4>2, <4>3
      <4>4. CASE m.doc # Broken
        <5>1. m.doc \in Sound /\ Shown(m.doc) = b
          BY <1>1, <4>1, <4>2, <4>4 DEF Shape, TaskShape, Message, Doc, Shows
        <5>2. Shows(import(registry[d], m.doc), b)
          BY <2>6, <3>1, <5>1, Documents DEF Shows
        <5> QED
          BY <4>1, <4>2, <5>2
      <4> QED
        BY <4>3, <4>4
    <3> QED
      BY <2>6, <3>2, <3>3, <3>4 DEF Changes
  <2>7. ASSUME Starts(d) PROVE Shows(registry'[d], b)
    <3>1. ~ \E c \in births' \ births : registry'[d] = initializeStructure(c)
      BY <1>1, <2>1 DEF KeepsNew
    <3> QED
      BY <2>1, <2>7, <3>1 DEF Starts
  <2>8. Shows(registry'[d], b)
    BY <2>1, <2>2, <2>6, <2>7 DEF Follows
  <2> QED
    BY <2>4, <2>5, <2>8
<1>2. Spec => []Shape
  BY TypeCorrect, PTL
<1>3. Shape /\ [Next]_vars => [Together /\ (\A d \in Device : ~ KeepsNew(d)) => Together']_vars
  BY <1>1
<1> QED
  BY <1>2, <1>3, PTL DEF Spec, NeverForks
=============================================================================
