--------------------------- MODULE DeviceRegistry ---------------------------
(***************************************************************************)
(* The registry of devices and revocations (src/lib/devices/registry.ts,   *)
(* store.ts), the handlers that connect it to the relay and to local peers *)
(* (DeviceRegistryContext.tsx, LocalSyncContext.tsx) and its two           *)
(* blocklists: the one of the store and the one of the network             *)
(* (network/blocklist.rs), which are kept in one file, blocklist.json.     *)
(*                                                                         *)
(* A registry is a Loro document.  Every LoroDoc a store begins with has   *)
(* its own containers for devices and for revocations; a merge keeps the   *)
(* entries of all of them, but only those in the container of the largest  *)
(* peer id can be seen.  Loro is external; a birth is such a peer id.      *)
(*                                                                         *)
(* Names and times are left out: renaming a device is a change without     *)
(* content.  Revocations carry valid signatures.                           *)
(***************************************************************************)
EXTENDS Naturals, FiniteSets, FiniteSetsExt

CONSTANTS
  Device,
  Birth,         \* peer ids of documents with containers of their own
  FirstBirth,    \* [Device -> the one of the first start]
  None,
  Broken,        \* a document without the three maps, also as a file, or a file that
                 \* cannot be decoded
  MaxMail,       \* bound on the messages on their way to a device for a broadcast
  Budgets        \* bounds on registrations, revocations, renames, kills, failures
                 \* (of connections, writes and reads) and dials, and whether the
                 \* devices know each other already: a behaviour takes one

ASSUME BirthAssumption ==
  /\ Birth \subseteq Nat
  /\ FirstBirth \in [Device -> Birth]
  /\ \A d, e \in Device : FirstBirth[d] = FirstBirth[e] => d = e
Budget == [{"registers", "revokes", "renames", "kills", "failures", "dials", "paired"} -> Nat]
ASSUME BoundAssumption == MaxMail \in Nat \ {0} /\ Budgets \subseteq Budget

VARIABLES
  registry,      \* [Device -> the document in memory]
  registryFile,  \* [Device -> devices.loro]
  births,        \* the births so far
  localBlocklist, \* [Device -> the blocklist of the store]
  blocked,       \* [Device -> the blocklist of the network]
  blocklistFile, \* [Device -> blocklist.json: who wrote it, and its devices]
  running,       \* devices whose application runs, with an initialized store
  saveTimer,     \* [Device -> is a save of the registry waiting or under way?]
  broadcastTimer, \* [Device -> is a broadcast of the registry waiting?]
  storeWrites,   \* [Device -> is a saveBlocklist under way?]
  networkWrites, \* [Device -> for whom the network is saving its blocklist]
  revoking,      \* [Device -> how far its own call of revokeDevice is]
  verifying,     \* [Device -> revocations whose signature is being verified]
  mail,          \* [Device -> messages that reach it]
  online,        \* devices with a socket to the relay
  barred,        \* devices the relay has revoked
  links,         \* pairs <<d, e>> where e accepted a connection from d
  emptySent,     \* has a registry without devices been sent?
  blockSaved,    \* [Device -> the blocklist in the last save of the network to return]
  budget         \* what is left of the run's bounds

docVars == <<registry, registryFile, births, saveTimer, broadcastTimer>>
blockVars == <<localBlocklist, blocked, blocklistFile, storeWrites, networkWrites, blockSaved>>
connVars == <<online, barred, links>>
vars == <<docVars, blockVars, running, revoking, verifying, mail, connVars, emptySent, budget>>

\* (bound) one more event of this kind, if the behaviour has one left
Spend(kind) ==
  /\ budget[kind] > 0
  /\ budget' = [budget EXCEPT ![kind] = @ - 1]

-----------------------------------------------------------------------------
(* The document.                                                            *)

Registry == [born : SUBSET Birth,
             devices : SUBSET (Birth \X Device),
             revocations : SUBSET (Birth \X Device)]

\* a document is never mistaken for a missing file or one without the maps
ASSUME DocAssumption == None # Broken /\ None \notin Registry /\ Broken \notin Registry
ASSUME NoneAssumption == None \notin {"sign", "block"} \X Device

initializeStructure(b) == [born |-> {b}, devices |-> {}, revocations |-> {}]

\* the birth whose containers a document shows
Shown(g) == Max(g.born)

getAllDevices(g) ==
  IF g = Broken THEN {} ELSE {d \in Device : <<Shown(g), d>> \in g.devices}
getAllRevocations(g) ==
  IF g = Broken THEN {} ELSE {d \in Device : <<Shown(g), d>> \in g.revocations}
isEmpty(g) == getAllDevices(g) = {}

import(g, h) == [born |-> g.born \cup h.born,
                 devices |-> g.devices \cup h.devices,
                 revocations |-> g.revocations \cup h.revocations]

Paired == LET b == FirstBirth[CHOOSE d \in Device : TRUE]
          IN [born |-> {b}, devices |-> {b} \X Device, revocations |-> {}]

registerDevice(g, d) == [g EXCEPT !.devices = @ \cup {<<Shown(g), d>>}]
addRevocation(g, d) == [g EXCEPT !.revocations = @ \cup {<<Shown(g), d>>}]

-----------------------------------------------------------------------------
(* Parts of the handlers.                                                   *)

\* d's document becomes g: what handleRegistryChange does, after "more" has been
\* added to the blocklist of the store
handleRegistryChange(d, g, more) ==
  /\ registry' = [registry EXCEPT ![d] = g]
  /\ saveTimer' = [saveTimer EXCEPT ![d] = TRUE]
  /\ broadcastTimer' = [broadcastTimer EXCEPT ![d] = TRUE]
  /\ localBlocklist' = [localBlocklist EXCEPT ![d] = @ \cup more \cup getAllRevocations(g)]
  /\ UNCHANGED <<registryFile, births>>

\* device_block, for a caller that is waiting for its save
blockDevice(d, x, caller) ==
  /\ blocked' = [blocked EXCEPT ![d] = @ \cup {x}]
  /\ networkWrites' = [networkWrites EXCEPT ![d] =
       IF x \in blocked[d] THEN @ ELSE @ \cup {caller}]

\* store.revokeDevice, then blockDevice.  Without its maps, a registry throws after
\* the store has added x to its own blocklist.
applyRevocation(d, x, caller) ==
  IF registry[d] = Broken
  THEN /\ localBlocklist' = [localBlocklist EXCEPT ![d] = @ \cup {x}]
       /\ UNCHANGED <<docVars, blocked, networkWrites, storeWrites>>
  ELSE /\ handleRegistryChange(d, addRevocation(registry[d], x), {x})
       /\ storeWrites' = [storeWrites EXCEPT ![d] = TRUE]
       /\ blockDevice(d, x, caller)

\* The relay forwards to the other sockets.  Of two linked peers, only the one that
\* accepted looks at messages other than UPDATE.
ByRelay(d) == IF d \in online THEN online \ {d} ELSE {}
ByPeers(d) == {e \in Device : <<d, e>> \in links}
Mailed(m, to) == [e \in Device |-> IF e \in to THEN mail[e] \cup {m} ELSE mail[e]]

Update(d) == [kind |-> "update", from |-> d, doc |-> registry[d]]
Revocation(d, x) == [kind |-> "revoke", of |-> x, by |-> d]
Rename(x) == [kind |-> "rename", of |-> x]

-----------------------------------------------------------------------------
(* Starting, saving and dying.                                              *)

\* Every device has just been started for the first time, or all have adopted the
\* registry of one of them, registered and saved it.
Init ==
  /\ budget \in Budgets
  /\ IF budget["paired"] = 0
     THEN /\ registry = [d \in Device |-> initializeStructure(FirstBirth[d])]
          /\ registryFile = [d \in Device |-> None]
     ELSE /\ registry = [d \in Device |-> Paired]
          /\ registryFile = registry
  /\ births = {FirstBirth[d] : d \in Device}
  /\ localBlocklist = [d \in Device |-> {}]
  /\ blocked = [d \in Device |-> {}]
  /\ blocklistFile = [d \in Device |-> [by |-> "nobody", ids |-> {}]]
  /\ running = Device
  /\ saveTimer = [d \in Device |-> FALSE]
  /\ broadcastTimer = [d \in Device |-> FALSE]
  /\ storeWrites = [d \in Device |-> FALSE]
  /\ networkWrites = [d \in Device |-> {}]
  /\ revoking = [d \in Device |-> None]
  /\ verifying = [d \in Device |-> {}]
  /\ mail = [d \in Device |-> {}]
  /\ online = {}
  /\ barred = {}
  /\ links = {}
  /\ emptySent = FALSE
  /\ blockSaved = [d \in Device |-> {}]

\* the timer of scheduleSave; a write that fails is not tried again, and may have cut
\* the file
save(d) ==
  /\ saveTimer[d]
  /\ saveTimer' = [saveTimer EXCEPT ![d] = FALSE]
  /\ \/ registryFile' = [registryFile EXCEPT ![d] = registry[d]] /\ UNCHANGED budget
     \/ registryFile' \in {registryFile, [registryFile EXCEPT ![d] = Broken]} /\ Spend("failures")
  /\ UNCHANGED <<registry, births, broadcastTimer, blockVars, running, revoking, verifying,
                 mail, connVars, emptySent>>

Torn == [by |-> "torn", ids |-> {}]

\* The writes of blocklist.json.  No caller waits for the store's.
saveBlocklist(d) ==
  /\ storeWrites[d]
  /\ storeWrites' = [storeWrites EXCEPT ![d] = FALSE]
  /\ \/ /\ blocklistFile' = [blocklistFile EXCEPT ![d] =
                                 [by |-> "store", ids |-> localBlocklist[d]]]
        /\ UNCHANGED budget
     \/ /\ blocklistFile' \in {blocklistFile, [blocklistFile EXCEPT ![d] = Torn]}
        /\ Spend("failures")
  /\ UNCHANGED <<docVars, localBlocklist, blocked, networkWrites, blockSaved, running,
                 revoking, verifying, mail, connVars, emptySent>>

networkSave(d, caller) ==
  /\ caller \in networkWrites[d]
  /\ networkWrites' = [networkWrites EXCEPT ![d] = @ \ {caller}]
  /\ blocklistFile' = [blocklistFile EXCEPT ![d] = [by |-> "network", ids |-> blocked[d]]]
  /\ blockSaved' = [blockSaved EXCEPT ![d] = blocked[d]]
  /\ UNCHANGED <<docVars, localBlocklist, blocked, storeWrites, running, revoking,
                 verifying, mail, connVars, emptySent, budget>>

\* The write fails: a revokeDevice that waited for it ends there.
networkSaveFails(d, caller) ==
  /\ caller \in networkWrites[d]
  /\ Spend("failures")
  /\ networkWrites' = [networkWrites EXCEPT ![d] = @ \ {caller}]
  /\ revoking' = [revoking EXCEPT ![d] = IF caller = "own" THEN None ELSE @]
  /\ blocklistFile' \in {blocklistFile, [blocklistFile EXCEPT ![d] = Torn]}
  /\ UNCHANGED <<docVars, localBlocklist, blocked, storeWrites, blockSaved, running,
                 verifying, mail, connVars, emptySent>>

\* The application dies; what it was writing may be cut short.  (registry[d] is not
\* read again before start sets it.)
kill(d) ==
  /\ d \in running
  /\ Spend("kills")
  /\ running' = running \ {d}
  /\ registryFile' \in {registryFile} \cup
       (IF saveTimer[d] THEN {[registryFile EXCEPT ![d] = Broken]} ELSE {})
  /\ blocklistFile' \in {blocklistFile} \cup
       (IF storeWrites[d] \/ networkWrites[d] # {}
        THEN {[blocklistFile EXCEPT ![d] = Torn]} ELSE {})
  /\ saveTimer' = [saveTimer EXCEPT ![d] = FALSE]
  /\ broadcastTimer' = [broadcastTimer EXCEPT ![d] = FALSE]
  /\ storeWrites' = [storeWrites EXCEPT ![d] = FALSE]
  /\ networkWrites' = [networkWrites EXCEPT ![d] = {}]
  /\ localBlocklist' = [localBlocklist EXCEPT ![d] = {}]
  /\ blocked' = [blocked EXCEPT ![d] = {}]
  /\ revoking' = [revoking EXCEPT ![d] = None]
  /\ verifying' = [verifying EXCEPT ![d] = {}]
  /\ mail' = [mail EXCEPT ![d] = {}]
  /\ online' = online \ {d}
  /\ links' = {l \in links : d \notin {l[1], l[2]}}
  /\ UNCHANGED <<registry, births, barred, emptySent, blockSaved>>

\* mutants: the file merges into the new document; the relay keeps the socket of the
\* device it revokes; every update replaces the registry; what arrives is not passed on
loadMerged(d, new, readable) ==
  IF registryFile[d] = None \/ ~ readable THEN new
  ELSE IF registryFile[d] = Broken THEN Broken ELSE import(new, registryFile[d])

revokeAnnouncedKeeps(d) ==
  /\ "own" \notin networkWrites[d]
  /\ \E x \in Device :
       /\ revoking[d] = <<"block", x>>
       /\ mail' = Mailed(Revocation(d, x), ByRelay(d) \cup ByPeers(d))
       /\ barred' = IF d \in online THEN barred \cup {x} ELSE barred
  /\ revoking' = [revoking EXCEPT ![d] = None]
  /\ UNCHANGED <<docVars, blockVars, running, verifying, online, links, emptySent, budget>>

handleSyncUpdateReplaces(d, g) ==
  IF registry[d] = Broken THEN UNCHANGED <<docVars, localBlocklist, storeWrites>>
  ELSE /\ handleRegistryChange(d, g, {})
       /\ storeWrites' = [storeWrites EXCEPT ![d] = TRUE]

handleSyncUpdateQuiet(d, g) ==
  IF Broken \in {registry[d], g} THEN UNCHANGED <<docVars, localBlocklist, storeWrites>>
  ELSE /\ registry' = [registry EXCEPT ![d] = IF isEmpty(@) THEN g ELSE import(@, g)]
       /\ saveTimer' = [saveTimer EXCEPT ![d] = TRUE]
       /\ storeWrites' = [storeWrites EXCEPT ![d] = TRUE]
       /\ localBlocklist' = [localBlocklist EXCEPT ![d] = @ \cup getAllRevocations(registry'[d])]
       /\ UNCHANGED <<registryFile, births, broadcastTimer>>

\* What load leaves in a store whose document is new: the content of devices.loro
\* replaces that document.  A file that cannot be decoded is noticed after the old
\* document has been given up; where there is no file, or it cannot be read, the new
\* document stays.
load(d, new, readable) ==
  IF registryFile[d] = None \/ ~ readable THEN new ELSE registryFile[d]

\* What loadBlocklist leaves in the store: the field its own format has, or nothing;
\* without a file, or when it cannot be parsed, what load has put there.
loadBlocklist(d, g) ==
  CASE blocklistFile[d].by = "store" -> blocklistFile[d].ids
    [] blocklistFile[d].by = "network" -> {}
    [] OTHER -> getAllRevocations(g)

\* what DeviceBlocklist::load finds
networkLoad(d) == IF blocklistFile[d].by = "network" THEN blocklistFile[d].ids ELSE {}

\* The application starts: the constructor of the store, initialize, and the load of
\* the network's blocklist.  The broadcast callback is set later.
start(d) ==
  /\ d \notin running
  /\ running' = running \cup {d}
  /\ \E b \in Birth \ births, readable \in BOOLEAN :
       /\ IF readable THEN UNCHANGED budget
          ELSE registryFile[d] # None /\ Spend("failures")
       /\ registry' = [registry EXCEPT ![d] = load(d, initializeStructure(b), readable)]
       /\ births' = IF registryFile[d] = None \/ ~ readable THEN births \cup {b} ELSE births
       /\ saveTimer' = [saveTimer EXCEPT ![d] = readable /\ registryFile[d] \notin {None, Broken}]
  /\ localBlocklist' = [localBlocklist EXCEPT ![d] = loadBlocklist(d, registry'[d])]
  /\ blocked' = [blocked EXCEPT ![d] = networkLoad(d)]
  /\ UNCHANGED <<registryFile, broadcastTimer, blocklistFile, storeWrites, networkWrites,
                 blockSaved, revoking, verifying, mail, connVars, emptySent>>

-----------------------------------------------------------------------------
(* Connections.                                                             *)

connect(d) ==
  /\ d \in running \ (online \cup barred)
  /\ online' = online \cup {d}
  /\ UNCHANGED <<docVars, blockVars, running, revoking, verifying, mail, barred, links,
                 emptySent, budget>>

\* a socket fails, with or without what is on its way
drop(d) ==
  /\ d \in online
  /\ Spend("failures")
  /\ online' = online \ {d}
  /\ mail' \in {mail, [mail EXCEPT ![d] = {}]}
  /\ UNCHANGED <<docVars, blockVars, running, revoking, verifying, barred, links, emptySent>>

\* d connects to e: both sides send their registries to their peers.
dial(d, e) ==
  /\ d # e /\ {d, e} \subseteq running /\ <<d, e>> \notin links
  /\ e \notin blocked[d] /\ d \notin blocked[e]
  /\ Spend("dials")
  /\ links' = links \cup {<<d, e>>}
  /\ LET toD == {x \in Device : <<e, x>> \in links}
         toE == ByPeers(d) \cup {e}
     IN /\ mail' = [x \in Device |-> mail[x]
             \cup (IF x \in toE THEN {Update(d)} ELSE {})
             \cup (IF x \in toD THEN {Update(e)} ELSE {})]
        /\ emptySent' = (emptySent \/ isEmpty(registry[d])
                           \/ (toD # {} /\ isEmpty(registry[e])))
  /\ UNCHANGED <<docVars, blockVars, running, revoking, verifying, online, barred>>

hangUp(l) ==
  /\ l \in links
  /\ Spend("failures")
  /\ links' = links \ {l}
  /\ UNCHANGED <<docVars, blockVars, running, revoking, verifying, mail, online, barred,
                 emptySent>>

\* the timer of scheduleBroadcast
broadcast(d) ==
  /\ broadcastTimer[d]
  /\ broadcastTimer' = [broadcastTimer EXCEPT ![d] = FALSE]
  /\ LET to == ByRelay(d) \cup ByPeers(d)
     IN /\ \A e \in to : Cardinality(mail[e]) < MaxMail
        /\ mail' = Mailed(Update(d), to)
        /\ emptySent' = (emptySent \/ (to # {} /\ isEmpty(registry[d])))
  /\ UNCHANGED <<registry, registryFile, births, saveTimer, blockVars, running, revoking,
                 verifying, connVars, budget>>

-----------------------------------------------------------------------------
(* What a user does.                                                        *)

registerCurrentDevice(d) ==
  /\ d \in running /\ registry[d] # Broken
  /\ Spend("registers")
  /\ handleRegistryChange(d, registerDevice(registry[d], d), {})
  /\ UNCHANGED <<blocked, blocklistFile, storeWrites, networkWrites, blockSaved, running,
                 revoking, verifying, mail, connVars, emptySent>>

\* The new name is sent through the relay at once.
renameDevice(d, x) ==
  /\ d \in running /\ x \in getAllDevices(registry[d])
  /\ Spend("renames")
  /\ handleRegistryChange(d, registry[d], {})
  /\ mail' = Mailed(Rename(x), ByRelay(d))
  /\ UNCHANGED <<blocked, blocklistFile, storeWrites, networkWrites, blockSaved, running,
                 revoking, verifying, connVars, emptySent>>

\* revokeDevice awaits the signature, the save of the network's blocklist, and only
\* then tells the others.  The relay closes the socket of the revoked device.
revokeDevice(d, x) ==
  /\ d \in running /\ revoking[d] = None
  /\ x \in getAllDevices(registry[d]) \ (getAllRevocations(registry[d]) \cup {d})
  /\ Spend("revokes")
  /\ revoking' = [revoking EXCEPT ![d] = <<"sign", x>>]
  /\ UNCHANGED <<docVars, blockVars, running, verifying, mail, connVars, emptySent>>

revokeSigned(d) ==
  /\ \E x \in Device :
       /\ revoking[d] = <<"sign", x>>
       /\ revoking' = [revoking EXCEPT ![d] = IF registry[d] = Broken THEN None ELSE <<"block", x>>]
       /\ applyRevocation(d, x, "own")
  /\ UNCHANGED <<blocklistFile, blockSaved, running, verifying, mail, connVars, emptySent, budget>>

revokeAnnounced(d) ==
  /\ "own" \notin networkWrites[d]
  /\ \E x \in Device :
       /\ revoking[d] = <<"block", x>>
       /\ mail' = Mailed(Revocation(d, x), (ByRelay(d) \ {x}) \cup ByPeers(d))
       /\ barred' = IF d \in online THEN barred \cup {x} ELSE barred
       /\ online' = IF d \in online THEN online \ {x} ELSE online
  /\ revoking' = [revoking EXCEPT ![d] = None]
  /\ UNCHANGED <<docVars, blockVars, running, verifying, links, emptySent, budget>>

-----------------------------------------------------------------------------
(* What arrives.                                                            *)

\* handleSyncUpdate: a registry without devices is replaced, another one merges.  A
\* document without the maps throws: at once in the receiver, and in the receiver
\* that has adopted it, when the change is handled.
handleSyncUpdate(d, g) ==
  IF registry[d] = Broken THEN UNCHANGED <<docVars, localBlocklist, storeWrites>>
  ELSE IF isEmpty(registry[d]) /\ g = Broken
  THEN /\ registry' = [registry EXCEPT ![d] = Broken]
       /\ saveTimer' = [saveTimer EXCEPT ![d] = TRUE]
       /\ UNCHANGED <<registryFile, births, broadcastTimer, localBlocklist, storeWrites>>
  ELSE /\ handleRegistryChange(d, IF isEmpty(registry[d]) THEN g
                                  ELSE IF g = Broken THEN registry[d]
                                  ELSE import(registry[d], g), {})
       /\ storeWrites' = [storeWrites EXCEPT ![d] = TRUE]

Taken(d, m) == mail' = [mail EXCEPT ![d] = @ \ {m}]

onDeviceRegistryUpdate(d, from) ==
  /\ d \in running
  /\ \E m \in mail[d] :
       /\ m.kind = "update" /\ m.from = from
       /\ Taken(d, m)
       /\ handleSyncUpdate(d, m.doc)
  /\ UNCHANGED <<blocked, blocklistFile, networkWrites, blockSaved, running, revoking,
                 verifying, connVars, emptySent, budget>>

\* A revocation by a device the registry does not show is dropped.
onDeviceRevokeReceived(d) ==
  /\ d \in running
  /\ \E m \in mail[d] :
       /\ m.kind = "revoke"
       /\ Taken(d, m)
       /\ verifying' = [verifying EXCEPT ![d] =
            IF m.by \in getAllDevices(registry[d]) THEN @ \cup {m.of} ELSE @]
  /\ UNCHANGED <<docVars, blockVars, running, revoking, connVars, emptySent, budget>>

revocationVerified(d) ==
  /\ \E x \in verifying[d] :
       /\ verifying' = [verifying EXCEPT ![d] = @ \ {x}]
       /\ applyRevocation(d, x, "other")
  /\ UNCHANGED <<blocklistFile, blockSaved, running, revoking, mail, connVars, emptySent, budget>>

onDeviceRenameReceived(d) ==
  /\ d \in running
  /\ \E m \in mail[d] :
       /\ m.kind = "rename"
       /\ Taken(d, m)
       /\ IF m.of \in getAllDevices(registry[d])
          THEN handleRegistryChange(d, registry[d], {})
          ELSE UNCHANGED <<docVars, localBlocklist>>
  /\ UNCHANGED <<blocked, blocklistFile, storeWrites, networkWrites, blockSaved, running,
                 revoking, verifying, connVars, emptySent, budget>>

-----------------------------------------------------------------------------

Next ==
  \/ \E d \in Device :
       \/ save(d) \/ saveBlocklist(d) \/ kill(d) \/ start(d)
       \/ connect(d) \/ drop(d) \/ broadcast(d)
       \/ registerCurrentDevice(d) \/ revokeSigned(d) \/ revokeAnnounced(d)
       \/ onDeviceRevokeReceived(d) \/ revocationVerified(d) \/ onDeviceRenameReceived(d)
       \/ \E x \in Device : dial(d, x) \/ renameDevice(d, x) \/ revokeDevice(d, x)
                            \/ onDeviceRegistryUpdate(d, x)
       \/ \E caller \in {"own", "other"} : networkSave(d, caller) \/ networkSaveFails(d, caller)
  \/ \E l \in links : hangUp(l)

Spec == Init /\ [][Next]_vars

\* The timer of a broadcast fires, and the messages of one sender are handled while
\* there are any.
Fairness ==
  \A d \in Device :
    /\ WF_vars(broadcast(d))
    /\ \A e \in Device : WF_vars(onDeviceRegistryUpdate(d, e))
    /\ WF_vars(onDeviceRevokeReceived(d)) /\ WF_vars(onDeviceRenameReceived(d))
FairSpec == Spec /\ Fairness

-----------------------------------------------------------------------------
(* Properties.                                                              *)

\* type correctness; a registration is always in a container the document has, and
\* nothing runs on behalf of an application that is down
TypeOK ==
  /\ \A d \in Device :
       /\ registry[d] = Broken \/
            (registry[d] \in Registry /\ registry[d].born # {} /\
             \A p \in registry[d].devices \cup registry[d].revocations : p[1] \in registry[d].born)
       /\ registryFile[d] \in {None, Broken} \/ registryFile[d] \in Registry
       /\ blocklistFile[d].by \in {"nobody", "store", "network", "torn"}
       /\ blocklistFile[d].ids \cup localBlocklist[d] \cup blocked[d] \cup blockSaved[d]
            \cup verifying[d] \subseteq Device
       /\ networkWrites[d] \subseteq {"own", "other"}
       /\ revoking[d] = None \/ revoking[d] \in {"sign", "block"} \X Device
       /\ d \notin running =>
            /\ ~saveTimer[d] /\ ~broadcastTimer[d] /\ ~storeWrites[d] /\ d \notin online
            /\ networkWrites[d] = {} /\ mail[d] = {} /\ revoking[d] = None
  /\ births \subseteq Birth
  /\ online \cap barred = {}
  /\ \A l \in links : l[1] # l[2] /\ {l[1], l[2]} \subseteq running

\* "Revocations are append-only" (types.ts:63): while the same container is shown, no
\* step of a running device, a merge or an adoption included, hides a revocation.  It
\* holds as long as nobody has sent a registry without devices, which happens when
\* peers connect: then isEmpty no longer means that there is nothing to lose.
RevocationsStay ==
  [][\A d \in running \cap running' :
       (registry[d] # Broken /\ registry'[d] # Broken /\ ~emptySent') =>
         (Shown(registry'[d]) = Shown(registry[d]) =>
            getAllRevocations(registry[d]) \subseteq getAllRevocations(registry'[d]))]_vars

\* every registry, in memory, on disk or on its way, shows the containers of one birth
Shows(g, b) == g = Broken \/ Shown(g) = b
Together ==
  \E b \in births : \A d \in Device :
    /\ Shows(registry[d], b)
    /\ registryFile[d] # None /\ Shows(registryFile[d], b)
    /\ \A m \in mail[d] : m.kind = "update" => Shows(m.doc, b)

\* d's store keeps the document of its constructor although there is a file
KeepsNew(d) ==
  /\ registryFile[d] # None
  /\ \E b \in births' \ births : registry'[d] = initializeStructure(b)

\* "This ensures we properly adopt the remote state without CRDT merge conflicts"
\* (store.ts:425): once the devices of a user share one registry and have saved it, no
\* restart, crash, failed write, merge or adoption makes any of them show another one,
\* but for a start that cannot read the file.
NeverForks == [][Together /\ (\A d \in Device : ~ KeepsNew(d)) => Together']_vars

\* the devices that may sync, all of them there and sound
Members == Device \ barred
Assembled == \A d \in Members : d \in running \cap online /\ registry[d] # Broken
Agreed ==
  \A d, e \in Members :
    /\ getAllDevices(registry[d]) = getAllDevices(registry[e])
    /\ getAllRevocations(registry[d]) = getAllRevocations(registry[e])

\* "conflict-free synchronization of device information" (registry.ts:4): one change
\* while all are connected makes all of them show the same devices and revocations,
\* whatever they missed before, as long as nobody has sent a registry without devices.
Agree ==
  \A d \in Device :
    (d \in Members /\ broadcastTimer[d] /\ Assembled /\ ~emptySent)
      ~> (Agreed \/ ~Assembled \/ emptySent)

\* "The blocklist is persisted to disk so revocations survive app restarts"
\* (blocklist.rs:6): what the network's last save has written is there when the
\* application starts again, unless the file was cut short when it died.
BlocklistSurvives ==
  [][\A d \in Device :
       (d \notin running /\ d \in running' /\ blocklistFile[d].by # "torn")
          => blockSaved[d] \subseteq blocked'[d]]_vars
=============================================================================
