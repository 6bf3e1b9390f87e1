------------------------------- MODULE DocStore -------------------------------
(***************************************************************************)
(* LoroDocStore on each device (src/lib/loro/store.ts), with the timers of *)
(* ObjectContext and the callbacks of LocalSyncContext and SyncContext:    *)
(* edits, saves, kills and loads, broadcasts to local peers and to the     *)
(* relay, and the imports they cause elsewhere.                            *)
(*                                                                         *)
(* A document is the set of edits it contains and merging is union: Loro   *)
(* is external.  Imports run without await, so a timer never sees          *)
(* isImporting; what it does is keep refreshData, called from inside an    *)
(* import, from scheduling broadcasts.  A broadcast that fails at a peer   *)
(* is a connection that has ended.                                         *)
(***************************************************************************)
EXTENDS Naturals

CONSTANTS
  Device,
  Edit,          \* numbered in the order in which they are made
  Torn,          \* content of a file whose write was cut short
  Budgets        \* bounds on edits and restores, kills, connections to peers, broken
                 \* ones, connections to the relay, overlapping writes, and reads and
                 \* writes that fail: a behaviour takes one of these records

ASSUME EditAssumption == Edit \subseteq Nat
ASSUME TornAssumption == \A S \in SUBSET Edit : S # Torn
Kind == {"edits", "kills", "links", "unlinks", "clouds", "overlaps", "failures"}
Budget == [Kind -> Nat]
ASSUME BoundAssumption == Budgets \subseteq Budget

VARIABLES
  documents,     \* [Device -> the edits in memory]
  made,          \* the edits made so far
  starts,        \* [Device -> how often the application was started again]
  loading,       \* [Device -> progress of initialize in ObjectContext]
  file,          \* [Device -> store.loro]
  writing,       \* [Device -> the exports whose writeFile is under way]
  saveTimer,     \* [Device -> is the 300 ms timer of debouncedSave set?]
  saved,         \* [Device -> the edits in the exports whose save returned]
  endangered,    \* [Device -> could a save have written less than an earlier one?]
  links,         \* <<d, x>>: d and x are connected as local peers and x hears d
  localTimer,    \* [Device -> is localSyncDebounceTimer set?]
  received,      \* [Device -> exports from local peers to be imported]
  online,        \* devices whose client is connected to the relay
  relayed,       \* the edits the relay has
  cloudTimer,    \* [Device -> is syncDebounceTimer set?]
  unannounced,   \* [Device -> edits imported from the relay, or typed in a body, since
                 \* its last broadcast]
  budget         \* what is left of the run's bounds

diskVars == <<file, writing, saved, endangered>>
connVars == <<links, received, online>>
vars == <<documents, made, starts, loading, file, writing, saveTimer, saved, endangered,
          links, localTimer, received, online, relayed, cloudTimer, unannounced, budget>>

\* (bound) one more event of this kind, if the behaviour has one left
Spend(kind) ==
  /\ budget[kind] > 0
  /\ budget' = [budget EXCEPT ![kind] = @ - 1]

Hears(x, d) == <<d, x>> \in links
Linked(d, x) == Hears(x, d) \/ Hears(d, x)

-----------------------------------------------------------------------------
(* Timers.                                                                  *)

\* sync of LoroDocStore
sync(d) ==
  /\ localTimer' = [localTimer EXCEPT ![d] = TRUE]
  /\ cloudTimer' = [cloudTimer EXCEPT ![d] = @ \/ d \in online]

\* refreshData of ObjectContext, outside of an import
refreshData(d) ==
  /\ sync(d)
  /\ saveTimer' = [saveTimer EXCEPT ![d] = TRUE]

-----------------------------------------------------------------------------
(* The file.                                                                *)

\* a write may end up with less than an earlier one when they overlap, or when
\* it exports documents into which the file was not loaded
Endangers(d) ==
  loading[d] # "loaded" \/ \E S \in writing[d] : S # documents[d]

\* save: export, then writeFile
startWrite(d) ==
  /\ IF writing[d] \subseteq {documents[d]} THEN UNCHANGED budget ELSE Spend("overlaps")
  /\ writing' = [writing EXCEPT ![d] = @ \cup {documents[d]}]
  /\ endangered' = [endangered EXCEPT ![d] = @ \/ Endangers(d)]
  /\ UNCHANGED <<documents, made, starts, loading, file, saved, connVars, localTimer,
                 relayed, cloudTimer, unannounced>>

\* the timer of debouncedSave
debouncedSave(d) ==
  /\ saveTimer[d]
  /\ saveTimer' = [saveTimer EXCEPT ![d] = FALSE]
  /\ startWrite(d)

\* (wrong) the interval only saves what a timer still waits to save
autoSaveWaiting(d) ==
  /\ loading[d] = "loaded"
  /\ saveTimer[d]
  /\ saveTimer' = saveTimer
  /\ startWrite(d)

\* the interval of 30 s, once there is a document
autoSave(d) ==
  /\ loading[d] = "loaded"
  /\ saveTimer' = saveTimer
  /\ startWrite(d)

\* (wrong) a file that exists is not replaced
writtenNew(d, S) ==
  /\ S \in writing[d]
  /\ writing' = [writing EXCEPT ![d] = @ \ {S}]
  /\ file' = [file EXCEPT ![d] = IF @ = {} THEN S ELSE @]
  /\ saved' = [saved EXCEPT ![d] = @ \cup S]
  /\ UNCHANGED <<documents, made, starts, loading, saveTimer, endangered, connVars,
                 localTimer, relayed, cloudTimer, unannounced, budget>>

\* writeFile returns
written(d, S) ==
  /\ S \in writing[d]
  /\ writing' = [writing EXCEPT ![d] = @ \ {S}]
  /\ file' = [file EXCEPT ![d] = S]
  /\ saved' = [saved EXCEPT ![d] = @ \cup S]
  /\ UNCHANGED <<documents, made, starts, loading, saveTimer, endangered, connVars,
                 localTimer, relayed, cloudTimer, unannounced, budget>>

\* writeFile is rejected: the file may have been cut already, and nothing is told but the
\* log; the next save starts afresh
writeFails(d, S) ==
  /\ Spend("failures")
  /\ S \in writing[d]
  /\ writing' = [writing EXCEPT ![d] = @ \ {S}]
  /\ \E cut \in BOOLEAN :
       /\ file' = [file EXCEPT ![d] = IF cut THEN Torn ELSE @]
       /\ endangered' = [endangered EXCEPT ![d] = @ \/ cut]
  /\ UNCHANGED <<documents, made, starts, loading, saved, saveTimer, connVars, localTimer,
                 relayed, cloudTimer, unannounced>>

\* readFile is rejected, and initialize goes on without a document
loadFails(d) ==
  /\ Spend("failures")
  /\ loading[d] = "reading"
  /\ loading' = [loading EXCEPT ![d] = "failed"]
  /\ UNCHANGED <<documents, made, starts, diskVars, saveTimer, connVars, localTimer, relayed,
                 cloudTimer, unannounced>>

\* (wrong) the file takes the place of the documents
loadOver(d) ==
  /\ loading[d] = "reading"
  /\ IF file[d] = Torn
     THEN /\ loading' = [loading EXCEPT ![d] = "failed"]
          /\ UNCHANGED documents
     ELSE /\ loading' = [loading EXCEPT ![d] = "loaded"]
          /\ documents' = [documents EXCEPT ![d] = file[d]]
  /\ UNCHANGED <<made, starts, diskVars, saveTimer, connVars, localTimer, relayed,
                 cloudTimer, unannounced, budget>>

\* load of LoroDocStore, and the rest of initialize in ObjectContext
load(d) ==
  /\ loading[d] = "reading"
  /\ IF file[d] = Torn
     THEN /\ loading' = [loading EXCEPT ![d] = "failed"]
          /\ UNCHANGED documents
     ELSE /\ loading' = [loading EXCEPT ![d] = "loaded"]
          /\ documents' = [documents EXCEPT ![d] = @ \cup file[d]]
  /\ UNCHANGED <<made, starts, diskVars, saveTimer, connVars, localTimer, relayed,
                 cloudTimer, unannounced, budget>>

\* the application ends, and starts again; a write under way leaves the old
\* file, the new one or a part of it
kill(d) ==
  /\ Spend("kills")
  /\ starts' = [starts EXCEPT ![d] = @ + 1]
  /\ documents' = [documents EXCEPT ![d] = {}]
  /\ loading' = [loading EXCEPT ![d] = "reading"]
  /\ \E left \in {file[d]} \cup IF writing[d] = {} THEN {} ELSE {Torn} \cup writing[d] :
       file' = [file EXCEPT ![d] = left]
  /\ writing' = [writing EXCEPT ![d] = {}]
  /\ endangered' = [endangered EXCEPT ![d] = @ \/ writing[d] # {}]
  /\ saveTimer' = [saveTimer EXCEPT ![d] = FALSE]
  /\ localTimer' = [localTimer EXCEPT ![d] = FALSE]
  /\ cloudTimer' = [cloudTimer EXCEPT ![d] = FALSE]
  /\ links' = {l \in links : d \notin {l[1], l[2]}}
  /\ online' = online \ {d}
  /\ received' = [received EXCEPT ![d] = {}]
  /\ unannounced' = [unannounced EXCEPT ![d] = {}]
  /\ UNCHANGED <<made, saved, relayed>>

-----------------------------------------------------------------------------
(* Edits.                                                                   *)

\* a new edit in the documents of d
make(d, e) ==
  /\ Spend("edits")
  /\ loading[d] = "loaded"
  /\ \A n \in Edit : n \in made <=> n < e
  /\ made' = made \cup {e}
  /\ documents' = [documents EXCEPT ![d] = @ \cup {e}]

\* the user changes an object, or restores one object from an earlier version;
\* both end with refreshData
edit(d, e) ==
  /\ make(d, e)
  /\ refreshData(d)
  /\ UNCHANGED <<starts, loading, diskVars, connVars, relayed, unannounced>>

\* the user types in the body of an object: scheduleSave, and no broadcast
handleContentChange(d, e) ==
  /\ make(d, e)
  /\ saveTimer' = [saveTimer EXCEPT ![d] = TRUE]
  /\ unannounced' = [unannounced EXCEPT ![d] = @ \cup {e}]
  /\ UNCHANGED <<starts, loading, diskVars, connVars, localTimer, cloudTimer, relayed>>

\* restoreFromVersion of everything imports a fork of the document, whose
\* edits are all there already
restoreAll(d) ==
  /\ Spend("edits")
  /\ loading[d] = "loaded"
  /\ refreshData(d)
  /\ UNCHANGED <<documents, made, starts, loading, diskVars, connVars, relayed,
                 unannounced>>

-----------------------------------------------------------------------------
(* Local peers.                                                             *)

\* (wrong) a device may connect to itself
linkAny(d, x) ==
  /\ Spend("links")
  /\ ~ Linked(d, x)
  /\ {loading[d], loading[x]} = {"loaded"}
  /\ links' = links \cup {<<d, x>>, <<x, d>>}
  /\ localTimer' = [localTimer EXCEPT ![d] = TRUE, ![x] = TRUE]
  /\ cloudTimer' = [i \in Device |-> cloudTimer[i] \/ i \in {d, x} \cap online]
  /\ UNCHANGED <<documents, made, starts, loading, diskVars, saveTimer, received,
                 online, relayed, unannounced>>

\* d dials x, and both schedule a broadcast; when it is cache_reconnect_all that dials,
\* what d receives is dropped
link(d, x) ==
  /\ Spend("links")
  /\ d # x /\ ~ Linked(d, x)
  /\ {loading[d], loading[x]} = {"loaded"}
  /\ \E drops \in BOOLEAN :
       links' = links \cup IF drops THEN {<<d, x>>} ELSE {<<d, x>>, <<x, d>>}
  /\ localTimer' = [localTimer EXCEPT ![d] = TRUE, ![x] = TRUE]
  /\ cloudTimer' = [i \in Device |-> cloudTimer[i] \/ i \in {d, x} \cap online]
  /\ UNCHANGED <<documents, made, starts, loading, diskVars, saveTimer, received, online, relayed,
                 unannounced>>

\* the connection ends; what is under way may still arrive or not
unlink(d, x) ==
  /\ Linked(d, x)
  /\ Spend("unlinks")
  /\ links' = links \ {<<d, x>>, <<x, d>>}
  /\ \E lost \in SUBSET {d, x} :
       received' = [i \in Device |-> IF i \in lost THEN {} ELSE received[i]]
  /\ UNCHANGED <<documents, made, starts, loading, diskVars, saveTimer, localTimer, online,
                 relayed, cloudTimer, unannounced>>

\* (wrong) nothing is sent while a save is under way
localBroadcastWhenIdle(d) ==
  /\ localTimer[d]
  /\ localTimer' = [localTimer EXCEPT ![d] = FALSE]
  /\ received' = [x \in Device |->
       IF Hears(x, d) /\ writing[d] = {} THEN received[x] \cup {documents[d]}
       ELSE received[x]]
  /\ unannounced' = [unannounced EXCEPT ![d] = {}]
  /\ UNCHANGED <<documents, made, starts, loading, diskVars, saveTimer, links, online, relayed,
                 cloudTimer, budget>>

\* localSyncDebounceTimer: the whole vault goes to every peer, heard or not
localBroadcast(d) ==
  /\ localTimer[d]
  /\ localTimer' = [localTimer EXCEPT ![d] = FALSE]
  /\ received' = [x \in Device |->
       IF Hears(x, d) THEN received[x] \cup {documents[d]} ELSE received[x]]
  /\ unannounced' = [unannounced EXCEPT ![d] = {}]
  /\ UNCHANGED <<documents, made, starts, loading, diskVars, saveTimer, links, online, relayed,
                 cloudTimer, budget>>

\* handleLocalSyncUpdate, then the refreshData of onSyncReceived, which is
\* called after the import
receive(d, S) ==
  /\ S \in received[d]
  /\ received' = [received EXCEPT ![d] = @ \ {S}]
  /\ documents' = [documents EXCEPT ![d] = @ \cup S]
  /\ refreshData(d)
  /\ UNCHANGED <<made, starts, loading, diskVars, links, online, relayed, unannounced,
                 budget>>

-----------------------------------------------------------------------------
(* The relay.                                                               *)

\* the client connects, on mount or when the user asks for it, and stays connected
connectCloud(d) ==
  /\ Spend("clouds")
  /\ d \notin online
  /\ online' = online \cup {d}
  /\ UNCHANGED <<documents, made, starts, loading, diskVars, saveTimer, links, received,
                 localTimer, relayed, cloudTimer, unannounced>>

\* syncDebounceTimer
cloudBroadcast(d) ==
  /\ cloudTimer[d]
  /\ cloudTimer' = [cloudTimer EXCEPT ![d] = FALSE]
  /\ relayed' = relayed \cup documents[d]
  /\ UNCHANGED <<documents, made, starts, loading, diskVars, saveTimer, connVars,
                 localTimer, unannounced, budget>>

\* handleRemoteUpdate and applyHistoricalUpdates: refreshData is called from
\* inside the import; the client may connect before load is done
remoteChange(d) ==
  /\ d \in online
  /\ ~ (relayed \subseteq documents[d])
  /\ documents' = [documents EXCEPT ![d] = @ \cup relayed]
  /\ unannounced' = [unannounced EXCEPT ![d] = @ \cup (relayed \ documents[d])]
  /\ saveTimer' = [saveTimer EXCEPT ![d] = TRUE]
  /\ UNCHANGED <<made, starts, loading, diskVars, connVars, localTimer, relayed,
                 cloudTimer, budget>>

-----------------------------------------------------------------------------
Init ==
  /\ documents = [d \in Device |-> {}]
  /\ made = {}
  /\ starts = [d \in Device |-> 0]
  /\ loading = [d \in Device |-> "reading"]
  /\ file = [d \in Device |-> {}]
  /\ writing = [d \in Device |-> {}]
  /\ saveTimer = [d \in Device |-> FALSE]
  /\ saved = [d \in Device |-> {}]
  /\ endangered = [d \in Device |-> FALSE]
  /\ links = {}
  /\ online = {}
  /\ localTimer = [d \in Device |-> FALSE]
  /\ received = [d \in Device |-> {}]
  /\ relayed = {}
  /\ cloudTimer = [d \in Device |-> FALSE]
  /\ unannounced = [d \in Device |-> {}]
  /\ budget \in Budgets

Next ==
  \E d \in Device :
    \/ debouncedSave(d) \/ autoSave(d) \/ load(d) \/ loadFails(d) \/ kill(d) \/ restoreAll(d)
    \/ localBroadcast(d) \/ cloudBroadcast(d) \/ remoteChange(d) \/ connectCloud(d)
    \/ \E S \in SUBSET Edit : written(d, S) \/ writeFails(d, S) \/ receive(d, S)
    \/ \E e \in Edit : edit(d, e) \/ handleContentChange(d, e)
    \/ \E x \in Device : link(d, x) \/ unlink(d, x)

Spec == Init /\ [][Next]_vars

Fairness ==
  \A d \in Device :
    /\ WF_vars(load(d)) /\ WF_vars(autoSave(d))
    /\ WF_vars(localBroadcast(d)) /\ WF_vars(cloudBroadcast(d))
    /\ \A S \in SUBSET Edit : WF_vars(written(d, S)) /\ WF_vars(receive(d, S))

FairSpec == Spec /\ Fairness

-----------------------------------------------------------------------------
(* Properties.                                                              *)

\* Every variable has the shape the code gives it.
TypeOK ==
  /\ documents \in [Device -> SUBSET Edit] /\ made \subseteq Edit /\ starts \in [Device -> Nat]
  /\ loading \in [Device -> {"reading", "loaded", "failed"}]
  /\ \A d \in Device : file[d] = Torn \/ file[d] \in SUBSET Edit
  /\ writing \in [Device -> SUBSET SUBSET Edit]
  /\ {saveTimer, endangered, localTimer, cloudTimer} \subseteq [Device -> BOOLEAN]
  /\ saved \in [Device -> SUBSET Edit]
  /\ links \subseteq {l \in Device \X Device : l[1] # l[2]}
  /\ received \in [Device -> SUBSET SUBSET Edit]
  /\ online \subseteq Device /\ relayed \subseteq Edit
  /\ unannounced \in [Device -> SUBSET Edit]
  /\ budget \in Budget

\* The vaults on the devices keep the promise of Vault: no step of saving,
\* loading, importing or broadcasting brings up an edit nobody made or drops
\* one from memory.
ImplementsVault ==
  INSTANCE Vault WITH vault <- documents
Promise == ImplementsVault!Spec

\* What a save that returned has written is in memory again after every
\* restart whose load succeeds, whatever saves were rejected, unless writes overlapped,
\* were cut short, or ran before load.
SavedSurvives ==
  \A d \in Device :
    ~ endangered[d] => /\ loading[d] = "loaded" => saved[d] \subseteq documents[d]
                       /\ loading[d] = "reading" => file[d] # Torn /\ saved[d] \subseteq file[d]

\* An edit in memory gets to the disk unless the application is killed, also when saves
\* are rejected, and when writes overlap and older exports replace newer ones.
ReachesDisk ==
  \A d \in Device, e \in Edit :
    (loading[d] = "loaded" /\ e \in documents[d])
      ~> (loading[d] # "loaded" \/ (file[d] # Torn /\ e \in file[d]))

\* What a device has when it gets a peer, makes, or hears from another peer, reaches the
\* peer while they stay connected and the peer hears it; only what came from the relay, or
\* was typed in a body, waits for the next broadcast.
ReachesPeer ==
  \A d \in Device : \A x \in Device \ {d}, e \in Edit :
    (Hears(x, d) /\ e \in documents[d] \ unannounced[d])
      ~> (~ Hears(x, d) \/ e \in documents[x])

\* When the user stops editing, the devices stop broadcasting.
ComesToRest == <>[](\A d \in Device : ~ localTimer[d])
=============================================================================
