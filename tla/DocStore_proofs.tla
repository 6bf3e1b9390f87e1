--------------------------- MODULE DocStore_proofs ---------------------------
(***************************************************************************)
(* Proofs about DocStore, for any devices, edits and bounds: its type      *)
(* invariant, that a save survives restarts, and that it implements Vault. *)
(*                                                                         *)
(* A step that merges (load, receive, remoteChange) is a Merge of Vault    *)
(* only because every copy of a vault, in memory, on disk, on its way or   *)
(* on the relay, holds edits that were made (Known).                       *)
(***************************************************************************)
EXTENDS DocStore, TLAPS

OnlyMade(S) == S \subseteq made

\* every copy of a vault holds edits that were made
Known ==
  /\ \A d \in Device : OnlyMade(documents[d]) /\ (file[d] = Torn \/ OnlyMade(file[d]))
  /\ \A d \in Device : \A S \in writing[d] \cup received[d] : OnlyMade(S)
  /\ OnlyMade(relayed)

-----------------------------------------------------------------------------
(* The type invariant.                                                      *)

\* Every variable keeps its shape: in particular a torn file never gets into
\* memory.
THEOREM TypeCorrect == Spec => []TypeOK
<1>1. Init => TypeOK
  BY BoundAssumption DEF Init, TypeOK
<1>2. TypeOK /\ [Next]_vars => TypeOK'
  <2> SUFFICES ASSUME TypeOK, [Next]_vars
               PROVE  TypeOK'
    OBVIOUS
  <2>1. CASE UNCHANGED vars
    BY <2>1 DEF TypeOK, vars
  \* a bound that is spent stays a natural number
  <2>2. ASSUME NEW kind \in Kind, Spend(kind)
        PROVE  budget' \in Budget
    BY <2>2 DEF TypeOK, Budget, Spend
  <2>3. ASSUME NEW d \in Device, debouncedSave(d) \/ autoSave(d)
        PROVE  TypeOK'
    <3>1. startWrite(d) /\ saveTimer' \in [Device -> BOOLEAN]
      <4>1. saveTimer \in [Device -> BOOLEAN]
        BY DEF TypeOK
      <4> QED
        BY <2>3, <4>1 DEF debouncedSave, autoSave
    <3>2. budget' \in Budget
      BY <3>1, <2>2 DEF startWrite, TypeOK, Kind
    <3>3. writing' \in [Device -> SUBSET SUBSET Edit]
      BY <3>1 DEF startWrite, TypeOK
    <3>4. endangered' \in [Device -> BOOLEAN]
      <4>1. Endangers(d) \in BOOLEAN
        BY DEF Endangers
      <4> QED BY <3>1, <4>1 DEF startWrite, TypeOK
    <3> QED
      BY <3>1, <3>2, <3>3, <3>4 DEF startWrite, TypeOK, connVars
  <2>4. ASSUME NEW d \in Device,
               \/ load(d) \/ loadFails(d)
               \/ \E S \in SUBSET Edit : written(d, S) \/ writeFails(d, S)
        PROVE  TypeOK'
    <3>1. CASE load(d)
      <4>1. documents' \in [Device -> SUBSET Edit]
        BY <3>1 DEF load, TypeOK
      <4>2. loading' \in [Device -> {"reading", "loaded", "failed"}]
        BY <3>1 DEF load, TypeOK
      <4> QED BY <3>1, <4>1, <4>2 DEF load, TypeOK, connVars, diskVars
    <3>2. ASSUME NEW S \in SUBSET Edit, written(d, S)
          PROVE  TypeOK'
      BY <3>2 DEF written, TypeOK, connVars
    <3>3. CASE loadFails(d)
      <4>1. budget' \in Budget
        BY <3>3, <2>2 DEF loadFails, Kind
      <4> QED
        BY <3>3, <4>1 DEF loadFails, TypeOK, connVars, diskVars
    <3>4. ASSUME NEW S \in SUBSET Edit, writeFails(d, S)
          PROVE  TypeOK'
      <4>1. budget' \in Budget
        BY <3>4, <2>2 DEF writeFails, Kind
      <4>2. PICK cut \in BOOLEAN : /\ file' = [file EXCEPT ![d] = IF cut THEN Torn ELSE @]
                                  /\ endangered' = [endangered EXCEPT ![d] = @ \/ cut]
        BY <3>4 DEF writeFails
      <4>3. \A x \in Device : file'[x] = Torn \/ file'[x] \in SUBSET Edit
        <5>1. \A x \in Device : file'[x] = Torn \/ file'[x] = file[x]
          BY <4>2
        <5> QED
          BY <5>1 DEF TypeOK
      <4>4. endangered' \in [Device -> BOOLEAN]
        BY <4>2 DEF TypeOK
      <4>5. writing' \in [Device -> SUBSET SUBSET Edit]
        BY <3>4 DEF writeFails, TypeOK
      <4> QED
        BY <3>4, <4>1, <4>3, <4>4, <4>5 DEF writeFails, TypeOK, connVars
    <3> QED
      BY <2>4, <3>1, <3>2, <3>3, <3>4
  <2>5. ASSUME NEW d \in Device, kill(d)
        PROVE  TypeOK'
    <3>1. budget' \in Budget
      BY <2>5, <2>2 DEF kill, TypeOK, Kind
    <3>2. \A x \in Device : file'[x] = Torn \/ file'[x] \in SUBSET Edit
      <4>1. PICK left \in {file[d]} \cup IF writing[d] = {} THEN {} ELSE {Torn} \cup writing[d] :
                  file' = [file EXCEPT ![d] = left]
        BY <2>5 DEF kill
      <4>2. left = Torn \/ left \in SUBSET Edit
        BY <4>1 DEF TypeOK
      <4>3. \A x \in Device : file'[x] = file[x] \/ file'[x] = left
        BY <4>1
      <4> QED BY <4>2, <4>3 DEF TypeOK
    <3> QED
      BY <2>5, <3>1, <3>2 DEF kill, TypeOK
  <2>6. ASSUME NEW d \in Device,
               restoreAll(d) \/ \E e \in Edit : edit(d, e) \/ handleContentChange(d, e)
        PROVE  TypeOK'
    <3>1. CASE restoreAll(d)
      BY <3>1, <2>2 DEF restoreAll, refreshData, sync, TypeOK, connVars, diskVars, Kind
    <3>2. ASSUME NEW e \in Edit, edit(d, e)
          PROVE  TypeOK'
      <4>1. budget' \in Budget
        BY <3>2, <2>2 DEF edit, make, Kind
      <4> QED
        BY <3>2, <4>1 DEF edit, make, refreshData, sync, TypeOK, connVars, diskVars
    <3>3. ASSUME NEW e \in Edit, handleContentChange(d, e)
          PROVE  TypeOK'
      <4>1. budget' \in Budget
        BY <3>3, <2>2 DEF handleContentChange, make, Kind
      <4> QED
        BY <3>3, <4>1 DEF handleContentChange, make, TypeOK, connVars, diskVars
    <3> QED
      BY <2>6, <3>1, <3>2, <3>3
  <2>7. ASSUME NEW d \in Device, NEW x \in Device, link(d, x) \/ unlink(d, x)
        PROVE  TypeOK'
    <3>1. CASE link(d, x)
      <4>1. budget' \in Budget
        BY <3>1, <2>2 DEF link, TypeOK, Kind
      <4>2. localTimer' \in [Device -> BOOLEAN] /\ cloudTimer' \in [Device -> BOOLEAN]
        BY <3>1 DEF link, TypeOK
      <4>3. links' \subseteq {l \in Device \X Device : l[1] # l[2]}
        <5>1. d # x /\ links' \subseteq links \cup {<<d, x>>, <<x, d>>}
          BY <3>1 DEF link
        <5> QED
          BY <5>1 DEF TypeOK
      <4>4. UNCHANGED <<documents, made, starts, loading, diskVars, saveTimer, received,
                        online, relayed, unannounced>>
        BY <3>1 DEF link
      <4> QED
        BY <4>1, <4>2, <4>3, <4>4 DEF TypeOK, diskVars
    <3>2. CASE unlink(d, x)
      <4>1. budget' \in Budget
        BY <3>2, <2>2 DEF unlink, TypeOK, Kind
      <4>2. received' \in [Device -> SUBSET SUBSET Edit]
        BY <3>2 DEF unlink, TypeOK
      <4> QED
        BY <3>2, <4>1, <4>2 DEF unlink, TypeOK, diskVars
    <3> QED
      BY <2>7, <3>1, <3>2
  <2>8. ASSUME NEW d \in Device,
               localBroadcast(d) \/ \E S \in SUBSET Edit : receive(d, S)
        PROVE  TypeOK'
    <3>1. CASE localBroadcast(d)
      <4>1. received' \in [Device -> SUBSET SUBSET Edit]
        BY <3>1 DEF localBroadcast, TypeOK
      <4>2. unannounced' \in [Device -> SUBSET Edit]
        BY <3>1 DEF localBroadcast, TypeOK
      <4> QED
        BY <3>1, <4>1, <4>2 DEF localBroadcast, TypeOK, diskVars
    <3>2. ASSUME NEW S \in SUBSET Edit, receive(d, S)
          PROVE  TypeOK'
      BY <3>2 DEF receive, refreshData, sync, TypeOK, diskVars
    <3> QED
      BY <2>8, <3>1, <3>2
  <2>9. ASSUME NEW d \in Device,
               connectCloud(d) \/ cloudBroadcast(d) \/ remoteChange(d)
        PROVE  TypeOK'
    <3>1. CASE connectCloud(d)
      BY <3>1, <2>2 DEF connectCloud, TypeOK, diskVars, Kind
    <3>2. CASE cloudBroadcast(d)
      BY <3>2 DEF cloudBroadcast, TypeOK, connVars, diskVars
    <3>3. CASE remoteChange(d)
      <4>1. unannounced' \in [Device -> SUBSET Edit]
        BY <3>3 DEF remoteChange, TypeOK
      <4> QED
        BY <3>3, <4>1 DEF remoteChange, TypeOK, connVars, diskVars
    <3> QED
      BY <2>9, <3>1, <3>2, <3>3
  <2> QED
    BY <2>1, <2>3, <2>4, <2>5, <2>6, <2>7, <2>8, <2>9 DEF Next
<1> QED
  BY <1>1, <1>2, PTL DEF Spec

-----------------------------------------------------------------------------
(* A save survives.                                                         *)

\* SavedSurvives is not inductive: what a write under way will leave in the file must
\* have all that was saved before it, and a save that returns must have been of
\* documents that are still in memory.
Kept(d) ==
  /\ file[d] # Torn /\ saved[d] \subseteq file[d]
  /\ loading[d] = "loaded" => saved[d] \subseteq documents[d]
  /\ \A S \in writing[d] : /\ loading[d] = "loaded"
                          /\ saved[d] \subseteq S /\ S \subseteq documents[d]
                          /\ \A T \in writing[d] : T = S
Safe ==
  /\ file = [d \in Device |-> file[d]]
  /\ \A d \in Device : endangered[d] \/ Kept(d)

\* What a save that returned has written is in memory again after every restart whose
\* load succeeds, unless writes overlapped, were cut short, or ran before load (store.ts):
\* for any order of saves, rejected saves, merges, kills and loads.
THEOREM SavedIsThere == Spec => []SavedSurvives
<1>1. Init => Safe
  BY TornAssumption DEF Init, Safe, Kept
<1>2. TypeOK /\ Safe /\ [Next]_vars => Safe'
  <2> SUFFICES ASSUME TypeOK, Safe, [Next]_vars
               PROVE  Safe'
    OBVIOUS
  \* a step that leaves the file alone, and forgets nothing
  <2>1. ASSUME UNCHANGED <<file, writing, saved, endangered, loading>>,
               \A d \in Device : documents[d] \subseteq documents'[d]
        PROVE  Safe'
    BY <2>1 DEF Safe, Kept
  <2>2. ASSUME NEW d \in Device, debouncedSave(d) \/ autoSave(d)
        PROVE  Safe'
    <3>1. startWrite(d)
      BY <2>2 DEF debouncedSave, autoSave
    <3>2. /\ UNCHANGED <<file, saved, loading, documents>>
          /\ writing'[d] = writing[d] \cup {documents[d]}
          /\ endangered'[d] = (endangered[d] \/ Endangers(d))
          /\ \A x \in Device : x # d => writing'[x] = writing[x] /\ endangered'[x] = endangered[x]
      BY <3>1 DEF startWrite, TypeOK
    <3>3. ~ Endangers(d) => loading[d] = "loaded" /\ \A S \in writing[d] : S = documents[d]
      BY DEF Endangers
    <3>4. ASSUME NEW x \in Device, x # d PROVE endangered'[x] \/ Kept(x)'
      BY <3>2, <3>4 DEF Safe, Kept
    <3>5. endangered'[d] \/ Kept(d)'
      <4>1. SUFFICES ASSUME ~ endangered[d], ~ Endangers(d) PROVE Kept(d)'
        BY <3>2
      <4>2. /\ loading[d] = "loaded" /\ \A S \in writing[d] : S = documents[d]
            /\ file[d] # Torn /\ saved[d] \subseteq file[d] /\ saved[d] \subseteq documents[d]
        BY <3>3, <4>1 DEF Safe, Kept
      <4>3. \A S \in writing'[d] : S = documents[d]
        BY <3>2, <4>2
      <4> QED
        BY <3>2, <4>2, <4>3 DEF Kept
    <3> QED
      BY <3>2, <3>4, <3>5 DEF Safe
  <2>3. ASSUME NEW d \in Device, NEW S \in SUBSET Edit, written(d, S)
        PROVE  Safe'
    <3>1. /\ S \in writing[d] /\ UNCHANGED <<documents, loading, endangered>>
          /\ writing'[d] = writing[d] \ {S} /\ file'[d] = S /\ saved'[d] = saved[d] \cup S
          /\ \A x \in Device : x # d => /\ writing'[x] = writing[x] /\ file'[x] = file[x]
                                       /\ saved'[x] = saved[x]
      BY <2>3 DEF written, TypeOK, Safe
    <3>2. S # Torn /\ file' = [x \in Device |-> file'[x]]
      BY <2>3, TornAssumption DEF written, Safe
    <3> QED
      BY <3>1, <3>2 DEF Safe, Kept
  <2>4. ASSUME NEW d \in Device, NEW S \in SUBSET Edit, writeFails(d, S)
        PROVE  Safe'
    <3>1. PICK cut \in BOOLEAN : /\ file' = [file EXCEPT ![d] = IF cut THEN Torn ELSE @]
                                /\ endangered' = [endangered EXCEPT ![d] = @ \/ cut]
      BY <2>4 DEF writeFails
    <3>2. /\ UNCHANGED <<documents, loading, saved>> /\ writing'[d] = writing[d] \ {S}
          /\ \A x \in Device : x # d => /\ writing'[x] = writing[x] /\ file'[x] = file[x]
                                       /\ endangered'[x] = endangered[x]
      BY <2>4, <3>1 DEF writeFails, TypeOK, Safe
    <3>3. file' = [x \in Device |-> file'[x]]
      BY <3>1 DEF Safe
    <3>4. endangered'[d] \/ (file'[d] = file[d] /\ endangered'[d] = endangered[d])
      BY <3>1 DEF TypeOK, Safe
    <3>5. ASSUME NEW x \in Device, x # d PROVE endangered'[x] \/ Kept(x)'
      BY <3>2, <3>5 DEF Safe, Kept
    <3>6. endangered'[d] \/ Kept(d)'
      BY <3>2, <3>4 DEF Safe, Kept
    <3> QED
      BY <3>3, <3>5, <3>6 DEF Safe
  <2>5. ASSUME NEW d \in Device, loadFails(d)
         PROVE  Safe'
    <3>1. /\ UNCHANGED <<file, writing, saved, endangered, documents>>
          /\ loading[d] = "reading" /\ loading'[d] = "failed"
          /\ \A x \in Device : x # d => loading'[x] = loading[x]
      BY <2>5 DEF loadFails, diskVars, TypeOK
    <3> QED
      BY <3>1 DEF Safe, Kept
  <2>6. ASSUME NEW d \in Device, load(d)
        PROVE  Safe'
    <3>1. UNCHANGED <<file, writing, saved, endangered>> /\ loading[d] = "reading"
      BY <2>6 DEF load, diskVars
    <3>2. \A x \in Device : x # d => documents'[x] = documents[x] /\ loading'[x] = loading[x]
      BY <2>6 DEF load, TypeOK
    <3>3. file[d] # Torn => loading'[d] = "loaded" /\ documents'[d] = documents[d] \cup file[d]
      BY <2>6 DEF load, TypeOK
    <3>4. ASSUME NEW x \in Device, x # d PROVE endangered'[x] \/ Kept(x)'
      BY <3>1, <3>2, <3>4 DEF Safe, Kept
    <3>5. endangered'[d] \/ Kept(d)'
      BY <3>1, <3>3 DEF Safe, Kept
    <3> QED
      BY <3>1, <3>4, <3>5 DEF Safe
  <2>7. ASSUME NEW d \in Device, kill(d)
        PROVE  Safe'
    <3>1. /\ UNCHANGED saved /\ loading'[d] = "reading" /\ writing'[d] = {}
          /\ endangered'[d] = (endangered[d] \/ writing[d] # {})
          /\ writing[d] = {} => file'[d] = file[d]
          /\ \A x \in Device : x # d => /\ documents'[x] = documents[x] /\ file'[x] = file[x]
                                       /\ loading'[x] = loading[x] /\ writing'[x] = writing[x]
                                       /\ endangered'[x] = endangered[x]
      BY <2>7 DEF kill, TypeOK, Safe
    <3>2. file' = [x \in Device |-> file'[x]]
      BY <2>7 DEF kill, Safe
    <3>3. ASSUME NEW x \in Device, x # d PROVE endangered'[x] \/ Kept(x)'
      BY <3>1, <3>3 DEF Safe, Kept
    <3>4. endangered'[d] \/ Kept(d)'
      <4>1. CASE endangered[d] \/ writing[d] # {}
        BY <3>1, <4>1
      <4>2. CASE ~ endangered[d] /\ writing[d] = {}
        BY <3>1, <4>2 DEF Safe, Kept
      <4> QED
        BY <4>1, <4>2
    <3> QED
      BY <3>2, <3>3, <3>4 DEF Safe
  <2>8. ASSUME NEW d \in Device,
               \/ restoreAll(d) \/ localBroadcast(d) \/ cloudBroadcast(d) \/ connectCloud(d)
               \/ \E x \in Device : link(d, x) \/ unlink(d, x)
        PROVE  Safe'
    <3>1. UNCHANGED <<file, writing, saved, endangered, loading, documents>>
      BY <2>8 DEF restoreAll, localBroadcast, cloudBroadcast, connectCloud, link, unlink, diskVars
    <3> QED
      BY <2>1, <3>1
  <2>9. ASSUME NEW d \in Device,
               \/ remoteChange(d) \/ \E S \in SUBSET Edit : receive(d, S)
               \/ \E e \in Edit : edit(d, e) \/ handleContentChange(d, e)
        PROVE  Safe'
    <3>1. UNCHANGED <<file, writing, saved, endangered, loading>>
      BY <2>9 DEF remoteChange, receive, edit, handleContentChange, diskVars
    <3>2. \E S : documents' = [documents EXCEPT ![d] = @ \cup S]
      BY <2>9 DEF remoteChange, receive, edit, handleContentChange, make
    <3>3. \A x \in Device : documents[x] \subseteq documents'[x]
      BY <3>2 DEF TypeOK
    <3> QED
      BY <2>1, <3>1, <3>3
  <2>10. CASE UNCHANGED vars
    BY <2>1, <2>10 DEF vars
  <2> QED
    BY <2>2, <2>3, <2>4, <2>5, <2>6, <2>7, <2>8, <2>9, <2>10 DEF Next
<1>3. Safe => SavedSurvives
  BY DEF Safe, Kept, SavedSurvives
<1> QED
  BY <1>1, <1>2, <1>3, TypeCorrect, PTL DEF Spec

-----------------------------------------------------------------------------
(* Every copy holds edits that were made.                                   *)

\* Nothing is ever merged, saved or sent that was not made.
LEMMA KnownHolds == Spec => []Known
<1>1. Init => Known
  BY DEF Init, Known, OnlyMade
<1>2. TypeOK /\ Known /\ [Next]_vars => Known'
  <2> SUFFICES ASSUME TypeOK, Known, [Next]_vars
               PROVE  Known'
    OBVIOUS
  <2> USE DEF Known, OnlyMade
  <2>1. CASE UNCHANGED vars
    BY <2>1 DEF vars
  <2>2. ASSUME NEW d \in Device, debouncedSave(d) \/ autoSave(d)
        PROVE  Known'
    BY <2>2 DEF debouncedSave, autoSave, startWrite, TypeOK, connVars
  <2>3. ASSUME NEW d \in Device, load(d) \/ loadFails(d)
        PROVE  Known'
    BY <2>3 DEF load, loadFails, TypeOK, connVars, diskVars
  <2>4. ASSUME NEW d \in Device, kill(d)
        PROVE  Known'
    <3>1. PICK left \in {file[d]} \cup IF writing[d] = {} THEN {} ELSE {Torn} \cup writing[d] :
                file' = [file EXCEPT ![d] = left]
      BY <2>4 DEF kill
    <3>2. left = Torn \/ left \subseteq made
      BY <3>1
    <3>3. \A x \in Device : file'[x] = Torn \/ file'[x] \subseteq made
      BY <3>1, <3>2
    <3> QED
      BY <2>4, <3>3 DEF kill, TypeOK
  <2>5. ASSUME NEW d \in Device, restoreAll(d)
        PROVE  Known'
    BY <2>5 DEF restoreAll, connVars, diskVars
  <2>6. ASSUME NEW d \in Device, NEW e \in Edit, edit(d, e) \/ handleContentChange(d, e)
        PROVE  Known'
    BY <2>6 DEF edit, handleContentChange, make, TypeOK, connVars, diskVars
  <2>7. ASSUME NEW d \in Device, NEW x \in Device, link(d, x) \/ unlink(d, x)
        PROVE  Known'
    BY <2>7 DEF link, unlink, TypeOK, diskVars
  <2>8. ASSUME NEW d \in Device, localBroadcast(d)
        PROVE  Known'
    BY <2>8 DEF localBroadcast, TypeOK, diskVars
  <2>9. ASSUME NEW d \in Device, NEW S \in SUBSET Edit,
               written(d, S) \/ writeFails(d, S) \/ receive(d, S)
        PROVE  Known'
    <3>1. CASE written(d, S)
      BY <3>1 DEF written, TypeOK, connVars
    <3>2. CASE receive(d, S)
      BY <3>2 DEF receive, TypeOK, diskVars
    <3>3. CASE writeFails(d, S)
      <4>1. \A x \in Device : file'[x] = Torn \/ file'[x] = file[x]
        BY <3>3 DEF writeFails
      <4>2. \A x \in Device : writing'[x] \subseteq writing[x]
        BY <3>3 DEF writeFails, TypeOK
      <4> QED
        BY <3>3, <4>1, <4>2 DEF writeFails, connVars
    <3> QED
      BY <2>9, <3>1, <3>2, <3>3
  <2>10. ASSUME NEW d \in Device, connectCloud(d) \/ cloudBroadcast(d) \/ remoteChange(d)
         PROVE  Known'
    BY <2>10 DEF connectCloud, cloudBroadcast, remoteChange, TypeOK, connVars, diskVars
  <2> QED
    BY <2>1, <2>2, <2>3, <2>4, <2>5, <2>6, <2>7, <2>8, <2>9, <2>10 DEF Next
<1> QED
  BY <1>1, <1>2, TypeCorrect, PTL DEF Spec

-----------------------------------------------------------------------------
(* The refinement.                                                          *)

\* DocStore implements Vault: whatever is saved, cut short, loaded, broadcast
\* and imported in whatever order, a running device never loses an edit from
\* memory and never gets one that nobody made.
THEOREM Refines == Spec => Promise
<1>1. Init => ImplementsVault!Init
  BY DEF Init, ImplementsVault!Init
<1>2. TypeOK /\ Known /\ [Next]_vars => [ImplementsVault!Next]_<<documents, made, starts>>
  <2> SUFFICES ASSUME TypeOK, Known, [Next]_vars
               PROVE  ImplementsVault!Next \/ UNCHANGED <<documents, made, starts>>
    OBVIOUS
  <2>1. CASE UNCHANGED vars
    BY <2>1 DEF vars
  \* saving, timers and connections leave the vaults alone
  <2>2. ASSUME NEW d \in Device,
               \/ debouncedSave(d) \/ autoSave(d) \/ restoreAll(d) \/ localBroadcast(d)
               \/ cloudBroadcast(d) \/ connectCloud(d) \/ loadFails(d)
               \/ \E S \in SUBSET Edit : written(d, S) \/ writeFails(d, S)
               \/ \E x \in Device : link(d, x) \/ unlink(d, x)
        PROVE  UNCHANGED <<documents, made, starts>>
    BY <2>2 DEF debouncedSave, autoSave, startWrite, restoreAll, localBroadcast,
                cloudBroadcast, connectCloud, loadFails, written, writeFails, link, unlink
  <2>3. ASSUME NEW d \in Device, NEW e \in Edit, edit(d, e) \/ handleContentChange(d, e)
        PROVE  ImplementsVault!Make(d)
    <3>1. make(d, e) /\ UNCHANGED starts
      BY <2>3 DEF edit, handleContentChange
    <3>2. e \notin made
      BY <3>1, EditAssumption DEF make
    <3> QED
      BY <3>1, <3>2 DEF make, ImplementsVault!Make
  <2>4. ASSUME NEW d \in Device, NEW S \in SUBSET made,
               documents' = [documents EXCEPT ![d] = @ \cup S], UNCHANGED <<made, starts>>
        PROVE  ImplementsVault!Merge(d)
    BY <2>4 DEF ImplementsVault!Merge
  <2>5. ASSUME NEW d \in Device, load(d)
        PROVE  ImplementsVault!Merge(d) \/ UNCHANGED <<documents, made, starts>>
    BY <2>4, <2>5 DEF load, Known, OnlyMade
  <2>6. ASSUME NEW d \in Device, NEW S \in SUBSET Edit, receive(d, S)
        PROVE  ImplementsVault!Merge(d)
    BY <2>4, <2>6 DEF receive, Known, OnlyMade
  <2>7. ASSUME NEW d \in Device, remoteChange(d)
        PROVE  ImplementsVault!Merge(d)
    BY <2>4, <2>7 DEF remoteChange, Known, OnlyMade
  <2>8. ASSUME NEW d \in Device, kill(d)
        PROVE  ImplementsVault!Restart(d)
    BY <2>8 DEF kill, ImplementsVault!Restart
  <2> QED
    BY <2>1, <2>2, <2>3, <2>5, <2>6, <2>7, <2>8 DEF Next, ImplementsVault!Next
<1> QED
  BY <1>1, <1>2, TypeCorrect, KnownHolds, PTL DEF Spec, Promise, ImplementsVault!Spec
=============================================================================
