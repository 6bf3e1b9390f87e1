----------------------------- MODULE ObjectStore -----------------------------
(***************************************************************************)
(* The objects of a vault (src/lib/loro/objects.ts) on devices that edit   *)
(* the same document, import one another's and undo.                       *)
(*                                                                         *)
(* The Loro document has three kinds of containers.  A map keeps the write *)
(* with the greatest stamp, lamport time first, then peer.  A text and a   *)
(* list keep the elements inserted and not deleted by any device; their    *)
(* order is left out.  A body is always replaced as a whole, so the        *)
(* elements of a text are bodies, JSON documents; a text with two of them  *)
(* is not JSON any more.  Of an object, what the operations look at is     *)
(* kept: its type, whether it has the status its type may require, the     *)
(* array of relations, and its flags.                                      *)
(*                                                                         *)
(* An operation runs without await, hence is one step; the operations on   *)
(* many objects that treat each on its own are steps on one object.        *)
(***************************************************************************)
EXTENDS Integers, FiniteSets, FiniteSetsExt

CONSTANTS
  Device,     \* the Loro peers
  Id,
  Old,        \* the objects, notes with a body, that every device starts with
  None,
  Scenarios   \* which devices act, which operations a behaviour has, a bound on their number

ASSUME DeviceAssumption == Device \subseteq Nat \ {0}
ASSUME OldAssumption == Old \subseteq Id /\ IsFiniteSet(Old)
Scenario ==
  [devices : SUBSET Device, writes : Nat,
   may : SUBSET {"tags", "types", "bodies", "pins", "archive", "new", "other", "delete", "undo", "relay"}]
ASSUME ScenarioAssumption == Scenarios \subseteq Scenario

VARIABLES
  doc,       \* the document of each device
  cache,     \* objectsCache: None, or what getAll returns
  lamport,   \* Loro's clock
  saved,     \* what undo returns to: the document before the last group of steps
  captured,  \* the devices whose relay client was made in the settings: its callback has
             \* the store, that of an auto-connect, made before there is a store, has null
  writes,    \* the number of operations so far
  scenario

vars == <<doc, cache, lamport, saved, captured, writes, scenario>>

Type == {"note", "task"}
Object == [typeId : Type, status : BOOLEAN, tags : SUBSET Id,
           pinned : BOOLEAN, archived : BOOLEAN]
ASSUME NoneAssumption == None \notin Object
Stamp == Nat \X (Device \cup {0})
Body == [stamp : Stamp, n : Nat, id : Id, mentions : SUBSET Id, json : BOOLEAN]
Pin == [stamp : Stamp, n : Nat, id : Id]

-----------------------------------------------------------------------------
(* The document.                                                            *)

Objects(D) == [i \in Id |-> D.objects[i].value]
Visible(D) == D.bodies \ D.erased
Pins(D) == D.pins \ D.unpinned
Of(S, i) == {e \in S : e.id = i}

\* validateProperties: a task has a status
Valid(o) == o.typeId = "task" => o.status

\* new elements with the data of those in S
Older(x, y) ==
  \/ x.stamp[1] < y.stamp[1]
  \/ x.stamp[1] = y.stamp[1] /\ x.stamp[2] < y.stamp[2]
Before(x, e) == Older(x, e) \/ (x.stamp = e.stamp /\ x.n < e.n)
Copies(S, s) ==
  {[e EXCEPT !.stamp = s, !.n = Cardinality({x \in S : Before(x, e)})] : e \in S}

\* objectsMap.set
Set(D, i, o, s) == [D EXCEPT !.objects[i] = [stamp |-> s, value |-> o]]

\* the text of i is deleted and another inserted
Rewritten(D, i, body, s) ==
  [D EXCEPT !.erased = @ \cup Of(Visible(D), i),
            !.bodies = @ \cup {[body EXCEPT !.stamp = s, !.n = 1, !.id = i]}]

NewBody(mentions) ==
  [stamp |-> <<0, 0>>, n |-> 1, id |-> CHOOSE i \in Id : TRUE,
   mentions |-> mentions, json |-> TRUE]

\* setContent: the text is written before update validates the object
Touched(D, S, s) ==
  [i \in Id |-> IF i \in S /\ Valid(D.objects[i].value)
                THEN [stamp |-> s, value |-> D.objects[i].value] ELSE D.objects[i]]
WithContent(D, i, body, s) ==
  [Rewritten(D, i, body, s) EXCEPT !.objects = Touched(D, {i}, s)]

\* the bodies that can be parsed, and mention something in T
Mentioning(D, S, T) ==
  {v \in Visible(D) : /\ v.id \in S /\ D.objects[v.id].value # None
                      /\ Of(Visible(D), v.id) = {v}
                      /\ v.json /\ v.mentions \cap T # {}}

\* the bodies that take the place of those in V
Stripped(V, T, s) == {[v EXCEPT !.stamp = s, !.n = 1, !.mentions = @ \ T] : v \in V}

\* mentions of T are removed from the bodies of the objects in S
Unmentioned(D, S, T, s) ==
  LET bodies == Mentioning(D, S, T) IN
  [D EXCEPT !.objects = Touched(D, {v.id : v \in bodies}, s),
            !.erased = @ \cup bodies,
            !.bodies = @ \cup Stripped(bodies, T, s)]

\* the relations filtered[i] are written to the objects i \in S
Untagged(D, S, filtered, s) ==
  [D EXCEPT !.objects = [i \in Id |-> IF i \in S
     THEN [stamp |-> s, value |-> [@[i].value EXCEPT !.tags = filtered[i]]] ELSE @[i]]]

\* what indexOf and delete(index, 1) take from the pinned list for the objects in T
FirstPins(D, T) ==
  {R \in SUBSET {p \in Pins(D) : p.id \in T} :
     \A i \in T : Cardinality(Of(R, i)) = Min({1, Cardinality(Of(Pins(D), i))})}

Deleted(D, T, R, s) ==
  LET existing == {i \in T : D.objects[i].value # None} IN
  [D EXCEPT !.objects = [i \in Id |-> IF i \in existing
                                      THEN [stamp |-> s, value |-> None] ELSE @[i]],
            !.unpinned = @ \cup {p \in R : p.id \in existing}]

\* Loro: a document exported by another device is imported
Merged(D, E) ==
  [objects |-> [i \in Id |-> IF Older(D.objects[i], E.objects[i])
                             THEN E.objects[i] ELSE D.objects[i]],
   bodies |-> D.bodies \cup E.bodies, erased |-> D.erased \cup E.erased,
   pins |-> D.pins \cup E.pins, unpinned |-> D.unpinned \cup E.unpinned]

\* UndoManager: writes that make D what B was
Undone(D, B, s) ==
  [objects |-> [i \in Id |-> IF Objects(D)[i] = Objects(B)[i] THEN D.objects[i]
                             ELSE [stamp |-> s, value |-> Objects(B)[i]]],
   bodies |-> D.bodies \cup Copies(Visible(B) \ Visible(D), s),
   erased |-> D.erased \cup (Visible(D) \ Visible(B)),
   pins |-> D.pins \cup Copies(Pins(B) \ Pins(D), s),
   unpinned |-> D.unpinned \cup (Pins(D) \ Pins(B))]

-----------------------------------------------------------------------------
(* The operations of ObjectStore on device d.                               *)

Get(d, i) == doc[d].objects[i].value
Exists(d, i) == Get(d, i) # None
Now(d) == <<lamport[d] + 1, d>>
Unused(i) == \A x \in Device : doc[x].objects[i].stamp = <<0, 0>> /\ ~ Exists(x, i)

\* what getAll({ includeArchived: true }) returns
All(d) == IF cache[d] = None THEN Objects(doc[d]) ELSE cache[d]
Listed(d) == {i \in Id : All(d)[i] # None /\ ~ All(d)[i].archived}

\* the operation leaves document D and cache c; what is done within a second of
\* the step before is undone together with it (kept where the scenario has undo)
write(d, D, c) ==
  /\ d \in scenario.devices
  /\ writes < scenario.writes
  /\ writes' = writes + 1
  /\ doc' = [doc EXCEPT ![d] = D]
  /\ cache' = [cache EXCEPT ![d] = c]
  /\ lamport' = [lamport EXCEPT ![d] = @ + 1]
  /\ IF "undo" \in scenario.may
     THEN \E before \in {doc[d], saved[d]} \ {None} : saved' = [saved EXCEPT ![d] = before]
     ELSE saved' = saved
  /\ UNCHANGED <<captured, scenario>>

\* (wrong) what is cached is the list without archived objects
getAllListed(d) ==
  /\ d \in scenario.devices
  /\ cache[d] = None
  /\ cache' = [cache EXCEPT ![d] = [i \in Listed(d) |-> Get(d, i)]]
  /\ UNCHANGED <<doc, lamport, saved, captured, writes, scenario>>

\* a view reads the list of objects
getAll(d) ==
  /\ d \in scenario.devices
  /\ cache[d] = None
  /\ cache' = [cache EXCEPT ![d] = Objects(doc[d])]
  /\ UNCHANGED <<doc, lamport, saved, captured, writes, scenario>>

create(d, i, type) ==
  /\ "new" \in scenario.may
  /\ Unused(i)
  /\ write(d, Set(doc[d], i, [typeId |-> type, status |-> type = "task", tags |-> {},
                              pinned |-> FALSE, archived |-> FALSE], Now(d)), None)

\* duplicate: a task gets a status; the text is copied, JSON or not
duplicate(d, i, j) ==
  /\ "new" \in scenario.may
  /\ Exists(d, i)
  /\ Unused(j)
  /\ LET copy == [Get(d, i) EXCEPT !.status = @ \/ Get(d, i).typeId = "task",
                                   !.pinned = FALSE, !.archived = FALSE]
         D == Set(doc[d], j, copy, Now(d))
         text == Of(Visible(D), i)
         body == [mentions |-> UNION {v.mentions : v \in text},
                  json |-> Cardinality(text) = 1 /\ \A v \in text : v.json]
     IN  write(d, IF text = {} THEN D
                  ELSE WithContent(D, j, [NewBody(body.mentions) EXCEPT !.json = body.json],
                                   Now(d)), None)

\* update, when the object is valid
update(d, i, o) ==
  /\ Valid(o)
  /\ write(d, Set(doc[d], i, o, Now(d)), None)

\* what is not kept of an object is written: setProperty, markProcessed, updateMany,
\* setPriorityMany and setStatusMany of a task with a status, assignToProjectMany
markProcessed(d, i) ==
  /\ "other" \in scenario.may
  /\ Exists(d, i)
  /\ update(d, i, Get(d, i))

\* addTagToMany and relations set one by one
addTag(d, i, t) ==
  /\ "tags" \in scenario.may
  /\ Exists(d, i) /\ All(d)[t] # None /\ t # i
  /\ t \notin Get(d, i).tags
  /\ update(d, i, [Get(d, i) EXCEPT !.tags = @ \cup {t}])

removeTag(d, i, t) ==
  /\ "tags" \in scenario.may
  /\ Exists(d, i)
  /\ t \in Get(d, i).tags
  /\ update(d, i, [Get(d, i) EXCEPT !.tags = @ \ {t}])

setStatus(d, i) ==
  /\ "types" \in scenario.may
  /\ Exists(d, i)
  /\ Get(d, i).typeId = "task" /\ ~ Get(d, i).status
  /\ update(d, i, [Get(d, i) EXCEPT !.status = TRUE])

\* changeTypeMany writes to the map itself: no validation, and the cache is left
changeType(d, i, type) ==
  /\ "types" \in scenario.may
  /\ Exists(d, i)
  /\ Get(d, i).typeId # type
  /\ write(d, Set(doc[d], i, [Get(d, i) EXCEPT !.typeId = type], Now(d)), cache[d])

setContent(d, i, mentions) ==
  /\ "bodies" \in scenario.may
  /\ Exists(d, i)
  /\ write(d, WithContent(doc[d], i, NewBody(mentions), Now(d)),
           IF Valid(Get(d, i)) THEN None ELSE cache[d])

\* (wrong) an object that is pinned is pinned again
pinAgain(d, i) ==
  /\ "pins" \in scenario.may
  /\ Exists(d, i)
  /\ write(d, [Set(doc[d], i, [Get(d, i) EXCEPT !.pinned = TRUE], Now(d))
               EXCEPT !.pins = @ \cup {[stamp |-> Now(d), n |-> 1, id |-> i]}], None)

\* a pin or an unpinned object is written without validation
pin(d, i) ==
  /\ "pins" \in scenario.may
  /\ Exists(d, i)
  /\ ~ Get(d, i).pinned
  /\ write(d, [Set(doc[d], i, [Get(d, i) EXCEPT !.pinned = TRUE], Now(d))
               EXCEPT !.pins = @ \cup {[stamp |-> Now(d), n |-> 1, id |-> i]}], None)

unpin(d, i) ==
  /\ "pins" \in scenario.may
  /\ Exists(d, i)
  /\ Get(d, i).pinned
  /\ \E R \in FirstPins(doc[d], {i}) :
       write(d, [Set(doc[d], i, [Get(d, i) EXCEPT !.pinned = FALSE], Now(d))
                 EXCEPT !.unpinned = @ \cup R], None)

\* the side bar's list, getPinnedObjects, in another order replaces the list
reorderPinned(d) ==
  LET shown == {p \in Pins(doc[d]) : Exists(d, p.id) /\ Get(d, p.id).pinned} IN
  /\ "pins" \in scenario.may
  /\ Cardinality(shown) > 1
  /\ write(d, [doc[d] EXCEPT !.unpinned = @ \cup Pins(doc[d]),
                             !.pins = @ \cup Copies(shown, Now(d))], cache[d])

\* (wrong) the cache is left
archiveQuietly(d, i, archived) ==
  /\ "archive" \in scenario.may
  /\ Exists(d, i)
  /\ Get(d, i).archived # archived
  /\ write(d, Set(doc[d], i, [Get(d, i) EXCEPT !.archived = archived], Now(d)), cache[d])

\* archive and unarchive
archive(d, i, archived) ==
  /\ "archive" \in scenario.may
  /\ Exists(d, i)
  /\ Get(d, i).archived # archived
  /\ write(d, Set(doc[d], i, [Get(d, i) EXCEPT !.archived = archived], Now(d)), None)

\* a view that shows one object: mentions in the objects listed, then delete
deleteObject(d, i) ==
  /\ "delete" \in scenario.may
  /\ Exists(d, i)
  /\ \E R \in FirstPins(doc[d], {i}) :
       write(d, Deleted(Unmentioned(doc[d], Listed(d) \ {i}, {i}, Now(d)), {i}, R, Now(d)),
             None)

\* delete by the views that clean nothing (tags, empty daily notes)
delete(d, i) ==
  /\ "delete" \in scenario.may
  /\ Exists(d, i)
  /\ \E R \in FirstPins(doc[d], {i}) :
       write(d, Deleted(doc[d], {i}, R, Now(d)), None)

\* deleteMany: those of the list of all objects that it updates because they relate
\* to T, those of them whose update throws, and the document with S updated
Related(d, T) == {i \in Id \ T : All(d)[i] # None /\ All(d)[i].tags \cap T # {}}
Throwing(d, T) == {i \in Related(d, T) : ~ Exists(d, i) \/ ~ Valid(Get(d, i))}

\* (wrong) the list leaves archived objects out
CleanedListed(d, T, S) ==
  Untagged(Unmentioned(doc[d], Listed(d) \ T, T, Now(d)),
           S \cap Listed(d), [i \in Id |-> All(d)[i].tags \ T], Now(d))

Cleaned(d, T, S) ==
  Untagged(Unmentioned(doc[d], {i \in Id \ T : All(d)[i] # None}, T, Now(d)),
           S, [i \in Id |-> All(d)[i].tags \ T], Now(d))

\* it has made the list, which the first change of an object drops
CacheAfter(d, D) == IF D.objects = doc[d].objects THEN All(d) ELSE None

deleteMany(d, T) ==
  /\ "delete" \in scenario.may
  /\ Throwing(d, T) = {}
  /\ \E R \in FirstPins(doc[d], T) :
       LET D == Deleted(Cleaned(d, T, Related(d, T)), T, R, Now(d)) IN
       write(d, D, CacheAfter(d, D))

\* the first update that throws ends it: nothing is deleted
deleteManyThrows(d, T) ==
  /\ "delete" \in scenario.may
  /\ Throwing(d, T) # {}
  /\ \E S \in SUBSET (Related(d, T) \ Throwing(d, T)) :
       LET D == Cleaned(d, T, S) IN write(d, D, CacheAfter(d, D))

\* UndoManager.undo; refreshData follows, which leaves the cache
undo(d) ==
  /\ "undo" \in scenario.may
  /\ saved[d] # None
  /\ writes < scenario.writes
  /\ writes' = writes + 1
  /\ doc' = [doc EXCEPT ![d] = Undone(@, saved[d], Now(d))]
  /\ lamport' = [lamport EXCEPT ![d] = @ + 1]
  /\ saved' = [saved EXCEPT ![d] = None]
  /\ UNCHANGED <<cache, captured, scenario>>

\* an update from x is imported, which leaves cache c.  Undoing what was done
\* before an import is left out
receive(d, x, c) ==
  /\ {d, x} \subseteq scenario.devices
  /\ doc' = [doc EXCEPT ![d] = Merged(@, doc[x])]
  /\ cache' = [cache EXCEPT ![d] = c]
  /\ lamport' = [lamport EXCEPT ![d] = Max({@, lamport[x]})]
  /\ saved' = [saved EXCEPT ![d] = None]
  /\ UNCHANGED <<captured, writes, scenario>>

\* from a local peer, and from the relay: there the cache is cleared through the store
\* that connect has captured
onSyncReceived(d, x) == receive(d, x, None)
onRemoteChange(d, x) ==
  /\ "relay" \in scenario.may
  /\ receive(d, x, IF d \in captured THEN None ELSE cache[d])

\* connect in the settings
connect(d) ==
  /\ "relay" \in scenario.may
  /\ d \in scenario.devices \ captured
  /\ captured' = captured \cup {d}
  /\ UNCHANGED <<doc, cache, lamport, saved, writes, scenario>>

Init ==
  /\ doc = [d \in Device |->
       [objects |-> [i \in Id |->
          [stamp |-> <<0, 0>>,
           value |-> IF i \in Old
                     THEN [typeId |-> "note", status |-> FALSE, tags |-> {},
                           pinned |-> FALSE, archived |-> FALSE]
                     ELSE None]],
        bodies |-> {[NewBody({}) EXCEPT !.id = i] : i \in Old}, erased |-> {},
        pins |-> {}, unpinned |-> {}]]
  /\ cache = [d \in Device |-> None]
  /\ lamport = [d \in Device |-> 0]
  /\ saved = [d \in Device |-> None]
  /\ captured = {}
  /\ writes = 0
  /\ scenario \in Scenarios

Next ==
  \E d \in Device :
    \/ getAll(d) \/ undo(d) \/ reorderPinned(d) \/ connect(d)
    \/ \E x \in Device \ {d} : onSyncReceived(d, x) \/ onRemoteChange(d, x)
    \/ \E i \in Id : \/ pin(d, i) \/ unpin(d, i) \/ setStatus(d, i) \/ markProcessed(d, i)
                     \/ delete(d, i) \/ deleteObject(d, i)
                     \/ \E archived \in BOOLEAN : archive(d, i, archived)
                     \/ \E type \in Type : create(d, i, type) \/ changeType(d, i, type)
                     \/ \E mentions \in SUBSET (Id \ {i}) : setContent(d, i, mentions)
                     \/ \E t \in Id : \/ addTag(d, i, t) \/ removeTag(d, i, t)
                                      \/ duplicate(d, i, t)
    \/ \E T \in SUBSET {i \in Id : All(d)[i] # None} \ {{}} :
         deleteMany(d, T) \/ deleteManyThrows(d, T)

Spec == Init /\ [][Next]_vars

-----------------------------------------------------------------------------
(* Properties.                                                              *)

\* Every variable has its shape; what was deleted from a text or a list was in it.
TypeOK ==
  /\ \A d \in Device :
       /\ \A i \in Id : /\ doc[d].objects[i].stamp \in Stamp
                        /\ doc[d].objects[i].value \in Object \cup {None}
       /\ doc[d].bodies \subseteq Body /\ doc[d].erased \subseteq doc[d].bodies
       /\ doc[d].pins \subseteq Pin /\ doc[d].unpinned \subseteq doc[d].pins
  /\ cache \in [Device -> [Id -> Object \cup {None}] \cup {None}]
  /\ lamport \in [Device -> Nat]
  /\ captured \subseteq Device

\* the list that getAll keeps is what the document holds
Honest(d) == cache[d] # None => cache[d] = Objects(doc[d])

\* Views are shown what the document holds: only changeTypeMany, an undo and an import
\* from the relay after an auto-connect may leave an old list behind, until the next
\* operation that drops it.
CacheKept ==
  [][\A d \in Device : Honest(d) =>
       \/ Honest(d)'
       \/ undo(d)
       \/ \E i \in Id, type \in Type : changeType(d, i, type)
       \/ d \notin captured /\ \E x \in Device : onRemoteChange(d, x)]_vars

\* a pinned object is in the list once, any other object is not; a text is one body
Tidy(D) ==
  \A i \in Id :
    /\ Cardinality(Of(Pins(D), i)) =
         IF Objects(D)[i] # None /\ Objects(D)[i].pinned THEN 1 ELSE 0
    /\ Cardinality(Of(Visible(D), i)) <= 1

\* Flags, list and texts stay in step whatever one device does, deletes and
\* undoes; only the import of what another device did may separate them.
OnlyMergesUntidy ==
  [][\A d \in Device :
       Tidy(doc[d]) /\ (saved[d] # None => Tidy(saved[d])) =>
         \/ Tidy(doc'[d])
         \/ \E x \in Device : onSyncReceived(d, x) \/ onRemoteChange(d, x)]_vars

\* deleteMany from an honest list deletes what it was asked to, every relation to
\* it and every mention of it in a text that can be read, in archived objects too,
\* and changes nothing else of an object.
DeleteManyIsExact ==
  [][\A d \in Device, T \in SUBSET Id :
       Honest(d) /\ T # {} /\ deleteMany(d, T) =>
         \A i \in Id :
           /\ Objects(doc'[d])[i] =
                IF i \in T \/ ~ Exists(d, i) THEN None
                ELSE [Get(d, i) EXCEPT !.tags = @ \ T]
           /\ i \in T \/ ~ Exists(d, i) \/ Mentioning(doc'[d], {i}, T) = {}]_vars

\* The merge of two devices' edits of one note is a text that can be read.
BodiesReadable ==
  \A d \in Device, i \in Id : Cardinality(Of(Visible(doc[d]), i)) <= 1
=============================================================================
