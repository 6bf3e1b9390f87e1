# Skelenote: TLA+ models of sync

Skelenote is a local-first notes application (Tauri: a TypeScript front end and a
Rust back end). A vault is a set of Loro CRDT documents kept on each device. Two
mechanisms carry it from device to device: a WebSocket relay that stores
encrypted payloads (cloud sync), and TCP connections between devices on one
network (local sync). This directory models the concurrent and failure-prone
part of the program: what the devices, the relay and their stores do to one
another.

Paths below are relative to the repository root.

## 1. Inventory

| Part | Where | State it keeps | Operations |
|---|---|---|---|
| Relay storage | `sync-relay/src/storage.ts` | SQLite tables `updates`, `revoked_devices`, `device_registry`; an in-memory `currentSequence` | store, get after, compact, clear, revoke |
| Relay room | `sync-relay/src/sync-room.ts` | `connections`: sockets that said HELLO | one handler per message type, `addConnection`, `handleClose`, `close` |
| Relay server | `sync-relay/src/server.ts` | `rooms`: rooms held in memory | accept, idle clean-up, reset, stop |
| Cloudflare worker | `workers/sync-worker/src/` | the same room as a Durable Object | the same protocol |
| Sync client | `src/lib/sync/client.ts`, `connection.ts` | socket, status, `lastSequence`, reconnect timer | connect, disconnect, send, one handler per message type, flush |
| Offline queue | `src/lib/sync/persistent-queue.ts` | IndexedDB stores and a memory cache, `nextId` | initialize, enqueue, dequeue, clear, flushAll, close |
| Document store | `src/lib/loro/store.ts` | the CRDT documents, `isImporting`, two debounce timers | import, export, save, load, sync, restore a version |
| Object store | `src/lib/loro/objects.ts` | the map of objects, a text per body, the list of pinned objects, `objectsCache` | create, update, write a body, tag, pin, archive, delete, the same for many |
| React contexts | `src/contexts/SyncContext.tsx`, `ObjectContext.tsx`, `LocalSyncContext.tsx`, `DeviceRegistryContext.tsx`, `UndoContext.tsx` | which client is current, save timers, peer counts | connect, refresh, save, route local messages, revoke |
| Device registry | `src/lib/devices/` | a CRDT document of devices and revocations, its file, a blocklist | register, rename, revoke, merge or adopt |
| P2P network | `src-tauri/src/network/` | connected peers and their streams, blocklist, address cache, pairing sessions | accept, dial, broadcast, heartbeat, pair, block |
| Relations, versions | `src/lib/loro/{relations,backlink-index,versions,queries}.ts` | indexes derived from objects, version lists | link, scan, restore |
| Everything else | `src/components`, `src/hooks`, `src/lib/{semantic,import,notifications,tasks,...}`, `src-tauri/src/{crypto,mobile}` | views, search index, imports | mostly sequential or pure I/O |

### How the parts interact

- A user's edit changes the Loro document and calls `refreshData`
  (`src/contexts/ObjectContext.tsx:124`), which calls `LoroDocStore.sync()` and
  starts a save timer. `sync()` starts a 100 ms timer for the relay and a 50 ms
  timer for local peers; each exports the *whole* vault when it fires. Typing in the
  body of an object (`src/components/object/ObjectDetailView.tsx:362`) only starts
  the save timer: nobody is told until something else calls `sync()`.
- `SyncClient.sendUpdate` awaits `encrypt` (a call to the Rust back end) and then
  looks at the socket: it sends, or it hands the payload to the offline queue.
- The relay stores an UPDATE as a row, gives it a sequence number, and forwards
  it to the other sockets that said HELLO. It acknowledges HELLO only.
- A client that connects says HELLO with its `lastSequence`; the ACK says whether
  rows are waiting; the client asks for them with CATCH_UP and flushes its queue.
- A message from the relay awaits `decrypt`, is imported under `isImporting`
  (which keeps `refreshData` from broadcasting it again) and refreshes the views.
- A revocation is signed, entered in the CRDT registry, put on the local
  blocklist and sent to the relay, which stores it and closes the device's
  sockets with 4001.
- Local peers exchange the same exports over TCP, with no relay and no rows. Each
  device accepts and dials; both ends enter the other device in two tables of the
  Rust back end, which broadcasts to all of them and keeps a blocklist.
- A new peer makes both devices broadcast their vault and their registry. What
  comes over an accepted connection is handed to the front end by kind; over a
  dialed one, only updates are.
- The views read `ObjectStore.getAll`, which keeps its list until an operation or
  an import drops it. Undo writes to the document underneath.

### What is hard in it

Handlers of one process interleave at every `await`; sockets overlap, because
`connect()` only gives up when the present one is open; what a socket carried is
lost with it; an IndexedDB request succeeds before its transaction commits; a kill
leaves whatever IndexedDB, SQLite or the file system had committed; a read, a write,
an `encrypt` may fail, and most failures are only logged; two counters
(`currentSequence` and SQLite's AUTOINCREMENT; `nextId` and the row ids) have to
agree without a transaction around them. The list, at its lines, is under "hazards"
in `PROJECT.json`.

### What makes each part correct

| Part | Properties |
|---|---|
| Relay | The counter is the newest row's sequence; an ACK tells the truth; a HISTORY batch skips nothing; a revoked device has no session and is sent nothing. |
| Offline queue | Memory and database agree; an update whose transactions committed survives kills; an update vanishes by a failure or by one race of the flush only; a flush ends, unless its clear fails. |
| Sync client | HELLO first on every socket; it never claims rows that do not exist; it has every row when it is connected and at rest; it has handed over every edit but those typed in bodies since the last export; the others reach all connected devices. |
| Document store | A running device never loses an edit; what a save has written is there after a restart; an edit gets to the disk, and to every connected peer that hears; broadcasts end. |
| Device registry | A merge never hides a revocation; devices that share a registry go on sharing it, but for a start that cannot read its file; one change makes all agree; a blocklist outlives a restart. |
| P2P network | A blocked device gets no broadcast; a block outlives restarts but for three named ways to lose it; dead connections leave the table; broadcasts end; what is written to a listener is heard. |
| Object store | The list the views read is right; flags, pinned list and texts stay in step; `deleteMany` is exact; a body can be read. |

## 2. The modules

| Module | Models | Composes |
|---|---|---|
| `SyncRelay` | `sync-relay/src/{storage,sync-room,server}.ts` for one user | – |
| `OfflineQueue` | `persistent-queue.ts` and the methods of `client.ts` that use it, one IndexedDB request at a time | – |
| `CloudSync` | `client.ts` and the cloud half of `store.ts`, one client per device | `Relay == INSTANCE SyncRelay` |
| `Vault` | the abstract specification of sync: sets of edits that grow | – |
| `DocStore` | `store.ts` and `ObjectContext.tsx`: memory, file, timers, peers, relay | implements `Vault` |
| `PeerNetwork` | `src-tauri/src/network/{server,client,state,blocklist,commands}.rs` | – |
| `DeviceRegistry` | `src/lib/devices/`, `DeviceRegistryContext.tsx` and both blocklists, over relay and peers | – |
| `ObjectStore` | `src/lib/loro/objects.ts` on devices that merge and undo | – |
| `*_proofs` | the theorems about each of the seven components | extend the module |
| `Extremes` | lemmas on smallest and largest numbers of a set, and its order | used by the proofs |
| `MC_*` | instances for TLC; the `.cfg` files choose sizes and failures | |

Operators marked "(wrong)" are plausible slips, used to check that a property
notices them; no specification uses them.

### SyncRelay

State: the SQLite file (`updates` as a function from sequence to payload,
`autoincrement`, `revoked_devices`), the room in memory (`room`,
`currentSequence`, `attached`, `connections`) and the sockets (`readyState`,
`deviceId`, `greeted`, `down`). There is one action per message handler and one
each for accept, close, idle clean-up, reset, stop and crash. A handler runs
without `await`, hence one step.

- A payload is what decrypting and importing it yields, a set of edits, because
  clients only send exports of whole vaults. The relay never looks inside.
- `attached` holds the sockets whose callbacks belong to the live room. After an
  idle clean-up, the callbacks of a silent socket belong to a closed room, whose
  database throws; `handleMessage` catches that (`CanHandle`).
- A revoked socket is *closing* until its `close` event; the `ws` library drops
  what is sent to it (`send`).
- `handleSnapshotRequest` asks the first of the other sockets; here it is any of
  them, so the order of the JavaScript `Set` does not matter.
- The devices are an environment that keeps one rule, HELLO first. `CloudSync`
  shows that the client code keeps it (`ImplementsRelay`).
- `crash` is the death of the process. SQLite has committed what a statement
  returned from; a loss of power is not modelled.
- Left out: the `device_registry` table and its messages, DEVICE_RENAME, PING.

### OfflineQueue

The store is a function from id to update, `memoryCache` the copy in memory.
Each transaction that was started waits in `storeTx` (or `metaTx`), in the order in
which IndexedDB will run transactions on one store, with what its continuation
needs. The step in which a request succeeds also runs the continuation up to its
next `await`; the transaction is then in `writing` (or `saving`) until it commits in
a step of its own. `enqueue` is so resolved before its commits, while `flushAll`
waits for the commit of its clear (`oncomplete`). `sendUpdate` waits in
`encrypting`. `restart` keeps the database only, without what was not committed.

- Failures (`"fail"` in a scenario): `encryptFails` and `putFails` drop the update
  with a line in the log, as the `catch` of `sendUpdate` does; `saveFails` rejects
  an enqueue whose row stays; `abortPut` and `abortMeta` are commits that fail, which
  nobody listens to; after `clearFails` the flush throws and the status stays
  *syncing*.
- The caller of `sendUpdate` is unconstrained: the contract of the queue does not
  depend on `LoroDocStore`, which at present never calls it while offline.
- A new client starts when the old one has nothing left running; initialising a
  queue is one step and does not fail; what a kill leaves is what was committed.

### CloudSync

A socket is `<<device, attempt>>`, so `connect()` can make a new one while an old
one is still connecting or closing. Each direction is a FIFO queue, emptied when
the relay sees the socket close. `ws[d]` is `this.ws`: messages are handled on
whichever socket they came, answers go to `this.ws`. `encrypting` and
`decrypting` hold what waits for the back end; answers come in any order. A vault
is a set of edits and merging is union: the CRDT library is external. An edit
schedules an export; what is typed in a body (`handleContentChange`) does not:
`typed` is what was typed since the last export, and the next one takes it along. An
`encrypt` or a `decrypt` may fail, and what it was given is dropped (`"fails"`).
`Stable` says of a behaviour that sockets, relay and back end do not fail in it. The offline
queue is one step per operation here. The reconnect timer, the Retry button and
`SyncContext` are all `connect`, at any time: back-off delays are abstracted.
Left out: revocation, `disconnect()` by the user, local peers (whose arrival also
calls `sync()`), and messages the application never sends.

### Vault and DocStore

`Vault` says what sync promises whatever carries it: a vault is a set of edits; a
device makes new edits or merges edits that exist; only a restart takes them from
memory, and what is left comes back by merging. `DocStore` is the code:
`documents` and `file`, the exports being written (`writing`: saves may overlap,
and `writeFile` ends in any order), the 300 ms save timer and the 30 s interval,
the two broadcast timers of `sync()`, what a peer sent and was not imported yet.
`kill` leaves the old file, the new one or a torn one. `load` of a torn file
throws, and so does a read that fails; the application goes on without a document,
and a later import is saved over the file. A write may be rejected: both timers only
log it, and the next save writes the whole vault again. A link has a direction:
`<<d, x>>` in `links` says that x hears d. A connection of `cache_reconnect_all` has
one only, because its dialer reads and hands to nobody (`Hears`, `Linked`). A
broadcast that fails at a peer is the end of the connection.
`endangered` and `unannounced` are history: saves that could have
written less than an earlier one, and edits no broadcast has taken along yet, because
they came from the relay, whose import schedules none, or were typed in a body.
`isImporting` only matters to `refreshData` called during an
import, because imports run without `await`.

### PeerNetwork

A connection has two ends, each a task: handshake, check against the blocklist,
entry in `connected_peers`, entry in `peer_streams`, read loop, and removal from
both tables *by device id*, in separate steps. `wire` is what was written and not
read; with `WireSize = 0` a write waits for its read, as it does for a vault larger
than the buffers of TCP. A broadcast (`sending`) holds the read lock of
`peer_streams` from first to last write, so no entry is made or removed meanwhile
(`LockFree`). Three commands dial, with different checks and different fates of
the receiver (`Listens`). `block` is memory, disconnect and file in separate
steps; its save may fail.

`blocklist.json` has two writers. Before each `device_block` the front end's store
writes its own list in its own format (`storeSaving`), which the network reads as an
empty list, because every field has a serde default (`foreign`). After a start the
server runs at once, and `load` comes later: it reads the file and then replaces the
set, whatever was blocked in between (`loading`). `forgotten` is history: `load` has
read a file that was foreign or lost; `unsaved`: a write of the network failed. Every
registry that the store imports makes it write its list too (`handleSyncUpdate`).
That reading the file fails is left out. A heartbeat only writes PING: the end of
its loop closes nothing, so its time-out is not modelled. Left out: a handshake with
a different Skeleton Key, messages above `MAX_MESSAGE_SIZE`.

### DeviceRegistry

A registry is a Loro document whose two child maps are created by each device under
the same keys. Loro keeps one container of each after a merge, that of the largest
peer id, and the others' entries cannot be seen; hence a document is the set of
containers (`born`) with entries per container, and `Shown` picks one.
`handleSyncUpdate` adopts what it gets when its own registry is empty, and merges
otherwise. `load` has three outcomes: the file's document; after a read that fails,
the constructor's new document, with containers of a new birth (`KeepsNew`); after a
decoding that fails, a document without its maps. A failed write may leave either
file torn. That reading `blocklist.json` fails is left out. `revokeDevice` runs in
steps: sign, save on the network's blocklist, announce. Messages go by the relay
(`ByRelay`) and by peers (`ByPeers`: only what an accepted connection brings is
handed on). `blocklistFile` is one file with two writers, the TypeScript store and
the Rust network, each of which reads the other's format as an empty list. Names,
times and signatures are abstracted.

### ObjectStore

A document is a map of stamped values (the last writer wins, by Lamport time and
peer), a text per object and the list of pinned objects. Texts and lists keep what
was inserted and not deleted; order is left out. `setContent` replaces the whole
text, so a text is a set of bodies, and one with two is not JSON. Of an object,
its type, required status, relations and flags are kept; relations of all
properties are one array. `cache` is `objectsCache`. Undo returns the document to
one of two earlier ones (steps within a second are grouped); undo across an import
is left out. An import takes the sender's current document. `onSyncReceived` brings it
from a local peer and drops the cache; `onRemoteChange` brings it from the relay and
drops the cache of the store that `connect` had when it made the callback, which is
none after the connect of the start (`captured`). `deleteMany` is one
step, since it does not await, with a case of its own for an update that throws.

## 3. What is checked

All runs use `tlc -config <cfg> <module>`. "Violated" runs document places where
the code breaks what the repository says; see section 6.

| Run | Instance | Shows |
|---|---|---|
| `relay` | 2 devices, 3 sockets, 3 rows, batch 2, resets | the counter agrees with the table and `hasHistory` is true exactly when rows wait, until a reset; a revoked device has no session and is sent only rejections; batches skip nothing |
| `queue` | 3 updates, 1 connection and kills; 2 updates and 2 connections with `disconnect()` and kills, or with failures; 2 updates and 1 connection with failures and kills, or with failures and `disconnect()` | cache and database agree; a committed update survives; an update is lost by a failure or by one race of the flush; a flush ends unless its clear fails |
| `cloud` | 2 devices; scenarios without failures, with failing sockets, a restarting relay, offline edits, failing calls | every step is a step of `SyncRelay`; no device claims rows that do not exist; when nothing fails, devices at rest have delivered all edits but typed ones and, as long as one batch has room for all rows, have all rows, and edits reach every device that stays connected |
| `docstore` | 2 devices; edits with overlapping saves and a kill, rejected saves and a failed load, a connection that breaks, a kill of a connected device, the relay and peers | every step is a step of `Vault`; a save survives; edits reach disk, and the peers that hear |
| `peer` | 2 devices, 2 connections, one dials; blocks, registries, failures, PINGs, broadcasts, restarts | a blocked device gets broadcasts in one way only; blocks are lost in three ways only; broadcasts end; dead entries leave; listeners hear |
| `registry` | 2 devices, 3 documents; registrations, revocations, kills, failed reads and writes, peers | revocations stay; a shared registry forks by an unreadable file only; one change makes all agree |
| `objects` | 1 or 2 devices, 3 objects, 12 mixes of operations | the list that views read is right, but for three exceptions; one device keeps flags, list and texts in step; `deleteMany` is exact |
| `cloud_missed` | a socket fails between ACK and HISTORY | violated: the rows are never asked for again |
| `peer_stuck` | both devices dial and broadcast | violated: each write waits for the other's |
| `docstore_echo` | one edit, one connection | violated: two peers broadcast to each other for ever |
| `registry_restart` | one revocation, one restart | violated: the network's blocklist is empty |
| `objects_bodies` | two devices write one body | violated: the merged text is not JSON |

Each property of a passing run has a mutant: a plausible slip in one mapped
definition that makes TLC find it violated.

A property that the code breaks in one way is stated so that the way is named:
`HasHistoryIsTruthful` until a reset; `CacheCoherent` until a disconnect, a
kill or a row whose commit fails; `DurableSurvives` of what was committed, not of what
was resolved; `LostByFailureOrFlush` except by a failure or the race with the flush;
`FlushEnds` unless its clear fails; `BlockedGetsNoBroadcast` except over a connection
that had passed its check when the block was entered or read from disk;
`BlockSurvives` unless the network's write failed, the file was written over, or
`load` came after the block; `RevocationsStay` and `Agree` until a registry without
devices was sent; `NeverForks` but for a start that cannot read its file;
`SavedSurvives` unless writes overlapped, were cut short or ran before `load`;
`CacheKept` except by `changeTypeMany`, undo and an import from the relay after an
auto-connect; `Delivered`, `Converges` and `ReachesPeer` but for what was typed
(`ReachesPeer` also for what came from the relay) since the last export;
`CaughtUpWhenStable` and `Converges` while nothing fails and one batch has room for
all rows (a client asks for one batch only); `OnlyMergesUntidy` except by an import.
Everything else the code does is then checked to keep it.

### Bounds, and why they are enough

- Devices: two. The relay treats all devices but the sender alike, peers are
  handled pairwise, and the properties relate a sender, a receiver and what lies
  between.
- Rows: three with a batch of two in `SyncRelay`, so a batch is cut, a table has
  a gap after compaction, and a sequence outlives its row. The theorems remove
  this bound.
- `MaxUnread = 1` in `SyncRelay` guards new requests only; what is broadcast
  always goes into the queue. In `CloudSync`, where a request reaches the relay in
  `relayReceive`, the same guard is there with a value the run never reaches.
- Updates: a reused id needs two, an overlap of a flush and two enqueues three. A
  scenario with failures has two: any number of calls may fail in it.
- Connections: the second one meets what the first left behind.
- `Scenarios` and `Budgets` are sets of records. A behaviour takes one of them in
  `Init`, which bounds each kind of event in it. A set of such records stands for
  several instances in one run, each with the events that have to meet: a kill
  and overlapping writes, a block and a failed write, a reorder and a deletion.
- `MaxMail` in `DeviceRegistry` stops a new broadcast while older ones are on their
  way; it never drops one.
- `MaxSequence` in `CloudSync` is the number of edits handed over in the run; a
  relay at that bound does not take a further UPDATE, which then counts as under
  way, so no property of a device at rest looks at it. `HistoryLimit` is as large in
  that run, so its batches are never cut; `relay` cuts batches, and the theorems
  hold for any limit.
- Three births in `DeviceRegistry`: one per device and one, between them, for a
  start without a file or with one that cannot be read, so that each can be the one
  shown.
- `writes` in `ObjectStore`: two to four operations. Most operations have an
  effect on one object, and the worst sequences found have three (write, write,
  delete) and four (pin, undo, pin, delete).
- The theorems of section 4 remove all of these bounds from the properties they
  state.

Deadlock is checked for `SyncRelay`, which never stops. The others stop when all
updates, sockets and operations are used up, so their runs do not check it;
that nothing waits for ever before is what the liveness properties say.

### Fairness

Weak fairness of `Browser` in `OfflineQueue`: the event loop runs callbacks that are
due, IndexedDB executes requests and commits, the back end answers an `encrypt`, a
closed socket reports it; nothing is obliged to fail. Weak fairness of `Progress` in
`CloudSync`: sockets deliver, timers that were set fire, the back end answers. In
both, only finitely many of these steps can follow one another without a new
decision, so weak fairness of their disjunction makes each of them happen.
`DocStore` and `DeviceRegistry` have weak fairness of each timer, each write under
way and each handler of a message; `PeerNetwork` of each task of a connection, each
broadcast and each `block`: the Tokio scheduler runs every task that can go on, and
its locks are fair. Nothing obliges a user to edit, connect, block or revoke, a
socket to fail, or a process to restart.

## 4. What is proved

Eight modules of proofs, for every set of devices, sockets, connections, edits and
objects and every bound, from the named assumptions of the modules. Every safety
property that a passing run checks is a theorem.

| Module | Theorem | States |
|---|---|---|
| `SyncRelay_proofs` | `TypeCorrect` | `Spec => []TypeOK` |
| | `AckIsTruthful` | `Spec => [](SequenceAgrees /\ HasHistoryIsTruthful)` |
| | `HistoryHasNoGap` | `Spec => []HistoryIsGapFree` |
| | `RevokedHasNoSession` | `Spec => []NoRevokedSession` |
| | `RevokedGetsNothing` | `Spec => RevokedDeviceGetsNothing` |
| `OfflineQueue_proofs` | `TypeCorrect` | `Spec => [](TypeOK /\ Shape)` |
| | `CacheIsTheRows` | `Spec => []CacheCoherent` |
| | `DurableAreKept` | `Spec => []DurableSurvives` |
| | `OnlyFailuresAndFlushesLose` | `Spec => LostByFailureOrFlush` |
| `CloudSync_proofs` | `TypeCorrect` | `Spec => [](TypeOK /\ Relay!TypeOK)` |
| | `NobodyIsAhead` | `Spec => []NeverAhead` |
| | `Refines` | `Spec => ImplementsRelay`: `CloudSync` implements `SyncRelay` |
| | `NobodyMissesARow` | `Spec => []CaughtUpWhenStable` |
| | `EditsAreHandedOver` | `Spec => []Delivered` |
| `DocStore_proofs` | `TypeCorrect` | `Spec => []TypeOK` |
| | `SavedIsThere` | `Spec => []SavedSurvives` |
| | `Refines` | `Spec => Promise`: `DocStore` implements `Vault` |
| `PeerNetwork_proofs` | `TypeCorrect` | `Spec => [](TypeOK /\ Opened)` |
| | `BlockOutlivesRestarts` | `Spec => []BlockSurvives` |
| | `BlockedIsLeftOut` | `Spec => []BlockedGetsNoBroadcast` |
| `DeviceRegistry_proofs` | `TypeCorrect` | `Spec => [](TypeOK /\ Shape)` |
| | `RevocationsAreKept` | `Spec => RevocationsStay` |
| | `StayTogether` | `Spec => NeverForks` |
| `ObjectStore_proofs` | `TypeCorrect` | `Spec => [](TypeOK /\ Shape)` |
| | `CachePromise` | `Spec => CacheKept` |
| | `DeleteManyExact` | `Spec => DeleteManyIsExact` |
| | `OnlyMergesSeparate` | `Spec => OnlyMergesUntidy` |

The assumptions fix the types of the constants; say that `None`, `Torn` and `Broken`
are none of the values they stand beside (`NoneAssumption`, `TornAssumption`,
`DocAssumption`); hand `CloudSync` what `SyncRelay` assumes (`RelayAssumption`); and
take the objects that exist at the start to be finitely many (`OldAssumption`).

The arguments:

- `AckIsTruthful` needs `LogInv`: the counter's agreement is only kept by a
  handler because its room is in memory, and a handler runs only on attached
  sockets. So `LogInv` adds that there are attached sockets only while the room
  is in memory, and that no row is numbered above AUTOINCREMENT. When the room is
  created again its counter is `MaxSeq`, and `MaxSeqIsAutoincrement` says that this
  is AUTOINCREMENT's value: the newest row is always there, also after a
  compaction, which deletes first and inserts after. A reset breaks exactly this,
  hence `cleared` in the two properties.
- `HistoryHasNoGap` counts: the rows before a row in the batch are fewer than the
  limit, so those before any earlier row are fewer still (`FS_Subset`); the
  smallest row that is missing has none before it, so it is in the batch.
- `RevokedHasNoSession` is not inductive. A HELLO by a device with two sockets
  may be handled after its revocation, and a close may precede it. `SessionInv`
  adds where a socket can stand: registered ones are attached, attached ones are
  not yet closed, and an open attached one that was greeted is registered.
- `RevokedGetsNothing` follows step by step from `SessionInv`: each handler sends
  to registered sockets or to its own, and a revoked device's open sockets are
  neither registered nor greeted; only the rejection is left.
- `OfflineQueue` has one invariant, `Shape /\ Ids /\ Fresh /\ Mirror /\ Kept`. The
  properties speak of moments when nothing is under way; the invariant also says
  what the started transactions will do. `Ids`: the puts that wait ascend and are
  below `nextId`, and every `nextId` that waits to be saved or committed is above the
  ids written before it. `Fresh`: until a disconnect or a kill, no row has an id that
  will be given out. `Mirror`: the cache lists the rows and the row not committed yet
  by id, below every put that waits. `Kept`: what is durable has a row, below the
  saved `nextId` and below every put that waits, so that nothing can overwrite it.
  That the n-th entry of the cache is the n-th row is counted (`Listed`, `Placed`).
  `OnlyFailuresAndFlushesLose` follows from it step by step: where each action puts
  an update, and which put it into `failed`.
- `NobodyIsAhead`: what a device says comes from the relay's counter through
  messages on their way, in decryption and in `lastSequence`; `RelayInv` and
  `ClientInv` bound each by AUTOINCREMENT, and `Growth` keeps the bound when a row
  is inserted.
- `CloudSync_proofs!Refines` needs `HelloFirst` besides. `SyncRelay` takes anything
  but a HELLO only from a greeted socket. A client sends on `this.ws` when it is
  open, and then HELLO has been handled, was ignored by a closed room, or is first
  on its way. Every step is then a handler of the relay or leaves it alone.
- `NobodyMissesARow` and `EditsAreHandedOver` share `Calm`, which holds while
  nothing has failed, and says where a row and an edit can be. `Leaving`: an edit
  that a device has is stored, was typed since the last export, or waits for the
  timer, for `encrypt` or for the relay. `Coming`: a row is on the device, is being
  decrypted, is on its way, is asked for by a CATCH_UP, or is below the sequence in
  an ACK that says `hasHistory` and that a device which is not connected yet has
  still to read. At rest only the first is left. Every row is coming from the step
  in which HELLO registers the socket: later rows are broadcast to it, and an ACK
  that the device reads turns into a CATCH_UP. `BatchHasAll` is where `OneBatch` is
  used. `Devices` adds that a client says HELLO with 0 until its first ACK, so no
  row lies below what it asks for.
- `SavedIsThere`: `Kept(d)` says of a device that was not endangered that file and
  memory contain what was saved, and that exports being written lie between what
  was saved and what is in memory, and are all the same: otherwise the order in
  which they end would matter.
- `DocStore_proofs!Refines` needs to know that whatever is merged was made: `Known`
  says so of memory, file, exports being written or on their way, and of the relay.
  A step is then an edit, a merge, a restart or a stutter of `Vault`, and
  `TypeCorrect` keeps a torn file out of the union that `load` makes.
- `BlockOutlivesRestarts`: `load` reads the file, so `OnDisk` says what is in it
  (`Recorded`, device by device): unless a write failed or something was forgotten, a
  blocked device whose own `block` has gone past the save, as long as the file is the
  network's and not `foreign`; and of a device whose `load` has not come yet, that
  what was acknowledged is in the file or in what `load` has read.
  `BlockedIsLeftOut`: whoever enters the table of streams has asked the blocklist
  before; `Screened` follows each end from its check to its entry, and a block, or a
  `load`, in between makes it one of the overtaken. `Entered` says that the table
  holds connections between the two devices.
- `RevocationsAreKept` and `StayTogether` share `RegistrySteps`: in any step a
  registry stays, is changed, merged or adopted, is loaded, or is a new document
  with a new birth at a start that cannot read its file; a file gets what the
  registry was, or is torn; a message carries what a registry is. `Documents` says
  what each of these does to the containers that are shown. `Quiet` adds that, until
  an empty registry was sent, one without devices has no revocations either, so
  adopting another in its place hides none.
- `CachePromise`: `WritesAreSound` says of each operation that it leaves a
  well-formed document, and drops the cache unless the map of objects stays what
  it was. `changeTypeMany` is the one operation of which the second half fails; undo
  and an import from the relay into a store that was not captured are no operations,
  and are the two other exceptions.
- `OnlyMergesSeparate` replaces `Tidy`, which counts, by `Neat`, which says that two
  elements of one object are one (`TidyIsNeat`). One lemma for each operator on
  documents says that it keeps `Neat`. A new pin must not be one that was deleted
  before, hence `Clock`: the stamps in a list of pins are not later than the
  device's time, so none is `Now`. `FirstPinsAreAll`: of a neat list, the first
  element of an object is all there is of it, so unpinning and deleting leave none.
- `DeleteManyExact` goes through the phases of `deleteMany`: `UnmentionedIsDoc`,
  `UntaggedIsDoc` and `DeletedIsDoc` say what each does to the map and the texts.
  No mention is left (`NoMentionIsLeft`) because a body that was rewritten mentions
  nothing deleted, and one that was left alone had a second body beside it, which
  is left alone for the same reason and keeps the text unreadable.

Checked by TLC only:

- All liveness properties, since TLAPS does not reason about fairness: `FlushEnds`,
  `Converges`, `ReachesDisk`, `ReachesPeer`, `BroadcastEnds`, `DeadStreamLeaves`,
  `ListenerHears`, `Agree`.
- What the runs that expect a violation show: a behaviour that TLC found.

## 5. Plan

What is left, in the order in which it would add most:

1. The Cloudflare worker: the relay's handlers over sockets that outlive the
   object. It broadcasts to all sockets and keeps sessions in their attachments.
2. The awaits of `SyncContext.connect`, with the user's `disconnect`.
3. The semantic index (`src/lib/semantic/engine.ts`): indexing, removal and
   disabling overlap at every `await`.
4. `SyncRelay` with the table of device registries; the address cache.

## 6. Where the code and its documents disagree

1. `lastSequence` is advanced when rows are asked for; if the socket fails before
   they come, they are missed for the life of the client (`cloud_missed`,
   `src/lib/sync/client.ts:463`).
2. Two devices that dialed each other and broadcast at once can wait for one
   another for ever: a connection is not read before the lock of `peer_streams`
   is free, and the broadcast holds it (`peer_stuck`,
   `src-tauri/src/network/server.rs:273`).
3. Every import from a peer schedules a broadcast of the whole vault, also to the
   peer it came from, which does the same (`docstore_echo`,
   `src/contexts/LocalSyncContext.tsx:709`).
4. The store and the network keep their blocklists in one file in two formats;
   after a start the one that did not write last finds none (`registry_restart`,
   `src/lib/devices/store.ts:177`).
5. Two devices that write one body leave both JSON documents in the text, which
   then cannot be read at all (`objects_bodies`, `src/lib/loro/objects.ts:353`).

Met while modelling, and kept in the models, but not turned into runs. The first
item of each part is a way that a passing property excepts by name:

- Cloud: an enqueue is resolved when its requests have succeeded, before its
  transactions have committed (`persistent-queue.ts:175`), and a kill in between takes
  the row, of which `client.ts:199` says that it "survives app restarts"
  (`DurableSurvives`). Text typed in a body is saved and handed to nobody until
  something else calls `sync()` (`ObjectDetailView.tsx:368`; `Delivered`, `Converges`,
  `ReachesPeer`). Also: after a reset `hasHistory` is false for a device that misses rows; a
  device more than one batch behind gets one batch; an edit made while not
  connected is handed over with the next edit only. An update whose `encrypt` or row
  fails is dropped with a line in the log, and an enqueue that overlaps a
  flush is erased (`LostByFailureOrFlush` says that there is no third way). After a
  clear that fails the status stays *syncing*. A flush that
  outlives its socket leaves the status at *connected*, an enqueue that ends after
  the flush looked at the queue waits for the next connection, and an enqueue
  overtaken by `disconnect()` or a kill between row and `nextId` lets an id be used
  twice.
- Peers: `load` empties the blocklist some time after the start, and the front end's
  store writes over the file (`BlockSurvives`). The dialing side of a connection of
  `cache_reconnect_all` reads updates and hands them to nobody (`commands.rs:1349`;
  `ListenerHears`, `ReachesPeer`). Also: the dialing end never answers PING; a block leaves
  the TCP connection open, and one made between check and entry leaves the peer in
  the tables; after a failed save a second `block` reports success; a message that
  is too large ends the reading without the clean-up; edits from the relay wait for
  the next broadcast to peers. `network_connect_to_peer` has no caller in the
  application.
- Registry: a start that cannot read `devices.loro` goes on with new containers
  (`store.ts:112`), which hide the devices and revocations in the old ones on every
  device that merges them, where they win (`NeverForks`). Also: an empty registry
  sent to a new peer makes the receiver merge where it would adopt, which may hide
  what either has; a torn `devices.loro` leaves a document without its maps; a
  failed save on the network's side aborts the announcement of a revocation; a
  revocation that arrives by merge is not put on the network's blocklist, and one
  from an unknown device is dropped; the relay stores registries and sends them to
  nobody. `registerCurrentDevice` and `registerPeerDevice` have no caller.
- Objects: the callback for what the relay brings drops the list of the store that
  `connect` captured; the connect of the start comes before there is one
  (`SyncContext.tsx:134`; `CacheKept`). After this import, `changeTypeMany` or an
  undo the list is old until the next operation, and a `deleteMany` then writes old
  relations back; `deleteMany` stops half-way when an object that lost its required
  status is updated; concurrent pins leave an element that no operation removes; a
  single deletion leaves relations, and mentions in archived objects; texts of
  deleted objects stay; concurrent changes of two properties of one object keep one
  of them. `assignToProjectMany` writes a string where the relation needs an array,
  so giving a project to an object always throws.
- Restoring a whole version imports operations the document has, so it changes
  nothing and reports success.

## 7. Not modelled

- The Cloudflare worker and the semantic index: planned, section 5.
- The CRDT library, ciphers, SQLite, IndexedDB, TCP and WebSocket are external and
  appear as what the code relies on.
- Pairing, mDNS and the address cache: exchanges with one answer each, and a list
  with an expiry. Relations, backlinks, versions: sequential; `BacklinkIndex` is
  never set.
- Import, export, search, notifications, recurrence, the user interface and the
  mobile glue: sequential transformations of local data, or views. They are most of
  the lines of this repository, so what is modelled is a small share of them: the
  share that runs concurrently or outlives a failure.

`PROJECT.json` lists every component with its status.
