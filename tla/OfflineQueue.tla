----------------------------- MODULE OfflineQueue -----------------------------
(***************************************************************************)
(* The offline queue of one device (src/lib/sync/persistent-queue.ts) and  *)
(* the methods of SyncClient that use it: sendUpdate, flushQueue and       *)
(* disconnect (src/lib/sync/client.ts), for any caller of sendUpdate: the  *)
(* contract is "if offline, the update is queued".                         *)
(*                                                                         *)
(* The queue is an IndexedDB object store with a copy in memory.  Every    *)
(* method is asynchronous: it starts a transaction and continues when its  *)
(* request succeeds, which is before the transaction commits; flushAll     *)
(* alone waits for the commit.  Transactions on one object store run one   *)
(* after the other, in the order they were started, so the model keeps the *)
(* list of started ones, each with what its continuation will need, and    *)
(* the one that has succeeded and is not committed yet.  In between        *)
(* anything else may happen: a request or a commit fails, the application  *)
(* is killed.                                                              *)
(*                                                                         *)
(* dequeue, clear, peek and getAll are called by tests only and left out.  *)
(***************************************************************************)
EXTENDS Integers, SequencesExt

CONSTANT
  Scenarios   \* the updates the application hands to sendUpdate, the connections the
              \* relay acknowledges (0: offline), and what may happen: "disconnect", the
              \* user disconnects, and connects again; "kill", of the application; "fail",
              \* of an encrypt, a request or a commit.  A behaviour takes one.

Scenario == [updates : Nat, connections : Nat, may : SUBSET {"disconnect", "kill", "fail"}]
ASSUME ScenarioAssumption == Scenarios \subseteq Scenario

Update == Nat \ {0}
None == 0

VARIABLES
  \* IndexedDB
  store,          \* object store offline-queue: a function from id to update
  meta,           \* the saved nextId, None before the first save
  \* PersistentOfflineQueue
  memoryCache,    \* a sequence of [id, data]
  nextId,
  isInitialized,
  storeTx,        \* started transactions on offline-queue
  metaTx,         \* started transactions on queue-metadata
  writing,        \* the put that has succeeded and is not committed, if any
  saving,         \* the save of nextId that has succeeded and is not committed
  \* SyncClient
  ws,             \* this.ws: "none", "open" or "closing"
  status,
  encrypting,     \* updates whose sendUpdate waits for encrypt
  closed,         \* disconnect() was called on this client
  connections,    \* connections acknowledged so far (bounded)
  \* history
  produced,       \* updates handed to sendUpdate so far
  durable,        \* updates whose row and whose nextId were committed
  sent,           \* updates given to an open socket
  failed,         \* updates that a failed call or transaction carried
  disconnected,   \* did the user ever disconnect?
  killed,         \* was the application ever killed?
  aborted,        \* did the commit of a row ever fail?
  flushFailed,    \* did the clear of a flush ever fail?
  scenario        \* what the run's bounds let happen

db == <<store, meta>>
queue == <<memoryCache, nextId, isInitialized>>
commits == <<writing, saving>>
txs == <<storeTx, metaTx, commits>>
client == <<ws, status, encrypting, closed, connections>>
mishaps == <<disconnected, killed, aborted, flushFailed>>
history == <<produced, durable, sent, failed, mishaps>>
vars == <<store, meta, memoryCache, nextId, isInitialized, storeTx, metaTx, writing,
          saving, ws, status, encrypting, closed, connections, produced,
          durable, sent, failed, disconnected, killed, aborted, flushFailed, scenario>>

\* (wrong) flushQueue stops after the first update it puts back
PutFirst(id, u, rest, flush) ==
  [op |-> "put", id |-> id, data |-> u, rest |-> <<>>, flush |-> flush]

\* a put or a clear.  rest: what flushQueue puts back after this one; flush:
\* whether flushQueue is the caller; copy: what flushAll will return
Put(id, u, rest, flush) ==
  [op |-> "put", id |-> id, data |-> u, rest |-> rest, flush |-> flush]
Clear(copy) == [op |-> "clear", copy |-> copy]

\* (wrong) the ids instead of the updates
DataIsId(s) == [i \in DOMAIN s |-> s[i].id]

Data(s) == [i \in DOMAIN s |-> s[i].data]
NoRows == [i \in {} |-> None]

-----------------------------------------------------------------------------
(* Starting a transaction.                                                  *)

\* (wrong) the id is only read at the start
enqueueSameId(u, rest, flush) ==
  /\ isInitialized
  /\ nextId' = nextId
  /\ storeTx' = Append(storeTx, Put(nextId, u, rest, flush))

\* enqueue: the id is taken at once, the rest follows the put
enqueue(u, rest, flush) ==
  /\ isInitialized
  /\ nextId' = nextId + 1
  /\ storeTx' = Append(storeTx, Put(nextId, u, rest, flush))

\* what initialize finds: the rows in the order of their ids
loadAll ==
  [k \in 1..Cardinality(DOMAIN store) |->
     LET i == CHOOSE i \in DOMAIN store :
                Cardinality({j \in DOMAIN store : j < i}) = k - 1
     IN  [id |-> i, data |-> store[i]]]

\* (wrong) the rows come before the saved number, and the largest id is used again
recoveredLargest ==
  IF DOMAIN store # {} THEN Max(DOMAIN store) ELSE IF meta # None THEN meta ELSE 1

\* the nextId of initialize: the saved one before the largest id
recoveredNextId ==
  IF meta # None THEN meta
  ELSE IF DOMAIN store # {} THEN Max(DOMAIN store) + 1 ELSE 1

initialize ==
  /\ memoryCache' = loadAll
  /\ nextId' = recoveredNextId
  /\ isInitialized' = TRUE

-----------------------------------------------------------------------------
(* SyncClient.sendUpdate.                                                   *)

wsOpen == ws = "open"

\* the next update of the application; it waits for encrypt
sendUpdate ==
  /\ produced < scenario.updates
  /\ produced' = produced + 1
  /\ encrypting' = encrypting \cup {produced + 1}
  /\ UNCHANGED <<db, queue, txs, ws, status, closed, connections, durable,
                 sent, failed, mishaps>>

\* encrypt is rejected: the update is dropped
encryptFails(u) ==
  /\ "fail" \in scenario.may
  /\ u \in encrypting
  /\ encrypting' = encrypting \ {u}
  /\ failed' = failed \cup {u}
  /\ UNCHANGED <<db, queue, txs, ws, status, closed, connections, produced,
                 durable, sent, mishaps>>

\* encrypt resolved: only now the socket is looked at
sendEncrypted(u) ==
  /\ u \in encrypting
  /\ wsOpen
  /\ encrypting' = encrypting \ {u}
  /\ sent' = sent \cup {u}
  /\ UNCHANGED <<db, queue, txs, ws, status, closed, connections, produced,
                 durable, failed, mishaps>>

queueEncrypted(u) ==
  /\ u \in encrypting
  /\ ~ wsOpen
  /\ encrypting' = encrypting \ {u}
  /\ enqueue(u, <<>>, FALSE)
  /\ UNCHANGED <<db, memoryCache, isInitialized, metaTx, commits, ws, status, closed,
                 connections, history>>

\* after disconnect() the queue is closed: enqueue throws
dropEncrypted(u) ==
  /\ u \in encrypting
  /\ ~ wsOpen
  /\ ~ isInitialized
  /\ encrypting' = encrypting \ {u}
  /\ UNCHANGED <<db, queue, txs, ws, status, closed, connections, history>>

-----------------------------------------------------------------------------
(* Requests and continuations.                                              *)

\* the request of persistUpdate succeeds: enqueue pushes the update and saves nextId,
\* with ensureDb opening the database again when close() was called meanwhile
executePut ==
  /\ writing = {}
  /\ storeTx # <<>>
  /\ LET tx == Head(storeTx) IN
       /\ tx.op = "put"
       /\ writing' = {tx}
       /\ memoryCache' = Append(memoryCache, [id |-> tx.id, data |-> tx.data])
       /\ metaTx' = Append(metaTx, [nextId |-> nextId, tx |-> tx,
                                    reopen |-> ~ isInitialized])
  /\ storeTx' = Tail(storeTx)
  /\ UNCHANGED <<db, saving, nextId, isInitialized, client, history>>

\* it fails: enqueue is rejected, and a flush that was putting updates back with it
putFails ==
  /\ "fail" \in scenario.may
  /\ writing = {}
  /\ storeTx # <<>>
  /\ Head(storeTx).op = "put"
  /\ storeTx' = Tail(storeTx)
  /\ failed' = failed \cup ToSet(<<Head(storeTx).data>> \o Head(storeTx).rest)
  /\ UNCHANGED <<db, queue, metaTx, commits, client, produced, durable, sent,
                 mishaps>>

\* the row is in the database
commitPut(tx) ==
  /\ tx \in writing
  /\ writing' = writing \ {tx}
  /\ store' = [i \in DOMAIN store \cup {tx.id} |-> IF i = tx.id THEN tx.data ELSE store[i]]
  /\ durable' = IF tx.id < meta THEN durable \cup {tx.data} ELSE durable
  /\ UNCHANGED <<meta, queue, storeTx, metaTx, saving, client, produced, sent,
                 failed, mishaps>>

\* nobody listens to the abort event: the cache has a row that the database has not
abortPut(tx) ==
  /\ "fail" \in scenario.may
  /\ tx \in writing
  /\ writing' = writing \ {tx}
  /\ failed' = failed \cup {tx.data}
  /\ aborted' = TRUE
  /\ UNCHANGED <<db, queue, storeTx, metaTx, saving, client, produced, durable,
                 sent, disconnected, killed, flushFailed>>

\* ensureDb calls initialize on the closed queue; it reads after what was started
reopen ==
  /\ storeTx = <<>> /\ writing = {} /\ saving = {}
  /\ metaTx # <<>>
  /\ Head(metaTx).reopen
  /\ metaTx' = [metaTx EXCEPT ![1].reopen = FALSE]
  /\ initialize
  /\ UNCHANGED <<db, storeTx, commits, client, history>>

\* the request of setMetadata succeeds: enqueue resolves; when flushQueue was putting
\* updates back it goes on with the next one, and says connected after the last
executeMeta ==
  /\ saving = {}
  /\ metaTx # <<>>
  /\ ~ Head(metaTx).reopen
  /\ LET tx == Head(metaTx).tx IN
       /\ saving' = {Head(metaTx)}
       /\ IF tx.rest # <<>> /\ isInitialized
          THEN enqueue(Head(tx.rest), Tail(tx.rest), TRUE)
          ELSE UNCHANGED <<nextId, storeTx>>
       /\ status' = IF tx.flush /\ tx.rest = <<>> THEN "connected" ELSE status
  /\ metaTx' = Tail(metaTx)
  /\ UNCHANGED <<db, memoryCache, isInitialized, writing, ws, encrypting, closed,
                 connections, produced, durable, sent, failed, mishaps>>

\* it fails: enqueue is rejected although the row is written
saveFails ==
  /\ "fail" \in scenario.may
  /\ saving = {}
  /\ metaTx # <<>>
  /\ ~ Head(metaTx).reopen
  /\ metaTx' = Tail(metaTx)
  /\ failed' = failed \cup ToSet(Head(metaTx).tx.rest)
  /\ UNCHANGED <<db, queue, storeTx, commits, client, produced, durable, sent,
                 mishaps>>

\* nextId is in the database
commitMeta(s) ==
  /\ s \in saving
  /\ saving' = saving \ {s}
  /\ meta' = s.nextId
  /\ durable' = IF s.tx \notin writing /\ s.tx.id \in DOMAIN store /\ store[s.tx.id] = s.tx.data
                THEN durable \cup {s.tx.data} ELSE durable
  /\ UNCHANGED <<store, queue, storeTx, metaTx, writing, client, produced, sent,
                 failed, mishaps>>

abortMeta(s) ==
  /\ "fail" \in scenario.may
  /\ s \in saving
  /\ saving' = saving \ {s}
  /\ UNCHANGED <<db, queue, storeTx, metaTx, writing, client, history>>

\* the transaction of flushAll completes: the rows and the cache are emptied, and
\* flushQueue sends its copy or, when the socket is not open, starts to put it back
executeClear ==
  /\ writing = {}
  /\ storeTx # <<>>
  /\ Head(storeTx).op = "clear"
  /\ store' = NoRows
  /\ memoryCache' = <<>>
  /\ LET updates == Head(storeTx).copy IN
       \/ /\ wsOpen
          /\ sent' = sent \cup ToSet(updates)
          /\ status' = "connected"
          /\ storeTx' = Tail(storeTx)
          /\ nextId' = nextId
       \/ /\ ~ wsOpen
          /\ isInitialized
          /\ storeTx' = Append(Tail(storeTx),
                               Put(nextId, Head(updates), Tail(updates), TRUE))
          /\ nextId' = nextId + 1
          /\ UNCHANGED <<sent, status>>
       \/ /\ ~ wsOpen
          /\ ~ isInitialized
          /\ storeTx' = Tail(storeTx)
          /\ UNCHANGED <<nextId, sent, status>>
  /\ UNCHANGED <<meta, isInitialized, metaTx, commits, ws, encrypting, closed,
                 connections, produced, durable, failed, mishaps>>

\* it fails, and flushAll is rejected, or it aborts, and flushAll never returns: either
\* way flushQueue does not go on, and the status stays as it is
clearFails ==
  /\ "fail" \in scenario.may
  /\ writing = {}
  /\ storeTx # <<>>
  /\ Head(storeTx).op = "clear"
  /\ storeTx' = Tail(storeTx)
  /\ failed' = failed \cup ToSet(Head(storeTx).copy)
  /\ flushFailed' = TRUE
  /\ UNCHANGED <<db, queue, metaTx, commits, client, produced, durable, sent,
                 disconnected, killed, aborted>>

-----------------------------------------------------------------------------
(* The connection.                                                          *)

\* handleAck on a new connection, and flushQueue up to its first wait
acknowledged ==
  /\ ws = "none"
  /\ ~ closed
  /\ connections < scenario.connections
  /\ connections' = connections + 1
  /\ ws' = "open"
  /\ IF memoryCache = <<>>
     THEN /\ status' = "connected"
          /\ storeTx' = storeTx
     ELSE /\ status' = "syncing"
          /\ storeTx' = Append(storeTx, Clear(Data(memoryCache)))
  /\ UNCHANGED <<db, queue, metaTx, commits, encrypting, closed, history>>

\* the connection is lost: readyState leaves OPEN before the close event
lose ==
  /\ ws = "open"
  /\ ws' = "closing"
  /\ UNCHANGED <<db, queue, txs, status, encrypting, closed, connections, history>>

handleClose ==
  /\ ws = "closing"
  /\ ws' = "none"
  /\ status' = "disconnected"
  /\ UNCHANGED <<db, queue, txs, encrypting, closed, connections, history>>

\* (wrong) the status is left alone
disconnectSilently ==
  /\ "disconnect" \in scenario.may
  /\ ~ closed
  /\ closed' = TRUE
  /\ ws' = "none"
  /\ isInitialized' = FALSE
  /\ disconnected' = TRUE
  /\ UNCHANGED <<db, memoryCache, nextId, txs, status, encrypting, connections,
                 produced, durable, sent, failed, killed, aborted, flushFailed>>

\* disconnect: the queue is closed with the socket; started transactions
\* are still executed
disconnect ==
  /\ "disconnect" \in scenario.may
  /\ ~ closed
  /\ closed' = TRUE
  /\ ws' = "none"
  /\ status' = "disconnected"
  /\ isInitialized' = FALSE
  /\ disconnected' = TRUE
  /\ UNCHANGED <<db, memoryCache, nextId, txs, encrypting, connections,
                 produced, durable, sent, failed, killed, aborted, flushFailed>>

\* SyncContext.connect: a new client with a new queue, once nothing of the
\* old one is left running
newClient ==
  /\ closed
  /\ closed' = FALSE
  /\ storeTx = <<>> /\ metaTx = <<>> /\ writing = {} /\ saving = {} /\ encrypting = {}
  /\ status' = "disconnected"
  /\ initialize
  /\ UNCHANGED <<db, txs, ws, encrypting, connections, history>>

\* the application is killed and started again: IndexedDB is left, without
\* the transactions that were not committed yet
restart ==
  /\ "kill" \in scenario.may
  /\ initialize
  /\ storeTx' = <<>>
  /\ metaTx' = <<>>
  /\ writing' = {}
  /\ saving' = {}
  /\ ws' = "none"
  /\ status' = "disconnected"
  /\ encrypting' = {}
  /\ closed' = FALSE
  /\ killed' = TRUE
  /\ UNCHANGED <<db, connections, produced, durable, sent, failed,
                 disconnected, aborted, flushFailed>>

-----------------------------------------------------------------------------
Init ==
  /\ store = NoRows
  /\ meta = None
  /\ memoryCache = <<>>
  /\ nextId = 1
  /\ isInitialized = TRUE
  /\ storeTx = <<>>
  /\ metaTx = <<>>
  /\ writing = {}
  /\ saving = {}
  /\ ws = "none"
  /\ status = "disconnected"
  /\ encrypting = {}
  /\ closed = FALSE
  /\ connections = 0
  /\ produced = 0
  /\ durable = {}
  /\ sent = {}
  /\ failed = {}
  /\ disconnected = FALSE
  /\ killed = FALSE
  /\ aborted = FALSE
  /\ flushFailed = FALSE
  /\ scenario \in Scenarios

encrypted(u) == sendEncrypted(u) \/ queueEncrypted(u) \/ dropEncrypted(u)

\* what the browser does without being asked: run started transactions and
\* their continuations, finish an encryption, report a closed socket
Browser ==
  \/ executePut \/ executeClear \/ executeMeta \/ reopen \/ handleClose
  \/ \E tx \in writing : commitPut(tx)
  \/ \E s \in saving : commitMeta(s)
  \/ \E u \in encrypting : encrypted(u)

Failure ==
  \/ putFails \/ clearFails \/ saveFails
  \/ \E tx \in writing : abortPut(tx)
  \/ \E s \in saving : abortMeta(s)
  \/ \E u \in encrypting : encryptFails(u)

Next ==
  /\ \/ sendUpdate \/ Browser \/ Failure
     \/ acknowledged \/ lose \/ disconnect \/ newClient \/ restart
  /\ UNCHANGED scenario

Spec == Init /\ [][Next]_vars

FairSpec == Spec /\ WF_vars(Browser /\ UNCHANGED scenario)

-----------------------------------------------------------------------------
(* Properties.                                                              *)

Rows == {store[i] : i \in DOMAIN store}
Copied == UNION {ToSet(storeTx[i].copy) :
                   i \in {j \in DOMAIN storeTx : storeTx[j].op = "clear"}}
Starting == UNION {ToSet(<<storeTx[i].data>> \o storeTx[i].rest) :
                     i \in {j \in DOMAIN storeTx : storeTx[j].op = "put"}}
PuttingBack == UNION {ToSet(metaTx[i].tx.rest) : i \in DOMAIN metaTx}

Written == {tx.data : tx \in writing}

\* the updates that are somewhere
Held == encrypting \cup Rows \cup Written \cup Copied \cup Starting \cup PuttingBack \cup sent

\* Every variable has the shape the code gives it.
TypeOK ==
  /\ DOMAIN store \subseteq Nat \ {0}
  /\ store \in [DOMAIN store -> Update]
  /\ meta \in Nat
  /\ memoryCache \in Seq([id : Nat \ {0}, data : Update])
  /\ nextId \in Nat \ {0}
  /\ isInitialized \in BOOLEAN
  /\ ws \in {"none", "open", "closing"}
  /\ status \in {"disconnected", "syncing", "connected"}
  /\ closed \in BOOLEAN
  /\ connections \in Nat
  /\ produced \in Nat
  /\ {disconnected, killed, aborted, flushFailed} \subseteq BOOLEAN
  /\ {encrypting, durable, sent, failed} \subseteq SUBSET (1..produced)

\* The synchronous view (length, isEmpty and flushAll's copy) and the database
\* agree whenever no transaction is under way: the cache is the rows in FIFO
\* order, although each enqueue and flush changes the two at different times,
\* and requests may fail.
\* (Not so after disconnect(), when an enqueue it overtook has opened the queue
\* again with the nextId saved before, nor after a kill between the commit of a
\* row and of nextId: an id is used twice then; nor when the commit of a row
\* fails, which nobody listens to.)
CacheCoherent ==
  ~ disconnected /\ ~ killed /\ ~ aborted /\ storeTx = <<>> /\ writing = {}
    => memoryCache = loadAll

\* An update of which both transactions were committed before the device was ever
\* online, in whichever order, is in the database until it is, however often the
\* application is killed and whatever fails: an id handed out later is never the
\* id of its row.
DurableSurvives == connections = 0 /\ ~ disconnected => durable \subseteq Rows

\* Without a disconnect or a kill, an update handed to sendUpdate is lost in
\* two ways only: a call or a transaction that carries it fails, or flushAll's
\* clear erases a row that was written after flushAll had copied the queue.
LostByFailureOrFlush ==
  [][~ disconnected' /\ ~ killed' =>
       \A u \in Held : \/ u \in Held' \cup failed'
                       \/ /\ storeTx # <<>>
                          /\ Head(storeTx).op = "clear"
                          /\ u \in Rows \ ToSet(Head(storeTx).copy)]_vars

\* flushQueue ends, unless its clear fails: the status does not stay at syncing,
\* whether the socket holds, closes before or during the flush, what it puts back
\* fails, or the user disconnects.
FlushEnds == status = "syncing" ~> (status # "syncing" \/ flushFailed)
=============================================================================
