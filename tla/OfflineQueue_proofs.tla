------------------------- MODULE OfflineQueue_proofs -------------------------
(***************************************************************************)
(* Proofs about OfflineQueue, for any number of updates and connections    *)
(* and whatever fails: its type invariant, that the cache is the rows,     *)
(* that durable updates are kept, and how an update can be lost.           *)
(***************************************************************************)
EXTENDS OfflineQueue, TLAPS, SequenceTheorems, FiniteSetTheorems, Extremes

Given == 1..produced
Puts(U) == [op : {"put"}, id : Nat \ {0}, data : U, rest : Seq(U), flush : BOOLEAN]
Clears(U) == [op : {"clear"}, copy : Seq(U) \ {<<>>}]
Saves(U) == [nextId : Nat \ {0}, tx : Puts(U), reopen : BOOLEAN]

\* what TypeOK leaves out: the started transactions, and that all data was given to
\* sendUpdate
Shape ==
  /\ TypeOK
  /\ IsFiniteSet(DOMAIN store)
  /\ store \in [DOMAIN store -> Given]
  /\ memoryCache \in Seq([id : Nat \ {0}, data : Given])
  /\ storeTx \in Seq(Puts(Given) \cup Clears(Given))
  /\ metaTx \in Seq(Saves(Given))
  /\ writing \in SUBSET Puts(Given)
  /\ saving \in SUBSET Saves(Given)

\* The ids of the puts of q ascend and are below n; they are above r.
Ascends(q, n) ==
  \A i \in DOMAIN q : q[i].op = "put" =>
    /\ q[i].id < n
    /\ \A j \in DOMAIN q : i < j /\ q[j].op = "put" => q[i].id < q[j].id
Above(q, r) == \A i \in DOMAIN q : q[i].op = "put" => r < q[i].id

\* r is an id of the past: every put that is started or not committed has a larger one
Past(r) == r < nextId /\ Above(storeTx, r) /\ \A tx \in writing : r < tx.id

\* the saves of nextId that are not committed
Pending == {metaTx[k] : k \in DOMAIN metaTx} \cup saving

\* Until a disconnect, ids are handed out once between two kills, and a pending nextId
\* is above the id that was written before it, and not below one that is pending before.
Ids ==
  ~ disconnected =>
    /\ isInitialized /\ ~ closed
    /\ Ascends(storeTx, nextId)
    /\ meta <= nextId
    /\ \A tx \in writing : tx.id < nextId /\ Above(storeTx, tx.id)
    /\ \A tx, ty \in writing : tx = ty
    /\ \A m \in Pending :
         /\ ~ m.reopen
         /\ m.tx.id < m.nextId /\ meta <= m.nextId /\ m.nextId <= nextId
         /\ Above(storeTx, m.tx.id)
         /\ \A tx \in writing : tx = m.tx \/ m.tx.id < tx.id
    /\ \A k, l \in DOMAIN metaTx : k < l => metaTx[k].nextId <= metaTx[l].nextId
    /\ \A s \in saving : \A k \in DOMAIN metaTx : s.nextId <= metaTx[k].nextId
    /\ \A s, t \in saving : s = t

\* no id is used again that has a row
Fresh == ~ disconnected /\ ~ killed => \A r \in DOMAIN store : Past(r)

\* the cache lists the rows, and the one being written, in the order of their ids
Mirror ==
  ~ disconnected /\ ~ killed /\ ~ aborted =>
    /\ {memoryCache[k].id : k \in DOMAIN memoryCache} = DOMAIN store \cup {tx.id : tx \in writing}
    /\ \A k \in DOMAIN memoryCache :
         /\ memoryCache[k].id \in DOMAIN store => store[memoryCache[k].id] = memoryCache[k].data
         /\ \A tx \in writing : tx.id = memoryCache[k].id => tx.data = memoryCache[k].data
         /\ memoryCache[k].id < nextId
         /\ Above(storeTx, memoryCache[k].id)
         /\ \A l \in DOMAIN memoryCache : k < l => memoryCache[k].id < memoryCache[l].id

\* While the device was never online, what is durable has a row of the past, which the
\* saved nextId is above.
Kept ==
  connections = 0 /\ ~ disconnected =>
    /\ \A i \in DOMAIN storeTx : storeTx[i].op = "put"
    /\ \A u \in durable : \E r \in DOMAIN store : store[r] = u /\ r < meta /\ Past(r)

Inv == Shape /\ Ids /\ Fresh /\ Mirror /\ Kept

-----------------------------------------------------------------------------
(* Rows in the order of their ids.                                          *)

\* Ids listed in ascending order are counted, and placed, by the list.
LEMMA Listed ==
  ASSUME NEW n \in Nat, NEW f \in [1..n -> Nat],
         \A i, j \in 1..n : i < j => f[i] < f[j]
  PROVE  LET S == {f[i] : i \in 1..n}
         IN  /\ IsFiniteSet(S) /\ Cardinality(S) = n
             /\ \A k \in 1..n : Cardinality(Below(S, f[k])) = k - 1
<1> DEFINE S == {f[i] : i \in 1..n}
<1>1. \A i, j \in 1..n : f[i] = f[j] => i = j
  <2> SUFFICES ASSUME NEW i \in 1..n, NEW j \in 1..n, i # j
               PROVE  f[i] # f[j]
    OBVIOUS
  <2>1. f[i] \in Nat /\ f[j] \in Nat /\ (i < j \/ j < i)
    OBVIOUS
  <2> QED
    BY <2>1
<1>2. ASSUME NEW m \in 0..n
      PROVE  LET T == {f[i] : i \in 1..m} IN IsFiniteSet(T) /\ Cardinality(T) = m
  <2> DEFINE T == {f[i] : i \in 1..m}
             g == [i \in 1..m |-> f[i]]
  <2>1. g \in Bijection(1..m, T)
    <3>1. g \in [1..m -> T] /\ \A t \in T : \E i \in 1..m : g[i] = t
      OBVIOUS
    <3>2. \A i, j \in 1..m : g[i] = g[j] => i = j
      BY <1>1
    <3> HIDE DEF g, T
    <3> QED
      BY <3>1, <3>2 DEF Bijection, Injection, Surjection, IsInjective
  <2>2. ExistsBijection(1..m, T)
    BY <2>1 DEF ExistsBijection
  <2> HIDE DEF T
  <2> QED
    BY <2>2, FS_CountingElements, FS_NatBijection DEF T
<1>3. ASSUME NEW k \in 1..n
      PROVE  Cardinality(Below(S, f[k])) = k - 1
  <2>1. \A i \in 1..n : f[i] < f[k] <=> i \in 1..(k-1)
    <3> SUFFICES ASSUME NEW i \in 1..n PROVE f[i] < f[k] <=> i < k
      OBVIOUS
    <3>1. f[i] \in Nat /\ f[k] \in Nat /\ (i < k \/ i = k \/ k < i)
      OBVIOUS
    <3> QED
      BY <3>1
  <2>2. Below(S, f[k]) = {f[i] : i \in 1..(k-1)}
    BY <2>1 DEF Below
  <2>3. k - 1 \in 0..n
    OBVIOUS
  <2> QED
    BY <1>2, <2>2, <2>3
<1>4. n \in 0..n
  OBVIOUS
<1> QED
  BY <1>2, <1>3, <1>4

-----------------------------------------------------------------------------
(* Types.                                                                   *)

\* initialize finds well-formed rows, and an id to go on with.
LEMMA Loaded ==
  ASSUME Shape
  PROVE  /\ loadAll \in Seq([id : Nat \ {0}, data : Given])
         /\ recoveredNextId \in Nat \ {0} /\ meta <= recoveredNextId
<1> DEFINE S == DOMAIN store
<1>1. S \in SUBSET Nat /\ 0 \notin S /\ IsFiniteSet(S) /\ Cardinality(S) \in Nat
  BY FS_CardinalityType DEF Shape, TypeOK
<1>2. loadAll \in Seq([id : Nat \ {0}, data : Given])
  <2> DEFINE At(k) == CHOOSE i \in S : Cardinality({j \in S : j < i}) = k - 1
             Row(k) == [id |-> At(k), data |-> store[At(k)]]
  <2>1. ASSUME NEW k \in 1..Cardinality(S) PROVE At(k) \in S
    <3>1. PICK i \in S : Cardinality(Below(S, i)) = k - 1
      BY <1>1, Placed
    <3> QED
      BY <3>1 DEF Below
  <2>2. \A k \in 1..Cardinality(S) : Row(k) \in [id : Nat \ {0}, data : Given]
    <3> HIDE DEF At
    <3> QED
      BY <1>1, <2>1 DEF Shape
  <2>3. loadAll = [k \in 1..Cardinality(S) |-> Row(k)]
    BY DEF loadAll
  <2> HIDE DEF Row
  <2>4. loadAll \in [1..Cardinality(S) -> [id : Nat \ {0}, data : Given]]
    BY <2>2, <2>3
  <2>5. \A X : \A n \in Nat : \A f \in [1..n -> X] : f \in Seq(X)
    OBVIOUS
  <2> QED
    BY <1>1, <2>4, <2>5
<1>3. S # {} => Max(S) \in S
  BY <1>1, MaxIsLargest
<1> QED
  BY <1>1, <1>2, <1>3 DEF recoveredNextId, Shape, TypeOK, None

\* Every variable has the shape the code gives it; a started transaction carries
\* updates the application handed over, and flushAll never starts with none.
THEOREM TypeCorrect == Spec => [](TypeOK /\ Shape)
<1>1. Init => Shape
  <2> SUFFICES ASSUME Init PROVE Shape
    OBVIOUS
  <2>1. DOMAIN store = {} /\ IsFiniteSet(DOMAIN store)
    BY FS_EmptySet DEF Init, NoRows
  <2>2. store \in [DOMAIN store -> Given] /\ store \in [DOMAIN store -> Update]
    BY <2>1 DEF Init, NoRows
  <2>3. /\ memoryCache \in Seq([id : Nat \ {0}, data : Given])
        /\ memoryCache \in Seq([id : Nat \ {0}, data : Update])
        /\ storeTx \in Seq(Puts(Given) \cup Clears(Given)) /\ metaTx \in Seq(Saves(Given))
        /\ writing \in SUBSET Puts(Given) /\ saving \in SUBSET Saves(Given)
    BY DEF Init
  <2>4. /\ DOMAIN store \subseteq Nat \ {0} /\ meta \in Nat /\ nextId \in Nat \ {0}
        /\ ws \in {"none", "open", "closing"}
        /\ status \in {"disconnected", "syncing", "connected"}
        /\ connections \in Nat /\ produced \in Nat
        /\ {encrypting, durable, sent, failed} \subseteq SUBSET (1..produced)
    BY <2>1 DEF Init, None
  <2>5. {isInitialized, closed, disconnected, killed, aborted, flushFailed} \subseteq BOOLEAN
    BY DEF Init
  <2> QED
    BY <2>1, <2>2, <2>3, <2>4, <2>5 DEF Shape, TypeOK
<1>2. Shape /\ [Next]_vars => Shape'
  <2> SUFFICES ASSUME Shape, [Next]_vars PROVE Shape'
    OBVIOUS
  <2> DEFINE Tx == Puts(Given) \cup Clears(Given)
             Row == [id : Nat \ {0}, data : Given]
  <2>1. /\ produced \in Nat /\ Given \subseteq Update
        /\ storeTx \in Seq(Tx) /\ metaTx \in Seq(Saves(Given))
        /\ memoryCache \in Seq(Row)
        /\ writing \in SUBSET Puts(Given) /\ saving \in SUBSET Saves(Given)
    BY DEF Shape, TypeOK, Given, Update
  <2>2. Row \subseteq [id : Nat \ {0}, data : Update]
    BY <2>1
  <2>3. ASSUME initialize, UNCHANGED <<store, meta, produced>>
        PROVE  /\ memoryCache' \in Seq(Row)
               /\ memoryCache' \in Seq([id : Nat \ {0}, data : Update])
               /\ nextId' \in Nat \ {0} /\ isInitialized' \in BOOLEAN
    BY <2>2, <2>3, Loaded, SeqMonotonic DEF initialize
  <2>4. ASSUME NEW u \in Given, NEW rest \in Seq(Given), NEW flush \in BOOLEAN
        PROVE  Put(nextId, u, rest, flush) \in Tx
    BY <2>4 DEF Put, Puts, Shape, TypeOK
  <2>5. ASSUME NEW u \in Given, NEW rest \in Seq(Given), NEW flush \in BOOLEAN,
               enqueue(u, rest, flush)
        PROVE  storeTx' \in Seq(Tx) /\ nextId' \in Nat \ {0}
    BY <2>1, <2>4, <2>5, AppendProperties DEF enqueue, Shape, TypeOK
  <2>6. CASE sendUpdate
    <3>1. Given \subseteq Given' /\ produced' \in Nat /\ produced + 1 \in 1..produced'
      BY <2>1, <2>6 DEF sendUpdate, Given
    <3>2. Seq(Given) \subseteq Seq(Given')
      BY <3>1, SeqMonotonic
    <3>3. Puts(Given) \subseteq Puts(Given') /\ Clears(Given) \subseteq Clears(Given')
      BY <3>1, <3>2 DEF Puts, Clears
    <3>4. Saves(Given) \subseteq Saves(Given') /\ Row \subseteq [id : Nat \ {0}, data : Given']
      BY <3>1, <3>3 DEF Saves
    <3>5. /\ storeTx' \in Seq(Puts(Given') \cup Clears(Given'))
          /\ metaTx' \in Seq(Saves(Given'))
          /\ memoryCache' \in Seq([id : Nat \ {0}, data : Given'])
          /\ writing' \in SUBSET Puts(Given') /\ saving' \in SUBSET Saves(Given')
      <4>1. UNCHANGED <<storeTx, metaTx, memoryCache, writing, saving>>
        BY <2>6 DEF sendUpdate, txs, commits, queue
      <4>2. Tx \subseteq Puts(Given') \cup Clears(Given')
        BY <3>3
      <4> QED
        BY <2>1, <3>3, <3>4, <4>1, <4>2, SeqMonotonic
    <3>6. {encrypting', durable', sent', failed'} \subseteq SUBSET (1..produced')
      BY <2>1, <2>6, <3>1 DEF sendUpdate, Shape, TypeOK, Given
    <3> QED
      BY <2>6, <3>1, <3>5, <3>6
         DEF sendUpdate, db, queue, mishaps, Shape, TypeOK, Given
  <2>7. CASE executePut
    <3> DEFINE tx == Head(storeTx)
    <3>1. tx \in Puts(Given) /\ Tail(storeTx) \in Seq(Tx)
      BY <2>1, <2>7, HeadTailProperties DEF executePut, Puts, Clears
    <3>2. [id |-> tx.id, data |-> tx.data] \in Row
      BY <3>1 DEF Puts
    <3>3. memoryCache' \in Seq(Row) /\ memoryCache' \in Seq([id : Nat \ {0}, data : Update])
      <4>1. memoryCache' = Append(memoryCache, [id |-> tx.id, data |-> tx.data])
        BY <2>7 DEF executePut
      <4> HIDE DEF Row, tx
      <4>2. memoryCache' \in Seq(Row)
        BY <2>1, <3>2, <4>1, AppendProperties
      <4> QED
        BY <2>2, <4>2, SeqMonotonic
    <3>4. [nextId |-> nextId, tx |-> tx, reopen |-> ~ isInitialized] \in Saves(Given)
      BY <3>1 DEF Saves, Shape, TypeOK
    <3>5. metaTx' \in Seq(Saves(Given))
      BY <2>1, <2>7, <3>4, AppendProperties DEF executePut
    <3>6. writing' \in SUBSET Puts(Given)
      BY <2>7, <3>1 DEF executePut
    <3> QED
      BY <2>7, <3>1, <3>3, <3>5, <3>6
         DEF executePut, db, client, history, mishaps, Shape, TypeOK, Given
  <2>8. CASE executeClear
    <3> DEFINE updates == Head(storeTx).copy
    <3>1. /\ updates \in Seq(Given) /\ updates # <<>> /\ Tail(storeTx) \in Seq(Tx)
      BY <2>1, <2>8, HeadTailProperties DEF executeClear, Puts, Clears
    <3>2. Head(updates) \in Given /\ Tail(updates) \in Seq(Given)
      BY <3>1, HeadTailProperties
    <3>3. ToSet(updates) \subseteq Given
      BY <3>1, ElementOfSeq, LenProperties DEF ToSet
    <3>4. storeTx' \in Seq(Tx) /\ nextId' \in Nat \ {0}
      <4>1. Append(Tail(storeTx), Put(nextId, Head(updates), Tail(updates), TRUE)) \in Seq(Tx)
        BY <2>4, <3>1, <3>2, AppendProperties
      <4> QED
        <5>1. /\ nextId \in Nat \ {0}
              /\ \/ storeTx' = Tail(storeTx) /\ nextId' = nextId
                 \/ /\ storeTx' = Append(Tail(storeTx),
                                        Put(nextId, Head(updates), Tail(updates), TRUE))
                    /\ nextId' = nextId + 1
          BY <2>8 DEF executeClear, Shape, TypeOK
        <5> HIDE DEF Tx, updates
        <5>2. nextId' \in Nat \ {0}
          <6>1. nextId' = nextId \/ nextId' = nextId + 1
            BY <2>8 DEF executeClear
          <6>2. nextId \in Nat \ {0}
            BY DEF Shape, TypeOK
          <6> QED
            BY <6>1, <6>2
        <5> QED
          BY <3>1, <4>1, <5>1, <5>2
    <3>5. sent' \subseteq Given /\ status' \in {"disconnected", "syncing", "connected"}
      BY <2>8, <3>3 DEF executeClear, Shape, TypeOK, Given
    <3>6. DOMAIN store' = {} /\ store' \in [DOMAIN store' -> Given] /\ memoryCache' = <<>>
      BY <2>8 DEF executeClear, NoRows
    <3>7. UNCHANGED <<meta, isInitialized, metaTx, writing, saving, ws, encrypting, closed,
                 connections, produced, durable, failed, mishaps>>
      BY <2>8 DEF executeClear, commits
    <3> QED
      BY <2>1, <3>4, <3>5, <3>6, <3>7, FS_EmptySet DEF mishaps, Shape, TypeOK, Given
  <2>9. CASE executeMeta
    <3> DEFINE s == Head(metaTx)
    <3>1. s \in Saves(Given) /\ Tail(metaTx) \in Seq(Saves(Given))
      BY <2>1, <2>9, HeadTailProperties DEF executeMeta
    <3>2. s.nextId \in Nat /\ s.tx.data \in Given /\ s.tx.rest \in Seq(Given)
      BY <3>1 DEF Saves, Puts
    <3>3. storeTx' \in Seq(Tx) /\ nextId' \in Nat \ {0}
      <4>1. CASE s.tx.rest # <<>> /\ isInitialized
        <5>1. Head(s.tx.rest) \in Given /\ Tail(s.tx.rest) \in Seq(Given)
          BY <3>2, <4>1, HeadTailProperties
        <5> QED
          BY <2>5, <2>9, <4>1, <5>1 DEF executeMeta
      <4>2. CASE ~ (s.tx.rest # <<>> /\ isInitialized)
        BY <2>1, <2>9, <4>2 DEF executeMeta, Shape, TypeOK
      <4> QED
        BY <4>1, <4>2
    <3>4. metaTx' \in Seq(Saves(Given))
          /\ saving' \in SUBSET Saves(Given)
          /\ status' \in {"disconnected", "syncing", "connected"}
      BY <2>9, <3>1, <3>2 DEF executeMeta, Shape, TypeOK, Given
    <3>5. UNCHANGED <<store, meta, memoryCache, isInitialized, writing, ws, encrypting,
                      closed, connections, produced, durable, sent, failed, mishaps>>
      BY <2>9 DEF executeMeta, db
    <3> QED
      BY <3>3, <3>4, <3>5 DEF mishaps, Shape, TypeOK, Given
  <2>10. CASE reopen
    <3>1. metaTx' \in Seq(Saves(Given))
      <4>1. 1 \in 1..Len(metaTx) /\ metaTx[1] \in Saves(Given)
        BY <2>1, <2>10, EmptySeq, ElementOfSeq, LenProperties DEF reopen
      <4>2. [metaTx[1] EXCEPT !.reopen = FALSE] \in Saves(Given)
        BY <4>1 DEF Saves
      <4>3. metaTx' = [metaTx EXCEPT ![1] = [metaTx[1] EXCEPT !.reopen = FALSE]]
        BY <2>10 DEF reopen
      <4> QED
        BY <2>1, <4>1, <4>2, <4>3, ExceptSeq
    <3>2. UNCHANGED <<store, meta, storeTx, writing, saving, client, history>>
      BY <2>10 DEF reopen, db, commits
    <3> QED
      BY <2>3, <2>10, <3>1, <3>2
         DEF reopen, client, history, mishaps, Shape, TypeOK, Given
  <2>11. ASSUME NEW u \in encrypting, encrypted(u) PROVE Shape'
    <3>1. u \in Given
      BY <2>11 DEF Shape, TypeOK, Given
    <3>2. CASE sendEncrypted(u)
      BY <3>1, <3>2 DEF sendEncrypted, db, queue, txs, commits, mishaps, Shape, TypeOK, Given
    <3>3. CASE queueEncrypted(u)
      <4>1. storeTx' \in Seq(Tx) /\ nextId' \in Nat \ {0}
        <5>1. <<>> \in Seq(Given)
          OBVIOUS
        <5> QED
          BY <2>5, <3>1, <3>3, <5>1 DEF queueEncrypted
      <4> QED
        BY <3>3, <4>1 DEF queueEncrypted, db, commits, history, mishaps, Shape, TypeOK, Given
    <3>4. CASE dropEncrypted(u)
      BY <3>4 DEF dropEncrypted, db, queue, txs, commits, history, mishaps, Shape, TypeOK, Given
    <3> QED
      BY <2>11, <3>2, <3>3, <3>4 DEF encrypted
  <2>12. CASE acknowledged
    <3>1. memoryCache # <<>> => Clear(Data(memoryCache)) \in Tx
      <4> SUFFICES ASSUME memoryCache # <<>> PROVE Data(memoryCache) \in Seq(Given) \ {<<>>}
        BY DEF Clear, Clears
      <4>1. Len(memoryCache) \in Nat \ {0} /\ DOMAIN memoryCache = 1..Len(memoryCache)
        BY <2>1, EmptySeq, LenProperties
      <4>2. \A i \in 1..Len(memoryCache) : memoryCache[i].data \in Given
        <5>1. \A i \in 1..Len(memoryCache) : memoryCache[i] \in Row
          <6> HIDE DEF Row
          <6> QED
            BY <2>1, ElementOfSeq
        <5> QED
          BY <5>1
      <4>3. Data(memoryCache) \in [1..Len(memoryCache) -> Given]
        BY <4>1, <4>2 DEF Data
      <4>4. Data(memoryCache) \in Seq(Given) /\ Len(Data(memoryCache)) = Len(memoryCache)
        BY <4>1, <4>3
      <4> QED
        BY <4>1, <4>4
    <3>2. storeTx' \in Seq(Tx)
      <4>1. \/ storeTx' = storeTx
            \/ memoryCache # <<>> /\ storeTx' = Append(storeTx, Clear(Data(memoryCache)))
        BY <2>12 DEF acknowledged
      <4>2. CASE storeTx' = storeTx
        BY <2>1, <4>2
      <4>3. CASE memoryCache # <<>> /\ storeTx' = Append(storeTx, Clear(Data(memoryCache)))
        <5> DEFINE c == Clear(Data(memoryCache))
        <5>1. c \in Tx
          BY <3>1, <4>3
        <5> HIDE DEF Tx, c
        <5>2. Append(storeTx, c) \in Seq(Tx)
          BY <2>1, <5>1, AppendProperties
        <5> QED
          BY <4>3, <5>2 DEF c
      <4> QED
        BY <4>1, <4>2, <4>3
    <3>3. /\ ws' = "open" /\ status' \in {"connected", "syncing"}
          /\ connections' = connections + 1
          /\ UNCHANGED <<store, meta, memoryCache, nextId, isInitialized, metaTx, writing,
                         saving, encrypting, closed, produced, durable, sent,
                         failed, mishaps>>
      BY <2>12 DEF acknowledged, db, queue, commits, history
    <3>4. connections' \in Nat
      BY <3>3 DEF Shape, TypeOK
    <3>5. TypeOK'
      BY <3>3, <3>4 DEF mishaps, Shape, TypeOK
    <3> QED
      BY <3>2, <3>3, <3>5 DEF Shape, Given
  <2>13. CASE newClient
    <3>1. UNCHANGED <<store, meta, produced>>
      BY <2>13 DEF newClient, db, history
    <3> QED
      BY <2>3, <2>13, <3>1 DEF newClient, db, txs, commits, history, mishaps, Shape, TypeOK, Given
  <2>14. CASE restart
    <3>1. UNCHANGED <<store, meta, produced>>
      BY <2>14 DEF restart, db
    <3>2. storeTx' \in Seq(Tx) /\ metaTx' \in Seq(Saves(Given))
      BY <2>14 DEF restart
    <3> QED
      BY <2>3, <2>14, <3>1, <3>2 DEF restart, db, Shape, TypeOK, Given
  <2>15. CASE lose \/ handleClose \/ disconnect
    BY <2>15 DEF lose, handleClose, disconnect, db, queue, txs, commits, history, mishaps,
                 Shape, TypeOK, Given
  <2>16. CASE UNCHANGED vars
    BY <2>16 DEF vars, Shape, TypeOK, Given
  <2>17. ASSUME NEW tx \in writing, commitPut(tx) PROVE Shape'
    <3>1. tx \in Puts(Given) /\ tx.id \in Nat \ {0} /\ tx.data \in Given
      BY <2>1 DEF Puts
    <3>2. /\ DOMAIN store' = DOMAIN store \cup {tx.id}
          /\ \A i \in DOMAIN store' : store'[i] = IF i = tx.id THEN tx.data ELSE store[i]
          /\ store' = [i \in DOMAIN store' |-> store'[i]]
      BY <2>17 DEF commitPut
    <3>3. /\ IsFiniteSet(DOMAIN store') /\ DOMAIN store' \subseteq Nat \ {0}
          /\ store' \in [DOMAIN store' -> Given] /\ store' \in [DOMAIN store' -> Update]
      <4>1. IsFiniteSet(DOMAIN store) /\ DOMAIN store \subseteq Nat \ {0}
            /\ store \in [DOMAIN store -> Given]
        BY DEF Shape, TypeOK
      <4>2. IsFiniteSet(DOMAIN store') /\ DOMAIN store' \subseteq Nat \ {0}
        BY <3>1, <3>2, <4>1, FS_AddElement
      <4>3. \A i \in DOMAIN store' : store'[i] \in Given
        BY <3>1, <3>2, <4>1
      <4> QED
        BY <2>1, <3>2, <4>2, <4>3
    <3>4. durable' \subseteq Given /\ writing' \in SUBSET Puts(Given)
      BY <2>1, <2>17, <3>1 DEF commitPut, Shape, TypeOK, Given
    <3>5. UNCHANGED <<meta, queue, storeTx, metaTx, saving, client, produced, sent,
                      failed, mishaps>>
      BY <2>17 DEF commitPut
    <3> QED
      BY <3>3, <3>4, <3>5 DEF queue, client, mishaps, Shape, TypeOK, Given
  <2>18. ASSUME NEW tx \in writing, abortPut(tx) PROVE Shape'
    <3>1. tx.data \in Given
      BY <2>1 DEF Puts
    <3> QED
      BY <2>1, <2>18, <3>1
         DEF abortPut, db, queue, client, Shape, TypeOK, Given
  <2>19. ASSUME NEW s \in saving, commitMeta(s) PROVE Shape'
    <3>1. s.tx.data \in Given /\ s.nextId \in Nat
      BY <2>1 DEF Saves, Puts
    <3>2. meta' \in Nat /\ durable' \subseteq Given /\ saving' \in SUBSET Saves(Given)
      BY <2>1, <2>19, <3>1 DEF commitMeta, Shape, TypeOK, Given
    <3> QED
      BY <2>19, <3>2 DEF commitMeta, queue, client, mishaps, Shape, TypeOK, Given
  <2>20. ASSUME NEW s \in saving, abortMeta(s) PROVE Shape'
    BY <2>1, <2>20 DEF abortMeta, db, queue, client, history, mishaps, Shape, TypeOK, Given
  <2>21. ASSUME NEW u \in encrypting, encryptFails(u) PROVE Shape'
    BY <2>21 DEF encryptFails, db, queue, txs, commits, mishaps, Shape, TypeOK, Given
  <2>22. CASE putFails
    <3> DEFINE tx == Head(storeTx)
    <3>1. tx \in Puts(Given) /\ Tail(storeTx) \in Seq(Tx)
      BY <2>1, <2>22, HeadTailProperties DEF putFails, Puts, Clears
    <3>2. ToSet(<<tx.data>> \o tx.rest) \subseteq Given
      <4>1. tx.data \in Given /\ tx.rest \in Seq(Given)
        BY <3>1 DEF Puts
      <4>2. <<tx.data>> \o tx.rest \in Seq(Given)
        BY <4>1
      <4> QED
        BY <4>2, ElementOfSeq, LenProperties DEF ToSet
    <3>3. UNCHANGED <<db, queue, metaTx, commits, client, produced, durable, sent,
                      mishaps>>
      BY <2>22 DEF putFails
    <3>4. storeTx' \in Seq(Tx) /\ failed' \subseteq Given
      BY <2>22, <3>1, <3>2 DEF putFails, Shape, TypeOK, Given
    <3> QED
      BY <3>3, <3>4 DEF db, queue, commits, client, mishaps, Shape, TypeOK, Given
  <2>23. CASE clearFails
    <3>1. Head(storeTx) \in Clears(Given) /\ Tail(storeTx) \in Seq(Tx)
      BY <2>1, <2>23, HeadTailProperties DEF clearFails, Puts, Clears
    <3>2. ToSet(Head(storeTx).copy) \subseteq Given
      <4>1. Head(storeTx).copy \in Seq(Given)
        BY <3>1 DEF Clears
      <4> QED
        BY <4>1, ElementOfSeq, LenProperties DEF ToSet
    <3>3. storeTx' \in Seq(Tx) /\ failed' \subseteq Given /\ flushFailed' \in BOOLEAN
      BY <2>23, <3>1, <3>2 DEF clearFails, Shape, TypeOK, Given
    <3>4. UNCHANGED <<db, queue, metaTx, commits, client, produced, durable, sent,
                      disconnected, killed, aborted>>
      BY <2>23 DEF clearFails
    <3> QED
      BY <3>3, <3>4 DEF db, queue, commits, client, Shape, TypeOK, Given
  <2>24. CASE saveFails
    <3>1. Head(metaTx) \in Saves(Given) /\ Tail(metaTx) \in Seq(Saves(Given))
      BY <2>1, <2>24, HeadTailProperties DEF saveFails
    <3>2. ToSet(Head(metaTx).tx.rest) \subseteq Given
      <4>1. Head(metaTx).tx.rest \in Seq(Given)
        BY <3>1 DEF Saves, Puts
      <4> QED
        BY <4>1, ElementOfSeq, LenProperties DEF ToSet
    <3>3. metaTx' \in Seq(Saves(Given)) /\ failed' \subseteq Given
      BY <2>24, <3>1, <3>2 DEF saveFails, Shape, TypeOK, Given
    <3>4. UNCHANGED <<db, queue, storeTx, commits, client, produced, durable, sent,
                      mishaps>>
      BY <2>24 DEF saveFails
    <3> QED
      BY <3>3, <3>4 DEF db, queue, commits, client, mishaps, Shape, TypeOK, Given
  <2> QED
    BY <2>6, <2>7, <2>8, <2>9, <2>10, <2>11, <2>12, <2>13, <2>14, <2>15, <2>16, <2>17,
       <2>18, <2>19, <2>20, <2>21, <2>22, <2>23, <2>24 DEF Next, Browser, Failure
<1>3. Shape => TypeOK
  BY DEF Shape
<1> QED
  BY <1>1, <1>2, <1>3, PTL DEF Spec

-----------------------------------------------------------------------------
(* Ids, the cache and the rows.                                             *)

\* What a sequence is after an append and a tail.
LEMMA Appended ==
  ASSUME NEW U, NEW q \in Seq(U), NEW t
  PROVE  /\ Len(q) \in Nat /\ DOMAIN q = 1..Len(q)
         /\ DOMAIN Append(q, t) = 1..(Len(q) + 1) /\ Append(q, t)[Len(q) + 1] = t
         /\ \A i \in 1..Len(q) : Append(q, t)[i] = q[i]
<1> DEFINE T == U \cup {t}
<1>1. q \in Seq(T) /\ t \in T
  BY SeqMonotonic
<1> HIDE DEF T
<1>2. Append(q, t) \in Seq(T) /\ Len(Append(q, t)) = Len(q) + 1
  BY <1>1, AppendProperties
<1> QED
  BY <1>1, <1>2, AppendProperties, LenProperties

LEMMA Tailed ==
  ASSUME NEW U, NEW q \in Seq(U), q # <<>>
  PROVE  /\ Head(q) \in U /\ Head(q) = q[1] /\ 1 \in DOMAIN q /\ Tail(q) \in Seq(U)
         /\ Len(q) \in Nat /\ DOMAIN q = 1..Len(q) /\ DOMAIN Tail(q) = 1..(Len(q) - 1)
         /\ \A i \in DOMAIN Tail(q) : /\ Tail(q)[i] = q[i + 1]
                                      /\ i \in Nat /\ 1 < i + 1 /\ i + 1 \in DOMAIN q
BY HeadTailProperties, LenProperties, EmptySeq

\* What a queue of transactions keeps when one is started or executed.
LEMMA QueueKeeps ==
  ASSUME NEW U, NEW q \in Seq(Puts(U) \cup Clears(U)), NEW n \in Nat, Ascends(q, n)
  PROVE  /\ \A p \in Puts(U) : p.id = n =>
              /\ Ascends(Append(q, p), n + 1)
              /\ \A r \in Nat : Above(q, r) /\ r < n => Above(Append(q, p), r)
         /\ \A c : c.op # "put" =>
              /\ Ascends(Append(q, c), n)
              /\ \A r \in Nat : Above(q, r) => Above(Append(q, c), r)
         /\ q # <<>> =>
              /\ Ascends(Tail(q), n)
              /\ \A r \in Nat : Above(q, r) => Above(Tail(q), r)
              /\ Head(q).op = "put" => /\ Above(Tail(q), Head(q).id) /\ Head(q).id < n
                                       /\ \A r \in Nat : Above(q, r) => r < Head(q).id
<1> DEFINE Tx == Puts(U) \cup Clears(U)
<1>1. /\ Len(q) \in Nat /\ DOMAIN q = 1..Len(q)
      /\ \A i \in 1..Len(q) : q[i] \in Tx /\ (q[i].op = "put" => q[i].id \in Nat)
  BY ElementOfSeq, LenProperties DEF Puts, Clears
<1>2. ASSUME NEW t
      PROVE  /\ DOMAIN Append(q, t) = 1..(Len(q) + 1) /\ Append(q, t)[Len(q) + 1] = t
             /\ \A i \in 1..Len(q) : Append(q, t)[i] = q[i]
  BY Appended
<1>3. ASSUME NEW p \in Puts(U), p.id = n
      PROVE  /\ Ascends(Append(q, p), n + 1)
             /\ \A r \in Nat : Above(q, r) /\ r < n => Above(Append(q, p), r)
  BY <1>1, <1>2, <1>3 DEF Ascends, Above
<1>4. ASSUME NEW c, c.op # "put"
      PROVE  /\ Ascends(Append(q, c), n)
             /\ \A r \in Nat : Above(q, r) => Above(Append(q, c), r)
  BY <1>1, <1>2, <1>4 DEF Ascends, Above
<1>5. ASSUME q # <<>>
      PROVE  /\ Ascends(Tail(q), n)
             /\ \A r \in Nat : Above(q, r) => Above(Tail(q), r)
             /\ Head(q).op = "put" => /\ Above(Tail(q), Head(q).id) /\ Head(q).id < n
                                      /\ \A r \in Nat : Above(q, r) => r < Head(q).id
  <2>1. /\ DOMAIN Tail(q) = 1..(Len(q) - 1) /\ Head(q) = q[1] /\ Len(q) >= 1
        /\ \A i \in 1..(Len(q) - 1) : Tail(q)[i] = q[i + 1] /\ i + 1 \in 1..Len(q)
    BY <1>1, <1>5, HeadTailProperties, LenProperties, EmptySeq
  <2> QED
    BY <1>1, <2>1 DEF Ascends, Above
<1> QED
  BY <1>3, <1>4, <1>5

\* The numbers and sequences that the parts of the invariant talk about.
LEMMA Numbers ==
  ASSUME Shape
  PROVE  /\ nextId \in Nat \ {0} /\ meta \in Nat /\ DOMAIN store \subseteq Nat \ {0}
         /\ \A tx \in writing : tx.id \in Nat
         /\ \A m \in Pending : m.tx.id \in Nat /\ m.nextId \in Nat /\ m \in Saves(Given)
         /\ \A k \in DOMAIN memoryCache : memoryCache[k].id \in Nat
<1> DEFINE Row == [id : Nat \ {0}, data : Given]
<1>1. /\ storeTx \in Seq(Puts(Given) \cup Clears(Given)) /\ metaTx \in Seq(Saves(Given))
      /\ memoryCache \in Seq(Row)
      /\ writing \in SUBSET Puts(Given) /\ saving \in SUBSET Saves(Given)
  BY DEF Shape
<1>2. \A m \in Pending : m \in Saves(Given)
  <2>1. \A k \in DOMAIN metaTx : metaTx[k] \in Saves(Given)
    BY <1>1, ElementOfSeq, LenProperties
  <2> QED
    BY <1>1, <2>1 DEF Pending
<1>3. \A k \in DOMAIN memoryCache : memoryCache[k] \in Row
  <2> HIDE DEF Row
  <2> QED
    BY <1>1, ElementOfSeq, LenProperties
<1> QED
  BY <1>1, <1>2, <1>3 DEF Saves, Puts, Shape, TypeOK

\* A step that leaves what the database and the transactions are made of keeps all.
Same == UNCHANGED <<store, meta, memoryCache, nextId, isInitialized, closed, storeTx, metaTx,
                    writing, saving, durable, disconnected, killed, aborted>>

\* Starting transactions, with nothing else: a put with the next id, or a clear.
LEMMA Started ==
  ASSUME Shape, Ids, Fresh, Mirror,
         UNCHANGED <<store, meta, memoryCache, isInitialized, closed, metaTx, writing, saving,
                     disconnected, killed, aborted>>,
         nextId' \in Nat, nextId <= nextId',
         ~ disconnected => /\ Ascends(storeTx', nextId')
                           /\ \A r \in Nat : Above(storeTx, r) /\ r < nextId => Above(storeTx', r)
  PROVE  /\ Ids' /\ Fresh' /\ Mirror'
         /\ ~ disconnected => \A r \in Nat : Past(r) => Past(r)'
<1>1. /\ nextId \in Nat /\ meta \in Nat /\ DOMAIN store \subseteq Nat
      /\ \A tx \in writing : tx.id \in Nat
      /\ \A m \in Pending : m.tx.id \in Nat /\ m.nextId \in Nat
      /\ \A k \in DOMAIN memoryCache : memoryCache[k].id \in Nat
  BY Numbers
<1>2. Pending' = Pending
  BY DEF Pending
<1>3. ~ disconnected => \A r \in Nat : Past(r) => Past(r)'
  BY <1>1 DEF Past
<1>4. Ids'
  <2> SUFFICES ASSUME ~ disconnected PROVE Ids'
    BY DEF Ids
  <2>1. meta' <= nextId' /\ \A m \in Pending : m.nextId <= nextId'
    BY <1>1 DEF Ids
  <2>2. \A tx \in writing : tx.id < nextId' /\ Above(storeTx', tx.id)
    BY <1>1 DEF Ids
  <2>3. \A m \in Pending : Above(storeTx', m.tx.id)
    <3> TAKE m \in Pending
    <3>1. m.tx.id < m.nextId /\ m.nextId <= nextId /\ Above(storeTx, m.tx.id)
      BY DEF Ids
    <3>2. m.tx.id < nextId
      BY <1>1, <3>1
    <3> QED
      BY <1>1, <3>1, <3>2
  <2> QED
    BY <1>2, <2>1, <2>2, <2>3 DEF Ids
<1>5. Fresh'
  BY <1>1, <1>3 DEF Fresh
<1>6. Mirror'
  <2> SUFFICES ASSUME ~ disconnected, ~ killed, ~ aborted PROVE Mirror'
    BY DEF Mirror
  <2>1. \A k \in DOMAIN memoryCache :
           memoryCache[k].id < nextId' /\ Above(storeTx', memoryCache[k].id)
    BY <1>1 DEF Mirror
  <2> QED
    BY <2>1 DEF Mirror
<1> QED
  BY <1>3, <1>4, <1>5, <1>6

\* The same for a step that lets saves of nextId be forgotten.
LEMMA Forgotten ==
  ASSUME Shape, Ids, Fresh, Mirror, Kept,
         UNCHANGED <<store, memoryCache, nextId, isInitialized, closed, storeTx, writing,
                     connections, disconnected, killed, aborted>>,
         Pending' \subseteq Pending, saving' \subseteq Pending,
         meta' \in Nat, meta <= meta',
         ~ disconnected =>
           /\ meta' <= nextId /\ \A m \in Pending' : meta' <= m.nextId
           /\ \A k, l \in DOMAIN metaTx' : k < l => metaTx'[k].nextId <= metaTx'[l].nextId
           /\ \A s \in saving' : \A k \in DOMAIN metaTx' : s.nextId <= metaTx'[k].nextId
           /\ \A s, t \in saving' : s = t,
         ~ disconnected =>
           \A u \in durable' : \/ u \in durable
                               \/ \E r \in DOMAIN store : store[r] = u /\ r < meta' /\ Past(r)
  PROVE  Ids' /\ Fresh' /\ Mirror' /\ Kept'
<1>1. nextId \in Nat /\ meta \in Nat /\ DOMAIN store \subseteq Nat
  BY Numbers
<1>2. Ids'
  <2> SUFFICES ASSUME ~ disconnected PROVE Ids'
    BY DEF Ids
  <2>1. \A m \in Pending' : /\ ~ m.reopen /\ m.tx.id < m.nextId /\ m.nextId <= nextId
                            /\ Above(storeTx, m.tx.id)
                            /\ \A tx \in writing : tx = m.tx \/ m.tx.id < tx.id
    BY DEF Ids
  <2> QED
    BY <2>1 DEF Ids
<1>3. Fresh' /\ Mirror'
  BY DEF Fresh, Mirror, Past
<1>4. Kept'
  <2> SUFFICES ASSUME connections = 0, ~ disconnected PROVE Kept'
    BY DEF Kept
  <2>1. \A r \in DOMAIN store : r < meta => r < meta'
    BY <1>1
  <2>2. \A u \in durable' : \E r \in DOMAIN store : store[r] = u /\ r < meta' /\ Past(r)
    BY <2>1 DEF Kept
  <2> QED
    BY <2>2 DEF Kept, Past
<1> QED
  BY <1>2, <1>3, <1>4

\* Ids, cache and rows agree in every behaviour, whatever requests are under way.
LEMMA InvHolds == Spec => []Inv
<1>1. Init => Ids /\ Fresh /\ Mirror /\ Kept
  <2> SUFFICES ASSUME Init PROVE Ids /\ Fresh /\ Mirror /\ Kept
    OBVIOUS
  <2>1. /\ DOMAIN store = {} /\ DOMAIN memoryCache = {} /\ DOMAIN storeTx = {}
        /\ DOMAIN metaTx = {} /\ writing = {} /\ saving = {} /\ Pending = {}
    BY DEF Init, NoRows, Pending
  <2> QED
    BY <2>1 DEF Init, Ids, Fresh, Mirror, Kept, Ascends, None
<1>2. Shape /\ Shape' /\ Ids /\ Fresh /\ Mirror /\ Kept /\ [Next]_vars
        => Ids' /\ Fresh' /\ Mirror' /\ Kept'
  <2> SUFFICES ASSUME Shape, Shape', Ids, Fresh, Mirror, Kept, [Next]_vars
               PROVE  Ids' /\ Fresh' /\ Mirror' /\ Kept'
    OBVIOUS
  <2> DEFINE Tx == Puts(Given) \cup Clears(Given)
             Row == [id : Nat \ {0}, data : Given]
  <2>1. /\ storeTx \in Seq(Tx) /\ metaTx \in Seq(Saves(Given)) /\ memoryCache \in Seq(Row)
        /\ writing \in SUBSET Puts(Given) /\ saving \in SUBSET Saves(Given)
        /\ nextId \in Nat \ {0} /\ nextId' \in Nat \ {0} /\ meta \in Nat
        /\ DOMAIN store \subseteq Nat \ {0}
    BY DEF Shape, TypeOK
  <2>2. /\ \A tx \in writing : tx.id \in Nat
        /\ \A m \in Pending : m.tx.id \in Nat /\ m.nextId \in Nat /\ m \in Saves(Given)
        /\ \A k \in DOMAIN memoryCache : memoryCache[k].id \in Nat
    BY Numbers
  <2> HIDE DEF Tx, Row
  \* a put is started
  <2>3. ASSUME ~ disconnected,
               NEW q \in Seq(Tx), Ascends(q, nextId),
               \A r \in Nat : Above(storeTx, r) => Above(q, r),
               NEW u \in Given, NEW rest \in Seq(Given), NEW flush \in BOOLEAN,
               storeTx' = Append(q, Put(nextId, u, rest, flush)), nextId' = nextId + 1
        PROVE  /\ Ascends(storeTx', nextId') /\ nextId <= nextId'
               /\ \A r \in Nat : Above(storeTx, r) /\ r < nextId => Above(storeTx', r)
    <3>1. Put(nextId, u, rest, flush) \in Puts(Given) /\ Put(nextId, u, rest, flush).id = nextId
      BY <2>1 DEF Put, Puts
    <3>2. nextId <= nextId'
      BY <2>1, <2>3
    <3> QED
      BY <2>1, <2>3, <3>1, <3>2, QueueKeeps DEF Tx
  \* the first transaction of the list leaves it
  <2>4. ASSUME storeTx # <<>>
        PROVE  /\ Head(storeTx) \in Tx /\ Head(storeTx) = storeTx[1] /\ 1 \in DOMAIN storeTx
               /\ Tail(storeTx) \in Seq(Tx)
               /\ ~ disconnected =>
                    /\ Ascends(Tail(storeTx), nextId)
                    /\ \A r \in Nat : Above(storeTx, r) => Above(Tail(storeTx), r)
                    /\ Head(storeTx).op = "put" =>
                         /\ Above(Tail(storeTx), Head(storeTx).id)
                         /\ Head(storeTx).id < nextId
                         /\ \A r \in Nat : Above(storeTx, r) => r < Head(storeTx).id
               /\ (\A i \in DOMAIN storeTx : storeTx[i].op = "put")
                    => \A i \in DOMAIN Tail(storeTx) : Tail(storeTx)[i].op = "put"
    <3>1. /\ Head(storeTx) \in Tx /\ Head(storeTx) = storeTx[1] /\ 1 \in DOMAIN storeTx
          /\ Tail(storeTx) \in Seq(Tx)
          /\ \A i \in DOMAIN Tail(storeTx) :
               Tail(storeTx)[i] = storeTx[i + 1] /\ i + 1 \in DOMAIN storeTx
      BY <2>1, <2>4, Tailed
    <3>2. ~ disconnected => Ascends(storeTx, nextId)
      BY DEF Ids
    <3> QED
      BY <2>1, <2>4, <3>1, <3>2, QueueKeeps DEF Tx
  \* a put is added at the end of the list
  <2>5. ASSUME NEW p, p.op = "put", storeTx' = Append(storeTx, p),
               \A i \in DOMAIN storeTx : storeTx[i].op = "put"
        PROVE  \A i \in DOMAIN storeTx' : storeTx'[i].op = "put"
    <3>1. /\ Len(storeTx) \in Nat /\ DOMAIN storeTx = 1..Len(storeTx)
          /\ DOMAIN storeTx' = 1..(Len(storeTx) + 1) /\ storeTx'[Len(storeTx) + 1] = p
          /\ \A i \in 1..Len(storeTx) : storeTx'[i] = storeTx[i]
      BY <2>1, <2>5, Appended
    <3> QED
      BY <2>5, <3>1
  <2>6. ASSUME Same, UNCHANGED connections PROVE Ids' /\ Fresh' /\ Mirror' /\ Kept'
    BY <2>6 DEF Same, Ids, Fresh, Mirror, Kept, Past, Pending
  <2>7. CASE sendUpdate \/ lose \/ handleClose \/ UNCHANGED vars
    <3>1. Same /\ UNCHANGED connections
      BY <2>7 DEF sendUpdate, lose, handleClose, vars, Same, db, queue, txs, commits, client,
                  history, mishaps
    <3> QED
      BY <2>6, <3>1
  <2>8. CASE executePut
    <3> DEFINE tx == Head(storeTx)
               m == [nextId |-> nextId, tx |-> tx, reopen |-> ~ isInitialized]
               row == [id |-> tx.id, data |-> tx.data]
    <3>1. /\ storeTx # <<>> /\ tx.op = "put" /\ writing = {} /\ writing' = {tx}
          /\ storeTx' = Tail(storeTx) /\ metaTx' = Append(metaTx, m)
          /\ memoryCache' = Append(memoryCache, row)
          /\ UNCHANGED <<store, meta, saving, nextId, isInitialized, closed, connections,
                         durable, disconnected, killed, aborted>>
      BY <2>8 DEF executePut, db, client, history, mishaps
    <3>2. tx \in Puts(Given) /\ tx.id \in Nat \ {0}
      BY <2>4, <3>1 DEF Tx, Clears, Puts
    <3>3. m.nextId = nextId /\ m.tx = tx /\ (isInitialized => ~ m.reopen)
          /\ row.id = tx.id /\ row.data = tx.data
      OBVIOUS
    <3> HIDE DEF m, row
    <3> SUFFICES ASSUME ~ disconnected PROVE Ids' /\ Fresh' /\ Mirror' /\ Kept'
      BY <3>1 DEF Ids, Fresh, Mirror, Kept
    <3>4. /\ Ascends(storeTx', nextId') /\ Above(storeTx', tx.id) /\ tx.id < nextId
          /\ \A r \in Nat : Above(storeTx, r) => Above(storeTx', r) /\ r < tx.id
      BY <2>4, <3>1
    <3> HIDE DEF tx
    <3>5. /\ Pending' = Pending \cup {m} /\ saving' = saving
          /\ \A k \in DOMAIN metaTx' : metaTx'[k] = m \/ k \in DOMAIN metaTx
          /\ \A k \in DOMAIN metaTx : metaTx'[k] = metaTx[k]
          /\ \A k, l \in DOMAIN metaTx' : k < l =>
               (metaTx'[l] = m /\ l \notin DOMAIN metaTx) \/ (k \in DOMAIN metaTx /\ l \in DOMAIN metaTx)
      <4>1. /\ Len(metaTx) \in Nat /\ DOMAIN metaTx = 1..Len(metaTx)
            /\ DOMAIN metaTx' = 1..(Len(metaTx) + 1) /\ metaTx'[Len(metaTx) + 1] = m
            /\ \A i \in 1..Len(metaTx) : metaTx'[i] = metaTx[i]
        BY <2>1, <3>1, Appended
      <4>2. \A k \in DOMAIN metaTx' : k = Len(metaTx) + 1 \/ k \in DOMAIN metaTx
        BY <4>1
      <4>3. {metaTx'[k] : k \in DOMAIN metaTx'} = {metaTx[k] : k \in DOMAIN metaTx} \cup {m}
        BY <4>1, <4>2
      <4> QED
        BY <3>1, <4>1, <4>2, <4>3 DEF Pending
    <3>6. \A r \in Nat : Past(r) => Past(r)'
      BY <3>1, <3>4 DEF Past
    <3>7. Ids'
      <4>1. \A p \in Pending : /\ ~ p.reopen /\ p.tx.id < p.nextId /\ meta <= p.nextId
                               /\ p.nextId <= nextId /\ Above(storeTx', p.tx.id)
                               /\ p.tx.id < tx.id
        BY <2>2, <3>4 DEF Ids
      <4>2. /\ ~ m.reopen /\ m.tx.id < m.nextId /\ meta <= m.nextId /\ m.nextId <= nextId
            /\ Above(storeTx', m.tx.id)
        BY <2>1, <3>3, <3>4 DEF Ids
      <4>3. \A p \in Pending' : /\ ~ p.reopen /\ p.tx.id < p.nextId /\ meta' <= p.nextId
                                /\ p.nextId <= nextId' /\ Above(storeTx', p.tx.id)
                                /\ \A ty \in writing' : ty = p.tx \/ p.tx.id < ty.id
        BY <3>1, <3>3, <3>5, <4>1, <4>2
      <4>4. \A k \in DOMAIN metaTx' : metaTx'[k] \in Pending' /\ metaTx'[k].nextId <= m.nextId
        BY <3>1, <3>3, <4>3 DEF Pending
      <4>5. \A k, l \in DOMAIN metaTx' : k < l => metaTx'[k].nextId <= metaTx'[l].nextId
        BY <3>5, <4>4 DEF Ids
      <4>6. \A s \in saving' : \A k \in DOMAIN metaTx' : s.nextId <= metaTx'[k].nextId
        <5>1. \A s \in saving : s.nextId <= m.nextId
          BY <3>3, <4>1 DEF Pending
        <5> QED
          BY <3>5, <5>1 DEF Ids
      <4>7. /\ isInitialized' /\ ~ closed' /\ meta' <= nextId' /\ \A s, t \in saving' : s = t
        BY <3>1 DEF Ids
      <4>8. \A ty \in writing' : ty.id < nextId' /\ Above(storeTx', ty.id)
        BY <3>1, <3>4
      <4>9. \A ty, tz \in writing' : ty = tz
        BY <3>1
      <4> QED
        BY <3>4, <4>3, <4>5, <4>6, <4>7, <4>8, <4>9 DEF Ids
    <3>8. Fresh'
      BY <2>1, <3>1, <3>6 DEF Fresh
    <3>9. Mirror'
      <4> SUFFICES ASSUME ~ killed, ~ aborted PROVE Mirror'
        BY <3>1 DEF Mirror
      <4>1. /\ Len(memoryCache) \in Nat /\ DOMAIN memoryCache = 1..Len(memoryCache)
            /\ DOMAIN memoryCache' = 1..(Len(memoryCache) + 1)
            /\ memoryCache'[Len(memoryCache) + 1] = row
            /\ \A k \in 1..Len(memoryCache) : memoryCache'[k] = memoryCache[k]
        BY <2>1, <3>1, Appended
      <4>2. /\ \A k \in DOMAIN memoryCache' : k = Len(memoryCache) + 1 \/ k \in DOMAIN memoryCache
            /\ \A k, l \in DOMAIN memoryCache' : k < l => k \in DOMAIN memoryCache
        BY <4>1
      <4>3. {memoryCache[k].id : k \in DOMAIN memoryCache} = DOMAIN store
        BY <3>1 DEF Mirror
      <4>4. \A k \in DOMAIN memoryCache :
               /\ store[memoryCache[k].id] = memoryCache[k].data
               /\ memoryCache[k].id < tx.id /\ memoryCache[k].id < nextId
               /\ Above(storeTx', memoryCache[k].id)
        BY <2>2, <3>4, <4>3 DEF Mirror
      <4>5. tx.id \notin DOMAIN store
        BY <2>1, <3>2, <3>4, <4>3, <4>4
      <4>6. {memoryCache'[k].id : k \in DOMAIN memoryCache'} = DOMAIN store \cup {tx.id}
        BY <3>3, <4>1, <4>2, <4>3
      <4>7. \A k \in DOMAIN memoryCache :
               /\ memoryCache'[k] = memoryCache[k]
               /\ \A ty \in writing' : ty.id # memoryCache'[k].id
        BY <2>2, <3>1, <3>2, <4>1, <4>4
      <4>8. \A k \in DOMAIN memoryCache' :
              /\ memoryCache'[k].id \in DOMAIN store => store[memoryCache'[k].id] = memoryCache'[k].data
              /\ \A ty \in writing' : ty.id = memoryCache'[k].id => ty.data = memoryCache'[k].data
              /\ memoryCache'[k].id < nextId /\ Above(storeTx', memoryCache'[k].id)
        BY <3>1, <3>3, <3>4, <4>1, <4>2, <4>4, <4>5, <4>7
      <4>9. \A k, l \in DOMAIN memoryCache' : k < l => memoryCache'[k].id < memoryCache'[l].id
        <5> TAKE k, l \in DOMAIN memoryCache'
        <5> HAVE k < l
        <5>1. CASE l \in DOMAIN memoryCache
          BY <4>2, <4>7, <5>1 DEF Mirror
        <5>2. CASE l = Len(memoryCache) + 1
          BY <3>3, <4>1, <4>2, <4>4, <4>7, <5>2
        <5> QED
          BY <4>2, <5>1, <5>2
      <4>10. {ty.id : ty \in writing'} = {tx.id}
        BY <3>1
      <4> QED
        BY <3>1, <4>6, <4>8, <4>9, <4>10 DEF Mirror
    <3>10. Kept'
      <4> SUFFICES ASSUME connections = 0 PROVE Kept'
        BY <3>1 DEF Kept
      <4>1. \A i \in DOMAIN storeTx' : storeTx'[i].op = "put"
        BY <2>4, <3>1 DEF Kept
      <4>2. \A u \in durable' : \E r \in DOMAIN store' : store'[r] = u /\ r < meta' /\ Past(r)'
        BY <2>1, <3>1, <3>6 DEF Kept
      <4> QED
        BY <4>1, <4>2 DEF Kept
    <3> QED
      BY <3>7, <3>8, <3>9, <3>10
  <2>9. ASSUME NEW tx \in writing, commitPut(tx) PROVE Ids' /\ Fresh' /\ Mirror' /\ Kept'
    <3>1. /\ DOMAIN store' = DOMAIN store \cup {tx.id}
          /\ \A i \in DOMAIN store' : store'[i] = IF i = tx.id THEN tx.data ELSE store[i]
          /\ writing' = writing \ {tx} /\ tx.id \in Nat
          /\ durable' = IF tx.id < meta THEN durable \cup {tx.data} ELSE durable
          /\ UNCHANGED <<meta, memoryCache, nextId, isInitialized, closed, storeTx, metaTx,
                         saving, connections, disconnected, killed, aborted>>
      BY <2>2, <2>9 DEF commitPut, queue, client, mishaps
    <3> SUFFICES ASSUME ~ disconnected PROVE Ids' /\ Fresh' /\ Mirror' /\ Kept'
      BY <3>1 DEF Ids, Fresh, Mirror, Kept
    <3>2. writing = {tx} /\ writing' = {} /\ Pending' = Pending
      BY <3>1 DEF Ids, Pending
    <3>3. tx.id < nextId /\ Above(storeTx, tx.id) /\ Past(tx.id)'
          /\ \A r \in Nat : Past(r) => r # tx.id /\ Past(r)'
      BY <3>1, <3>2 DEF Ids, Past
    <3>4. Ids'
      <4>1. /\ isInitialized /\ ~ closed /\ Ascends(storeTx, nextId) /\ meta <= nextId
            /\ \A m \in Pending :
                 /\ ~ m.reopen
                 /\ m.tx.id < m.nextId /\ meta <= m.nextId /\ m.nextId <= nextId
                 /\ Above(storeTx, m.tx.id)
            /\ \A k, l \in DOMAIN metaTx : k < l => metaTx[k].nextId <= metaTx[l].nextId
            /\ \A s \in saving : \A k \in DOMAIN metaTx : s.nextId <= metaTx[k].nextId
            /\ \A s, t \in saving : s = t
        BY DEF Ids
      <4> QED
        BY <3>1, <3>2, <4>1 DEF Ids
    <3>5. Fresh'
      BY <2>1, <3>1, <3>3 DEF Fresh
    <3>6. Mirror'
      <4> SUFFICES ASSUME ~ killed, ~ aborted PROVE Mirror'
        BY <3>1 DEF Mirror
      <4>1. {memoryCache[k].id : k \in DOMAIN memoryCache} = DOMAIN store'
        BY <3>1, <3>2 DEF Mirror
      <4>2. \A k \in DOMAIN memoryCache : store'[memoryCache[k].id] = memoryCache[k].data
        <5> TAKE k \in DOMAIN memoryCache
        <5>1. /\ memoryCache[k].id \in DOMAIN store'
              /\ memoryCache[k].id \in DOMAIN store =>
                   store[memoryCache[k].id] = memoryCache[k].data
              /\ tx.id = memoryCache[k].id => tx.data = memoryCache[k].data
          BY <4>1 DEF Mirror
        <5> QED
          BY <3>1, <5>1
      <4> QED
        BY <3>1, <3>2, <4>1, <4>2 DEF Mirror
    <3>7. Kept'
      <4> SUFFICES ASSUME connections = 0 PROVE Kept'
        BY <3>1 DEF Kept
      <4>1. \A i \in DOMAIN storeTx' : storeTx'[i].op = "put"
        BY <3>1 DEF Kept
      <4>2. \A u \in durable : \E r \in DOMAIN store' : store'[r] = u /\ r < meta /\ Past(r)'
        <5> TAKE u \in durable
        <5>1. PICK r \in DOMAIN store : store[r] = u /\ r < meta /\ Past(r)
          BY DEF Kept
        <5>2. r # tx.id /\ Past(r)'
          BY <2>1, <3>3, <5>1
        <5> QED
          BY <3>1, <5>1, <5>2
      <4>3. tx.id < meta => \E r \in DOMAIN store' : store'[r] = tx.data /\ r < meta /\ Past(r)'
        BY <3>1, <3>3
      <4>4. \A u \in durable' : \E r \in DOMAIN store' : store'[r] = u /\ r < meta' /\ Past(r)'
        BY <3>1, <4>2, <4>3
      <4> QED
        BY <4>1, <4>4 DEF Kept
    <3> QED
      BY <3>4, <3>5, <3>6, <3>7
  <2>10. ASSUME NEW tx \in writing, abortPut(tx) PROVE Ids' /\ Fresh' /\ Mirror' /\ Kept'
    <3>1. /\ writing' = writing \ {tx} /\ aborted'
          /\ UNCHANGED <<store, meta, memoryCache, nextId, isInitialized, closed, storeTx,
                         metaTx, saving, connections, durable, disconnected, killed>>
      BY <2>10 DEF abortPut, db, queue, client
    <3>2. Pending' = Pending /\ \A r \in Nat : Past(r) => Past(r)'
      BY <3>1 DEF Pending, Past
    <3>3. Ids'
      <4> SUFFICES ASSUME ~ disconnected PROVE Ids'
        BY <3>1 DEF Ids
      <4>1. \A m \in Pending : \A ty \in writing' : ty = m.tx \/ m.tx.id < ty.id
        BY <3>1 DEF Ids
      <4> QED
        BY <3>1, <3>2, <4>1 DEF Ids
    <3>4. Fresh' /\ Mirror'
      BY <2>1, <3>1, <3>2 DEF Fresh, Mirror
    <3>5. Kept'
      BY <2>1, <3>1, <3>2 DEF Kept
    <3> QED
      BY <3>3, <3>4, <3>5
  <2>11. CASE putFails \/ clearFails
    <3>1. /\ storeTx # <<>> /\ storeTx' = Tail(storeTx)
          /\ UNCHANGED <<store, meta, memoryCache, nextId, isInitialized, closed, metaTx,
                         writing, saving, connections, durable, disconnected, killed, aborted>>
      BY <2>11 DEF putFails, clearFails, db, queue, commits, client, mishaps
    <3>2. ~ disconnected => /\ Ascends(storeTx', nextId')
                            /\ \A r \in Nat : Above(storeTx, r) => Above(storeTx', r)
      BY <2>4, <3>1
    <3>3. nextId <= nextId'
      BY <2>1, <3>1
    <3>4. /\ Ids' /\ Fresh' /\ Mirror'
          /\ ~ disconnected => \A r \in Nat : Past(r) => Past(r)'
      BY <2>1, <3>1, <3>2, <3>3, Started
    <3>5. Kept'
      BY <2>1, <2>4, <3>1, <3>4 DEF Kept
    <3> QED
      BY <3>4, <3>5
  <2>12. CASE executeClear
    <3> DEFINE updates == Head(storeTx).copy
               q == Tail(storeTx)
    <3>1. /\ storeTx # <<>> /\ Head(storeTx).op = "clear" /\ writing = {}
          /\ DOMAIN store' = {} /\ memoryCache' = <<>>
          /\ UNCHANGED <<meta, isInitialized, closed, metaTx, writing, saving, connections,
                         durable, disconnected, killed, aborted>>
      BY <2>12 DEF executeClear, commits, mishaps, NoRows
    <3>2. Head(updates) \in Given /\ Tail(updates) \in Seq(Given)
      <4>1. updates \in Seq(Given) /\ updates # <<>>
        BY <2>4, <3>1 DEF Tx, Puts, Clears
      <4> QED
        BY <4>1, HeadTailProperties
    <3> SUFFICES ASSUME ~ disconnected PROVE Ids' /\ Fresh' /\ Mirror' /\ Kept'
      BY <3>1 DEF Ids, Fresh, Mirror, Kept
    <3>3. /\ Ascends(storeTx', nextId') /\ nextId <= nextId'
          /\ \A r \in Nat : Above(storeTx, r) /\ r < nextId => Above(storeTx', r)
      <4>1. q \in Seq(Tx) /\ Ascends(q, nextId) /\ \A r \in Nat : Above(storeTx, r) => Above(q, r)
        BY <2>4, <3>1
      <4>2. CASE storeTx' = q /\ nextId' = nextId
        BY <2>1, <4>1, <4>2
      <4>3. CASE /\ storeTx' = Append(q, Put(nextId, Head(updates), Tail(updates), TRUE))
                 /\ nextId' = nextId + 1
        <5> HIDE DEF q, updates
        <5> QED
          BY <2>3, <3>2, <4>1, <4>3
      <4> QED
        BY <2>12, <4>2, <4>3 DEF executeClear
    <3> HIDE DEF q, updates
    <3>4. Ids'
      <4>1. Pending' = Pending
        BY <3>1 DEF Pending
      <4>2. \A m \in Pending : m.nextId <= nextId' /\ Above(storeTx', m.tx.id)
        <5> TAKE m \in Pending
        <5>1. m.tx.id < m.nextId /\ m.nextId <= nextId /\ Above(storeTx, m.tx.id)
          BY DEF Ids
        <5>2. m.tx.id < nextId /\ m.nextId <= nextId'
          BY <2>1, <2>2, <3>3, <5>1
        <5> QED
          BY <2>2, <3>3, <5>1, <5>2
      <4>3. meta' <= nextId'
        BY <2>1, <3>1, <3>3 DEF Ids
      <4> QED
        BY <3>1, <3>3, <4>1, <4>2, <4>3 DEF Ids
    <3>5. Fresh' /\ Mirror'
      BY <3>1 DEF Fresh, Mirror
    <3>6. Kept'
      <4>1. connections # 0
        BY <2>4, <3>1 DEF Kept
      <4> QED
        BY <3>1, <4>1 DEF Kept
    <3> QED
      BY <3>4, <3>5, <3>6
  <2>13. CASE executeMeta
    <3> DEFINE s == Head(metaTx)
    <3>1. /\ metaTx # <<>> /\ metaTx' = Tail(metaTx) /\ saving = {} /\ saving' = {s}
          /\ UNCHANGED <<store, meta, memoryCache, isInitialized, closed, writing, connections,
                         durable, disconnected, killed, aborted>>
      BY <2>13 DEF executeMeta, db, mishaps
    <3>2. /\ s = metaTx[1] /\ 1 \in DOMAIN metaTx
          /\ \A k \in DOMAIN metaTx' : /\ metaTx'[k] = metaTx[k + 1]
                                       /\ k \in Nat /\ 1 < k + 1 /\ k + 1 \in DOMAIN metaTx
          /\ \A k \in DOMAIN metaTx : k = 1 \/ (k - 1 \in DOMAIN metaTx' /\ metaTx[k] = metaTx'[k - 1])
      <4>1. /\ s = metaTx[1] /\ 1 \in DOMAIN metaTx
            /\ Len(metaTx) \in Nat /\ DOMAIN metaTx = 1..Len(metaTx)
            /\ DOMAIN metaTx' = 1..(Len(metaTx) - 1)
            /\ \A k \in DOMAIN metaTx' : /\ metaTx'[k] = metaTx[k + 1]
                                         /\ k \in Nat /\ 1 < k + 1 /\ k + 1 \in DOMAIN metaTx
        BY <2>1, <3>1, Tailed
      <4>2. \A k \in 1..Len(metaTx) : k = 1 \/ (k - 1 \in 1..(Len(metaTx) - 1) /\ (k - 1) + 1 = k)
        BY <4>1
      <4> HIDE DEF s
      <4> QED
        BY <4>1, <4>2
    <3>3. s \in Pending /\ s \in Saves(Given) /\ s.tx.rest \in Seq(Given)
      <4>1. s \in Pending
        BY <3>2 DEF Pending
      <4> QED
        BY <2>2, <4>1 DEF Saves, Puts
    <3>4. Pending' = Pending
      <4> HIDE DEF s
      <4>1. {metaTx[k] : k \in DOMAIN metaTx} = {metaTx'[k] : k \in DOMAIN metaTx'} \cup {s}
        BY <3>2
      <4> QED
        BY <3>1, <4>1 DEF Pending
    <3> DEFINE rest == s.tx.rest
    <3>5. \/ UNCHANGED <<nextId, storeTx>>
          \/ /\ storeTx' = Append(storeTx, Put(nextId, Head(rest), Tail(rest), TRUE))
             /\ nextId' = nextId + 1 /\ rest # <<>>
      BY <2>13 DEF executeMeta, enqueue
    <3>6. rest \in Seq(Given)
      BY <3>3
    <3> HIDE DEF s, rest
    <3>7. /\ nextId <= nextId'
          /\ ~ disconnected => /\ Ascends(storeTx', nextId')
                               /\ \A r \in Nat : Above(storeTx, r) /\ r < nextId => Above(storeTx', r)
          /\ (\A i \in DOMAIN storeTx : storeTx[i].op = "put")
               => \A i \in DOMAIN storeTx' : storeTx'[i].op = "put"
      <4>1. CASE UNCHANGED <<nextId, storeTx>>
        BY <2>1, <4>1 DEF Ids
      <4>2. CASE /\ storeTx' = Append(storeTx, Put(nextId, Head(rest), Tail(rest), TRUE))
                 /\ nextId' = nextId + 1 /\ rest # <<>>
        <5> DEFINE p == Put(nextId, Head(rest), Tail(rest), TRUE)
        <5>1. Head(rest) \in Given /\ Tail(rest) \in Seq(Given)
          BY <3>6, <4>2, HeadTailProperties
        <5>2. p.op = "put" /\ storeTx' = Append(storeTx, p)
          BY <4>2 DEF Put
        <5> HIDE DEF p
        <5>3. nextId <= nextId'
          BY <2>1, <4>2
        <5>4. ~ disconnected => Ascends(storeTx, nextId)
          BY DEF Ids
        <5> QED
          BY <2>1, <2>3, <2>5, <4>2, <5>1, <5>2, <5>3, <5>4
      <4> QED
        BY <3>5, <4>1, <4>2
    \* first the started put, then the save that moves on
    <3>8. ~ disconnected =>
            /\ \A k, l \in DOMAIN metaTx' : k < l => metaTx'[k].nextId <= metaTx'[l].nextId
            /\ \A k \in DOMAIN metaTx' : s.nextId <= metaTx'[k].nextId
      <4> SUFFICES ASSUME ~ disconnected
                   PROVE  /\ \A k, l \in DOMAIN metaTx' : k < l => metaTx'[k].nextId <= metaTx'[l].nextId
                          /\ \A k \in DOMAIN metaTx' : s.nextId <= metaTx'[k].nextId
        OBVIOUS
      <4>1. \A k, l \in DOMAIN metaTx : k < l => metaTx[k].nextId <= metaTx[l].nextId
        BY DEF Ids
      <4>2. \A k, l \in DOMAIN metaTx' : k < l => k + 1 < l + 1
        BY <3>2
      <4> QED
        BY <3>2, <4>1, <4>2
    <3>9. ~ disconnected => \A r \in Nat : Past(r) => Past(r)'
      BY <2>1, <3>1, <3>7 DEF Past
    <3>10. Ids'
      <4> SUFFICES ASSUME ~ disconnected PROVE Ids'
        BY <3>1 DEF Ids
      <4>1. meta' <= nextId' /\ \A tx \in writing : tx.id < nextId' /\ Above(storeTx', tx.id)
        BY <2>1, <2>2, <3>1, <3>7 DEF Ids
      <4>2. \A m \in Pending : m.nextId <= nextId' /\ Above(storeTx', m.tx.id)
        <5> TAKE m \in Pending
        <5>1. m.tx.id < m.nextId /\ m.nextId <= nextId /\ Above(storeTx, m.tx.id)
          BY DEF Ids
        <5>2. m.tx.id < nextId /\ m.nextId <= nextId'
          BY <2>1, <2>2, <3>7, <5>1
        <5> QED
          BY <2>2, <3>7, <5>1, <5>2
      <4>3. \A m \in Pending :
               /\ ~ m.reopen
               /\ m.tx.id < m.nextId /\ meta <= m.nextId
               /\ \A tx \in writing : tx = m.tx \/ m.tx.id < tx.id
        BY DEF Ids
      <4>4. /\ isInitialized /\ ~ closed /\ \A tx, ty \in writing : tx = ty
        BY DEF Ids
      <4> QED
        BY <3>1, <3>4, <3>7, <3>8, <4>1, <4>2, <4>3, <4>4 DEF Ids
    <3>11. Fresh'
      BY <2>1, <3>1, <3>9 DEF Fresh
    <3>12. Mirror'
      <4> SUFFICES ASSUME ~ disconnected, ~ killed, ~ aborted PROVE Mirror'
        BY <3>1 DEF Mirror
      <4>1. \A k \in DOMAIN memoryCache :
               memoryCache[k].id < nextId' /\ Above(storeTx', memoryCache[k].id)
        BY <2>1, <2>2, <3>7 DEF Mirror
      <4> QED
        BY <3>1, <4>1 DEF Mirror
    <3>13. Kept'
      BY <2>1, <3>1, <3>7, <3>9 DEF Kept
    <3> QED
      BY <3>10, <3>11, <3>12, <3>13
  <2>14. CASE saveFails
    <3>1. /\ metaTx # <<>> /\ metaTx' = Tail(metaTx)
          /\ UNCHANGED <<store, meta, memoryCache, nextId, isInitialized, closed, storeTx,
                         writing, saving, connections, durable, disconnected, killed, aborted>>
      BY <2>14 DEF saveFails, db, queue, commits, client, mishaps
    <3>2. \A k \in DOMAIN metaTx' : /\ metaTx'[k] = metaTx[k + 1]
                                    /\ k \in Nat /\ 1 < k + 1 /\ k + 1 \in DOMAIN metaTx
      BY <2>1, <3>1, Tailed
    <3>3. Pending' \subseteq Pending /\ saving' \subseteq Pending
      BY <3>1, <3>2 DEF Pending
    <3>4. ~ disconnected =>
            /\ \A k, l \in DOMAIN metaTx' : k < l => metaTx'[k].nextId <= metaTx'[l].nextId
            /\ \A t \in saving' : \A k \in DOMAIN metaTx' : t.nextId <= metaTx'[k].nextId
            /\ \A t, v \in saving' : t = v
            /\ meta' <= nextId /\ \A m \in Pending' : meta' <= m.nextId
      <4>1. \A k, l \in DOMAIN metaTx' : k < l => k + 1 < l + 1
        BY <3>2
      <4> QED
        BY <3>1, <3>2, <3>3, <4>1 DEF Ids
    <3>5. meta' \in Nat /\ meta <= meta'
      BY <2>1, <3>1
    <3> QED
      BY <3>1, <3>3, <3>4, <3>5, Forgotten
  <2>15. ASSUME NEW s \in saving, commitMeta(s) PROVE Ids' /\ Fresh' /\ Mirror' /\ Kept'
    <3>1. /\ saving' = saving \ {s} /\ meta' = s.nextId
          /\ UNCHANGED <<store, memoryCache, nextId, isInitialized, closed, storeTx, metaTx,
                         writing, connections, disconnected, killed, aborted>>
      BY <2>15 DEF commitMeta, queue, client, mishaps
    <3>2. s \in Pending /\ Pending' \subseteq Pending /\ saving' \subseteq Pending
      BY <3>1 DEF Pending
    <3>3. s.nextId \in Nat /\ s.tx.id \in Nat
      BY <2>2, <3>2
    <3> SUFFICES ASSUME ~ disconnected PROVE Ids' /\ Fresh' /\ Mirror' /\ Kept'
      BY <3>1 DEF Ids, Fresh, Mirror, Kept
    <3>4. /\ meta <= meta' /\ meta' <= nextId /\ saving' = {}
          /\ s.tx.id < s.nextId /\ s.nextId <= nextId /\ Above(storeTx, s.tx.id)
          /\ \A tx \in writing : tx = s.tx \/ s.tx.id < tx.id
          /\ \A k \in DOMAIN metaTx : meta' <= metaTx[k].nextId
          /\ \A k, l \in DOMAIN metaTx : k < l => metaTx[k].nextId <= metaTx[l].nextId
      BY <3>1, <3>2 DEF Ids
    <3>5. \A m \in Pending' : meta' <= m.nextId
      BY <3>1, <3>4 DEF Pending
    <3>6. \A u \in durable' : \/ u \in durable
                              \/ \E r \in DOMAIN store : store[r] = u /\ r < meta' /\ Past(r)
      <4>1. ASSUME s.tx \notin writing PROVE Past(s.tx.id)
        <5>1. s.tx.id < nextId
          BY <2>1, <3>3, <3>4
        <5> QED
          BY <3>4, <4>1, <5>1 DEF Past
      <4>2. \/ durable' = durable
            \/ /\ durable' = durable \cup {s.tx.data}
               /\ s.tx \notin writing /\ s.tx.id \in DOMAIN store /\ store[s.tx.id] = s.tx.data
        BY <2>15 DEF commitMeta
      <4> QED
        BY <3>1, <3>4, <4>1, <4>2
    <3>7. meta' \in Nat
      BY <3>1, <3>3
    <3> QED
      BY <3>1, <3>2, <3>4, <3>5, <3>6, <3>7, Forgotten
  <2>16. ASSUME NEW s \in saving, abortMeta(s) PROVE Ids' /\ Fresh' /\ Mirror' /\ Kept'
    <3>1. /\ saving' = saving \ {s}
          /\ UNCHANGED <<store, meta, memoryCache, nextId, isInitialized, closed, storeTx,
                         metaTx, writing, connections, durable, disconnected, killed, aborted>>
      BY <2>16 DEF abortMeta, db, queue, client, history, mishaps
    <3>2. Pending' \subseteq Pending /\ saving' \subseteq Pending
      BY <3>1 DEF Pending
    <3>3. ~ disconnected =>
            /\ \A k, l \in DOMAIN metaTx' : k < l => metaTx'[k].nextId <= metaTx'[l].nextId
            /\ \A t \in saving' : \A k \in DOMAIN metaTx' : t.nextId <= metaTx'[k].nextId
            /\ \A t, v \in saving' : t = v
            /\ meta' <= nextId /\ \A m \in Pending' : meta' <= m.nextId
      BY <3>1, <3>2 DEF Ids
    <3>4. meta' \in Nat /\ meta <= meta'
      BY <2>1, <3>1
    <3> QED
      BY <3>1, <3>2, <3>3, <3>4, Forgotten
  <2>17. CASE reopen
    <3>1. metaTx # <<>> /\ Head(metaTx).reopen /\ UNCHANGED disconnected
      BY <2>17 DEF reopen, history, mishaps
    <3>2. Head(metaTx) \in Pending
      BY <2>1, <3>1, Tailed DEF Pending
    <3>3. disconnected /\ disconnected'
      BY <3>1, <3>2 DEF Ids
    <3> QED
      BY <3>3 DEF Ids, Fresh, Mirror, Kept
  <2>18. ASSUME NEW u \in encrypting, encrypted(u) PROVE Ids' /\ Fresh' /\ Mirror' /\ Kept'
    <3>1. CASE sendEncrypted(u) \/ dropEncrypted(u)
      <4>1. Same /\ UNCHANGED connections
        BY <3>1 DEF sendEncrypted, dropEncrypted, Same, db, queue, txs, commits, history, mishaps
      <4> QED
        BY <2>6, <4>1
    <3>2. CASE queueEncrypted(u)
      <4> DEFINE p == Put(nextId, u, <<>>, FALSE)
      <4>1. /\ storeTx' = Append(storeTx, p) /\ nextId' = nextId + 1 /\ p.op = "put"
            /\ UNCHANGED <<store, meta, memoryCache, isInitialized, metaTx, closed, writing,
                           saving, connections, durable, disconnected, killed, aborted>>
        BY <3>2 DEF queueEncrypted, enqueue, db, commits, history, mishaps, Put
      <4>2. /\ nextId <= nextId'
            /\ ~ disconnected => /\ Ascends(storeTx', nextId')
                                 /\ \A r \in Nat : Above(storeTx, r) /\ r < nextId => Above(storeTx', r)
        <5>1. <<>> \in Seq(Given) /\ u \in Given
          BY DEF Shape, TypeOK, Given
        <5>2. ~ disconnected => Ascends(storeTx, nextId)
          BY DEF Ids
        <5>3. nextId <= nextId'
          BY <2>1, <4>1
        <5> QED
          BY <2>1, <2>3, <4>1, <5>1, <5>2, <5>3
      <4> HIDE DEF p
      <4>3. /\ Ids' /\ Fresh' /\ Mirror'
            /\ ~ disconnected => \A r \in Nat : Past(r) => Past(r)'
        BY <2>1, <4>1, <4>2, Started
      <4>4. Kept'
        BY <2>1, <2>5, <4>1, <4>3 DEF Kept
      <4> QED
        BY <4>3, <4>4
    <3> QED
      BY <2>18, <3>1, <3>2 DEF encrypted
  <2>19. ASSUME NEW u \in encrypting, encryptFails(u) PROVE Ids' /\ Fresh' /\ Mirror' /\ Kept'
    <3>1. Same /\ UNCHANGED connections
      BY <2>19 DEF encryptFails, Same, db, queue, txs, commits, mishaps
    <3> QED
      BY <2>6, <3>1
  <2>20. CASE acknowledged
    <3>1. /\ UNCHANGED <<store, meta, memoryCache, nextId, isInitialized, metaTx, closed,
                         writing, saving, durable, disconnected, killed, aborted>>
          /\ connections' = connections + 1 /\ connections \in Nat
      BY <2>20 DEF acknowledged, db, queue, commits, history, mishaps, Shape, TypeOK
    <3>2. ~ disconnected => /\ Ascends(storeTx', nextId')
                            /\ \A r \in Nat : Above(storeTx, r) => Above(storeTx', r)
      <4> SUFFICES ASSUME ~ disconnected
                   PROVE  /\ Ascends(storeTx', nextId')
                          /\ \A r \in Nat : Above(storeTx, r) => Above(storeTx', r)
        OBVIOUS
      <4>1. Ascends(storeTx, nextId)
        BY DEF Ids
      <4>2. CASE storeTx' = storeTx
        BY <3>1, <4>1, <4>2
      <4>3. CASE storeTx' = Append(storeTx, Clear(Data(memoryCache)))
        <5>1. Clear(Data(memoryCache)).op # "put"
          BY DEF Clear
        <5> QED
          BY <2>1, <3>1, <4>1, <4>3, <5>1, QueueKeeps DEF Tx
      <4> QED
        BY <2>20, <4>2, <4>3 DEF acknowledged
    <3>3. nextId <= nextId'
      BY <2>1, <3>1
    <3>4. Ids' /\ Fresh' /\ Mirror'
      BY <2>1, <3>1, <3>2, <3>3, Started
    <3>5. Kept'
      BY <3>1 DEF Kept
    <3> QED
      BY <3>4, <3>5
  <2>21. CASE disconnect
    BY <2>21 DEF disconnect, Ids, Fresh, Mirror, Kept
  <2>22. CASE newClient
    <3>1. disconnected /\ disconnected'
      BY <2>22 DEF newClient, history, mishaps, Ids
    <3> QED
      BY <3>1 DEF Ids, Fresh, Mirror, Kept
  <2>23. CASE restart
    <3>1. /\ storeTx' = <<>> /\ metaTx' = <<>> /\ writing' = {} /\ saving' = {}
          /\ killed' /\ ~ closed' /\ isInitialized' /\ nextId' = recoveredNextId
          /\ UNCHANGED <<store, meta, connections, durable, disconnected>>
      BY <2>23 DEF restart, initialize, db
    <3>2. meta' <= nextId'
      BY <3>1, Loaded
    <3>3. Ids'
      BY <3>1, <3>2 DEF Ids, Ascends, Pending
    <3>4. Fresh' /\ Mirror'
      BY <3>1 DEF Fresh, Mirror
    <3>5. Kept'
      <4> SUFFICES ASSUME connections = 0, ~ disconnected PROVE Kept'
        BY <3>1 DEF Kept
      <4>1. \A r \in DOMAIN store : r < meta => r < nextId'
        BY <2>1, <3>1, <3>2
      <4>2. \A r \in DOMAIN store : r < meta => Past(r)'
        BY <3>1, <4>1 DEF Past, Above
      <4> QED
        BY <3>1, <4>2 DEF Kept
    <3> QED
      BY <3>3, <3>4, <3>5
  <2> QED
    BY <2>7, <2>8, <2>9, <2>10, <2>11, <2>12, <2>13, <2>14, <2>15, <2>16, <2>17, <2>18,
       <2>19, <2>20, <2>21, <2>22, <2>23 DEF Next, Browser, Failure
<1> QED
  BY <1>1, <1>2, TypeCorrect, PTL DEF Spec, Inv

\* The synchronous view of the queue (length, isEmpty and flushAll read the cache) is the
\* database in FIFO order whenever no transaction is under way, until a disconnect, a kill
\* or a failed commit of a row.
THEOREM CacheIsTheRows == Spec => []CacheCoherent
<1>1. Inv => CacheCoherent
  <2> SUFFICES ASSUME Inv, ~ disconnected, ~ killed, ~ aborted, writing = {}
               PROVE  memoryCache = loadAll
    BY DEF CacheCoherent
  <2> DEFINE Row == [id : Nat \ {0}, data : Given]
             n == Len(memoryCache)
             f == [k \in 1..n |-> memoryCache[k].id]
             S == DOMAIN store
  <2>1. n \in Nat /\ DOMAIN memoryCache = 1..n /\ \A k \in 1..n : memoryCache[k] \in Row
    <3> HIDE DEF Row
    <3>1. memoryCache \in Seq(Row)
      BY DEF Inv, Shape, Row
    <3> QED
      BY <3>1, ElementOfSeq, LenProperties
  <2>2. \A k \in 1..n : f[k] = memoryCache[k].id /\ f[k] \in Nat
    BY <2>1
  <2>3. f \in [1..n -> Nat] /\ \A i, j \in 1..n : i < j => f[i] < f[j]
    BY <2>1, <2>2 DEF Inv, Mirror
  <2>4. S = {f[k] : k \in 1..n} /\ \A k \in 1..n : store[f[k]] = memoryCache[k].data
    <3>1. S = {memoryCache[k].id : k \in 1..n}
      BY <2>1 DEF Inv, Mirror
    <3>2. \A k \in 1..n : store[memoryCache[k].id] = memoryCache[k].data
      BY <2>1 DEF Inv, Mirror
    <3> HIDE DEF S, n, f
    <3> QED
      BY <2>2, <3>1, <3>2
  <2> HIDE DEF f
  <2>5. Cardinality(S) = n /\ \A k \in 1..n : Cardinality(Below(S, f[k])) = k - 1
    <3> DEFINE T == {f[k] : k \in 1..n}
    <3>1. Cardinality(T) = n /\ \A k \in 1..n : Cardinality(Below(T, f[k])) = k - 1
      <4> HIDE DEF n
      <4> QED
        BY <2>1, <2>3, Listed
    <3>2. T = S
      BY <2>4
    <3> QED
      BY <3>1, <3>2
  <2> DEFINE At(k) == CHOOSE i \in S : Cardinality({j \in S : j < i}) = k - 1
             Loads(k) == [id |-> At(k), data |-> store[At(k)]]
  <2>6. loadAll = [k \in 1..n |-> Loads(k)]
    BY <2>5 DEF loadAll
  <2>7. ASSUME NEW k \in 1..n PROVE Loads(k) = memoryCache[k]
    <3>1. \E i \in S : Cardinality({j \in S : j < i}) = k - 1
      BY <2>4, <2>5 DEF Below
    <3>2. At(k) \in S /\ Cardinality(Below(S, At(k))) = k - 1
      BY <3>1 DEF Below
    <3> HIDE DEF At
    <3>3. PICK l \in 1..n : At(k) = f[l]
      BY <2>4, <3>2
    <3>4. l - 1 = k - 1
      BY <2>5, <3>2, <3>3
    <3>5. At(k) = memoryCache[k].id /\ store[At(k)] = memoryCache[k].data
      BY <2>2, <2>4, <3>3, <3>4
    <3> QED
      BY <2>1, <3>5
  <2> HIDE DEF Loads
  <2>8. memoryCache = [k \in 1..n |-> memoryCache[k]]
    BY <2>1 DEF Inv, Shape
  <2> QED
    BY <2>6, <2>7, <2>8
<1> QED
  BY <1>1, InvHolds, PTL

\* An update whose row and whose nextId were committed before the device was ever online
\* keeps its row through any number of kills and failures.
THEOREM DurableAreKept == Spec => []DurableSurvives
<1>1. Inv => DurableSurvives
  BY DEF Inv, Kept, DurableSurvives, Rows
<1> QED
  BY <1>1, InvHolds, PTL

-----------------------------------------------------------------------------
(* Where updates are lost.                                                  *)

Carried(t) == IF t.op = "clear" THEN ToSet(t.copy) ELSE ToSet(<<t.data>> \o t.rest)
Queued(q) == UNION {Carried(q[i]) : i \in DOMAIN q}

\* Whatever is encrypting, queued, stored or put back stays somewhere, unless a call or a
\* transaction that carries it fails, or the clear of a flush erases a row that was
\* written after flushAll had copied the queue.
THEOREM OnlyFailuresAndFlushesLose == Spec => LostByFailureOrFlush
<1>1. Shape => Held = encrypting \cup Rows \cup Written \cup Queued(storeTx) \cup PuttingBack \cup sent
  <2> SUFFICES ASSUME Shape PROVE Copied \cup Starting = Queued(storeTx)
    BY DEF Held
  <2>1. \A i \in DOMAIN storeTx : storeTx[i].op \in {"put", "clear"}
    <3>1. storeTx \in Seq(Puts(Given) \cup Clears(Given))
      BY DEF Shape
    <3>2. \A i \in DOMAIN storeTx : storeTx[i] \in Puts(Given) \cup Clears(Given)
      BY <3>1, ElementOfSeq, LenProperties
    <3> QED
      BY <3>2 DEF Puts, Clears
  <2>2. Copied = UNION {Carried(storeTx[i]) : i \in {j \in DOMAIN storeTx : storeTx[j].op = "clear"}}
    BY DEF Copied, Carried
  <2>3. Starting = UNION {Carried(storeTx[i]) : i \in {j \in DOMAIN storeTx : storeTx[j].op = "put"}}
    BY DEF Starting, Carried
  <2> QED
    BY <2>1, <2>2, <2>3 DEF Queued
<1>2. (Shape => Held = encrypting \cup Rows \cup Written \cup Queued(storeTx) \cup PuttingBack \cup sent)'
  BY <1>1, PTL
<1>3. ASSUME NEW U, NEW x \in Seq(U)
      PROVE  /\ \A d \in U : ToSet(<<d>> \o x) = {d} \cup ToSet(x)
             /\ x # <<>> => ToSet(x) = {Head(x)} \cup ToSet(Tail(x))
             /\ x # <<>> => Tail(x) \in Seq(U) /\ Head(x) \in U
  <2>1. Len(x) \in Nat /\ DOMAIN x = 1..Len(x)
    BY LenProperties
  <2>2. ASSUME NEW d \in U PROVE ToSet(<<d>> \o x) = {d} \cup ToSet(x)
    <3> DEFINE y == <<d>> \o x
    <3>1. DOMAIN y = 1..(Len(x) + 1) /\ y[1] = d /\ \A i \in 1..Len(x) : y[i + 1] = x[i]
      BY <2>1
    <3> HIDE DEF y
    <3>2. ToSet(y) \subseteq {d} \cup ToSet(x)
      <4>1. \A i \in 1..(Len(x) + 1) : i = 1 \/ i - 1 \in 1..Len(x)
        BY <2>1
      <4>2. \A i \in 1..(Len(x) + 1) : i # 1 => y[i] = x[i - 1]
        BY <2>1, <3>1, <4>1
      <4>3. \A i \in 1..(Len(x) + 1) : i # 1 => y[i] \in ToSet(x)
        BY <2>1, <4>1, <4>2 DEF ToSet
      <4>4. \A i \in 1..(Len(x) + 1) : y[i] \in {d} \cup ToSet(x)
        BY <3>1, <4>3
      <4> QED
        BY <3>1, <4>4 DEF ToSet
    <3>3. {d} \cup ToSet(x) \subseteq ToSet(y)
      <4>1. \A i \in 1..Len(x) : i + 1 \in 1..(Len(x) + 1)
        BY <2>1
      <4>2. 1 \in 1..(Len(x) + 1)
        BY <2>1
      <4> QED
        BY <2>1, <3>1, <4>1, <4>2 DEF ToSet
    <3> QED
      BY <3>2, <3>3 DEF y
  <2>3. ASSUME x # <<>>
        PROVE  ToSet(x) = {Head(x)} \cup ToSet(Tail(x)) /\ Tail(x) \in Seq(U) /\ Head(x) \in U
    <3>1. /\ Head(x) = x[1] /\ DOMAIN Tail(x) = 1..(Len(x) - 1) /\ Len(x) >= 1
          /\ \A i \in 1..(Len(x) - 1) : Tail(x)[i] = x[i + 1]
          /\ Tail(x) \in Seq(U) /\ Head(x) \in U
      BY <2>1, <2>3, HeadTailProperties, LenProperties, EmptySeq
    <3> DEFINE y == Tail(x)
    <3>2. DOMAIN y = 1..(Len(x) - 1) /\ \A i \in 1..(Len(x) - 1) : y[i] = x[i + 1]
      BY <3>1
    <3> HIDE DEF y
    <3>3. \A i \in 1..Len(x) : i # 1 => i - 1 \in 1..(Len(x) - 1) /\ y[i - 1] = x[i]
      BY <2>1, <3>2
    <3>4. 1 \in 1..Len(x) /\ \A i \in 1..(Len(x) - 1) : i + 1 \in 1..Len(x)
      BY <2>1, <3>1
    <3>5. ToSet(x) = {x[1]} \cup ToSet(y)
      <4>1. ToSet(x) \subseteq {x[1]} \cup ToSet(y)
        BY <2>1, <3>2, <3>3 DEF ToSet
      <4>2. {x[1]} \cup ToSet(y) \subseteq ToSet(x)
        BY <2>1, <3>2, <3>4 DEF ToSet
      <4> QED
        BY <4>1, <4>2
    <3> QED
      BY <3>1, <3>5 DEF y
  <2> QED
    BY <2>2, <2>3
<1>4. ASSUME NEW U, NEW q \in Seq(U)
      PROVE  /\ \A t : Queued(q) \cup Carried(t) \subseteq Queued(Append(q, t))
             /\ q # <<>> => Queued(q) \subseteq Carried(Head(q)) \cup Queued(Tail(q))
  <2>1. Len(q) \in Nat /\ DOMAIN q = 1..Len(q)
    BY LenProperties
  <2>2. ASSUME NEW t PROVE Queued(q) \cup Carried(t) \subseteq Queued(Append(q, t))
    <3> DEFINE T == U \cup {t}
    <3>1. q \in Seq(T) /\ t \in T
      BY SeqMonotonic
    <3> HIDE DEF T
    <3>2. Append(q, t) \in Seq(T) /\ Len(Append(q, t)) = Len(q) + 1
      BY <3>1, AppendProperties
    <3>3. /\ DOMAIN Append(q, t) = 1..(Len(q) + 1) /\ Append(q, t)[Len(q) + 1] = t
          /\ \A i \in 1..Len(q) : Append(q, t)[i] = q[i]
      BY <3>1, <3>2, AppendProperties, LenProperties
    <3>4. 1..Len(q) \subseteq 1..(Len(q) + 1) /\ Len(q) + 1 \in 1..(Len(q) + 1)
      BY <2>1
    <3> QED
      BY <2>1, <3>3, <3>4 DEF Queued
  <2>3. ASSUME q # <<>> PROVE Queued(q) \subseteq Carried(Head(q)) \cup Queued(Tail(q))
    <3>1. /\ Head(q) = q[1] /\ DOMAIN Tail(q) = 1..(Len(q) - 1)
          /\ \A i \in 1..(Len(q) - 1) : Tail(q)[i] = q[i + 1]
      BY <2>1, <2>3, HeadTailProperties, LenProperties, EmptySeq
    <3> DEFINE y == Tail(q)
    <3>2. DOMAIN y = 1..(Len(q) - 1) /\ \A i \in 1..(Len(q) - 1) : y[i] = q[i + 1]
      BY <3>1
    <3> HIDE DEF y
    <3>3. \A i \in 1..Len(q) : i # 1 => i - 1 \in 1..(Len(q) - 1) /\ y[i - 1] = q[i]
      BY <2>1, <3>2
    <3>4. Queued(q) \subseteq Carried(q[1]) \cup Queued(y)
      BY <2>1, <3>2, <3>3 DEF Queued
    <3> QED
      BY <3>1, <3>4 DEF y
  <2> QED
    BY <2>2, <2>3
<1>5. Inv /\ Inv' /\ [Next]_vars =>
        [~ disconnected' /\ ~ killed' =>
           \A u \in Held : \/ u \in Held' \cup failed'
                           \/ /\ storeTx # <<>>
                              /\ Head(storeTx).op = "clear"
                              /\ u \in Rows \ ToSet(Head(storeTx).copy)]_vars
  <2> SUFFICES ASSUME Inv, Inv', Next, ~ disconnected', ~ killed', NEW u \in Held,
                      ~ (/\ storeTx # <<>>
                         /\ Head(storeTx).op = "clear"
                         /\ u \in Rows \ ToSet(Head(storeTx).copy))
               PROVE  u \in Held' \cup failed'
    OBVIOUS
  <2> DEFINE Tx == Puts(Given) \cup Clears(Given)
  <2>1. /\ u \in encrypting \cup Rows \cup Written \cup Queued(storeTx) \cup PuttingBack \cup sent
        /\ u \in encrypting' \cup Rows' \cup Written' \cup Queued(storeTx') \cup PuttingBack' \cup sent'
             => u \in Held' \cup failed'
    BY <1>1, <1>2 DEF Inv
  <2>2. /\ storeTx \in Seq(Tx) /\ metaTx \in Seq(Saves(Given))
        /\ DOMAIN store \subseteq Nat \ {0} /\ nextId \in Nat \ {0}
        /\ writing \in SUBSET Puts(Given)
    BY DEF Inv, Shape, TypeOK
  <2>3. ~ disconnected /\ ~ killed
    <3>1. ASSUME UNCHANGED mishaps PROVE ~ disconnected /\ ~ killed
      BY <3>1 DEF mishaps
    <3>2. CASE sendUpdate \/ executePut \/ executeClear \/ executeMeta
      BY <3>1, <3>2 DEF sendUpdate, executePut, executeClear, executeMeta, history
    <3>3. CASE reopen \/ acknowledged \/ lose \/ handleClose \/ newClient
      BY <3>1, <3>3 DEF reopen, acknowledged, lose, handleClose, newClient, history
    <3>4. CASE \E v \in encrypting : encrypted(v) \/ encryptFails(v)
      BY <3>1, <3>4 DEF encrypted, sendEncrypted, queueEncrypted, dropEncrypted,
                        encryptFails, history
    <3>5. CASE disconnect \/ restart
      BY <3>5 DEF disconnect, restart
    <3>6. CASE putFails \/ saveFails \/ clearFails
      BY <3>1, <3>6 DEF putFails, saveFails, clearFails, mishaps
    <3>7. CASE \E tx \in writing : commitPut(tx) \/ abortPut(tx)
      BY <3>7 DEF commitPut, abortPut, mishaps
    <3>8. CASE \E t \in saving : commitMeta(t) \/ abortMeta(t)
      BY <3>8 DEF commitMeta, abortMeta, history, mishaps
    <3> QED
      BY <3>2, <3>3, <3>4, <3>5, <3>6, <3>7, <3>8 DEF Next, Browser, Failure
  <2>4. isInitialized /\ ~ closed /\ \A m \in Pending : ~ m.reopen
    BY <2>3 DEF Inv, Ids
  \* what is put back is carried
  <2>5. ASSUME NEW v \in Given, NEW rest \in Seq(Given), NEW flush
        PROVE  Carried(Put(nextId, v, rest, flush)) = {v} \cup ToSet(rest)
    BY <1>3 DEF Carried, Put
  <2> HIDE DEF Tx
  <2>6. CASE sendUpdate
    BY <2>1, <2>6 DEF sendUpdate, db, txs, commits, Rows, Written, PuttingBack
  <2>7. CASE executePut
    <3> DEFINE tx == Head(storeTx)
    <3>1. tx \in Puts(Given) /\ storeTx # <<>> /\ storeTx' = Tail(storeTx)
      BY <2>2, <2>7, HeadTailProperties DEF executePut, Tx, Clears
    <3>2. tx.op = "put" /\ tx.data \in Given /\ tx.rest \in Seq(Given)
      BY <3>1 DEF Puts
    <3>3. writing = {} /\ writing' = {tx} /\ Written = {} /\ Written' = {tx.data}
      BY <2>7 DEF executePut, Written
    <3>4. Queued(storeTx) \subseteq {tx.data} \cup ToSet(tx.rest) \cup Queued(storeTx')
      <4>1. Carried(tx) = {tx.data} \cup ToSet(tx.rest)
        BY <1>3, <3>2 DEF Carried
      <4> QED
        BY <1>4, <2>2, <3>1, <4>1
    <3>5. PuttingBack \cup ToSet(tx.rest) \subseteq PuttingBack'
      <4> DEFINE m == [nextId |-> nextId, tx |-> tx, reopen |-> ~ isInitialized]
      <4>1. metaTx' = Append(metaTx, m) /\ m.tx = tx
        BY <2>7 DEF executePut
      <4> HIDE DEF m, tx
      <4>3. /\ DOMAIN metaTx' = 1..(Len(metaTx) + 1) /\ metaTx'[Len(metaTx) + 1] = m
            /\ Len(metaTx) \in Nat /\ DOMAIN metaTx = 1..Len(metaTx)
            /\ \A k \in DOMAIN metaTx : metaTx'[k] = metaTx[k]
        BY <2>2, <4>1, Appended
      <4>4. DOMAIN metaTx \subseteq DOMAIN metaTx' /\ Len(metaTx) + 1 \in DOMAIN metaTx'
        BY <4>3
      <4> QED
        BY <4>1, <4>3, <4>4 DEF PuttingBack
    <3>6. UNCHANGED <<encrypting, sent, Rows>>
      BY <2>7 DEF executePut, db, client, history, Rows
    <3> HIDE DEF tx
    <3> QED
      BY <2>1, <3>3, <3>4, <3>5, <3>6
  <2>8. CASE executeClear
    <3> DEFINE updates == Head(storeTx).copy
    <3>1. /\ Head(storeTx) \in Clears(Given) /\ storeTx # <<>> /\ Head(storeTx).op = "clear"
          /\ Tail(storeTx) \in Seq(Tx)
      BY <2>2, <2>8, HeadTailProperties DEF executeClear, Tx, Puts
    <3>2. updates \in Seq(Given) /\ updates # <<>>
      BY <3>1 DEF Clears
    <3>3. Queued(storeTx) \subseteq ToSet(updates) \cup Queued(Tail(storeTx))
      BY <1>4, <2>2, <3>1 DEF Carried
    <3>4. ToSet(updates) \subseteq sent' \cup Queued(storeTx')
          /\ sent \subseteq sent' /\ Queued(Tail(storeTx)) \subseteq Queued(storeTx')
      <4>1. CASE sent' = sent \cup ToSet(updates) /\ storeTx' = Tail(storeTx)
        BY <4>1
      <4>2. CASE /\ storeTx' = Append(Tail(storeTx),
                                     Put(nextId, Head(updates), Tail(updates), TRUE))
                 /\ UNCHANGED sent
        <5>1. /\ ToSet(updates) = {Head(updates)} \cup ToSet(Tail(updates))
              /\ Head(updates) \in Given /\ Tail(updates) \in Seq(Given)
          BY <1>3, <3>2
        <5> DEFINE p == Put(nextId, Head(updates), Tail(updates), TRUE)
        <5>2. Carried(p) = ToSet(updates)
          <6> HIDE DEF updates
          <6> QED
            BY <2>5, <5>1
        <5> HIDE DEF p
        <5>3. Queued(Tail(storeTx)) \cup Carried(p) \subseteq Queued(Append(Tail(storeTx), p))
          BY <1>4, <3>1
        <5> QED
          BY <4>2, <5>2, <5>3 DEF p
      <4> QED
        BY <2>4, <2>8, <4>1, <4>2 DEF executeClear
    <3>5. UNCHANGED <<encrypting, PuttingBack, Written>>
      BY <2>8 DEF executeClear, commits, PuttingBack, Written
    <3>6. u \in Rows => u \in ToSet(updates)
      BY <3>1
    <3> HIDE DEF updates
    <3> QED
      BY <2>1, <3>3, <3>4, <3>5, <3>6
  <2>9. CASE executeMeta
    <3> DEFINE s == Head(metaTx)
               rest == s.tx.rest
    <3>1. /\ s \in Saves(Given) /\ s = metaTx[1] /\ metaTx' = Tail(metaTx)
          /\ Len(metaTx) \in Nat /\ DOMAIN metaTx = 1..Len(metaTx)
          /\ DOMAIN metaTx' = 1..(Len(metaTx) - 1)
          /\ \A k \in 1..(Len(metaTx) - 1) : metaTx'[k] = metaTx[k + 1]
      BY <2>2, <2>9, HeadTailProperties, EmptySeq, LenProperties DEF executeMeta
    <3>2. rest \in Seq(Given)
      BY <3>1 DEF Saves, Puts
    <3>3. PuttingBack \subseteq ToSet(rest) \cup PuttingBack'
      <4>1. \A k \in 1..Len(metaTx) : k # 1 => /\ k - 1 \in 1..(Len(metaTx) - 1)
                                              /\ metaTx'[k - 1] = metaTx[k]
        BY <3>1
      <4>2. \A k \in DOMAIN metaTx : \/ metaTx[k] = s
                                     \/ \E l \in DOMAIN metaTx' : metaTx[k] = metaTx'[l]
        BY <3>1, <4>1
      <4> HIDE DEF s
      <4> QED
        BY <4>2 DEF PuttingBack
    <3>4. Queued(storeTx) \cup ToSet(rest) \subseteq Queued(storeTx')
      <4>1. CASE rest = <<>>
        <5>1. storeTx' = storeTx
          BY <2>9, <4>1 DEF executeMeta
        <5>2. ToSet(<<>>) = {}
          BY DEF ToSet
        <5> QED
          BY <4>1, <5>1, <5>2
      <4>2. CASE rest # <<>>
        <5>1. /\ ToSet(rest) = {Head(rest)} \cup ToSet(Tail(rest))
              /\ Head(rest) \in Given /\ Tail(rest) \in Seq(Given)
          BY <1>3, <3>2, <4>2
        <5> DEFINE p == Put(nextId, Head(rest), Tail(rest), TRUE)
        <5>2. storeTx' = Append(storeTx, p)
          BY <2>4, <2>9, <4>2 DEF executeMeta, enqueue
        <5>3. Carried(p) = ToSet(rest)
          <6> HIDE DEF rest
          <6> QED
            BY <2>5, <5>1
        <5> HIDE DEF p
        <5> QED
          BY <1>4, <2>2, <5>2, <5>3
      <4> QED
        BY <4>1, <4>2
    <3>5. UNCHANGED <<encrypting, sent, Rows, Written>>
      BY <2>9 DEF executeMeta, db, Rows, Written
    <3> HIDE DEF rest
    <3> QED
      BY <2>1, <3>3, <3>4, <3>5
  <2>10. CASE reopen
    <3>1. Head(metaTx) \in Pending /\ Head(metaTx).reopen
      BY <2>2, <2>10, Tailed DEF reopen, Pending
    <3> QED
      BY <2>4, <3>1
  <2>11. ASSUME NEW v \in encrypting, encrypted(v) PROVE u \in Held' \cup failed'
    <3>1. CASE sendEncrypted(v)
      BY <2>1, <3>1 DEF sendEncrypted, db, txs, commits, Rows, Written, PuttingBack
    <3>2. CASE queueEncrypted(v)
      <4> DEFINE p == Put(nextId, v, <<>>, FALSE)
      <4>1. /\ storeTx' = Append(storeTx, p) /\ encrypting' = encrypting \ {v}
            /\ UNCHANGED <<Rows, Written, PuttingBack, sent>>
        BY <3>2 DEF queueEncrypted, enqueue, db, commits, history, Rows, Written, PuttingBack
      <4>2. v \in Carried(p)
        <5>1. <<>> \in Seq(Given) /\ v \in Given
          BY DEF Inv, Shape, TypeOK, Given
        <5> QED
          BY <2>5, <5>1
      <4> HIDE DEF p
      <4>3. Queued(storeTx) \cup Carried(p) \subseteq Queued(storeTx')
        BY <1>4, <2>2, <4>1
      <4> QED
        BY <2>1, <4>1, <4>2, <4>3
    <3>3. CASE dropEncrypted(v)
      BY <2>4, <3>3 DEF dropEncrypted
    <3> QED
      BY <2>11, <3>1, <3>2, <3>3 DEF encrypted
  <2>12. CASE acknowledged
    <3>1. Queued(storeTx) \subseteq Queued(storeTx')
      <4>1. \/ storeTx' = storeTx
            \/ storeTx' = Append(storeTx, Clear(Data(memoryCache)))
        BY <2>12 DEF acknowledged
      <4> QED
        BY <1>4, <2>2, <4>1
    <3>2. UNCHANGED <<encrypting, Rows, Written, PuttingBack, sent>>
      BY <2>12 DEF acknowledged, db, commits, history, Rows, Written, PuttingBack
    <3> QED
      BY <2>1, <3>1, <3>2
  <2>13. CASE lose \/ handleClose
    BY <2>1, <2>13 DEF lose, handleClose, db, txs, commits, history, Rows, Written, PuttingBack
  <2>14. CASE newClient
    BY <2>4, <2>14 DEF newClient
  <2>15. CASE disconnect \/ restart
    BY <2>15 DEF disconnect, restart
  <2>16. ASSUME NEW tx \in writing, commitPut(tx) PROVE u \in Held' \cup failed'
    <3>1. /\ DOMAIN store' = DOMAIN store \cup {tx.id}
          /\ \A i \in DOMAIN store' : store'[i] = IF i = tx.id THEN tx.data ELSE store[i]
          /\ writing' = writing \ {tx}
          /\ UNCHANGED <<storeTx, metaTx, encrypting, sent>>
      BY <2>16 DEF commitPut, client
    <3>2. tx.id \notin DOMAIN store
      <4>1. \A r \in DOMAIN store : r < tx.id /\ r \in Nat
        BY <2>2, <2>3 DEF Inv, Fresh, Past
      <4> QED
        BY <4>1
    <3>3. Rows \cup {tx.data} \subseteq Rows'
      BY <3>1, <3>2 DEF Rows
    <3>4. Written \subseteq Written' \cup {tx.data}
      BY <3>1 DEF Written
    <3>5. PuttingBack' = PuttingBack
      BY <3>1 DEF PuttingBack
    <3> QED
      BY <2>1, <3>1, <3>3, <3>4, <3>5
  <2>17. ASSUME NEW tx \in writing, abortPut(tx) PROVE u \in Held' \cup failed'
    <3>1. Written \subseteq Written' \cup failed'
      BY <2>17 DEF abortPut, Written
    <3>2. UNCHANGED <<encrypting, Rows, PuttingBack, sent, storeTx>>
      BY <2>17 DEF abortPut, db, client, Rows, PuttingBack
    <3> QED
      BY <2>1, <3>1, <3>2
  <2>18. CASE \E t \in saving : commitMeta(t) \/ abortMeta(t)
    <3>1. UNCHANGED <<encrypting, Rows, Written, PuttingBack, sent, storeTx>>
      BY <2>18 DEF commitMeta, abortMeta, db, client, history, Rows, Written, PuttingBack
    <3> QED
      BY <2>1, <3>1
  <2>19. ASSUME NEW v \in encrypting, encryptFails(v) PROVE u \in Held' \cup failed'
    <3>1. /\ encrypting \subseteq encrypting' \cup failed'
          /\ UNCHANGED <<Rows, Written, PuttingBack, sent, storeTx>>
      BY <2>19 DEF encryptFails, db, txs, commits, Rows, Written, PuttingBack
    <3> QED
      BY <2>1, <3>1
  <2>20. CASE putFails \/ clearFails
    <3>1. storeTx # <<>> /\ storeTx' = Tail(storeTx)
      BY <2>20 DEF putFails, clearFails
    <3>2. UNCHANGED <<encrypting, Rows, Written, PuttingBack, sent>>
      BY <2>20 DEF putFails, clearFails, db, commits, client, Rows, Written, PuttingBack
    <3>3. Carried(Head(storeTx)) \subseteq failed'
      BY <2>20 DEF putFails, clearFails, Carried
    <3>4. Queued(storeTx) \subseteq Queued(storeTx') \cup failed'
      BY <1>4, <2>2, <3>1, <3>3
    <3> QED
      BY <2>1, <3>2, <3>4
  <2>21. CASE saveFails
    <3>1. /\ metaTx # <<>> /\ metaTx' = Tail(metaTx)
          /\ failed' = failed \cup ToSet(Head(metaTx).tx.rest)
          /\ UNCHANGED <<encrypting, Rows, Written, sent, storeTx>>
      BY <2>21 DEF saveFails, db, commits, client, Rows, Written
    <3>2. PuttingBack \subseteq PuttingBack' \cup failed'
      <4>1. /\ Head(metaTx) = metaTx[1]
            /\ Len(metaTx) \in Nat /\ DOMAIN metaTx = 1..Len(metaTx)
            /\ DOMAIN metaTx' = 1..(Len(metaTx) - 1)
            /\ \A k \in 1..(Len(metaTx) - 1) : metaTx'[k] = metaTx[k + 1]
        BY <2>2, <3>1, Tailed
      <4>2. \A k \in 1..Len(metaTx) : k # 1 => /\ k - 1 \in 1..(Len(metaTx) - 1)
                                              /\ metaTx'[k - 1] = metaTx[k]
        BY <4>1
      <4>3. \A k \in DOMAIN metaTx : \/ metaTx[k] = Head(metaTx)
                                     \/ \E l \in DOMAIN metaTx' : metaTx[k] = metaTx'[l]
        BY <4>1, <4>2
      <4> QED
        BY <3>1, <4>3 DEF PuttingBack
    <3> QED
      BY <2>1, <3>1, <3>2
  <2> QED
    BY <2>6, <2>7, <2>8, <2>9, <2>10, <2>11, <2>12, <2>13, <2>14, <2>15, <2>16, <2>17,
       <2>18, <2>19, <2>20, <2>21 DEF Next, Browser, Failure
<1> QED
  BY <1>5, InvHolds, PTL DEF Spec, LostByFailureOrFlush
=============================================================================
