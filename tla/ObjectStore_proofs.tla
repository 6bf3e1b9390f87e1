------------------------- MODULE ObjectStore_proofs -------------------------
(***************************************************************************)
(* What ObjectStore promises of the list of objects, of deleteMany and of  *)
(* flags, pinned list and texts, for any devices, objects and bounds.  The *)
(* first two rest on the shape of documents and caches; the third also on  *)
(* Clock, the stamps in the pinned list being of the past, and on Neat,    *)
(* which is Tidy without cardinalities.                                    *)
(***************************************************************************)
EXTENDS ObjectStore, TLAPS, FiniteSetTheorems, Extremes

Value == Object \cup {None}
Entry == [stamp : Stamp, value : Value]
Document == [objects : [Id -> Entry], bodies : SUBSET Body, erased : SUBSET Body,
             pins : SUBSET Pin, unpinned : SUBSET Pin]

\* D is a document: what is erased was inserted, and only so much was inserted
IsDoc(D) ==
  /\ D \in Document
  /\ D.erased \subseteq D.bodies /\ IsFiniteSet(D.bodies)
  /\ D.unpinned \subseteq D.pins /\ IsFiniteSet(D.pins)

IsCache(c) == c = None \/ c \in [Id -> Value]

Shape ==
  /\ DOMAIN doc = Device /\ DOMAIN saved = Device
  /\ cache \in [Device -> [Id -> Value] \cup {None}]
  /\ lamport \in [Device -> Nat] /\ captured \subseteq Device
  /\ \A d \in Device : IsDoc(doc[d]) /\ (saved[d] # None => IsDoc(saved[d]))

-----------------------------------------------------------------------------
(* The operators on documents.                                              *)

\* Writing to the map of objects, and changing the list of pinned objects besides.
LEMMA SetIsDoc ==
  ASSUME NEW D, IsDoc(D), NEW i \in Id, NEW o \in Value, NEW s \in Stamp
  PROVE  /\ IsDoc(Set(D, i, o, s))
         /\ \A p \in Pin : IsDoc([Set(D, i, o, s) EXCEPT !.pins = @ \cup {p}])
         /\ \A R \in SUBSET D.pins : IsDoc([Set(D, i, o, s) EXCEPT !.unpinned = @ \cup R])
         /\ Set(D, i, o, s).bodies = D.bodies /\ Set(D, i, o, s).erased = D.erased
         /\ Set(D, i, o, s).pins = D.pins /\ Set(D, i, o, s).unpinned = D.unpinned
         /\ \A j \in Id : Objects(Set(D, i, o, s))[j] = IF j = i THEN o ELSE Objects(D)[j]
<1> DEFINE E == Set(D, i, o, s)
<1>1. E = [D EXCEPT !.objects = [D.objects EXCEPT ![i] = [stamp |-> s, value |-> o]]]
  BY DEF Set, IsDoc, Document
<1>2. [D.objects EXCEPT ![i] = [stamp |-> s, value |-> o]] \in [Id -> Entry]
  BY DEF IsDoc, Document, Entry
<1>3. /\ E \in Document /\ E.bodies = D.bodies /\ E.erased = D.erased
      /\ E.pins = D.pins /\ E.unpinned = D.unpinned
      /\ E.objects = [D.objects EXCEPT ![i] = [stamp |-> s, value |-> o]]
  BY <1>1, <1>2 DEF IsDoc, Document
<1> HIDE DEF E
<1>6. \A j \in Id : Objects(E)[j] = IF j = i THEN o ELSE Objects(D)[j]
  BY <1>3 DEF Objects, IsDoc, Document
<1>4. ASSUME NEW p \in Pin PROVE IsDoc([E EXCEPT !.pins = @ \cup {p}])
  <2>1. IsFiniteSet(E.pins \cup {p})
    BY <1>3, FS_AddElement DEF IsDoc
  <2> QED
    BY <1>3, <2>1 DEF IsDoc, Document
<1>5. ASSUME NEW R \in SUBSET D.pins PROVE IsDoc([E EXCEPT !.unpinned = @ \cup R])
  BY <1>3 DEF IsDoc, Document
<1> QED
  BY <1>3, <1>4, <1>5, <1>6 DEF E, IsDoc

\* A later time stamp on an object keeps the document sound and its map.
LEMMA TouchedKeeps ==
  ASSUME NEW D, IsDoc(D), NEW S, NEW s \in Stamp
  PROVE  /\ Touched(D, S, s) \in [Id -> Entry]
         /\ \A i \in Id : Touched(D, S, s)[i].value = D.objects[i].value
BY DEF Touched, IsDoc, Document, Entry

\* Writing a body keeps the document sound, and the map of objects.
LEMMA WithContentIsDoc ==
  ASSUME NEW D, IsDoc(D), NEW i \in Id, NEW body \in Body, NEW s \in Stamp
  PROVE  /\ IsDoc(WithContent(D, i, body, s))
         /\ Objects(WithContent(D, i, body, s)) = Objects(D)
<1> DEFINE new == [body EXCEPT !.stamp = s, !.n = 1, !.id = i]
           gone == Of(Visible(D), i)
           f == Touched(D, {i}, s)
           W == [D EXCEPT !.erased = @ \cup gone, !.bodies = @ \cup {new}, !.objects = f]
<1>1. WithContent(D, i, body, s) = W
  BY DEF WithContent, Rewritten, IsDoc, Document
<1>2. f \in [Id -> Entry] /\ \A j \in Id : f[j].value = D.objects[j].value
  BY TouchedKeeps
<1>3. new \in Body
  BY DEF Body
<1>4. gone \subseteq D.bodies
  BY DEF Of, Visible
<1>5. IsFiniteSet(D.bodies \cup {new})
  BY FS_AddElement DEF IsDoc
<1> HIDE DEF new, gone, f
<1>6. /\ W \in Document /\ W.objects = f /\ W.bodies = D.bodies \cup {new}
      /\ W.erased = D.erased \cup gone /\ W.pins = D.pins /\ W.unpinned = D.unpinned
  BY <1>2, <1>3, <1>4 DEF IsDoc, Document
<1> HIDE DEF W
<1>7. Objects(W) = Objects(D)
  BY <1>2, <1>6 DEF Objects
<1> QED
  BY <1>1, <1>4, <1>5, <1>6, <1>7 DEF IsDoc

\* The library's theorem about images takes an operator.
LEMMA ImageIsFinite ==
  ASSUME NEW S, IsFiniteSet(S), NEW f, DOMAIN f = S
  PROVE  IsFiniteSet({f[x] : x \in S})
<1> DEFINE T == {f[x] : x \in S}
           g == [x \in S |-> f[x]]
<1>1. g \in Surjection(S, T)
  BY DEF Surjection
<1> HIDE DEF g, T
<1>2. IsFiniteSet(T)
  BY <1>1, FS_Surjection DEF ExistsSurjection
<1> QED
  BY <1>2 DEF T

\* The bodies deleteMany writes are bodies that mention nothing it deletes.
LEMMA StrippedAreBodies ==
  ASSUME NEW V \in SUBSET Body, NEW T, NEW s \in Stamp
  PROVE  /\ \A w \in Stripped(V, T, s) : w \in Body /\ w.mentions \cap T = {}
         /\ IsFiniteSet(V) => IsFiniteSet(Stripped(V, T, s))
<1>1. \A w \in Stripped(V, T, s) : w \in Body /\ w.mentions \cap T = {}
  <2> SUFFICES ASSUME NEW v \in V
               PROVE  LET w == [v EXCEPT !.stamp = s, !.n = 1, !.mentions = @ \ T]
                      IN  w \in Body /\ w.mentions \cap T = {}
    BY DEF Stripped
  <2>1. v \in Body /\ v.mentions \ T \in SUBSET Id
    BY DEF Body
  <2> QED
    BY <2>1 DEF Body
<1> DEFINE g == [v \in V |-> [v EXCEPT !.stamp = s, !.n = 1, !.mentions = @ \ T]]
<1>2. Stripped(V, T, s) = {g[v] : v \in V} /\ DOMAIN g = V
  BY DEF Stripped
<1> HIDE DEF g
<1>3. IsFiniteSet(V) => IsFiniteSet(Stripped(V, T, s))
  BY <1>2, ImageIsFinite
<1> QED
  BY <1>1, <1>3

\* The first phase of deleteMany rewrites bodies and leaves the map alone.
LEMMA UnmentionedIsDoc ==
  ASSUME NEW D, IsDoc(D), NEW S, NEW T, NEW s \in Stamp
  PROVE  LET U == Unmentioned(D, S, T, s) IN
         /\ IsDoc(U)
         /\ Objects(U) = Objects(D)
         /\ U.erased = D.erased \cup Mentioning(D, S, T)
         /\ U.bodies = D.bodies \cup Stripped(Mentioning(D, S, T), T, s)
         /\ U.pins = D.pins /\ U.unpinned = D.unpinned
<1> DEFINE hit == Mentioning(D, S, T)
           f == Touched(D, {v.id : v \in hit}, s)
           new == Stripped(hit, T, s)
           U == [D EXCEPT !.objects = f, !.erased = @ \cup hit, !.bodies = @ \cup new]
<1>1. f \in [Id -> Entry] /\ \A j \in Id : f[j].value = D.objects[j].value
  BY TouchedKeeps
<1>2. Unmentioned(D, S, T, s) = U
  BY DEF Unmentioned
<1>3. hit \subseteq D.bodies /\ D.bodies \subseteq Body /\ IsFiniteSet(D.bodies)
  BY DEF Mentioning, Visible, IsDoc, Document
<1> HIDE DEF f, hit
<1>4. IsFiniteSet(hit) /\ hit \in SUBSET Body
  BY <1>3, FS_Subset
<1>5. new \subseteq Body /\ IsFiniteSet(new)
  BY <1>4, StrippedAreBodies
<1>6. IsFiniteSet(D.bodies \cup new)
  BY <1>3, <1>5, FS_Union
<1> HIDE DEF new
<1>7. /\ U \in Document
      /\ U.objects = f /\ U.bodies = D.bodies \cup new /\ U.erased = D.erased \cup hit
      /\ U.pins = D.pins /\ U.unpinned = D.unpinned
  BY <1>1, <1>4, <1>5 DEF IsDoc, Document
<1> HIDE DEF U
<1>8. IsDoc(U)
  BY <1>3, <1>6, <1>7 DEF IsDoc
<1>9. Objects(U) = Objects(D)
  BY <1>1, <1>7 DEF Objects
<1> QED
  BY <1>2, <1>7, <1>8, <1>9 DEF hit, new

\* The second phase takes the deleted objects out of the relations of the others.
LEMMA UntaggedIsDoc ==
  ASSUME NEW D, IsDoc(D), NEW S, NEW filtered, NEW s \in Stamp,
         \A i \in Id : i \in S => D.objects[i].value \in Object /\ filtered[i] \in SUBSET Id
  PROVE  LET U == Untagged(D, S, filtered, s) IN
         /\ IsDoc(U)
         /\ \A i \in Id : Objects(U)[i] = IF i \in S
                                          THEN [Objects(D)[i] EXCEPT !.tags = filtered[i]]
                                          ELSE Objects(D)[i]
         /\ U.bodies = D.bodies /\ U.erased = D.erased
         /\ U.pins = D.pins /\ U.unpinned = D.unpinned
<1> DEFINE f == [i \in Id |-> IF i \in S
                   THEN [stamp |-> s, value |-> [D.objects[i].value EXCEPT !.tags = filtered[i]]]
                   ELSE D.objects[i]]
           U == [D EXCEPT !.objects = f]
<1>1. Untagged(D, S, filtered, s) = U
  BY DEF IsDoc, Document, Untagged
<1>2. \A i \in Id : f[i].value = IF i \in S
                                 THEN [Objects(D)[i] EXCEPT !.tags = filtered[i]]
                                 ELSE Objects(D)[i]
  BY DEF Objects
<1>3. f \in [Id -> Entry]
  <2> SUFFICES ASSUME NEW i \in Id PROVE f[i] \in Entry
    OBVIOUS
  <2>1. CASE i \in S
    <3>1. [D.objects[i].value EXCEPT !.tags = filtered[i]] \in Value
      BY <2>1 DEF Value, Object
    <3> QED
      BY <2>1, <3>1 DEF Entry
  <2>2. CASE i \notin S
    BY <2>2 DEF IsDoc, Document
  <2> QED
    BY <2>1, <2>2
<1> HIDE DEF f
<1>4. /\ U \in Document /\ U.objects = f /\ U.bodies = D.bodies /\ U.erased = D.erased
      /\ U.pins = D.pins /\ U.unpinned = D.unpinned
  BY <1>3 DEF IsDoc, Document
<1> HIDE DEF U
<1>5. Objects(U) = [i \in Id |-> f[i].value]
  BY <1>4 DEF Objects
<1> QED
  BY <1>1, <1>2, <1>4, <1>5 DEF IsDoc

\* The last phase empties the entries of what is deleted, and leaves the texts alone.
LEMMA DeletedIsDoc ==
  ASSUME NEW D, IsDoc(D), NEW T, NEW R \in SUBSET D.pins, NEW s \in Stamp
  PROVE  LET E == Deleted(D, T, R, s) IN
         /\ IsDoc(E)
         /\ \A i \in Id : Objects(E)[i] = IF i \in T THEN None ELSE Objects(D)[i]
         /\ E.bodies = D.bodies /\ E.erased = D.erased
<1> DEFINE existing == {i \in T : D.objects[i].value # None}
           f == [i \in Id |-> IF i \in existing THEN [stamp |-> s, value |-> None]
                                                ELSE D.objects[i]]
           gone == {p \in R : p.id \in existing}
           E == [D EXCEPT !.objects = f, !.unpinned = @ \cup gone]
<1>1. Deleted(D, T, R, s) = E
  BY DEF IsDoc, Document, Deleted
<1>2. \A i \in Id : f[i].value = IF i \in T THEN None ELSE Objects(D)[i]
  BY DEF Objects
<1>3. f \in [Id -> Entry]
  BY DEF IsDoc, Document, Entry, Value
<1>4. gone \subseteq D.pins
  OBVIOUS
<1> HIDE DEF f, gone
<1>5. /\ E \in Document /\ E.objects = f /\ E.bodies = D.bodies /\ E.erased = D.erased
      /\ E.pins = D.pins /\ E.unpinned = D.unpinned \cup gone
  BY <1>3, <1>4 DEF IsDoc, Document
<1> HIDE DEF E
<1>6. Objects(E) = [i \in Id |-> f[i].value]
  BY <1>5 DEF Objects
<1> QED
  BY <1>1, <1>2, <1>4, <1>5, <1>6 DEF IsDoc

\* New elements with the data of old ones.
LEMMA CopiesAreElements ==
  ASSUME NEW S, IsFiniteSet(S), NEW s \in Stamp
  PROVE  /\ IsFiniteSet(Copies(S, s))
         /\ S \subseteq Body => Copies(S, s) \subseteq Body
         /\ S \subseteq Pin => Copies(S, s) \subseteq Pin
<1> DEFINE c(e) == Cardinality({x \in S : Before(x, e)})
           g == [e \in S |-> [e EXCEPT !.stamp = s, !.n = c(e)]]
<1>1. \A e \in S : c(e) \in Nat
  <2> SUFFICES ASSUME NEW e \in S PROVE c(e) \in Nat
    OBVIOUS
  <2>1. IsFiniteSet({x \in S : Before(x, e)})
    BY FS_Subset
  <2> QED
    BY <2>1, FS_CardinalityType
<1>2. Copies(S, s) = {g[e] : e \in S} /\ DOMAIN g = S
  BY DEF Copies
<1> HIDE DEF c
<1>3. S \subseteq Body => \A e \in S : g[e] \in Body
  BY <1>1 DEF Body
<1>4. S \subseteq Pin => \A e \in S : g[e] \in Pin
  BY <1>1 DEF Pin
<1> HIDE DEF g
<1>5. IsFiniteSet(Copies(S, s))
  BY <1>2, ImageIsFinite
<1> QED
  BY <1>2, <1>3, <1>4, <1>5

-----------------------------------------------------------------------------
(* Steps.                                                                   *)

\* The document and the cache that an operation leaves are well formed, and an
\* honest cache is dropped or still holds what the document does.
Sound(d, D, c) ==
  IsDoc(D) /\ IsCache(c) /\ (Honest(d) => c = None \/ c = Objects(D))

HonestStays == \A d \in Device : Honest(d) => Honest(d)'

\* What write does with a sound document and cache.
LEMMA WriteIsSound ==
  ASSUME Shape, NEW d \in Device, NEW D, NEW c,
         IsDoc(D), IsCache(c), write(d, D, c)
  PROVE  /\ Shape'
         /\ \A x \in Device : x # d /\ Honest(x) => Honest(x)'
         /\ doc'[d] = D /\ cache'[d] = c
         /\ Sound(d, D, c) => HonestStays
<1>1. /\ doc' = [doc EXCEPT ![d] = D] /\ cache' = [cache EXCEPT ![d] = c]
      /\ \/ saved' = saved
         \/ \E before \in {doc[d], saved[d]} \ {None} : saved' = [saved EXCEPT ![d] = before]
  BY DEF write
<1>2. DOMAIN saved' = Device /\ \A x \in Device : saved'[x] # None => IsDoc(saved'[x])
  BY <1>1 DEF Shape
<1>3. Shape'
  <2>1. lamport' \in [Device -> Nat] /\ captured' = captured
    BY DEF write, Shape
  <2>2. cache' \in [Device -> [Id -> Value] \cup {None}]
    BY <1>1 DEF Shape, IsCache
  <2> QED
    BY <1>1, <1>2, <2>1, <2>2 DEF Shape
<1>4. doc'[d] = D /\ cache'[d] = c BY <1>1 DEF Shape
<1>5. \A x \in Device : x # d => doc'[x] = doc[x] /\ cache'[x] = cache[x]
  BY <1>1 DEF Shape
<1> QED BY <1>3, <1>4, <1>5 DEF Sound, HonestStays, Honest

\* The list of all objects, made or cached.
LEMMA AllIsCache ==
  ASSUME Shape, NEW d \in Device
  PROVE  /\ IsCache(Objects(doc[d])) /\ IsCache(All(d)) /\ IsCache(cache[d])
         /\ \A i \in Id : All(d)[i] \in Value /\ Get(d, i) \in Value
         /\ Honest(d) => All(d) = Objects(doc[d])
         /\ Now(d) \in Stamp
<1>1. Now(d) \in Stamp
  BY DEF Shape, Now, Stamp
<1>2. \A i \in Id : Get(d, i) \in Value
  BY DEF Shape, IsDoc, Document, Entry, Get
<1>3. Objects(doc[d]) \in [Id -> Value]
  BY <1>2 DEF Objects, Get
<1> QED
  BY <1>1, <1>2, <1>3 DEF Shape, IsCache, All, Honest

\* The updates of deleteMany, in a document and the map of objects.
LEMMA CleanedIsDoc ==
  ASSUME Shape, NEW d \in Device, NEW T, NEW S \in SUBSET (Related(d, T) \ Throwing(d, T))
  PROVE  LET C == Cleaned(d, T, S)
             seen == Mentioning(doc[d], {i \in Id \ T : All(d)[i] # None}, T) IN
         /\ IsDoc(C)
         /\ \A i \in Id : Objects(C)[i] = IF i \in S
                            THEN [Get(d, i) EXCEPT !.tags = All(d)[i].tags \ T] ELSE Get(d, i)
         /\ C.erased = doc[d].erased \cup seen
         /\ C.bodies = doc[d].bodies \cup Stripped(seen, T, Now(d))
         /\ C.pins = doc[d].pins /\ C.unpinned = doc[d].unpinned
<1> DEFINE listed == {i \in Id \ T : All(d)[i] # None}
           seen == Mentioning(doc[d], listed, T)
           U == Unmentioned(doc[d], listed, T, Now(d))
           filtered == [i \in Id |-> All(d)[i].tags \ T]
<1>1. IsDoc(doc[d]) /\ Now(d) \in Stamp BY AllIsCache DEF Shape
<1> HIDE DEF listed
<1>2. /\ IsDoc(U) /\ Objects(U) = Objects(doc[d])
      /\ U.erased = doc[d].erased \cup seen
      /\ U.bodies = doc[d].bodies \cup Stripped(seen, T, Now(d))
      /\ U.pins = doc[d].pins /\ U.unpinned = doc[d].unpinned
  BY <1>1, UnmentionedIsDoc
<1>3. \A i \in Id : i \in S => U.objects[i].value \in Object /\ filtered[i] \in SUBSET Id
  <2> SUFFICES ASSUME NEW i \in Id, i \in S
               PROVE  U.objects[i].value \in Object /\ filtered[i] \in SUBSET Id
    OBVIOUS
  <2>1. All(d)[i] # None /\ Get(d, i) # None BY DEF Related, Throwing, Exists
  <2>2. All(d)[i] \in Object /\ Get(d, i) \in Object BY <2>1, AllIsCache DEF Value
  <2>3. All(d)[i].tags \in SUBSET Id BY <2>2 DEF Object
  <2>4. U.objects[i].value = Get(d, i)
    BY <1>2 DEF Objects, Get
  <2> QED BY <2>2, <2>3, <2>4
<1>4. Cleaned(d, T, S) = Untagged(U, S, filtered, Now(d)) BY DEF Cleaned, listed
<1>5. \A i \in Id : filtered[i] = All(d)[i].tags \ T OBVIOUS
<1> HIDE DEF filtered, U, seen
<1>6. LET C == Untagged(U, S, filtered, Now(d)) IN
      /\ IsDoc(C)
      /\ \A i \in Id : Objects(C)[i] = IF i \in S
                                       THEN [Objects(U)[i] EXCEPT !.tags = filtered[i]]
                                       ELSE Objects(U)[i]
      /\ C.bodies = U.bodies /\ C.erased = U.erased
      /\ C.pins = U.pins /\ C.unpinned = U.unpinned
  BY <1>1, <1>2, <1>3, UntaggedIsDoc
<1>7. \A i \in Id : Objects(U)[i] = Get(d, i) BY <1>2 DEF Objects, Get
<1> QED BY <1>2, <1>4, <1>5, <1>6, <1>7 DEF listed, seen

-----------------------------------------------------------------------------
(* The list of objects.                                                     *)

OldList(d) ==
  \/ undo(d) \/ \E i \in Id, type \in Type : changeType(d, i, type)
  \/ d \notin captured /\ \E x \in Device : onRemoteChange(d, x)

\* An operation that writes, but changeType and undo, leaves a sound result.
LEMMA WritesAreSound ==
  ASSUME Shape, NEW d \in Device,
         \/ reorderPinned(d)
         \/ \E i \in Id : \/ pin(d, i) \/ unpin(d, i) \/ setStatus(d, i) \/ markProcessed(d, i)
                          \/ delete(d, i) \/ deleteObject(d, i)
                          \/ \E archived \in BOOLEAN : archive(d, i, archived)
                          \/ \E type \in Type : create(d, i, type)
                          \/ \E mentions \in SUBSET (Id \ {i}) : setContent(d, i, mentions)
                          \/ \E t \in Id : \/ addTag(d, i, t) \/ removeTag(d, i, t)
                                           \/ duplicate(d, i, t)
         \/ \E T \in SUBSET Id : deleteMany(d, T) \/ deleteManyThrows(d, T)
  PROVE  \E D, c : Sound(d, D, c) /\ write(d, D, c)
<1>1. IsDoc(doc[d]) /\ IsCache(cache[d]) /\ Now(d) \in Stamp BY AllIsCache DEF Shape
<1>2. \A D : IsDoc(D) => Sound(d, D, None) BY DEF Sound, IsCache
<1>3. \A i \in Id : Exists(d, i) => Get(d, i) \in Object
  BY AllIsCache DEF Exists, Value
\* what deleteMany does to the cache
<1>14. ASSUME NEW D, IsDoc(D) PROVE Sound(d, D, CacheAfter(d, D))
  BY <1>14, AllIsCache DEF Sound, CacheAfter, IsCache, Objects
<1>4. CASE reorderPinned(d)
  <2> DEFINE shown == {p \in Pins(doc[d]) : Exists(d, p.id) /\ Get(d, p.id).pinned}
             new == Copies(shown, Now(d))
             gone == Pins(doc[d])
             D == [doc[d] EXCEPT !.unpinned = @ \cup gone, !.pins = @ \cup new]
  <2>1. write(d, D, cache[d])
    BY <1>4 DEF reorderPinned
  <2>2. /\ gone \subseteq doc[d].pins /\ shown \subseteq doc[d].pins
        /\ doc[d].pins \subseteq Pin /\ IsFiniteSet(doc[d].pins)
    BY <1>1 DEF Pins, IsDoc, Document
  <2> HIDE DEF shown, gone
  <2>3. new \subseteq Pin /\ IsFiniteSet(new)
    BY <1>1, <2>2, CopiesAreElements, FS_Subset
  <2>4. IsFiniteSet(doc[d].pins \cup new)
    BY <2>2, <2>3, FS_Union
  <2> HIDE DEF new
  <2>5. /\ D \in Document /\ D.objects = doc[d].objects
        /\ D.bodies = doc[d].bodies /\ D.erased = doc[d].erased
        /\ D.pins = doc[d].pins \cup new /\ D.unpinned = doc[d].unpinned \cup gone
    BY <1>1, <2>2, <2>3 DEF IsDoc, Document
  <2> HIDE DEF D
  <2>6. IsDoc(D) /\ Objects(D) = Objects(doc[d])
    BY <1>1, <2>2, <2>4, <2>5 DEF IsDoc, Objects
  <2>7. Sound(d, D, cache[d]) BY <1>1, <2>6 DEF Sound, Honest
  <2> QED BY <2>1, <2>7
<1>5. ASSUME NEW i \in Id, pin(d, i) PROVE \E D, c : Sound(d, D, c) /\ write(d, D, c)
  <2> DEFINE p == [stamp |-> Now(d), n |-> 1, id |-> i]
             o == [Get(d, i) EXCEPT !.pinned = TRUE]
  <2>1. o \in Value BY <1>3, <1>5 DEF pin, Object, Value
  <2>2. p \in Pin BY <1>1 DEF Pin
  <2>3. write(d, [Set(doc[d], i, o, Now(d)) EXCEPT !.pins = @ \cup {p}], None)
    BY <1>5 DEF pin
  <2> HIDE DEF p, o
  <2> QED BY <1>1, <1>2, <2>1, <2>2, <2>3, SetIsDoc
<1>6. ASSUME NEW i \in Id, unpin(d, i) PROVE \E D, c : Sound(d, D, c) /\ write(d, D, c)
  <2> DEFINE o == [Get(d, i) EXCEPT !.pinned = FALSE]
  <2>1. o \in Value BY <1>3, <1>6 DEF unpin, Object, Value
  <2>2. PICK R \in SUBSET doc[d].pins :
          write(d, [Set(doc[d], i, o, Now(d)) EXCEPT !.unpinned = @ \cup R], None)
    BY <1>6 DEF unpin, FirstPins, Pins
  <2> HIDE DEF o
  <2> QED BY <1>1, <1>2, <2>1, <2>2, SetIsDoc
<1>7. ASSUME NEW i \in Id, NEW o \in Value, write(d, Set(doc[d], i, o, Now(d)), None)
      PROVE  \E D, c : Sound(d, D, c) /\ write(d, D, c)
  BY <1>1, <1>2, <1>7, SetIsDoc
<1>8. ASSUME NEW i \in Id,
             \/ setStatus(d, i) \/ markProcessed(d, i)
             \/ \E archived \in BOOLEAN : archive(d, i, archived)
             \/ \E type \in Type : create(d, i, type)
             \/ \E t \in Id : addTag(d, i, t) \/ removeTag(d, i, t)
      PROVE  \E o \in Value : write(d, Set(doc[d], i, o, Now(d)), None)
  BY <1>3, <1>8 DEF setStatus, markProcessed, archive, create, addTag, removeTag, update,
                    Object, Value
<1>9. ASSUME NEW i \in Id, delete(d, i) \/ deleteObject(d, i)
      PROVE  \E D, c : Sound(d, D, c) /\ write(d, D, c)
  <2>1. PICK R \in FirstPins(doc[d], {i}) :
          \E D \in {doc[d], Unmentioned(doc[d], Listed(d) \ {i}, {i}, Now(d))} :
            write(d, Deleted(D, {i}, R, Now(d)), None)
    BY <1>9 DEF delete, deleteObject
  <2>2. R \subseteq doc[d].pins
    BY DEF FirstPins, Pins
  <2>3. \A D \in {doc[d], Unmentioned(doc[d], Listed(d) \ {i}, {i}, Now(d))} :
          IsDoc(D) /\ D.pins = doc[d].pins
    BY <1>1, UnmentionedIsDoc
  <2> QED BY <1>1, <1>2, <2>1, <2>2, <2>3, DeletedIsDoc
<1>10. ASSUME NEW i \in Id, NEW mentions \in SUBSET Id, setContent(d, i, mentions)
       PROVE  \E D, c : Sound(d, D, c) /\ write(d, D, c)
  <2> DEFINE D == WithContent(doc[d], i, NewBody(mentions), Now(d))
  <2>1. IsDoc(D) /\ Objects(D) = Objects(doc[d])
    <3>1. NewBody(mentions) \in Body
      BY DEF NewBody, Body, Stamp
    <3> QED
      BY <1>1, <3>1, WithContentIsDoc
  <2> HIDE DEF D
  <2>2. Sound(d, D, cache[d]) BY <1>1, <2>1 DEF Sound, Honest
  <2>3. write(d, D, None) \/ write(d, D, cache[d]) BY <1>10 DEF setContent, D
  <2> QED BY <1>2, <2>1, <2>2, <2>3
<1>11. ASSUME NEW i \in Id, NEW j \in Id, duplicate(d, i, j)
       PROVE  \E D, c : Sound(d, D, c) /\ write(d, D, c)
  <2> DEFINE copy == [Get(d, i) EXCEPT !.status = @ \/ Get(d, i).typeId = "task",
                                       !.pinned = FALSE, !.archived = FALSE]
             D == Set(doc[d], j, copy, Now(d))
  <2>1. copy \in Value BY <1>3, <1>11 DEF duplicate, Object, Value
  <2>2. IsDoc(D) BY <1>1, <2>1, SetIsDoc
  <2> HIDE DEF copy
  <2> DEFINE text == Of(Visible(D), i)
             mentions == UNION {v.mentions : v \in text}
             json == Cardinality(text) = 1 /\ \A v \in text : v.json
             body == [NewBody(mentions) EXCEPT !.json = json]
  <2>3. write(d, D, None) \/ write(d, WithContent(D, j, body, Now(d)), None)
    BY <1>11 DEF duplicate, copy
  <2>4. body \in Body
    <3>1. mentions \in SUBSET Id
      BY <2>2 DEF IsDoc, Document, Body, Of, Visible
    <3>2. json \in BOOLEAN
      OBVIOUS
    <3> HIDE DEF mentions, json
    <3> QED
      BY <3>1, <3>2 DEF NewBody, Body, Stamp
  <2> HIDE DEF D, body
  <2> QED BY <1>1, <1>2, <2>2, <2>3, <2>4, WithContentIsDoc
<1>12. ASSUME NEW T \in SUBSET Id, deleteMany(d, T)
       PROVE  \E D, c : Sound(d, D, c) /\ write(d, D, c)
  <2> DEFINE C == Cleaned(d, T, Related(d, T))
  <2>1. IsDoc(C) /\ C.pins = doc[d].pins BY <1>12, CleanedIsDoc DEF deleteMany
  <2>2. PICK R \in FirstPins(doc[d], T) :
          write(d, Deleted(C, T, R, Now(d)), CacheAfter(d, Deleted(C, T, R, Now(d))))
    BY <1>12 DEF deleteMany
  <2> HIDE DEF C
  <2>3. R \in SUBSET C.pins BY <2>1 DEF FirstPins, Pins
  <2>4. IsDoc(Deleted(C, T, R, Now(d))) BY <1>1, <2>1, <2>3, DeletedIsDoc
  <2> QED BY <2>2, <2>4, <1>14
<1>13. ASSUME NEW T \in SUBSET Id, deleteManyThrows(d, T)
       PROVE  \E D, c : Sound(d, D, c) /\ write(d, D, c)
  BY <1>13, CleanedIsDoc, <1>14 DEF deleteManyThrows
<1> QED BY <1>4, <1>5, <1>6, <1>7, <1>8, <1>9, <1>10, <1>11, <1>12, <1>13

\* Every step keeps the shape, and an honest list but after the steps of OldList.
LEMMA StepKeeps ==
  ASSUME Shape, [Next]_vars
  PROVE  Shape' /\ \A d \in Device : Honest(d) => Honest(d)' \/ OldList(d)
<1> DEFINE Goal == Shape' /\ \A d \in Device : Honest(d) => Honest(d)' \/ OldList(d)
<1>1. CASE UNCHANGED vars
  BY <1>1 DEF vars, Shape, Honest
<1>2. ASSUME NEW d \in Device, NEW D, NEW c, Sound(d, D, c), write(d, D, c) PROVE Goal
  <2>1. IsDoc(D) /\ IsCache(c) BY <1>2 DEF Sound
  <2> QED BY <1>2, <2>1, WriteIsSound DEF HonestStays
<1>3. ASSUME NEW d \in Device, getAll(d) PROVE Goal
  <2>1. IsCache(Objects(doc[d])) BY AllIsCache
  <2>2. cache' \in [Device -> [Id -> Value] \cup {None}]
    BY <1>3, <2>1 DEF getAll, Shape, IsCache
  <2>3. Shape' BY <1>3, <2>2 DEF getAll, Shape
  <2> QED BY <1>3, <2>3 DEF getAll, Shape, Honest
<1>4. ASSUME NEW d \in Device, undo(d) PROVE Goal
  <2>1. IsDoc(Undone(doc[d], saved[d], Now(d)))
    <3>1. IsDoc(doc[d]) /\ IsDoc(saved[d]) BY <1>4 DEF undo, Shape
    <3> DEFINE bodies == Copies(Visible(saved[d]) \ Visible(doc[d]), Now(d))
               pins == Copies(Pins(saved[d]) \ Pins(doc[d]), Now(d))
               U == Undone(doc[d], saved[d], Now(d))
    <3>2. /\ IsFiniteSet(Visible(saved[d]) \ Visible(doc[d]))
          /\ Visible(saved[d]) \ Visible(doc[d]) \subseteq Body
          /\ IsFiniteSet(Pins(saved[d]) \ Pins(doc[d]))
          /\ Pins(saved[d]) \ Pins(doc[d]) \subseteq Pin
      BY <3>1, FS_Subset DEF Visible, Pins, IsDoc, Document
    <3>3. Now(d) \in Stamp
      BY AllIsCache
    <3>4. /\ bodies \subseteq Body /\ IsFiniteSet(bodies)
          /\ pins \subseteq Pin /\ IsFiniteSet(pins)
      BY <3>2, <3>3, CopiesAreElements
    <3>5. IsFiniteSet(doc[d].bodies \cup bodies) /\ IsFiniteSet(doc[d].pins \cup pins)
      BY <3>1, <3>4, FS_Union DEF IsDoc
    <3>6. U.objects \in [Id -> Entry]
      BY <3>1, <3>3 DEF Undone, Objects, IsDoc, Document, Entry
    <3> HIDE DEF bodies, pins
    <3>7. /\ U.bodies = doc[d].bodies \cup bodies
          /\ U.erased = doc[d].erased \cup (Visible(doc[d]) \ Visible(saved[d]))
          /\ U.pins = doc[d].pins \cup pins
          /\ U.unpinned = doc[d].unpinned \cup (Pins(doc[d]) \ Pins(saved[d]))
          /\ U = [objects |-> U.objects, bodies |-> U.bodies, erased |-> U.erased,
                   pins |-> U.pins, unpinned |-> U.unpinned]
      BY DEF Undone, bodies, pins
    <3> HIDE DEF U
    <3>8. U \in Document
      BY <3>1, <3>4, <3>6, <3>7 DEF Document, IsDoc, Visible, Pins
    <3> QED BY <3>1, <3>5, <3>7, <3>8 DEF IsDoc, Visible, Pins, U
  <2>2. Shape'
    <3>1. lamport' \in [Device -> Nat]
      BY <1>4 DEF undo, Shape
    <3> QED
      BY <1>4, <2>1, <3>1 DEF undo, Shape
  <2>3. \A x \in Device : x # d => doc'[x] = doc[x] /\ cache'[x] = cache[x]
    BY <1>4 DEF undo, Shape
  <2> QED BY <1>4, <2>2, <2>3 DEF Honest, OldList
<1>5. ASSUME NEW d \in Device, NEW x \in Device, onSyncReceived(d, x) \/ onRemoteChange(d, x)
      PROVE  Goal
  <2>1. PICK c \in {None, cache[d]} :
          /\ receive(d, x, c)
          /\ \/ c = None
             \/ d \notin captured /\ onRemoteChange(d, x)
    <3>1. CASE onSyncReceived(d, x)
      BY <3>1 DEF onSyncReceived
    <3>2. CASE onRemoteChange(d, x)
      <4>1. receive(d, x, IF d \in captured THEN None ELSE cache[d])
        BY <3>2 DEF onRemoteChange
      <4> QED
        BY <3>2, <4>1
    <3> QED
      BY <1>5, <3>1, <3>2
  <2>2. IsCache(c)
    BY AllIsCache DEF IsCache
  <2>3. IsDoc(Merged(doc[d], doc[x]))
    <3>1. IsDoc(doc[d]) /\ IsDoc(doc[x])
      BY DEF Shape
    <3>2. /\ IsFiniteSet(doc[d].bodies \cup doc[x].bodies)
          /\ IsFiniteSet(doc[d].pins \cup doc[x].pins)
      BY <3>1, FS_Union DEF IsDoc
    <3>3. Merged(doc[d], doc[x]) \in Document
      BY <3>1 DEF Merged, IsDoc, Document
    <3> QED
      BY <3>1, <3>2, <3>3 DEF Merged, IsDoc
  <2>4. lamport' \in [Device -> Nat]
    <3>1. lamport[d] \in Nat /\ lamport[x] \in Nat
      BY DEF Shape
    <3>2. IsFiniteSet({lamport[d]} \cup {lamport[x]})
      BY FS_Singleton, FS_AddElement
    <3>3. Max({lamport[d], lamport[x]}) \in Nat
      BY <3>1, <3>2, MaxIsLargest
    <3> QED
      BY <2>1, <3>3 DEF receive, Shape
  <2>5. Shape' BY <2>1, <2>3, <2>4, <2>2 DEF receive, Shape, IsCache
  <2>6. cache' = [cache EXCEPT ![d] = c] /\ doc' = [doc EXCEPT ![d] = Merged(@, doc[x])]
    BY <2>1 DEF receive
  <2> QED BY <2>1, <2>5, <2>6 DEF Shape, Honest, OldList
<1>6. ASSUME NEW d \in Device, NEW i \in Id, NEW type \in Type, changeType(d, i, type)
      PROVE  Goal
  <2>1. [Get(d, i) EXCEPT !.typeId = type] \in Value
    BY <1>6, AllIsCache DEF changeType, Exists, Object, Value
  <2>2. \E D, c : IsDoc(D) /\ IsCache(c) /\ write(d, D, c)
    BY <1>6, <2>1, AllIsCache, SetIsDoc DEF changeType, Shape
  <2> QED BY <1>6, <2>2, WriteIsSound DEF OldList
<1>7. ASSUME NEW d \in Device, connect(d) PROVE Goal
  BY <1>7 DEF connect, Shape, Honest
<1>8. CASE Next
  <2>1. PICK d \in Device :
          \/ getAll(d) \/ undo(d) \/ reorderPinned(d) \/ connect(d)
          \/ \E x \in Device \ {d} : onSyncReceived(d, x) \/ onRemoteChange(d, x)
          \/ \E i \in Id :
               \/ pin(d, i) \/ unpin(d, i) \/ setStatus(d, i) \/ markProcessed(d, i)
               \/ delete(d, i) \/ deleteObject(d, i)
               \/ \E archived \in BOOLEAN : archive(d, i, archived)
               \/ \E type \in Type : create(d, i, type) \/ changeType(d, i, type)
               \/ \E mentions \in SUBSET (Id \ {i}) : setContent(d, i, mentions)
               \/ \E t \in Id : addTag(d, i, t) \/ removeTag(d, i, t) \/ duplicate(d, i, t)
          \/ \E T \in SUBSET {i \in Id : All(d)[i] # None} \ {{}} :
               deleteMany(d, T) \/ deleteManyThrows(d, T)
    BY <1>8 DEF Next
  <2>2. CASE \/ getAll(d) \/ undo(d) \/ connect(d)
             \/ \E x \in Device : onSyncReceived(d, x) \/ onRemoteChange(d, x)
    BY <2>2, <1>3, <1>4, <1>5, <1>7
  <2>3. CASE \E i \in Id, type \in Type : changeType(d, i, type)
    BY <2>3, <1>6
  <2>4. CASE \E D, c : Sound(d, D, c) /\ write(d, D, c)
    BY <2>4, <1>2
  <2> QED BY <2>1, <2>2, <2>3, <2>4, WritesAreSound
<1> QED BY <1>1, <1>8

\* Documents, caches and what undo returns to keep their shape, whatever the devices
\* do (objects.ts): only what was inserted is deleted from a text or a list.
THEOREM TypeCorrect == Spec => [](TypeOK /\ Shape)
<1>1. Init => Shape
  <2> SUFFICES ASSUME Init PROVE Shape
    OBVIOUS
  <2> DEFINE g == [i \in Old |-> [NewBody({}) EXCEPT !.id = i]]
             note == [typeId |-> "note", status |-> FALSE, tags |-> {},
                      pinned |-> FALSE, archived |-> FALSE]
             f == [i \in Id |-> [stamp |-> <<0, 0>>, value |-> IF i \in Old THEN note ELSE None]]
             bodies == {g[i] : i \in Old}
  <2>1. \A i \in Old : g[i] \in Body
    BY OldAssumption DEF NewBody, Body, Stamp
  <2>2. IsFiniteSet(bodies)
    <3>1. IsFiniteSet(Old) /\ DOMAIN g = Old
      BY OldAssumption
    <3> HIDE DEF g
    <3> QED
      BY <3>1, ImageIsFinite
  <2>3. note \in Object
    BY DEF Object, Type
  <2> HIDE DEF note
  <2>4. f \in [Id -> Entry]
    BY <2>3 DEF Entry, Stamp, Value
  <2>5. doc = [d \in Device |-> [objects |-> f, bodies |-> bodies, erased |-> {},
                                pins |-> {}, unpinned |-> {}]]
    BY DEF Init, note
  <2>6. IsFiniteSet({})
    BY FS_EmptySet
  <2> HIDE DEF g, f
  <2>7. bodies \subseteq Body
    BY <2>1
  <2> HIDE DEF bodies
  <2>8. IsDoc([objects |-> f, bodies |-> bodies, erased |-> {}, pins |-> {}, unpinned |-> {}])
    BY <2>2, <2>4, <2>6, <2>7 DEF IsDoc, Document
  <2> QED
    BY <2>5, <2>8 DEF Init, Shape
<1>2. Shape /\ [Next]_vars => Shape'
  BY StepKeeps
<1>3. Shape => TypeOK
  <2> SUFFICES ASSUME Shape PROVE TypeOK
    OBVIOUS
  <2>1. ASSUME NEW d \in Device
        PROVE  /\ \A i \in Id : /\ doc[d].objects[i].stamp \in Stamp
                               /\ doc[d].objects[i].value \in Object \cup {None}
               /\ doc[d].bodies \subseteq Body /\ doc[d].erased \subseteq doc[d].bodies
               /\ doc[d].pins \subseteq Pin /\ doc[d].unpinned \subseteq doc[d].pins
    BY DEF Shape, IsDoc, Document, Entry, Value
  <2> QED
    BY <2>1 DEF Shape, TypeOK, Value
<1> QED
  BY <1>1, <1>2, <1>3, PTL DEF Spec

\* The list getAll keeps (objects.ts:198) is dropped or right after every operation
\* but changeTypeMany, undo and an import from the relay after an auto-connect, on any
\* number of devices.
THEOREM CachePromise == Spec => CacheKept
<1>1. Shape /\ [Next]_vars =>
        [\A d \in Device : Honest(d) =>
           \/ Honest(d)'
           \/ undo(d)
           \/ \E i \in Id, type \in Type : changeType(d, i, type)
           \/ d \notin captured /\ \E x \in Device : onRemoteChange(d, x)]_vars
  BY StepKeeps DEF OldList
<1> QED BY <1>1, TypeCorrect, PTL DEF Spec, CacheKept

-----------------------------------------------------------------------------
(* deleteMany.                                                              *)

\* The map after deleteMany from an honest list.
LEMMA DeletedObjects ==
  ASSUME Shape, NEW d \in Device, NEW T \in SUBSET Id, Honest(d), deleteMany(d, T),
         NEW i \in Id
  PROVE  Objects(doc'[d])[i] =
           IF i \in T \/ ~ Exists(d, i) THEN None ELSE [Get(d, i) EXCEPT !.tags = @ \ T]
<1> DEFINE C == Cleaned(d, T, Related(d, T))
<1>1. /\ IsDoc(C) /\ C.pins = doc[d].pins
      /\ Objects(C)[i] = IF i \in Related(d, T)
                         THEN [Get(d, i) EXCEPT !.tags = All(d)[i].tags \ T] ELSE Get(d, i)
  BY CleanedIsDoc DEF deleteMany
<1> HIDE DEF C
<1>2. PICK R \in SUBSET C.pins :
        write(d, Deleted(C, T, R, Now(d)), CacheAfter(d, Deleted(C, T, R, Now(d))))
  BY <1>1 DEF deleteMany, FirstPins, Pins, C
<1>3. Objects(doc'[d])[i] = IF i \in T THEN None ELSE Objects(C)[i]
  BY <1>1, <1>2, AllIsCache, DeletedIsDoc DEF write, Shape
<1>4. All(d)[i] = Get(d, i) BY AllIsCache DEF Objects, Get
<1>5. CASE i \in T \/ ~ Exists(d, i)
  BY <1>1, <1>3, <1>4, <1>5 DEF Related, Exists
<1>6. CASE i \notin T /\ Exists(d, i)
  <2>1. Get(d, i) \in Object BY <1>6, AllIsCache DEF Exists, Value
  <2>2. i \notin Related(d, T) => Get(d, i).tags \ T = Get(d, i).tags
    BY <1>4, <1>6 DEF Related, Exists
  <2>3. [Get(d, i) EXCEPT !.tags = Get(d, i).tags] = Get(d, i) BY <2>1 DEF Object
  <2> QED BY <1>1, <1>3, <1>4, <1>6, <2>2, <2>3
<1> QED BY <1>5, <1>6

\* No readable text mentions what deleteMany deleted: a body that it wrote mentions
\* none of it, and one that it left had another beside it, which is still there.
LEMMA NoMentionIsLeft ==
  ASSUME Shape, NEW d \in Device, NEW T \in SUBSET Id, Honest(d), deleteMany(d, T),
         NEW i \in Id, i \notin T, Exists(d, i)
  PROVE  Mentioning(doc'[d], {i}, T) = {}
<1> DEFINE listed == {x \in Id \ T : All(d)[x] # None}
           seen == Mentioning(doc[d], listed, T)
           C == Cleaned(d, T, Related(d, T))
<1>1. /\ IsDoc(C) /\ C.pins = doc[d].pins
      /\ C.erased = doc[d].erased \cup seen
      /\ C.bodies = doc[d].bodies \cup Stripped(seen, T, Now(d))
  BY CleanedIsDoc DEF deleteMany
<1> HIDE DEF C
<1>2. PICK R \in SUBSET C.pins :
        write(d, Deleted(C, T, R, Now(d)), CacheAfter(d, Deleted(C, T, R, Now(d))))
  BY <1>1 DEF deleteMany, FirstPins, Pins, C
<1>3. doc'[d].bodies = C.bodies /\ doc'[d].erased = C.erased
  <2> DEFINE E == Deleted(C, T, R, Now(d))
  <2>1. E.bodies = C.bodies /\ E.erased = C.erased
    BY <1>1 DEF Deleted, IsDoc, Document
  <2> HIDE DEF E
  <2> QED BY <1>2, <2>1 DEF write, Shape, E
<1>4. i \in listed BY AllIsCache DEF Objects, Get, Exists
<1>5. \A w \in seen : Of(Visible(doc[d]), w.id) = {w} BY DEF Mentioning
<1> HIDE DEF listed
<1> SUFFICES ASSUME NEW v \in Mentioning(doc'[d], {i}, T) PROVE FALSE
  OBVIOUS
<1>6. /\ v \in Visible(doc'[d]) /\ v.id = i /\ v.json /\ v.mentions \cap T # {}
      /\ Of(Visible(doc'[d]), i) = {v}
  BY DEF Mentioning
<1>7. v \notin Stripped(seen, T, Now(d))
  <2>1. seen \subseteq Body BY DEF Mentioning, Visible, Shape, IsDoc, Document
  <2>2. Now(d) \in Stamp BY AllIsCache
  <2> HIDE DEF seen
  <2> QED BY <1>6, <2>1, <2>2, StrippedAreBodies
<1>8. v \in Visible(doc[d]) /\ v \notin seen BY <1>1, <1>3, <1>6, <1>7 DEF Visible
<1>9. Of(Visible(doc[d]), i) # {v}
  BY <1>4, <1>6, <1>8 DEF Mentioning, Exists, Get
<1>10. PICK w \in Visible(doc[d]) : w.id = i /\ w # v
  BY <1>6, <1>8, <1>9 DEF Of
<1>11. w \notin seen BY <1>5, <1>6, <1>8, <1>10 DEF Of
<1>12. w \in Visible(doc'[d]) BY <1>1, <1>3, <1>10, <1>11 DEF Visible
<1> QED BY <1>6, <1>10, <1>12 DEF Of

\* deleteMany (objects.ts:721) from an honest list deletes what it was asked to,
\* every relation and readable mention of it, and changes nothing else of an object,
\* for any devices and objects and whatever was done before.
THEOREM DeleteManyExact == Spec => DeleteManyIsExact
<1>1. ASSUME Shape, NEW d \in Device, NEW T \in SUBSET Id, Honest(d), deleteMany(d, T),
             NEW i \in Id
      PROVE  /\ Objects(doc'[d])[i] =
                  IF i \in T \/ ~ Exists(d, i) THEN None
                  ELSE [Get(d, i) EXCEPT !.tags = @ \ T]
             /\ i \in T \/ ~ Exists(d, i) \/ Mentioning(doc'[d], {i}, T) = {}
  BY <1>1, DeletedObjects, NoMentionIsLeft
<1>2. Shape =>
        \A d \in Device, T \in SUBSET Id :
          Honest(d) /\ T # {} /\ deleteMany(d, T) =>
            \A i \in Id :
              /\ Objects(doc'[d])[i] =
                   IF i \in T \/ ~ Exists(d, i) THEN None
                   ELSE [Get(d, i) EXCEPT !.tags = @ \ T]
              /\ i \in T \/ ~ Exists(d, i) \/ Mentioning(doc'[d], {i}, T) = {}
  BY <1>1
<1> QED BY <1>2, TypeCorrect, PTL DEF DeleteManyIsExact

-----------------------------------------------------------------------------
(* Flags, list and texts.                                                   *)

\* Tidy without cardinalities: an object is in the list when it is pinned, and once.
Shown(D, i) == Objects(D)[i] # None /\ Objects(D)[i].pinned
ListNeat(D) ==
  \A i \in Id : /\ \A p, q \in Of(Pins(D), i) : p = q
                /\ Of(Pins(D), i) # {} <=> Shown(D, i)
TextsNeat(D) == \A i \in Id : \A v, w \in Of(Visible(D), i) : v = w
Neat(D) == ListNeat(D) /\ TextsNeat(D)

LEMMA Counts ==
  ASSUME NEW S, IsFiniteSet(S)
  PROVE  /\ Cardinality(S) = 0 <=> S = {}
         /\ Cardinality(S) = 1 <=> S # {} /\ \A x, y \in S : x = y
         /\ Cardinality(S) <= 1 <=> \A x, y \in S : x = y
<1>1. Cardinality(S) \in Nat /\ (Cardinality(S) = 0 <=> S = {})
  BY FS_CardinalityType, FS_EmptySet
<1>2. Cardinality(S) = 1 <=> \E x : S = {x}
  BY FS_Singleton
<1>3. Cardinality(S) <= 1 <=> Cardinality(S) = 0 \/ Cardinality(S) = 1
  BY <1>1
<1>4. (\E x : S = {x}) <=> S # {} /\ \A x, y \in S : x = y
  OBVIOUS
<1> QED
  BY <1>1, <1>2, <1>3, <1>4

LEMMA TidyIsNeat ==
  ASSUME NEW D, IsDoc(D)
  PROVE  Tidy(D) <=> Neat(D)
<1>1. IsFiniteSet(Pins(D)) /\ IsFiniteSet(Visible(D))
  BY FS_Subset DEF IsDoc, Pins, Visible
<1>2. \A i \in Id : IsFiniteSet(Of(Pins(D), i)) /\ IsFiniteSet(Of(Visible(D), i))
  BY <1>1, FS_Subset DEF Of
<1>3. ASSUME NEW i \in Id
      PROVE  /\ Cardinality(Of(Pins(D), i)) = (IF Shown(D, i) THEN 1 ELSE 0)
                  <=> /\ \A p, q \in Of(Pins(D), i) : p = q
                      /\ Of(Pins(D), i) # {} <=> Shown(D, i)
             /\ Cardinality(Of(Visible(D), i)) <= 1
                  <=> \A v, w \in Of(Visible(D), i) : v = w
  <2>1. CASE Shown(D, i)
    BY <1>2, <2>1, Counts
  <2>2. CASE ~ Shown(D, i)
    BY <1>2, <2>2, Counts
  <2> QED
    BY <2>1, <2>2
<1> QED
  BY <1>3 DEF Tidy, Neat, ListNeat, TextsNeat, Shown

\* New elements with the data of old ones: one for each, all new ones with the stamp.
LEMMA CopiesMatch ==
  ASSUME NEW S, S \subseteq Body \/ S \subseteq Pin, NEW s
  PROVE  /\ \A f \in Copies(S, s) : f.stamp = s /\ \E e \in S : f.id = e.id
         /\ \A e \in S : \E f \in Copies(S, s) : f.id = e.id
         /\ (\A x, y \in S : x.id = y.id => x = y)
              => \A f, g \in Copies(S, s) : f.id = g.id => f = g
<1> DEFINE c(e) == Cardinality({x \in S : Before(x, e)})
           new(e) == [e EXCEPT !.stamp = s, !.n = c(e)]
<1>1. Copies(S, s) = {new(e) : e \in S}
  BY DEF Copies
<1> HIDE DEF c
<1>2. \A e \in S : new(e).id = e.id /\ new(e).stamp = s
  BY DEF Body, Pin
<1> HIDE DEF new
<1> QED
  BY <1>1, <1>2

\* Flags and texts after the operators on documents.
LEMMA SetIsNeat ==
  ASSUME NEW D, IsDoc(D), Neat(D), NEW i \in Id, NEW o \in Value, NEW s \in Stamp,
         o # None /\ o.pinned <=> Shown(D, i)
  PROVE  Neat(Set(D, i, o, s))
<1>1. /\ Pins(Set(D, i, o, s)) = Pins(D) /\ Visible(Set(D, i, o, s)) = Visible(D)
      /\ \A j \in Id : Shown(Set(D, i, o, s), j) <=> Shown(D, j)
  BY SetIsDoc DEF Pins, Visible, Shown
<1> QED
  BY <1>1 DEF Neat, ListNeat, TextsNeat

\* The text that is written takes the place of the one there was.
LEMMA WithContentIsNeat ==
  ASSUME NEW D, IsDoc(D), Neat(D), NEW i \in Id, NEW body \in Body, NEW s \in Stamp
  PROVE  Neat(WithContent(D, i, body, s))
<1> DEFINE W == WithContent(D, i, body, s)
           new == [body EXCEPT !.stamp = s, !.n = 1, !.id = i]
<1>1. /\ W.bodies = D.bodies \cup {new} /\ W.erased = D.erased \cup Of(Visible(D), i)
      /\ W.pins = D.pins /\ W.unpinned = D.unpinned /\ Objects(W) = Objects(D)
  <2>1. W.bodies = D.bodies \cup {new} /\ W.erased = D.erased \cup Of(Visible(D), i)
        /\ W.pins = D.pins /\ W.unpinned = D.unpinned
    BY DEF WithContent, Rewritten, IsDoc, Document
  <2> QED
    BY <2>1, WithContentIsDoc
<1>2. new.id = i
  BY DEF Body
<1> HIDE DEF W, new
<1>3. ListNeat(W)
  BY <1>1 DEF Neat, ListNeat, Shown, Pins
<1>4. \A j \in Id : Of(Visible(W), j) \subseteq IF j = i THEN {new} ELSE Of(Visible(D), j)
  BY <1>1, <1>2 DEF Of, Visible
<1>5. TextsNeat(W)
  BY <1>4 DEF Neat, TextsNeat
<1> QED
  BY <1>3, <1>5 DEF Neat, W

\* Each body that is rewritten was the only one of its object.
LEMMA RewrittenIsNeat ==
  ASSUME NEW D, IsDoc(D), TextsNeat(D), NEW S, NEW T, NEW s, NEW E,
         E.erased = D.erased \cup Mentioning(D, S, T),
         E.bodies = D.bodies \cup Stripped(Mentioning(D, S, T), T, s)
  PROVE  TextsNeat(E)
<1> DEFINE hit == Mentioning(D, S, T)
           new(v) == [v EXCEPT !.stamp = s, !.n = 1, !.mentions = @ \ T]
<1>1. Stripped(hit, T, s) = {new(v) : v \in hit}
  BY DEF Stripped
<1>2. hit \subseteq Visible(D) /\ hit \subseteq Body /\ \A v \in hit : new(v).id = v.id
  BY DEF Mentioning, Visible, IsDoc, Document, Body
<1> HIDE DEF hit, new
<1>3. \A w \in Visible(E) : (w \in Visible(D) /\ w \notin hit) \/ \E v \in hit : w = new(v)
  BY <1>1 DEF Visible, hit
<1> SUFFICES ASSUME NEW i \in Id, NEW w \in Of(Visible(E), i), NEW x \in Of(Visible(E), i)
             PROVE  w = x
  BY DEF TextsNeat
<1>4. ASSUME NEW y \in Of(Visible(E), i)
      PROVE  \E v \in Of(Visible(D), i) : (v \notin hit /\ y = v) \/ (v \in hit /\ y = new(v))
  BY <1>2, <1>3 DEF Of
<1>5. PICK v \in Of(Visible(D), i) : (v \notin hit /\ w = v) \/ (v \in hit /\ w = new(v))
  BY <1>4
<1>6. PICK u \in Of(Visible(D), i) : (u \notin hit /\ x = u) \/ (u \in hit /\ x = new(u))
  BY <1>4
<1>7. u = v
  BY DEF TextsNeat
<1> QED
  BY <1>5, <1>6, <1>7

\* Of a neat list, indexOf and delete(index, 1) take all there is of the objects in T.
LEMMA FirstPinsAreAll ==
  ASSUME NEW D, IsDoc(D), Neat(D), NEW T \in SUBSET Id, NEW R \in FirstPins(D, T)
  PROVE  R = {p \in Pins(D) : p.id \in T} /\ R \in SUBSET D.pins
<1>1. R \subseteq {p \in Pins(D) : p.id \in T}
  BY DEF FirstPins
<1>2. ASSUME NEW p \in Pins(D), p.id \in T
      PROVE  p \in R
  <2> DEFINE i == p.id
  <2>1. p \in Of(Pins(D), i) /\ \A q \in Of(Pins(D), i) : q = p
    BY <1>2 DEF Of, Neat, ListNeat
  <2>2. Of(Pins(D), i) = {p}
    BY <2>1
  <2>3. Cardinality({p}) = 1 /\ Min({1, 1}) = 1
    <3>1. Cardinality({p}) = 1
      BY FS_Singleton
    <3>2. {1, 1} \in SUBSET Nat /\ {1, 1} # {} /\ \A x \in {1, 1} : x = 1
      OBVIOUS
    <3>3. Min({1, 1}) \in {1, 1}
      BY <3>2, MinIsSmallest
    <3> QED
      BY <3>1, <3>2, <3>3
  <2>4. Cardinality(Of(R, i)) = 1
    BY <1>2, <2>2, <2>3 DEF FirstPins
  <2>5. Of(R, i) \subseteq {p}
    BY <1>1, <2>2 DEF Of
  <2>6. Of(R, i) # {}
    BY <2>4, FS_EmptySet
  <2> QED
    BY <2>5, <2>6 DEF Of
<1> QED
  BY <1>1, <1>2 DEF Pins

\* A deleted object takes its pin with it.
LEMMA DeletedIsNeat ==
  ASSUME NEW D, IsDoc(D), Neat(D), NEW T \in SUBSET Id, NEW s \in Stamp, NEW R,
         R = {p \in Pins(D) : p.id \in T}
  PROVE  Neat(Deleted(D, T, R, s))
<1> DEFINE E == Deleted(D, T, R, s)
<1>1. R \in SUBSET D.pins /\ R \subseteq Pin
  BY DEF Pins, IsDoc, Document
<1>2. /\ \A i \in Id : Objects(E)[i] = IF i \in T THEN None ELSE Objects(D)[i]
      /\ E.bodies = D.bodies /\ E.erased = D.erased /\ E.pins = D.pins
      /\ E.unpinned = D.unpinned \cup {p \in R : p.id \in T /\ Objects(D)[p.id] # None}
  <2> DEFINE existing == {i \in T : D.objects[i].value # None}
             gone == {p \in R : p.id \in existing}
  <2>1. E.pins = D.pins /\ E.unpinned = D.unpinned \cup gone
    BY DEF Deleted, IsDoc, Document
  <2>2. gone = {p \in R : p.id \in T /\ Objects(D)[p.id] # None}
    BY DEF Objects
  <2>3. /\ \A i \in Id : Objects(E)[i] = IF i \in T THEN None ELSE Objects(D)[i]
        /\ E.bodies = D.bodies /\ E.erased = D.erased
    BY <1>1, DeletedIsDoc
  <2> QED
    BY <2>1, <2>2, <2>3
<1> HIDE DEF E
<1>3. TextsNeat(E)
  BY <1>2 DEF Neat, TextsNeat, Visible
<1>4. \A p \in Pins(D) : p.id \in Id /\ Objects(D)[p.id] # None
  <2>1. \A p \in Pins(D) : p.id \in Id /\ p \in Of(Pins(D), p.id)
    BY DEF Pins, IsDoc, Document, Pin, Of
  <2> QED
    BY <2>1 DEF Neat, ListNeat, Shown
<1>5. Pins(E) = {p \in Pins(D) : p.id \notin T}
  BY <1>2, <1>4 DEF Pins
<1>6. \A i \in Id : Of(Pins(E), i) = IF i \in T THEN {} ELSE Of(Pins(D), i)
  BY <1>5 DEF Of
<1>7. ListNeat(E)
  BY <1>2, <1>6 DEF Neat, ListNeat, Shown
<1> QED
  BY <1>3, <1>7 DEF Neat, E

\* A pin that is added is new: no pin has its stamp.
LEMMA PinIsNeat ==
  ASSUME NEW D, IsDoc(D), Neat(D), NEW s \in Stamp, \A p \in D.pins : p.stamp # s,
         NEW i \in Id, NEW o \in Value, o # None, o.pinned, ~ Shown(D, i)
  PROVE  LET new == [stamp |-> s, n |-> 1, id |-> i]
             F == [Set(D, i, o, s) EXCEPT !.pins = @ \cup {new}]
         IN  F.pins = D.pins \cup {new} /\ Neat(F)
<1> DEFINE new == [stamp |-> s, n |-> 1, id |-> i]
           E == Set(D, i, o, s)
           F == [E EXCEPT !.pins = @ \cup {new}]
<1>1. /\ IsDoc(E) /\ E.bodies = D.bodies /\ E.erased = D.erased
      /\ E.pins = D.pins /\ E.unpinned = D.unpinned
      /\ \A j \in Id : Objects(E)[j] = IF j = i THEN o ELSE Objects(D)[j]
  BY SetIsDoc
<1>2. new.stamp = s /\ new.id = i
  OBVIOUS
<1> HIDE DEF new, E
<1>3. /\ F.bodies = D.bodies /\ F.erased = D.erased /\ F.objects = E.objects
      /\ F.pins = D.pins \cup {new} /\ F.unpinned = D.unpinned
  BY <1>1 DEF IsDoc, Document
<1> HIDE DEF F
<1>4. Pins(F) = Pins(D) \cup {new}
  BY <1>2, <1>3 DEF Pins, IsDoc
<1>5. Of(Pins(D), i) = {}
  BY DEF Neat, ListNeat
<1>6. \A j \in Id : Of(Pins(F), j) = IF j = i THEN {new} ELSE Of(Pins(D), j)
  BY <1>2, <1>4, <1>5 DEF Of
<1>7. \A j \in Id : Shown(F, j) <=> j = i \/ Shown(D, j)
  BY <1>1, <1>3 DEF Shown, Objects
<1>8. ListNeat(F)
  BY <1>6, <1>7 DEF Neat, ListNeat
<1>9. TextsNeat(F)
  BY <1>3 DEF Neat, TextsNeat, Visible
<1> QED
  BY <1>3, <1>8, <1>9 DEF Neat, F, E, new

LEMMA UnpinIsNeat ==
  ASSUME NEW D, IsDoc(D), Neat(D), NEW s \in Stamp, NEW i \in Id, NEW o \in Value,
         ~ (o # None /\ o.pinned), NEW R, R = {p \in Pins(D) : p.id \in {i}}
  PROVE  LET F == [Set(D, i, o, s) EXCEPT !.unpinned = @ \cup R]
         IN  F.pins = D.pins /\ Neat(F)
<1> DEFINE E == Set(D, i, o, s)
           F == [E EXCEPT !.unpinned = @ \cup R]
<1>1. /\ IsDoc(E) /\ E.bodies = D.bodies /\ E.erased = D.erased
      /\ E.pins = D.pins /\ E.unpinned = D.unpinned
      /\ \A j \in Id : Objects(E)[j] = IF j = i THEN o ELSE Objects(D)[j]
  BY SetIsDoc
<1> HIDE DEF E
<1>2. /\ F.bodies = D.bodies /\ F.erased = D.erased /\ F.objects = E.objects
      /\ F.pins = D.pins /\ F.unpinned = D.unpinned \cup R
  BY <1>1 DEF IsDoc, Document
<1> HIDE DEF F
<1>3. \A j \in Id : Of(Pins(F), j) = IF j = i THEN {} ELSE Of(Pins(D), j)
  BY <1>2 DEF Pins, Of
<1>4. \A j \in Id : Shown(F, j) <=> j # i /\ Shown(D, j)
  BY <1>1, <1>2 DEF Shown, Objects
<1>5. ListNeat(F)
  BY <1>3, <1>4 DEF Neat, ListNeat
<1>6. TextsNeat(F)
  BY <1>2 DEF Neat, TextsNeat, Visible
<1> QED
  BY <1>2, <1>5, <1>6 DEF Neat, F, E

\* The pins of the new order take the place of all there were.
LEMMA ReorderedIsNeat ==
  ASSUME NEW D, IsDoc(D), Neat(D), NEW s \in Stamp, \A p \in D.pins : p.stamp # s,
         NEW shown, shown = {p \in Pins(D) : Shown(D, p.id)}
  PROVE  LET F == [D EXCEPT !.unpinned = @ \cup Pins(D), !.pins = @ \cup Copies(shown, s)]
         IN  Neat(F)
<1> DEFINE F == [D EXCEPT !.unpinned = @ \cup Pins(D), !.pins = @ \cup Copies(shown, s)]
<1>1. Pins(D) \subseteq Pin /\ \A p \in Pins(D) : p.id \in Id /\ p \in Of(Pins(D), p.id)
  BY DEF Pins, IsDoc, Document, Pin, Of
<1>2. shown = Pins(D)
  BY <1>1 DEF Neat, ListNeat
<1>3. \A x, y \in shown : x.id = y.id => x = y
  BY <1>1, <1>2 DEF Neat, ListNeat
<1>4. /\ \A f \in Copies(shown, s) : f.stamp = s /\ \E e \in shown : f.id = e.id
      /\ \A e \in shown : \E f \in Copies(shown, s) : f.id = e.id
      /\ \A f, g \in Copies(shown, s) : f.id = g.id => f = g
  BY <1>1, <1>2, <1>3, CopiesMatch
<1>5. /\ F.bodies = D.bodies /\ F.erased = D.erased /\ F.objects = D.objects
      /\ F.pins = D.pins \cup Copies(shown, s) /\ F.unpinned = D.unpinned \cup Pins(D)
  BY DEF IsDoc, Document
<1> HIDE DEF F
<1>6. Pins(F) = Copies(shown, s)
  BY <1>4, <1>5 DEF Pins, IsDoc
<1>7. \A i \in Id : Of(Pins(F), i) # {} <=> Of(Pins(D), i) # {}
  BY <1>2, <1>4, <1>6 DEF Of
<1>8. \A i \in Id : \A p, q \in Of(Pins(F), i) : p = q
  BY <1>4, <1>6 DEF Of
<1>9. ListNeat(F)
  BY <1>5, <1>7, <1>8 DEF Neat, ListNeat, Shown, Objects
<1>10. TextsNeat(F)
  BY <1>5 DEF Neat, TextsNeat, Visible
<1> QED
  BY <1>9, <1>10 DEF Neat, F

\* What undo writes is visible as it was: what is still there and copies of the rest.
LEMMA UndoneIsNeat ==
  ASSUME NEW D, IsDoc(D), NEW B, IsDoc(B), Neat(D), Neat(B), NEW s \in Stamp,
         \A p \in D.pins : p.stamp # s
  PROVE  Neat(Undone(D, B, s))
<1> DEFINE U == Undone(D, B, s)
           backTexts == Copies(Visible(B) \ Visible(D), s)
           backPins == Copies(Pins(B) \ Pins(D), s)
<1>1. /\ U.bodies = D.bodies \cup backTexts /\ U.erased = D.erased \cup (Visible(D) \ Visible(B))
      /\ U.pins = D.pins \cup backPins /\ U.unpinned = D.unpinned \cup (Pins(D) \ Pins(B))
      /\ \A i \in Id : Objects(U)[i] = Objects(B)[i]
  BY DEF Undone, Objects
<1>2. /\ Visible(B) \subseteq Body /\ \A x \in Visible(B) : x.id \in Id /\ x \in Of(Visible(B), x.id)
      /\ Pins(B) \subseteq Pin /\ \A x \in Pins(B) : x.id \in Id /\ x \in Of(Pins(B), x.id)
  BY DEF IsDoc, Document, Body, Pin, Visible, Pins, Of
<1>3. /\ \A x, y \in Visible(B) : x.id = y.id => x = y
      /\ \A x, y \in Pins(B) : x.id = y.id => x = y
  BY <1>2 DEF Neat, ListNeat, TextsNeat
<1>4. /\ \A f \in backTexts : \E e \in Visible(B) \ Visible(D) : f.id = e.id
      /\ \A f, g \in backTexts : f.id = g.id => f = g
  <2> DEFINE S == Visible(B) \ Visible(D)
  <2>1. S \subseteq Body /\ \A x, y \in S : x.id = y.id => x = y
    BY <1>2, <1>3
  <2> HIDE DEF S
  <2>2. backTexts = Copies(S, s)
    BY DEF S
  <2>3. /\ \A f \in Copies(S, s) : f.stamp = s /\ \E e \in S : f.id = e.id
        /\ \A f, g \in Copies(S, s) : f.id = g.id => f = g
    BY <2>1, CopiesMatch
  <2> HIDE DEF backTexts
  <2> QED
    BY <2>2, <2>3 DEF S
<1>5. /\ \A f \in backPins : f.stamp = s /\ \E e \in Pins(B) \ Pins(D) : f.id = e.id
      /\ \A e \in Pins(B) \ Pins(D) : \E f \in backPins : f.id = e.id
      /\ \A f, g \in backPins : f.id = g.id => f = g
  <2> DEFINE S == Pins(B) \ Pins(D)
  <2>1. S \subseteq Pin /\ \A x, y \in S : x.id = y.id => x = y
    BY <1>2, <1>3
  <2> HIDE DEF S
  <2>2. backPins = Copies(S, s)
    BY DEF S
  <2>3. /\ \A f \in Copies(S, s) : f.stamp = s /\ \E e \in S : f.id = e.id
        /\ \A e \in S : \E f \in Copies(S, s) : f.id = e.id
        /\ \A f, g \in Copies(S, s) : f.id = g.id => f = g
    BY <2>1, CopiesMatch
  <2> HIDE DEF backPins
  <2> QED
    BY <2>2, <2>3 DEF S
<1> HIDE DEF U, backTexts, backPins
<1>6. Visible(U) \subseteq (Visible(D) \cap Visible(B)) \cup backTexts
  BY <1>1 DEF Visible
<1>7. TextsNeat(U)
  <2> SUFFICES ASSUME NEW v \in Visible(U), NEW w \in Visible(U), v.id = w.id
               PROVE  v = w
    BY DEF TextsNeat, Of
  <2> QED
    BY <1>3, <1>4, <1>6
<1>8. Pins(U) = (Pins(D) \cap Pins(B)) \cup backPins
  BY <1>1, <1>5 DEF Pins, IsDoc
<1>9. ASSUME NEW i \in Id
      PROVE  /\ \A p, q \in Of(Pins(U), i) : p = q
             /\ Of(Pins(U), i) # {} <=> Of(Pins(B), i) # {}
  <2>1. \A p, q \in Of(Pins(U), i) : p = q
    BY <1>3, <1>5, <1>8 DEF Of
  <2>2. Of(Pins(U), i) # {} => Of(Pins(B), i) # {}
    BY <1>5, <1>8 DEF Of
  <2>3. Of(Pins(B), i) # {} => Of(Pins(U), i) # {}
    BY <1>5, <1>8 DEF Of
  <2> QED
    BY <2>1, <2>2, <2>3
<1>10. ListNeat(U)
  BY <1>1, <1>9 DEF Neat, ListNeat, Shown
<1> QED
  BY <1>7, <1>10 DEF Neat, U

\* Mentions that are removed leave flags and list as they were.
LEMMA UnmentionedIsNeat ==
  ASSUME NEW D, IsDoc(D), Neat(D), NEW S, NEW T, NEW s \in Stamp
  PROVE  Neat(Unmentioned(D, S, T, s))
<1> DEFINE U == Unmentioned(D, S, T, s)
<1>1. /\ Objects(U) = Objects(D)
      /\ U.erased = D.erased \cup Mentioning(D, S, T)
      /\ U.bodies = D.bodies \cup Stripped(Mentioning(D, S, T), T, s)
      /\ U.pins = D.pins /\ U.unpinned = D.unpinned
  BY UnmentionedIsDoc
<1> HIDE DEF U
<1>2. TextsNeat(U)
  BY <1>1, RewrittenIsNeat DEF Neat
<1>3. ListNeat(U)
  BY <1>1 DEF Neat, ListNeat, Shown, Pins
<1> QED
  BY <1>2, <1>3 DEF Neat, U

\* So do relations that are taken away.
LEMMA CleanedIsNeat ==
  ASSUME Shape, NEW d \in Device, Neat(doc[d]), NEW T,
         NEW S \in SUBSET (Related(d, T) \ Throwing(d, T))
  PROVE  Neat(Cleaned(d, T, S))
<1> DEFINE C == Cleaned(d, T, S)
           listed == {i \in Id \ T : All(d)[i] # None}
<1>1. /\ \A i \in Id : Objects(C)[i] = IF i \in S
                         THEN [Get(d, i) EXCEPT !.tags = All(d)[i].tags \ T] ELSE Get(d, i)
      /\ C.erased = doc[d].erased \cup Mentioning(doc[d], listed, T)
      /\ C.bodies = doc[d].bodies \cup Stripped(Mentioning(doc[d], listed, T), T, Now(d))
      /\ C.pins = doc[d].pins /\ C.unpinned = doc[d].unpinned
  <2>1. \A i \in Id : Objects(C)[i] = IF i \in S
                        THEN [Get(d, i) EXCEPT !.tags = All(d)[i].tags \ T] ELSE Get(d, i)
    BY CleanedIsDoc
  <2>2. C.erased = doc[d].erased \cup Mentioning(doc[d], listed, T)
    BY CleanedIsDoc
  <2>3. C.bodies = doc[d].bodies \cup Stripped(Mentioning(doc[d], listed, T), T, Now(d))
    BY CleanedIsDoc
  <2>4. C.pins = doc[d].pins /\ C.unpinned = doc[d].unpinned
    BY CleanedIsDoc
  <2> QED
    BY <2>1, <2>2, <2>3, <2>4
<1>2. IsDoc(doc[d])
  BY DEF Shape
<1> HIDE DEF C, listed
<1>3. TextsNeat(C)
  BY <1>1, <1>2, RewrittenIsNeat DEF Neat
<1>4. ASSUME NEW i \in Id
      PROVE  Shown(C, i) <=> Shown(doc[d], i)
  <2>1. Objects(doc[d])[i] = Get(d, i)
    BY DEF Objects, Get
  <2>2. CASE i \in S
    <3>1. Get(d, i) \in Object /\ All(d)[i] \in Object
      BY <2>2, AllIsCache DEF Related, Throwing, Exists, Value
    <3>2. [Get(d, i) EXCEPT !.tags = All(d)[i].tags \ T] \in Object
      BY <3>1 DEF Object
    <3>3. [Get(d, i) EXCEPT !.tags = All(d)[i].tags \ T].pinned = Get(d, i).pinned
      BY <3>1 DEF Object
    <3> QED
      BY <1>1, <2>1, <2>2, <3>1, <3>2, <3>3, NoneAssumption DEF Shown
  <2>3. CASE i \notin S
    BY <1>1, <2>1, <2>3 DEF Shown
  <2> QED
    BY <2>2, <2>3
<1>5. ListNeat(C)
  BY <1>1, <1>4 DEF Neat, ListNeat, Pins
<1> QED
  BY <1>3, <1>5 DEF Neat, C

-----------------------------------------------------------------------------
(* What one device does keeps flags, list and texts in step.                *)

\* The stamps in the list of pinned objects are of the past.
Clock == \A d \in Device : \A p \in doc[d].pins : p.stamp[1] <= lamport[d]

LEMMA NowIsNew ==
  ASSUME Shape, Clock, NEW d \in Device
  PROVE  \A p \in doc[d].pins : p.stamp # Now(d)
<1>1. lamport[d] \in Nat /\ \A p \in doc[d].pins : p.stamp[1] <= lamport[d]
  BY DEF Shape, Clock
<1>2. Now(d)[1] = lamport[d] + 1
  BY DEF Now
<1> QED
  BY <1>1, <1>2

\* An operation that leaves D adds pins of this time only, and leaves a neat
\* document neat.
Neatly(d, D) ==
  /\ \A p \in D.pins : p \in doc[d].pins \/ p.stamp = Now(d)
  /\ Neat(doc[d]) => Neat(D)

\* Operations that write an object which stays in the list, or out of it.
LEMMA UpdatesAreNeat ==
  ASSUME Shape, NEW d \in Device, NEW i \in Id, NEW o \in Value,
         Neat(doc[d]) => (o # None /\ o.pinned <=> Shown(doc[d], i))
  PROVE  Neatly(d, Set(doc[d], i, o, Now(d)))
<1>1. IsDoc(doc[d]) /\ Now(d) \in Stamp
  BY AllIsCache DEF Shape
<1>2. Set(doc[d], i, o, Now(d)).pins = doc[d].pins
  BY <1>1, SetIsDoc
<1> QED
  BY <1>1, <1>2, SetIsNeat DEF Neatly

\* The pins that unpin and the deletions take are all there are of those objects.
LEMMA DeletionsAreNeat ==
  ASSUME Shape, NEW d \in Device, NEW T \in SUBSET Id, NEW R \in FirstPins(doc[d], T),
         NEW D, IsDoc(D), D.pins = doc[d].pins, D.unpinned = doc[d].unpinned,
         Neat(doc[d]) => Neat(D)
  PROVE  Neatly(d, Deleted(D, T, R, Now(d)))
<1>1. IsDoc(doc[d]) /\ Now(d) \in Stamp
  BY AllIsCache DEF Shape
<1>2. Deleted(D, T, R, Now(d)).pins = D.pins
  BY DEF Deleted, IsDoc, Document
<1>3. Neat(doc[d]) => R = {p \in Pins(D) : p.id \in T}
  BY <1>1, FirstPinsAreAll DEF Pins
<1> QED
  BY <1>1, <1>2, <1>3, DeletedIsNeat DEF Neatly

LEMMA WritesAreNeat ==
  ASSUME Shape, Clock, NEW d \in Device,
         \/ reorderPinned(d)
         \/ \E i \in Id : \/ pin(d, i) \/ unpin(d, i) \/ setStatus(d, i) \/ markProcessed(d, i)
                          \/ delete(d, i) \/ deleteObject(d, i)
                          \/ \E archived \in BOOLEAN : archive(d, i, archived)
                          \/ \E type \in Type : create(d, i, type) \/ changeType(d, i, type)
                          \/ \E mentions \in SUBSET (Id \ {i}) : setContent(d, i, mentions)
                          \/ \E t \in Id : \/ addTag(d, i, t) \/ removeTag(d, i, t)
                                           \/ duplicate(d, i, t)
         \/ \E T \in SUBSET Id : deleteMany(d, T) \/ deleteManyThrows(d, T)
  PROVE  \E D, c : Neatly(d, D) /\ write(d, D, c)
<1>1. IsDoc(doc[d]) /\ Now(d) \in Stamp
  BY AllIsCache DEF Shape
<1>2. \A p \in doc[d].pins : p.stamp # Now(d)
  BY NowIsNew
<1>3. \A i \in Id : Exists(d, i) => Get(d, i) \in Object
  BY AllIsCache DEF Exists, Value
<1>4. \A i \in Id : Shown(doc[d], i) <=> Exists(d, i) /\ Get(d, i).pinned
  BY DEF Shown, Objects, Exists, Get
<1>5. \A o \in Object : o # None /\ o \in Value
  BY NoneAssumption DEF Value
<1>6. ASSUME NEW i \in Id, NEW o \in Object, NEW c,
             o.pinned <=> Exists(d, i) /\ Get(d, i).pinned,
             write(d, Set(doc[d], i, o, Now(d)), c)
      PROVE  \E D, k : Neatly(d, D) /\ write(d, D, k)
  BY <1>4, <1>5, <1>6, UpdatesAreNeat
<1>7. CASE reorderPinned(d)
  <2> DEFINE shown == {p \in Pins(doc[d]) : Exists(d, p.id) /\ Get(d, p.id).pinned}
             D == [doc[d] EXCEPT !.unpinned = @ \cup Pins(doc[d]),
                                 !.pins = @ \cup Copies(shown, Now(d))]
  <2>1. write(d, D, cache[d])
    BY <1>7 DEF reorderPinned
  <2>2. Pins(doc[d]) \subseteq Pin /\ \A p \in Pins(doc[d]) : p.id \in Id
    BY <1>1 DEF Pins, IsDoc, Document, Pin
  <2>3. shown = {p \in Pins(doc[d]) : Shown(doc[d], p.id)} /\ shown \subseteq Pin
    BY <1>4, <2>2
  <2> HIDE DEF shown
  <2>4. \A p \in Copies(shown, Now(d)) : p.stamp = Now(d)
    BY <2>3, CopiesMatch
  <2>5. D.pins = doc[d].pins \cup Copies(shown, Now(d))
    BY <1>1 DEF IsDoc, Document
  <2>6. Neat(doc[d]) => Neat(D)
    BY <1>1, <1>2, <2>3, ReorderedIsNeat
  <2> HIDE DEF D
  <2> QED
    BY <2>1, <2>4, <2>5, <2>6 DEF Neatly
<1>8. ASSUME NEW i \in Id, pin(d, i) PROVE \E D, c : Neatly(d, D) /\ write(d, D, c)
  <2> DEFINE o == [Get(d, i) EXCEPT !.pinned = TRUE]
             p == [stamp |-> Now(d), n |-> 1, id |-> i]
             E == Set(doc[d], i, o, Now(d))
             D == [E EXCEPT !.pins = @ \cup {p}]
  <2>1. write(d, D, None) /\ Exists(d, i) /\ ~ Get(d, i).pinned
    BY <1>8 DEF pin
  <2>2. o \in Object /\ o.pinned
    BY <1>3, <2>1 DEF Object
  <2> HIDE DEF o
  <2>3. E \in Document /\ E.pins = doc[d].pins
    BY <1>1, <1>5, <2>2, SetIsDoc DEF IsDoc
  <2>4. D.pins = doc[d].pins \cup {p}
    <3> HIDE DEF E, p
    <3> QED
      BY <2>3 DEF Document
  <2>5. Neat(doc[d]) => Neat(D)
    BY <1>1, <1>2, <1>4, <1>5, <2>1, <2>2, PinIsNeat
  <2>6. p.stamp = Now(d)
    OBVIOUS
  <2> HIDE DEF D, p
  <2> QED
    BY <2>1, <2>4, <2>5, <2>6 DEF Neatly
<1>9. ASSUME NEW i \in Id, unpin(d, i) PROVE \E D, c : Neatly(d, D) /\ write(d, D, c)
  <2> DEFINE o == [Get(d, i) EXCEPT !.pinned = FALSE]
             E == Set(doc[d], i, o, Now(d))
  <2>1. o \in Object /\ ~ o.pinned
    BY <1>3, <1>9 DEF unpin, Object
  <2>2. PICK R \in FirstPins(doc[d], {i}) : write(d, [E EXCEPT !.unpinned = @ \cup R], None)
    BY <1>9 DEF unpin
  <2> DEFINE D == [E EXCEPT !.unpinned = @ \cup R]
  <2> HIDE DEF o
  <2>3. E \in Document /\ E.pins = doc[d].pins
    BY <1>1, <1>5, <2>1, SetIsDoc DEF IsDoc
  <2>4. D.pins = doc[d].pins
    <3> HIDE DEF E
    <3> QED
      BY <2>3 DEF Document
  <2>5. Neat(doc[d]) => Neat(D)
    <3>1. Neat(doc[d]) => R = {p \in Pins(doc[d]) : p.id \in {i}}
      BY <1>1, FirstPinsAreAll
    <3> QED
      BY <1>1, <1>5, <2>1, <3>1, UnpinIsNeat
  <2> HIDE DEF D
  <2> QED
    BY <2>2, <2>4, <2>5 DEF Neatly, D
<1>10. ASSUME NEW i \in Id,
              \/ setStatus(d, i) \/ markProcessed(d, i)
              \/ \E archived \in BOOLEAN : archive(d, i, archived)
              \/ \E type \in Type : create(d, i, type) \/ changeType(d, i, type)
              \/ \E t \in Id : addTag(d, i, t) \/ removeTag(d, i, t)
       PROVE  \E D, c : Neatly(d, D) /\ write(d, D, c)
  <2>1. ASSUME NEW type \in Type, create(d, i, type)
        PROVE  \E o \in Object : /\ o.pinned <=> Exists(d, i) /\ Get(d, i).pinned
                                 /\ write(d, Set(doc[d], i, o, Now(d)), None)
    BY <2>1 DEF create, Unused, Object, Exists, Get
  <2>2. ASSUME NEW type \in Type, changeType(d, i, type)
        PROVE  \E o \in Object : /\ o.pinned <=> Exists(d, i) /\ Get(d, i).pinned
                                 /\ write(d, Set(doc[d], i, o, Now(d)), cache[d])
    BY <1>3, <2>2 DEF changeType, Object
  <2>3. ASSUME NEW archived \in BOOLEAN, archive(d, i, archived)
        PROVE  \E o \in Object : /\ o.pinned <=> Exists(d, i) /\ Get(d, i).pinned
                                 /\ write(d, Set(doc[d], i, o, Now(d)), None)
    BY <1>3, <2>3 DEF archive, Object
  <2>4. ASSUME \/ setStatus(d, i) \/ markProcessed(d, i)
               \/ \E t \in Id : addTag(d, i, t) \/ removeTag(d, i, t)
        PROVE  \E o \in Object : /\ o.pinned <=> Exists(d, i) /\ Get(d, i).pinned
                                 /\ write(d, Set(doc[d], i, o, Now(d)), None)
    BY <1>3, <2>4 DEF setStatus, markProcessed, addTag, removeTag, update, Object
  <2> QED
    BY <1>6, <1>10, <2>1, <2>2, <2>3, <2>4
<1>11. ASSUME NEW i \in Id, delete(d, i) \/ deleteObject(d, i)
       PROVE  \E D, c : Neatly(d, D) /\ write(d, D, c)
  <2> DEFINE U == Unmentioned(doc[d], Listed(d) \ {i}, {i}, Now(d))
  <2>1. PICK R \in FirstPins(doc[d], {i}) :
          \E D \in {doc[d], U} : write(d, Deleted(D, {i}, R, Now(d)), None)
    BY <1>11 DEF delete, deleteObject
  <2>2. \A D \in {doc[d], U} : /\ IsDoc(D) /\ D.pins = doc[d].pins
                               /\ D.unpinned = doc[d].unpinned
                               /\ Neat(doc[d]) => Neat(D)
    BY <1>1, UnmentionedIsDoc, UnmentionedIsNeat
  <2> HIDE DEF U
  <2> QED
    BY <2>1, <2>2, DeletionsAreNeat
<1>12. ASSUME NEW i \in Id, NEW mentions \in SUBSET Id, setContent(d, i, mentions)
       PROVE  \E D, c : Neatly(d, D) /\ write(d, D, c)
  <2> DEFINE D == WithContent(doc[d], i, NewBody(mentions), Now(d))
  <2>1. NewBody(mentions) \in Body
    BY DEF NewBody, Body, Stamp
  <2>2. D.pins = doc[d].pins
    BY <1>1 DEF WithContent, Rewritten, IsDoc, Document
  <2>3. Neat(doc[d]) => Neat(D)
    BY <1>1, <2>1, WithContentIsNeat
  <2>4. write(d, D, None) \/ write(d, D, cache[d])
    BY <1>12 DEF setContent
  <2> HIDE DEF D
  <2> QED
    BY <2>2, <2>3, <2>4 DEF Neatly
<1>13. ASSUME NEW i \in Id, NEW j \in Id, duplicate(d, i, j)
       PROVE  \E D, c : Neatly(d, D) /\ write(d, D, c)
  <2> DEFINE copy == [Get(d, i) EXCEPT !.status = @ \/ Get(d, i).typeId = "task",
                                       !.pinned = FALSE, !.archived = FALSE]
             D == Set(doc[d], j, copy, Now(d))
  <2>1. copy \in Object /\ ~ copy.pinned
    BY <1>3, <1>13 DEF duplicate, Object
  <2>2. ~ Exists(d, j)
    BY <1>13 DEF duplicate, Unused
  <2> HIDE DEF copy
  <2>3. IsDoc(D) /\ D.pins = doc[d].pins
    BY <1>1, <1>5, <2>1, SetIsDoc
  <2>4. Neatly(d, D)
    BY <1>4, <1>5, <2>1, <2>2, UpdatesAreNeat
  <2> DEFINE text == Of(Visible(D), i)
             mentions == UNION {v.mentions : v \in text}
             json == Cardinality(text) = 1 /\ \A v \in text : v.json
             body == [NewBody(mentions) EXCEPT !.json = json]
             W == WithContent(D, j, body, Now(d))
  <2>5. write(d, D, None) \/ write(d, W, None)
    BY <1>13 DEF duplicate, copy
  <2>6. body \in Body
    <3>1. mentions \in SUBSET Id
      BY <2>3 DEF IsDoc, Document, Body, Of, Visible
    <3>2. json \in BOOLEAN
      OBVIOUS
    <3> HIDE DEF mentions, json
    <3> QED
      BY <3>1, <3>2 DEF NewBody, Body, Stamp
  <2> HIDE DEF D, body
  <2>7. W.pins = D.pins
    BY <2>3 DEF WithContent, Rewritten, IsDoc, Document
  <2>8. Neat(D) => Neat(W)
    BY <1>1, <2>3, <2>6, WithContentIsNeat
  <2> HIDE DEF W
  <2> QED
    BY <2>3, <2>4, <2>5, <2>7, <2>8 DEF Neatly
<1>14. ASSUME NEW T \in SUBSET Id, deleteMany(d, T)
       PROVE  \E D, c : Neatly(d, D) /\ write(d, D, c)
  <2> DEFINE C == Cleaned(d, T, Related(d, T))
  <2>1. /\ IsDoc(C) /\ C.pins = doc[d].pins /\ C.unpinned = doc[d].unpinned
        /\ Neat(doc[d]) => Neat(C)
    BY <1>14, CleanedIsDoc, CleanedIsNeat DEF deleteMany
  <2>2. PICK R \in FirstPins(doc[d], T) :
          write(d, Deleted(C, T, R, Now(d)), CacheAfter(d, Deleted(C, T, R, Now(d))))
    BY <1>14 DEF deleteMany
  <2> HIDE DEF C
  <2> QED
    BY <2>1, <2>2, DeletionsAreNeat
<1>15. ASSUME NEW T \in SUBSET Id, deleteManyThrows(d, T)
       PROVE  \E D, c : Neatly(d, D) /\ write(d, D, c)
  BY <1>15, CleanedIsDoc, CleanedIsNeat DEF deleteManyThrows, Neatly
<1> QED
  BY <1>7, <1>8, <1>9, <1>10, <1>11, <1>12, <1>13, <1>14, <1>15

\* Every step keeps the clock; what it leaves neat was neat, but for an import.
KeepsNeat(d) ==
  Neat(doc[d]) /\ (saved[d] # None => Neat(saved[d])) =>
    Neat(doc'[d]) \/ \E x \in Device : onSyncReceived(d, x) \/ onRemoteChange(d, x)

LEMMA StepsAreNeat ==
  ASSUME Shape, Clock, [Next]_vars
  PROVE  Clock' /\ \A d \in Device : KeepsNeat(d)
<1> DEFINE Goal == Clock' /\ \A d \in Device : KeepsNeat(d)
<1>1. CASE UNCHANGED vars
  BY <1>1 DEF vars, Clock, KeepsNeat
<1>2. /\ DOMAIN doc = Device /\ lamport \in [Device -> Nat]
      /\ \A d \in Device : /\ IsDoc(doc[d]) /\ (saved[d] # None => IsDoc(saved[d]))
                           /\ Now(d) \in Stamp /\ Now(d)[1] = lamport[d] + 1
                           /\ \A p \in doc[d].pins : p.stamp[1] \in Nat
  <2>1. \A d \in Device : \A p \in doc[d].pins : p.stamp[1] \in Nat
    BY DEF Shape, IsDoc, Document, Pin, Stamp
  <2> QED
    BY <2>1, AllIsCache DEF Shape, Now
\* a step of d that leaves D, with no new pins but of this time
<1>3. ASSUME NEW d \in Device, NEW D,
             doc' = [doc EXCEPT ![d] = D], lamport' = [lamport EXCEPT ![d] = @ + 1],
             \A p \in D.pins : p \in doc[d].pins \/ p.stamp = Now(d)
      PROVE  Clock' /\ doc'[d] = D /\ \A x \in Device : x # d => doc'[x] = doc[x]
  <2>1. /\ doc'[d] = D /\ \A x \in Device : x # d => doc'[x] = doc[x]
        /\ lamport'[d] = lamport[d] + 1 /\ \A x \in Device : x # d => lamport'[x] = lamport[x]
    BY <1>2, <1>3
  <2>2. ASSUME NEW p \in D.pins PROVE p.stamp[1] <= lamport[d] + 1
    BY <1>2, <1>3, <2>2 DEF Clock
  <2>3. \A x \in Device : \A p \in doc'[x].pins : p.stamp[1] <= lamport'[x]
    BY <2>1, <2>2 DEF Clock
  <2> QED
    BY <2>1, <2>3 DEF Clock
<1>4. ASSUME NEW d \in Device, NEW D, NEW c, Neatly(d, D), write(d, D, c) PROVE Goal
  <2>1. Clock' /\ doc'[d] = D /\ \A x \in Device : x # d => doc'[x] = doc[x]
    BY <1>3, <1>4 DEF Neatly, write
  <2> QED
    BY <1>4, <2>1 DEF Neatly, KeepsNeat
<1>5. ASSUME NEW d \in Device, getAll(d) PROVE Goal
  BY <1>5 DEF getAll, Clock, KeepsNeat
<1>6. ASSUME NEW d \in Device, undo(d) PROVE Goal
  <2> DEFINE B == saved[d]
             S == Pins(B) \ Pins(doc[d])
             U == Undone(doc[d], B, Now(d))
  <2>1. doc' = [doc EXCEPT ![d] = U] /\ lamport' = [lamport EXCEPT ![d] = @ + 1]
    BY <1>6 DEF undo
  <2>2. IsDoc(B)
    BY <1>2, <1>6 DEF undo
  <2>3. \A p \in Copies(S, Now(d)) : p.stamp = Now(d)
    <3>1. S \subseteq Pin
      BY <2>2 DEF Pins, IsDoc, Document
    <3> HIDE DEF S
    <3> QED
      BY <3>1, CopiesMatch
  <2>4. U.pins = doc[d].pins \cup Copies(S, Now(d))
    BY DEF Undone
  <2>5. Neat(doc[d]) /\ Neat(B) => Neat(U)
    BY <1>2, <2>2, NowIsNew, UndoneIsNeat
  <2> HIDE DEF U, S
  <2>6. Clock' /\ doc'[d] = U /\ \A x \in Device : x # d => doc'[x] = doc[x]
    BY <1>3, <2>1, <2>3, <2>4
  <2> QED
    BY <1>6, <2>5, <2>6 DEF undo, KeepsNeat
<1>7. ASSUME NEW d \in Device, NEW x \in Device, onSyncReceived(d, x) \/ onRemoteChange(d, x)
      PROVE  Goal
  <2>1. /\ doc'[d] = Merged(doc[d], doc[x]) /\ lamport'[d] = Max({lamport[d], lamport[x]})
        /\ \A y \in Device : y # d => doc'[y] = doc[y] /\ lamport'[y] = lamport[y]
    BY <1>2, <1>7 DEF onSyncReceived, onRemoteChange, receive
  <2>2. doc'[d].pins = doc[d].pins \cup doc[x].pins
    BY <2>1 DEF Merged
  <2>3. /\ lamport'[d] \in Nat /\ lamport[d] <= lamport'[d] /\ lamport[x] <= lamport'[d]
    <3>1. lamport[d] \in Nat /\ lamport[x] \in Nat
      BY <1>2
    <3>2. IsFiniteSet({lamport[d]} \cup {lamport[x]})
      BY FS_Singleton, FS_AddElement
    <3> QED
      BY <2>1, <3>1, <3>2, MaxIsLargest
  <2>4. ASSUME NEW p \in doc'[d].pins PROVE p.stamp[1] <= lamport'[d]
    <3>1. CASE p \in doc[d].pins
      BY <1>2, <2>3, <3>1 DEF Clock
    <3>2. CASE p \in doc[x].pins
      BY <1>2, <2>3, <3>2 DEF Clock
    <3> QED
      BY <2>2, <3>1, <3>2
  <2>5. \A y \in Device : \A p \in doc'[y].pins : p.stamp[1] <= lamport'[y]
    BY <2>1, <2>4 DEF Clock
  <2> QED
    BY <1>7, <2>1, <2>5 DEF Clock, KeepsNeat
<1>8. ASSUME NEW d \in Device, connect(d) PROVE Goal
  BY <1>8 DEF connect, Clock, KeepsNeat
<1>9. CASE Next
  <2>1. PICK d \in Device :
          \/ getAll(d) \/ undo(d) \/ reorderPinned(d) \/ connect(d)
          \/ \E x \in Device \ {d} : onSyncReceived(d, x) \/ onRemoteChange(d, x)
          \/ \E i \in Id :
               \/ pin(d, i) \/ unpin(d, i) \/ setStatus(d, i) \/ markProcessed(d, i)
               \/ delete(d, i) \/ deleteObject(d, i)
               \/ \E archived \in BOOLEAN : archive(d, i, archived)
               \/ \E type \in Type : create(d, i, type) \/ changeType(d, i, type)
               \/ \E mentions \in SUBSET (Id \ {i}) : setContent(d, i, mentions)
               \/ \E t \in Id : addTag(d, i, t) \/ removeTag(d, i, t) \/ duplicate(d, i, t)
          \/ \E T \in SUBSET {i \in Id : All(d)[i] # None} \ {{}} :
               deleteMany(d, T) \/ deleteManyThrows(d, T)
    BY <1>9 DEF Next
  <2>2. CASE \/ getAll(d) \/ undo(d) \/ connect(d)
             \/ \E x \in Device : onSyncReceived(d, x) \/ onRemoteChange(d, x)
    BY <2>2, <1>5, <1>6, <1>7, <1>8
  <2>3. CASE \E D, c : Neatly(d, D) /\ write(d, D, c)
    BY <2>3, <1>4
  <2> QED
    BY <2>1, <2>2, <2>3, WritesAreNeat
<1> QED
  BY <1>1, <1>9

\* Only the import of what another device did (objects.ts, the pinned list and the
\* texts of the Loro document) takes flags, list and texts out of step, for any
\* devices, objects and numbers of operations.
THEOREM OnlyMergesSeparate == Spec => OnlyMergesUntidy
<1>1. Init => Clock
  BY DEF Init, Clock
<1>2. Shape /\ Clock /\ [Next]_vars => Clock'
  BY StepsAreNeat
<1>3. Shape /\ Shape' /\ Clock /\ [Next]_vars =>
        [\A d \in Device :
           Tidy(doc[d]) /\ (saved[d] # None => Tidy(saved[d])) =>
             \/ Tidy(doc'[d])
             \/ \E x \in Device : onSyncReceived(d, x) \/ onRemoteChange(d, x)]_vars
  <2> SUFFICES ASSUME Shape, Shape', Clock, [Next]_vars, NEW d \in Device,
                      Tidy(doc[d]), saved[d] # None => Tidy(saved[d])
               PROVE  \/ Tidy(doc'[d])
                      \/ \E x \in Device : onSyncReceived(d, x) \/ onRemoteChange(d, x)
    OBVIOUS
  <2>1. IsDoc(doc[d]) /\ IsDoc(doc'[d]) /\ (saved[d] # None => IsDoc(saved[d]))
    BY DEF Shape
  <2>2. Neat(doc[d]) /\ (saved[d] # None => Neat(saved[d]))
    BY <2>1, TidyIsNeat
  <2>3. Neat(doc'[d]) \/ \E x \in Device : onSyncReceived(d, x) \/ onRemoteChange(d, x)
    BY <2>2, StepsAreNeat DEF KeepsNeat
  <2> QED
    BY <2>1, <2>3, TidyIsNeat
<1> QED
  BY <1>1, <1>2, <1>3, TypeCorrect, PTL DEF Spec, OnlyMergesUntidy
=============================================================================
