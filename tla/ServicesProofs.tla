---------------------------- MODULE ServicesProofs ----------------------------
(***************************************************************************)
(* What is proved of the services: of the storage engine that its cache    *)
(* never answers what the database does not hold; of the configuration     *)
(* that file and memory agree and saves do not undo each other; of the MCP *)
(* hub that calls keep their connections and configurations take effect;   *)
(* of the web tools that a question is put to every provider that is on;   *)
(* of the framings that it does not matter where the network cuts a body.  *)
(* Each part has its inductive invariant, one lemma per group of actions,  *)
(* and its theorem for the component's own specification and, at the end,  *)
(* for the services together.                                              *)
(***************************************************************************)
EXTENDS Services, FiniteSetTheorems, SequenceTheorems, WellFoundedInduction, TLAPS

\* The storage engine.

\* The rows of a list of n items, and what a list's length is.
LEMMA RowsLength ==
  ASSUME NEW rows \in Rows
  PROVE  \E n \in 0 .. MaxLength : /\ rows \in [0 .. n - 1 -> Value \cup {Released}]
                                   /\ Length(rows) = n
<1>1. PICK n \in 0 .. MaxLength : rows \in [0 .. n - 1 -> Value \cup {Released}]
  BY DEF Rows
<1>2. n \in Nat /\ n - 1 \in Int
  BY <1>1, StorageAssumption
<1>3. Cardinality(0 .. n - 1) = IF 0 > n - 1 THEN 0 ELSE (n - 1) - 0 + 1
  BY <1>2, FS_Interval
<1>4. Length(rows) = n
  BY <1>1, <1>2, <1>3 DEF Length
<1> QED
  BY <1>1, <1>4

\* No list has an item past the bound.
LEMMA RowsDomain ==
  ASSUME NEW rows \in Rows
  PROVE  DOMAIN rows \subseteq Position
BY StorageAssumption DEF Rows, Position

\* A function on the first positions is a list that is there.
LEMMA RowsBuilt ==
  ASSUME NEW n \in 0 .. MaxLength, NEW rows \in [0 .. n - 1 -> Value \cup {Released}]
  PROVE  rows \in Rows /\ rows # Nothing
BY ListAssumption DEF Rows

\* The kinds of keys.
LEMMA KeyKinds ==
  ASSUME NEW k \in CacheKey
  PROVE  \/ k.kind = "object" /\ k.name \in Object /\ k = ObjectKey(k.name)
         \/ k.kind = "item" /\ k.name \in List /\ k.at \in Position /\ k = ItemKey(k.name, k.at)
         \/ k.kind = "page" /\ k.name \in List /\ k = PageKey(k.name, k.at)
            /\ \E i \in Position : k.at = PageOf(i)
BY DEF CacheKey, ObjectKey, ItemKey, PageKey

\* What the database holds under a key depends on the object or the list the key names.
LEMMA ViewLocal ==
  ASSUME NEW before, NEW after, NEW k \in CacheKey,
         k.kind = "object" => after.objects[k.name] = before.objects[k.name],
         k.kind # "object" => after.lists[k.name] = before.lists[k.name]
  PROVE  View(after, k) = View(before, k)
BY DEF View

-----------------------------------------------------------------------------

\* An entry of the cache holds what is stored under its key; and what the
\* running transaction has not written itself is still there for it.
EntryTrue(e) ==
  /\ e.key \in CacheKey
  /\ e.value = View(stored, e.key)
  /\ e.value # Nothing
  /\ e.key \notin dirty => View(working, e.key) # Nothing

\* A key the transaction has not written shows what is stored, or nothing: the
\* deletion of a namespace marks no key.
KeyTrue(k) == k \notin dirty => View(working, k) \in {Nothing, View(stored, k)}

\* The inductive invariant of the storage engine.
StorageInv ==
  /\ stored \in Database /\ working \in Database
  /\ dirty \subseteq CacheKey
  /\ ~ running => working = stored /\ dirty = {}
  /\ \A e \in cache : EntryTrue(e)
  /\ \A k \in CacheKey : KeyTrue(k)

\* What is read into the cache is true of what is stored.
LEMMA CachedTrue ==
  ASSUME StorageInv, NEW k \in CacheKey, CacheValue(k), NEW e \in cache'
  PROVE  EntryTrue(e)
<1>1. CASE e \in cache
  BY <1>1 DEF StorageInv
<1>2. CASE e \notin cache
  <2>1. /\ e = [key |-> k, value |-> View(working, k)]
        /\ k \notin dirty /\ View(working, k) # Nothing
    BY <1>2 DEF CacheValue, MayBeCached
  <2>2. View(working, k) = View(stored, k)
    BY <2>1 DEF StorageInv, KeyTrue
  <2> QED
    BY <2>1, <2>2 DEF EntryTrue
<1> QED
  BY <1>1, <1>2

\* A write that marks every key whose view it changes keeps the cache true.
LEMMA WriteTrue ==
  ASSUME StorageInv, NEW database \in Database, NEW keys \in SUBSET CacheKey,
         Write(database, keys),
         \A e \in cache' : EntryTrue(e),
         \A k \in CacheKey \ keys : View(database, k) = View(working, k)
  PROVE  StorageInv'
<1>1. /\ stored' = stored /\ working' = database /\ dirty' = dirty \cup keys
      /\ running' = running /\ running
  BY DEF Write
<1>2. \A k \in CacheKey : View(working', k) = View(database, k) /\ View(stored', k) = View(stored, k)
  BY <1>1
<1>3. ASSUME NEW e \in cache' PROVE EntryTrue(e)'
  <2>1. EntryTrue(e)
    OBVIOUS
  <2> QED
    BY <1>1, <1>2, <2>1 DEF EntryTrue
<1>4. ASSUME NEW k \in CacheKey PROVE KeyTrue(k)'
  <2>1. KeyTrue(k)
    BY DEF StorageInv
  <2> QED
    BY <1>1, <1>2, <2>1 DEF KeyTrue
<1> QED
  BY <1>1, <1>3, <1>4 DEF StorageInv

\* Two lists of rows differ at no position but the given ones.
SameElsewhere(rows, old, positions) ==
  \A i \in Position \ positions :
     /\ i \in DOMAIN rows <=> i \in DOMAIN old
     /\ i \in DOMAIN rows => rows[i] = old[i]

\* Lists that agree outside some positions look alike under every key but those
\* of the positions and of their pages.
LEMMA RowsAgree ==
  ASSUME StorageInv, NEW l \in List, working.lists[l] # Nothing,
         NEW rows \in Rows, NEW positions \in SUBSET Position,
         SameElsewhere(rows, working.lists[l], positions)
  PROVE  LET database == [working EXCEPT !.lists[l] = rows]
         IN  /\ database \in Database
             /\ ItemsDirty(l, positions) \in SUBSET CacheKey
             /\ \A k \in CacheKey \ ItemsDirty(l, positions) : View(database, k) = View(working, k)
<1> DEFINE database == [working EXCEPT !.lists[l] = rows]
           old == working.lists[l]
<1>1. working \in Database /\ old \in Rows
  BY DEF StorageInv, Database
<1>2. /\ database \in Database
      /\ database.objects = working.objects
      /\ database.lists[l] = rows
      /\ \A m \in List \ {l} : database.lists[m] = working.lists[m]
  BY <1>1 DEF Database
<1>3. rows # Nothing
  BY ListAssumption
<1>4. DOMAIN rows \subseteq Position /\ DOMAIN old \subseteq Position
  BY <1>1, RowsDomain
<1>5. ItemsDirty(l, positions) \in SUBSET CacheKey
  BY DEF ItemsDirty, CacheKey
<1>6. ASSUME NEW k \in CacheKey \ ItemsDirty(l, positions)
      PROVE  View(database, k) = View(working, k)
  <2>1. CASE k.kind = "object" \/ k.name # l
    BY <2>1, <1>2, KeyKinds, ViewLocal
  <2>2. CASE k.kind = "item" /\ k.name = l /\ k.at \in Position /\ k = ItemKey(l, k.at)
    <3>1. k.at \notin positions
      BY <2>2 DEF ItemsDirty
    <3> QED
      BY <2>2, <3>1, <1>2, <1>3 DEF View, SameElsewhere
  <2>3. CASE k.kind = "page" /\ k.name = l /\ k = PageKey(l, k.at)
    <3>1. \A i \in positions : PageOf(i) # k.at
      BY <2>3 DEF ItemsDirty
    <3>2. PageRows(rows, k.at) = PageRows(old, k.at)
      BY <3>1, <1>4 DEF PageRows, SameElsewhere
    <3>3. \A i \in PageRows(rows, k.at) : rows[i] = old[i]
      BY <3>1, <1>4 DEF PageRows, SameElsewhere
    <3>4. [i \in PageRows(rows, k.at) |-> rows[i]] = [i \in PageRows(old, k.at) |-> old[i]]
      BY <3>2, <3>3
    <3> QED
      BY <2>3, <3>2, <3>4, <1>2, <1>3 DEF View
  <2> QED
    BY <2>1, <2>2, <2>3, KeyKinds
<1> QED
  BY <1>2, <1>5, <1>6

\* A change of a list's rows keeps the invariant when it marks the positions it changes.
LEMMA RowsWritten ==
  ASSUME StorageInv, NEW l \in List, working.lists[l] # Nothing,
         NEW rows \in Rows, NEW positions \in SUBSET Position,
         SameElsewhere(rows, working.lists[l], positions),
         Write([working EXCEPT !.lists[l] = rows], ItemsDirty(l, positions)),
         cache' = cache
  PROVE  StorageInv'
<1> DEFINE database == [working EXCEPT !.lists[l] = rows]
<1>1. /\ database \in Database
      /\ ItemsDirty(l, positions) \in SUBSET CacheKey
      /\ \A k \in CacheKey \ ItemsDirty(l, positions) : View(database, k) = View(working, k)
  BY RowsAgree
<1>2. \A e \in cache' : EntryTrue(e)
  BY DEF StorageInv
<1> HIDE DEF database
<1>3. Write(database, ItemsDirty(l, positions))
  BY DEF database
<1> QED
  BY <1>1, <1>2, <1>3, WriteTrue

\* An object's write marks its key.
LEMMA ObjectWritten ==
  ASSUME StorageInv, NEW o \in Object, NEW v \in Value,
         Write([working EXCEPT !.objects[o] = v], ObjectsDirty(o)),
         \A e \in cache' : EntryTrue(e)
  PROVE  StorageInv'
<1> DEFINE database == [working EXCEPT !.objects[o] = v]
<1>1. /\ database \in Database
      /\ database.lists = working.lists
      /\ \A p \in Object \ {o} : database.objects[p] = working.objects[p]
  BY DEF StorageInv, Database
<1>2. ObjectsDirty(o) \in SUBSET CacheKey
  BY DEF ObjectsDirty, CacheKey
<1>3. ASSUME NEW k \in CacheKey \ ObjectsDirty(o)
      PROVE  View(database, k) = View(working, k)
  BY <1>1, KeyKinds, ViewLocal DEF ObjectsDirty
<1> HIDE DEF database
<1>4. Write(database, ObjectsDirty(o))
  BY DEF database
<1> QED
  BY <1>1, <1>2, <1>3, <1>4, WriteTrue

\* A list that goes marks all its items, and one that comes has none.
LEMMA ListMadeOrDropped ==
  ASSUME StorageInv, NEW l \in List, CreateList(l) \/ DeleteList(l)
  PROVE  StorageInv'
<1>1. CASE CreateList(l)
  <2> DEFINE rows == [i \in {} |-> Released]
             database == [working EXCEPT !.lists[l] = rows]
  <2>1. rows \in Rows /\ rows # Nothing /\ DOMAIN rows = {}
    <3>1. 0 \in 0 .. MaxLength /\ 0 .. 0 - 1 = {}
      BY StorageAssumption
    <3>2. rows \in [0 .. 0 - 1 -> Value \cup {Released}]
      BY <3>1
    <3> QED
      BY <3>1, <3>2, RowsBuilt
  <2> HIDE DEF rows
  <2>2. /\ database \in Database
        /\ database.objects = working.objects
        /\ database.lists[l] = rows /\ working.lists[l] = Nothing
        /\ \A m \in List \ {l} : database.lists[m] = working.lists[m]
    BY <1>1, <2>1 DEF StorageInv, Database, CreateList
  <2> HIDE DEF database
  <2>3. ASSUME NEW k \in CacheKey PROVE View(database, k) = View(working, k)
    <3>1. CASE k.kind = "object" \/ k.name # l
      BY <3>1, <2>2, KeyKinds, ViewLocal
    <3>2. CASE k.kind # "object" /\ k.name = l
      BY <3>2, <2>1, <2>2 DEF View, PageRows
    <3> QED
      BY <3>1, <3>2
  <2>4. Write(database, {}) /\ cache' = cache
    BY <1>1 DEF CreateList, database, rows
  <2>5. \A e \in cache' : EntryTrue(e)
    BY <2>4 DEF StorageInv
  <2> QED
    BY <2>2, <2>3, <2>4, <2>5, WriteTrue
<1>2. CASE DeleteList(l)
  <2> DEFINE database == [working EXCEPT !.lists[l] = Nothing]
             rows == working.lists[l]
             keys == ItemsDirty(l, DOMAIN rows)
  <2>1. rows \in Rows /\ rows # Nothing
    BY <1>2 DEF StorageInv, Database, DeleteList
  <2>2. DOMAIN rows \subseteq Position
    BY <2>1, RowsDomain
  <2>3. keys \in SUBSET CacheKey
    BY <2>2 DEF ItemsDirty, CacheKey
  <2>4. /\ database \in Database
        /\ database.objects = working.objects
        /\ database.lists[l] = Nothing
        /\ \A m \in List \ {l} : database.lists[m] = working.lists[m]
    BY DEF StorageInv, Database
  <2> HIDE DEF database
  <2>5. ASSUME NEW k \in CacheKey \ keys PROVE View(database, k) = View(working, k)
    <3>1. CASE k.kind = "object" \/ k.name # l
      BY <3>1, <2>4, KeyKinds, ViewLocal
    <3>2. CASE k.kind = "item" /\ k.name = l /\ k = ItemKey(l, k.at)
      <4>1. k.at \notin DOMAIN rows
        BY <3>2 DEF ItemsDirty
      <4> QED
        BY <3>2, <4>1, <2>4 DEF View
    <3>3. CASE k.kind = "page" /\ k.name = l /\ k = PageKey(l, k.at)
      <4>1. PageRows(rows, k.at) = {}
        BY <3>3 DEF ItemsDirty, PageRows
      <4> QED
        BY <3>3, <4>1, <2>4 DEF View
    <3> QED
      BY <3>1, <3>2, <3>3, KeyKinds
  <2>6. Write(database, keys) /\ cache' = cache
    BY <1>2 DEF DeleteList, database
  <2>7. \A e \in cache' : EntryTrue(e)
    BY <2>6 DEF StorageInv
  <2> HIDE DEF keys
  <2> QED
    BY <2>3, <2>4, <2>5, <2>6, <2>7, WriteTrue
<1> QED
  BY <1>1, <1>2

\* The writes of items.
LEMMA ItemsWritten ==
  ASSUME StorageInv, NEW l \in List, NEW i \in Position, NEW v,
         \/ v \in Value /\ (AppendItem(l, v) \/ SetItem(l, i, v))
         \/ RemoveItem(l, i) \/ ReleaseItem(l, i)
  PROVE  StorageInv'
<1> DEFINE old == working.lists[l]
<1>1. old \in Rows /\ old # Nothing /\ cache' = cache
  BY DEF StorageInv, Database, AppendItem, SetItem, RemoveItem, ReleaseItem
<1>2. PICK n \in 0 .. MaxLength : old \in [0 .. n - 1 -> Value \cup {Released}] /\ Length(old) = n
  BY <1>1, RowsLength
<1>3. n \in Nat /\ MaxLength \in Nat
  BY StorageAssumption
<1>4. CASE v \in Value /\ AppendItem(l, v)
  <2> DEFINE rows == [j \in 0 .. n |-> IF j = n THEN v ELSE old[j]]
  <2>1. n < MaxLength /\ Write([working EXCEPT !.lists[l] = rows], ItemsDirty(l, {n}))
    BY <1>2, <1>4 DEF AppendItem
  <2>2. rows \in [0 .. (n + 1) - 1 -> Value \cup {Released}] /\ n + 1 \in 0 .. MaxLength
    BY <1>2, <1>3, <1>4, <2>1
  <2>3. rows \in Rows /\ {n} \in SUBSET Position
    BY <2>1, <2>2, <1>3, RowsBuilt DEF Position
  <2>4. SameElsewhere(rows, old, {n})
    BY <1>2, <1>3 DEF Position, SameElsewhere
  <2> HIDE DEF rows
  <2> QED
    BY <1>1, <2>1, <2>3, <2>4, RowsWritten
<1>5. ASSUME NEW w \in Value \cup {Released},
             i \in DOMAIN old,
             Write([working EXCEPT !.lists[l] = [old EXCEPT ![i] = w]], ItemsDirty(l, {i}))
      PROVE  StorageInv'
  <2> DEFINE rows == [old EXCEPT ![i] = w]
  <2>1. rows \in [0 .. n - 1 -> Value \cup {Released}]
    BY <1>2
  <2>2. rows \in Rows
    BY <2>1, RowsBuilt
  <2>3. SameElsewhere(rows, old, {i})
    BY <1>2 DEF SameElsewhere
  <2>4. Write([working EXCEPT !.lists[l] = rows], ItemsDirty(l, {i}))
    BY <1>5
  <2> HIDE DEF rows
  <2> QED
    BY <1>1, <2>2, <2>3, <2>4, RowsWritten
<1>6. CASE v \in Value /\ SetItem(l, i, v)
  BY <1>5, <1>6 DEF SetItem
<1>7. CASE ReleaseItem(l, i)
  BY <1>5, <1>7 DEF ReleaseItem
<1>8. CASE RemoveItem(l, i)
  <2> DEFINE rows == [j \in 0 .. n - 2 |-> IF j < i THEN old[j] ELSE old[j + 1]]
             suffix == i .. n - 1
  <2>1. i \in DOMAIN old /\ Write([working EXCEPT !.lists[l] = rows], ItemsDirty(l, suffix))
    BY <1>2, <1>8 DEF RemoveItem
  <2>2. i \in Nat /\ i < n
    BY <2>1, <1>2, <1>3
  <2>3. rows \in [0 .. (n - 1) - 1 -> Value \cup {Released}] /\ n - 1 \in 0 .. MaxLength
    BY <1>2, <1>3, <2>2
  <2>4. rows \in Rows
    BY <2>3, RowsBuilt
  <2>5. suffix \in SUBSET Position
    BY <1>3, <2>2 DEF Position
  <2>6. SameElsewhere(rows, old, suffix)
    BY <1>2, <1>3, <2>2 DEF Position, SameElsewhere
  <2>7. Write([working EXCEPT !.lists[l] = rows], ItemsDirty(l, suffix))
    BY <2>1
  <2> HIDE DEF rows, suffix
  <2> QED
    BY <1>1, <2>4, <2>5, <2>6, <2>7, RowsWritten
<1> QED
  BY <1>4, <1>6, <1>7, <1>8

\* Everything under a name goes, and with it everything cached.
LEMMA NamespaceDeleted ==
  ASSUME StorageInv, NEW names \in Namespace, DeleteNamespace(names)
  PROVE  StorageInv'
<1>1. /\ working'.objects = [o \in Object |-> IF o \in names THEN Nothing ELSE working.objects[o]]
      /\ working'.lists = [l \in List |-> IF l \in names THEN Nothing ELSE working.lists[l]]
      /\ working' \in Database
      /\ stored' = stored /\ dirty' = dirty /\ running' = running /\ running /\ cache' = {}
  BY DEF StorageInv, Database, DeleteNamespace, Write
<1>2. ASSUME NEW k \in CacheKey PROVE View(working', k) \in {Nothing, View(working, k)}
  <2>1. CASE k.name \in names
    BY <1>1, <2>1, KeyKinds DEF View
  <2>2. CASE k.name \notin names
    BY <1>1, <2>2, KeyKinds, ViewLocal
  <2> QED
    BY <2>1, <2>2
<1>3. ASSUME NEW k \in CacheKey PROVE KeyTrue(k)'
  BY <1>1, <1>2 DEF StorageInv, KeyTrue
<1> QED
  BY <1>1, <1>3 DEF StorageInv

\* A read may add what it read to the cache.
LEMMA ReadCached ==
  ASSUME StorageInv, NEW k \in CacheKey, ReadKey(k)
  PROVE  StorageInv'
<1>1. CacheValue(k) /\ UNCHANGED <<stored, working, dirty, running, edits>>
  BY DEF ReadKey
<1>2. ASSUME NEW e \in cache' PROVE EntryTrue(e)'
  <2>1. EntryTrue(e)
    BY <1>1, CachedTrue
  <2> QED
    BY <1>1, <2>1 DEF EntryTrue
<1>3. ASSUME NEW j \in CacheKey PROVE KeyTrue(j)'
  BY <1>1 DEF StorageInv, KeyTrue
<1> QED
  BY <1>1, <1>2, <1>3 DEF StorageInv

\* A commit makes the transaction's database the stored one; what it has not
\* written is what was stored before, or gone and then not cached.
LEMMA Committed ==
  ASSUME StorageInv, CommitTransaction
  PROVE  StorageInv'
<1>1. /\ stored' = working /\ working' = working /\ dirty' = {} /\ ~ running'
      /\ cache' = {e \in cache : e.key \notin dirty}
  BY DEF CommitTransaction, EndTransaction
<1>2. ASSUME NEW e \in cache' PROVE EntryTrue(e)'
  <2>1. EntryTrue(e) /\ e.key \notin dirty /\ KeyTrue(e.key)
    BY <1>1 DEF StorageInv, EntryTrue
  <2>2. e.value = View(working, e.key)
    BY <2>1 DEF EntryTrue, KeyTrue
  <2> QED
    BY <1>1, <2>1, <2>2 DEF EntryTrue
<1>3. ASSUME NEW k \in CacheKey PROVE KeyTrue(k)'
  BY <1>1 DEF KeyTrue
<1> QED
  BY <1>1, <1>2, <1>3 DEF StorageInv

\* A rollback returns to what was stored, which is what the cache holds.
LEMMA RolledBack ==
  ASSUME StorageInv, RollbackTransaction \/ RestartStorage
  PROVE  StorageInv'
<1>1. /\ stored' = stored /\ working' = stored /\ dirty' = {} /\ ~ running'
      /\ cache' \subseteq cache
  BY DEF RollbackTransaction, RestartStorage, EndTransaction
<1>2. ASSUME NEW e \in cache' PROVE EntryTrue(e)'
  <2>1. EntryTrue(e)
    BY <1>1 DEF StorageInv
  <2> QED
    BY <1>1, <2>1 DEF EntryTrue
<1>3. ASSUME NEW k \in CacheKey PROVE KeyTrue(k)'
  BY <1>1 DEF KeyTrue
<1> QED
  BY <1>1, <1>2, <1>3 DEF StorageInv

\* Every operation of the storage engine keeps its invariant.
LEMMA StorageStep ==
  ASSUME StorageInv, [StorageNext]_storage_vars
  PROVE  StorageInv'
<1>1. CASE UNCHANGED storage_vars
  BY <1>1 DEF StorageInv, EntryTrue, KeyTrue, storage_vars
<1>2. CASE BeginTransaction
  BY <1>2 DEF StorageInv, EntryTrue, KeyTrue, BeginTransaction
<1>3. CASE CommitTransaction
  BY <1>3, Committed
<1>4. CASE RollbackTransaction \/ RestartStorage
  BY <1>4, RolledBack
<1>5. ASSUME NEW o \in Object, LoadObject(o) PROVE StorageInv'
  BY <1>5, ReadCached DEF LoadObject, CacheKey
<1>6. ASSUME NEW o \in Object, NEW v \in Value, CreateObject(o, v) \/ SaveObject(o, v)
      PROVE  StorageInv'
  <2>1. Write([working EXCEPT !.objects[o] = v], ObjectsDirty(o))
    BY <1>6 DEF CreateObject, SaveObject
  <2>2. ASSUME NEW e \in cache' PROVE EntryTrue(e)
    <3>1. CASE cache' = cache
      BY <3>1 DEF StorageInv
    <3>2. CASE CacheValue(ObjectKey(o))
      BY <3>2, CachedTrue DEF CacheKey
    <3> QED
      BY <1>6, <3>1, <3>2 DEF CreateObject, SaveObject
  <2> QED
    BY <2>1, <2>2, ObjectWritten
<1>7. ASSUME NEW l \in List, CreateList(l) \/ DeleteList(l) PROVE StorageInv'
  BY <1>7, ListMadeOrDropped
<1>8. ASSUME NEW l \in List, NEW v \in Value, AppendItem(l, v) PROVE StorageInv'
  <2>1. 0 \in Position
    <3>1. Length(working.lists[l]) < MaxLength
      BY <1>8 DEF AppendItem
    <3>2. Length(working.lists[l]) \in Nat
      BY <1>8, RowsLength, StorageAssumption DEF AppendItem, StorageInv, Database
    <3> QED
      BY <3>1, <3>2, StorageAssumption DEF Position
  <2> QED
    BY <1>8, <2>1, ItemsWritten
<1>9. ASSUME NEW l \in List, NEW i \in Position, GetItem(l, i) \/ ReadPage(l, PageOf(i))
      PROVE  StorageInv'
  BY <1>9, ReadCached DEF GetItem, ReadPage, CacheKey
<1>10. ASSUME NEW l \in List, NEW i \in Position, NEW v \in Value, SetItem(l, i, v)
       PROVE  StorageInv'
  BY <1>10, ItemsWritten
<1>11. ASSUME NEW l \in List, NEW i \in Position, RemoveItem(l, i) \/ ReleaseItem(l, i)
       PROVE  StorageInv'
  BY <1>11, ItemsWritten
<1>12. ASSUME NEW names \in Namespace, DeleteNamespace(names) PROVE StorageInv'
  BY <1>12, NamespaceDeleted
<1> QED
  BY <1>1, <1>2, <1>3, <1>4, <1>5, <1>6, <1>7, <1>8, <1>9, <1>10, <1>11, <1>12 DEF StorageNext

\* An engine that has just been opened.
LEMMA StorageInitTrue == StorageInit => StorageInv
BY DEF StorageInit, StorageInv, EntryTrue, KeyTrue, Database

\* However transactions commit, fail, are rehearsed or cut off by a restart,
\* a read through the cache answers what the database of the transaction holds:
\* what database.rs and cache.rs invalidate suffices, lists and pages included.
THEOREM CacheIsCoherent == StorageSpec => []CacheCoherent
<1>1. StorageInv => CacheCoherent
  <2> SUFFICES ASSUME StorageInv, NEW k \in CacheKey PROVE Answers(k) = {View(working, k)}
    BY DEF CacheCoherent
  <2>1. ASSUME k \notin dirty, NEW e \in Cached(k) PROVE e.value = View(working, k)
    BY <2>1 DEF Cached, StorageInv, EntryTrue, KeyTrue
  <2>2. CASE k \notin dirty /\ Cached(k) # {}
    <3>1. {e.value : e \in Cached(k)} = {View(working, k)}
      BY <2>1, <2>2
    <3> QED
      BY <3>1 DEF Answers
  <2>3. CASE ~ (k \notin dirty /\ Cached(k) # {})
    BY <2>3 DEF Answers
  <2> QED
    BY <2>2, <2>3
<1> QED
  BY <1>1, StorageInitTrue, StorageStep, PTL DEF StorageSpec

-----------------------------------------------------------------------------
\* What a page sends back may hold the mark of a secret in place of a token.
Sent == [setting : Setting, token : Token \cup {Redacted}]

\* What a writer of the configuration can be doing.
WriterPc ==
  {"idle", "editing", "refreshing", "exchanging", "persisting", "reading", "asking",
   "checking", "writing", "renamed", "finishing", "failing", "done"}

\* A writer: where it is, what it was made from and asks for, its token.
WriterState ==
  [pc : WriterPc, base : SUBSET Content, next : SUBSET Sent,
   token : 0 .. MaxTokens, from : 0 .. MaxTokens, tries : Nat]

\* The current sign-in, and what happened aside from saves.
SignIn == [id : Nat, status : LoginStatus, kind : {"codex", "google", "copilot"}]
\* What a client keeps beside its connection.
Aside == [restarts : Nat, unsettled : BOOLEAN, strayed : BOOLEAN]

\* The types of the configuration's state.  What runs is what memory holds.
SettingsData ==
  /\ file \in Content /\ held \in Content /\ runtime = held
  /\ lock \subseteq Writer /\ turn \subseteq Delivery /\ strays \subseteq Content
  /\ issued \in Seq([kind : {"typed", "renewal", "sign-in"}, from : Nat])
  /\ Len(issued) <= MaxTokens
  /\ attempt \in SignIn
  /\ writer \in [Writer -> WriterState]
  /\ aside \in Aside

\* A token that was given out, and how.
Was(t, kind) == t \in DOMAIN issued /\ issued[t].kind = kind

\* The file is ahead of memory only where a save is about to be taken into it.
FileTrue ==
  /\ \A v, w \in lock : v = w
  /\ strays # {} => aside.strayed
  /\ aside.strayed => aside.unsettled
  /\ ~ aside.unsettled =>
       /\ \A w \in lock : writer[w].pc = "renamed" => writer[w].next = {file}
       /\ (\A w \in lock : writer[w].pc # "renamed") => file = held

\* Where a save holds the configuration.
Saving == {"checking", "writing", "renamed"}

\* What may take a token's place: the sign-in is the latest while it has its turn.
Replaces(w, old, new) ==
  \/ new = old
  \/ Was(new, "typed")
  \/ Was(new, "renewal") /\ issued[new].from = old
  \/ Was(new, "sign-in") /\ issued[new].from = attempt.id /\ w \in turn

\* Where the token of each kind of writer comes from.
Comes(w) ==
  /\ w \in Page => writer[w].pc \in {"idle", "editing", "asking", "done"} \cup Saving
  /\ w \in Delivery /\ writer[w].pc \in {"reading", "asking"} \cup Saving => w \in turn
  /\ w \in turn => attempt.id = w.attempt
  /\ writer[w].pc \in {"persisting", "reading", "asking", "checking"} =>
       /\ w = Renewal => Was(writer[w].token, "renewal") /\ issued[writer[w].token].from = writer[w].from
       /\ w \in Delivery => Was(writer[w].token, "sign-in") /\ issued[writer[w].token].from = w.attempt

\* What a writer asks to be saved, in place of what.
AsksFor(w) ==
  writer[w].pc \in {"editing", "asking"} \cup Saving =>
    \E base \in Content, next \in Sent :
      /\ writer[w].base = {base} /\ writer[w].next = {next}
      /\ writer[w].pc \in {"writing", "renamed"} => next \in Content
      /\ writer[w].pc \in {"editing", "asking", "checking"} =>
           /\ w \in Page => next.token = Redacted \/ Was(next.token, "typed")
           /\ w \notin Page => next.token = writer[w].token
           /\ w = Renewal => base.token = writer[w].from
      /\ writer[w].pc = "writing" /\ ~ aside.strayed =>
           base = file /\ Replaces(w, file.token, next.token)

\* What is true of each writer: it saves only while it holds the configuration.
WriterTrue(w) ==
  /\ writer[w].pc \in Saving <=> w \in lock
  /\ Comes(w)
  /\ AsksFor(w)

\* The inductive invariant of the configuration.
SettingsInv == SettingsData /\ FileTrue /\ \A w \in Writer : WriterTrue(w)

-----------------------------------------------------------------------------
\* The tokens services gave out, in order.
Tokens == Seq([kind : {"typed", "renewal", "sign-in"}, from : Nat])

\* Tokens given out stay given out.
Remembered == \A t \in DOMAIN issued : t \in DOMAIN issued' /\ issued'[t] = issued[t]

\* A token given out is a new one, and leaves the others as they were.
LEMMA IssueRemembered ==
  ASSUME SettingsData, NEW kind \in {"typed", "renewal", "sign-in"}, NEW from \in Nat,
         Issue(kind, from)
  PROVE  /\ Remembered /\ issued' \in Tokens /\ Len(issued') <= MaxTokens
         /\ \E t \in Token : t = Len(issued) + 1 /\ Was(t, kind)' /\ issued'[t].from = from
<1>1. [kind |-> kind, from |-> from] \in [kind : {"typed", "renewal", "sign-in"}, from : Nat]
  OBVIOUS
<1>2. /\ Remembered /\ issued' \in Tokens /\ Len(issued') <= MaxTokens
  BY <1>1, SettingsAssumption DEF SettingsData, Issue, Remembered, Token, Tokens
<1>3. PICK t \in Token : t = Len(issued) + 1
  BY SettingsAssumption DEF SettingsData, Issue, Token
<1>4. t \in DOMAIN issued' /\ issued'[t] = [kind |-> kind, from |-> from]
  BY <1>1, <1>3 DEF SettingsData, Issue
<1>5. Was(t, kind)' /\ issued'[t].from = from
  BY <1>4 DEF Was
<1> QED
  BY <1>2, <1>3, <1>5

\* How a token was given out does not change.
LEMMA WasRemembered ==
  ASSUME Remembered, NEW t, NEW kind, Was(t, kind)
  PROVE  Was(t, kind)' /\ issued'[t] = issued[t]
BY DEF Was, Remembered

\* A step that leaves a writer and what it relies on alone.
LEMMA OtherKept ==
  ASSUME NEW x \in Writer, WriterTrue(x), Remembered,
         writer'[x] = writer[x], x \in lock' <=> x \in lock, x \in turn' <=> x \in turn,
         attempt'.id = attempt.id \/ x \notin turn,
         writer[x].pc = "writing" /\ ~ aside'.strayed => ~ aside.strayed /\ file' = file
  PROVE  WriterTrue(x)'
<1>1. Comes(x)'
  BY WasRemembered DEF WriterTrue, Comes
<1>2. ASSUME NEW base \in Content, NEW next \in Sent,
             writer[x].pc = "writing", ~ aside.strayed, file' = file,
             Replaces(x, file.token, next.token)
      PROVE  Replaces(x, file.token, next.token)'
  BY <1>2, WasRemembered DEF Replaces
<1>3. AsksFor(x)'
  <2> SUFFICES ASSUME writer[x].pc \in {"editing", "asking"} \cup Saving PROVE AsksFor(x)'
    BY DEF AsksFor, Saving
  <2>1. PICK base \in Content, next \in Sent :
      /\ writer[x].base = {base} /\ writer[x].next = {next}
      /\ writer[x].pc \in {"writing", "renamed"} => next \in Content
      /\ writer[x].pc \in {"editing", "asking", "checking"} =>
           /\ x \in Page => next.token = Redacted \/ Was(next.token, "typed")
           /\ x \notin Page => next.token = writer[x].token
           /\ x = Renewal => base.token = writer[x].from
      /\ writer[x].pc = "writing" /\ ~ aside.strayed =>
           base = file /\ Replaces(x, file.token, next.token)
    BY DEF WriterTrue, AsksFor
  <2>2. writer[x].pc = "writing" /\ ~ aside'.strayed =>
          base = file' /\ Replaces(x, file.token, next.token)'
    BY <2>1, <1>2
  <2> QED
    BY <2>1, <2>2, WasRemembered DEF AsksFor
<1> QED
  BY <1>1, <1>3 DEF WriterTrue, Saving

\* What a step of one writer leaves of the others.
LEMMA OthersKept ==
  ASSUME SettingsInv, NEW w \in Writer, Remembered,
         \A x \in Writer \ {w} : /\ writer'[x] = writer[x]
                                 /\ x \in lock' <=> x \in lock
                                 /\ x \in turn' <=> x \in turn,
         attempt'.id = attempt.id \/ turn = {},
         \/ aside'.strayed
         \/ ~ aside.strayed /\ file' = file
         \/ w \in lock /\ ~ aside.strayed
  PROVE  \A x \in Writer \ {w} : WriterTrue(x)'
<1> TAKE x \in Writer \ {w}
<1>1. WriterTrue(x)
  BY DEF SettingsInv
<1>2. writer[x].pc = "writing" => x \in lock
  BY <1>1 DEF WriterTrue, Saving
<1>3. \A v \in lock : x \in lock => v = x
  BY DEF SettingsInv, FileTrue
<1> QED
  BY <1>1, <1>2, <1>3, OtherKept

\* A step of a writer that neither holds the configuration nor comes to hold it.
LEMMA Quiet ==
  ASSUME SettingsInv, NEW w \in Writer, NEW s \in WriterState, writer' = [writer EXCEPT ![w] = s],
         w \notin lock, s.pc \notin Saving,
         Remembered, issued' \in Tokens, Len(issued') <= MaxTokens,
         attempt' \in SignIn,
         attempt'.id = attempt.id,
         turn' \subseteq Delivery, \A x \in Writer \ {w} : x \in turn' <=> x \in turn,
         UNCHANGED <<file, held, runtime, lock, strays, aside>>,
         Comes(w)', AsksFor(w)'
  PROVE  SettingsInv'
<1>1. writer' \in [Writer -> WriterState] /\ writer'[w] = s
  BY DEF SettingsInv, SettingsData
<1>2. SettingsData'
  BY <1>1 DEF SettingsInv, SettingsData, Tokens
<1>3. \A x \in Writer \ {w} : writer'[x] = writer[x]
  BY DEF SettingsInv, SettingsData
<1>4. \A x \in lock : writer'[x] = writer[x]
  BY <1>3 DEF SettingsInv, SettingsData
<1>5. FileTrue'
  BY <1>4 DEF SettingsInv, FileTrue
<1>6. WriterTrue(w)'
  BY <1>1 DEF WriterTrue
<1>7. \A x \in Writer \ {w} : WriterTrue(x)'
  BY <1>3, OthersKept
<1> QED
  BY <1>2, <1>5, <1>6, <1>7 DEF SettingsInv

\* A writer that is done, or back to waiting for the next token to run out.
LEMMA Ended ==
  ASSUME SettingsInv, NEW w \in Writer, End(w)
  PROVE  \E s \in WriterState :
           /\ writer' = [writer EXCEPT ![w] = s]
           /\ s.pc \in {"idle", "done"} /\ (w # Renewal => s.pc = "done")
<1> DEFINE s == [Idle EXCEPT !.pc = IF w = Renewal THEN "idle" ELSE "done"]
<1>1. s \in WriterState /\ s.pc = IF w = Renewal THEN "idle" ELSE "done"
  BY SettingsAssumption DEF Idle, WriterState, WriterPc
<1> QED
  BY <1>1 DEF End

\* A writer that asks for nothing, and what it takes for it to be as it should.
LEMMA AsksNothing ==
  ASSUME NEW w, writer'[w].pc \notin {"editing", "asking"} \cup Saving
  PROVE  AsksFor(w)'
BY DEF AsksFor, Saving

\* A writer that does not hold the configuration ends.
LEMMA QuietEnd ==
  ASSUME SettingsInv, NEW w \in Writer, End(w), w \notin lock,
         Remembered, issued' \in Tokens, Len(issued') <= MaxTokens,
         attempt' \in SignIn,
         attempt'.id = attempt.id,
         UNCHANGED <<file, held, runtime, lock, strays, turn, aside>>
  PROVE  SettingsInv'
<1>1. PICK s \in WriterState : /\ writer' = [writer EXCEPT ![w] = s]
                               /\ s.pc \in {"idle", "done"} /\ (w # Renewal => s.pc = "done")
  BY Ended
<1>2. writer'[w] = s
  BY <1>1 DEF SettingsInv, SettingsData
<1>3. AsksFor(w)'
  BY <1>1, <1>2, AsksNothing DEF Saving
<1>4. Comes(w)'
  BY <1>1, <1>2 DEF SettingsInv, SettingsData, WriterTrue, Comes, Saving
<1> QED
  BY <1>1, <1>3, <1>4, Quiet DEF SettingsInv, SettingsData, Saving

\* The pages.
LEMMA PageTrue ==
  ASSUME SettingsInv, NEW p \in Page, OpenPage(p) \/ SubmitPage(p)
  PROVE  SettingsInv'
<1>1. /\ p \in Writer /\ p # Renewal /\ p \notin Delivery /\ p \notin turn
      /\ WriterTrue(p) /\ writer[p] \in WriterState /\ held \in Content
      /\ UNCHANGED <<file, held, runtime, lock, strays, attempt, turn, aside>>
  BY SettingsAssumption DEF Writer, SettingsInv, SettingsData, OpenPage, SubmitPage
<1>2. p \notin lock
  BY <1>1 DEF WriterTrue, OpenPage, SubmitPage, Saving
<1>3. ASSUME NEW s \in WriterState, writer' = [writer EXCEPT ![p] = s],
             s.pc \in {"editing", "asking"},
             Remembered, issued' \in Tokens, Len(issued') <= MaxTokens,
             NEW base \in Content, NEW next \in Sent, s.base = {base}, s.next = {next},
             next.token = Redacted \/ Was(next.token, "typed")'
      PROVE  SettingsInv'
  <2>1. writer'[p] = s
    BY <1>1, <1>3 DEF SettingsInv, SettingsData
  <2>2. Comes(p)'
    BY <1>1, <1>3, <2>1 DEF Comes
  <2>3. AsksFor(p)'
    BY <1>1, <1>3, <2>1 DEF AsksFor, Saving
  <2>4. /\ attempt' \in SignIn
        /\ turn' \subseteq Delivery
    BY <1>1 DEF SettingsInv, SettingsData
  <2> QED
    BY <1>1, <1>2, <1>3, <2>2, <2>3, <2>4, Quiet DEF Saving
<1>4. CASE OpenPage(p)
  <2> DEFINE s == [writer[p] EXCEPT !.pc = "editing", !.base = {held}, !.next = {RedactedOf(held)}]
  <2>1. RedactedOf(held) \in Sent /\ RedactedOf(held).token = Redacted
    BY <1>1 DEF RedactedOf, Sent, Content
  <2>2. /\ s \in WriterState /\ s.pc = "editing" /\ s.base = {held} /\ s.next = {RedactedOf(held)}
    BY <1>1, <2>1 DEF WriterState, WriterPc
  <2>3. writer' = [writer EXCEPT ![p] = s] /\ issued' = issued
    BY <1>4 DEF OpenPage
  <2>4. Remembered /\ issued' \in Tokens /\ Len(issued') <= MaxTokens
    BY <2>3 DEF Remembered, Tokens, SettingsInv, SettingsData
  <2> HIDE DEF s
  <2> QED
    BY <1>1, <1>3, <2>1, <2>2, <2>3, <2>4
<1>5. CASE SubmitPage(p)
  <2>1. PICK base \in Content, next \in Sent :
          /\ writer[p].base = {base} /\ writer[p].next = {next}
          /\ next.token = Redacted \/ Was(next.token, "typed")
    BY <1>1, <1>5 DEF SubmitPage, WriterTrue, AsksFor
  <2>2. CASE /\ writer' = [writer EXCEPT ![p].pc = "asking", ![p].next = {[The(@) EXCEPT !.setting = p]}]
             /\ UNCHANGED issued
    <3> DEFINE sent == [next EXCEPT !.setting = p]
               s == [writer[p] EXCEPT !.pc = "asking", !.next = {sent}]
    <3>1. sent \in Sent /\ sent.token = next.token
      BY DEF Sent, Setting
    <3>2. s \in WriterState /\ s.pc = "asking" /\ s.base = {base} /\ s.next = {sent}
      BY <1>1, <2>1, <3>1 DEF WriterState, WriterPc
    <3>3. The(writer[p].next) = next
      BY <2>1 DEF The
    <3>4. writer' = [writer EXCEPT ![p] = s]
      BY <2>2, <3>3
    <3>5. Remembered /\ issued' \in Tokens /\ Len(issued') <= MaxTokens
      BY <2>2 DEF Remembered, Tokens, SettingsInv, SettingsData
    <3>6. sent.token = Redacted \/ Was(sent.token, "typed")'
      BY <2>1, <2>2, <3>1 DEF Was
    <3> HIDE DEF s, sent
    <3> QED
      BY <1>3, <3>1, <3>2, <3>4, <3>5, <3>6
  <2>3. CASE /\ Issue("typed", 0)
             /\ writer' = [writer EXCEPT ![p].pc = "asking",
                             ![p].next = {[setting |-> p, token |-> Len(issued) + 1]}]
    <3>0. SettingsData /\ Issue("typed", 0)
      BY <2>3 DEF SettingsInv
    <3>1. PICK t \in Token : /\ t = Len(issued) + 1 /\ Was(t, "typed")'
                             /\ Remembered /\ issued' \in Tokens /\ Len(issued') <= MaxTokens
      BY <3>0, IssueRemembered
    <3>2. PICK sent \in Sent : sent = [setting |-> p, token |-> t]
      BY <3>1 DEF Sent, Setting
    <3> DEFINE s == [writer[p] EXCEPT !.pc = "asking", !.next = {sent}]
    <3>3. s \in WriterState /\ s.pc = "asking" /\ s.base = {base} /\ s.next = {sent}
      BY <1>1, <2>1, <3>2 DEF WriterState, WriterPc
    <3>4. writer' = [writer EXCEPT ![p] = s]
      BY <2>3, <3>1, <3>2
    <3>5. Was(sent.token, "typed")'
      BY <3>1, <3>2
    <3> HIDE DEF s
    <3> QED
      BY <1>3, <3>1, <3>2, <3>3, <3>4, <3>5
  <2> QED
    BY <1>5, <2>2, <2>3 DEF SubmitPage
<1> QED
  BY <1>4, <1>5

\* Steps of the renewal and of sign-ins before they ask for a save.
LEMMA PlainStep ==
  ASSUME SettingsInv, NEW w \in Writer \ Page, NEW s \in WriterState,
         writer' = [writer EXCEPT ![w] = s], w \notin lock,
         s.pc \in {"refreshing", "exchanging", "failing"},
         attempt' \in SignIn,
         attempt'.id = attempt.id,
         UNCHANGED <<file, held, runtime, lock, strays, issued, turn, aside>>
  PROVE  SettingsInv'
<1>1. writer'[w] = s
  BY DEF SettingsInv, SettingsData
<1>2. AsksFor(w)'
  BY <1>1, AsksNothing DEF Saving
<1>3. Comes(w)'
  BY <1>1 DEF SettingsInv, SettingsData, WriterTrue, Comes, Saving
<1>4. Remembered /\ issued' \in Tokens /\ Len(issued') <= MaxTokens /\ turn' \subseteq Delivery
  BY DEF Remembered, Tokens, SettingsInv, SettingsData
<1>5. s.pc \notin Saving
  BY DEF Saving
<1> QED
  BY <1>2, <1>3, <1>4, <1>5, Quiet

\* The renewal finds a token about to run out, and asks for a new one.
LEMMA RenewalTrue ==
  ASSUME SettingsInv, RenewalDue \/ Refreshed
  PROVE  SettingsInv'
<1>1. /\ Renewal \in Writer \ Page /\ WriterTrue(Renewal) /\ writer[Renewal] \in WriterState
      /\ Renewal \notin Delivery /\ Renewal \notin turn
      /\ UNCHANGED <<file, held, runtime, lock, strays, attempt, turn, aside>>
      /\ attempt' \in SignIn
      /\ turn' \subseteq Delivery /\ attempt'.id = attempt.id
  BY SettingsAssumption DEF SettingsInv, SettingsData, Writer, RenewalDue, Refreshed
<1>2. Renewal \notin lock
  BY <1>1 DEF WriterTrue, Saving, RenewalDue, Refreshed
<1>3. CASE RenewalDue
  <2> DEFINE s == [writer[Renewal] EXCEPT !.pc = "refreshing", !.from = runtime.token]
  <2>1. runtime.token \in 0 .. MaxTokens
    BY SettingsAssumption DEF SettingsInv, SettingsData, Content, Token
  <2>2. s \in WriterState /\ s.pc = "refreshing"
    BY <1>1, <2>1 DEF WriterState, WriterPc
  <2>3. writer' = [writer EXCEPT ![Renewal] = s] /\ issued' = issued
    BY <1>3 DEF RenewalDue
  <2> HIDE DEF s
  <2> QED
    BY <1>1, <1>2, <2>2, <2>3, PlainStep
<1>4. CASE /\ Refreshed /\ Issue("renewal", writer[Renewal].from)
           /\ writer' = [writer EXCEPT ![Renewal].pc = "reading",
                           ![Renewal].token = Len(issued) + 1]
  <2>1. PICK from \in Nat : from = writer[Renewal].from
    BY <1>1, SettingsAssumption DEF WriterState
  <2>2. SettingsData /\ Issue("renewal", from)
    BY <1>4, <2>1 DEF SettingsInv
  <2>3. PICK t \in Token : /\ t = Len(issued) + 1 /\ Was(t, "renewal")' /\ issued'[t].from = from
                           /\ Remembered /\ issued' \in Tokens /\ Len(issued') <= MaxTokens
    BY <2>2, IssueRemembered
  <2> DEFINE s == [writer[Renewal] EXCEPT !.pc = "reading", !.token = t]
  <2>4. t \in 0 .. MaxTokens
    BY SettingsAssumption DEF Token
  <2>5. s \in WriterState /\ s.pc = "reading" /\ s.token = t /\ s.from = from
    BY <1>1, <2>1, <2>4 DEF WriterState, WriterPc
  <2>6. writer' = [writer EXCEPT ![Renewal] = s]
    BY <1>4, <2>3
  <2> HIDE DEF s
  <2>7. writer'[Renewal] = s
    BY <1>1, <2>6 DEF SettingsInv, SettingsData
  <2>8. Comes(Renewal)'
    BY <1>1, <2>3, <2>5, <2>7 DEF Comes
  <2>9. AsksFor(Renewal)' /\ s.pc \notin Saving
    BY <2>5, <2>7, AsksNothing DEF Saving
  <2> QED
    BY <1>1, <1>2, <2>3, <2>5, <2>6, <2>8, <2>9, Quiet
<1>5. CASE Refreshed /\ End(Renewal) /\ UNCHANGED issued
  <2>1. Remembered /\ issued' \in Tokens /\ Len(issued') <= MaxTokens
    BY <1>5 DEF Remembered, Tokens, SettingsInv, SettingsData
  <2> QED
    BY <1>1, <1>2, <1>5, <2>1, QuietEnd
<1> QED
  BY <1>3, <1>4, <1>5 DEF Refreshed

\* The account as it is now, with the new token.
LEMMA ReadCurrentTrue ==
  ASSUME SettingsInv, NEW w \in Writer \ Page, ReadCurrent(w)
  PROVE  SettingsInv'
<1>1. /\ WriterTrue(w) /\ writer[w] \in WriterState /\ held \in Content
      /\ UNCHANGED <<file, held, runtime, lock, strays, issued, attempt, turn, aside>>
      /\ attempt' \in SignIn
      /\ turn' \subseteq Delivery /\ attempt'.id = attempt.id /\ lock = {}
      /\ writer[w].pc = "reading"
  BY DEF SettingsInv, SettingsData, ReadCurrent
<1>2. Remembered /\ issued' \in Tokens /\ Len(issued') <= MaxTokens
  BY <1>1 DEF Remembered, Tokens, SettingsInv, SettingsData
<1>3. CASE w = Renewal /\ held.token # writer[w].from
  BY <1>1, <1>2, <1>3, QuietEnd DEF ReadCurrent
<1>4. CASE ~ (w = Renewal /\ held.token # writer[w].from)
  <2>1. w = Renewal \/ w \in Delivery
    BY DEF Writer
  <2>2. writer[w].token \in DOMAIN issued /\ DOMAIN issued = 1 .. Len(issued)
        /\ Len(issued) \in Nat /\ Len(issued) <= MaxTokens
    BY <1>1, <2>1 DEF WriterTrue, Comes, Was, SettingsInv, SettingsData
  <2>3. writer[w].token \in Token
    BY <2>2, SettingsAssumption DEF Token
  <2> DEFINE next == [held EXCEPT !.token = writer[w].token]
             s == [writer[w] EXCEPT !.pc = "asking", !.base = {held}, !.next = {next}]
  <2>4. next \in Sent /\ next.token = writer[w].token
    BY <1>1, <2>3 DEF Sent, Content
  <2> HIDE DEF next
  <2>5. /\ s \in WriterState /\ s.pc = "asking" /\ s.base = {held} /\ s.next = {next}
        /\ s.token = writer[w].token /\ s.from = writer[w].from
    BY <1>1, <2>4 DEF WriterState, WriterPc
  <2>6. writer' = [writer EXCEPT ![w] = s]
    BY <1>4 DEF ReadCurrent, next
  <2> HIDE DEF s
  <2>7. writer'[w] = s
    BY <1>1, <2>6 DEF SettingsInv, SettingsData
  <2>8. Comes(w)'
    BY <1>1, <2>1, <2>5, <2>7 DEF WriterTrue, Comes, Was
  <2>9. w = Renewal => held.token = s.from
    BY <1>4, <2>5
  <2>10. AsksFor(w)' /\ s.pc \notin Saving
    BY <1>1, <2>4, <2>5, <2>7, <2>9 DEF AsksFor, Saving
  <2> QED
    BY <1>1, <1>2, <2>5, <2>6, <2>8, <2>10, Quiet
<1> QED
  BY <1>3, <1>4

\* The code of a sign-in arrives, is refused, or is exchanged; the sign-in ends.
LEMMA ArrivalTrue ==
  ASSUME SettingsInv, NEW d \in Delivery,
         LoginRedirected(d) \/ LoginPasted(d) \/ DevicePolled(d) \/ LoginFinished(d)
  PROVE  SettingsInv'
<1>1. /\ d \in Writer \ Page /\ WriterTrue(d) /\ writer[d] \in WriterState
      /\ UNCHANGED <<file, held, runtime, lock, strays, issued, turn, aside>>
  BY SettingsAssumption
     DEF SettingsInv, SettingsData, Writer, LoginRedirected, LoginPasted, Arrives, DevicePolled, LoginFinished
<1>2. /\ writer[d].pc \notin Saving
      /\ attempt' \in SignIn
      /\ attempt'.id = attempt.id
  BY DEF SettingsInv, SettingsData, LoginStatus, SignIn, LoginRedirected, LoginPasted, Arrives,
     Claim,
         DevicePolled, LoginFinished, Saving
<1>3. d \notin lock
  BY <1>1, <1>2 DEF WriterTrue
<1>4. Remembered /\ issued' \in Tokens /\ Len(issued') <= MaxTokens
  BY <1>1 DEF Remembered, Tokens, SettingsInv, SettingsData
<1>5. CASE End(d)
  BY <1>1, <1>2, <1>3, <1>4, <1>5, QuietEnd
<1>6. ASSUME NEW pc \in {"exchanging", "failing"}, writer' = [writer EXCEPT ![d].pc = pc]
      PROVE  SettingsInv'
  <2> DEFINE s == [writer[d] EXCEPT !.pc = pc]
  <2>1. s \in WriterState /\ s.pc = pc /\ writer' = [writer EXCEPT ![d] = s]
    BY <1>1, <1>6 DEF WriterState, WriterPc
  <2> HIDE DEF s
  <2> QED
    BY <1>1, <1>2, <1>3, <2>1, PlainStep
<1> QED
  BY <1>5, <1>6 DEF LoginRedirected, LoginPasted, Claim, DevicePolled, LoginFinished

\* A code is exchanged for a token of its sign-in.
LEMMA ExchangeTrue ==
  ASSUME SettingsInv, NEW d \in Delivery, CodeExchanged(d)
  PROVE  SettingsInv'
<1>1. /\ d \in Writer \ Page /\ WriterTrue(d) /\ writer[d] \in WriterState
      /\ d # Renewal /\ d.attempt \in Nat /\ writer[d].pc = "exchanging"
      /\ UNCHANGED <<file, held, runtime, lock, strays, attempt, turn, aside>>
      /\ attempt' \in SignIn
      /\ turn' \subseteq Delivery /\ attempt'.id = attempt.id
  BY SettingsAssumption DEF SettingsInv, SettingsData, Writer, CodeExchanged
<1>2. d \notin lock
  BY <1>1 DEF WriterTrue, Saving
<1>3. CASE /\ Issue("sign-in", d.attempt)
           /\ writer' = [writer EXCEPT ![d].pc = "persisting", ![d].token = Len(issued) + 1]
  <2>1. PICK from \in Nat : from = d.attempt
    BY <1>1
  <2>2. SettingsData /\ Issue("sign-in", from)
    BY <1>3, <2>1 DEF SettingsInv
  <2>3. PICK t \in Token : /\ t = Len(issued) + 1 /\ Was(t, "sign-in")' /\ issued'[t].from = from
                           /\ Remembered /\ issued' \in Tokens /\ Len(issued') <= MaxTokens
    BY <2>2, IssueRemembered
  <2> DEFINE s == [writer[d] EXCEPT !.pc = "persisting", !.token = t]
  <2>4. t \in 0 .. MaxTokens
    BY SettingsAssumption DEF Token
  <2>5. s \in WriterState /\ s.pc = "persisting" /\ s.token = t
    BY <1>1, <2>4 DEF WriterState, WriterPc
  <2>6. writer' = [writer EXCEPT ![d] = s]
    BY <1>3, <2>3
  <2> HIDE DEF s
  <2>7. writer'[d] = s
    BY <1>1, <2>6 DEF SettingsInv, SettingsData
  <2>8. Comes(d)'
    BY <1>1, <2>1, <2>3, <2>5, <2>7 DEF WriterTrue, Comes, Saving
  <2>9. AsksFor(d)' /\ s.pc \notin Saving
    BY <2>5, <2>7, AsksNothing DEF Saving
  <2> QED
    BY <1>1, <1>2, <2>3, <2>5, <2>6, <2>8, <2>9, Quiet
<1>4. CASE writer' = [writer EXCEPT ![d].pc = "failing"] /\ UNCHANGED issued
  <2> DEFINE s == [writer[d] EXCEPT !.pc = "failing"]
  <2>1. s \in WriterState /\ s.pc = "failing" /\ writer' = [writer EXCEPT ![d] = s]
    BY <1>1, <1>4 DEF WriterState, WriterPc
  <2> HIDE DEF s
  <2> QED
    BY <1>1, <1>2, <1>4, <2>1, PlainStep
<1> QED
  BY <1>3, <1>4 DEF CodeExchanged

\* A sign-in that is still the latest takes its turn, and keeps it until saved.
LEMMA PersistTrue ==
  ASSUME SettingsInv, NEW d \in Delivery, PersistIfActive(d)
  PROVE  SettingsInv'
<1>1. /\ d \in Writer \ Page /\ WriterTrue(d) /\ writer[d] \in WriterState
      /\ d # Renewal /\ writer[d].pc = "persisting" /\ turn = {}
      /\ UNCHANGED <<file, held, runtime, lock, strays, issued, attempt, aside>>
      /\ attempt' \in SignIn
      /\ attempt'.id = attempt.id
  BY SettingsAssumption DEF SettingsInv, SettingsData, Writer, PersistIfActive
<1>2. d \notin lock
  BY <1>1 DEF WriterTrue, Saving
<1>3. CASE Current(d) /\ turn' = {d} /\ writer' = [writer EXCEPT ![d].pc = "reading"]
  <2> DEFINE s == [writer[d] EXCEPT !.pc = "reading"]
  <2>1. /\ s \in WriterState /\ s.pc = "reading" /\ s.token = writer[d].token
        /\ writer' = [writer EXCEPT ![d] = s]
    BY <1>1, <1>3 DEF WriterState, WriterPc
  <2> HIDE DEF s
  <2>2. writer'[d] = s
    BY <1>1, <2>1 DEF SettingsInv, SettingsData
  <2>3. Comes(d)'
    BY <1>1, <1>3, <2>1, <2>2 DEF WriterTrue, Comes, Was, Current
  <2>4. AsksFor(d)' /\ s.pc \notin Saving
    BY <2>1, <2>2, AsksNothing DEF Saving
  <2>5. Remembered /\ issued' \in Tokens /\ Len(issued') <= MaxTokens
    BY <1>1 DEF Remembered, Tokens, SettingsInv, SettingsData
  <2>6. turn' \subseteq Delivery /\ \A x \in Writer \ {d} : x \in turn' <=> x \in turn
    BY <1>1, <1>3
  <2> QED
    BY <1>1, <1>2, <2>1, <2>3, <2>4, <2>5, <2>6, Quiet
<1>4. CASE writer' = [writer EXCEPT ![d].pc = "failing"] /\ UNCHANGED turn
  <2> DEFINE s == [writer[d] EXCEPT !.pc = "failing"]
  <2>1. s \in WriterState /\ s.pc = "failing" /\ writer' = [writer EXCEPT ![d] = s]
    BY <1>1, <1>4 DEF WriterState, WriterPc
  <2> HIDE DEF s
  <2> QED
    BY <1>1, <1>2, <1>4, <2>1, PlainStep
<1> QED
  BY <1>3, <1>4 DEF PersistIfActive

\* Steps that no writer takes.
LEMMA AsideTrue ==
  ASSUME SettingsInv,
         LoginBegins \/ EditByHand \/ (\E content \in strays : StrayRename(content))
  PROVE  SettingsInv'
<1>1. UNCHANGED <<held, runtime, lock, issued, turn, writer>>
  BY DEF LoginBegins, EditByHand, StrayRename
<1>2. SettingsData'
  <2>1. file' \in Content
    <3>1. file \in Content /\ strays \subseteq Content
      BY DEF SettingsInv, SettingsData
    <3>2. [file EXCEPT !.setting = "by hand"] \in Content
      BY <3>1 DEF Content, Setting
    <3> QED
      BY <3>1, <3>2 DEF LoginBegins, EditByHand, StrayRename
  <2>2. attempt' \in SignIn
    <3>1. attempt \in SignIn
      BY DEF SettingsInv, SettingsData
    <3>2. \A n \in Nat, status \in LoginStatus :
            [attempt EXCEPT !.id = n, !.status = status] \in SignIn
      BY <3>1 DEF SignIn
    <3>a. attempt.id + 1 \in Nat /\ {"pending", "none"} \subseteq LoginStatus
      BY <3>1 DEF SignIn, LoginStatus
    <3>3. CASE LoginBegins
      BY <3>2, <3>a, <3>3 DEF LoginBegins
    <3>4. CASE attempt' = attempt
      BY <3>1, <3>4
    <3> QED
      BY <3>3, <3>4 DEF EditByHand, StrayRename
  <2>3. aside' \in Aside
    <3>1. aside \in Aside
      BY DEF SettingsInv, SettingsData
    <3>2. \A n \in Nat : [aside EXCEPT !.restarts = n, !.unsettled = TRUE] \in Aside
      BY <3>1 DEF Aside
    <3>a. aside.restarts + 1 \in Nat
      BY <3>1 DEF Aside
    <3>3. CASE EditByHand
      BY <3>2, <3>a, <3>3 DEF EditByHand
    <3>4. CASE aside' = aside
      BY <3>1, <3>4
    <3> QED
      BY <3>3, <3>4 DEF LoginBegins, StrayRename
  <2>4. strays' \subseteq Content
    BY DEF SettingsInv, SettingsData, LoginBegins, EditByHand, StrayRename
  <2> QED
    BY <1>1, <2>1, <2>2, <2>3, <2>4 DEF SettingsInv, SettingsData
<1>3. FileTrue'
  BY <1>1 DEF SettingsInv, SettingsData, Aside, FileTrue, LoginBegins, EditByHand, StrayRename
<1>4. ASSUME NEW x \in Writer PROVE WriterTrue(x)'
  <2>1. WriterTrue(x) /\ Remembered
    BY <1>1 DEF SettingsInv, Remembered
  <2>2. attempt'.id = attempt.id \/ x \notin turn
    BY DEF LoginBegins, EditByHand, StrayRename
  <2>3. writer[x].pc = "writing" => x \in lock
    BY <2>1 DEF WriterTrue, Saving
  <2>4. aside'.strayed \/ file' = file \/ writer[x].pc # "writing"
    BY <2>3 DEF LoginBegins, EditByHand, StrayRename, SettingsInv, FileTrue
  <2>5. aside'.strayed = aside.strayed
    BY DEF LoginBegins, EditByHand, StrayRename, SettingsInv, SettingsData, Aside
  <2> QED
    BY <1>1, <2>1, <2>2, <2>4, <2>5, OtherKept
<1> QED
  BY <1>2, <1>3, <1>4 DEF SettingsInv

\* A restart forgets every writer and reads the file.
LEMMA RestartTrue ==
  ASSUME SettingsInv, RestartApplication
  PROVE  SettingsInv'
<1>1. /\ held' = file /\ runtime' = file /\ file' = file /\ issued' = issued
      /\ lock' = {} /\ turn' = {} /\ strays' = {}
      /\ ~ aside'.unsettled /\ ~ aside'.strayed
  BY DEF RestartApplication
<1>2. \A x \in Writer : writer'[x] \in WriterState /\ writer'[x].pc \in {"idle", "done"}
  BY SettingsAssumption DEF RestartApplication, Idle, WriterState, WriterPc
<1>3. writer' \in [Writer -> WriterState]
  BY <1>2 DEF RestartApplication
<1>4. /\ attempt' \in SignIn
      /\ aside' \in Aside
  BY DEF SettingsInv, SettingsData, RestartApplication, LoginStatus, SignIn, Aside
<1>5. SettingsData'
  BY <1>1, <1>3, <1>4 DEF SettingsInv, SettingsData
<1>6. FileTrue'
  BY <1>1 DEF FileTrue
<1>7. ASSUME NEW x \in Writer PROVE WriterTrue(x)'
  BY <1>1, <1>2, AsksNothing DEF WriterTrue, Comes, Saving
<1> QED
  BY <1>5, <1>6, <1>7 DEF SettingsInv

\* Steps of the writer that holds the configuration, or takes it.
LEMMA Holding ==
  ASSUME SettingsInv, NEW w \in Writer, NEW s \in WriterState, writer' = [writer EXCEPT ![w] = s],
         lock \subseteq {w}, lock' \subseteq {w},
         turn' \subseteq turn, turn \subseteq turn' \cup {w},
         file' \in Content, held' \in Content, runtime' = held', strays' \subseteq Content,
         aside' \in Aside, aside.strayed => aside'.strayed,
         UNCHANGED <<issued, attempt>>,
         FileTrue', WriterTrue(w)'
  PROVE  SettingsInv'
<1>1. writer' \in [Writer -> WriterState] /\ \A x \in Writer \ {w} : writer'[x] = writer[x]
  BY DEF SettingsInv, SettingsData
<1>2. SettingsData'
  BY <1>1 DEF SettingsInv, SettingsData
<1>3. ASSUME NEW x \in Writer \ {w} PROVE WriterTrue(x)'
  <2>1. WriterTrue(x) /\ Remembered
    BY DEF SettingsInv, Remembered
  <2>2. writer[x].pc # "writing"
    BY <2>1 DEF WriterTrue, Saving
  <2> QED
    BY <1>1, <2>1, <2>2, OtherKept
<1> QED
  BY <1>2, <1>3 DEF SettingsInv

\* A save takes the configuration when nobody has it.
LEMMA SaveBeginsTrue ==
  ASSUME SettingsInv, NEW w \in Writer, SaveBegins(w)
  PROVE  SettingsInv'
<1>1. /\ WriterTrue(w) /\ writer[w] \in WriterState /\ writer[w].pc = "asking" /\ lock = {}
      /\ lock' = {w} /\ UNCHANGED <<file, held, runtime, strays, issued, attempt, turn, aside>>
  BY DEF SettingsInv, SettingsData, SaveBegins
<1> DEFINE s == [writer[w] EXCEPT !.pc = "checking"]
<1>2. /\ s \in WriterState /\ s.pc = "checking" /\ s.base = writer[w].base
      /\ s.next = writer[w].next /\ s.token = writer[w].token /\ s.from = writer[w].from
      /\ writer' = [writer EXCEPT ![w] = s]
  BY <1>1 DEF SaveBegins, WriterState, WriterPc
<1> HIDE DEF s
<1>3. writer'[w] = s
  BY <1>1, <1>2 DEF SettingsInv, SettingsData
<1>4. FileTrue'
  BY <1>1, <1>2, <1>3 DEF SettingsInv, FileTrue
<1>5. Comes(w)'
  BY <1>1, <1>2, <1>3 DEF WriterTrue, Comes, Was, Saving
<1>6. AsksFor(w)'
  BY <1>1, <1>2, <1>3 DEF WriterTrue, AsksFor, Was, Saving
<1>7. WriterTrue(w)'
  BY <1>1, <1>2, <1>3, <1>5, <1>6 DEF WriterTrue, Saving
<1> QED
  BY <1>1, <1>2, <1>4, <1>7, Holding DEF SettingsInv, SettingsData

\* The writer that holds the configuration is the only one.
LEMMA Holder ==
  ASSUME SettingsInv, NEW w \in Writer, writer[w].pc \in Saving
  PROVE  /\ lock = {w} /\ WriterTrue(w) /\ writer[w] \in WriterState
         /\ writer[w].pc # "renamed" /\ ~ aside.unsettled => file = held
<1>1. WriterTrue(w) /\ writer[w] \in WriterState /\ w \in lock
  BY DEF SettingsInv, SettingsData, WriterTrue
<1>2. lock = {w}
  BY <1>1 DEF SettingsInv, FileTrue
<1> QED
  BY <1>1, <1>2 DEF SettingsInv, FileTrue

\* A save that is refused is tried again, fails a sign-in, or is over.
LEMMA RefusedTrue ==
  ASSUME SettingsInv, NEW w \in Writer, NEW conflict \in BOOLEAN,
         writer[w].pc \in {"checking", "writing"}, writer[w].pc = "writing" => ~ conflict,
         SaveRefused(w, conflict), lock' = {},
         UNCHANGED <<file, held, runtime, strays, issued, attempt, aside>>
  PROVE  SettingsInv'
<1>1. /\ lock = {w} /\ WriterTrue(w) /\ writer[w] \in WriterState
      /\ ~ aside.unsettled => file = held
  BY Holder DEF Saving
<1>2. FileTrue'
  BY <1>1 DEF SettingsInv, FileTrue
<1>3. CASE /\ w \notin Page /\ conflict
           /\ writer' = [writer EXCEPT ![w].pc = "reading", ![w].tries = @ + 1]
           /\ UNCHANGED turn
  <2>1. writer[w].tries + 1 \in Nat
    BY <1>1 DEF WriterState
  <2>2. PICK tries \in Nat : tries = writer[w].tries + 1
    BY <2>1
  <2> DEFINE s == [writer[w] EXCEPT !.pc = "reading", !.tries = tries]
  <2>3. /\ s \in WriterState /\ s.pc = "reading" /\ s.token = writer[w].token /\ s.from = writer[w].from
    BY <1>1 DEF WriterState, WriterPc
  <2>4. writer' = [writer EXCEPT ![w] = s]
    BY <1>3, <2>2
  <2> HIDE DEF s
  <2>5. writer'[w] = s
    BY <2>4 DEF SettingsInv, SettingsData
  <2>6. writer[w].pc = "checking"
    BY <1>3
  <2>7. Comes(w)'
    BY <1>1, <1>3, <2>3, <2>5, <2>6 DEF WriterTrue, Comes, Was, Saving
  <2>8. AsksFor(w)'
    BY <2>3, <2>5, AsksNothing DEF Saving
  <2>9. WriterTrue(w)'
    BY <2>3, <2>5, <2>7, <2>8 DEF WriterTrue, Saving
  <2> QED
    BY <1>1, <1>2, <1>3, <2>3, <2>4, <2>9, Holding DEF SettingsInv, SettingsData
<1>4. CASE w \in Delivery /\ writer' = [writer EXCEPT ![w].pc = "failing"] /\ turn' = turn \ {w}
  <2> DEFINE s == [writer[w] EXCEPT !.pc = "failing"]
  <2>1. s \in WriterState /\ s.pc = "failing" /\ writer' = [writer EXCEPT ![w] = s]
    BY <1>1, <1>4 DEF WriterState, WriterPc
  <2> HIDE DEF s
  <2>2. writer'[w] = s
    BY <2>1 DEF SettingsInv, SettingsData
  <2>3. Comes(w)' /\ AsksFor(w)'
    BY <1>4, <2>1, <2>2, AsksNothing, SettingsAssumption DEF Comes, Saving
  <2>4. WriterTrue(w)'
    BY <2>1, <2>2, <2>3 DEF WriterTrue, Saving
  <2> QED
    BY <1>1, <1>2, <1>4, <2>1, <2>4, Holding DEF SettingsInv, SettingsData
<1>5. CASE End(w) /\ UNCHANGED turn
  <2>1. PICK s \in WriterState : /\ writer' = [writer EXCEPT ![w] = s]
                                 /\ s.pc \in {"idle", "done"} /\ (w # Renewal => s.pc = "done")
    BY <1>5, Ended
  <2>2. writer'[w] = s
    BY <2>1 DEF SettingsInv, SettingsData
  <2>3. Comes(w)' /\ AsksFor(w)'
    BY <1>1, <1>5, <2>1, <2>2, AsksNothing DEF WriterTrue, Comes, Saving
  <2>4. WriterTrue(w)'
    BY <2>1, <2>2, <2>3 DEF WriterTrue, Saving
  <2> QED
    BY <1>1, <1>2, <1>5, <2>1, <2>4, Holding DEF SettingsInv, SettingsData
<1> QED
  BY <1>3, <1>4, <1>5 DEF SaveRefused

\* A save that may go ahead replaces what it was made from, by a token that may take its place.
LEMMA SaveCheckedTrue ==
  ASSUME SettingsInv, NEW w \in Writer, SaveChecked(w)
  PROVE  SettingsInv'
<1>1. /\ writer[w].pc = "checking" /\ ~ Conflicts(w)
      /\ UNCHANGED <<file, held, runtime, lock, strays, issued, attempt, turn, aside>>
  BY DEF SaveChecked
<1>2. /\ lock = {w} /\ WriterTrue(w) /\ writer[w] \in WriterState
      /\ ~ aside.unsettled => file = held
  BY <1>1, Holder DEF Saving
<1>3. PICK base \in Content, next \in Sent :
        /\ writer[w].base = {base} /\ writer[w].next = {next}
        /\ w \in Page => next.token = Redacted \/ Was(next.token, "typed")
        /\ w \notin Page => next.token = writer[w].token
        /\ w = Renewal => base.token = writer[w].from
  BY <1>1, <1>2 DEF WriterTrue, AsksFor, Saving
<1>4. base = held /\ base = file /\ held \in Content
  BY <1>1, <1>3 DEF Conflicts, SettingsInv, SettingsData
<1>5. The(writer[w].next) = next
  BY <1>3 DEF The
<1> DEFINE token == IF next.token = Redacted THEN held.token ELSE next.token
<1>6. PICK restored \in Content : restored = Restored(next) /\ restored.token = token
  <2>1. token \in Token /\ next.setting \in Setting
    BY <1>4 DEF Sent, Content
  <2>2. Restored(next) = [next EXCEPT !.token = token]
    BY DEF Restored
  <2> HIDE DEF token
  <2>3. Restored(next) \in Content /\ Restored(next).token = token
    BY <2>1, <2>2 DEF Sent, Content
  <2> QED
    BY <2>3
<1>7. Replaces(w, file.token, token)
  <2>1. CASE w \in Page
    BY <1>3, <1>4, <2>1 DEF Replaces
  <2>2. CASE w = Renewal
    BY <1>1, <1>2, <1>3, <1>4, <2>2, SettingsAssumption DEF WriterTrue, Comes, Replaces
  <2>3. CASE w \in Delivery
    BY <1>1, <1>2, <1>3, <1>4, <2>3, SettingsAssumption DEF WriterTrue, Comes, Replaces, Saving
  <2> QED
    BY <2>1, <2>2, <2>3 DEF Writer
<1>8. Replaces(w, file.token, restored.token)'
  BY <1>1, <1>6, <1>7 DEF Replaces, Was
<1> DEFINE s == [writer[w] EXCEPT !.pc = "writing", !.next = {restored}]
<1>9. s \in WriterState /\ s.pc = "writing" /\ s.base = {base} /\ s.next = {restored}
  <2>1. restored \in Sent
    BY DEF Sent, Content
  <2> QED
    BY <1>2, <1>3, <2>1 DEF WriterState, WriterPc
<1>10. writer' = [writer EXCEPT ![w] = s]
  BY <1>5, <1>6 DEF SaveChecked
<1> HIDE DEF s, token
<1>11. writer'[w] = s
  BY <1>10 DEF SettingsInv, SettingsData
<1>12. Comes(w)'
  BY <1>1, <1>2, <1>9, <1>11 DEF WriterTrue, Comes, Saving
<1>13. AsksFor(w)'
  <2>1. restored \in Sent
    BY DEF Sent, Content
  <2> QED
    BY <1>1, <1>4, <1>8, <1>9, <1>11, <2>1 DEF AsksFor
<1>14. WriterTrue(w)'
  BY <1>1, <1>2, <1>9, <1>11, <1>12, <1>13 DEF WriterTrue, Saving
<1>15. FileTrue'
  BY <1>1, <1>2, <1>9, <1>11 DEF SettingsInv, FileTrue
<1> QED
  BY <1>1, <1>2, <1>9, <1>10, <1>14, <1>15, Holding DEF SettingsInv, SettingsData

\* The rename replaces what the save was made from, by a token that may.
LEMMA SaveRenamedTrue ==
  ASSUME SettingsInv, NEW w \in Writer, SaveRenamed(w)
  PROVE  /\ SettingsInv'
         /\ ~ aside.strayed => writer[w].base = {file} /\ Replaces(w, file.token, file'.token)
<1>1. /\ writer[w].pc = "writing"
      /\ UNCHANGED <<held, runtime, lock, strays, issued, attempt, turn, aside>>
  BY DEF SaveRenamed
<1>2. lock = {w} /\ WriterTrue(w) /\ writer[w] \in WriterState
  BY <1>1, Holder DEF Saving
<1>3. PICK base \in Content, next \in Sent :
        /\ writer[w].base = {base} /\ writer[w].next = {next} /\ next \in Content
        /\ ~ aside.strayed => base = file /\ Replaces(w, file.token, next.token)
  BY <1>1, <1>2 DEF WriterTrue, AsksFor, Saving
<1>4. file' = next
  BY <1>3 DEF SaveRenamed, The
<1> DEFINE s == [writer[w] EXCEPT !.pc = "renamed"]
<1>5. /\ s \in WriterState /\ s.pc = "renamed" /\ s.base = {base} /\ s.next = {next}
      /\ writer' = [writer EXCEPT ![w] = s]
  BY <1>2, <1>3 DEF SaveRenamed, WriterState, WriterPc
<1> HIDE DEF s
<1>6. writer'[w] = s
  BY <1>5 DEF SettingsInv, SettingsData
<1>7. Comes(w)'
  BY <1>1, <1>2, <1>5, <1>6 DEF WriterTrue, Comes, Saving
<1>8. AsksFor(w)'
  BY <1>3, <1>5, <1>6 DEF AsksFor
<1>9. WriterTrue(w)'
  BY <1>1, <1>2, <1>5, <1>6, <1>7, <1>8 DEF WriterTrue, Saving
<1>10. FileTrue'
  BY <1>1, <1>2, <1>4, <1>5, <1>6 DEF SettingsInv, FileTrue
<1>11. SettingsInv'
  BY <1>1, <1>2, <1>3, <1>4, <1>5, <1>9, <1>10, Holding DEF SettingsInv, SettingsData
<1> QED
  BY <1>3, <1>4, <1>11

\* What was renamed becomes what memory holds.
LEMMA SaveAppliedTrue ==
  ASSUME SettingsInv, NEW w \in Writer, SaveApplied(w)
  PROVE  SettingsInv'
<1>1. /\ writer[w].pc = "renamed" /\ lock' = {}
      /\ UNCHANGED <<file, strays, issued, attempt, aside>>
  BY DEF SaveApplied
<1>2. lock = {w} /\ WriterTrue(w) /\ writer[w] \in WriterState
  BY <1>1, Holder DEF Saving
<1>3. PICK next \in Content : writer[w].next = {next}
  BY <1>1, <1>2 DEF WriterTrue, AsksFor, Saving
<1>4. held' = next /\ runtime' = next
  BY <1>3 DEF SaveApplied, The
<1>5. FileTrue'
  BY <1>1, <1>2, <1>3, <1>4 DEF SettingsInv, FileTrue
<1>6. PICK s \in WriterState :
        /\ writer' = [writer EXCEPT ![w] = s] /\ s.pc \in {"idle", "done", "finishing"}
        /\ w \in Page => s.pc = "done"
        /\ turn' = IF w \in Delivery THEN turn \ {w} ELSE turn
  <2>1. CASE w \in Delivery
    <3> DEFINE s == [writer[w] EXCEPT !.pc = "finishing"]
    <3>1. s \in WriterState /\ s.pc = "finishing" /\ writer' = [writer EXCEPT ![w] = s]
      BY <1>2, <2>1 DEF SaveApplied, WriterState, WriterPc
    <3> HIDE DEF s
    <3> QED
      BY <2>1, <3>1, SettingsAssumption DEF SaveApplied
  <2>2. CASE w \notin Delivery
    BY <2>2, Ended, SettingsAssumption DEF SaveApplied
  <2> QED
    BY <2>1, <2>2
<1>7. writer'[w] = s
  BY <1>6 DEF SettingsInv, SettingsData
<1>8. AsksFor(w)'
  BY <1>6, <1>7, AsksNothing DEF Saving
<1>9. Comes(w)'
  BY <1>6, <1>7 DEF Comes, Saving, SettingsInv, SettingsData
<1>10. WriterTrue(w)'
  BY <1>1, <1>6, <1>7, <1>8, <1>9 DEF WriterTrue, Saving
<1> QED
  BY <1>1, <1>2, <1>4, <1>5, <1>6, <1>10, Holding DEF SettingsInv, SettingsData

\* A dropped save leaves the configuration, and perhaps a rename.
LEMMA SaveDroppedTrue ==
  ASSUME SettingsInv, NEW w \in Writer, SaveDropped(w)
  PROVE  SettingsInv'
<1>1. /\ lock' = lock \ {w} /\ turn' = turn \ {w} /\ End(w) /\ w # Renewal
      /\ UNCHANGED <<file, held, runtime, issued, attempt>>
      /\ WriterTrue(w) /\ writer[w] \in WriterState /\ aside \in Aside
  BY SettingsAssumption DEF SaveDropped, SettingsInv, SettingsData
<1>2. PICK s \in WriterState : writer' = [writer EXCEPT ![w] = s] /\ s.pc = "done"
  BY <1>1, Ended
<1>3. writer'[w] = s
  BY <1>2 DEF SettingsInv, SettingsData
<1>4. AsksFor(w)' /\ Comes(w)'
  BY <1>1, <1>2, <1>3, AsksNothing DEF Comes, Saving
<1>5. aside' \in Aside
  BY <1>1 DEF SaveDropped, Aside
<1>6. /\ aside'.unsettled <=> (aside.unsettled \/ writer[w].pc = "renamed" \/ strays' # strays)
      /\ aside'.strayed <=> (aside.strayed \/ strays' # strays)
  BY <1>1 DEF SaveDropped, Aside
<1>7. CASE w \in lock
  <2>1. lock = {w} /\ writer[w].pc \in Saving
    BY <1>1, <1>7, Holder DEF WriterTrue
  <2>2. strays' \subseteq Content
    <3>1. writer[w].pc = "writing" => writer[w].next \subseteq Content
      BY <1>1 DEF WriterTrue, AsksFor, Saving
    <3> QED
      BY <3>1 DEF SaveDropped, SettingsInv, SettingsData
  <2>3. FileTrue'
    BY <1>1, <1>6, <2>1 DEF SettingsInv, FileTrue
  <2>4. WriterTrue(w)'
    BY <1>1, <1>2, <1>3, <1>4 DEF WriterTrue, Saving
  <2> QED
    BY <1>1, <1>2, <1>5, <1>6, <2>1, <2>2, <2>3, <2>4, Holding DEF SettingsInv, SettingsData
<1>8. CASE w \notin lock
  <2>1. writer[w].pc \notin Saving
    BY <1>1, <1>8 DEF WriterTrue
  <2>2. strays' = strays /\ lock' = lock
    BY <1>1, <1>8, <2>1 DEF SaveDropped, Saving
  <2>3. writer' \in [Writer -> WriterState] /\ \A x \in Writer \ {w} : writer'[x] = writer[x]
    BY <1>2 DEF SettingsInv, SettingsData
  <2>4. SettingsData'
    BY <1>1, <1>5, <2>2, <2>3 DEF SettingsInv, SettingsData
  <2>5. \A x \in lock : writer'[x] = writer[x]
    BY <1>8, <2>3 DEF SettingsInv, SettingsData
  <2>6. (aside'.unsettled <=> aside.unsettled) /\ (aside'.strayed <=> aside.strayed)
    BY <1>6, <2>1, <2>2 DEF Saving
  <2>7. FileTrue'
    BY <1>1, <2>2, <2>5, <2>6 DEF SettingsInv, FileTrue
  <2>8. ASSUME NEW x \in Writer \ {w} PROVE WriterTrue(x)'
    <3>1. WriterTrue(x) /\ Remembered
      BY <1>1 DEF SettingsInv, Remembered
    <3> QED
      BY <1>1, <2>2, <2>3, <2>6, <3>1, OtherKept
  <2>9. WriterTrue(w)'
    BY <1>2, <1>3, <1>4, <1>8, <2>2 DEF WriterTrue, Saving
  <2> QED
    BY <2>4, <2>7, <2>8, <2>9 DEF SettingsInv
<1> QED
  BY <1>7, <1>8

\* Every step of a writer, a person or a restart keeps the invariant.
LEMMA SettingsStep ==
  ASSUME SettingsInv, [SettingsNext]_settings_vars
  PROVE  SettingsInv'
<1>1. CASE UNCHANGED settings_vars
  <2>1. /\ SettingsData' /\ FileTrue' /\ Remembered
    BY <1>1 DEF settings_vars, SettingsInv, SettingsData, FileTrue, Remembered
  <2>2. ASSUME NEW x \in Writer PROVE WriterTrue(x)'
    BY <1>1, <2>1, OtherKept DEF settings_vars, SettingsInv
  <2> QED
    BY <2>1, <2>2 DEF SettingsInv
<1>2. ASSUME NEW w \in Writer, SaveStep(w) PROVE SettingsInv'
  <2>1. CASE SaveConflicts(w)
    BY <2>1, RefusedTrue DEF SaveConflicts
  <2>2. CASE SaveInvalid(w)
    BY <2>2, RefusedTrue DEF SaveInvalid
  <2> QED
    BY <1>2, <2>1, <2>2, SaveBeginsTrue, SaveCheckedTrue, SaveRenamedTrue, SaveAppliedTrue,
       SaveDroppedTrue DEF SaveStep
<1>3. ASSUME NEW p \in Page, OpenPage(p) \/ SubmitPage(p) PROVE SettingsInv'
  BY <1>3, PageTrue
<1>4. CASE LoginBegins \/ EditByHand \/ (\E content \in strays : StrayRename(content))
  BY <1>4, AsideTrue
<1>5. CASE RestartApplication
  BY <1>5, RestartTrue
<1>6. CASE RenewalDue \/ Refreshed
  BY <1>6, RenewalTrue
<1>7. ASSUME NEW w \in Writer \ Page, ReadCurrent(w) PROVE SettingsInv'
  BY <1>7, ReadCurrentTrue
<1>8. ASSUME NEW d \in Delivery,
             \/ LoginRedirected(d) \/ LoginPasted(d) \/ DevicePolled(d)
             \/ CodeExchanged(d) \/ PersistIfActive(d) \/ LoginFinished(d)
      PROVE  SettingsInv'
  BY <1>8, ArrivalTrue, ExchangeTrue, PersistTrue
<1> QED
  BY <1>1, <1>2, <1>3, <1>4, <1>5, <1>6, <1>7, <1>8 DEF SettingsNext

\* The configuration as it is first read.
LEMMA SettingsInitTrue == SettingsInit => SettingsInv
<1> SUFFICES ASSUME SettingsInit PROVE SettingsInv
  OBVIOUS
<1>1. file \in Content
  BY SettingsAssumption DEF SettingsInit, Content, Setting, Token
<1>2. Idle \in WriterState /\ Idle.pc = "idle"
  BY SettingsAssumption DEF Idle, WriterState, WriterPc
<1>3. /\ issued \in Seq([kind : {"typed", "renewal", "sign-in"}, from : Nat])
      /\ Len(issued) <= MaxTokens
  <2>1. [kind |-> "typed", from |-> 0] \in [kind : {"typed", "renewal", "sign-in"}, from : Nat]
    OBVIOUS
  <2> QED
    BY <2>1, SettingsAssumption DEF SettingsInit
<1>4. attempt \in SignIn /\ aside \in Aside
  BY DEF SettingsInit, SignIn, Aside, LoginStatus
<1>5. writer \in [Writer -> WriterState] /\ \A w \in Writer : writer[w] = Idle
  BY <1>2 DEF SettingsInit
<1>6. SettingsData
  BY <1>1, <1>3, <1>4, <1>5 DEF SettingsInit, SettingsData
<1>7. FileTrue
  BY DEF SettingsInit, FileTrue
<1>8. ASSUME NEW w \in Writer PROVE WriterTrue(w)
  BY <1>2, <1>5 DEF SettingsInit, WriterTrue, Comes, AsksFor, Saving
<1> QED
  BY <1>6, <1>7, <1>8 DEF SettingsInv

\* What a step that changes the file may do.
Follows ==
  file' # file =>
    \/ aside' # aside
    \/ aside.strayed
    \/ \E w \in lock : writer[w].base = {file} /\ MayReplace(file.token, file'.token)

\* Every step that changes the file follows what was there.
LEMMA StepFollows ==
  ASSUME SettingsInv, SettingsNext
  PROVE  Follows
<1>1. CASE EditByHand
  <2>1. aside \in Aside
    BY DEF SettingsInv, SettingsData
  <2>2. PICK n \in Nat : n = aside.restarts + 1 /\ n # aside.restarts
    BY <2>1 DEF Aside
  <2>3. aside' = [aside EXCEPT !.restarts = n, !.unsettled = TRUE]
    BY <1>1, <2>2 DEF EditByHand
  <2>4. aside'.restarts = n
    BY <2>1, <2>3 DEF Aside
  <2> QED
    BY <2>2, <2>4 DEF Follows
<1>2. CASE \E content \in strays : StrayRename(content)
  BY <1>2 DEF SettingsInv, FileTrue, Follows
<1>3. ASSUME NEW w \in Writer, SaveRenamed(w) PROVE Follows
  <2>1. ~ aside.strayed => writer[w].base = {file} /\ Replaces(w, file.token, file'.token)
    BY <1>3, SaveRenamedTrue
  <2>2. w \in lock
    BY <1>3, Holder DEF SaveRenamed, Saving
  <2>3. ASSUME NEW old, NEW new, Replaces(w, old, new) PROVE MayReplace(old, new)
    BY <2>3 DEF Replaces, Was, MayReplace
  <2> QED
    BY <2>1, <2>2, <2>3 DEF Follows
<1>4. ASSUME NEW w \in Writer, SaveStep(w), ~ SaveRenamed(w) PROVE file' = file
  BY <1>4 DEF SaveStep, SaveBegins, SaveConflicts, SaveInvalid, SaveChecked, SaveApplied,
     SaveDropped
<1>5. ASSUME NEW p \in Page, OpenPage(p) \/ SubmitPage(p) PROVE file' = file
  BY <1>5 DEF OpenPage, SubmitPage
<1>6. ASSUME LoginBegins \/ RestartApplication \/ RenewalDue \/ Refreshed PROVE file' = file
  BY <1>6 DEF LoginBegins, RestartApplication, RenewalDue, Refreshed
<1>7. ASSUME NEW w \in Writer \ Page, ReadCurrent(w) PROVE file' = file
  BY <1>7 DEF ReadCurrent
<1>8. ASSUME NEW d \in Delivery,
             \/ LoginRedirected(d) \/ LoginPasted(d) \/ DevicePolled(d)
             \/ CodeExchanged(d) \/ PersistIfActive(d) \/ LoginFinished(d)
      PROVE  file' = file
  BY <1>8 DEF LoginRedirected, LoginPasted, Arrives, DevicePolled, CodeExchanged, PersistIfActive,
              LoginFinished
<1>9. Follows \/ file' = file
  BY <1>1, <1>2, <1>3, <1>4, <1>5, <1>6, <1>7, <1>8 DEF SettingsNext
<1> QED
  BY <1>9 DEF Follows

\* The inductive invariant holds throughout: saves hold the configuration one at
\* a time, and each asks for a token it may put in the place of the one it read.
THEOREM SettingsSafe == SettingsSpec => []SettingsInv
BY SettingsInitTrue, SettingsStep, PTL DEF SettingsSpec

\* Whatever saves, conflicts, failures, sign-ins, renewals and restarts came
\* before, no save under way means that file, memory and what runs agree, but for
\* a person's own edit and a save dropped once its rename had begun.
THEOREM FileIsHeld == SettingsSpec => []FileAsHeld
<1>1. SettingsInv => FileAsHeld
  BY DEF SettingsInv, SettingsData, FileTrue, FileAsHeld
<1> QED
  BY <1>1, SettingsSafe, PTL

\* No save undoes another: each rename of save_config replaces the very content
\* it was made from, and a token gives way only to one typed in, to its own
\* renewal, or to the latest sign-in's.
THEOREM SavesDoFollow == SettingsSpec => SavesFollow
<1>1. SettingsInv /\ [SettingsNext]_settings_vars => [Follows]_settings_vars
  BY StepFollows
<1>2. SettingsSpec => [][Follows]_settings_vars
  BY <1>1, SettingsSafe, PTL DEF SettingsSpec
<1> QED
  BY <1>2 DEF SavesFollow, Follows

-----------------------------------------------------------------------------
\* An instance of a server.
McpInstance ==
  [endpoint : [reached : Nat, key : McpKeys], connection : McpConnection,
   closing : BOOLEAN, late : BOOLEAN]

\* Where a request can be.
RequestPc ==
  {"idle", "found", "holding", "opening", "connected", "calling", "checking", "done"}

\* What is kept of a request.
RequestState ==
  [pc : RequestPc, kind : {"call", "list", "check"}, session : McpSession,
   snapshot : SUBSET McpSettings, at : Nat]

\* The types of the hub's state.  One apply is in progress at most.
McpData ==
  /\ settings \in McpSettings /\ previous \subseteq McpSettings
  /\ \A a, b \in previous : a = b
  /\ instances \in Seq(McpInstance)
  /\ table \in [Owner -> 0 .. Len(instances)]
  /\ request \in [McpRequest -> RequestState]

\* Where a request holds an instance.
AtAnInstance == {"holding", "opening", "connected", "calling"}

\* A request holds the instance it is at, has read one configuration, in which
\* the server was on unless it is only checked, and opens a connection alone.
RequestTrue(r) ==
  /\ request[r].at \in 0 .. Len(instances)
  /\ request[r].pc \in AtAnInstance <=> request[r].at # 0
  /\ request[r].pc \in AtAnInstance \cup {"found", "checking"} =>
       \E read \in McpSettings : /\ request[r].snapshot = {read}
                                 /\ request[r].pc # "checking" => read.config.enabled
  /\ request[r].pc = "opening" =>
       /\ instances[request[r].at].connection = "opening"
       /\ \A q \in McpRequest : request[q].pc = "opening" /\ request[q].at = request[r].at => q = r

\* A connection that was ended is held by nobody; one that is being opened is
\* by a request; one that is open has someone to end it.
InstanceTrue(i) ==
  /\ instances[i].connection = "shut" => Holders(i) = {}
  /\ instances[i].connection = "opening" => \E r \in Holders(i) : request[r].pc = "opening"
  /\ instances[i].connection = "open" => Listed(i) \/ Holders(i) # {} \/ instances[i].closing

\* The instance an owner would use is reached as the configuration says, or was
\* entered late.
Fit(o) ==
  table[o] # 0 =>
    \/ instances[table[o]].late
    \/ /\ settings.config.enabled
       /\ instances[table[o]].endpoint = Endpoint(settings.config, settings.key)

\* Tools are those of the configuration in force, of the one an apply is about
\* to leave, or were written late.
CatalogTrue ==
  \A tools \in catalog :
    \/ tools.late \/ tools.reached = settings.config.reached
    \/ \E old \in previous : tools.reached = old.config.reached

\* The inductive invariant of the hub.
McpInv ==
  /\ McpData
  /\ \A r \in McpRequest : RequestTrue(r)
  /\ \A i \in DOMAIN instances : InstanceTrue(i)
  /\ previous = {} => \A o \in Owner : Fit(o)
  /\ CatalogTrue

-----------------------------------------------------------------------------
\* Instances keep their number, how they are reached and when they were made.
Kept ==
  /\ DOMAIN instances' = DOMAIN instances
  /\ instances' \in Seq(McpInstance) /\ Len(instances') = Len(instances)
  /\ \A i \in DOMAIN instances :
       /\ instances'[i].endpoint = instances[i].endpoint
       /\ instances'[i].late = instances[i].late

\* A change of connections and closings alone leaves a sequence of instances.
LEMMA InstancesKept ==
  ASSUME McpData,
         DOMAIN instances' = DOMAIN instances,
         instances' \in [DOMAIN instances -> McpInstance],
         \A i \in DOMAIN instances :
           /\ instances'[i].endpoint = instances[i].endpoint
           /\ instances'[i].late = instances[i].late
  PROVE  Kept
<1>1. instances \in Seq(McpInstance) /\ Len(instances) \in Nat /\ DOMAIN instances = 1 .. Len(instances)
  BY DEF McpData
<1>2. instances' \in Seq(McpInstance)
  BY <1>1, SeqDef
<1>3. DOMAIN instances' = 1 .. Len(instances') /\ Len(instances') \in Nat
  BY <1>2
<1>4. Len(instances') = Len(instances)
  BY <1>1, <1>3
<1> QED
  BY <1>2, <1>4 DEF Kept

\* Who is still in the table was there, as it was.
LEMMA FitKept ==
  ASSUME McpInv, Kept, UNCHANGED <<settings, previous>>,
         \A o \in Owner : table'[o] # 0 => table'[o] = table[o]
  PROVE  previous' = {} => \A o \in Owner : Fit(o)'
<1> SUFFICES ASSUME previous = {}, NEW o \in Owner, table'[o] # 0 PROVE Fit(o)'
  BY DEF Fit
<1>1. Fit(o) /\ table[o] # 0 /\ table'[o] = table[o] /\ table[o] \in DOMAIN instances
  BY DEF McpInv, McpData
<1>2. /\ instances'[table[o]].endpoint = instances[table[o]].endpoint
      /\ instances'[table[o]].late = instances[table[o]].late
  BY <1>1 DEF Kept
<1> QED
  BY <1>1, <1>2 DEF Fit

\* What a request learnt is of the settings in force, or late.
LEMMA Learnt ==
  ASSUME McpInv, NEW r \in McpRequest, request[r].pc \in AtAnInstance \cup {"checking"},
         NEW tools \in ToolsRead(Snapshot(r)), UNCHANGED <<settings, previous>>,
         catalog' = Learn(tools) \/ catalog' = tools
  PROVE  CatalogTrue'
<1>1. PICK read \in McpSettings : request[r].snapshot = {read}
  BY DEF McpInv, RequestTrue
<1>2. Snapshot(r) = read
  BY <1>1 DEF Snapshot
<1>3. ASSUME NEW known \in tools PROVE known.late \/ known.reached = settings.config.reached
  <2>1. known = [reached |-> read.config.reached, late |-> read # settings]
    BY <1>2 DEF ToolsRead
  <2>2. known.reached = read.config.reached /\ known.late = (read # settings)
    BY <2>1
  <2>3. CASE read = settings
    BY <2>2, <2>3
  <2>4. CASE read # settings
    BY <2>2, <2>4
  <2> QED
    BY <2>3, <2>4
<1>4. CatalogTrue
  BY DEF McpInv
<1> QED
  BY <1>3, <1>4 DEF CatalogTrue, Learn

\* One request moves.
LEMMA OneMoves ==
  ASSUME McpData, NEW r \in McpRequest, NEW s \in RequestState, request' = [request EXCEPT ![r] = s]
  PROVE  /\ request' \in [McpRequest -> RequestState] /\ request'[r] = s
         /\ \A q \in McpRequest \ {r} : request'[q] = request[q]
         /\ \A i \in Nat : Holders(i)' = IF s.at = i THEN Holders(i) \cup {r} ELSE Holders(i) \ {r}
BY DEF McpData, Holders

\* A request that is over.
Done == [Unasked EXCEPT !.pc = "done"]

\* Requests that have not begun, or are over, hold nothing.
LEMMA UnaskedType ==
  /\ Unasked \in RequestState /\ Unasked.pc = "idle" /\ Unasked.at = 0
  /\ Done \in RequestState /\ Done.pc = "done" /\ Done.at = 0
BY McpAssumption DEF Unasked, Done, RequestState, RequestPc

\* A request moves without taking or leaving an instance.
LEMMA MovesAlone ==
  ASSUME McpInv, NEW r \in McpRequest, NEW s \in RequestState, request' = [request EXCEPT ![r] = s],
         s.at = request[r].at, s.pc # "opening", request[r].pc # "opening",
         s.pc \in AtAnInstance <=> s.at # 0,
         s.pc \in AtAnInstance \cup {"found", "checking"} =>
            \E read \in McpSettings : s.snapshot = {read} /\ (s.pc # "checking" => read.config.enabled),
         UNCHANGED <<settings, previous, table, instances>>, CatalogTrue'
  PROVE  McpInv'
<1>1. /\ request' \in [McpRequest -> RequestState] /\ request'[r] = s
      /\ \A q \in McpRequest \ {r} : request'[q] = request[q]
  BY OneMoves DEF McpInv
<1>2. McpData'
  BY <1>1 DEF McpInv, McpData
<1>3. ASSUME NEW q \in McpRequest PROVE RequestTrue(q)'
  BY <1>1 DEF McpInv, RequestTrue
<1>4. \A i : Holders(i)' = Holders(i) /\ Listed(i)' = Listed(i)
  BY <1>1 DEF Holders, Listed
<1>5. ASSUME NEW i \in DOMAIN instances PROVE InstanceTrue(i)'
  BY <1>1, <1>4 DEF McpInv, InstanceTrue
<1>6. Kept
  BY DEF Kept, McpInv, McpData
<1> QED
  BY <1>2, <1>3, <1>5, <1>6, FitKept DEF McpInv

\* Requests that begin, call, check and are refused.
LEMMA PlainRequest ==
  ASSUME McpInv, NEW r \in McpRequest,
         \/ \E kind \in {"call", "list"}, s \in McpSession : McpFind(r, kind, s)
         \/ McpCall(r) \/ McpCheckBegins(r) \/ McpCheckEnds(r)
  PROVE  McpInv'
<1>1. /\ RequestTrue(r) /\ request[r] \in RequestState /\ settings \in McpSettings /\ CatalogTrue
      /\ UNCHANGED <<settings, previous, table, instances>>
  BY DEF McpInv, McpData, McpFind, McpCall, McpCheckBegins, McpCheckEnds
<1>2. CASE request[r].pc \in {"idle", "checking"} /\ Finish(r) /\ CatalogTrue'
  <2>1. request[r].at = 0
    BY <1>1, <1>2 DEF RequestTrue, AtAnInstance
  <2>2. request' = [request EXCEPT ![r] = Done]
    BY <1>2 DEF Finish, Done
  <2> QED
    BY <1>1, <1>2, <2>1, <2>2, UnaskedType, MovesAlone DEF AtAnInstance
<1>3. ASSUME NEW kind \in {"call", "list"}, NEW s \in McpSession, McpFind(r, kind, s)
      PROVE  McpInv'
  <2>1. catalog' = catalog /\ CatalogTrue'
    BY <1>1, <1>3 DEF McpFind, CatalogTrue
  <2>2. CASE Finish(r)
    BY <1>2, <1>3, <2>1, <2>2 DEF McpFind
  <2>3. CASE ~ Finish(r)
    <3> DEFINE now == [request[r] EXCEPT !.kind = kind, !.session = s, !.pc = "found",
                         !.snapshot = {settings}]
    <3>1. /\ now \in RequestState /\ now.pc = "found" /\ now.snapshot = {settings}
          /\ now.at = request[r].at
      BY <1>1 DEF RequestState, RequestPc
    <3>2. request' = [request EXCEPT ![r] = now] /\ settings.config.enabled
      BY <1>3, <2>3 DEF McpFind
    <3> HIDE DEF now
    <3>3. request[r].at = 0
      BY <1>1, <1>3 DEF McpFind, RequestTrue, AtAnInstance
    <3>4. \E read \in McpSettings : now.snapshot = {read} /\ read.config.enabled
      BY <1>1, <3>1, <3>2
    <3> QED
      BY <1>1, <1>3, <2>1, <3>1, <3>2, <3>3, <3>4, MovesAlone DEF McpFind, AtAnInstance
  <2> QED
    BY <2>2, <2>3
<1>4. CASE McpCall(r)
  <2> DEFINE now == [request[r] EXCEPT !.pc = "calling"]
  <2>1. /\ now \in RequestState /\ now.pc = "calling" /\ now.snapshot = request[r].snapshot
        /\ now.at = request[r].at /\ request' = [request EXCEPT ![r] = now]
    BY <1>1, <1>4 DEF McpCall, RequestState, RequestPc
  <2> HIDE DEF now
  <2>2. CatalogTrue'
    BY <1>1, <1>4 DEF McpCall, CatalogTrue
  <2>3. request[r].at # 0 /\ \E read \in McpSettings : now.snapshot = {read} /\ read.config.enabled
    BY <1>1, <1>4, <2>1 DEF McpCall, RequestTrue, AtAnInstance
  <2> QED
    BY <1>1, <1>4, <2>1, <2>2, <2>3, MovesAlone DEF McpCall, AtAnInstance
<1>5. CASE McpCheckBegins(r)
  <2> DEFINE now == [request[r] EXCEPT !.kind = "check", !.snapshot = {settings}, !.pc = "checking"]
  <2>1. /\ now \in RequestState /\ now.pc = "checking" /\ now.snapshot = {settings}
        /\ now.at = request[r].at /\ request' = [request EXCEPT ![r] = now]
    BY <1>1, <1>5 DEF McpCheckBegins, RequestState, RequestPc
  <2> HIDE DEF now
  <2>2. CatalogTrue' /\ request[r].at = 0
    BY <1>1, <1>5 DEF McpCheckBegins, CatalogTrue, RequestTrue, AtAnInstance
  <2> QED
    BY <1>1, <1>5, <2>1, <2>2, MovesAlone DEF McpCheckBegins, AtAnInstance
<1>6. CASE McpCheckEnds(r)
  <2>1. CatalogTrue'
    BY <1>1, <1>6, Learnt DEF McpCheckEnds
  <2> QED
    BY <1>2, <1>6, <2>1 DEF McpCheckEnds
<1> QED
  BY <1>3, <1>4, <1>5, <1>6

\* A request leaves its instance; the connection goes with the last holder.
LEMMA LeaveInstance ==
  ASSUME McpInv, NEW r \in McpRequest, request[r].pc \in {"holding", "connected", "calling"},
         instances' = LetGo(r, instances), Finish(r),
         UNCHANGED <<settings, previous, table>>, CatalogTrue'
  PROVE  McpInv'
<1>1. /\ RequestTrue(r) /\ instances \in Seq(McpInstance) /\ DOMAIN instances = 1 .. Len(instances)
      /\ request' = [request EXCEPT ![r] = Done] /\ Len(instances) \in Nat
  BY DEF McpInv, McpData, Finish, Done
<1>2. /\ request' \in [McpRequest -> RequestState] /\ request'[r] = Done
      /\ \A q \in McpRequest \ {r} : request'[q] = request[q]
      /\ \A i \in Nat \ {0} : Holders(i)' = Holders(i) \ {r}
  BY <1>1, OneMoves, UnaskedType DEF McpInv
<1>3. PICK at \in DOMAIN instances : at = request[r].at /\ r \in Holders(at)
  BY <1>1 DEF RequestTrue, AtAnInstance, Holders
<1>4. \A i \in DOMAIN instances : instances[i] \in McpInstance
  BY <1>1
<1>5. ASSUME NEW i \in DOMAIN instances
      PROVE  /\ instances'[i] \in McpInstance
             /\ instances'[i].endpoint = instances[i].endpoint
             /\ instances'[i].late = instances[i].late /\ instances'[i].closing = instances[i].closing
             /\ instances'[i].connection =
                  IF /\ i = at /\ Holders(i) = {r} /\ ~ Listed(i) /\ ~ instances[i].closing
                     /\ instances[i].connection = "open"
                  THEN "shut" ELSE instances[i].connection
  BY <1>3, <1>4 DEF LetGo, McpInstance, McpConnection
<1>6. instances' \in [DOMAIN instances -> McpInstance] /\ DOMAIN instances' = DOMAIN instances
  BY <1>5 DEF LetGo
<1>7. Kept
  BY <1>5, <1>6, InstancesKept DEF McpInv
<1>8. McpData'
  BY <1>2, <1>7 DEF McpInv, McpData, Kept
<1>9. ASSUME NEW q \in McpRequest PROVE RequestTrue(q)'
  <2>1. CASE q = r
    BY <1>2, <1>7, <1>1, UnaskedType, <2>1 DEF RequestTrue, AtAnInstance, Kept
  <2>2. CASE q # r
    <3>1. request'[q] = request[q] /\ RequestTrue(q)
      BY <1>2, <2>2 DEF McpInv
    <3>2. request[q].pc = "opening" =>
            /\ instances'[request[q].at].connection = "opening"
            /\ \A p \in McpRequest : request'[p].pc = "opening" /\ request'[p].at = request[q].at => p = q
      BY <1>1, <1>2, <1>5, <3>1, UnaskedType DEF RequestTrue, AtAnInstance
    <3> QED
      BY <1>7, <3>1, <3>2 DEF RequestTrue, Kept
  <2> QED
    BY <2>1, <2>2
<1>10. ASSUME NEW i \in DOMAIN instances PROVE InstanceTrue(i)'
  <2>1. InstanceTrue(i) /\ Holders(i)' = Holders(i) \ {r} /\ (Listed(i)' <=> Listed(i))
    BY <1>1, <1>2 DEF McpInv, Listed
  <2>2. \A q \in Holders(i) : request[q].pc = "opening" => q # r /\ request'[q].pc = "opening"
    BY <1>2 DEF Holders
  <2>3. i # at => r \notin Holders(i)
    BY <1>3 DEF Holders
  <2> QED
    BY <1>5, <2>1, <2>2, <2>3 DEF InstanceTrue
<1> QED
  BY <1>6, <1>7, <1>8, <1>9, <1>10, FitKept DEF McpInv

\* A request opens the connection of its instance, has opened it, or gives up.
LEMMA OpeningTrue ==
  ASSUME McpInv, NEW r \in McpRequest, McpConnect(r) \/ McpOpened(r) \/ McpOpenFailed(r)
  PROVE  McpInv'
<1>1. /\ RequestTrue(r) /\ instances \in Seq(McpInstance) /\ DOMAIN instances = 1 .. Len(instances)
      /\ request[r] \in RequestState /\ Len(instances) \in Nat
      /\ request[r].pc \in {"holding", "opening"}
      /\ UNCHANGED <<settings, previous, table>>
  BY DEF McpInv, McpData, McpConnect, McpOpened, McpOpenFailed
<1>2. PICK at \in DOMAIN instances : at = request[r].at /\ r \in Holders(at)
  BY <1>1 DEF RequestTrue, AtAnInstance, Holders
<1>3. PICK read \in McpSettings : request[r].snapshot = {read} /\ read.config.enabled
  BY <1>1 DEF RequestTrue, AtAnInstance
<1>4. instances[at] \in McpInstance
  BY <1>1
<1>5. CatalogTrue'
  <2>1. CatalogTrue
    BY DEF McpInv
  <2>2. CASE McpOpened(r)
    BY <1>1, <2>2, Learnt DEF McpOpened, AtAnInstance
  <2>3. CASE ~ McpOpened(r)
    BY <2>1, <2>3, <1>1 DEF McpConnect, McpOpenFailed, CatalogTrue
  <2> QED
    BY <2>2, <2>3
<1>6. CASE McpConnect(r) /\ instances' = instances
  <2> DEFINE now == [request[r] EXCEPT !.pc = "connected"]
  <2>1. /\ now \in RequestState /\ now.pc = "connected" /\ now.snapshot = {read}
        /\ now.at = at /\ request[r].pc = "holding"
    BY <1>1, <1>2, <1>3, <1>6 DEF McpConnect, RequestState, RequestPc
  <2>2. request' = [request EXCEPT ![r] = now]
    <3>1. instances[at].connection = "none" =>
            instances' # [instances EXCEPT ![at].connection = "opening"]
      BY <1>2, <1>4, <1>6 DEF McpInstance
    <3> QED
      BY <1>2, <1>6, <3>1 DEF McpConnect
  <2> HIDE DEF now
  <2>3. at # 0 /\ (now.pc \in AtAnInstance <=> now.at # 0) /\ now.pc # "opening"
    BY <1>1, <2>1 DEF AtAnInstance
  <2>4. \E any \in McpSettings : now.snapshot = {any} /\ any.config.enabled
    BY <1>3, <2>1
  <2> QED
    BY <1>1, <1>2, <1>5, <1>6, <2>1, <2>2, <2>3, <2>4, MovesAlone
<1>7. ASSUME NEW connection \in {"opening", "open", "none"}, NEW now \in RequestState,
             instances' = [instances EXCEPT ![at].connection = connection],
             request' = [request EXCEPT ![r] = now],
             \/ connection = "opening" /\ instances[at].connection = "none" /\ now.pc = "opening"
             \/ connection = "open" /\ request[r].pc = "opening" /\ now.pc = "connected"
             \/ connection = "none" /\ request[r].pc = "opening" /\ now = Done,
             now # Done => now.at = at /\ now.snapshot = {read}
      PROVE  McpInv'
  <2>1. /\ request' \in [McpRequest -> RequestState] /\ request'[r] = now
        /\ \A q \in McpRequest \ {r} : request'[q] = request[q]
        /\ \A i \in Nat : Holders(i)' = IF now.at = i THEN Holders(i) \cup {r} ELSE Holders(i) \ {r}
    BY <1>7, OneMoves DEF McpInv
  <2>2. ASSUME NEW i \in DOMAIN instances
        PROVE  /\ instances'[i] \in McpInstance
               /\ instances'[i].endpoint = instances[i].endpoint
               /\ instances'[i].late = instances[i].late /\ instances'[i].closing = instances[i].closing
               /\ instances'[i].connection = IF i = at THEN connection ELSE instances[i].connection
    <3>1. instances[i] \in McpInstance
      BY <1>1
    <3> QED
      BY <1>1, <1>7, <3>1 DEF McpInstance, McpConnection
  <2>3. instances' \in [DOMAIN instances -> McpInstance] /\ DOMAIN instances' = DOMAIN instances
    BY <1>1, <1>7, <2>2
  <2>4. Kept
    BY <2>2, <2>3, InstancesKept DEF McpInv
  <2>5. McpData'
    BY <1>1, <2>1, <2>4 DEF McpInv, McpData, Kept
  <2>6. now.pc = "connected" \/ now.pc = "opening" \/ (now.pc = "done" /\ now.at = 0)
    BY <1>7, UnaskedType
  <2>7. Done.pc = "done"
    BY UnaskedType
  <2>8. ASSUME NEW q \in McpRequest, request[q].pc = "opening", request[q].at = at PROVE q = r
    <3>1. RequestTrue(q)
      BY DEF McpInv
    <3> QED
      BY <1>1, <1>2, <1>7, <2>8, <3>1 DEF RequestTrue
  <2>9. ASSUME NEW q \in McpRequest PROVE RequestTrue(q)'
    <3>1. CASE q = r
      <4>1. Len(instances') = Len(instances) /\ at \in 0 .. Len(instances) /\ at # 0
        BY <1>1, <2>4 DEF Kept
      <4>2. instances'[at].connection = connection
        BY <2>2
      <4>3. \A p \in McpRequest : request'[p].pc = "opening" /\ request'[p].at = at => p = r
        BY <2>1, <2>8
      <4> QED
        BY <1>1, <1>3, <1>7, <2>1, <2>6, <2>7, <3>1, <4>1, <4>2, <4>3 DEF RequestTrue, AtAnInstance
    <3>2. CASE q # r
      <4>1. request'[q] = request[q] /\ RequestTrue(q)
        BY <2>1, <3>2 DEF McpInv
      <4>2. ASSUME request[q].pc = "opening"
            PROVE  /\ instances'[request[q].at].connection = "opening"
                   /\ \A p \in McpRequest :
                        request'[p].pc = "opening" /\ request'[p].at = request[q].at => p = q
        <5>1. request[q].at # at /\ request[q].at \in DOMAIN instances
          BY <1>1, <2>8, <3>2, <4>1, <4>2 DEF RequestTrue, AtAnInstance
        <5>2. instances[request[q].at].connection = "opening"
          BY <4>1, <4>2 DEF RequestTrue
        <5> QED
          BY <1>7, <2>1, <2>2, <2>6, <2>7, <4>1, <4>2, <5>1, <5>2 DEF RequestTrue
      <4> QED
        BY <2>4, <4>1, <4>2 DEF RequestTrue, Kept
    <3> QED
      BY <3>1, <3>2
  <2>10. ASSUME NEW i \in DOMAIN instances PROVE InstanceTrue(i)'
    <3>1. /\ InstanceTrue(i) /\ (Listed(i)' <=> Listed(i))
          /\ Holders(i)' = IF now.at = i THEN Holders(i) \cup {r} ELSE Holders(i) \ {r}
      BY <1>1, <2>1 DEF McpInv, Listed
    <3>2. CASE i = at
      <4>1. instances'[i].connection = connection
        BY <2>2, <3>2
      <4>2. now # Done => r \in Holders(i)' /\ request'[r].pc = now.pc
        BY <1>7, <2>1, <3>1, <3>2
      <4>3. CASE connection = "none"
        BY <4>1, <4>3 DEF InstanceTrue
      <4>4. CASE connection = "opening" /\ now.pc = "opening"
        BY <2>7, <4>1, <4>2, <4>4 DEF InstanceTrue
      <4>5. CASE connection = "open" /\ now.pc = "connected"
        BY <2>7, <4>1, <4>2, <4>5 DEF InstanceTrue
      <4> QED
        BY <1>7, <4>3, <4>4, <4>5
    <3>3. CASE i # at
      <4>1. Holders(i)' = Holders(i) /\ r \notin Holders(i)
        BY <1>1, <1>2, <1>7, <2>6, <2>7, <3>1, <3>3, UnaskedType DEF Holders
      <4>2. \A q \in Holders(i) : request'[q] = request[q]
        BY <2>1, <4>1 DEF Holders
      <4> QED
        BY <2>2, <3>1, <3>3, <4>1, <4>2 DEF InstanceTrue
    <3> QED
      BY <3>2, <3>3
  <2> QED
    BY <1>1, <1>5, <2>3, <2>4, <2>5, <2>9, <2>10, FitKept DEF McpInv
<1>8. CASE McpConnect(r) /\ instances' # instances
  <2> DEFINE now == [request[r] EXCEPT !.pc = "opening"]
  <2>1. now \in RequestState /\ now.pc = "opening" /\ now.snapshot = {read} /\ now.at = at
    BY <1>1, <1>2, <1>3 DEF RequestState, RequestPc
  <2>2. /\ request' = [request EXCEPT ![r] = now] /\ instances[at].connection = "none"
        /\ instances' = [instances EXCEPT ![at].connection = "opening"]
    BY <1>2, <1>8 DEF McpConnect
  <2> HIDE DEF now
  <2> QED
    BY <1>7, <2>1, <2>2
<1>9. CASE McpOpened(r)
  <2> DEFINE now == [request[r] EXCEPT !.pc = "connected"]
  <2>1. now \in RequestState /\ now.pc = "connected" /\ now.snapshot = {read} /\ now.at = at
    BY <1>1, <1>2, <1>3 DEF RequestState, RequestPc
  <2>2. /\ request' = [request EXCEPT ![r] = now] /\ request[r].pc = "opening"
        /\ instances' = [instances EXCEPT ![at].connection = "open"]
    BY <1>2, <1>9 DEF McpOpened
  <2> HIDE DEF now
  <2> QED
    BY <1>7, <2>1, <2>2
<1>10. CASE McpOpenFailed(r)
  <2>1. /\ request' = [request EXCEPT ![r] = Done] /\ request[r].pc = "opening"
        /\ instances' = [instances EXCEPT ![at].connection = "none"]
    BY <1>2, <1>10 DEF McpOpenFailed, Finish, Done
  <2> QED
    BY <1>7, <2>1, UnaskedType
<1> QED
  BY <1>6, <1>8, <1>9, <1>10

\* A request takes the instance in the table, or puts a new one there.
LEMMA GetInstanceTrue ==
  ASSUME McpInv, NEW r \in McpRequest, McpGetInstance(r)
  PROVE  McpInv'
<1>1. /\ RequestTrue(r) /\ instances \in Seq(McpInstance) /\ DOMAIN instances = 1 .. Len(instances)
      /\ request[r] \in RequestState /\ Len(instances) \in Nat /\ settings \in McpSettings
      /\ request[r].pc = "found" /\ table \in [Owner -> 0 .. Len(instances)]
      /\ UNCHANGED <<settings, previous, catalog>>
  BY DEF McpInv, McpData, McpGetInstance
<1>2. PICK read \in McpSettings : request[r].snapshot = {read} /\ read.config.enabled
  BY <1>1 DEF RequestTrue
<1>3. Snapshot(r) = read
  BY <1>2 DEF Snapshot
<1>4. request[r].at = 0
  BY <1>1 DEF RequestTrue, AtAnInstance
<1>5. PICK owner \in Owner :
        owner = IF read.config.scope = "session" THEN request[r].session ELSE "shared"
  BY <1>1 DEF RequestState, Owner
<1> DEFINE current == table[owner]
           made == Len(instances) + 1
<1>6. CatalogTrue'
  BY <1>1 DEF McpInv, CatalogTrue
<1>7. ASSUME NEW at \in Nat \ {0}, request' = [request EXCEPT ![r].pc = "holding", ![r].at = at]
      PROVE  /\ request' \in [McpRequest -> RequestState]
             /\ request'[r].pc = "holding" /\ request'[r].at = at /\ request'[r].snapshot = {read}
             /\ \A q \in McpRequest \ {r} : request'[q] = request[q]
             /\ \A i \in Nat : Holders(i)' = IF i = at THEN Holders(i) \cup {r} ELSE Holders(i) \ {r}
  <2> DEFINE now == [request[r] EXCEPT !.pc = "holding", !.at = at]
  <2>1. /\ now \in RequestState /\ now.pc = "holding" /\ now.at = at /\ now.snapshot = {read}
        /\ request' = [request EXCEPT ![r] = now]
    BY <1>1, <1>2, <1>7 DEF RequestState, RequestPc
  <2> HIDE DEF now
  <2> QED
    BY <2>1, OneMoves DEF McpInv
<1>8. CASE /\ current # 0 /\ instances[current].connection \notin {"gone", "shut"}
           /\ request' = [request EXCEPT ![r].pc = "holding", ![r].at = current]
           /\ UNCHANGED <<table, instances>>
  <2>1. PICK at \in DOMAIN instances : at = current /\ at \in Nat \ {0}
    BY <1>1, <1>8
  <2>2. /\ request' \in [McpRequest -> RequestState]
        /\ request'[r].pc = "holding" /\ request'[r].at = at /\ request'[r].snapshot = {read}
        /\ \A q \in McpRequest \ {r} : request'[q] = request[q]
        /\ \A i \in Nat : Holders(i)' = IF i = at THEN Holders(i) \cup {r} ELSE Holders(i) \ {r}
    BY <1>7, <1>8, <2>1
  <2>3. McpData'
    BY <1>1, <1>8, <2>2 DEF McpInv, McpData
  <2>4. ASSUME NEW q \in McpRequest PROVE RequestTrue(q)'
    <3>1. CASE q = r
      BY <1>1, <1>2, <1>8, <2>1, <2>2, <3>1 DEF RequestTrue, AtAnInstance
    <3>2. CASE q # r
      <4>1. RequestTrue(q) /\ request'[q] = request[q]
        BY <2>2, <3>2 DEF McpInv
      <4> QED
        BY <1>8, <2>2, <4>1 DEF RequestTrue
    <3> QED
      BY <3>1, <3>2
  <2>5. ASSUME NEW i \in DOMAIN instances PROVE InstanceTrue(i)'
    <3>1. /\ InstanceTrue(i) /\ (Listed(i)' <=> Listed(i)) /\ r \notin Holders(i)
          /\ Holders(i)' = IF i = at THEN Holders(i) \cup {r} ELSE Holders(i)
      BY <1>1, <1>4, <1>8, <2>2 DEF McpInv, Listed, Holders
    <3>2. \A q \in Holders(i) : request'[q] = request[q]
      BY <2>2, <3>1 DEF Holders
    <3> QED
      BY <1>8, <2>1, <3>1, <3>2 DEF InstanceTrue
  <2>6. Kept
    BY <1>1, <1>8 DEF Kept
  <2> QED
    BY <1>1, <1>6, <1>8, <2>3, <2>4, <2>5, <2>6, FitKept DEF McpInv
<1>9. CASE /\ request' = [request EXCEPT ![r].pc = "holding", ![r].at = made]
           /\ table' = [table EXCEPT ![owner] = made]
           /\ instances' =
                Append([i \in DOMAIN instances |->
                          IF i = current THEN [instances[i] EXCEPT !.closing = TRUE]
                          ELSE instances[i]],
                       [endpoint |-> Endpoint(read.config, read.key),
                        connection |-> "none", closing |-> FALSE, late |-> read # settings])
  <2> DEFINE new == [endpoint |-> Endpoint(read.config, read.key),
                     connection |-> "none", closing |-> FALSE, late |-> read # settings]
             older == [i \in DOMAIN instances |->
                         IF i = current THEN [instances[i] EXCEPT !.closing = TRUE]
                         ELSE instances[i]]
  <2>1. /\ new \in McpInstance /\ new.connection = "none"
        /\ new.endpoint = Endpoint(read.config, read.key)
        /\ new.late \/ read = settings
    <3>1. Endpoint(read.config, read.key) \in [reached : Nat, key : McpKeys]
      BY <1>2, McpAssumption DEF Endpoint, McpSettings, McpConfigured
    <3>2. (read # settings) \in BOOLEAN
      OBVIOUS
    <3>3. new.late = (read # settings)
      OBVIOUS
    <3> QED
      BY <3>1, <3>2, <3>3 DEF McpInstance, McpConnection
  <2>2. ASSUME NEW i \in DOMAIN instances
        PROVE  /\ older[i] \in McpInstance
               /\ older[i].endpoint = instances[i].endpoint /\ older[i].late = instances[i].late
               /\ older[i].connection = instances[i].connection
               /\ instances[i].closing \/ i = current => older[i].closing
    <3>1. instances[i] \in McpInstance
      BY <1>1
    <3> QED
      BY <3>1 DEF McpInstance
  <2>3. older \in Seq(McpInstance) /\ Len(older) = Len(instances)
    <3>1. older \in [1 .. Len(instances) -> McpInstance]
      BY <1>1, <2>2
    <3>2. older \in Seq(McpInstance)
      BY <1>1, <3>1, SeqDef
    <3>3. DOMAIN older = 1 .. Len(older) /\ Len(older) \in Nat
      BY <3>2
    <3> QED
      BY <1>1, <3>1, <3>2, <3>3
  <2> HIDE DEF older, new
  <2>4. instances' = Append(older, new)
    BY <1>9 DEF older, new
  <2>5. PICK at \in Nat \ {0} : at = made
    BY <1>1
  <2>6. /\ instances' \in Seq(McpInstance) /\ Len(instances') = at
        /\ DOMAIN instances' = DOMAIN instances \cup {at} /\ at \notin DOMAIN instances
        /\ instances'[at] = new /\ \A i \in DOMAIN instances : instances'[i] = older[i]
    BY <1>1, <2>1, <2>3, <2>4, <2>5
  <2>7. /\ request' \in [McpRequest -> RequestState]
        /\ request'[r].pc = "holding" /\ request'[r].at = at /\ request'[r].snapshot = {read}
        /\ \A q \in McpRequest \ {r} : request'[q] = request[q]
        /\ \A i \in Nat : Holders(i)' = IF i = at THEN Holders(i) \cup {r} ELSE Holders(i) \ {r}
    BY <1>7, <1>9, <2>5
  <2>8. table' \in [Owner -> 0 .. Len(instances')]
    BY <1>1, <1>9, <2>5, <2>6
  <2>9. McpData'
    BY <1>1, <2>6, <2>7, <2>8 DEF McpInv, McpData
  <2>10. ASSUME NEW q \in McpRequest PROVE RequestTrue(q)'
    <3>1. CASE q = r
      BY <1>2, <2>5, <2>6, <2>7, <3>1 DEF RequestTrue, AtAnInstance
    <3>2. CASE q # r
      <4>1. RequestTrue(q) /\ request'[q] = request[q]
        BY <2>7, <3>2 DEF McpInv
      <4>2. request[q].at \in 0 .. Len(instances')
        BY <1>1, <2>5, <2>6, <4>1 DEF RequestTrue
      <4>3. request[q].pc = "opening" => instances'[request[q].at].connection = "opening"
        BY <1>1, <2>2, <2>6, <4>1 DEF RequestTrue, AtAnInstance
      <4> QED
        BY <2>7, <4>1, <4>2, <4>3 DEF RequestTrue
    <3> QED
      BY <3>1, <3>2
  <2>11. InstanceTrue(at)'
    BY <2>1, <2>6 DEF InstanceTrue
  <2>12. ASSUME NEW i \in DOMAIN instances PROVE InstanceTrue(i)'
    <3>1. /\ InstanceTrue(i) /\ r \notin Holders(i) /\ Holders(i)' = Holders(i)
          /\ instances'[i] = older[i]
      BY <1>1, <1>4, <2>6, <2>7 DEF McpInv, Holders
    <3>2. \A q \in Holders(i) : request'[q] = request[q]
      BY <2>7, <3>1 DEF Holders
    <3>3. Listed(i) => Listed(i)' \/ i = current
      BY <1>1, <1>9 DEF Listed
    <3> QED
      BY <2>2, <3>1, <3>2, <3>3 DEF InstanceTrue
  <2>13. ASSUME previous = {}, NEW o \in Owner PROVE Fit(o)'
    <3>1. CASE o = owner
      <4>1. table'[o] = at
        BY <1>1, <1>9, <2>5, <3>1
      <4>2. instances'[at].late \/ read = settings
        BY <2>1, <2>6
      <4>3. instances'[at].endpoint = Endpoint(read.config, read.key)
        BY <2>1, <2>6
      <4> QED
        BY <1>1, <1>2, <4>1, <4>2, <4>3 DEF Fit
    <3>2. CASE o # owner
      <4>1. table'[o] = table[o] /\ Fit(o)
        BY <1>1, <1>9, <2>13, <3>2 DEF McpInv
      <4>2. table[o] # 0 => table[o] \in DOMAIN instances
        BY <1>1
      <4> QED
        BY <1>1, <2>2, <2>6, <4>1, <4>2 DEF Fit
    <3> QED
      BY <3>1, <3>2
  <2> QED
    BY <1>1, <1>6, <2>6, <2>9, <2>10, <2>11, <2>12, <2>13 DEF McpInv
<1> QED
  BY <1>3, <1>5, <1>8, <1>9 DEF McpGetInstance

\* Instances are taken out of the table, each with a task that closes it.
LEMMA Unlisted ==
  ASSUME McpInv, NEW gone, Unlist(gone, instances), UNCHANGED <<settings, request>>
  PROVE  /\ McpData' \/ ~ (previous' \subseteq previous)
         /\ Kept
         /\ \A r \in McpRequest : RequestTrue(r)'
         /\ \A i \in DOMAIN instances' : InstanceTrue(i)'
         /\ \A o \in Owner : table'[o] # 0 => table'[o] = table[o] /\ table[o] \notin gone
<1>1. /\ instances \in Seq(McpInstance) /\ DOMAIN instances = 1 .. Len(instances)
      /\ Len(instances) \in Nat /\ table \in [Owner -> 0 .. Len(instances)]
  BY DEF McpInv, McpData
<1>2. ASSUME NEW i \in DOMAIN instances
      PROVE  /\ instances'[i] \in McpInstance
             /\ instances'[i].endpoint = instances[i].endpoint
             /\ instances'[i].late = instances[i].late
             /\ instances'[i].connection = instances[i].connection
             /\ instances[i].closing \/ i \in gone => instances'[i].closing
  <2>1. instances[i] \in McpInstance
    BY <1>1
  <2>2. instances'[i] = IF i \in gone THEN [instances[i] EXCEPT !.closing = TRUE] ELSE instances[i]
    BY DEF Unlist
  <2> QED
    BY <2>1, <2>2 DEF McpInstance
<1>3. instances' \in [DOMAIN instances -> McpInstance] /\ DOMAIN instances' = DOMAIN instances
  BY <1>2 DEF Unlist
<1>4. Kept
  BY <1>2, <1>3, InstancesKept DEF McpInv
<1>5. \A o \in Owner : /\ table'[o] # 0 => table'[o] = table[o] /\ table[o] \notin gone
                       /\ table[o] \notin gone => table'[o] = table[o]
  BY DEF Unlist
<1>6. table' \in [Owner -> 0 .. Len(instances')]
  BY <1>1, <1>4 DEF Unlist, Kept
<1>7. McpData' \/ ~ (previous' \subseteq previous)
  BY <1>4, <1>6 DEF McpInv, McpData, Kept
<1>8. ASSUME NEW r \in McpRequest PROVE RequestTrue(r)'
  <2>1. RequestTrue(r)
    BY DEF McpInv
  <2>2. request[r].pc = "opening" => instances'[request[r].at].connection = "opening"
    BY <1>1, <1>2, <2>1 DEF RequestTrue, AtAnInstance
  <2> QED
    BY <1>4, <2>1, <2>2 DEF RequestTrue, Kept
<1>9. ASSUME NEW i \in DOMAIN instances PROVE InstanceTrue(i)'
  <2>1. InstanceTrue(i) /\ Holders(i)' = Holders(i)
    BY DEF McpInv, Holders
  <2>2. Listed(i) => Listed(i)' \/ i \in gone
    BY <1>5 DEF Listed
  <2> QED
    BY <1>2, <2>1, <2>2 DEF InstanceTrue
<1> QED
  BY <1>3, <1>4, <1>5, <1>7, <1>8, <1>9

\* The reaper, the end of a session and the end of the application.
LEMMA UnlistTrue ==
  ASSUME McpInv, McpReap \/ McpCloseAll \/ (\E s \in McpSession : McpCloseSession(s))
  PROVE  McpInv'
<1>1. PICK gone : Unlist(gone, instances)
  BY DEF McpReap, McpCloseAll, McpCloseSession
<1>2. UNCHANGED <<settings, previous, catalog, request>>
  BY DEF McpReap, McpCloseAll, McpCloseSession
<1>3. /\ McpData' /\ Kept /\ \A r \in McpRequest : RequestTrue(r)'
      /\ \A i \in DOMAIN instances' : InstanceTrue(i)'
      /\ \A o \in Owner : table'[o] # 0 => table'[o] = table[o]
  BY <1>1, <1>2, Unlisted
<1>4. CatalogTrue'
  BY <1>2 DEF McpInv, CatalogTrue
<1> QED
  BY <1>2, <1>3, <1>4, FitKept DEF McpInv

\* A new configuration is taken ...
LEMMA ApplyTrue ==
  ASSUME McpInv, NEW config \in McpConfigs, NEW key \in McpKeys, McpApply(config, key)
  PROVE  McpInv'
<1>1. /\ settings' = [config |-> config, key |-> key] /\ previous' = {settings} /\ previous = {}
      /\ UNCHANGED <<table, instances, catalog, request>> /\ settings \in McpSettings
  BY DEF McpApply, McpInv, McpData
<1>2. McpData'
  BY <1>1 DEF McpInv, McpData, McpSettings
<1>3. ASSUME NEW r \in McpRequest PROVE RequestTrue(r)'
  BY <1>1 DEF McpInv, RequestTrue
<1>4. ASSUME NEW i \in DOMAIN instances PROVE InstanceTrue(i)'
  <2>1. Holders(i)' = Holders(i) /\ (Listed(i)' <=> Listed(i)) /\ InstanceTrue(i)
    BY <1>1 DEF Holders, Listed, McpInv
  <2> QED
    BY <1>1, <2>1 DEF InstanceTrue
<1>5. CatalogTrue'
  BY <1>1 DEF McpInv, CatalogTrue
<1> QED
  BY <1>1, <1>2, <1>3, <1>4, <1>5 DEF McpInv

\* ... and what does not fit it is put aside.
LEMMA AppliedTrue ==
  ASSUME McpInv, McpApplied
  PROVE  McpInv'
<1> DEFINE gone == {i \in DOMAIN instances : Listed(i) /\ Unfit(i)}
<1>1. /\ Unlist(gone, instances) /\ UNCHANGED <<settings, request>> /\ previous' = {}
      /\ previous # {} /\ catalog' = IF SameServer(settings.config) THEN catalog ELSE {}
  BY DEF McpApplied
<1> HIDE DEF gone
<1>2. /\ McpData' /\ Kept /\ \A r \in McpRequest : RequestTrue(r)'
      /\ \A i \in DOMAIN instances' : InstanceTrue(i)'
      /\ \A o \in Owner : table'[o] # 0 => table'[o] = table[o] /\ table[o] \notin gone
  BY <1>1, Unlisted
<1>3. ASSUME NEW o \in Owner, table'[o] # 0 PROVE Fit(o)'
  <2>1. table'[o] = table[o] /\ table[o] \notin gone /\ table[o] \in DOMAIN instances
    BY <1>2, <1>3 DEF McpInv, McpData
  <2>2. ~ Unfit(table[o])
    BY <2>1 DEF gone, Listed
  <2>3. instances'[table[o]].endpoint = instances[table[o]].endpoint
    BY <1>2, <2>1 DEF Kept
  <2> QED
    BY <1>1, <2>1, <2>2, <2>3 DEF Unfit, Fit
<1>4. CatalogTrue'
  <2>1. CASE SameServer(settings.config)
    <3>1. \A old \in previous : old.config = settings.config
      BY <2>1 DEF SameServer, McpInv, McpData
    <3> QED
      BY <1>1, <2>1, <3>1 DEF McpInv, CatalogTrue
  <2>2. CASE ~ SameServer(settings.config)
    BY <1>1, <2>2 DEF CatalogTrue
  <2> QED
    BY <2>1, <2>2
<1>5. \A o \in Owner : Fit(o)'
  BY <1>3 DEF Fit
<1> QED
  BY <1>2, <1>4, <1>5 DEF McpInv

\* An instance is closed, its server exits, or says that its tools changed.
LEMMA InstanceStep ==
  ASSUME McpInv, NEW j \in DOMAIN instances, McpClose(j) \/ ServerExits(j) \/ ToolsChanged(j)
  PROVE  McpInv'
<1>1. /\ instances \in Seq(McpInstance) /\ DOMAIN instances = 1 .. Len(instances)
      /\ UNCHANGED <<settings, previous, table, request>>
  BY DEF McpInv, McpData, McpClose, ServerExits, ToolsChanged
<1>2. ASSUME NEW i \in DOMAIN instances
      PROVE  /\ instances'[i] \in McpInstance
             /\ instances'[i].endpoint = instances[i].endpoint
             /\ instances'[i].late = instances[i].late
             /\ \/ /\ instances'[i].connection = instances[i].connection
                   /\ instances'[i].closing = instances[i].closing
                \/ instances[i].connection = "open" /\ instances'[i].connection = "gone"
                \/ Holders(i) = {} /\ instances[i].connection = "open"
                   /\ instances'[i].connection = "shut"
                \/ /\ instances'[i].connection = instances[i].connection
                   /\ Holders(i) # {} \/ instances[i].connection # "open"
  <2>1. instances[i] \in McpInstance
    BY <1>1
  <2>2. CASE McpClose(j)
    BY <2>1, <2>2 DEF McpClose, McpInstance, McpConnection
  <2>3. CASE ServerExits(j)
    BY <2>1, <2>3 DEF ServerExits, McpInstance, McpConnection
  <2>4. CASE ToolsChanged(j)
    BY <2>1, <2>4 DEF ToolsChanged
  <2> QED
    BY <2>2, <2>3, <2>4
<1>3. instances' \in [DOMAIN instances -> McpInstance] /\ DOMAIN instances' = DOMAIN instances
  <2>1. DOMAIN instances' = DOMAIN instances
    BY DEF McpClose, ServerExits, ToolsChanged
  <2>2. \E e \in McpInstance : instances' = [instances EXCEPT ![j] = e]
    <3>1. instances[j] \in McpInstance
      BY <1>1
    <3>2. CASE McpClose(j)
      <4> DEFINE e == [instances[j] EXCEPT !.closing = FALSE,
                         !.connection = IF Holders(j) = {} /\ @ = "open" THEN "shut" ELSE @]
      <4>1. e \in McpInstance
        BY <3>1 DEF McpInstance, McpConnection
      <4>2. instances' = [instances EXCEPT ![j] = e]
        BY <3>2 DEF McpClose
      <4> QED
        BY <4>1, <4>2
    <3>3. CASE ServerExits(j)
      <4> DEFINE e == [instances[j] EXCEPT !.connection = "gone"]
      <4>1. e \in McpInstance /\ instances' = [instances EXCEPT ![j] = e]
        BY <3>1, <3>3 DEF ServerExits, McpInstance, McpConnection
      <4> QED
        BY <4>1
    <3>4. CASE ToolsChanged(j)
      BY <1>1, <3>1, <3>4 DEF ToolsChanged
    <3> QED
      BY <3>2, <3>3, <3>4
  <2>3. instances \in [1 .. Len(instances) -> McpInstance]
    BY <1>1
  <2> QED
    BY <1>1, <2>1, <2>2, <2>3
<1>4. Kept
  BY <1>2, <1>3, InstancesKept DEF McpInv
<1>5. McpData'
  BY <1>1, <1>4 DEF McpInv, McpData, Kept
<1>6. ASSUME NEW r \in McpRequest PROVE RequestTrue(r)'
  <2>1. RequestTrue(r)
    BY DEF McpInv
  <2>2. request[r].pc = "opening" => instances'[request[r].at].connection = "opening"
    BY <1>1, <1>2, <2>1 DEF RequestTrue, AtAnInstance
  <2> QED
    BY <1>1, <1>4, <2>1, <2>2 DEF RequestTrue, Kept
<1>7. ASSUME NEW i \in DOMAIN instances PROVE InstanceTrue(i)'
  <2>1. Holders(i)' = Holders(i) /\ (Listed(i)' <=> Listed(i)) /\ InstanceTrue(i)
    BY <1>1 DEF Holders, Listed, McpInv
  <2>2. request' = request
    BY <1>1
  <2> QED
    BY <1>2, <2>1, <2>2 DEF InstanceTrue
<1>8. CatalogTrue'
  BY <1>1 DEF McpInv, CatalogTrue, McpClose, ServerExits, ToolsChanged
<1> QED
  BY <1>1, <1>3, <1>4, <1>5, <1>6, <1>7, <1>8, FitKept DEF McpInv

\* Every step of requests, servers and the hub keeps the invariant.
LEMMA McpStep ==
  ASSUME McpInv, [McpNext]_mcp_vars
  PROVE  McpInv'
<1>1. CASE UNCHANGED mcp_vars
  <2>1. /\ McpData' /\ CatalogTrue' /\ \A o \in Owner : Fit(o) => Fit(o)'
        /\ \A r \in McpRequest : RequestTrue(r) => RequestTrue(r)'
    BY <1>1 DEF mcp_vars, McpInv, McpData, CatalogTrue, Fit, RequestTrue
  <2>2. ASSUME NEW i \in DOMAIN instances, InstanceTrue(i) PROVE InstanceTrue(i)'
    <3>1. Holders(i)' = Holders(i) /\ (Listed(i)' <=> Listed(i))
      BY <1>1 DEF mcp_vars, Holders, Listed
    <3> QED
      BY <1>1, <2>2, <3>1 DEF mcp_vars, InstanceTrue
  <2> QED
    BY <1>1, <2>1, <2>2 DEF mcp_vars, McpInv
<1>2. ASSUME NEW r \in McpRequest, RequestStep(r) PROVE McpInv'
  <2>1. CASE McpCallEnds(r) \/ McpListed(r) \/ McpDropped(r)
    <3>1. /\ request[r].pc \in {"holding", "connected", "calling"}
          /\ instances' = LetGo(r, instances) /\ Finish(r) /\ UNCHANGED <<settings, previous, table>>
      BY <2>1 DEF McpCallEnds, McpListed, McpDropped
    <3>2. CatalogTrue'
      <4>1. CASE McpListed(r)
        BY <3>1, <4>1, Learnt DEF McpListed, AtAnInstance
      <4>2. CASE catalog' = catalog
        BY <3>1, <4>2 DEF McpInv, CatalogTrue
      <4> QED
        BY <2>1, <4>1, <4>2 DEF McpCallEnds, McpDropped
    <3> QED
      BY <3>1, <3>2, LeaveInstance
  <2> QED
    BY <1>2, <2>1, PlainRequest, GetInstanceTrue, OpeningTrue DEF RequestStep
<1>3. ASSUME NEW config \in McpConfigs, NEW key \in McpKeys, McpApply(config, key) PROVE McpInv'
  BY <1>3, ApplyTrue
<1> QED
  BY <1>1, <1>2, <1>3, AppliedTrue, UnlistTrue, InstanceStep DEF McpNext

\* A hub nobody has used.
LEMMA McpInitTrue == McpInit => McpInv
<1> SUFFICES ASSUME McpInit PROVE McpInv
  OBVIOUS
<1>1. instances = <<>> /\ instances \in Seq(McpInstance) /\ Len(instances) = 0 /\ DOMAIN instances = {}
  BY DEF McpInit
<1>2. McpData
  BY <1>1, UnaskedType DEF McpInit, McpData
<1>3. ASSUME NEW r \in McpRequest PROVE RequestTrue(r)
  BY <1>1, UnaskedType DEF McpInit, RequestTrue, AtAnInstance
<1> QED
  BY <1>1, <1>2, <1>3 DEF McpInit, McpInv, Fit, CatalogTrue

\* A running call keeps its connection whatever apply, reap, close_session and
\* close_all do meanwhile, no server is left running that nobody would end, and
\* once a configuration is applied sessions get instances and tools of it.
THEOREM McpIsKept == McpSpec => []McpKept
<1>1. McpInv => McpKept
  <2> SUFFICES ASSUME McpInv PROVE McpKept
    OBVIOUS
  <2>1. McpCallsKept
    BY DEF McpCallsKept, McpInv, InstanceTrue, Busy
  <2>2. McpFits
    BY DEF McpFits, McpInv, Fit, CatalogTrue
  <2> QED
    BY <2>1, <2>2 DEF McpKept
<1> QED
  BY <1>1, McpInitTrue, McpStep, PTL DEF McpSpec

-----------------------------------------------------------------------------
\* The web tools.

\* A question on its way has tried its first n providers and has the others
\* left; before that nobody failed it; an answer comes from one that is on; a
\* failure comes after all.
Tried(asked, n) ==
  /\ Len(asked.left) = Len(OrderOf(asked)) - n
  /\ \A i \in 1 .. Len(asked.left) : asked.left[i] = OrderOf(asked)[n + i]
  /\ AskedFirst(asked, n)

AskedTrue(asked) ==
  /\ asked \in Asked
  /\ asked.pc \in {"idle", "waiting"} => asked.failures = <<>>
  /\ asked.pc \in {"asking", "answered", "failed"} =>
       /\ asked.state # {}
       /\ \E n \in 0 .. Len(OrderOf(asked)) : Tried(asked, n)
  /\ asked.pc = "answered" => asked.left # <<>> /\ Head(asked.left) \in TheState(asked).on
  /\ asked.pc = "failed" => asked.left = <<>>

WebInv == WebTypeOK /\ \A q \in Question : AskedTrue(question[q])

\* An order of providers is a sequence of them.
LEMMA OrdersAreSequences ==
  ASSUME NEW config \in WebConfig
  PROVE  config.order \in Seq(WebProvider) /\ config.on \subseteq WebProvider
<1>1. Cardinality(WebProvider) \in Nat
  BY WebAssumption, FS_CardinalityType
<1>2. PICK n \in 0 .. Cardinality(WebProvider) : config.order \in [1 .. n -> WebProvider]
  BY DEF WebConfig, WebOrder
<1>3. n \in Nat
  BY <1>1, <1>2
<1> QED
  BY <1>2, <1>3 DEF WebConfig

\* Once a question has its configuration, it has an order of providers.
LEMMA OrderOfType ==
  ASSUME NEW asked \in Asked, asked.state # {}
  PROVE  TheState(asked) \in WebConfig /\ OrderOf(asked) \in Seq(WebProvider)
<1>1. PICK config \in WebConfig : asked.state = {config}
  BY DEF Asked, Taken
<1>2. TheState(asked) = config
  BY <1>1 DEF TheState
<1>3. CASE asked.named = {}
  BY <1>1, <1>2, <1>3, OrdersAreSequences DEF OrderOf
<1>4. CASE asked.named # {}
  <2>1. PICK p \in WebProvider : asked.named = {p}
    BY <1>4 DEF Asked, Named
  <2>2. OrderOf(asked) = <<p>>
    BY <1>4, <2>1 DEF OrderOf
  <2> QED
    BY <1>1, <1>2, <2>2
<1> QED
  BY <1>3, <1>4

\* A question that keeps what it names and its configuration keeps its order; one
\* that keeps its failures too has asked whom it had asked.
LEMMA OrderKept ==
  ASSUME NEW asked, NEW then, then.named = asked.named, then.state = asked.state
  PROVE  /\ TheState(then) = TheState(asked) /\ OrderOf(then) = OrderOf(asked)
         /\ then.failures = asked.failures => \A n : AskedFirst(then, n) <=> AskedFirst(asked, n)
<1>1. TheState(then) = TheState(asked)
  BY DEF TheState
<1>2. OrderOf(then) = OrderOf(asked)
  BY <1>1 DEF OrderOf
<1> QED
  BY <1>1, <1>2 DEF AskedFirst

\* Whom a question has tried once one more is passed over.
LEMMA FirstSkipped ==
  ASSUME NEW said \in Seq(WebProvider), NEW order \in Seq(WebProvider), NEW on,
         NEW n \in 0 .. Len(order) - 1, AreFirst(said, order, on, n), order[n + 1] \notin on
  PROVE  AreFirst(said, order, on, n + 1)
<1>1. {order[i] : i \in 1 .. n + 1} \cap on = {order[i] : i \in 1 .. n} \cap on
  OBVIOUS
<1> QED
  BY <1>1 DEF AreFirst

\* And once one more said no.
LEMMA FirstAppended ==
  ASSUME NEW said \in Seq(WebProvider), NEW order \in Seq(WebProvider), NEW on,
         NEW n \in 0 .. Len(order) - 1, AreFirst(said, order, on, n), order[n + 1] \in on
  PROVE  AreFirst(Append(said, order[n + 1]), order, on, n + 1)
<1> DEFINE more == Append(said, order[n + 1])
<1>1. /\ DOMAIN said = 1 .. Len(said) /\ DOMAIN more = 1 .. Len(said) + 1
      /\ \A i \in 1 .. Len(said) : more[i] = said[i]
      /\ more[Len(said) + 1] = order[n + 1] /\ Len(said) \in Nat
  OBVIOUS
<1>2. {said[i] : i \in DOMAIN said} = {order[i] : i \in 1 .. n} \cap on
  BY DEF AreFirst
<1> HIDE DEF more
<1>3. {more[i] : i \in DOMAIN more} = {said[i] : i \in DOMAIN said} \cup {order[n + 1]}
  BY <1>1
<1>4. {order[i] : i \in 1 .. n + 1} \cap on = ({order[i] : i \in 1 .. n} \cap on) \cup {order[n + 1]}
  OBVIOUS
<1>5. ASSUME NEW i \in DOMAIN more, NEW j \in DOMAIN more, i < j
      PROVE  \E a, b \in 1 .. n + 1 : a < b /\ more[i] = order[a] /\ more[j] = order[b]
  <2>1. i \in DOMAIN said /\ more[i] = said[i]
    BY <1>1, <1>5
  <2>2. CASE j \in DOMAIN said
    <3>1. PICK a \in 1 .. n, b \in 1 .. n : a < b /\ said[i] = order[a] /\ said[j] = order[b]
      BY <1>5, <2>1, <2>2 DEF AreFirst
    <3>2. a \in 1 .. n + 1 /\ b \in 1 .. n + 1 /\ more[j] = said[j]
      BY <1>1, <2>2
    <3> QED
      BY <2>1, <3>1, <3>2
  <2>3. CASE j \notin DOMAIN said
    <3>1. more[j] = order[n + 1] /\ n + 1 \in 1 .. n + 1
      BY <1>1, <1>5, <2>3
    <3>2. PICK a \in 1 .. n : said[i] = order[a]
      BY <1>2, <2>1
    <3>3. a \in 1 .. n + 1 /\ a < n + 1
      OBVIOUS
    <3> QED
      BY <2>1, <3>1, <3>2, <3>3
  <2> QED
    BY <2>2, <2>3
<1> QED
  BY <1>2, <1>3, <1>4, <1>5 DEF AreFirst, more

\* What a step does to a question that is asking: the next provider is passed
\* over or says no.
LEMMA NextTried ==
  ASSUME NEW asked, AskedTrue(asked), asked.pc = "asking", asked.left # <<>>,
         NEW then \in Asked, then.named = asked.named, then.state = asked.state,
         then.pc = "asking", then.left = Tail(asked.left),
         \/ Head(asked.left) \notin TheState(asked).on /\ then.failures = asked.failures
         \/ /\ Head(asked.left) \in TheState(asked).on
            /\ then.failures = Append(asked.failures, Head(asked.left))
  PROVE  AskedTrue(then)
<1>1. asked \in Asked /\ asked.state # {}
  BY DEF AskedTrue
<1>2. TheState(asked) \in WebConfig /\ OrderOf(asked) \in Seq(WebProvider)
  BY <1>1, OrderOfType
<1>3. TheState(then) = TheState(asked) /\ OrderOf(then) = OrderOf(asked)
  BY OrderKept
<1>4. asked.left \in Seq(WebProvider) /\ asked.failures \in Seq(WebProvider)
  BY <1>1 DEF Asked
<1> DEFINE order == OrderOf(asked)
           on == TheState(asked).on
<1>5. PICK n \in 0 .. Len(order) : Tried(asked, n)
  BY DEF AskedTrue
<1>6. /\ n \in 0 .. Len(order) - 1 /\ Head(asked.left) = order[n + 1]
      /\ n + 1 \in 0 .. Len(order)
      /\ Len(then.left) = Len(order) - (n + 1)
      /\ \A i \in 1 .. Len(then.left) : then.left[i] = order[n + 1 + i]
  BY <1>2, <1>4, <1>5 DEF Tried
<1>7. AreFirst(asked.failures, order, on, n)
  BY <1>5 DEF Tried, AskedFirst
<1> HIDE DEF order, on
<1>8. AreFirst(then.failures, order, on, n + 1)
  <2>1. order \in Seq(WebProvider)
    BY <1>2 DEF order
  <2>2. CASE order[n + 1] \notin on /\ then.failures = asked.failures
    BY <1>4, <1>6, <1>7, <2>1, <2>2, FirstSkipped
  <2>3. CASE order[n + 1] \in on /\ then.failures = Append(asked.failures, order[n + 1])
    BY <1>4, <1>6, <1>7, <2>1, <2>3, FirstAppended
  <2> QED
    BY <1>6, <2>2, <2>3 DEF on
<1>9. Tried(then, n + 1)
  BY <1>3, <1>6, <1>8 DEF Tried, AskedFirst, order, on
<1> QED
  BY <1>1, <1>3, <1>6, <1>9 DEF AskedTrue, order

\* A question that moves without trying anyone: it keeps its order, whom it has
\* left and who failed.
LEMMA OthersStay ==
  ASSUME NEW asked, AskedTrue(asked), NEW then \in Asked,
         then.named = asked.named, then.state = asked.state,
         then.left = asked.left, then.failures = asked.failures,
         then.pc \in {"idle", "waiting"} => asked.pc \in {"idle", "waiting"},
         then.pc \in {"asking", "answered", "failed"} => asked.pc = "asking",
         then.pc = "answered" => asked.left # <<>> /\ Head(asked.left) \in TheState(asked).on,
         then.pc = "failed" => asked.left = <<>>
  PROVE  AskedTrue(then)
<1>1. TheState(then) = TheState(asked) /\ OrderOf(then) = OrderOf(asked)
  BY OrderKept
<1>2. \A n : Tried(then, n) <=> Tried(asked, n)
  BY <1>1 DEF Tried, AskedFirst
<1> QED
  BY <1>1, <1>2 DEF AskedTrue

\* A permit is free: a question begins with its whole order before it.
LEMMA AdmitTrue ==
  ASSUME WebInv, NEW q \in Question, WebAdmit(q)
  PROVE  AskedTrue(question'[q])
<1> DEFINE asked == question[q]
           then == question'[q]
<1>1. asked \in Asked /\ asked.failures = <<>> /\ web \in WebConfig
  BY DEF WebInv, WebTypeOK, AskedTrue, WebAdmit
<1>2. /\ then.state = {web} /\ then.named = asked.named /\ then.failures = <<>>
      /\ then.pc \in {"asking", "refused"}
      /\ then.left = IF asked.named = {} THEN web.order ELSE <<CHOOSE p \in asked.named : TRUE>>
  BY <1>1 DEF WebInv, WebTypeOK, WebAdmit, Asked
<1>3. TheState(then) = web
  BY <1>2 DEF TheState
<1>4. OrderOf(then) = then.left
  BY <1>2, <1>3 DEF OrderOf
<1>5. then.left \in Seq(WebProvider)
  <2>1. CASE asked.named = {}
    BY <1>1, <1>2, <2>1, OrdersAreSequences
  <2>2. CASE asked.named # {}
    <3>1. PICK p \in WebProvider : asked.named = {p}
      BY <1>1, <2>2 DEF Asked, Named
    <3> QED
      BY <1>2, <2>2, <3>1
  <2> QED
    BY <2>1, <2>2
<1>6. then \in Asked
  <2>1. then = [asked EXCEPT !.state = then.state, !.pc = then.pc, !.left = then.left]
    BY <1>1 DEF WebInv, WebTypeOK, WebAdmit, Asked
  <2>2. then.state \in Taken /\ then.pc \in WebPc
    BY <1>1, <1>2 DEF Taken, WebPc
  <2> HIDE DEF asked, then
  <2> QED
    BY <1>1, <1>5, <2>1, <2>2 DEF Asked
<1>7. AreFirst(then.failures, OrderOf(then), TheState(then).on, 0)
  <2>1. DOMAIN then.failures = {} /\ 1 .. 0 = {}
    BY <1>2
  <2> QED
    BY <2>1 DEF AreFirst
<1>8. Tried(then, 0)
  BY <1>4, <1>5, <1>7 DEF Tried, AskedFirst
<1>9. 0 \in 0 .. Len(OrderOf(then))
  BY <1>4, <1>5
<1>10. AskedTrue(then)
  <2> HIDE DEF then
  <2> QED
    BY <1>2, <1>6, <1>8, <1>9 DEF AskedTrue
<1> QED
  BY <1>10

\* Each step of a question leaves it true.
LEMMA QuestionTrue ==
  ASSUME WebInv, NEW q \in Question, WebStep(q)
  PROVE  AskedTrue(question'[q])
<1> DEFINE asked == question[q]
           then == question'[q]
<1>1. asked \in Asked /\ AskedTrue(asked) /\ signed_in \subseteq WebProvider
  BY DEF WebInv, WebTypeOK
<1>2. question \in [Question -> Asked] /\ MaxWebTries \in Nat \ {0}
  BY WebAssumption DEF WebInv, WebTypeOK
<1>3. asked.left \in Seq(WebProvider) /\ asked.failures \in Seq(WebProvider)
  BY <1>1 DEF Asked
<1>4. CASE \E named \in Named : WebAsk(q, named)
  <2>1. PICK named \in Named : WebAsk(q, named)
    BY <1>4
  <2>2. then = [asked EXCEPT !.pc = "waiting", !.named = named, !.accounts = signed_in]
    BY <1>2, <2>1 DEF WebAsk
  <2>3. asked.failures = <<>>
    BY <1>1, <2>1 DEF AskedTrue, WebAsk
  <2> HIDE DEF asked, then
  <2>4. then \in Asked /\ then.pc = "waiting" /\ then.failures = <<>>
    BY <1>1, <2>2, <2>3 DEF Asked, WebPc
  <2>5. AskedTrue(then)
    BY <2>4 DEF AskedTrue
  <2> QED
    BY <2>5 DEF then
<1>5. CASE WebAdmit(q)
  BY <1>5, AdmitTrue
<1>6. CASE WebSkip(q)
  <2>1. then = [asked EXCEPT !.left = Tail(asked.left)]
    BY <1>2, <1>6 DEF WebSkip
  <2>2. /\ asked.pc = "asking" /\ asked.left # <<>>
        /\ Head(asked.left) \notin TheState(asked).on
    BY <1>6 DEF WebSkip
  <2> HIDE DEF asked, then
  <2>3. then \in Asked
    <3>1. Tail(asked.left) \in Seq(WebProvider)
      BY <1>3, <2>2
    <3> QED
      BY <1>1, <2>1, <3>1 DEF Asked
  <2>4. /\ then.named = asked.named /\ then.state = asked.state /\ then.pc = "asking"
        /\ then.left = Tail(asked.left) /\ then.failures = asked.failures
    BY <1>1, <2>1, <2>2 DEF Asked
  <2>5. AskedTrue(then)
    BY <1>1, <2>2, <2>3, <2>4, NextTried
  <2> QED
    BY <2>5 DEF then
<1>7. CASE WebGiveUp(q)
  <2>1. then = [asked EXCEPT !.left = Tail(asked.left), !.tries = 0,
                  !.failures = Append(asked.failures, Head(asked.left))]
    BY <1>2, <1>7 DEF WebGiveUp
  <2>2. /\ asked.pc = "asking" /\ asked.left # <<>>
        /\ Head(asked.left) \in TheState(asked).on
    BY <1>7 DEF WebGiveUp, Asks
  <2> HIDE DEF asked, then
  <2>3. then \in Asked
    <3>1. /\ Tail(asked.left) \in Seq(WebProvider) /\ 0 \in 0 .. MaxWebTries
          /\ Append(asked.failures, Head(asked.left)) \in Seq(WebProvider)
      BY <1>2, <1>3, <2>2
    <3> QED
      BY <1>1, <2>1, <3>1 DEF Asked
  <2>4. /\ then.named = asked.named /\ then.state = asked.state /\ then.pc = "asking"
        /\ then.left = Tail(asked.left)
        /\ then.failures = Append(asked.failures, Head(asked.left))
    BY <1>1, <2>1, <2>2 DEF Asked
  <2>5. AskedTrue(then)
    BY <1>1, <2>2, <2>3, <2>4, NextTried
  <2> QED
    BY <2>5 DEF then
<1>8. CASE WebRetry(q)
  <2>1. /\ then = [asked EXCEPT !.tries = asked.tries + 1]
        /\ asked.pc = "asking" /\ asked.tries + 1 < MaxWebTries
    BY <1>2, <1>8 DEF WebRetry, Asks
  <2> HIDE DEF asked, then
  <2>2. then \in Asked /\ then.pc = "asking" /\ then.named = asked.named
        /\ then.state = asked.state /\ then.left = asked.left /\ then.failures = asked.failures
    <3>1. asked.tries \in 0 .. MaxWebTries
      BY <1>1 DEF Asked
    <3>2. asked.tries + 1 \in 0 .. MaxWebTries
      BY <1>2, <2>1, <3>1
    <3> QED
      BY <1>1, <2>1, <3>2 DEF Asked
  <2>3. AskedTrue(then)
    BY <1>1, <2>1, <2>2, OthersStay
  <2> QED
    BY <2>3 DEF then
<1>9. CASE WebAnswers(q) \/ WebFail(q) \/ WebOutOfTime(q)
  <2>1. PICK pc \in {"answered", "failed", "late"} :
          /\ then = [asked EXCEPT !.pc = pc]
          /\ pc # "late" => asked.pc = "asking"
          /\ pc = "answered" => asked.left # <<>> /\ Head(asked.left) \in TheState(asked).on
          /\ pc = "failed" => asked.left = <<>>
    BY <1>2, <1>9 DEF WebAnswers, WebFail, WebOutOfTime, Asks
  <2> HIDE DEF asked, then
  <2>2. then \in Asked /\ then.pc = pc /\ then.named = asked.named
        /\ then.state = asked.state /\ then.left = asked.left /\ then.failures = asked.failures
    BY <1>1, <2>1 DEF Asked, WebPc
  <2>3. AskedTrue(then)
    BY <1>1, <2>1, <2>2, OthersStay
  <2> QED
    BY <2>3 DEF then
<1> QED
  BY <1>4, <1>5, <1>6, <1>7, <1>8, <1>9 DEF WebStep

\* Questions do not disturb each other, and neither a new configuration nor an
\* account that comes or goes disturbs a question.
LEMMA WebInvStep == WebInv /\ [WebNext]_web_vars => WebInv'
<1> SUFFICES ASSUME WebInv, [WebNext]_web_vars PROVE WebInv'
  OBVIOUS
<1>1. WebTypeOK /\ \A q \in Question : AskedTrue(question[q])
  BY DEF WebInv
<1>2. CASE \E q \in Question : WebStep(q)
  <2>1. PICK q \in Question : WebStep(q)
    BY <1>2
  <2>2. AskedTrue(question'[q])
    BY <2>1, QuestionTrue
  <2>3. /\ web' = web /\ signed_in' = signed_in
        /\ DOMAIN question' = Question /\ question' = [question EXCEPT ![q] = question'[q]]
    BY <1>1, <2>1 DEF WebTypeOK, WebStep, WebAsk, WebAdmit, WebSkip, WebRetry, WebGiveUp,
                      WebAnswers, WebFail, WebOutOfTime
  <2>4. \A other \in Question : AskedTrue(question'[other])
    BY <1>1, <2>2, <2>3 DEF WebTypeOK
  <2>5. question' \in [Question -> Asked]
    BY <1>1, <2>2, <2>3 DEF WebTypeOK, AskedTrue
  <2> QED
    BY <1>1, <2>3, <2>4, <2>5 DEF WebInv, WebTypeOK
<1>3. CASE \E config \in WebConfigs : WebApply(config)
  BY <1>1, <1>3, WebAssumption DEF WebInv, WebTypeOK, WebApply
<1>4. CASE \E p \in WebProvider : AccountChanges(p)
  BY <1>1, <1>4 DEF WebInv, WebTypeOK, AccountChanges
<1>5. CASE UNCHANGED web_vars
  BY <1>1, <1>5 DEF WebInv, WebTypeOK, web_vars
<1> QED
  BY <1>2, <1>3, <1>4, <1>5 DEF WebNext

LEMMA WebInitTrue == WebInit => WebInv
<1> SUFFICES ASSUME WebInit PROVE WebInv
  OBVIOUS
<1>1. Unanswered \in Asked
  BY WebAssumption DEF Unanswered, Asked, Named, Taken, WebPc
<1>2. AskedTrue(Unanswered)
  BY <1>1 DEF AskedTrue, Unanswered
<1> QED
  BY <1>1, <1>2, WebAssumption DEF WebInit, WebInv, WebTypeOK

\* A question of the web tools is given up only once every provider that was on
\* when it began said why not, each once and in order, and an answer comes from
\* the first that had one, whatever apply and the accounts do meanwhile.
THEOREM WebAsksEveryone == WebSpec => []WebAsksAll
<1>1. WebInv => WebAsksAll
  <2> SUFFICES ASSUME WebInv, NEW q \in Question
               PROVE  /\ question[q].pc = "failed" =>
                           AskedFirst(question[q], Len(OrderOf(question[q])))
                      /\ question[q].pc = "answered" =>
                           \E n \in DOMAIN OrderOf(question[q]) :
                             /\ Head(question[q].left) = OrderOf(question[q])[n]
                             /\ Head(question[q].left) \in TheState(question[q]).on
                             /\ AskedFirst(question[q], n - 1)
    BY DEF WebAsksAll
  <2> DEFINE asked == question[q]
  <2>1. CASE asked.pc \in {"failed", "answered"}
    <3>1. asked \in Asked /\ AskedTrue(asked) /\ asked.state # {}
      BY <2>1 DEF WebInv, AskedTrue
    <3>2. OrderOf(asked) \in Seq(WebProvider) /\ asked.left \in Seq(WebProvider)
      BY <3>1, OrderOfType DEF Asked
    <3>3. PICK n \in 0 .. Len(OrderOf(asked)) : Tried(asked, n)
      BY <2>1, <3>1 DEF AskedTrue
    <3> HIDE DEF asked
    <3>4. asked.pc = "failed" => AskedFirst(asked, Len(OrderOf(asked)))
      <4>1. asked.pc = "failed" => n = Len(OrderOf(asked))
        BY <3>1, <3>2, <3>3 DEF AskedTrue, Tried
      <4> QED
        BY <3>3, <4>1 DEF Tried
    <3>5. ASSUME asked.pc = "answered"
          PROVE  \E m \in DOMAIN OrderOf(asked) :
                   /\ Head(asked.left) = OrderOf(asked)[m]
                   /\ Head(asked.left) \in TheState(asked).on
                   /\ AskedFirst(asked, m - 1)
      <4>1. asked.left # <<>> /\ Head(asked.left) \in TheState(asked).on
        BY <3>1, <3>5 DEF AskedTrue
      <4>2. n + 1 \in DOMAIN OrderOf(asked) /\ Head(asked.left) = OrderOf(asked)[n + 1]
        BY <3>2, <3>3, <4>1 DEF Tried
      <4>3. (n + 1) - 1 = n /\ AskedFirst(asked, n)
        BY <3>3 DEF Tried
      <4> QED
        BY <4>1, <4>2, <4>3
    <3> QED
      BY <3>4, <3>5 DEF asked
  <2> QED
    BY <2>1
<1> QED
  BY <1>1, WebInitTrue, WebInvStep, PTL DEF WebSpec

\* What holds of zero and is handed on holds of every number.
LEMMA EveryLength ==
  ASSUME NEW S \in SUBSET Nat, 0 \in S, \A n \in S : n + 1 \in S
  PROVE  S = Nat
<1>1. SUFFICES ASSUME Nat \ S # {} PROVE FALSE
  OBVIOUS
<1> DEFINE R == OpToRel(<, Nat)
<1>2. IsWellFoundedOn(R, Nat)
  BY NatLessThanWellFounded
<1>3. PICK n \in Nat \ S : \A m \in Nat \ S : ~ (<<m, n>> \in R)
  <2> HIDE DEF R
  <2> QED BY <1>1, <1>2, WFMin
<1>4. \A m \in Nat \ S : ~ (m < n)
  BY <1>3 DEF OpToRel
<1>5. n - 1 \in Nat /\ n - 1 \in S
  BY <1>4
<1> QED
  BY <1>5

\* A set of numbers up to a bound has a largest one.
LEMMA Largest ==
  ASSUME NEW n \in Nat, NEW T \in SUBSET (0 .. n), T # {}
  PROVE  Max(T) \in T /\ \A t \in T : t <= Max(T)
<1> DEFINE S == {k \in Nat : \A U \in SUBSET (0 .. k) : U # {} => \E x \in U : \A y \in U : x >= y}
<1>1. 0 \in S
  <2>1. ASSUME NEW U \in SUBSET (0 .. 0), U # {} PROVE \E x \in U : \A y \in U : x >= y
    <3>1. \A y \in U : y = 0
      OBVIOUS
    <3>2. 0 \in U
      BY <2>1, <3>1
    <3> QED BY <3>1, <3>2
  <2> QED BY <2>1
<1>2. ASSUME NEW k \in S PROVE k + 1 \in S
  <2>1. ASSUME NEW U \in SUBSET (0 .. k + 1), U # {} PROVE \E x \in U : \A y \in U : x >= y
    <3>1. CASE k + 1 \in U
      BY <3>1
    <3>2. CASE k + 1 \notin U
      <4>1. U \in SUBSET (0 .. k)
        BY <3>2
      <4> QED BY <1>2, <2>1, <4>1
    <3> QED BY <3>1, <3>2
  <2> QED BY <2>1
<1>3. S = Nat
  <2>1. S \in SUBSET Nat
    OBVIOUS
  <2> HIDE DEF S
  <2> QED BY <1>1, <1>2, <2>1, EveryLength
<1>4. \E x \in T : \A y \in T : x >= y
  BY <1>3
<1>5. Max(T) \in T /\ \A y \in T : Max(T) >= y
  BY <1>4 DEF Max
<1> QED BY <1>5

\* The last number of a set before another one.
LEMMA LastBeforeIs ==
  ASSUME NEW S \in SUBSET Nat, NEW i \in Nat
  PROVE  /\ LastBefore(S, i) \in Nat
         /\ LastBefore(S, i) = 0 \/ (LastBefore(S, i) \in S /\ LastBefore(S, i) < i)
         /\ \A j \in S : j < i => j <= LastBefore(S, i)
<1> DEFINE T == {0} \cup {j \in S : j < i}
<1>1. T \in SUBSET (0 .. i) /\ T # {}
  <2>1. \A t \in T : t \in 0 .. i
    OBVIOUS
  <2>2. 0 \in T
    OBVIOUS
  <2> HIDE DEF T
  <2> QED BY <2>1, <2>2
<1>2. LastBefore(S, i) = Max(T)
  BY DEF LastBefore
<1>3. Max(T) \in T /\ \A t \in T : t <= Max(T)
  <2> HIDE DEF T
  <2> QED BY <1>1, Largest
<1>4. Max(T) \in Nat /\ (Max(T) = 0 \/ (Max(T) \in S /\ Max(T) < i))
  <2>1. \A t \in T : t \in Nat /\ (t = 0 \/ (t \in S /\ t < i))
    OBVIOUS
  <2> HIDE DEF T
  <2> QED BY <1>3, <2>1
<1>5. \A j \in S : j < i => j <= Max(T)
  BY <1>3
<1> HIDE DEF T
<1> QED BY <1>2, <1>4, <1>5

\* It is the only such number.
LEMMA LastBeforeOnly ==
  ASSUME NEW S \in SUBSET Nat, NEW i \in Nat, NEW l \in Nat, l = 0 \/ (l \in S /\ l < i),
         \A j \in S : j < i => j <= l
  PROVE  LastBefore(S, i) = l
<1>1. /\ LastBefore(S, i) \in Nat
      /\ LastBefore(S, i) = 0 \/ (LastBefore(S, i) \in S /\ LastBefore(S, i) < i)
      /\ \A j \in S : j < i => j <= LastBefore(S, i)
  BY LastBeforeIs
<1> QED BY <1>1

\* Only what is before counts.
LEMMA LastBeforeSame ==
  ASSUME NEW S \in SUBSET Nat, NEW T \in SUBSET Nat, NEW i \in Nat,
         \A j \in Nat : j < i => (j \in S <=> j \in T)
  PROVE  LastBefore(S, i) = LastBefore(T, i)
<1>1. {0} \cup {j \in S : j < i} = {0} \cup {j \in T : j < i}
  OBVIOUS
<1> QED BY <1>1 DEF LastBefore


\* Some element of a set.
OneOf(S) == CHOOSE i \in S : TRUE

Below(S, j) == {l \in S : l < j}
Rank(S, k) == {j \in S : Cardinality(Below(S, j)) = k - 1}

\* A larger number comes last.
LEMMA NthMore ==
  ASSUME NEW S \in SUBSET Nat, IsFiniteSet(S), NEW m \in Nat, \A j \in S : j < m
  PROVE  /\ Cardinality(S) \in Nat /\ Cardinality(S \cup {m}) = Cardinality(S) + 1
         /\ IsFiniteSet(S \cup {m})
         /\ \A k \in 1 .. Cardinality(S) : Nth(S \cup {m}, k) = Nth(S, k)
         /\ Nth(S \cup {m}, Cardinality(S) + 1) = m
<1> DEFINE T == S \cup {m}
           n == Cardinality(S)
<1>1. m \notin S
  OBVIOUS
<1>2. n \in Nat /\ Cardinality(T) = n + 1 /\ IsFiniteSet(T)
  BY <1>1, FS_AddElement, FS_CardinalityType
<1>3. \A j \in S : Below(T, j) = Below(S, j)
  BY DEF Below
<1>4. Below(T, m) = S
  <2>1. ~ (m < m)
    OBVIOUS
  <2> QED BY <2>1 DEF Below
<1>5. ASSUME NEW j \in S PROVE Cardinality(Below(S, j)) \in Nat /\ Cardinality(Below(S, j)) < n
  <2> DEFINE U == Below(S, j)
  <2>1. U \subseteq S \ {j}
    BY DEF Below
  <2>2. IsFiniteSet(S \ {j}) /\ Cardinality(S \ {j}) = n - 1
    BY FS_RemoveElement
  <2>3. Cardinality(U) <= Cardinality(S \ {j}) /\ IsFiniteSet(U)
    <3> HIDE DEF U
    <3> QED BY <2>1, <2>2, FS_Subset
  <2>4. Cardinality(U) \in Nat
    <3> HIDE DEF U
    <3> QED BY <2>3, FS_CardinalityType
  <2> HIDE DEF U
  <2> QED BY <1>2, <2>2, <2>3, <2>4 DEF U
<1>6. ASSUME NEW k \in 1 .. n PROVE Rank(T, k) = Rank(S, k)
  <2>1. n # k - 1
    BY <1>2
  <2> QED BY <1>3, <1>4, <2>1 DEF Rank
<1>7. Rank(T, n + 1) = {m}
  <2>1. \A j \in S : Cardinality(Below(T, j)) # n
    BY <1>2, <1>3, <1>5
  <2>3. Cardinality(Below(T, m)) = n
    BY <1>4
  <2>4. m \in Rank(T, n + 1)
    <3>1. m \in T
      OBVIOUS
    <3> HIDE DEF T, n
    <3> QED BY <1>2, <2>3, <3>1 DEF Rank
  <2>5. \A j \in Rank(T, n + 1) : j = m
    <3>1. \A j \in T : j \in S \/ j = m
      OBVIOUS
    <3>2. n + 1 - 1 = n
      BY <1>2
    <3>3. ASSUME NEW j \in Rank(T, n + 1) PROVE j = m
      <4>1. j \in T /\ Cardinality(Below(T, j)) = n + 1 - 1
        <5> HIDE DEF T, n
        <5> QED BY <1>2 DEF Rank
      <4> HIDE DEF T, n
      <4> QED BY <2>1, <3>1, <3>2, <4>1
    <3> QED BY <3>3
  <2> QED BY <2>4, <2>5
<1>8. \A k : Nth(T, k) = OneOf(Rank(T, k)) /\ Nth(S, k) = OneOf(Rank(S, k))
  BY DEF Nth, OneOf, Rank, Below
<1>9. \A k \in 1 .. n : Nth(T, k) = Nth(S, k)
  BY <1>6, <1>8
<1>10. Nth(T, n + 1) = m
  <2>1. Nth(T, n + 1) = OneOf({m})
    BY <1>7, <1>8
  <2> QED BY <2>1 DEF OneOf
<1> QED BY <1>2, <1>9, <1>10

\* The n-th number of a set is one of it.
LEMMA NthOf ==
  ASSUME NEW n \in Nat, NEW S, \A i \in S : i \in Nat /\ i < n
  PROVE  /\ IsFiniteSet(S) /\ Cardinality(S) \in Nat
         /\ \A k \in 1 .. Cardinality(S) : Nth(S, k) \in S
<1> DEFINE Fine(T) == IsFiniteSet(T) /\ Cardinality(T) \in Nat /\ \A k \in 1 .. Cardinality(T) : Nth(T, k) \in T
           N == {k \in Nat : \A T \in SUBSET Nat : (\A t \in T : t < k) => Fine(T)}
<1>1. Fine({})
  BY FS_EmptySet
<1>2. 0 \in N
  <2>1. \A T \in SUBSET Nat : (\A t \in T : t < 0) => T = {}
    OBVIOUS
  <2> HIDE DEF Fine
  <2> QED BY <1>1, <2>1
<1>3. ASSUME NEW k \in N PROVE k + 1 \in N
  <2>1. ASSUME NEW T \in SUBSET Nat, \A t \in T : t < k + 1 PROVE Fine(T)
    <3>1. CASE k \notin T
      <4>1. \A t \in T : t < k
        BY <2>1, <3>1
      <4> HIDE DEF Fine
      <4> QED BY <1>3, <4>1
    <3>2. CASE k \in T
      <4> DEFINE U == T \ {k}
      <4>1. T = U \cup {k} /\ U \in SUBSET Nat /\ k \in Nat /\ \A j \in U : j < k
        BY <2>1, <3>2
      <4>2. Fine(U)
        <5> HIDE DEF Fine, U
        <5> QED BY <1>3, <4>1
      <4> HIDE DEF U
      <4>3. /\ Cardinality(U) \in Nat /\ Cardinality(T) = Cardinality(U) + 1 /\ IsFiniteSet(T)
            /\ \A i \in 1 .. Cardinality(U) : Nth(T, i) = Nth(U, i)
            /\ Nth(T, Cardinality(U) + 1) = k
        <5>1. IsFiniteSet(U)
          BY <4>2
        <5> HIDE DEF Fine
        <5>2. /\ Cardinality(U) \in Nat /\ Cardinality(U \cup {k}) = Cardinality(U) + 1
              /\ IsFiniteSet(U \cup {k})
              /\ \A i \in 1 .. Cardinality(U) : Nth(U \cup {k}, i) = Nth(U, i)
              /\ Nth(U \cup {k}, Cardinality(U) + 1) = k
          BY <4>1, <5>1, NthMore
        <5> QED BY <4>1, <5>2
      <4>4. ASSUME NEW i \in 1 .. Cardinality(T) PROVE Nth(T, i) \in T
        <5>1. CASE i = Cardinality(U) + 1
          BY <3>2, <4>3, <5>1
        <5>2. CASE i \in 1 .. Cardinality(U)
          BY <4>1, <4>2, <4>3, <5>2
        <5> QED BY <4>3, <5>1, <5>2
      <4> QED BY <4>3, <4>4
    <3> QED BY <3>1, <3>2
  <2> HIDE DEF Fine
  <2> QED BY <2>1
<1>4. N = Nat
  <2>1. N \in SUBSET Nat
    OBVIOUS
  <2> HIDE DEF N
  <2> QED BY <1>2, <1>3, <2>1, EveryLength
<1>5. S \in SUBSET Nat
  OBVIOUS
<1>6. Fine(S)
  <2> HIDE DEF Fine
  <2> QED BY <1>4, <1>5
<1> QED BY <1>6

\* A list has its elements' values.
LEMMA OrderedSame ==
  ASSUME NEW n \in Nat, NEW S, \A i \in S : i \in Nat /\ i < n,
         NEW f, NEW g, \A i \in S : f[i] = g[i]
  PROVE  Ordered(S, f) = Ordered(S, g)
<1>1. \A k \in 1 .. Cardinality(S) : Nth(S, k) \in S
  BY NthOf
<1> QED BY <1>1 DEF Ordered

LEMMA OrderedSeq ==
  ASSUME NEW n \in Nat, NEW S, \A i \in S : i \in Nat /\ i < n, NEW f
  PROVE  /\ Ordered(S, f) = [k \in 1 .. Cardinality(S) |-> Ordered(S, f)[k]]
         /\ Len(Ordered(S, f)) = Cardinality(S) /\ Cardinality(S) \in Nat
         /\ \E V : Ordered(S, f) \in Seq(V)
<1>1. Cardinality(S) \in Nat
  BY NthOf
<1> DEFINE V == {f[Nth(S, k)] : k \in 1 .. Cardinality(S)}
<1>2. Ordered(S, f) \in [1 .. Cardinality(S) -> V]
  BY DEF Ordered
<1>3. Ordered(S, f) \in Seq(V)
  <2> HIDE DEF V
  <2> QED BY <1>1, <1>2
<1>4. Len(Ordered(S, f)) = Cardinality(S)
  BY <1>1 DEF Ordered
<1> HIDE DEF V
<1> QED BY <1>1, <1>2, <1>3, <1>4

\* Nothing is listed of nothing.
LEMMA OrderedNone ==
  ASSUME NEW f
  PROVE  Ordered({}, f) = <<>>
<1>1. Cardinality({}) = 0
  BY FS_EmptySet
<1> QED BY <1>1 DEF Ordered

\* A later position is listed last.
LEMMA OrderedMore ==
  ASSUME NEW m \in Nat, NEW S, \A i \in S : i \in Nat /\ i < m, NEW f, NEW g,
         \A i \in S : f[i] = g[i]
  PROVE  Ordered(S \cup {m}, f) = Append(Ordered(S, g), f[m])
<1>1. \A j \in S : j \in Nat /\ j < m
  OBVIOUS
<1>2. IsFiniteSet(S) /\ Cardinality(S) \in Nat /\ \A k \in 1 .. Cardinality(S) : Nth(S, k) \in S
  BY NthOf
<1>3. /\ Cardinality(S \cup {m}) = Cardinality(S) + 1
      /\ \A k \in 1 .. Cardinality(S) : Nth(S \cup {m}, k) = Nth(S, k)
      /\ Nth(S \cup {m}, Cardinality(S) + 1) = m
  <2>1. S \in SUBSET Nat
    BY <1>1
  <2> QED BY <1>1, <1>2, <2>1, NthMore
<1> DEFINE c == Cardinality(S)
           l == Ordered(S, g)
           V == {g[Nth(S, k)] : k \in 1 .. c} \cup {f[m]}
<1>4. l \in Seq(V) /\ Len(l) = c /\ f[m] \in V /\ \A k \in 1 .. c : l[k] = g[Nth(S, k)]
  <2>1. l \in [1 .. c -> V] /\ \A k \in 1 .. c : l[k] = g[Nth(S, k)]
    BY DEF Ordered
  <2>2. f[m] \in V
    OBVIOUS
  <2> HIDE DEF l, V
  <2> QED BY <1>2, <2>1, <2>2
<1>5. Ordered(S \cup {m}, f) = [k \in 1 .. c + 1 |-> f[Nth(S \cup {m}, k)]]
  BY <1>3 DEF Ordered
<1>6. \A k \in 1 .. c : f[Nth(S \cup {m}, k)] = l[k]
  BY <1>2, <1>3, <1>4
<1>7. f[Nth(S \cup {m}, c + 1)] = f[m]
  BY <1>3
<1> HIDE DEF l, V, c
<1>8. Append(l, f[m]) = [k \in 1 .. c + 1 |-> IF k <= c THEN l[k] ELSE f[m]]
  BY <1>2, <1>4 DEF c
<1>9. \A k \in 1 .. c + 1 : f[Nth(S \cup {m}, k)] = IF k <= c THEN l[k] ELSE f[m]
  <2>1. c \in Nat
    BY <1>2 DEF c
  <2> QED BY <1>6, <1>7, <2>1
<1> QED BY <1>5, <1>8, <1>9 DEF l, c

\* What is cut out of a sequence.
LEMMA CutIs ==
  ASSUME NEW V, NEW s \in Seq(V), NEW m \in Nat, NEW n \in Nat, 1 <= m, m <= n + 1, n <= Len(s)
  PROVE  /\ SubSeq(s, m, n) = [k \in 1 .. n - m + 1 |-> s[m + k - 1]]
         /\ SubSeq(s, m, n) \in Seq(V) /\ Len(SubSeq(s, m, n)) = n - m + 1
         /\ \A k \in 1 .. n - m + 1 : SubSeq(s, m, n)[k] = s[m + k - 1] /\ m + k - 1 \in 1 .. Len(s)
<1>1. Len(s) \in Nat /\ n - m + 1 \in Nat
  OBVIOUS
<1>2. \A k \in 1 .. n - m + 1 : m + k - 1 \in 1 .. Len(s)
  BY <1>1
<1>3. SubSeq(s, m, n) = [k \in 1 .. n - m + 1 |-> s[m + k - 1]]
  <2>1. SubSeq(s, m, n) = [i \in 1 .. (n - m + 1) |-> s[i + m - 1]]
    BY <1>1
  <2>2. \A i \in 1 .. n - m + 1 : i + m - 1 = m + i - 1
    OBVIOUS
  <2> QED BY <2>1, <2>2
<1>4. SubSeq(s, m, n) \in [1 .. n - m + 1 -> V]
  BY <1>2, <1>3
<1>5. SubSeq(s, m, n) \in Seq(V) /\ Len(SubSeq(s, m, n)) = n - m + 1
  BY <1>1, <1>4
<1> QED BY <1>2, <1>3, <1>5

LEMMA BytesIn ==
  ASSUME NEW V, NEW s \in Seq(V)
  PROVE  Len(s) \in Nat /\ \A i \in 1 .. Len(s) : s[i] \in V
OBVIOUS

-----------------------------------------------------------------------------
(* Frames. *)

\* What it takes to be a whole frame.
LEMMA WholeIs ==
  ASSUME NEW b \in Seq(Nat), NEW j \in 1 .. Len(b) + 1, MaxEvent \in Nat
  PROVE  /\ LengthRead(b, j) => b[j] \in Nat /\ j \in 1 .. Len(b) /\ j + 1 \in 1 .. Len(b)
         /\ WholeFrame(b, j) =>
              /\ j \in 1 .. Len(b) /\ j + 1 \in 1 .. Len(b) /\ b[j] \in Nat
              /\ 2 <= b[j] /\ b[j] <= MaxEvent
              /\ j + b[j] \in 1 .. Len(b) + 1 /\ j < j + b[j]
         /\ FrameRead(b, j) /\ b[j] \in MinFrame .. MaxEvent =>
              FrameAt(b, j)[2] = b[j + 1] /\ b[j + 1] \in Nat
<1>1. LengthRead(b, j) => b[j] \in Nat /\ j \in 1 .. Len(b) /\ j + 1 \in 1 .. Len(b)
  BY DEF LengthRead
<1>2. ASSUME FrameRead(b, j), b[j] \in MinFrame .. MaxEvent
      PROVE  /\ FrameAt(b, j)[2] = b[j + 1] /\ b[j + 1] \in Nat /\ j < j + b[j]
             /\ j + b[j] \in 1 .. Len(b) + 1 /\ 2 <= b[j] /\ b[j] <= MaxEvent
  <2>1. PICK n \in Nat : n = b[j]
    BY <1>1, <1>2 DEF FrameRead
  <2>2. j \in 1 .. Len(b) /\ j + 1 \in 1 .. Len(b)
    BY <1>1, <1>2 DEF FrameRead
  <2>3. n \in 2 .. MaxEvent
    BY <1>2, <2>1 DEF MinFrame
  <2>4. j + n - 1 <= Len(b)
    BY <1>2, <2>1 DEF FrameRead
  <2>5. Len(b) \in Nat /\ b[j + 1] \in Nat
    BY <2>2, BytesIn
  <2>6. j + n \in 1 .. Len(b) + 1 /\ 2 <= n /\ n <= MaxEvent /\ j < j + n
    BY <2>2, <2>3, <2>4, <2>5
  <2>7. FrameAt(b, j)[2] = b[j + 1]
    <3>1. j \in Nat /\ j + n - 1 \in Nat /\ 1 <= j /\ j <= j + n - 1 + 1 /\ 2 \in 1 .. j + n - 1 - j + 1
          /\ j + 2 - 1 = j + 1
      BY <2>2, <2>3
    <3>2. SubSeq(b, j, j + n - 1)[2] = b[j + 2 - 1]
      BY <2>4, <3>1, CutIs
    <3> QED BY <2>1, <3>1, <3>2 DEF FrameAt
  <2> QED BY <2>1, <2>5, <2>6, <2>7
<1>3. WholeFrame(b, j) => FrameRead(b, j) /\ LengthRead(b, j) /\ b[j] \in MinFrame .. MaxEvent
  BY DEF WholeFrame, FrameRead, Refused
<1> QED BY <1>1, <1>2, <1>3

LEMMA StartsClosed ==
  ASSUME NEW b \in Seq(Nat), MaxEvent \in Nat
  PROVE  /\ FrameStarts(b) \in SUBSET (1 .. Len(b) + 1)
         /\ 1 \in FrameStarts(b)
         /\ \A j \in FrameStarts(b) : WholeFrame(b, j) => j + b[j] \in FrameStarts(b)
<1>1. FrameStarts(b) \in SUBSET (1 .. Len(b) + 1)
  BY DEF FrameStarts
<1>2. 1 \in FrameStarts(b)
  BY DEF FrameStarts
<1>3. ASSUME NEW j \in FrameStarts(b), WholeFrame(b, j) PROVE j + b[j] \in FrameStarts(b)
  <2>1. j + b[j] \in 1 .. Len(b) + 1
    BY <1>1, <1>3, WholeIs
  <2>2. ASSUME NEW S \in SUBSET (1 .. Len(b) + 1),
               1 \in S /\ (\A k \in S : WholeFrame(b, k) => k + b[k] \in S)
        PROVE  j + b[j] \in S
    <3>1. j \in S
      BY <2>2 DEF FrameStarts
    <3> QED BY <1>3, <2>2, <3>1
  <2> QED BY <2>1, <2>2 DEF FrameStarts
<1> QED BY <1>1, <1>2, <1>3

LEMMA StartsLeast ==
  ASSUME NEW b \in Seq(Nat), NEW S \in SUBSET (1 .. Len(b) + 1), 1 \in S,
         \A j \in S : WholeFrame(b, j) => j + b[j] \in S
  PROVE  FrameStarts(b) \subseteq S
BY DEF FrameStarts

\* Frames do not overlap: each begins behind the ones before it.
LEMMA StartsInOrder ==
  ASSUME NEW b \in Seq(Nat), MaxEvent \in Nat, NEW i \in FrameStarts(b), NEW j \in FrameStarts(b), j < i
  PROVE  WholeFrame(b, j) /\ j + b[j] <= i
<1> DEFINE F == FrameStarts(b)
           Behind(k) == \A l \in F : l < k => WholeFrame(b, l) /\ l + b[l] <= k
<1>1. /\ F \in SUBSET (1 .. Len(b) + 1) /\ 1 \in F
      /\ \A k \in F : WholeFrame(b, k) => k + b[k] \in F
  BY StartsClosed
<1>2. \A k \in F : WholeFrame(b, k) => b[k] \in Nat /\ k < k + b[k]
  BY <1>1, WholeIs
<1> HIDE DEF F
<1>3. ASSUME NEW k \in F, Behind(k)
      PROVE  \A l \in F : k < l => WholeFrame(b, k) /\ k + b[k] <= l
  <2> DEFINE S == {l \in F : l <= k \/ (WholeFrame(b, k) /\ k + b[k] <= l)}
  <2>1. S \in SUBSET (1 .. Len(b) + 1) /\ 1 \in S
    <3>1. 1 <= k /\ k \in Nat
      BY <1>1
    <3> QED BY <1>1, <3>1
  <2>2. ASSUME NEW l \in S, WholeFrame(b, l) PROVE l + b[l] \in S
    <3>1. l \in F /\ l + b[l] \in F /\ b[l] \in Nat /\ l < l + b[l] /\ l \in Nat /\ k \in Nat
      BY <1>1, <1>2, <2>2
    <3>2. CASE l < k
      BY <1>3, <3>1, <3>2
    <3>3. CASE l = k
      BY <2>2, <3>1, <3>3
    <3>4. CASE k < l
      <4>1. WholeFrame(b, k) /\ k + b[k] <= l /\ b[k] \in Nat
        BY <1>2, <3>1, <3>4
      <4> QED BY <3>1, <4>1
    <3> QED BY <3>1, <3>2, <3>3, <3>4
  <2>3. F \subseteq S
    <3> HIDE DEF S
    <3> QED BY <2>1, <2>2, StartsLeast DEF F
  <2> QED BY <1>1, <2>3
<1> DEFINE C == {k \in F : Behind(k)}
<1>4. C \in SUBSET (1 .. Len(b) + 1) /\ 1 \in C
  <2>1. \A l \in F : ~ (l < 1)
    BY <1>1
  <2> QED BY <1>1, <2>1
<1>5. ASSUME NEW k \in C, WholeFrame(b, k) PROVE k + b[k] \in C
  <2>1. k \in F /\ k + b[k] \in F /\ Behind(k) /\ b[k] \in Nat /\ k \in Nat
    BY <1>1, <1>2, <1>5
  <2>2. ASSUME NEW l \in F, l < k + b[k] PROVE WholeFrame(b, l) /\ l + b[l] <= k + b[k]
    <3>1. l \in Nat
      BY <1>1
    <3>2. CASE l < k
      <4>1. WholeFrame(b, l) /\ l + b[l] <= k /\ b[l] \in Nat
        BY <1>2, <2>1, <3>2
      <4> QED BY <2>1, <3>1, <4>1
    <3>3. CASE l = k
      BY <1>5, <2>1, <3>3
    <3>4. CASE k < l
      BY <1>3, <2>1, <2>2, <3>1, <3>4
    <3> QED BY <2>1, <3>1, <3>2, <3>3, <3>4
  <2> QED BY <2>1, <2>2
<1>6. F \subseteq C
  <2> HIDE DEF C
  <2> QED BY <1>4, <1>5, StartsLeast DEF F
<1> QED BY <1>6 DEF F

\* A body that goes on: its whole frames stay, and so do their beginnings.
GoesOn(b, e) == Len(b) <= Len(e) /\ \A i \in 1 .. Len(b) : e[i] = b[i]

LEMMA WholeStays ==
  ASSUME NEW b \in Seq(Nat), NEW e \in Seq(Nat), GoesOn(b, e), MaxEvent \in Nat,
         NEW j \in 1 .. Len(b) + 1, WholeFrame(b, j)
  PROVE  /\ WholeFrame(e, j) /\ e[j] = b[j] /\ FrameAt(e, j) = FrameAt(b, j)
<1>1. /\ j \in 1 .. Len(b) /\ j + 1 \in 1 .. Len(b) /\ b[j] \in Nat
      /\ 2 <= b[j] /\ b[j] <= MaxEvent
      /\ j + b[j] \in 1 .. Len(b) + 1
  BY WholeIs
<1>2. e[j] = b[j] /\ e[j + 1] = b[j + 1] /\ Len(b) <= Len(e) /\ Len(e) \in Nat /\ Len(b) \in Nat
  <2>1. Len(e) \in Nat /\ Len(b) \in Nat
    BY BytesIn
  <2> QED BY <1>1, <2>1 DEF GoesOn
<1>10. PICK n \in Nat : n = b[j]
  BY <1>1
<1>11. /\ n \in 2 .. MaxEvent /\ j + n \in 1 .. Len(b) + 1 /\ j \in 1 .. Len(b) /\ j + 1 \in 1 .. Len(b)
      /\ Len(b) <= Len(e) /\ Len(e) \in Nat /\ Len(b) \in Nat
  BY <1>1, <1>2, <1>10
<1>3. FrameRead(e, j) /\ e[j] \in MinFrame .. MaxEvent /\ j \in 1 .. Len(e) + 1
  <2>1. j < Len(e) /\ j + n - 1 <= Len(e) /\ j \in 1 .. Len(e) + 1
    BY <1>11
  <2> QED BY <1>2, <1>10, <1>11, <2>1 DEF FrameRead, LengthRead, MinFrame
<1>4. FrameAt(e, j)[2] = e[j + 1]
  BY <1>3, WholeIs
<1>5. FrameRead(b, j) /\ b[j] \in MinFrame .. MaxEvent /\ ~ Damaged(FrameAt(b, j))
  BY DEF WholeFrame, Refused, FrameRead
<1>6. FrameAt(b, j)[2] = b[j + 1]
  BY <1>5, WholeIs
<1>7. ~ Damaged(FrameAt(e, j))
  BY <1>2, <1>4, <1>5, <1>6 DEF Damaged
<1>8. WholeFrame(e, j)
  BY <1>3, <1>7 DEF WholeFrame, Refused
<1>9. FrameAt(e, j) = FrameAt(b, j)
  <2>1. \A k \in 1 .. n : j + k - 1 \in 1 .. Len(b)
    BY <1>11
  <2>2. /\ j \in Nat /\ j + n - 1 \in Nat /\ 1 <= j /\ j <= j + n - 1 + 1 /\ j + n - 1 - j + 1 = n
        /\ j + n - 1 <= Len(b) /\ j + n - 1 <= Len(e)
    BY <1>11
  <2>3. SubSeq(b, j, j + n - 1) = [k \in 1 .. n |-> b[j + k - 1]]
    <3>1. SubSeq(b, j, j + n - 1) = [k \in 1 .. j + n - 1 - j + 1 |-> b[j + k - 1]]
      BY <2>2, CutIs
    <3> QED BY <2>2, <3>1
  <2>4. SubSeq(e, j, j + n - 1) = [k \in 1 .. n |-> e[j + k - 1]]
    <3>1. SubSeq(e, j, j + n - 1) = [k \in 1 .. j + n - 1 - j + 1 |-> e[j + k - 1]]
      BY <2>2, CutIs
    <3> QED BY <2>2, <3>1
  <2>5. SubSeq(b, j, j + n - 1) = SubSeq(e, j, j + n - 1)
    BY <2>1, <2>3, <2>4 DEF GoesOn
  <2> QED BY <1>2, <1>10, <2>5 DEF FrameAt
<1> QED BY <1>2, <1>8, <1>9

LEMMA StartsStay ==
  ASSUME NEW b \in Seq(Nat), NEW e \in Seq(Nat), GoesOn(b, e), MaxEvent \in Nat,
         NEW q \in FrameStarts(b)
  PROVE  /\ q \in FrameStarts(e)
         /\ \A i \in 1 .. q : i \in FrameStarts(e) <=> i \in FrameStarts(b)
<1> DEFINE F == FrameStarts(b)
           G == FrameStarts(e)
<1>1. /\ F \in SUBSET (1 .. Len(b) + 1) /\ 1 \in F
      /\ \A k \in F : WholeFrame(b, k) => k + b[k] \in F
  BY StartsClosed
<1>2. /\ G \in SUBSET (1 .. Len(e) + 1) /\ 1 \in G
      /\ \A k \in G : WholeFrame(e, k) => k + e[k] \in G
  BY StartsClosed
<1>3. \A k \in F, l \in F : k < l => WholeFrame(b, k) /\ k + b[k] <= l
  BY StartsInOrder
<1>4. \A k \in 1 .. Len(b) + 1 : WholeFrame(b, k) => WholeFrame(e, k) /\ e[k] = b[k]
                                                     /\ k + b[k] \in 1 .. Len(b) + 1
  BY WholeStays, WholeIs
<1>5. \A k \in G : WholeFrame(e, k) => k < k + e[k] /\ e[k] \in Nat
  BY <1>2, WholeIs
<1> HIDE DEF F, G
<1>6. F \subseteq G
  <2> DEFINE S == G \cap (1 .. Len(b) + 1)
  <2>1. S \in SUBSET (1 .. Len(b) + 1) /\ 1 \in S
    BY <1>2
  <2>2. ASSUME NEW k \in S, WholeFrame(b, k) PROVE k + b[k] \in S
    BY <1>2, <1>4, <2>2
  <2> HIDE DEF S
  <2>3. F \subseteq S
    BY <2>1, <2>2, StartsLeast DEF F
  <2> QED BY <2>3 DEF S
<1>7. G \subseteq {i \in G : i \in F \/ q < i}
  <2> DEFINE S == {i \in G : i \in F \/ q < i}
  <2>1. S \in SUBSET (1 .. Len(e) + 1) /\ 1 \in S
    BY <1>1, <1>2
  <2>2. ASSUME NEW k \in S, WholeFrame(e, k) PROVE k + e[k] \in S
    <3>1. k \in G /\ k + e[k] \in G /\ k < k + e[k] /\ k \in Nat /\ q \in Nat /\ e[k] \in Nat /\ q \in F
      BY <1>1, <1>2, <1>5, <2>2 DEF F
    <3>2. CASE k \in F /\ k < q
      <4>1. WholeFrame(b, k) /\ k \in 1 .. Len(b) + 1
        BY <1>1, <1>3, <3>1, <3>2
      <4> QED BY <1>1, <1>4, <3>1, <3>2, <4>1
    <3>3. CASE q <= k
      BY <3>1, <3>3
    <3> QED BY <2>2, <3>1, <3>2, <3>3
  <2> HIDE DEF S
  <2>3. G \subseteq S
    BY <2>1, <2>2, StartsLeast DEF G
  <2> QED BY <2>3 DEF S
<1>8. \A i \in 1 .. q : i \in G <=> i \in F
  <2>1. q \in Nat
    BY <1>1 DEF F
  <2> QED BY <1>6, <1>7, <2>1
<1> QED BY <1>6, <1>8 DEF F, G

\* The frames before a position that are records, and the records.
FullBefore(b, q) == {i \in FrameStarts(b) : i < q /\ FrameRecord(FrameAt(b, i)) # <<>>}
RecordsBefore(b, q) ==
  Ordered(FullBefore(b, q), [i \in FullBefore(b, q) |-> FrameRecord(FrameAt(b, i))[1]])

LEMMA RecordsMore ==
  ASSUME NEW b \in Seq(Nat), MaxEvent \in Nat, NEW q \in FrameStarts(b), WholeFrame(b, q)
  PROVE  RecordsBefore(b, q + b[q]) = RecordsBefore(b, q) \o FrameRecord(FrameAt(b, q))
<1>1. /\ FrameStarts(b) \in SUBSET (1 .. Len(b) + 1) /\ q \in 1 .. Len(b) + 1 /\ Len(b) \in Nat
      /\ \A i \in FrameStarts(b) : i \in Nat
  BY StartsClosed, BytesIn
<1>2. PICK n \in Nat : n = q + b[q]
  BY <1>1, WholeIs
<1>3. q < n /\ n \in FrameStarts(b)
  BY <1>1, <1>2, StartsClosed, WholeIs
<1>4. \A i \in FrameStarts(b) : i < n <=> i < q \/ i = q
  <2>1. \A i \in FrameStarts(b) : q < i => n <= i
    BY <1>2, StartsInOrder
  <2> QED BY <1>1, <1>3, <2>1
<1> DEFINE A == FullBefore(b, q)
           B == FullBefore(b, n)
           f == [i \in A |-> FrameRecord(FrameAt(b, i))[1]]
           g == [i \in B |-> FrameRecord(FrameAt(b, i))[1]]
<1>5. q \in Nat /\ \A i \in A : i \in Nat /\ i < q
  BY <1>1 DEF FullBefore
<1>6. \E V : Ordered(A, f) \in Seq(V)
  <2> HIDE DEF A, f
  <2> QED BY <1>5, OrderedSeq
<1>7. CASE FrameRecord(FrameAt(b, q)) = <<>>
  <2>1. B = A
    BY <1>1, <1>3, <1>4, <1>7 DEF FullBefore
  <2>2. Ordered(B, g) = Ordered(A, f)
    BY <2>1
  <2> HIDE DEF A, f, B, g
  <2>3. Ordered(A, f) \o <<>> = Ordered(A, f)
    BY <1>6
  <2> QED BY <1>2, <1>7, <2>2, <2>3 DEF RecordsBefore, A, f, B, g
<1>8. CASE FrameRecord(FrameAt(b, q)) # <<>>
  <2> DEFINE r == FrameRecord(FrameAt(b, q))[1]
  <2>1. B = A \cup {q}
    BY <1>1, <1>3, <1>4, <1>8 DEF FullBefore
  <2>2. (\A i \in A : g[i] = f[i]) /\ g[q] = r
    BY <2>1
  <2>3. FrameRecord(FrameAt(b, q)) = <<r>>
    BY <1>8 DEF FrameRecord
  <2> HIDE DEF A, f, B, g, r
  <2>4. Ordered(B, g) = Append(Ordered(A, f), r)
    <3>3. ASSUME NEW F, NEW G, \A i \in A : F[i] = G[i]
          PROVE  Ordered(A \cup {q}, F) = Append(Ordered(A, G), F[q])
      BY <1>5, <3>3, OrderedMore
    <3>4. Ordered(A \cup {q}, g) = Append(Ordered(A, f), g[q])
      BY <2>2, <3>3
    <3> QED BY <2>1, <2>2, <3>4
  <2>5. Append(Ordered(A, f), r) = Ordered(A, f) \o <<r>>
    <3>1. PICK V : Ordered(A, f) \in Seq(V)
      BY <1>6
    <3>2. Ordered(A, f) \in Seq(V \cup {r}) /\ r \in V \cup {r}
      BY <3>1
    <3> QED BY <3>2
  <2> QED BY <1>2, <2>3, <2>4, <2>5 DEF RecordsBefore, A, f, B, g
<1> QED BY <1>7, <1>8

LEMMA RecordsStay ==
  ASSUME NEW b \in Seq(Nat), NEW e \in Seq(Nat), GoesOn(b, e), MaxEvent \in Nat,
         NEW q \in FrameStarts(b)
  PROVE  RecordsBefore(e, q) = RecordsBefore(b, q)
<1>1. /\ FrameStarts(b) \in SUBSET (1 .. Len(b) + 1) /\ q \in 1 .. Len(b) + 1 /\ Len(b) \in Nat
      /\ \A i \in FrameStarts(b) : i \in Nat
      /\ FrameStarts(e) \in SUBSET (1 .. Len(e) + 1) /\ \A i \in FrameStarts(e) : i \in Nat /\ 1 <= i
  BY StartsClosed, BytesIn
<1>2. \A i \in 1 .. q : i \in FrameStarts(e) <=> i \in FrameStarts(b)
  BY StartsStay
<1>3. \A i \in FrameStarts(b) : i < q => FrameAt(e, i) = FrameAt(b, i)
  BY <1>1, StartsInOrder, WholeStays
<1>4. FullBefore(e, q) = FullBefore(b, q)
  BY <1>1, <1>2, <1>3 DEF FullBefore
<1>5. \A i \in FullBefore(b, q) : FrameAt(e, i) = FrameAt(b, i)
  BY <1>3 DEF FullBefore
<1>6. [i \in FullBefore(e, q) |-> FrameRecord(FrameAt(e, i))[1]]
      = [i \in FullBefore(b, q) |-> FrameRecord(FrameAt(b, i))[1]]
  BY <1>4, <1>5
<1> QED BY <1>4, <1>6 DEF RecordsBefore

\* Where no whole frame begins, the body has said all its records; where none is
\* refused there, it is not broken.
LEMMA RecordsAll ==
  ASSUME NEW b \in Seq(Nat), MaxEvent \in Nat, NEW q \in FrameStarts(b), ~ WholeFrame(b, q)
  PROVE  /\ AwsRecords(b).records = RecordsBefore(b, q)
         /\ AwsRecords(b).broken <=> Refused(b, q)
         /\ AwsRecords(b).rest <=> q # Len(b) + 1
<1>1. /\ FrameStarts(b) \in SUBSET (1 .. Len(b) + 1) /\ q \in 1 .. Len(b) + 1 /\ Len(b) \in Nat
      /\ \A i \in FrameStarts(b) : i \in Nat
  BY StartsClosed, BytesIn
<1>2. \A i \in FrameStarts(b) : i = q \/ (i < q /\ WholeFrame(b, i))
  <2>1. \A i \in FrameStarts(b) : ~ (q < i)
    BY StartsInOrder
  <2>2. \A i \in FrameStarts(b) : i < q => WholeFrame(b, i)
    BY StartsInOrder
  <2> QED BY <1>1, <2>1, <2>2
<1>3. {i \in FrameStarts(b) : WholeFrame(b, i) /\ FrameRecord(FrameAt(b, i)) # <<>>} = FullBefore(b, q)
  BY <1>1, <1>2 DEF FullBefore
<1>4. AwsRecords(b).records = RecordsBefore(b, q)
  BY <1>3 DEF AwsRecords, RecordsBefore
<1>5. (\E i \in FrameStarts(b) : Refused(b, i)) <=> Refused(b, q)
  BY <1>2 DEF WholeFrame
<1>6. Len(b) + 1 \notin FrameStarts(b) <=> q # Len(b) + 1
  <2>1. Len(b) + 1 \in FrameStarts(b) => Len(b) + 1 = q
    BY <1>1, <1>2
  <2> QED BY <2>1
<1>7. AwsRecords(b).broken <=> \E i \in FrameStarts(b) : Refused(b, i)
  BY DEF AwsRecords
<1>8. AwsRecords(b).rest <=> Len(b) + 1 \notin FrameStarts(b)
  BY DEF AwsRecords
<1> QED BY <1>4, <1>5, <1>6, <1>7, <1>8

-----------------------------------------------------------------------------
(* The two loops. *)

\* What one turn of a loop makes of a parser.
Turn(kind, chunk, i, p) == IF kind = "sse" THEN TakeByte(p, chunk[i]) ELSE TakeFrame(p)

\* The equation of the turns.
Turns(g, kind, chunk, p, n) ==
  \A i \in 0 .. n : g[i] = IF i = 0 THEN p ELSE Turn(kind, chunk, i, g[i - 1])

Upto(g, n) == g = [i \in 0 .. n |-> g[i]]

\* Some function satisfies it.
LEMMA TurnsExist ==
  ASSUME NEW kind, NEW chunk, NEW p, NEW n \in Nat
  PROVE  \E g : Turns(g, kind, chunk, p, n) /\ Upto(g, n)
<1> DEFINE S == {k \in Nat : \E g : Turns(g, kind, chunk, p, k)}
<1>1. 0 \in S
  <2>1. Turns([i \in {0} |-> p], kind, chunk, p, 0)
    BY DEF Turns
  <2> QED BY <2>1
<1>2. ASSUME NEW k \in S PROVE k + 1 \in S
  <2>1. PICK g : Turns(g, kind, chunk, p, k)
    BY <1>2
  <2> DEFINE h == [i \in 0 .. k + 1 |-> IF i = k + 1 THEN Turn(kind, chunk, k + 1, g[k]) ELSE g[i]]
  <2>2. ASSUME NEW i \in 0 .. k + 1
        PROVE  h[i] = IF i = 0 THEN p ELSE Turn(kind, chunk, i, h[i - 1])
    <3>1. k \in Nat
      OBVIOUS
    <3>2. CASE i = k + 1
      <4>1. h[k] = g[k] /\ i # 0 /\ i - 1 = k
        BY <3>1, <3>2
      <4>2. h[i] = Turn(kind, chunk, k + 1, g[k])
        BY <3>2
      <4> QED BY <3>2, <4>1, <4>2
    <3>3. CASE i # k + 1
      <4>1. i \in 0 .. k /\ h[i] = g[i]
        BY <3>1, <3>3
      <4>2. i # 0 => i - 1 \in 0 .. k + 1 /\ i - 1 # k + 1
        BY <3>1, <4>1
      <4>3. i # 0 => h[i - 1] = g[i - 1]
        BY <4>2
      <4>4. g[i] = IF i = 0 THEN p ELSE Turn(kind, chunk, i, g[i - 1])
        BY <2>1, <4>1 DEF Turns
      <4> QED BY <4>1, <4>3, <4>4
    <3> QED BY <3>2, <3>3
  <2> HIDE DEF h
  <2>3. Turns(h, kind, chunk, p, k + 1)
    BY <2>2 DEF Turns
  <2>4. k + 1 \in Nat
    OBVIOUS
  <2> QED BY <2>3, <2>4
<1>3. S = Nat
  <2>1. S \in SUBSET Nat
    OBVIOUS
  <2> HIDE DEF S
  <2> QED BY <1>1, <1>2, <2>1, EveryLength
<1>4. PICK g : Turns(g, kind, chunk, p, n)
  BY <1>3
<1> DEFINE h == [i \in 0 .. n |-> g[i]]
<1>5. ASSUME NEW i \in 0 .. n
      PROVE  h[i] = IF i = 0 THEN p ELSE Turn(kind, chunk, i, h[i - 1])
  <2>1. i # 0 => i - 1 \in 0 .. n
    OBVIOUS
  <2>2. i # 0 => h[i - 1] = g[i - 1]
    BY <2>1
  <2>3. g[i] = IF i = 0 THEN p ELSE Turn(kind, chunk, i, g[i - 1])
    BY <1>4 DEF Turns
  <2> QED BY <2>2, <2>3
<1>6. h = [i \in 0 .. n |-> h[i]]
  OBVIOUS
<1> HIDE DEF h
<1>7. Turns(h, kind, chunk, p, n) /\ Upto(h, n)
  BY <1>5, <1>6 DEF Turns, Upto
<1> QED BY <1>7

LEMMA SseFeedIs ==
  ASSUME NEW p, NEW chunk, Len(chunk) \in Nat
  PROVE  \E g : Turns(g, "sse", chunk, p, Len(chunk)) /\ SseFeed(p, chunk) = EnforceCap(g[Len(chunk)])
<1> DEFINE n == Len(chunk)
           Q(g) == g = [i \in 0 .. n |-> IF i = 0 THEN p ELSE TakeByte(g[i - 1], chunk[i])]
           g == CHOOSE h : Q(h)
<1>1. \E h : Q(h)
  <2> HIDE DEF n
  <2>1. PICK h : Turns(h, "sse", chunk, p, n) /\ Upto(h, n)
    BY TurnsExist DEF n
  <2>2. Q(h)
    BY <2>1 DEF Turns, Turn, Upto
  <2> QED BY <2>2
<1>2. Q(g)
  BY <1>1
<1>3. SseFeed(p, chunk) = EnforceCap(g[n])
  BY DEF SseFeed
<1> HIDE DEF g
<1>4. Turns(g, "sse", chunk, p, n)
  BY <1>2 DEF Turns, Turn
<1> QED BY <1>3, <1>4

\* The parser with a chunk behind its bytes.
WithChunk(p, chunk, whole) == whole = [p EXCEPT !.buffer = @ \o chunk]

LEMMA AwsFeedIs ==
  ASSUME NEW p, NEW chunk, NEW whole, WithChunk(p, chunk, whole), NEW n \in Nat,
         n = Len(whole.buffer)
  PROVE  \E g : Turns(g, "aws", chunk, whole, n) /\ AwsFeed(p, chunk) = g[n]
<1> DEFINE Q(g) == g = [i \in 0 .. n |-> IF i = 0 THEN whole ELSE TakeFrame(g[i - 1])]
           g == CHOOSE h : Q(h)
<1>1. \E h : Q(h)
  <2>1. PICK h : Turns(h, "aws", chunk, whole, n) /\ Upto(h, n)
    BY TurnsExist
  <2>2. Q(h)
    BY <2>1 DEF Turns, Turn, Upto
  <2> QED BY <2>2
<1>2. Q(g)
  BY <1>1
<1>3. AwsFeed(p, chunk) = g[n]
  BY DEF AwsFeed, WithChunk
<1> HIDE DEF g
<1>4. Turns(g, "aws", chunk, whole, n)
  BY <1>2 DEF Turns, Turn
<1> QED BY <1>3, <1>4

-----------------------------------------------------------------------------
(* A body of frames. *)

AwsRecord == [event : Nat, data : Seq(Nat)]
AwsParser == [buffer : Seq(Nat), event : {<<>>}, id : BOOLEAN, data : {<<>>}, bytes : Nat,
              out : Seq(AwsRecord), failed : BOOLEAN]

\* The rest of a body from a position on.
LEMMA RestIs ==
  ASSUME NEW V, NEW b \in Seq(V), NEW q \in 1 .. Len(b) + 1
  PROVE  /\ SubSeq(b, q, Len(b)) \in Seq(V)
         /\ Len(SubSeq(b, q, Len(b))) = Len(b) + 1 - q
         /\ \A k \in 1 .. Len(b) + 1 - q : SubSeq(b, q, Len(b))[k] = b[q + k - 1]
<1>1. Len(b) \in Nat /\ q \in Nat /\ 1 <= q /\ q <= Len(b) + 1 /\ Len(b) - q + 1 = Len(b) + 1 - q
  BY BytesIn
<1>2. /\ SubSeq(b, q, Len(b)) \in Seq(V) /\ Len(SubSeq(b, q, Len(b))) = Len(b) - q + 1
      /\ \A k \in 1 .. Len(b) - q + 1 : SubSeq(b, q, Len(b))[k] = b[q + k - 1]
  BY <1>1, CutIs
<1> QED BY <1>1, <1>2

\* Two sequences of a length with the same elements are the same.
LEMMA SameSeq ==
  ASSUME NEW V, NEW s \in Seq(V), NEW t \in Seq(V), Len(s) = Len(t),
         \A i \in 1 .. Len(s) : s[i] = t[i]
  PROVE  s = t
OBVIOUS

Took(p, buffer, records) == [p EXCEPT !.buffer = buffer, !.out = @ \o records]

\* What TakeFrame does with a length it has read.
LEMMA TakeFrameCases ==
  ASSUME NEW p, NEW t, t = p.buffer, ~ p.failed, NEW n, n = Head(t), ~ (Len(t) < 2)
  PROVE  /\ n < 2 \/ n > MaxEvent => TakeFrame(p) = Fail(p)
         /\ ~ (n < 2 \/ n > MaxEvent) /\ Len(t) < n => TakeFrame(p) = p
         /\ ~ (n < 2 \/ n > MaxEvent) /\ ~ (Len(t) < n) /\ Damaged(SubSeq(t, 1, n)) => TakeFrame(p) = Fail(p)
         /\ ~ (n < 2 \/ n > MaxEvent) /\ ~ (Len(t) < n) /\ ~ Damaged(SubSeq(t, 1, n)) =>
              TakeFrame(p) = Took(p, SubSeq(t, n + 1, Len(t)), FrameRecord(SubSeq(t, 1, n)))
<1> USE DEF TakeFrame, MinFrame
<1>1. n < 2 \/ n > MaxEvent => TakeFrame(p) = Fail(p)
  OBVIOUS
<1>2. ~ (n < 2 \/ n > MaxEvent) /\ Len(t) < n => TakeFrame(p) = p
  OBVIOUS
<1>3. ~ (n < 2 \/ n > MaxEvent) /\ ~ (Len(t) < n) /\ Damaged(SubSeq(t, 1, n)) => TakeFrame(p) = Fail(p)
  OBVIOUS
<1>4. ~ (n < 2 \/ n > MaxEvent) /\ ~ (Len(t) < n) /\ ~ Damaged(SubSeq(t, 1, n)) =>
              TakeFrame(p) = Took(p, SubSeq(t, n + 1, Len(t)), FrameRecord(SubSeq(t, 1, n)))
  BY DEF Took
<1> QED BY <1>1, <1>2, <1>3, <1>4

LEMMA TakeFrameTakes ==
  ASSUME NEW p, NEW t, t = p.buffer, ~ p.failed, NEW n, n = Head(t), ~ (Len(t) < 2),
         ~ (n < 2 \/ n > MaxEvent), ~ (Len(t) < n), ~ Damaged(SubSeq(t, 1, n))
  PROVE  TakeFrame(p) = Took(p, SubSeq(t, n + 1, Len(t)), FrameRecord(SubSeq(t, 1, n)))
BY TakeFrameCases

\* What TakeFrame does at a position of the body.
LEMMA TakeFrameIs ==
  ASSUME NEW b \in Seq(Nat), MaxEvent \in Nat, NEW q \in 1 .. Len(b) + 1,
         NEW p, NEW t, t = p.buffer, t = SubSeq(b, q, Len(b)), ~ p.failed
  PROVE  /\ Refused(b, q) => TakeFrame(p) = Fail(p)
         /\ ~ Refused(b, q) /\ ~ WholeFrame(b, q) => TakeFrame(p) = p
         /\ WholeFrame(b, q) =>
              TakeFrame(p) = Took(p, SubSeq(b, q + b[q], Len(b)), FrameRecord(FrameAt(b, q)))
<1>1. /\ Len(b) \in Nat /\ q \in Nat /\ 1 <= q /\ q <= Len(b) + 1
      /\ t \in Seq(Nat) /\ Len(t) = Len(b) + 1 - q
      /\ \A k \in 1 .. Len(b) + 1 - q : t[k] = b[q + k - 1]
  BY RestIs, BytesIn, SMTT(40)
<1>2. CASE ~ LengthRead(b, q)
  <2>1. Len(p.buffer) < 2
    BY <1>1, <1>2 DEF LengthRead
  <2>2. TakeFrame(p) = p
    BY <2>1 DEF TakeFrame, MinFrame
  <2> QED BY <1>2, <2>2 DEF Refused, WholeFrame, FrameRead
<1>3. CASE LengthRead(b, q)
  <2>1. PICK n \in Nat : n = b[q]
    BY <1>3, WholeIs
  <2>2. Len(t) >= 2 /\ Head(t) = n /\ ~ (Len(t) < 2)
    <3>1. 1 \in 1 .. Len(b) + 1 - q /\ q + 1 - 1 = q /\ Len(t) >= 2 /\ ~ (Len(t) < 2)
      BY <1>1, <1>3 DEF LengthRead
    <3>2. t[1] = b[q]
      BY <1>1, <3>1
    <3>3. Head(t) = t[1]
      BY <1>1, <3>1
    <3> QED BY <2>1, <3>1, <3>2, <3>3
  <2>3. CASE n < 2 \/ n > MaxEvent
    <3>1. Refused(b, q) /\ ~ WholeFrame(b, q)
      BY <1>3, <2>1, <2>3 DEF Refused, WholeFrame, MinFrame
    <3>2. TakeFrame(p) = Fail(p)
      BY <2>2, <2>3, TakeFrameCases
    <3> QED BY <3>1, <3>2
  <2>4. CASE n \in 2 .. MaxEvent /\ Len(t) < n
    <3>1. ~ (q + n - 1 <= Len(b))
      BY <1>1, <2>4
    <3>2. ~ FrameRead(b, q)
      BY <2>1, <3>1 DEF FrameRead
    <3>3. ~ Refused(b, q) /\ ~ WholeFrame(b, q)
      BY <2>1, <2>4, <3>2 DEF Refused, WholeFrame, MinFrame
    <3>4. TakeFrame(p) = p
      <4>1. ~ (n < 2 \/ n > MaxEvent) /\ Len(t) < n
        BY <2>4
      <4> QED BY <2>2, <4>1, TakeFrameCases
    <3> QED BY <3>3, <3>4
  <2>5. CASE n \in 2 .. MaxEvent /\ ~ (Len(t) < n)
    <3>1. q + n - 1 <= Len(b) /\ n <= Len(t) /\ ~ (n < 2) /\ ~ (n > MaxEvent)
      BY <1>1, <2>5
    <3>2. FrameRead(b, q)
      BY <1>3, <2>1, <3>1 DEF FrameRead
    <3>3. SubSeq(t, 1, n) = FrameAt(b, q)
      <4>1. n - 1 + 1 = n /\ 1 <= n + 1 /\ q + n - 1 \in Nat /\ q <= q + n - 1 + 1 /\ q + n - 1 - q + 1 = n
        BY <1>1, <2>5
      <4>2. /\ SubSeq(t, 1, n) \in Seq(Nat) /\ Len(SubSeq(t, 1, n)) = n
            /\ \A k \in 1 .. n : SubSeq(t, 1, n)[k] = t[1 + k - 1]
        <5>1. /\ SubSeq(t, 1, n) \in Seq(Nat) /\ Len(SubSeq(t, 1, n)) = n - 1 + 1
              /\ \A k \in 1 .. n - 1 + 1 : SubSeq(t, 1, n)[k] = t[1 + k - 1]
          BY <1>1, <3>1, <4>1, CutIs
        <5> QED BY <4>1, <5>1
      <4>3. /\ SubSeq(b, q, q + n - 1) \in Seq(Nat) /\ Len(SubSeq(b, q, q + n - 1)) = n
            /\ \A k \in 1 .. n : SubSeq(b, q, q + n - 1)[k] = b[q + k - 1]
        <5>1. /\ SubSeq(b, q, q + n - 1) \in Seq(Nat) /\ Len(SubSeq(b, q, q + n - 1)) = q + n - 1 - q + 1
              /\ \A k \in 1 .. q + n - 1 - q + 1 : SubSeq(b, q, q + n - 1)[k] = b[q + k - 1]
          BY <1>1, <3>1, <4>1, CutIs
        <5> QED BY <4>1, <5>1
      <4>4. \A k \in 1 .. n : 1 + k - 1 = k /\ k \in 1 .. Len(b) + 1 - q
        BY <1>1, <3>1
      <4>5. \A k \in 1 .. n : SubSeq(t, 1, n)[k] = SubSeq(b, q, q + n - 1)[k]
        BY <1>1, <4>2, <4>3, <4>4
      <4>6. SubSeq(t, 1, n) = SubSeq(b, q, q + n - 1)
        BY <4>2, <4>3, <4>5, SameSeq
      <4> QED BY <2>1, <4>6 DEF FrameAt
    <3>4. CASE Damaged(FrameAt(b, q))
      <4>1. Refused(b, q) /\ ~ WholeFrame(b, q)
        BY <3>2, <3>4 DEF Refused, WholeFrame
      <4>2. TakeFrame(p) = Fail(p)
        <5>1. ~ (n < 2 \/ n > MaxEvent) /\ ~ (Len(t) < n)
          BY <2>5, <3>1
        <5>2. Damaged(SubSeq(t, 1, n))
          BY <3>3, <3>4
        <5> QED BY <2>2, <5>1, <5>2, TakeFrameCases
      <4> QED BY <4>1, <4>2
    <3>5. CASE ~ Damaged(FrameAt(b, q))
      <4>1. ~ Refused(b, q)
        BY <2>1, <2>5, <3>5 DEF Refused, MinFrame
      <4>2. SubSeq(t, n + 1, Len(t)) = SubSeq(b, q + n, Len(b))
        <5>1. n + 1 \in 1 .. Len(t) + 1 /\ q + n \in 1 .. Len(b) + 1
          BY <1>1, <3>1
        <5>2. Len(t) + 1 - (n + 1) = Len(b) + 1 - (q + n)
          BY <1>1
        <5>3. /\ SubSeq(t, n + 1, Len(t)) \in Seq(Nat)
              /\ Len(SubSeq(t, n + 1, Len(t))) = Len(t) + 1 - (n + 1)
              /\ \A k \in 1 .. Len(t) + 1 - (n + 1) : SubSeq(t, n + 1, Len(t))[k] = t[n + 1 + k - 1]
          <6>1. t \in Seq(Nat) /\ n + 1 \in 1 .. Len(t) + 1
            BY <1>1, <5>1
          <6> HIDE <1>1, <5>1
          <6> QED BY <6>1, RestIs
        <5>4. /\ SubSeq(b, q + n, Len(b)) \in Seq(Nat)
              /\ Len(SubSeq(b, q + n, Len(b))) = Len(b) + 1 - (q + n)
              /\ \A k \in 1 .. Len(b) + 1 - (q + n) : SubSeq(b, q + n, Len(b))[k] = b[q + n + k - 1]
          BY <5>1, RestIs
        <5>5. ASSUME NEW k \in 1 .. Len(b) + 1 - (q + n)
              PROVE  t[n + 1 + k - 1] = b[q + n + k - 1]
          <6>1. n + 1 + k - 1 \in 1 .. Len(b) + 1 - q /\ q + (n + 1 + k - 1) - 1 = q + n + k - 1
            BY <1>1, <5>1
          <6> QED BY <1>1, <6>1
        <5>6. \A k \in 1 .. Len(t) + 1 - (n + 1) : SubSeq(t, n + 1, Len(t))[k] = SubSeq(b, q + n, Len(b))[k]
          BY <5>2, <5>3, <5>4, <5>5
        <5>7. PICK l \in Nat : l = Len(t) + 1 - (n + 1)
          <6>1. Len(t) \in Nat
            BY <1>1, BytesIn
          <6>2. PICK k \in Nat : k = Len(t)
            BY <6>1
          <6>3. n <= k
            BY <3>1, <6>2
          <6>4. k + 1 - (n + 1) \in Nat
            BY <6>3
          <6> QED BY <6>2, <6>4
        <5> DEFINE u == SubSeq(t, n + 1, Len(t))
                   v == SubSeq(b, q + n, Len(b))
        <5>8. u \in Seq(Nat) /\ v \in Seq(Nat) /\ Len(u) = l /\ Len(v) = l /\ \A k \in 1 .. l : u[k] = v[k]
          BY <5>2, <5>3, <5>4, <5>6, <5>7
        <5> HIDE DEF u, v
        <5>9. u = v
          BY <5>8, SameSeq
        <5> QED BY <5>9 DEF u, v
      <4>3. TakeFrame(p) = Took(p, SubSeq(t, n + 1, Len(t)), FrameRecord(SubSeq(t, 1, n)))
        <5>1. ~ (n < 2 \/ n > MaxEvent) /\ ~ (Len(t) < n)
          BY <2>5, <3>1
        <5>2. ~ Damaged(SubSeq(t, 1, n))
          BY <3>3, <3>5
        <5>3. n = Head(t) /\ ~ (Len(t) < 2)
          BY <2>2
        <5> QED BY <5>1, <5>2, <5>3, TakeFrameTakes
      <4>4. TakeFrame(p) = Took(p, SubSeq(b, q + b[q], Len(b)), FrameRecord(FrameAt(b, q)))
        BY <2>1, <3>3, <4>2, <4>3
      <4> QED BY <3>2, <4>1, <4>4 DEF WholeFrame
    <3> QED BY <3>4, <3>5
  <2>6. n < 2 \/ n > MaxEvent \/ (n \in 2 .. MaxEvent)
    OBVIOUS
  <2> QED BY <2>3, <2>4, <2>5, <2>6
<1> QED BY <1>2, <1>3

LEMMA ShortSeq ==
  ASSUME NEW V, NEW r \in V
  PROVE  <<>> \in Seq(V) /\ <<r>> \in Seq(V)
OBVIOUS

LEMMA JoinThree ==
  ASSUME NEW V, NEW s \in Seq(V), NEW t \in Seq(V), NEW u \in Seq(V)
  PROVE  s \o (t \o u) = (s \o t) \o u
BY ConcatAssociative

\* A whole frame says a record, or nothing.
LEMMA FrameSays ==
  ASSUME NEW b \in Seq(Nat), MaxEvent \in Nat, NEW q \in 1 .. Len(b) + 1, WholeFrame(b, q)
  PROVE  FrameRecord(FrameAt(b, q)) \in Seq(AwsRecord)
<1>1. PICK n \in Nat : n = b[q]
  BY WholeIs
<1>2. q \in 1 .. Len(b) /\ 2 <= n /\ q + n \in 1 .. Len(b) + 1 /\ Len(b) \in Nat
  BY <1>1, WholeIs, BytesIn
<1>3. q \in Nat /\ q + n - 1 \in Nat /\ 1 <= q /\ q <= q + n - 1 + 1 /\ q + n - 1 <= Len(b) /\ q + n - 1 - q + 1 = n
  BY <1>2
<1> DEFINE f == FrameAt(b, q)
<1>4. f = SubSeq(b, q, q + n - 1)
  BY <1>1 DEF FrameAt
<1>5. f \in Seq(Nat) /\ Len(f) = n
  BY <1>3, <1>4, CutIs, SMTT(40)
<1> HIDE DEF f
<1>6. f[2] \in Nat
  BY <1>2, <1>5
<1>7. SubSeq(f, 3, Len(f)) \in Seq(Nat)
  <2>1. 3 \in 1 .. n + 1
    BY <1>2
  <2> QED BY <1>5, <2>1, RestIs
<1>8. [event |-> f[2], data |-> SubSeq(f, 3, Len(f))] \in AwsRecord
  BY <1>6, <1>7 DEF AwsRecord
<1>9. FrameRecord(f) \in Seq(AwsRecord)
  <2> DEFINE r == [event |-> f[2], data |-> SubSeq(f, 3, Len(f))]
  <2>1. r \in AwsRecord
    BY <1>8
  <2>2. FrameRecord(f) = <<>> \/ FrameRecord(f) = <<r>>
    BY DEF FrameRecord
  <2> HIDE DEF r
  <2> QED BY <2>1, <2>2, ShortSeq
<1> QED BY <1>9 DEF f

\* A parser of frames at a position of the body, with what it has cut so far.
ParserAt(b, q, p, said) ==
  /\ q \in FrameStarts(b) /\ p \in AwsParser
  /\ p.buffer = SubSeq(b, q, Len(b)) /\ said \o p.out = RecordsBefore(b, q)

\* A turn of the loop refuses the frame, leaves it, or takes it.
LEMMA FrameTurn ==
  ASSUME NEW b \in Seq(Nat), MaxEvent \in Nat, NEW q, NEW p, NEW said \in Seq(AwsRecord),
         ParserAt(b, q, p, said), ~ p.failed, NEW next, next = TakeFrame(p)
  PROVE  /\ Refused(b, q) => ParserAt(b, q, next, said) /\ next.failed
         /\ ~ Refused(b, q) /\ ~ WholeFrame(b, q) => next = p
         /\ WholeFrame(b, q) => ParserAt(b, q + b[q], next, said) /\ ~ next.failed
<1>1. q \in FrameStarts(b) /\ q \in 1 .. Len(b) + 1 /\ p \in AwsParser
  BY StartsClosed DEF ParserAt
<1>2. PICK t : t = p.buffer /\ t = SubSeq(b, q, Len(b))
  BY DEF ParserAt
<1>3. /\ Refused(b, q) => next = Fail(p)
      /\ ~ Refused(b, q) /\ ~ WholeFrame(b, q) => next = p
      /\ WholeFrame(b, q) => next = Took(p, SubSeq(b, q + b[q], Len(b)), FrameRecord(FrameAt(b, q)))
  BY <1>1, <1>2, TakeFrameIs
<1>4. ASSUME Refused(b, q) PROVE ParserAt(b, q, next, said) /\ next.failed
  <2>1. next = [p EXCEPT !.failed = TRUE]
    BY <1>3, <1>4 DEF Fail
  <2>2. next \in AwsParser /\ next.buffer = p.buffer /\ next.out = p.out /\ next.failed = TRUE
    BY <1>1, <2>1 DEF AwsParser
  <2> QED BY <2>2 DEF ParserAt
<1>5. ASSUME WholeFrame(b, q) PROVE ParserAt(b, q + b[q], next, said) /\ ~ next.failed
  <2> DEFINE r == FrameRecord(FrameAt(b, q))
             t2 == SubSeq(b, q + b[q], Len(b))
  <2>1. next = [p EXCEPT !.buffer = t2, !.out = @ \o r]
    BY <1>3, <1>5 DEF Took
  <2>2. q + b[q] \in FrameStarts(b) /\ q + b[q] \in 1 .. Len(b) + 1
    BY <1>1, <1>5, StartsClosed
  <2>3. t2 \in Seq(Nat)
    BY <2>2, RestIs
  <2>4. r \in Seq(AwsRecord)
    BY <1>1, <1>5, FrameSays
  <2>5. RecordsBefore(b, q + b[q]) = RecordsBefore(b, q) \o r
    BY <1>1, <1>5, RecordsMore
  <2> HIDE DEF r, t2
  <2>6. p.out \in Seq(AwsRecord) /\ p.out \o r \in Seq(AwsRecord)
    BY <1>1, <2>4 DEF AwsParser
  <2>7. next \in AwsParser /\ next.buffer = t2 /\ next.out = p.out \o r /\ next.failed = p.failed
    BY <1>1, <2>1, <2>3, <2>6 DEF AwsParser
  <2>8. said \o (p.out \o r) = (said \o p.out) \o r
    <3>1. PICK o \in Seq(AwsRecord) : o = p.out
      BY <2>6
    <3>2. PICK u \in Seq(AwsRecord) : u = r
      BY <2>4
    <3>3. said \o (o \o u) = (said \o o) \o u
      BY JoinThree
    <3> QED BY <3>1, <3>2, <3>3
  <2>9. said \o next.out = RecordsBefore(b, q + b[q])
    BY <2>5, <2>7, <2>8 DEF ParserAt
  <2>10. ~ next.failed
    BY <2>7
  <2> QED BY <2>2, <2>7, <2>9, <2>10 DEF ParserAt, t2
<1> QED BY <1>3, <1>4, <1>5

\* The loop goes on to the last frame that is there, or to one it refuses.
LEMMA FramesFed ==
  ASSUME NEW b \in Seq(Nat), MaxEvent \in Nat, NEW q, NEW p, NEW said \in Seq(AwsRecord),
         ParserAt(b, q, p, said), ~ p.failed, NEW chunk,
         NEW g, NEW n \in Nat, n = Len(p.buffer), Turns(g, "aws", chunk, p, n)
  PROVE  \E r : /\ ParserAt(b, r, g[n], said) /\ ~ WholeFrame(b, r)
                /\ g[n].failed <=> Refused(b, r)
<1>1. q \in FrameStarts(b) /\ q \in 1 .. Len(b) + 1 /\ p \in AwsParser /\ Len(b) \in Nat /\ q \in Nat
  BY StartsClosed, BytesIn DEF ParserAt
<1>2. n = Len(b) + 1 - q
  BY <1>1, RestIs DEF ParserAt
<1> DEFINE Stands(i, r) ==
             /\ ParserAt(b, r, g[i], said)
             /\ g[i].failed => Refused(b, r)
             /\ ~ g[i].failed => q + i <= r \/ (~ WholeFrame(b, r) /\ ~ Refused(b, r))
           S == {i \in Nat : i <= n => \E r : Stands(i, r)}
<1>3. 0 \in S
  <2>1. g[0] = p
    BY DEF Turns
  <2>2. q + 0 <= q
    BY <1>1
  <2>3. Stands(0, q)
    BY <2>1, <2>2
  <2> HIDE DEF Stands
  <2> QED BY <2>3
<1>4. ASSUME NEW i \in S PROVE i + 1 \in S
  <2>1. SUFFICES ASSUME i + 1 <= n PROVE \E r : Stands(i + 1, r)
    <3> HIDE DEF Stands
    <3> QED BY <1>4
  <2>2. i \in Nat /\ i <= n /\ i + 1 \in 0 .. n /\ i + 1 # 0 /\ i + 1 - 1 = i
    BY <1>4, <2>1
  <2>3. PICK r : Stands(i, r)
    <3> HIDE DEF Stands
    <3> QED BY <1>4, <2>2
  <2>4. g[i + 1] = TakeFrame(g[i])
    <3>1. g[i + 1] = Turn("aws", chunk, i + 1, g[i + 1 - 1])
      BY <2>2 DEF Turns
    <3> QED BY <2>2, <3>1 DEF Turn
  <2>5. r \in FrameStarts(b) /\ r \in 1 .. Len(b) + 1 /\ r \in Nat
    BY <1>1, <2>3, StartsClosed DEF ParserAt
  <2>6. CASE g[i].failed
    <3>1. g[i + 1] = g[i]
      BY <2>4, <2>6 DEF TakeFrame
    <3>2. Stands(i + 1, r)
      BY <2>3, <2>6, <3>1
    <3> HIDE DEF Stands
    <3> QED BY <3>2
  <2>7. CASE ~ g[i].failed
    <3>1. /\ Refused(b, r) => ParserAt(b, r, g[i + 1], said) /\ g[i + 1].failed
          /\ ~ Refused(b, r) /\ ~ WholeFrame(b, r) => g[i + 1] = g[i]
          /\ WholeFrame(b, r) => ParserAt(b, r + b[r], g[i + 1], said) /\ ~ g[i + 1].failed
      <4>1. PICK x, y : x = g[i] /\ y = g[i + 1]
        OBVIOUS
      <4>2. ParserAt(b, r, x, said) /\ ~ x.failed /\ y = TakeFrame(x)
        BY <2>3, <2>4, <2>7, <4>1
      <4>3. /\ Refused(b, r) => ParserAt(b, r, y, said) /\ y.failed
            /\ ~ Refused(b, r) /\ ~ WholeFrame(b, r) => y = x
            /\ WholeFrame(b, r) => ParserAt(b, r + b[r], y, said) /\ ~ y.failed
        BY <4>2, FrameTurn
      <4> QED BY <4>1, <4>3
    <3>2. CASE Refused(b, r)
      <4>1. Stands(i + 1, r)
        BY <3>1, <3>2
      <4> HIDE DEF Stands
      <4> QED BY <4>1
    <3>3. CASE ~ Refused(b, r) /\ ~ WholeFrame(b, r)
      <4>1. Stands(i + 1, r)
        BY <2>3, <2>7, <3>1, <3>3
      <4> HIDE DEF Stands
      <4> QED BY <4>1
    <3>4. CASE WholeFrame(b, r)
      <4>1. PICK m \in Nat : m = b[r] /\ r < r + m
        BY <2>5, <3>4, WholeIs
      <4>2. q + i <= r
        BY <2>3, <2>7, <3>4
      <4>3. q + (i + 1) <= r + m
        BY <1>1, <2>2, <2>5, <4>1, <4>2
      <4>4. Stands(i + 1, r + m)
        BY <3>1, <3>4, <4>1, <4>3
      <4> HIDE DEF Stands
      <4> QED BY <4>4
    <3> QED BY <3>2, <3>3, <3>4
  <2> QED BY <2>6, <2>7
<1>5. S = Nat
  <2>1. S \in SUBSET Nat
    OBVIOUS
  <2> HIDE DEF S
  <2> QED BY <1>3, <1>4, <2>1, EveryLength
<1>6. PICK r : Stands(n, r)
  <2> HIDE DEF Stands
  <2>1. n \in S /\ n <= n
    BY <1>5
  <2> QED BY <2>1
<1>7. r \in FrameStarts(b) /\ r \in 1 .. Len(b) + 1 /\ r \in Nat
  BY <1>1, <1>6, StartsClosed DEF ParserAt
<1>8. CASE g[n].failed
  BY <1>6, <1>8 DEF WholeFrame
<1>9. CASE ~ g[n].failed
  <2>1. CASE q + n <= r
    <3>1. ~ LengthRead(b, r)
      BY <1>1, <1>2, <1>7, <2>1 DEF LengthRead
    <3>2. ~ WholeFrame(b, r) /\ ~ Refused(b, r)
      BY <3>1 DEF WholeFrame, Refused, FrameRead
    <3> QED BY <1>6, <1>9, <3>2
  <2> QED BY <1>6, <1>9, <2>1
<1> QED BY <1>8, <1>9

-----------------------------------------------------------------------------
(* A body of server-sent events, and the body with one byte more. *)

Text == Byte("sse")

TextAt(b, i) == SubSeq(b, LastBefore(Feeds(b), i) + 1, i - 1)

Longer(b, x, e) == e = Append(b, x)

LEMMA AppendIs ==
  ASSUME NEW b \in Seq(Text), NEW x \in Text, NEW e, Longer(b, x, e), NEW n, n = Len(b)
  PROVE  /\ n \in Nat /\ e \in Seq(Text) /\ Len(e) = n + 1
         /\ \A i \in 1 .. n : e[i] = b[i]
         /\ e[n + 1] = x
BY DEF Longer

LEMMA AppendKeeps ==
  ASSUME NEW b \in Seq(Text), NEW x \in Text, NEW e, Longer(b, x, e), NEW k \in 1 .. Len(b)
  PROVE  e[k] = b[k]
BY DEF Longer

LEMMA FeedsIn ==
  ASSUME NEW b \in Seq(Text)
  PROVE  /\ Feeds(b) \in SUBSET Nat /\ Feeds(b) \in SUBSET (1 .. Len(b)) /\ Len(b) \in Nat
         /\ Boundaries(b) \subseteq Feeds(b) /\ Boundaries(b) \in SUBSET Nat
         /\ \A i \in Feeds(b) : i \in Nat /\ 1 <= i /\ i <= Len(b)
<1>1. Len(b) \in Nat /\ DOMAIN b = 1 .. Len(b)
  OBVIOUS
<1>2. Feeds(b) \in SUBSET (1 .. Len(b))
  BY <1>1 DEF Feeds
<1>3. Boundaries(b) \subseteq Feeds(b)
  BY DEF Boundaries
<1> QED BY <1>1, <1>2, <1>3

\* What lies between two line feeds.
TextBetween(b, i, l) ==
  /\ l \in Nat /\ l < i /\ TextAt(b, i) \in Seq(Text) /\ Len(TextAt(b, i)) = i - 1 - l
  /\ \A k \in 1 .. i - 1 - l : TextAt(b, i)[k] = b[l + k]

LEMMA TextIs ==
  ASSUME NEW b \in Seq(Text), NEW i \in 1 .. Len(b) + 1, NEW l, l = LastBefore(Feeds(b), i)
  PROVE  TextBetween(b, i, l)
<1>1. Feeds(b) \in SUBSET Nat /\ Len(b) \in Nat /\ i \in Nat
  BY FeedsIn
<1>2. l \in Nat /\ l < i
  BY <1>1, LastBeforeIs
<1>3. /\ l + 1 \in Nat /\ i - 1 \in Nat /\ 1 <= l + 1 /\ l + 1 <= i - 1 + 1 /\ i - 1 <= Len(b)
      /\ i - 1 - (l + 1) + 1 = i - 1 - l
  BY <1>1, <1>2
<1>4. /\ SubSeq(b, l + 1, i - 1) \in Seq(Text) /\ Len(SubSeq(b, l + 1, i - 1)) = i - 1 - (l + 1) + 1
      /\ \A k \in 1 .. i - 1 - (l + 1) + 1 : SubSeq(b, l + 1, i - 1)[k] = b[l + 1 + k - 1]
  BY <1>3, CutIs
<1>5. \A k \in 1 .. i - 1 - l : l + 1 + k - 1 = l + k
  BY <1>2
<1> QED BY <1>2, <1>3, <1>4, <1>5 DEF TextAt, TextBetween

LEMMA FeedsMore ==
  ASSUME NEW b \in Seq(Text), NEW x \in Text, NEW e, Longer(b, x, e), NEW n, n = Len(b)
  PROVE  /\ x = "LF" => Feeds(e) = Feeds(b) \cup {n + 1}
         /\ x # "LF" => Feeds(e) = Feeds(b)
         /\ \A j \in 1 .. n : j \in Feeds(e) <=> j \in Feeds(b)
<1>1. /\ n \in Nat /\ e \in Seq(Text) /\ Len(e) = n + 1
      /\ \A i \in 1 .. n : e[i] = b[i]
      /\ e[n + 1] = x
  BY AppendIs
<1>2. DOMAIN b = 1 .. n /\ DOMAIN e = 1 .. n + 1
  BY <1>1
<1>3. \A j \in 1 .. n + 1 : j \in 1 .. n \/ j = n + 1
  BY <1>1
<1>4. n + 1 \notin 1 .. n /\ n + 1 \in 1 .. n + 1 /\ \A j \in 1 .. n : j \in 1 .. n + 1
  BY <1>1
<1>5. \A j : j \in Feeds(e) <=> j \in Feeds(b) \/ (j = n + 1 /\ x = "LF")
  BY <1>1, <1>2, <1>3, <1>4 DEF Feeds
<1> QED BY <1>4, <1>5

LEMMA TextSame ==
  ASSUME NEW b \in Seq(Text), NEW x \in Text, NEW e, Longer(b, x, e), NEW i \in 1 .. Len(b) + 1
  PROVE  TextAt(e, i) = TextAt(b, i) /\ LastBefore(Feeds(e), i) = LastBefore(Feeds(b), i)
<1>1. PICK n \in Nat : n = Len(b)
  BY FeedsIn
<1>2. e \in Seq(Text) /\ Len(e) = n + 1 /\ \A k \in 1 .. n : e[k] = b[k]
  BY <1>1, AppendIs
<1>3. Feeds(b) \in SUBSET Nat /\ Feeds(e) \in SUBSET Nat /\ i \in Nat
      /\ \A j \in Feeds(e) \cup Feeds(b) : 1 <= j
  BY <1>2, FeedsIn
<1>4. \A j \in Nat : j < i => (j \in Feeds(e) <=> j \in Feeds(b))
  <2>1. \A j \in 1 .. n : j \in Feeds(e) <=> j \in Feeds(b)
    BY <1>1, FeedsMore
  <2> QED BY <1>1, <1>3, <2>1
<1>5. PICK l : l = LastBefore(Feeds(b), i) /\ l = LastBefore(Feeds(e), i)
  BY <1>3, <1>4, LastBeforeSame
<1>6. i \in 1 .. Len(e) + 1
  BY <1>1, <1>2
<1>7. /\ l \in Nat /\ l < i /\ TextAt(b, i) \in Seq(Text) /\ Len(TextAt(b, i)) = i - 1 - l
      /\ \A k \in 1 .. i - 1 - l : TextAt(b, i)[k] = b[l + k]
  <2>1. TextBetween(b, i, l)
    BY <1>5, TextIs
  <2> QED BY <2>1 DEF TextBetween
<1>8. /\ TextAt(e, i) \in Seq(Text) /\ Len(TextAt(e, i)) = i - 1 - l
      /\ \A k \in 1 .. i - 1 - l : TextAt(e, i)[k] = e[l + k]
  <2>1. TextBetween(e, i, l)
    BY <1>2, <1>5, <1>6, TextIs
  <2> QED BY <2>1 DEF TextBetween
<1>9. \A k \in 1 .. i - 1 - l : l + k \in 1 .. n
  BY <1>1, <1>3, <1>7
<1>10. TextAt(e, i) = TextAt(b, i)
  <2>1. PICK m \in Nat : m = i - 1 - l
    BY <1>3, <1>7
  <2>2. \A k \in 1 .. m : TextAt(e, i)[k] = TextAt(b, i)[k]
    BY <1>2, <1>7, <1>8, <1>9, <2>1
  <2>3. Len(TextAt(e, i)) = m /\ Len(TextAt(b, i)) = m
    BY <1>7, <1>8, <2>1
  <2> QED BY <1>7, <1>8, <2>2, <2>3, SameSeq
<1> QED BY <1>5, <1>10

\* The open line of the body with one byte more.
LEMMA TextNext ==
  ASSUME NEW b \in Seq(Text), NEW x \in Text, NEW e, Longer(b, x, e), NEW n, n = Len(b)
  PROVE  /\ x = "LF" => TextAt(e, n + 2) = <<>> /\ LastBefore(Feeds(e), n + 2) = n + 1
         /\ x # "LF" => /\ TextAt(e, n + 2) = Append(TextAt(b, n + 1), x)
                        /\ LastBefore(Feeds(e), n + 2) = LastBefore(Feeds(b), n + 1)
<1>1. /\ n \in Nat /\ e \in Seq(Text) /\ Len(e) = n + 1 /\ e[n + 1] = x
      /\ \A k \in 1 .. n : e[k] = b[k]
  <2>1. n \in Nat /\ e \in Seq(Text) /\ Len(e) = n + 1
    BY AppendIs
  <2>2. e[n + 1] = x
    BY AppendIs
  <2>3. ASSUME NEW k \in 1 .. n PROVE e[k] = b[k]
    BY AppendKeeps
  <2> QED BY <2>1, <2>2, <2>3
<1>2. /\ Feeds(b) \in SUBSET Nat /\ Feeds(e) \in SUBSET Nat
      /\ \A j \in Feeds(b) : j <= n /\ j \in Nat
  BY <1>1, FeedsIn
<1>3. n + 2 \in 1 .. Len(e) + 1 /\ n + 1 \in 1 .. Len(b) + 1 /\ n + 2 \in Nat /\ n + 1 \in Nat
  BY <1>1
<1>4. CASE x = "LF"
  <2>1. Feeds(e) = Feeds(b) \cup {n + 1}
    BY <1>4, FeedsMore
  <2>2. n + 1 \in Feeds(e) /\ n + 1 < n + 2 /\ \A j \in Feeds(e) : j < n + 2 => j <= n + 1
    BY <1>1, <1>2, <2>1
  <2>3. LastBefore(Feeds(e), n + 2) = n + 1
    BY <1>2, <1>3, <2>2, LastBeforeOnly
  <2>4. TextAt(e, n + 2) \in Seq(Text) /\ Len(TextAt(e, n + 2)) = n + 2 - 1 - (n + 1)
    <3>1. TextBetween(e, n + 2, n + 1)
      BY <1>1, <1>3, <2>3, TextIs
    <3> QED BY <3>1 DEF TextBetween
  <2>5. n + 2 - 1 - (n + 1) = 0
    BY <1>1
  <2>6. TextAt(e, n + 2) = <<>>
    BY <2>4, <2>5
  <2> QED BY <1>4, <2>3, <2>6
<1>5. CASE x # "LF"
  <2>1. Feeds(e) = Feeds(b)
    BY <1>5, FeedsMore
  <2>2. PICK l \in Nat : /\ l = LastBefore(Feeds(b), n + 1) /\ (l = 0 \/ (l \in Feeds(b) /\ l < n + 1))
                         /\ \A j \in Feeds(b) : j < n + 1 => j <= l
    BY <1>2, <1>3, LastBeforeIs
  <2>3. (l = 0 \/ (l \in Feeds(e) /\ l < n + 2)) /\ \A j \in Feeds(e) : j < n + 2 => j <= l
    BY <1>1, <1>2, <2>1, <2>2
  <2>4. LastBefore(Feeds(e), n + 2) = l
    BY <1>2, <1>3, <2>3, LastBeforeOnly
  <2> DEFINE t == TextAt(b, n + 1)
             u == TextAt(e, n + 2)
             v == Append(t, x)
  <2>5. /\ l < n + 1 /\ t \in Seq(Text) /\ Len(t) = n + 1 - 1 - l
        /\ \A k \in 1 .. n + 1 - 1 - l : t[k] = b[l + k]
    <3>1. TextBetween(b, n + 1, l)
      BY <1>3, <2>2, TextIs
    <3> QED BY <3>1 DEF TextBetween
  <2>6. /\ u \in Seq(Text) /\ Len(u) = n + 2 - 1 - l
        /\ \A k \in 1 .. n + 2 - 1 - l : u[k] = e[l + k]
    <3>1. TextBetween(e, n + 2, l)
      BY <1>1, <1>3, <2>4, TextIs
    <3> QED BY <3>1 DEF TextBetween
  <2> HIDE DEF t, u
  <2>7. PICK m \in Nat : m = n - l
    BY <1>1, <2>2, <2>5
  <2>8. n + 1 - 1 - l = m /\ n + 2 - 1 - l = m + 1 /\ l + (m + 1) = n + 1
    BY <1>1, <2>2, <2>7
  <2>9. v \in Seq(Text) /\ Len(v) = m + 1 /\ v[m + 1] = x /\ \A k \in 1 .. m : v[k] = t[k]
    BY <2>5, <2>8
  <2> HIDE DEF v
  <2>10. ASSUME NEW k \in 1 .. m + 1 PROVE u[k] = v[k]
    <3>1. CASE k = m + 1
      BY <1>1, <2>6, <2>8, <2>9, <3>1
    <3>2. CASE k \in 1 .. m
      <4>1. l + k \in 1 .. n
        BY <1>1, <2>2, <2>7, <3>2
      <4>2. u[k] = e[l + k] /\ t[k] = b[l + k] /\ v[k] = t[k]
        BY <2>5, <2>6, <2>8, <2>9, <3>2
      <4> QED BY <1>1, <4>1, <4>2
    <3> QED BY <3>1, <3>2
  <2>11. u = v
    BY <2>6, <2>8, <2>9, <2>10, SameSeq
  <2> QED BY <1>5, <2>2, <2>4, <2>11 DEF t, u, v
<1> QED BY <1>4, <1>5

LEMMA LineAtIs ==
  ASSUME NEW b, NEW i
  PROVE  /\ i <= Len(b) => LineAt(b, i) = Line(TextAt(b, i))
         /\ ~ (i <= Len(b)) => LineAt(b, i) = TextAt(b, i)
BY DEF LineAt, Line, TextAt

LEMMA LinesSame ==
  ASSUME NEW b \in Seq(Text), NEW x \in Text, NEW e, Longer(b, x, e), NEW n, n = Len(b)
  PROVE  /\ \A i \in 1 .. n : LineAt(e, i) = LineAt(b, i)
         /\ LineAt(e, n + 1) = Line(TextAt(b, n + 1)) /\ LineAt(b, n + 1) = TextAt(b, n + 1)
<1>1. n \in Nat /\ e \in Seq(Text) /\ Len(e) = n + 1
  BY AppendIs
<1>2. ASSUME NEW i \in 1 .. n PROVE LineAt(e, i) = LineAt(b, i)
  <2>1. i \in 1 .. Len(b) + 1 /\ i <= Len(e) /\ i <= Len(b)
    BY <1>1
  <2>2. TextAt(e, i) = TextAt(b, i)
    BY <2>1, TextSame
  <2> QED BY <2>1, <2>2, LineAtIs
<1>3. n + 1 \in 1 .. Len(b) + 1 /\ n + 1 <= Len(e) /\ ~ (n + 1 <= Len(b))
  BY <1>1
<1>4. TextAt(e, n + 1) = TextAt(b, n + 1)
  BY <1>3, TextSame
<1> QED BY <1>2, <1>3, <1>4, LineAtIs

\* Where the open record begins, and the open line.
RecordFrom(b) == LastBefore(Boundaries(b), Len(b) + 1)
OpenText(b) == TextAt(b, Len(b) + 1)

\* The lines of the open record, with `line` as the last of them.
Lines(b, line, field) ==
  {j \in Feeds(b) \cup {Len(b) + 1} :
     \/ j \in Feeds(b) /\ RecordFrom(b) < j /\ LineAt(b, j) # <<>> /\ Head(LineAt(b, j)) = field
     \/ j = Len(b) + 1 /\ line # <<>> /\ Head(line) = field}
TextOf(b, line, j) == IF j = Len(b) + 1 THEN line ELSE LineAt(b, j)

DataIn(b, line) ==
  Ordered(Lines(b, line, "data:"), [j \in Lines(b, line, "data:") |-> Tail(TextOf(b, line, j))])
EventIn(b, line) ==
  IF Lines(b, line, "event:") = {} THEN <<>>
  ELSE <<Tail(TextOf(b, line, Max(Lines(b, line, "event:"))))>>

LEMMA BoundariesMore ==
  ASSUME NEW b \in Seq(Text), NEW x \in Text, NEW e, Longer(b, x, e), NEW n, n = Len(b)
  PROVE  /\ x = "LF" /\ Line(OpenText(b)) = <<>> =>
              Boundaries(e) = Boundaries(b) \cup {n + 1} /\ RecordFrom(e) = n + 1
         /\ ~ (x = "LF" /\ Line(OpenText(b)) = <<>>) =>
              Boundaries(e) = Boundaries(b) /\ RecordFrom(e) = RecordFrom(b)
         /\ \A i \in 1 .. n + 1 : LastBefore(Boundaries(e), i) = LastBefore(Boundaries(b), i)
         /\ RecordFrom(b) \in Nat /\ RecordFrom(b) <= n
<1>1. /\ n \in Nat /\ e \in Seq(Text) /\ Len(e) = n + 1
  BY AppendIs
<1>2. /\ Boundaries(b) \in SUBSET Nat /\ Boundaries(e) \in SUBSET Nat
      /\ \A j \in Feeds(b) : j \in 1 .. n
      /\ Boundaries(b) \subseteq Feeds(b)
  BY <1>1, FeedsIn
<1>3. (\A j \in 1 .. n : j \in Feeds(e) <=> j \in Feeds(b)) /\ (n + 1 \in Feeds(e) <=> x = "LF")
      /\ \A j \in Feeds(e) : j \in 1 .. n \/ j = n + 1
  <2>1. n + 1 \notin Feeds(b)
    BY <1>1, <1>2
  <2> QED BY <1>2, <2>1, FeedsMore
<1>4. (\A i \in 1 .. n : LineAt(e, i) = LineAt(b, i)) /\ LineAt(e, n + 1) = Line(OpenText(b))
  BY LinesSame DEF OpenText
<1>5. \A j : j \in Boundaries(e) <=> j \in Boundaries(b) \/ (j = n + 1 /\ x = "LF" /\ Line(OpenText(b)) = <<>>)
  BY <1>2, <1>3, <1>4 DEF Boundaries
<1>6. ASSUME NEW i \in 1 .. n + 1 PROVE LastBefore(Boundaries(e), i) = LastBefore(Boundaries(b), i)
  <2>1. i \in Nat /\ \A j \in Nat : j < i => (j \in Boundaries(e) <=> j \in Boundaries(b))
    BY <1>1, <1>5
  <2> QED BY <1>2, <2>1, LastBeforeSame
<1>7. PICK l \in Nat : /\ l = LastBefore(Boundaries(b), n + 1)
                       /\ l = 0 \/ (l \in Boundaries(b) /\ l < n + 1)
                       /\ \A j \in Boundaries(b) : j < n + 1 => j <= l
  <2>1. n + 1 \in Nat
    BY <1>1
  <2> QED BY <1>2, <2>1, LastBeforeIs
<1>8. l = RecordFrom(b) /\ l <= n /\ RecordFrom(e) = LastBefore(Boundaries(e), n + 2)
  <2>1. Len(e) + 1 = n + 2
    BY <1>1
  <2> QED BY <1>1, <1>7, <2>1 DEF RecordFrom
<1>9. ASSUME x = "LF" /\ Line(OpenText(b)) = <<>>
      PROVE  Boundaries(e) = Boundaries(b) \cup {n + 1} /\ RecordFrom(e) = n + 1
  <2>1. Boundaries(e) = Boundaries(b) \cup {n + 1}
    BY <1>5, <1>9
  <2>2. n + 1 \in Boundaries(e) /\ n + 1 < n + 2 /\ n + 1 \in Nat /\ n + 2 \in Nat
        /\ \A j \in Boundaries(e) : j < n + 2 => j <= n + 1
    BY <1>1, <1>2, <2>1
  <2>3. LastBefore(Boundaries(e), n + 2) = n + 1
    BY <1>2, <2>2, LastBeforeOnly
  <2> QED BY <1>8, <2>1, <2>3
<1>10. ASSUME ~ (x = "LF" /\ Line(OpenText(b)) = <<>>)
       PROVE  Boundaries(e) = Boundaries(b) /\ RecordFrom(e) = RecordFrom(b)
  <2>1. Boundaries(e) = Boundaries(b)
    BY <1>5, <1>10
  <2>2. n + 2 \in Nat /\ (l = 0 \/ (l \in Boundaries(e) /\ l < n + 2))
        /\ \A j \in Boundaries(e) : j < n + 2 => j <= l
    BY <1>1, <1>2, <1>7, <2>1
  <2>3. LastBefore(Boundaries(e), n + 2) = l
    BY <1>2, <2>2, LastBeforeOnly
  <2> QED BY <1>8, <2>1, <2>3
<1> QED BY <1>6, <1>8, <1>9, <1>10

LEMMA LinesIn ==
  ASSUME NEW b \in Seq(Text), NEW i, NEW line, NEW field
  PROVE  /\ \A j \in LinesOf(b, i, field) : j \in Nat /\ j < Len(b) + 2 /\ j <= i /\ 1 <= j
         /\ \A j \in Lines(b, line, field) : j \in Nat /\ j < Len(b) + 2 /\ 1 <= j
         /\ LinesOf(b, i, field) \in SUBSET (0 .. Len(b) + 2)
         /\ Lines(b, line, field) \in SUBSET (0 .. Len(b) + 2)
         /\ Len(b) + 2 \in Nat
<1>1. Len(b) \in Nat /\ \A j \in Feeds(b) : j \in Nat /\ 1 <= j /\ j <= Len(b)
  BY FeedsIn
<1>2. \A j \in Feeds(b) \cup {Len(b) + 1} : j \in Nat /\ 1 <= j /\ j < Len(b) + 2
  BY <1>1
<1>3. \A j \in LinesOf(b, i, field) : j \in Nat /\ j < Len(b) + 2 /\ j <= i /\ 1 <= j
  BY <1>2 DEF LinesOf
<1>4. \A j \in Lines(b, line, field) : j \in Nat /\ j < Len(b) + 2 /\ 1 <= j
  BY <1>2 DEF Lines
<1>5. Len(b) + 2 \in Nat
  BY <1>1
<1> QED BY <1>3, <1>4, <1>5

\* The records at boundaries stay.
LEMMA RecordStays ==
  ASSUME NEW b \in Seq(Text), NEW x \in Text, NEW e, Longer(b, x, e), NEW n, n = Len(b),
         NEW i \in 1 .. n
  PROVE  /\ \A field : LinesOf(e, i, field) = LinesOf(b, i, field)
         /\ RecordAt(e, i) = RecordAt(b, i)
<1>1. /\ n \in Nat /\ e \in Seq(Text) /\ Len(e) = n + 1 /\ i \in Nat /\ i <= n /\ i \in 1 .. n + 1
  BY AppendIs, SMTT(40)
<1>2. \A j \in 1 .. n : j \in Feeds(e) <=> j \in Feeds(b)
  BY FeedsMore
<1>3. \A j \in 1 .. n : LineAt(e, j) = LineAt(b, j)
  BY LinesSame
<1>4. LastBefore(Boundaries(e), i) = LastBefore(Boundaries(b), i)
  BY <1>1, BoundariesMore
<1>5. (\A j \in Feeds(e) : j \in Nat /\ 1 <= j) /\ (\A j \in Feeds(b) : j \in Nat /\ 1 <= j)
  BY <1>1, FeedsIn
<1>6. ASSUME NEW field PROVE LinesOf(e, i, field) = LinesOf(b, i, field)
  <2>1. \A j \in LinesOf(e, i, field) : j \in 1 .. n /\ j \in Feeds(e)
    BY <1>1, <1>5 DEF LinesOf
  <2>2. \A j \in LinesOf(b, i, field) : j \in 1 .. n /\ j \in Feeds(b)
    BY <1>1, <1>5 DEF LinesOf
  <2>3. \A j \in 1 .. n : j \in LinesOf(e, i, field) <=> j \in LinesOf(b, i, field)
    <3>1. \A j \in 1 .. n : j # n + 1 /\ j # Len(e) + 1
      BY <1>1
    <3> QED BY <1>2, <1>3, <1>4, <3>1 DEF LinesOf
  <2> QED BY <2>1, <2>2, <2>3
<1> DEFINE d == LinesOf(b, i, "data:")
           v == LinesOf(b, i, "event:")
<1>7. (\A j \in d : LineAt(e, j) = LineAt(b, j)) /\ (\A j \in v : LineAt(e, j) = LineAt(b, j))
  <2>1. (\A j \in d : j \in 1 .. n) /\ (\A j \in v : j \in 1 .. n)
    <3>1. \A j \in d \cup v : j \in Nat /\ 1 <= j /\ j <= i
      BY LinesIn
    <3> HIDE DEF d, v
    <3> QED BY <1>1, <3>1
  <2> QED BY <1>3, <2>1
<1>8. v # {} => LineAt(e, Max(v)) = LineAt(b, Max(v))
  <2>1. v \in SUBSET (0 .. Len(b) + 2) /\ Len(b) + 2 \in Nat
    BY LinesIn
  <2> HIDE DEF v
  <2> QED BY <1>7, <2>1, Largest
<1>9. LinesOf(e, i, "data:") = d /\ LinesOf(e, i, "event:") = v
  BY <1>6
<1>10. [j \in d |-> Tail(LineAt(e, j))] = [j \in d |-> Tail(LineAt(b, j))]
  BY <1>7
<1>11. RecordAt(e, i) = RecordAt(b, i)
  <2>1. RecordAt(e, i) = [event |-> IF v = {} THEN <<>> ELSE <<Tail(LineAt(e, Max(v)))>>,
                          data |-> Ordered(d, [j \in d |-> Tail(LineAt(e, j))])]
    BY <1>9 DEF RecordAt
  <2>2. RecordAt(b, i) = [event |-> IF v = {} THEN <<>> ELSE <<Tail(LineAt(b, Max(v)))>>,
                          data |-> Ordered(d, [j \in d |-> Tail(LineAt(b, j))])]
    BY DEF RecordAt
  <2> HIDE DEF d, v
  <2>3. (IF v = {} THEN <<>> ELSE <<Tail(LineAt(e, Max(v)))>>) = (IF v = {} THEN <<>> ELSE <<Tail(LineAt(b, Max(v)))>>)
    BY <1>8
  <2>4. Ordered(d, [j \in d |-> Tail(LineAt(e, j))]) = Ordered(d, [j \in d |-> Tail(LineAt(b, j))])
    BY <1>10
  <2> DEFINE A == IF v = {} THEN <<>> ELSE <<Tail(LineAt(e, Max(v)))>>
             B == IF v = {} THEN <<>> ELSE <<Tail(LineAt(b, Max(v)))>>
             C == Ordered(d, [j \in d |-> Tail(LineAt(e, j))])
             D == Ordered(d, [j \in d |-> Tail(LineAt(b, j))])
  <2>5. RecordAt(e, i) = [event |-> A, data |-> C] /\ RecordAt(b, i) = [event |-> B, data |-> D] /\ A = B /\ C = D
    BY <2>1, <2>2, <2>3, <2>4
  <2> HIDE DEF A, B, C, D
  <2> QED BY <2>5
<1> QED BY <1>6, <1>11

\* What the open record says when the body ends.
LEMMA RecordAtEnd ==
  ASSUME NEW b \in Seq(Text), NEW n, n = Len(b), NEW line, line = OpenText(b)
  PROVE  /\ \A field : LinesOf(b, n + 1, field) = Lines(b, line, field)
         /\ RecordAt(b, n + 1) = [event |-> EventIn(b, line), data |-> DataIn(b, line)]
<1>1. n \in Nat /\ \A j \in Feeds(b) : j \in Nat /\ j <= n /\ j # n + 1 /\ j <= n + 1
  BY FeedsIn
<1>2. RecordFrom(b) < n + 1 /\ RecordFrom(b) = LastBefore(Boundaries(b), n + 1)
  <2>1. Boundaries(b) \in SUBSET Nat /\ n + 1 \in Nat
    BY <1>1, FeedsIn
  <2>2. LastBefore(Boundaries(b), n + 1) = 0 \/ LastBefore(Boundaries(b), n + 1) < n + 1
    BY <2>1, LastBeforeIs
  <2> QED BY <1>1, <2>2 DEF RecordFrom
<1>3. LineAt(b, n + 1) = line
  <2>1. ~ (n + 1 <= Len(b))
    BY <1>1
  <2> QED BY <2>1, LineAtIs DEF OpenText
<1>4. \A j \in Feeds(b) \cup {n + 1} : TextOf(b, line, j) = LineAt(b, j)
  BY <1>3 DEF TextOf
<1>5. ASSUME NEW field PROVE LinesOf(b, n + 1, field) = Lines(b, line, field)
  <2>1. n + 1 <= n + 1
    BY <1>1
  <2>2. \A j \in Feeds(b) \cup {n + 1} : j \in LinesOf(b, n + 1, field) <=> j \in Lines(b, line, field)
    BY <1>1, <1>2, <1>3, <2>1 DEF LinesOf, Lines
  <2>3. (\A j \in LinesOf(b, n + 1, field) : j \in Feeds(b) \cup {n + 1})
        /\ \A j \in Lines(b, line, field) : j \in Feeds(b) \cup {n + 1}
    BY DEF LinesOf, Lines
  <2> QED BY <2>2, <2>3
<1> DEFINE d == LinesOf(b, n + 1, "data:")
           v == LinesOf(b, n + 1, "event:")
<1>6. (\A j \in d : TextOf(b, line, j) = LineAt(b, j)) /\ (\A j \in v : TextOf(b, line, j) = LineAt(b, j))
  BY <1>4 DEF LinesOf
<1>7. v # {} => TextOf(b, line, Max(v)) = LineAt(b, Max(v))
  <2>1. v \in SUBSET (0 .. Len(b) + 2) /\ Len(b) + 2 \in Nat
    BY LinesIn
  <2> HIDE DEF v
  <2> QED BY <1>6, <2>1, Largest
<1>8. [j \in d |-> Tail(TextOf(b, line, j))] = [j \in d |-> Tail(LineAt(b, j))]
  BY <1>6
<1>9. DataIn(b, line) = Ordered(d, [j \in d |-> Tail(LineAt(b, j))])
  BY <1>5, <1>8 DEF DataIn
<1>10. EventIn(b, line) = IF v = {} THEN <<>> ELSE <<Tail(LineAt(b, Max(v)))>>
  BY <1>5, <1>7 DEF EventIn
<1>11. RecordAt(b, n + 1) = [event |-> EventIn(b, line), data |-> DataIn(b, line)]
  BY <1>9, <1>10 DEF RecordAt
<1> QED BY <1>5, <1>11

\* The same lines with the same texts say the same.
LEMMA SameFields ==
  ASSUME NEW b \in Seq(Text), NEW line, NEW e \in Seq(Text), NEW more,
         \A field : Lines(e, more, field) = Lines(b, line, field),
         \A field : \A j \in Lines(b, line, field) : TextOf(e, more, j) = TextOf(b, line, j)
  PROVE  DataIn(e, more) = DataIn(b, line) /\ EventIn(e, more) = EventIn(b, line)
<1> DEFINE d == Lines(b, line, "data:")
           v == Lines(b, line, "event:")
<1>1. v # {} => TextOf(e, more, Max(v)) = TextOf(b, line, Max(v))
  <2>1. v \in SUBSET (0 .. Len(b) + 2) /\ Len(b) + 2 \in Nat
    BY LinesIn
  <2>2. \A j \in v : TextOf(e, more, j) = TextOf(b, line, j)
    OBVIOUS
  <2> HIDE DEF v
  <2> QED BY <2>1, <2>2, Largest
<1>2. [j \in d |-> Tail(TextOf(e, more, j))] = [j \in d |-> Tail(TextOf(b, line, j))]
  <2>1. \A j \in d : TextOf(e, more, j) = TextOf(b, line, j)
    OBVIOUS
  <2> HIDE DEF d
  <2> QED BY <2>1
<1>3. Lines(e, more, "data:") = d /\ Lines(e, more, "event:") = v
  OBVIOUS
<1>4. DataIn(e, more) = Ordered(d, [j \in d |-> Tail(TextOf(e, more, j))])
  BY <1>3 DEF DataIn
<1>5. DataIn(b, line) = Ordered(d, [j \in d |-> Tail(TextOf(b, line, j))])
  BY DEF DataIn
<1>6. EventIn(e, more) = IF v = {} THEN <<>> ELSE <<Tail(TextOf(e, more, Max(v)))>>
  BY <1>3 DEF EventIn
<1>7. EventIn(b, line) = IF v = {} THEN <<>> ELSE <<Tail(TextOf(b, line, Max(v)))>>
  BY DEF EventIn
<1> HIDE DEF d, v
<1>8. DataIn(e, more) = DataIn(b, line)
  BY <1>2, <1>4, <1>5
<1>9. EventIn(e, more) = EventIn(b, line)
  <2>1. CASE v = {}
    BY <1>6, <1>7, <2>1
  <2>2. CASE v # {}
    BY <1>1, <1>6, <1>7, <2>2
  <2> QED BY <2>1, <2>2
<1> QED BY <1>8, <1>9

\* A byte, or a line that is not blank, is read.
LEMMA LinesRead ==
  ASSUME NEW b \in Seq(Text), NEW x \in Text, NEW e, Longer(b, x, e), NEW n, n = Len(b), NEW line,
         \/ x # "LF" /\ line = <<>>
         \/ x = "LF" /\ line = Line(OpenText(b)) /\ line # <<>>
  PROVE  /\ \A field : Lines(e, <<>>, field) = Lines(b, line, field)
         /\ DataIn(e, <<>>) = DataIn(b, line) /\ EventIn(e, <<>>) = EventIn(b, line)
<1>1. /\ n \in Nat /\ e \in Seq(Text) /\ Len(e) = n + 1 /\ Len(e) + 1 = n + 2
  <2>1. n \in Nat /\ e \in Seq(Text) /\ Len(e) = n + 1
    BY AppendIs
  <2> QED BY <2>1
<1>2. \A j \in Feeds(b) : j \in 1 .. n /\ j # n + 1 /\ j # n + 2
  BY <1>1, FeedsIn
<1>3. \A j : j \in Feeds(e) <=> j \in Feeds(b) \/ (j = n + 1 /\ x = "LF")
  BY FeedsMore
<1>4. (\A i \in 1 .. n : LineAt(e, i) = LineAt(b, i)) /\ LineAt(e, n + 1) = Line(OpenText(b))
  BY LinesSame DEF OpenText
<1>5. RecordFrom(e) = RecordFrom(b) /\ RecordFrom(b) < n + 1
  <2>1. RecordFrom(e) = RecordFrom(b) /\ RecordFrom(b) \in Nat /\ RecordFrom(b) <= n
    BY BoundariesMore
  <2> QED BY <1>1, <2>1
<1>6. n + 1 # n + 2
  BY <1>1
<1>7. ASSUME NEW field, NEW j PROVE j \in Lines(e, <<>>, field) <=> j \in Lines(b, line, field)
  <2>1. j \in Lines(e, <<>>, field) <=>
          j \in Feeds(e) /\ RecordFrom(e) < j /\ LineAt(e, j) # <<>> /\ Head(LineAt(e, j)) = field
    BY DEF Lines
  <2>2. j \in Lines(b, line, field) <=>
          \/ j \in Feeds(b) /\ RecordFrom(b) < j /\ LineAt(b, j) # <<>> /\ Head(LineAt(b, j)) = field
          \/ j = n + 1 /\ line # <<>> /\ Head(line) = field
    BY DEF Lines
  <2>3. CASE j \in Feeds(b)
    BY <1>2, <1>3, <1>4, <1>5, <2>1, <2>2, <2>3
  <2>4. CASE j \notin Feeds(b)
    BY <1>3, <1>4, <1>5, <2>1, <2>2, <2>4
  <2> QED BY <2>3, <2>4
<1>8. ASSUME NEW field PROVE Lines(e, <<>>, field) = Lines(b, line, field)
  <2>1. \A j : j \in Lines(e, <<>>, field) <=> j \in Lines(b, line, field)
    BY <1>7
  <2> QED BY <2>1
<1>9. ASSUME NEW field, NEW j \in Lines(b, line, field) PROVE TextOf(e, <<>>, j) = TextOf(b, line, j)
  <2>1. j \in Feeds(b) \/ (j = n + 1 /\ line # <<>>)
    BY DEF Lines
  <2>2. CASE j \in Feeds(b)
    BY <1>1, <1>2, <1>4, <2>2 DEF TextOf
  <2>3. CASE j = n + 1 /\ line # <<>>
    BY <1>1, <1>4, <1>6, <2>3 DEF TextOf
  <2> QED BY <2>1, <2>2, <2>3
<1>10. \A field : \A j \in Lines(b, line, field) : TextOf(e, <<>>, j) = TextOf(b, line, j)
  BY <1>9
<1> QED BY <1>1, <1>8, <1>10, SameFields

\* A blank line ends the record; nothing is open behind it.
LEMMA BlankRead ==
  ASSUME NEW b \in Seq(Text), NEW x \in Text, NEW e, Longer(b, x, e), NEW n, n = Len(b),
         x = "LF", Line(OpenText(b)) = <<>>
  PROVE  /\ \A field : LinesOf(e, n + 1, field) = Lines(b, <<>>, field)
         /\ RecordAt(e, n + 1) = [event |-> EventIn(b, <<>>), data |-> DataIn(b, <<>>)]
         /\ \A field : Lines(e, <<>>, field) = {}
<1>1. /\ n \in Nat /\ e \in Seq(Text) /\ Len(e) = n + 1 /\ Len(e) + 1 = n + 2
  <2>1. n \in Nat /\ e \in Seq(Text) /\ Len(e) = n + 1
    BY AppendIs
  <2> QED BY <2>1
<1>2. \A j \in Feeds(b) : j \in 1 .. n /\ j # n + 1 /\ j # n + 2 /\ j <= n + 1
  BY <1>1, FeedsIn
<1>3. \A j : j \in Feeds(e) <=> j \in Feeds(b) \/ j = n + 1
  BY FeedsMore
<1>4. (\A i \in 1 .. n : LineAt(e, i) = LineAt(b, i)) /\ LineAt(e, n + 1) = <<>>
  BY LinesSame DEF OpenText
<1>5. LastBefore(Boundaries(e), n + 1) = RecordFrom(b) /\ RecordFrom(e) = n + 1
  <2>1. n + 1 \in 1 .. n + 1
    BY <1>1
  <2>2. LastBefore(Boundaries(e), n + 1) = LastBefore(Boundaries(b), n + 1)
    BY <2>1, BoundariesMore
  <2> QED BY <2>2, BoundariesMore DEF RecordFrom
<1>6. ~ (n + 2 <= n + 1)
  BY <1>1
<1>7. ASSUME NEW field, NEW j PROVE j \in LinesOf(e, n + 1, field) <=> j \in Lines(b, <<>>, field)
  <2>1. j \in LinesOf(e, n + 1, field) <=>
          /\ j \in Feeds(e) \/ j = n + 2
          /\ RecordFrom(b) < j /\ j <= n + 1 /\ LineAt(e, j) # <<>> /\ Head(LineAt(e, j)) = field
    BY <1>1, <1>5 DEF LinesOf
  <2>2. j \in Lines(b, <<>>, field) <=>
          j \in Feeds(b) /\ RecordFrom(b) < j /\ LineAt(b, j) # <<>> /\ Head(LineAt(b, j)) = field
    BY DEF Lines
  <2>3. CASE j \in Feeds(b)
    BY <1>2, <1>3, <1>4, <2>1, <2>2, <2>3
  <2>4. CASE j \notin Feeds(b)
    BY <1>3, <1>4, <1>6, <2>1, <2>2, <2>4
  <2> QED BY <2>3, <2>4
<1>8. ASSUME NEW field PROVE LinesOf(e, n + 1, field) = Lines(b, <<>>, field)
  <2>1. \A j : j \in LinesOf(e, n + 1, field) <=> j \in Lines(b, <<>>, field)
    BY <1>7
  <2> QED BY <2>1
<1> DEFINE d == Lines(b, <<>>, "data:")
           v == Lines(b, <<>>, "event:")
<1>9. ASSUME NEW field, NEW j \in Lines(b, <<>>, field) PROVE LineAt(e, j) = TextOf(b, <<>>, j)
  <2>1. j \in Feeds(b)
    BY DEF Lines
  <2> QED BY <1>2, <1>4, <2>1 DEF TextOf
<1>10. v # {} => LineAt(e, Max(v)) = TextOf(b, <<>>, Max(v))
  <2>1. v \in SUBSET (0 .. Len(b) + 2) /\ Len(b) + 2 \in Nat
    BY LinesIn
  <2>2. \A j \in v : LineAt(e, j) = TextOf(b, <<>>, j)
    BY <1>9
  <2> HIDE DEF v
  <2> QED BY <2>1, <2>2, Largest
<1>11. [j \in d |-> Tail(LineAt(e, j))] = [j \in d |-> Tail(TextOf(b, <<>>, j))]
  <2>1. \A j \in d : LineAt(e, j) = TextOf(b, <<>>, j)
    BY <1>9
  <2> HIDE DEF d
  <2> QED BY <2>1
<1>12. LinesOf(e, n + 1, "data:") = d /\ LinesOf(e, n + 1, "event:") = v
  BY <1>8
<1>13. RecordAt(e, n + 1) = [event |-> IF v = {} THEN <<>> ELSE <<Tail(LineAt(e, Max(v)))>>,
                             data |-> Ordered(d, [j \in d |-> Tail(LineAt(e, j))])]
  BY <1>12 DEF RecordAt
<1>14. DataIn(b, <<>>) = Ordered(d, [j \in d |-> Tail(TextOf(b, <<>>, j))])
  BY DEF DataIn
<1>15. EventIn(b, <<>>) = IF v = {} THEN <<>> ELSE <<Tail(TextOf(b, <<>>, Max(v)))>>
  BY DEF EventIn
<1>16. RecordAt(e, n + 1) = [event |-> EventIn(b, <<>>), data |-> DataIn(b, <<>>)]
  <2> DEFINE A == IF v = {} THEN <<>> ELSE <<Tail(LineAt(e, Max(v)))>>
             C == Ordered(d, [j \in d |-> Tail(LineAt(e, j))])
  <2>1. A = EventIn(b, <<>>)
    <3> HIDE DEF v
    <3> QED BY <1>10, <1>15
  <2>2. C = DataIn(b, <<>>)
    <3> HIDE DEF d
    <3> QED BY <1>11, <1>14
  <2>3. RecordAt(e, n + 1) = [event |-> A, data |-> C]
    BY <1>13
  <2> HIDE DEF A, C
  <2> QED BY <2>1, <2>2, <2>3
<1>17. ASSUME NEW field PROVE Lines(e, <<>>, field) = {}
  <2>1. \A j \in Feeds(e) : ~ (n + 1 < j)
    <3>1. ~ (n + 1 < n + 1) /\ \A j \in Feeds(b) : ~ (n + 1 < j)
      BY <1>1, <1>2
    <3> QED BY <1>3, <3>1
  <2>2. \A j \in Lines(e, <<>>, field) : j \in Feeds(e) /\ RecordFrom(e) < j
    BY DEF Lines
  <2> QED BY <1>5, <2>1, <2>2
<1> QED BY <1>8, <1>16, <1>17

-----------------------------------------------------------------------------
(* The parser of server-sent events. *)

SseRecord == [event : Seq(Seq(Text)), data : Seq(Seq(Text))]
SseParser == [buffer : Seq(Text), event : Seq(Seq(Text)), id : BOOLEAN, data : Seq(Seq(Text)),
              bytes : Nat, out : Seq(SseRecord), failed : BOOLEAN]

Marked(b, line) == \E field \in {"data:", "event:", "id:"} : Lines(b, line, field) # {}

\* A parser holds the fields of the open record.
FieldsRead(b, line, p) ==
  /\ p.data = DataIn(b, line) /\ p.event = EventIn(b, line)
  /\ p.id <=> Lines(b, line, "id:") # {}

MoreLines(b, n, line, field) ==
  /\ Head(line) = field => Lines(b, line, field) = Lines(b, <<>>, field) \cup {n + 1}
  /\ Head(line) # field => Lines(b, line, field) = Lines(b, <<>>, field)
  /\ n + 1 \in Nat /\ TextOf(b, line, n + 1) = line
  /\ \A j \in Lines(b, <<>>, field) : /\ j \in Nat /\ j < n + 1
                                      /\ TextOf(b, line, j) = TextOf(b, <<>>, j)

LEMMA LinesMore ==
  ASSUME NEW b \in Seq(Text), NEW n, n = Len(b), NEW line, line # <<>>, NEW field
  PROVE  MoreLines(b, n, line, field)
<1>1. n \in Nat /\ \A j \in Feeds(b) : j \in Nat /\ j < n + 1 /\ j # n + 1
  BY FeedsIn
<1>2. \A j : j \in Lines(b, <<>>, field) <=>
          j \in Feeds(b) /\ RecordFrom(b) < j /\ LineAt(b, j) # <<>> /\ Head(LineAt(b, j)) = field
  BY DEF Lines
<1>3. \A j : j \in Lines(b, line, field) <=> j \in Lines(b, <<>>, field) \/ (j = n + 1 /\ Head(line) = field)
  BY <1>2 DEF Lines
<1>4. \A j \in Lines(b, <<>>, field) : TextOf(b, line, j) = TextOf(b, <<>>, j)
  BY <1>1, <1>2 DEF TextOf
<1>5. Head(line) = field => Lines(b, line, field) = Lines(b, <<>>, field) \cup {n + 1}
  BY <1>3
<1>6. Head(line) # field => Lines(b, line, field) = Lines(b, <<>>, field)
  BY <1>3
<1>7. \A j \in Lines(b, <<>>, field) : j \in Nat /\ j < n + 1
  BY <1>1, <1>2
<1>8. TextOf(b, line, n + 1) = line
  BY DEF TextOf
<1> QED BY <1>1, <1>4, <1>5, <1>6, <1>7, <1>8 DEF MoreLines

LEMMA DataMore ==
  ASSUME NEW b \in Seq(Text), NEW line, line # <<>>
  PROVE  /\ Head(line) = "data:" => DataIn(b, line) = Append(DataIn(b, <<>>), Tail(line))
         /\ Head(line) # "data:" => DataIn(b, line) = DataIn(b, <<>>)
<1> DEFINE n == Len(b)
           d == Lines(b, <<>>, "data:")
           D == Lines(b, line, "data:")
           f == [j \in d |-> Tail(TextOf(b, <<>>, j))]
           F == [j \in D |-> Tail(TextOf(b, line, j))]
<1>1. /\ Head(line) = "data:" => D = d \cup {n + 1}
      /\ Head(line) # "data:" => D = d
      /\ n + 1 \in Nat /\ TextOf(b, line, n + 1) = line
      /\ \A j \in d : j \in Nat /\ j < n + 1 /\ TextOf(b, line, j) = TextOf(b, <<>>, j)
  <2> HIDE DEF n, d, D, f, F
  <2>1. MoreLines(b, n, line, "data:")
    BY LinesMore DEF n
  <2> QED BY <2>1 DEF MoreLines, d, D
<1>2. DataIn(b, <<>>) = Ordered(d, f) /\ DataIn(b, line) = Ordered(D, F)
  BY DEF DataIn
<1>3. CASE Head(line) = "data:"
  <2>1. (\A j \in d : F[j] = f[j]) /\ F[n + 1] = Tail(line)
    <3> HIDE DEF D, d, n
    <3> QED BY <1>1, <1>3
  <2> HIDE DEF D, d, n, F, f
  <2>2. Ordered(d \cup {n + 1}, F) = Append(Ordered(d, f), F[n + 1])
    BY <1>1, <2>1, OrderedMore, ZenonT(40)
  <2> QED BY <1>1, <1>2, <1>3, <2>1, <2>2
<1>4. CASE Head(line) # "data:"
  <2>1. D = d
    BY <1>1, <1>4
  <2>2. F = f
    <3> HIDE DEF D, d, n
    <3> QED BY <1>1, <2>1
  <2> HIDE DEF D, d, n, F, f
  <2> QED BY <1>2, <1>4, <2>1, <2>2
<1> QED BY <1>3, <1>4

LEMMA EventMore ==
  ASSUME NEW b \in Seq(Text), NEW line, line # <<>>
  PROVE  /\ Head(line) = "event:" => EventIn(b, line) = <<Tail(line)>>
         /\ Head(line) # "event:" => EventIn(b, line) = EventIn(b, <<>>)
<1> DEFINE n == Len(b)
           v == Lines(b, <<>>, "event:")
           V == Lines(b, line, "event:")
<1>1. /\ Head(line) = "event:" => V = v \cup {n + 1}
      /\ Head(line) # "event:" => V = v
      /\ n + 1 \in Nat /\ TextOf(b, line, n + 1) = line
      /\ \A j \in v : j \in Nat /\ j < n + 1 /\ TextOf(b, line, j) = TextOf(b, <<>>, j)
  <2> HIDE DEF n, v, V
  <2>1. MoreLines(b, n, line, "event:")
    BY LinesMore DEF n
  <2> QED BY <2>1 DEF MoreLines, v, V
<1>2. /\ EventIn(b, <<>>) = IF v = {} THEN <<>> ELSE <<Tail(TextOf(b, <<>>, Max(v)))>>
      /\ EventIn(b, line) = IF V = {} THEN <<>> ELSE <<Tail(TextOf(b, line, Max(V)))>>
  BY DEF EventIn
<1>3. V \in SUBSET (0 .. Len(b) + 2) /\ v \in SUBSET (0 .. Len(b) + 2) /\ Len(b) + 2 \in Nat
  BY LinesIn
<1> HIDE DEF n, v, V
<1>4. CASE Head(line) = "event:"
  <2>1. V # {} /\ n + 1 \in V
    BY <1>1, <1>4
  <2>2. Max(V) \in V /\ \A j \in V : j <= Max(V)
    BY <1>3, <2>1, Largest
  <2>3. Max(V) = n + 1
    <3>1. PICK m \in V : m = Max(V)
      BY <2>2
    <3>2. n + 1 <= m /\ (m = n + 1 \/ (m \in Nat /\ m < n + 1))
      BY <1>1, <1>4, <2>1, <2>2, <3>1
    <3>3. m = n + 1
      BY <1>1, <3>2
    <3> QED BY <3>1, <3>3
  <2> QED BY <1>1, <1>2, <1>4, <2>1, <2>3
<1>5. CASE Head(line) # "event:"
  <2>1. V = v
    BY <1>1, <1>5
  <2>2. CASE v = {}
    BY <1>2, <1>5, <2>1, <2>2
  <2>3. CASE v # {}
    <3>1. Max(v) \in v
      BY <1>3, <2>3, Largest
    <3> QED BY <1>1, <1>2, <1>5, <2>1, <2>3, <3>1
  <2> QED BY <2>2, <2>3
<1> QED BY <1>4, <1>5

LEMMA TailIn ==
  ASSUME NEW V, NEW s \in Seq(V), s # <<>>
  PROVE  Tail(s) \in Seq(V)
OBVIOUS

\* A line that is not blank adds its field.
LEMMA HandleLineIs ==
  ASSUME NEW b \in Seq(Text), NEW p \in SseParser, FieldsRead(b, <<>>, p),
         NEW line \in Seq(Text), line # <<>>, NEW next, next = HandleLine(p, line)
  PROVE  /\ next \in SseParser /\ FieldsRead(b, line, next)
         /\ next.buffer = p.buffer /\ next.bytes = p.bytes /\ next.out = p.out /\ next.failed = p.failed
<1>1. Tail(line) \in Seq(Text)
  BY TailIn
<1>2. PICK d \in Seq(Seq(Text)) : d = IF Head(line) = "data:" THEN Append(p.data, Tail(line)) ELSE p.data
  <2>1. p.data \in Seq(Seq(Text))
    BY DEF SseParser
  <2>2. Append(p.data, Tail(line)) \in Seq(Seq(Text))
    BY <1>1, <2>1
  <2> QED BY <2>1, <2>2
<1>3. PICK v \in Seq(Seq(Text)) : v = IF Head(line) = "event:" THEN <<Tail(line)>> ELSE p.event
  <2>1. p.event \in Seq(Seq(Text))
    BY DEF SseParser
  <2>2. <<Tail(line)>> \in Seq(Seq(Text))
    BY <1>1, ShortSeq
  <2> QED BY <2>1, <2>2
<1>4. PICK i \in BOOLEAN : i = (p.id \/ Head(line) = "id:")
  OBVIOUS
<1>5. next = [p EXCEPT !.data = d, !.event = v, !.id = i]
  BY <1>2, <1>3, <1>4 DEF HandleLine
<1>6. /\ next \in SseParser /\ next.data = d /\ next.event = v /\ next.id = i
      /\ next.buffer = p.buffer /\ next.bytes = p.bytes /\ next.out = p.out /\ next.failed = p.failed
  BY <1>5 DEF SseParser
<1>7. next.data = DataIn(b, line)
  BY <1>2, <1>6, DataMore DEF FieldsRead
<1>8. next.event = EventIn(b, line)
  BY <1>3, <1>6, EventMore DEF FieldsRead
<1>9. next.id <=> Lines(b, line, "id:") # {}
  <2>1. next.id <=> p.id \/ Head(line) = "id:"
    BY <1>4, <1>6
  <2>2. Lines(b, line, "id:") # {} <=> Lines(b, <<>>, "id:") # {} \/ Head(line) = "id:"
    <3>1. MoreLines(b, Len(b), line, "id:")
      BY LinesMore
    <3> QED BY <3>1 DEF MoreLines
  <2> QED BY <2>1, <2>2 DEF FieldsRead
<1> QED BY <1>6, <1>7, <1>8, <1>9 DEF FieldsRead

\* Fields are there exactly if there are lines of them.
LEMMA FieldsThere ==
  ASSUME NEW b \in Seq(Text), NEW line
  PROVE  /\ DataIn(b, line) = <<>> <=> Lines(b, line, "data:") = {}
         /\ EventIn(b, line) = <<>> <=> Lines(b, line, "event:") = {}
<1> DEFINE d == Lines(b, line, "data:")
           f == [j \in d |-> Tail(TextOf(b, line, j))]
<1>1. Len(b) + 2 \in Nat /\ \A j \in d : j \in Nat /\ j < Len(b) + 2
  BY LinesIn
<1>2. DataIn(b, line) = Ordered(d, f)
  BY DEF DataIn
<1>3. IsFiniteSet(d) /\ Len(Ordered(d, f)) = Cardinality(d)
  <2> HIDE DEF d, f
  <2> QED BY <1>1, NthOf, OrderedSeq
<1>4. d = {} => DataIn(b, line) = <<>>
  BY <1>2, OrderedNone
<1>5. DataIn(b, line) = <<>> => d = {}
  <2> HIDE DEF d, f
  <2> QED BY <1>2, <1>3, FS_EmptySet
<1>6. EventIn(b, line) = <<>> <=> Lines(b, line, "event:") = {}
  <2>1. \A x : <<x>> # <<>>
    OBVIOUS
  <2> QED BY <2>1 DEF EventIn
<1> QED BY <1>4, <1>5, <1>6

\* The end of a record hands it on, if it has a field.
LEMMA FlushIs ==
  ASSUME NEW b \in Seq(Text), NEW line, NEW p \in SseParser, FieldsRead(b, line, p),
         NEW next, next = FlushPending(p)
  PROVE  /\ next \in SseParser
         /\ next.data = <<>> /\ next.event = <<>> /\ ~ next.id /\ next.bytes = 0
         /\ next.buffer = p.buffer /\ next.failed = p.failed
         /\ Marked(b, line) =>
              next.out = Append(p.out, [event |-> EventIn(b, line), data |-> DataIn(b, line)])
         /\ ~ Marked(b, line) => next.out = p.out
<1>1. p.data = <<>> /\ p.event = <<>> /\ ~ p.id <=> ~ Marked(b, line)
  BY FieldsThere DEF FieldsRead, Marked
<1>2. PICK r \in SseRecord : r = [event |-> p.event, data |-> p.data]
  BY DEF SseParser, SseRecord
<1>3. PICK o \in Seq(SseRecord) : /\ Marked(b, line) => o = Append(p.out, r)
                                  /\ ~ Marked(b, line) => o = p.out
  <2>1. p.out \in Seq(SseRecord)
    BY DEF SseParser
  <2>2. Append(p.out, r) \in Seq(SseRecord)
    BY <2>1
  <2> QED BY <2>1, <2>2
<1>4. next = [p EXCEPT !.event = <<>>, !.id = FALSE, !.data = <<>>, !.bytes = 0, !.out = o]
  BY <1>1, <1>2, <1>3 DEF FlushPending
<1>5. <<>> \in Seq(Seq(Text))
  OBVIOUS
<1>6. /\ next \in SseParser
      /\ next.data = <<>> /\ next.event = <<>> /\ ~ next.id /\ next.bytes = 0
      /\ next.buffer = p.buffer /\ next.failed = p.failed /\ next.out = o
  <2>1. PICK z \in Seq(Seq(Text)) : z = <<>>
    BY <1>5
  <2>2. next = [p EXCEPT !.event = z, !.id = FALSE, !.data = z, !.bytes = 0, !.out = o]
    BY <1>4, <2>1
  <2>3. /\ next \in SseParser
        /\ next.data = z /\ next.event = z /\ next.id = FALSE /\ next.bytes = 0
        /\ next.buffer = p.buffer /\ next.failed = p.failed /\ next.out = o
    <3>1. PICK q : q = [p EXCEPT !.event = z, !.id = FALSE, !.data = z]
      OBVIOUS
    <3>2. /\ q \in SseParser /\ q.data = z /\ q.event = z /\ q.id = FALSE
          /\ q.buffer = p.buffer /\ q.failed = p.failed
      BY <3>1 DEF SseParser
    <3>3. next = [q EXCEPT !.bytes = 0, !.out = o]
      BY <2>2, <3>1
    <3>4. /\ next \in SseParser /\ next.data = q.data /\ next.event = q.event /\ next.id = q.id
          /\ next.bytes = 0 /\ next.buffer = q.buffer /\ next.failed = q.failed /\ next.out = o
      <4>1. 0 \in Nat
        OBVIOUS
      <4>2. PICK c \in Nat : c = 0
        BY <4>1
      <4>3. PICK s : s = [q EXCEPT !.bytes = c]
        OBVIOUS
      <4>4. /\ s \in SseParser /\ s.data = q.data /\ s.event = q.event /\ s.id = q.id
            /\ s.bytes = c /\ s.buffer = q.buffer /\ s.failed = q.failed
        BY <3>2, <4>3 DEF SseParser
      <4>5. next = [s EXCEPT !.out = o]
        BY <3>3, <4>2, <4>3
      <4>6. /\ next \in SseParser /\ next.data = s.data /\ next.event = s.event /\ next.id = s.id
            /\ next.bytes = s.bytes /\ next.buffer = s.buffer /\ next.failed = s.failed /\ next.out = o
        BY <4>4, <4>5 DEF SseParser
      <4> QED BY <4>2, <4>4, <4>6
    <3> QED BY <3>2, <3>4
  <2> QED BY <2>1, <2>3
<1>7. r = [event |-> EventIn(b, line), data |-> DataIn(b, line)]
  BY <1>2 DEF FieldsRead
<1> QED BY <1>3, <1>6, <1>7

-----------------------------------------------------------------------------
(* The records of a body of server-sent events. *)

FullAt(b) == {i \in Boundaries(b) : \E field \in {"data:", "event:", "id:"} : LinesOf(b, i, field) # {}}
SseSaid(b) == Ordered(FullAt(b), [i \in FullAt(b) |-> RecordAt(b, i)])
OpenRecord(b, line) == [event |-> EventIn(b, line), data |-> DataIn(b, line)]

\* The records of one more position.
OneMore(S, T, f, g, m, r) ==
  /\ m \in Nat /\ T = S \cup {m} /\ f[m] = r
  /\ \A i \in S : i \in Nat /\ i < m
  /\ \A i \in S : f[i] = g[i]

LEMMA SaidWith ==
  ASSUME NEW S, NEW T, NEW f, NEW g, NEW m, NEW r, OneMore(S, T, f, g, m, r)
  PROVE  Ordered(T, f) = Append(Ordered(S, g), r)
BY OrderedMore DEF OneMore

\* Only a blank line adds a record, the one that was open.
SaidMore(b, x, e) ==
  /\ x = "LF" /\ Line(OpenText(b)) = <<>> /\ Marked(b, <<>>) =>
       SseSaid(e) = Append(SseSaid(b), OpenRecord(b, <<>>))
  /\ ~ (x = "LF" /\ Line(OpenText(b)) = <<>> /\ Marked(b, <<>>)) => SseSaid(e) = SseSaid(b)

LEMMA SaidNext ==
  ASSUME NEW b \in Seq(Text), NEW x \in Text, NEW e, Longer(b, x, e)
  PROVE  SaidMore(b, x, e)
<1>1. PICK n \in Nat : n = Len(b)
  BY FeedsIn
<1>2. \A j \in Boundaries(b) : j \in 1 .. n /\ j \in Nat /\ j < n + 1
  BY <1>1, FeedsIn
<1>3. \A i \in 1 .. n : RecordAt(e, i) = RecordAt(b, i) /\ \A field : LinesOf(e, i, field) = LinesOf(b, i, field)
  BY <1>1, RecordStays
<1>4. \A j \in FullAt(b) : j \in Boundaries(b)
  BY DEF FullAt
<1> DEFINE f == [i \in FullAt(e) |-> RecordAt(e, i)]
           g == [i \in FullAt(b) |-> RecordAt(b, i)]
<1>5. SseSaid(e) = Ordered(FullAt(e), f) /\ SseSaid(b) = Ordered(FullAt(b), g)
  BY DEF SseSaid
<1>6. \A j \in Boundaries(b) : (\E field \in {"data:", "event:", "id:"} : LinesOf(e, j, field) # {}) <=>
                                (\E field \in {"data:", "event:", "id:"} : LinesOf(b, j, field) # {})
  BY <1>2, <1>3
<1>7. FullAt(e) = FullAt(b) => SseSaid(e) = SseSaid(b)
  <2>1. SUFFICES ASSUME FullAt(e) = FullAt(b) PROVE f = g
    BY <1>5
  <2>2. \A i \in FullAt(b) : RecordAt(e, i) = RecordAt(b, i)
    BY <1>2, <1>3, <1>4
  <2> QED BY <2>1, <2>2
<1>8. CASE ~ (x = "LF" /\ Line(OpenText(b)) = <<>>)
  <2>1. Boundaries(e) = Boundaries(b)
    BY <1>1, <1>8, BoundariesMore
  <2>2. FullAt(e) = FullAt(b)
    BY <1>6, <2>1 DEF FullAt
  <2> QED BY <1>7, <1>8, <2>2 DEF SaidMore
<1>9. CASE x = "LF" /\ Line(OpenText(b)) = <<>>
  <2>1. Boundaries(e) = Boundaries(b) \cup {n + 1}
    BY <1>1, <1>9, BoundariesMore
  <2>2. /\ \A field : LinesOf(e, n + 1, field) = Lines(b, <<>>, field)
        /\ RecordAt(e, n + 1) = OpenRecord(b, <<>>)
    BY <1>1, <1>9, BlankRead DEF OpenRecord
  <2>3. (\E field \in {"data:", "event:", "id:"} : LinesOf(e, n + 1, field) # {}) <=> Marked(b, <<>>)
    BY <2>2 DEF Marked
  <2>4. \A j : j \in FullAt(e) <=> j \in FullAt(b) \/ (j = n + 1 /\ Marked(b, <<>>))
    BY <1>6, <2>1, <2>3 DEF FullAt
  <2>5. CASE ~ Marked(b, <<>>)
    <3>1. FullAt(e) = FullAt(b)
      BY <2>4, <2>5
    <3> QED BY <1>7, <2>5, <3>1 DEF SaidMore
  <2>6. CASE Marked(b, <<>>)
    <3>1. FullAt(e) = FullAt(b) \cup {n + 1}
      BY <2>4, <2>6
    <3>2. \A i \in FullAt(b) : i \in Nat /\ i < n + 1 /\ f[i] = g[i]
      BY <1>2, <1>3, <1>4, <3>1
    <3>3. f[n + 1] = OpenRecord(b, <<>>)
      BY <2>2, <3>1
    <3> HIDE DEF f, g
    <3>4. Ordered(FullAt(e), f) = Append(Ordered(FullAt(b), g), OpenRecord(b, <<>>))
      <4>1. PICK m \in Nat : m = n + 1
        OBVIOUS
      <4>2. PICK T, S, r : T = FullAt(e) /\ S = FullAt(b) /\ r = OpenRecord(b, <<>>)
        OBVIOUS
      <4>3. OneMore(S, T, f, g, m, r)
        BY <3>1, <3>2, <3>3, <4>1, <4>2 DEF OneMore
      <4>4. Ordered(T, f) = Append(Ordered(S, g), r)
        BY <4>3, SaidWith
      <4> QED BY <4>2, <4>4
    <3> QED BY <1>5, <1>9, <2>6, <3>4 DEF SaidMore
  <2> QED BY <2>5, <2>6
<1> QED BY <1>8, <1>9

\* At its end the body says the open record too, if it has a field.
SaidAtEnd(b, line) ==
  /\ Marked(b, line) => SseRecords(b).records = Append(SseSaid(b), OpenRecord(b, line))
  /\ ~ Marked(b, line) => SseRecords(b).records = SseSaid(b)

LEMMA SaidAll ==
  ASSUME NEW b \in Seq(Text)
  PROVE  SaidAtEnd(b, OpenText(b))
<1>1. PICK n \in Nat : n = Len(b)
  BY FeedsIn
<1>2. \A j \in Boundaries(b) : j \in Nat /\ j < n + 1
  BY <1>1, FeedsIn
<1>3. PICK line : line = OpenText(b)
  OBVIOUS
<1>4. /\ \A field : LinesOf(b, n + 1, field) = Lines(b, line, field)
      /\ RecordAt(b, n + 1) = OpenRecord(b, line)
  BY <1>1, <1>3, RecordAtEnd DEF OpenRecord
<1> DEFINE full == {i \in Boundaries(b) \cup {n + 1} :
                      \E field \in {"data:", "event:", "id:"} : LinesOf(b, i, field) # {}}
           f == [i \in full |-> RecordAt(b, i)]
           g == [i \in FullAt(b) |-> RecordAt(b, i)]
<1>5. SseRecords(b).records = Ordered(full, f) /\ SseSaid(b) = Ordered(FullAt(b), g)
  BY <1>1 DEF SseRecords, SseSaid
<1>6. \A j \in FullAt(b) : j \in Nat /\ j < n + 1
  BY <1>2 DEF FullAt
<1>7. (\E field \in {"data:", "event:", "id:"} : LinesOf(b, n + 1, field) # {}) <=> Marked(b, line)
  BY <1>4 DEF Marked
<1>8. \A j : j \in full <=> j \in FullAt(b) \/ (j = n + 1 /\ Marked(b, line))
  BY <1>7 DEF FullAt
<1>9. CASE ~ Marked(b, line)
  <2>1. full = FullAt(b)
    <3> HIDE DEF full
    <3> QED BY <1>8, <1>9
  <2>2. f = g
    <3> HIDE DEF full
    <3> QED BY <2>1
  <2> HIDE DEF full, f, g
  <2> QED BY <1>3, <1>5, <1>9, <2>1, <2>2 DEF SaidAtEnd
<1>10. CASE Marked(b, line)
  <2>1. full = FullAt(b) \cup {n + 1}
    <3> HIDE DEF full
    <3> QED BY <1>8, <1>10
  <2>2. (\A i \in FullAt(b) : f[i] = g[i]) /\ f[n + 1] = RecordAt(b, n + 1)
    <3> HIDE DEF full
    <3> QED BY <2>1
  <2> HIDE DEF full, f, g
  <2>3. Ordered(full, f) = Append(Ordered(FullAt(b), g), OpenRecord(b, line))
    <3>1. PICK m \in Nat : m = n + 1
      OBVIOUS
    <3>2. PICK T, S, r : T = full /\ S = FullAt(b) /\ r = OpenRecord(b, line)
      OBVIOUS
    <3>3. OneMore(S, T, f, g, m, r)
      BY <1>4, <1>6, <2>1, <2>2, <3>1, <3>2 DEF OneMore
    <3>4. Ordered(T, f) = Append(Ordered(S, g), r)
      BY <3>3, SaidWith
    <3> QED BY <3>2, <3>4
  <2> QED BY <1>3, <1>5, <1>10, <2>3 DEF SaidAtEnd
<1> QED BY <1>9, <1>10

-----------------------------------------------------------------------------
(* The size of a record, and a byte of the body. *)

LastFeed(b) == LastBefore(Feeds(b), Len(b) + 1)
Charged(b, i) == i - LastBefore(Boundaries(b), i)
Broken(b) == \E i \in DOMAIN b : Charged(b, i) > MaxEvent

\* How much of the body belongs to the open record.
LEMMA OpenSize ==
  ASSUME NEW b \in Seq(Text), NEW n, n = Len(b)
  PROVE  /\ n \in Nat /\ RecordFrom(b) \in Nat /\ LastFeed(b) \in Nat
         /\ RecordFrom(b) <= LastFeed(b) /\ LastFeed(b) <= n
         /\ OpenText(b) \in Seq(Text) /\ Len(OpenText(b)) = n - LastFeed(b)
         /\ \A i \in Nat : LastFeed(b) < i /\ i <= n + 1 => LastBefore(Boundaries(b), i) = RecordFrom(b)
         /\ \A i \in 1 .. n : LastBefore(Boundaries(b), i) \in Nat
<1>1. n \in Nat /\ n + 1 \in Nat /\ n + 1 \in 1 .. n + 1
  BY FeedsIn
<1>2. /\ Feeds(b) \in SUBSET Nat /\ Boundaries(b) \in SUBSET Nat /\ Boundaries(b) \subseteq Feeds(b)
      /\ \A j \in Feeds(b) : j < n + 1
  BY <1>1, FeedsIn
<1>3. PICK l \in Nat : /\ l = LastFeed(b) /\ (l = 0 \/ (l \in Feeds(b) /\ l < n + 1))
                       /\ \A j \in Feeds(b) : j < n + 1 => j <= l
  BY <1>1, <1>2, LastBeforeIs DEF LastFeed
<1>4. PICK r \in Nat : /\ r = RecordFrom(b) /\ (r = 0 \/ (r \in Boundaries(b) /\ r < n + 1))
                       /\ \A j \in Boundaries(b) : j < n + 1 => j <= r
  BY <1>1, <1>2, LastBeforeIs DEF RecordFrom
<1>5. r <= l /\ l <= n
  BY <1>1, <1>2, <1>3, <1>4
<1>6. OpenText(b) \in Seq(Text) /\ Len(OpenText(b)) = n - l
  <2>1. TextBetween(b, n + 1, l)
    BY <1>1, <1>3, TextIs DEF LastFeed
  <2>2. n + 1 - 1 - l = n - l
    BY <1>1
  <2> QED BY <2>1, <2>2 DEF TextBetween, OpenText
<1>7. ASSUME NEW i \in Nat, l < i, i <= n + 1 PROVE LastBefore(Boundaries(b), i) = r
  <2>1. r = 0 \/ (r \in Boundaries(b) /\ r < i)
    BY <1>4, <1>5, <1>7
  <2>2. \A j \in Boundaries(b) : j < i => j <= r
    BY <1>2, <1>4
  <2> QED BY <1>2, <2>1, <2>2, LastBeforeOnly
<1>8. \A i \in 1 .. n : LastBefore(Boundaries(b), i) \in Nat
  <2>1. \A i \in 1 .. n : i \in Nat
    OBVIOUS
  <2> QED BY <1>2, <2>1, LastBeforeIs
<1> QED BY <1>1, <1>3, <1>4, <1>5, <1>6, <1>7, <1>8

\* A record that is too large stays too large.
LEMMA BrokenStays ==
  ASSUME NEW b \in Seq(Text), NEW x \in Text, NEW e, Longer(b, x, e), Broken(b)
  PROVE  Broken(e)
<1>1. PICK n \in Nat : n = Len(b) /\ DOMAIN b = 1 .. n
  BY FeedsIn
<1>2. e \in Seq(Text) /\ DOMAIN e = 1 .. n + 1
  BY <1>1, AppendIs
<1>3. PICK i \in 1 .. n : Charged(b, i) > MaxEvent
  BY <1>1 DEF Broken
<1>4. i \in 1 .. n + 1
  BY <1>1
<1>5. LastBefore(Boundaries(e), i) = LastBefore(Boundaries(b), i)
  BY <1>1, <1>4, BoundariesMore
<1>6. Charged(e, i) > MaxEvent
  BY <1>3, <1>5 DEF Charged
<1> QED BY <1>2, <1>4, <1>6 DEF Broken

\* The lines that were read fit in their records.
LinesFit(b) == \A i \in 1 .. LastFeed(b) : Charged(b, i) <= MaxEvent

\* The body is broken exactly if a line that was read or the open one does not fit.
LEMMA BrokenIs ==
  ASSUME NEW b \in Seq(Text), MaxEvent \in Nat, NEW n, n = Len(b), LinesFit(b)
  PROVE  Broken(b) <=> n - RecordFrom(b) > MaxEvent
<1>1. DOMAIN b = 1 .. n /\ n \in Nat
  BY FeedsIn
<1>2. PICK r \in Nat, l \in Nat : r = RecordFrom(b) /\ l = LastFeed(b)
  BY OpenSize
<1>3. r <= l /\ l <= n /\ \A i \in Nat : l < i /\ i <= n + 1 => LastBefore(Boundaries(b), i) = r
  BY <1>2, OpenSize
<1>4. ASSUME n - r > MaxEvent PROVE Broken(b)
  <2>1. CASE l < n
    <3>1. n \in 1 .. n /\ n <= n + 1
      BY <1>1, <1>2, <2>1
    <3>2. Charged(b, n) = n - r
      BY <1>1, <1>3, <2>1, <3>1 DEF Charged
    <3> QED BY <1>1, <1>4, <3>1, <3>2 DEF Broken
  <2>2. CASE l = n
    <3>1. n \in 1 .. l
      BY <1>1, <1>2, <1>4, <2>2
    <3>2. PICK c \in Nat : c = LastBefore(Boundaries(b), n) /\ c <= r
      <4>1. Boundaries(b) \in SUBSET Nat
        BY FeedsIn
      <4>2. PICK c \in Nat : /\ c = LastBefore(Boundaries(b), n)
                             /\ c = 0 \/ (c \in Boundaries(b) /\ c < n)
        BY <1>1, <4>1, LastBeforeIs
      <4>3. \A j \in Boundaries(b) : j < n + 1 => j <= r
        <5>1. n + 1 \in Nat
          BY <1>1
        <5> QED BY <1>2, <4>1, <5>1, LastBeforeIs DEF RecordFrom
      <4>4. c <= r
        BY <1>1, <1>2, <4>2, <4>3
      <4> QED BY <4>2, <4>4
    <3>3. n - c <= MaxEvent
      BY <1>2, <3>1, <3>2 DEF LinesFit, Charged
    <3> QED BY <1>1, <1>2, <1>4, <3>2, <3>3
  <2> QED BY <1>1, <1>2, <1>3, <2>1, <2>2
<1>5. ASSUME Broken(b) PROVE n - r > MaxEvent
  <2>1. PICK i \in 1 .. n : Charged(b, i) > MaxEvent
    BY <1>1, <1>5 DEF Broken
  <2>2. PICK c \in Nat : c = LastBefore(Boundaries(b), i) /\ i - c > MaxEvent
    BY <2>1, OpenSize DEF Charged
  <2>3. ~ (i <= l)
    <3>1. SUFFICES ASSUME i <= l PROVE FALSE
      OBVIOUS
    <3>2. i \in 1 .. l
      BY <1>1, <1>2, <2>1, <3>1
    <3>3. i - c <= MaxEvent
      BY <1>2, <2>2, <3>2 DEF LinesFit, Charged
    <3> QED BY <2>1, <2>2, <3>3
  <2>4. c = r
    BY <1>1, <1>2, <1>3, <2>1, <2>2, <2>3
  <2> QED BY <1>1, <1>2, <2>1, <2>2, <2>4
<1> QED BY <1>2, <1>4, <1>5

\* A parser that has read a body, with what it has said so far.
SseAt(b, p, said) ==
  /\ p \in SseParser /\ p.failed = FALSE /\ p.buffer = OpenText(b)
  /\ p.bytes = LastFeed(b) - RecordFrom(b) /\ FieldsRead(b, <<>>, p)
  /\ said \o p.out = SseSaid(b) /\ LinesFit(b)

\* The bytes of the parser are the open record's.
LEMMA OpenBytes ==
  ASSUME NEW b \in Seq(Text), NEW p, NEW said, SseAt(b, p, said), NEW n, n = Len(b)
  PROVE  p.bytes + Len(p.buffer) = n - RecordFrom(b) /\ p.bytes \in Nat /\ Len(p.buffer) \in Nat
<1>1. PICK r \in Nat, l \in Nat : r = RecordFrom(b) /\ l = LastFeed(b)
  BY OpenSize
<1>2. r <= l /\ l <= n /\ n \in Nat /\ Len(OpenText(b)) = n - l
  BY <1>1, OpenSize
<1>3. p.bytes = l - r /\ Len(p.buffer) = n - l
  BY <1>1, <1>2 DEF SseAt
<1> QED BY <1>1, <1>2, <1>3

LEMMA FitMore ==
  ASSUME NEW b \in Seq(Text), NEW x \in Text, NEW e, Longer(b, x, e), MaxEvent \in Nat,
         NEW n, n = Len(b), LinesFit(b)
  PROVE  /\ x # "LF" => LinesFit(e) /\ LastFeed(e) = LastFeed(b)
         /\ x = "LF" /\ n + 1 - RecordFrom(b) <= MaxEvent => LinesFit(e)
         /\ x = "LF" /\ n + 1 - RecordFrom(b) > MaxEvent => Broken(e)
         /\ x = "LF" => LastFeed(e) = n + 1
<1>1. PICK r \in Nat, l \in Nat : r = RecordFrom(b) /\ l = LastFeed(b)
  BY OpenSize
<1>2. /\ r <= l /\ l <= n /\ n \in Nat
      /\ \A i \in Nat : l < i /\ i <= n + 1 => LastBefore(Boundaries(b), i) = r
  BY <1>1, OpenSize
<1>3. e \in Seq(Text) /\ Len(e) = n + 1 /\ DOMAIN e = 1 .. n + 1
  BY AppendIs
<1>4. Len(e) + 1 = n + 2
  BY <1>2, <1>3
<1>5. /\ x = "LF" => LastFeed(e) = n + 1
      /\ x # "LF" => LastFeed(e) = l
  BY <1>1, <1>4, TextNext DEF LastFeed
<1>6. \A i \in 1 .. n + 1 : Charged(e, i) = Charged(b, i)
  BY BoundariesMore DEF Charged
<1>7. \A i \in 1 .. l : Charged(e, i) <= MaxEvent
  <2>1. \A i \in 1 .. l : i \in 1 .. n + 1
    BY <1>1, <1>2
  <2> QED BY <1>1, <1>6, <2>1 DEF LinesFit
<1>8. \A i \in 1 .. n + 1 : ~ (i <= l) => Charged(e, i) = i - r
  <2>1. ASSUME NEW i \in 1 .. n + 1, ~ (i <= l) PROVE Charged(e, i) = i - r
    <3>1. i \in Nat /\ l < i /\ i <= n + 1
      BY <1>1, <1>2, <2>1
    <3> QED BY <1>2, <1>6, <3>1 DEF Charged
  <2> QED BY <2>1
<1>9. ASSUME x # "LF" PROVE LinesFit(e)
  BY <1>5, <1>7, <1>9 DEF LinesFit
<1>10. ASSUME x = "LF", n + 1 - r <= MaxEvent PROVE LinesFit(e)
  <2>1. ASSUME NEW i \in 1 .. n + 1 PROVE Charged(e, i) <= MaxEvent
    <3>1. CASE i <= l
      <4>1. i \in 1 .. l
        BY <1>1, <1>2, <2>1, <3>1
      <4> QED BY <1>7, <4>1
    <3>2. CASE ~ (i <= l)
      <4>1. Charged(e, i) = i - r
        BY <1>8, <2>1, <3>2
      <4> QED BY <1>1, <1>2, <1>10, <2>1, <4>1
    <3> QED BY <3>1, <3>2
  <2> QED BY <1>5, <1>10, <2>1 DEF LinesFit
<1>11. ASSUME n + 1 - r > MaxEvent PROVE Broken(e)
  <2>1. n + 1 \in 1 .. n + 1 /\ ~ (n + 1 <= l)
    BY <1>1, <1>2
  <2>2. Charged(e, n + 1) = n + 1 - r
    BY <1>8, <2>1
  <2> QED BY <1>3, <1>11, <2>1, <2>2 DEF Broken
<1> QED BY <1>1, <1>5, <1>9, <1>10, <1>11

\* A byte of a line is put into the open one.
LEMMA LetterRead ==
  ASSUME NEW b \in Seq(Text), NEW x \in Text, NEW e, Longer(b, x, e), MaxEvent \in Nat, x # "LF",
         NEW p, NEW said, SseAt(b, p, said), NEW next, next = TakeByte(p, x)
  PROVE  SseAt(e, next, said)
<1>1. PICK n \in Nat : n = Len(b)
  BY FeedsIn
<1>2. e \in Seq(Text) /\ Len(e) + 1 = n + 2
  BY <1>1, AppendIs
<1>3. p \in SseParser /\ p.failed = FALSE /\ p.buffer \in Seq(Text)
  BY DEF SseAt, SseParser
<1>4. PICK t \in Seq(Text) : t = Append(p.buffer, x)
  <2>1. PICK s \in Seq(Text) : s = p.buffer
    BY <1>3
  <2>2. Append(s, x) \in Seq(Text)
    OBVIOUS
  <2> QED BY <2>1, <2>2
<1>5. next = [p EXCEPT !.buffer = t]
  BY <1>3, <1>4 DEF TakeByte
<1>6. /\ next \in SseParser /\ next.buffer = t /\ next.failed = p.failed /\ next.bytes = p.bytes
      /\ next.data = p.data /\ next.event = p.event /\ next.id = p.id /\ next.out = p.out
  BY <1>3, <1>5 DEF SseParser
<1>7. t = OpenText(e)
  <2>1. TextAt(e, n + 2) = Append(TextAt(b, n + 1), x)
    BY <1>1, TextNext
  <2> QED BY <1>1, <1>2, <1>4, <2>1 DEF OpenText, SseAt
<1>8. LinesFit(e) /\ LastFeed(e) = LastFeed(b)
  BY <1>1, FitMore DEF SseAt
<1>9. RecordFrom(e) = RecordFrom(b)
  BY <1>1, BoundariesMore
<1>10. /\ \A field : Lines(e, <<>>, field) = Lines(b, <<>>, field)
       /\ DataIn(e, <<>>) = DataIn(b, <<>>) /\ EventIn(e, <<>>) = EventIn(b, <<>>)
  BY <1>1, LinesRead
<1>11. FieldsRead(e, <<>>, next)
  BY <1>6, <1>10 DEF FieldsRead, SseAt
<1>12. SseSaid(e) = SseSaid(b)
  BY SaidNext DEF SaidMore
<1> QED BY <1>3, <1>6, <1>7, <1>8, <1>9, <1>11, <1>12 DEF SseAt

\* A line feed charges the line to its record before the line is read.
LEMMA FeedCharged ==
  ASSUME NEW b \in Seq(Text), MaxEvent \in Nat, NEW p, NEW said, SseAt(b, p, said),
         NEW n, n = Len(b)
  PROVE  /\ n + 1 - RecordFrom(b) > MaxEvent => TakeByte(p, "LF").failed
         /\ n + 1 - RecordFrom(b) <= MaxEvent =>
              \E q : /\ TakeByte(p, "LF") = HandleLine(q, Line(OpenText(b)))
                     /\ q \in SseParser /\ q.buffer = <<>> /\ q.failed = FALSE
                     /\ q.bytes = n + 1 - RecordFrom(b) /\ q.out = p.out /\ FieldsRead(b, <<>>, q)
<1>1. PICK c \in Nat, k \in Nat, r \in Nat :
         /\ c = p.bytes /\ k = Len(p.buffer) /\ r = RecordFrom(b) /\ c + k = n - r /\ n \in Nat
  <2>1. p.bytes + Len(p.buffer) = n - RecordFrom(b) /\ p.bytes \in Nat /\ Len(p.buffer) \in Nat
    BY OpenBytes
  <2>2. n \in Nat /\ RecordFrom(b) \in Nat
    BY OpenSize
  <2> QED BY <2>1, <2>2
<1>2. p \in SseParser /\ p.failed = FALSE /\ p.buffer = OpenText(b)
  BY DEF SseAt
<1>3. c + (k + 1) = n + 1 - r /\ c + (k + 1) \in Nat
  <2>1. c + k = n - r /\ n \in Nat
    BY <1>1
  <2> QED BY <2>1
<1> DEFINE charged == ChargeLine(p, k + 1)
<1>4. TakeByte(p, "LF") = IF charged.failed THEN charged
                          ELSE HandleLine([charged EXCEPT !.buffer = <<>>], Line(OpenText(b)))
  BY <1>1, <1>2 DEF TakeByte
<1>5. ASSUME n + 1 - r > MaxEvent PROVE TakeByte(p, "LF").failed
  <2>1. c + (k + 1) > MaxEvent
    BY <1>3, <1>5
  <2>2. charged = [p EXCEPT !.failed = TRUE]
    BY <1>1, <2>1 DEF ChargeLine, Fail
  <2>3. charged.failed = TRUE
    BY <1>2, <2>2 DEF SseParser
  <2> HIDE DEF charged
  <2> QED BY <1>4, <2>3
<1>6. ASSUME n + 1 - r <= MaxEvent
      PROVE  \E q : /\ TakeByte(p, "LF") = HandleLine(q, Line(OpenText(b)))
                    /\ q \in SseParser /\ q.buffer = <<>> /\ q.failed = FALSE
                    /\ q.bytes = n + 1 - r /\ q.out = p.out /\ FieldsRead(b, <<>>, q)
  <2>1. ~ (c + (k + 1) > MaxEvent)
    BY <1>3, <1>6
  <2>2. PICK a \in Nat : a = c + (k + 1)
    BY <1>3
  <2>3. charged = [p EXCEPT !.bytes = a]
    BY <1>1, <2>1, <2>2 DEF ChargeLine
  <2>4. /\ charged \in SseParser /\ charged.failed = p.failed /\ charged.bytes = a
        /\ charged.data = p.data /\ charged.event = p.event /\ charged.id = p.id /\ charged.out = p.out
    <3> HIDE DEF charged
    <3> QED BY <1>2, <2>3 DEF SseParser
  <2> HIDE DEF charged
  <2>5. PICK z \in Seq(Text) : z = <<>>
    <3>1. <<>> \in Seq(Text)
      OBVIOUS
    <3> QED BY <3>1
  <2>6. PICK q : q = [charged EXCEPT !.buffer = z]
    OBVIOUS
  <2>7. /\ q \in SseParser /\ q.failed = charged.failed /\ q.bytes = charged.bytes /\ q.buffer = z
        /\ q.data = charged.data /\ q.event = charged.event /\ q.id = charged.id /\ q.out = charged.out
    BY <2>4, <2>6 DEF SseParser
  <2>8. TakeByte(p, "LF") = HandleLine(q, Line(OpenText(b)))
    BY <1>2, <1>4, <2>4, <2>5, <2>6
  <2>9. FieldsRead(b, <<>>, q)
    BY <2>4, <2>7 DEF FieldsRead, SseAt
  <2>10. q.bytes = n + 1 - r
    BY <1>3, <2>2, <2>4, <2>7
  <2> QED BY <1>2, <2>4, <2>5, <2>7, <2>8, <2>9, <2>10
<1> QED BY <1>1, <1>5, <1>6

\* The line without its return.
LEMMA LineIn ==
  ASSUME NEW t \in Seq(Text)
  PROVE  Line(t) \in Seq(Text)
<1>1. CASE t # <<>> /\ Last(t) = "CR"
  <2>1. Front(t) \in Seq(Text)
    BY <1>1 DEF Front
  <2> QED BY <1>1, <2>1 DEF Line
<1> QED BY <1>1 DEF Line

\* A line feed ends a line, or a record, or fails for its size.
LEMMA FeedRead ==
  ASSUME NEW b \in Seq(Text), NEW e, Longer(b, "LF", e), MaxEvent \in Nat, "LF" \in Text,
         NEW p, NEW said \in Seq(SseRecord), SseAt(b, p, said), NEW next, next = TakeByte(p, "LF")
  PROVE  (next.failed /\ Broken(e)) \/ SseAt(e, next, said)
<1>1. PICK n \in Nat : n = Len(b)
  BY FeedsIn
<1>2. e \in Seq(Text) /\ Len(e) = n + 1 /\ Len(e) + 1 = n + 2
  <2>1. e \in Seq(Text) /\ Len(e) = n + 1
    BY <1>1, AppendIs
  <2> QED BY <1>1, <2>1
<1>3. PICK r \in Nat : r = RecordFrom(b)
  BY OpenSize
<1>4. CASE n + 1 - r > MaxEvent
  <2>1. next.failed
    BY <1>1, <1>3, <1>4, FeedCharged
  <2>2. Broken(e)
    BY <1>1, <1>3, <1>4, FitMore DEF SseAt
  <2> QED BY <2>1, <2>2
<1>5. CASE n + 1 - r <= MaxEvent
  <2>1. PICK q : /\ next = HandleLine(q, Line(OpenText(b)))
                 /\ q \in SseParser /\ q.buffer = <<>> /\ q.failed = FALSE
                 /\ q.bytes = n + 1 - r /\ q.out = p.out /\ FieldsRead(b, <<>>, q)
    BY <1>1, <1>3, <1>5, FeedCharged
  <2>2. PICK line \in Seq(Text) : line = Line(OpenText(b))
    BY OpenSize, LineIn
  <2>3. LinesFit(e) /\ LastFeed(e) = n + 1
    BY <1>1, <1>3, <1>5, FitMore DEF SseAt
  <2>4. OpenText(e) = <<>>
    BY <1>1, <1>2, TextNext DEF OpenText
  <2>5. SaidMore(b, "LF", e)
    BY SaidNext
  <2>6. CASE line # <<>>
    <3>1. /\ next \in SseParser /\ FieldsRead(b, line, next)
          /\ next.buffer = q.buffer /\ next.bytes = q.bytes /\ next.out = q.out /\ next.failed = q.failed
      BY <2>1, <2>2, <2>6, HandleLineIs
    <3>2. /\ \A field : Lines(e, <<>>, field) = Lines(b, line, field)
          /\ DataIn(e, <<>>) = DataIn(b, line) /\ EventIn(e, <<>>) = EventIn(b, line)
      BY <1>1, <2>2, <2>6, LinesRead
    <3>3. FieldsRead(e, <<>>, next)
      BY <3>1, <3>2 DEF FieldsRead
    <3>4. RecordFrom(e) = r
      BY <1>1, <1>3, <2>2, <2>6, BoundariesMore
    <3>5. SseSaid(e) = SseSaid(b)
      BY <2>2, <2>5, <2>6 DEF SaidMore
    <3>6. said \o next.out = SseSaid(e)
      BY <2>1, <3>1, <3>5 DEF SseAt
    <3>7. next.bytes = LastFeed(e) - RecordFrom(e)
      BY <2>1, <2>3, <3>1, <3>4
    <3>8. next.buffer = OpenText(e) /\ next.failed = FALSE
      BY <2>1, <2>4, <3>1
    <3> QED BY <2>3, <3>1, <3>3, <3>6, <3>7, <3>8 DEF SseAt
  <2>7. CASE line = <<>>
    <3>1. next = FlushPending(q)
      BY <2>1, <2>2, <2>7 DEF HandleLine
    <3>2. /\ next \in SseParser
          /\ next.data = <<>> /\ next.event = <<>> /\ ~ next.id /\ next.bytes = 0
          /\ next.buffer = q.buffer /\ next.failed = q.failed
          /\ Marked(b, <<>>) => next.out = Append(q.out, OpenRecord(b, <<>>))
          /\ ~ Marked(b, <<>>) => next.out = q.out
      <4>1. PICK z : z = <<>>
        OBVIOUS
      <4>2. FieldsRead(b, z, q)
        BY <2>1, <4>1
      <4>3. /\ next \in SseParser
            /\ next.data = <<>> /\ next.event = <<>> /\ ~ next.id /\ next.bytes = 0
            /\ next.buffer = q.buffer /\ next.failed = q.failed
            /\ Marked(b, z) => next.out = Append(q.out, [event |-> EventIn(b, z), data |-> DataIn(b, z)])
            /\ ~ Marked(b, z) => next.out = q.out
        BY <2>1, <3>1, <4>2, FlushIs, SMTT(40)
      <4> QED BY <4>1, <4>3 DEF OpenRecord
    <3>3. \A field : Lines(e, <<>>, field) = {}
      BY <1>1, <2>2, <2>7, BlankRead
    <3>4. FieldsRead(e, <<>>, next)
      <4>1. DataIn(e, <<>>) = <<>> /\ EventIn(e, <<>>) = <<>>
        BY <1>2, <3>3, FieldsThere
      <4> QED BY <3>2, <3>3, <4>1 DEF FieldsRead
    <3>5. RecordFrom(e) = n + 1
      BY <1>1, <2>2, <2>7, BoundariesMore
    <3>6. said \o next.out = SseSaid(e)
      <4>1. PICK o \in Seq(SseRecord) : o = p.out /\ said \o o = SseSaid(b)
        BY DEF SseAt, SseParser
      <4>2. CASE ~ Marked(b, <<>>)
        BY <2>1, <2>5, <3>2, <4>1, <4>2 DEF SaidMore
      <4>3. CASE Marked(b, <<>>)
        <5>1. PICK k \in SseRecord : k = OpenRecord(b, <<>>)
          <6>1. q.event = EventIn(b, <<>>) /\ q.data = DataIn(b, <<>>)
            BY <2>1 DEF FieldsRead
          <6> QED BY <2>1, <6>1 DEF SseParser, SseRecord, OpenRecord
        <5>2. said \o Append(o, k) = Append(said \o o, k)
          OBVIOUS
        <5>3. SseSaid(e) = Append(SseSaid(b), OpenRecord(b, <<>>))
          BY <2>2, <2>5, <2>7, <4>3 DEF SaidMore
        <5> QED BY <2>1, <3>2, <4>1, <4>3, <5>1, <5>2, <5>3
      <4> QED BY <4>2, <4>3
    <3>7. next.bytes = LastFeed(e) - RecordFrom(e)
      BY <1>1, <2>3, <3>2, <3>5
    <3> QED BY <2>1, <2>3, <2>4, <3>2, <3>4, <3>6, <3>7 DEF SseAt
  <2> QED BY <2>6, <2>7
<1> QED BY <1>1, <1>3, <1>4, <1>5

-----------------------------------------------------------------------------
(* A chunk of server-sent events. *)

\* One sequence begins another.
Begins(s, t) ==
  \E V : s \in Seq(V) /\ t \in Seq(V) /\ Len(s) <= Len(t) /\ \A i \in 1 .. Len(s) : s[i] = t[i]

LEMMA WiderSeq ==
  ASSUME NEW V, NEW W, V \subseteq W, NEW s \in Seq(V)
  PROVE  s \in Seq(W)
OBVIOUS

LEMMA BeginsMore ==
  ASSUME NEW s, NEW t, Begins(s, t), NEW r
  PROVE  Begins(s, Append(t, r))
<1>1. PICK V : s \in Seq(V) /\ t \in Seq(V) /\ Len(s) <= Len(t) /\ \A i \in 1 .. Len(s) : s[i] = t[i]
  BY DEF Begins
<1>2. PICK W : V \subseteq W /\ r \in W
  <2>1. V \subseteq V \cup {r} /\ r \in V \cup {r}
    OBVIOUS
  <2> QED BY <2>1
<1>3. s \in Seq(W) /\ t \in Seq(W)
  BY <1>1, <1>2, WiderSeq
<1>4. /\ Append(t, r) \in Seq(W) /\ Len(Append(t, r)) = Len(t) + 1 /\ Len(t) \in Nat /\ Len(s) \in Nat
      /\ \A i \in 1 .. Len(t) : Append(t, r)[i] = t[i]
  BY <1>2, <1>3
<1>5. PICK u : u = Append(t, r)
  OBVIOUS
<1>6. Len(s) <= Len(u) /\ \A i \in 1 .. Len(s) : s[i] = u[i]
  <2>1. \A i \in 1 .. Len(s) : i \in 1 .. Len(t)
    BY <1>1, <1>4
  <2> QED BY <1>1, <1>4, <1>5, <2>1
<1> QED BY <1>3, <1>4, <1>5, <1>6 DEF Begins

LEMMA BeginsJoin ==
  ASSUME NEW V, NEW s \in Seq(V), NEW t \in Seq(V)
  PROVE  Begins(s, s \o t)
<1>1. /\ s \o t \in Seq(V) /\ Len(s \o t) = Len(s) + Len(t) /\ Len(s) \in Nat /\ Len(t) \in Nat
      /\ \A i \in 1 .. Len(s) : (s \o t)[i] = s[i]
  OBVIOUS
<1>2. PICK u : u = s \o t
  OBVIOUS
<1>3. u \in Seq(V) /\ Len(s) <= Len(u) /\ \A i \in 1 .. Len(s) : s[i] = u[i]
  BY <1>1, <1>2
<1> QED BY <1>2, <1>3 DEF Begins

LEMMA BeginsIs ==
  ASSUME NEW s, NEW t, Begins(s, t)
  PROVE  IsPrefix(s, t)
<1>1. PICK V : s \in Seq(V) /\ t \in Seq(V) /\ Len(s) <= Len(t) /\ \A i \in 1 .. Len(s) : s[i] = t[i]
  BY DEF Begins
<1>2. PICK n \in Nat : n = Len(s) /\ n <= Len(t) /\ Len(t) \in Nat
  BY <1>1, BytesIn
<1>3. 1 \in Nat /\ 1 <= 1 /\ 1 <= n + 1 /\ n <= Len(s) /\ n <= Len(t) /\ n - 1 + 1 = n
  BY <1>2
<1>4. /\ SubSeq(s, 1, n) \in Seq(V) /\ Len(SubSeq(s, 1, n)) = n - 1 + 1
      /\ \A k \in 1 .. n - 1 + 1 : SubSeq(s, 1, n)[k] = s[1 + k - 1]
  BY <1>1, <1>2, <1>3, CutIs
<1>5. /\ SubSeq(t, 1, n) \in Seq(V) /\ Len(SubSeq(t, 1, n)) = n - 1 + 1
      /\ \A k \in 1 .. n - 1 + 1 : SubSeq(t, 1, n)[k] = t[1 + k - 1]
  BY <1>1, <1>2, <1>3, CutIs
<1>6. \A k \in 1 .. n : 1 + k - 1 = k
  OBVIOUS
<1>7. SubSeq(s, 1, n) = SubSeq(t, 1, n)
  <2>1. PICK u \in Seq(V), v \in Seq(V) : u = SubSeq(s, 1, n) /\ v = SubSeq(t, 1, n)
    BY <1>4, <1>5
  <2>2. Len(u) = Len(v) /\ \A k \in 1 .. Len(u) : u[k] = v[k]
    BY <1>1, <1>2, <1>3, <1>4, <1>5, <1>6, <2>1
  <2> QED BY <2>1, <2>2, SameSeq
<1> QED BY <1>2, <1>7 DEF IsPrefix

\* A body cut behind each byte of the last chunk.
Cut(e, k) == SubSeq(e, 1, k)

CutBehind(e, n, chunk, i) ==
  /\ Cut(e, n + i) \in Seq(Text) /\ chunk[i + 1] \in Text
  /\ Longer(Cut(e, n + i), chunk[i + 1], Cut(e, n + i + 1))

Joined(b, chunk, e) == e = b \o chunk

Cuts(b, chunk, e, n, c) ==
  /\ n \in Nat /\ e \in Seq(Text) /\ Len(e) = n + c
  /\ Cut(e, n) = b /\ Cut(e, n + c) = e
  /\ \A i \in 0 .. c - 1 : CutBehind(e, n, chunk, i)

LEMMA CutsOf ==
  ASSUME NEW b \in Seq(Text), NEW chunk \in Seq(Text), NEW e, Joined(b, chunk, e),
         NEW n, n = Len(b), NEW c \in Nat, c = Len(chunk)
  PROVE  Cuts(b, chunk, e, n, c)
<1>1. c = Len(chunk)
  OBVIOUS
<1>2. /\ n \in Nat /\ e \in Seq(Text) /\ Len(e) = n + c
      /\ (\A i \in 1 .. n : e[i] = b[i]) /\ \A i \in 1 .. c : e[n + i] = chunk[i]
  BY <1>1 DEF Joined
<1>3. ASSUME NEW k \in 0 .. n + c
      PROVE  Cut(e, k) \in Seq(Text) /\ Len(Cut(e, k)) = k /\ \A i \in 1 .. k : Cut(e, k)[i] = e[i]
  <2>1. k \in Nat /\ 1 \in Nat /\ 1 <= 1 /\ 1 <= k + 1 /\ k <= Len(e) /\ k - 1 + 1 = k
    BY <1>1, <1>2, <1>3
  <2>2. /\ SubSeq(e, 1, k) \in Seq(Text) /\ Len(SubSeq(e, 1, k)) = k - 1 + 1
        /\ \A i \in 1 .. k - 1 + 1 : SubSeq(e, 1, k)[i] = e[1 + i - 1]
    BY <1>2, <2>1, CutIs
  <2>3. \A i \in 1 .. k : 1 + i - 1 = i
    BY <2>1
  <2> QED BY <2>1, <2>2, <2>3 DEF Cut
<1>4. Cut(e, n) = b
  <2>1. n \in 0 .. n + c
    BY <1>1, <1>2
  <2>2. PICK u \in Seq(Text) : u = Cut(e, n) /\ Len(u) = n /\ \A i \in 1 .. n : u[i] = e[i]
    BY <1>3, <2>1
  <2>3. u = b
    BY <1>2, <2>2, SameSeq
  <2> QED BY <2>2, <2>3
<1>5. Cut(e, n + c) = e
  <2>1. n + c \in 0 .. n + c
    BY <1>1, <1>2
  <2>2. PICK u \in Seq(Text) : u = Cut(e, n + c) /\ Len(u) = n + c /\ \A i \in 1 .. n + c : u[i] = e[i]
    BY <1>3, <2>1
  <2>3. u = e
    BY <1>2, <2>2, SameSeq
  <2> QED BY <2>2, <2>3
<1>6. ASSUME NEW i \in 0 .. c - 1 PROVE CutBehind(e, n, chunk, i)
  <2>1. n + i \in 0 .. n + c /\ n + i + 1 \in 0 .. n + c /\ i + 1 \in 1 .. c /\ n + (i + 1) = n + i + 1
    BY <1>1, <1>2, <1>6
  <2>2. PICK k \in Nat : k = n + i
    BY <1>1, <1>2, <1>6
  <2>3. PICK x \in Text : x = chunk[i + 1] /\ e[k + 1] = x
    <3>1. chunk[i + 1] \in Text /\ e[n + (i + 1)] = chunk[i + 1]
      BY <1>1, <1>2, <2>1, BytesIn
    <3> QED BY <2>1, <2>2, <3>1
  <2>4. PICK u \in Seq(Text) : u = Cut(e, k) /\ Len(u) = k /\ \A j \in 1 .. k : u[j] = e[j]
    BY <1>3, <2>1, <2>2
  <2>5. PICK v \in Seq(Text) : v = Cut(e, k + 1) /\ Len(v) = k + 1 /\ \A j \in 1 .. k + 1 : v[j] = e[j]
    BY <1>3, <2>1, <2>2
  <2>6. v = Append(u, x)
    <3>1. PICK w \in Seq(Text) : /\ w = Append(u, x) /\ Len(w) = k + 1 /\ w[k + 1] = x
                                 /\ \A j \in 1 .. k : w[j] = u[j]
      <4>1. /\ Append(u, x) \in Seq(Text) /\ Len(Append(u, x)) = k + 1 /\ Append(u, x)[k + 1] = x
            /\ \A j \in 1 .. k : Append(u, x)[j] = u[j]
        BY <2>4, SMTT(40)
      <4> QED BY <4>1
    <3>2. \A j \in 1 .. k + 1 : j \in 1 .. k \/ j = k + 1
      OBVIOUS
    <3>3. \A j \in 1 .. k + 1 : v[j] = w[j]
      BY <2>3, <2>4, <2>5, <3>1, <3>2
    <3>4. v = w
      BY <2>5, <3>1, <3>3, SameSeq
    <3> QED BY <3>1, <3>4
  <2> QED BY <2>2, <2>3, <2>4, <2>5, <2>6 DEF Longer, CutBehind
<1> QED BY <1>2, <1>4, <1>5, <1>6 DEF Cuts

\* One byte more.
LEMMA ByteRead ==
  ASSUME NEW b \in Seq(Text), NEW x \in Text, NEW e, Longer(b, x, e), MaxEvent \in Nat,
         NEW p, NEW said \in Seq(SseRecord), NEW next, next = TakeByte(p, x),
         Begins(said, SseSaid(b)), (p.failed /\ Broken(b)) \/ SseAt(b, p, said)
  PROVE  /\ Begins(said, SseSaid(e))
         /\ (next.failed /\ Broken(e)) \/ SseAt(e, next, said)
<1>1. Begins(said, SseSaid(e))
  <2>1. SaidMore(b, x, e)
    BY SaidNext
  <2>2. PICK t : t = SseSaid(b)
    OBVIOUS
  <2>3. PICK r : r = OpenRecord(b, <<>>)
    OBVIOUS
  <2>4. Begins(said, Append(t, r))
    BY <2>2, BeginsMore
  <2> QED BY <2>1, <2>2, <2>3, <2>4 DEF SaidMore
<1>2. CASE p.failed /\ Broken(b)
  <2>1. next = p
    BY <1>2 DEF TakeByte
  <2>2. Broken(e)
    BY <1>2, BrokenStays
  <2> QED BY <1>1, <1>2, <2>1, <2>2
<1>3. CASE SseAt(b, p, said)
  <2>1. CASE x # "LF"
    BY <1>1, <1>3, <2>1, LetterRead
  <2>2. CASE x = "LF"
    BY <1>1, <1>3, <2>2, FeedRead
  <2> QED BY <2>1, <2>2
<1> QED BY <1>2, <1>3

\* EnforceCap refuses what does not fit.
LEMMA CapIs ==
  ASSUME NEW b \in Seq(Text), MaxEvent \in Nat, NEW p, NEW said, SseAt(b, p, said)
  PROVE  /\ Broken(b) => EnforceCap(p) = Fail(p) /\ EnforceCap(p).failed = TRUE
         /\ ~ Broken(b) => EnforceCap(p) = p /\ EnforceCap(p).failed = FALSE
<1>1. PICK n \in Nat : n = Len(b)
  BY FeedsIn
<1>2. p.bytes + Len(p.buffer) = n - RecordFrom(b)
  BY <1>1, OpenBytes
<1>3. Broken(b) <=> n - RecordFrom(b) > MaxEvent
  BY <1>1, BrokenIs DEF SseAt
<1>4. Fail(p).failed = TRUE
  <2>1. p \in SseParser
    BY DEF SseAt
  <2> QED BY <2>1 DEF SseParser, Fail
<1> QED BY <1>2, <1>3, <1>4 DEF EnforceCap, SseAt

\* A chunk: the records it completes, or a record that does not fit.
LEMMA ChunkRead ==
  ASSUME NEW b \in Seq(Text), NEW chunk \in Seq(Text), NEW e, Joined(b, chunk, e), MaxEvent \in Nat,
         NEW p, NEW said \in Seq(SseRecord), SseAt(b, p, said), NEW next, next = SseFeed(p, chunk)
  PROVE  /\ Begins(said, SseSaid(e))
         /\ \/ next.failed = TRUE /\ Broken(e)
            \/ next.failed = FALSE /\ ~ Broken(e) /\ SseAt(e, next, said)
<1>1. PICK n \in Nat, c \in Nat : n = Len(b) /\ c = Len(chunk)
  BY BytesIn
<1>2. PICK g : Turns(g, "sse", chunk, p, c) /\ next = EnforceCap(g[c])
  BY <1>1, SseFeedIs
<1>3. /\ e \in Seq(Text) /\ Cut(e, n) = b /\ Cut(e, n + c) = e
      /\ \A i \in 0 .. c - 1 : CutBehind(e, n, chunk, i)
  <2>1. Cuts(b, chunk, e, n, c)
    BY <1>1, CutsOf
  <2> QED BY <2>1 DEF Cuts
<1> DEFINE Stands(a, q) == Begins(said, SseSaid(a)) /\ ((q.failed = TRUE /\ Broken(a)) \/ SseAt(a, q, said))
           S == {i \in Nat : i <= c => Stands(Cut(e, n + i), g[i])}
<1>4. 0 \in S
  <2>1. g[0] = p /\ n + 0 = n
    <3>1. 0 \in 0 .. c /\ n + 0 = n
      BY <1>1
    <3> QED BY <1>2, <3>1 DEF Turns
  <2>2. Begins(said, SseSaid(b))
    <3>1. PICK o \in Seq(SseRecord) : o = p.out /\ said \o o = SseSaid(b)
      BY DEF SseAt, SseParser
    <3>2. Begins(said, said \o o)
      BY BeginsJoin
    <3> QED BY <3>1, <3>2
  <2>3. Stands(b, p)
    BY <2>2
  <2> HIDE DEF Stands
  <2> QED BY <1>3, <2>1, <2>3
<1>5. ASSUME NEW i \in S PROVE i + 1 \in S
  <2>1. SUFFICES ASSUME i + 1 <= c PROVE Stands(Cut(e, n + (i + 1)), g[i + 1])
    <3> HIDE DEF Stands
    <3> QED BY <1>5
  <2>2. /\ i \in Nat /\ i <= c /\ i \in 0 .. c - 1 /\ i + 1 \in 0 .. c /\ i + 1 # 0 /\ i + 1 - 1 = i
        /\ n + (i + 1) = n + i + 1
    BY <1>5, <2>1
  <2>3. Stands(Cut(e, n + i), g[i])
    <3> HIDE DEF Stands
    <3> QED BY <1>5, <2>2
  <2>4. g[i + 1] = TakeByte(g[i], chunk[i + 1])
    <3>1. g[i + 1] = Turn("sse", chunk, i + 1, g[i + 1 - 1])
      BY <1>2, <2>2 DEF Turns
    <3> QED BY <2>2, <3>1 DEF Turn
  <2>5. PICK a, x, d, q, r : /\ a \in Seq(Text) /\ x \in Text
                              /\ a = Cut(e, n + i) /\ x = chunk[i + 1]
                              /\ d = Cut(e, n + i + 1) /\ q = g[i] /\ r = g[i + 1]
    <3>1. CutBehind(e, n, chunk, i)
      BY <1>3, <2>2
    <3> QED BY <3>1 DEF CutBehind
  <2>6. Longer(a, x, d) /\ r = TakeByte(q, x) /\ Begins(said, SseSaid(a))
        /\ ((q.failed = TRUE /\ Broken(a)) \/ SseAt(a, q, said))
    <3>1. CutBehind(e, n, chunk, i)
      BY <1>3, <2>2
    <3> QED BY <2>3, <2>4, <2>5, <3>1 DEF CutBehind
  <2>7. Stands(d, r)
    <3>1. Begins(said, SseSaid(d)) /\ ((r.failed = TRUE /\ Broken(d)) \/ SseAt(d, r, said))
      BY <2>5, <2>6, ByteRead
    <3> QED BY <3>1
  <2> HIDE DEF Stands
  <2> QED BY <2>2, <2>5, <2>7
<1>6. S = Nat
  <2>1. S \in SUBSET Nat
    OBVIOUS
  <2> HIDE DEF S
  <2> QED BY <1>4, <1>5, <2>1, EveryLength
<1>7. PICK q : q = g[c]
  OBVIOUS
<1>8. Stands(e, q)
  <2> HIDE DEF Stands
  <2>1. c \in S /\ c <= c
    BY <1>6
  <2> QED BY <1>3, <1>7, <2>1
<1>9. CASE q.failed = TRUE /\ Broken(e)
  <2>1. next = q \/ next = Fail(q)
    BY <1>2, <1>7 DEF EnforceCap
  <2>2. CASE next = q
    BY <1>8, <1>9, <2>2
  <2>3. CASE next = Fail(q)
    <3>1. Fail(q) = [q EXCEPT !.failed = TRUE]
      BY DEF Fail
    <3>2. next.failed = TRUE
      BY <1>9, <2>3, <3>1
    <3> QED BY <1>8, <1>9, <3>2
  <2> QED BY <2>1, <2>2, <2>3
<1>10. CASE SseAt(e, q, said)
  <2>1. next = EnforceCap(q)
    BY <1>2, <1>7
  <2>2. CASE Broken(e)
    BY <1>3, <1>8, <1>10, <2>1, <2>2, CapIs
  <2>3. CASE ~ Broken(e)
    BY <1>3, <1>8, <1>10, <2>1, <2>3, CapIs
  <2> QED BY <2>2, <2>3
<1> QED BY <1>8, <1>9, <1>10

\* The end of a body of server-sent events.
LEMMA TextEnds ==
  ASSUME NEW b \in Seq(Text), MaxEvent \in Nat, NEW p, NEW said \in Seq(SseRecord), SseAt(b, p, said),
         ~ Broken(b), NEW next, next = SseFinish(p)
  PROVE  /\ next.failed = FALSE /\ next.out \in Seq(SseRecord)
         /\ said \o next.out = SseRecords(b).records
<1>1. p \in SseParser /\ p.failed = FALSE /\ p.buffer = OpenText(b) /\ FieldsRead(b, <<>>, p)
  BY DEF SseAt
<1>2. PICK line \in Seq(Text) : line = OpenText(b)
  BY OpenSize
<1>3. EnforceCap(p).failed = FALSE
  BY CapIs
<1>4. PICK q : /\ next = FlushPending(q) /\ q \in SseParser /\ FieldsRead(b, line, q)
               /\ q.out = p.out /\ q.failed = FALSE
  <2>1. CASE line = <<>>
    <3>1. next = FlushPending(p)
      BY <1>1, <1>2, <1>3, <2>1 DEF SseFinish
    <3> QED BY <1>1, <2>1, <3>1
  <2>2. CASE line # <<>>
    <3>1. PICK z \in Seq(Text) : z = <<>>
      <4>1. <<>> \in Seq(Text)
        OBVIOUS
      <4> QED BY <4>1
    <3>2. PICK s : s = [p EXCEPT !.buffer = z]
      OBVIOUS
    <3>3. /\ s \in SseParser /\ s.failed = p.failed /\ s.out = p.out
          /\ s.data = p.data /\ s.event = p.event /\ s.id = p.id
      BY <1>1, <3>2 DEF SseParser
    <3>4. FieldsRead(b, <<>>, s)
      BY <1>1, <3>3 DEF FieldsRead
    <3>5. PICK q : q = HandleLine(s, line)
      OBVIOUS
    <3>6. q \in SseParser /\ FieldsRead(b, line, q) /\ q.out = s.out /\ q.failed = s.failed
      BY <2>2, <3>3, <3>4, <3>5, HandleLineIs
    <3>7. next = FlushPending(q)
      BY <1>1, <1>2, <1>3, <2>2, <3>1, <3>2, <3>5 DEF SseFinish
    <3> QED BY <1>1, <3>3, <3>6, <3>7
  <2> QED BY <2>1, <2>2
<1>5. /\ next \in SseParser /\ next.failed = q.failed
      /\ Marked(b, line) => next.out = Append(q.out, OpenRecord(b, line))
      /\ ~ Marked(b, line) => next.out = q.out
  BY <1>4, FlushIs DEF OpenRecord
<1>6. SaidAtEnd(b, line)
  BY <1>2, SaidAll
<1>7. PICK o \in Seq(SseRecord) : o = p.out /\ said \o o = SseSaid(b)
  BY DEF SseAt, SseParser
<1>8. said \o next.out = SseRecords(b).records
  <2>1. CASE ~ Marked(b, line)
    BY <1>4, <1>5, <1>6, <1>7, <2>1 DEF SaidAtEnd
  <2>2. CASE Marked(b, line)
    <3>1. PICK k \in SseRecord : k = OpenRecord(b, line)
      <4>1. q.event = EventIn(b, line) /\ q.data = DataIn(b, line)
        BY <1>4 DEF FieldsRead
      <4> QED BY <1>4, <4>1 DEF SseParser, SseRecord, OpenRecord
    <3>2. said \o Append(o, k) = Append(said \o o, k)
      OBVIOUS
    <3>3. SseRecords(b).records = Append(SseSaid(b), OpenRecord(b, line))
      BY <1>6, <2>2 DEF SaidAtEnd
    <3> QED BY <1>4, <1>5, <1>7, <2>2, <3>1, <3>2, <3>3
  <2> QED BY <2>1, <2>2
<1>9. next.out \in Seq(SseRecord)
  BY <1>5 DEF SseParser
<1> QED BY <1>4, <1>5, <1>8, <1>9

LEMMA BrokenText ==
  ASSUME NEW b
  PROVE  SseRecords(b).broken <=> Broken(b)
BY DEF SseRecords, Broken, Charged

LEMMA SaidBegins ==
  ASSUME NEW b \in Seq(Text), NEW said, Begins(said, SseSaid(b))
  PROVE  Begins(said, SseRecords(b).records)
<1>1. PICK line : line = OpenText(b)
  OBVIOUS
<1>2. SaidAtEnd(b, line)
  BY <1>1, SaidAll
<1>3. PICK t, r : t = SseSaid(b) /\ r = OpenRecord(b, line)
  OBVIOUS
<1>4. Begins(said, Append(t, r))
  BY <1>3, BeginsMore
<1> QED BY <1>2, <1>3, <1>4 DEF SaidAtEnd

\* Before the first byte.
LEMMA TextBegins ==
  ASSUME MaxEvent \in Nat
  PROVE  SseAt(<<>>, NewParser, <<>>) /\ ~ Broken(<<>>)
<1>1. PICK b \in Seq(Text) : b = <<>> /\ Len(b) = 0 /\ DOMAIN b = {}
  <2>1. <<>> \in Seq(Text) /\ Len(<<>>) = 0 /\ DOMAIN <<>> = {}
    OBVIOUS
  <2> QED BY <2>1
<1>2. Feeds(b) = {} /\ Boundaries(b) = {} /\ FullAt(b) = {}
  BY <1>1 DEF Feeds, Boundaries, FullAt
<1>3. LastFeed(b) = 0 /\ RecordFrom(b) = 0
  <2>1. PICK n \in Nat : n = Len(b) /\ n = 0
    BY <1>1
  <2>2. PICK r \in Nat, l \in Nat : r = RecordFrom(b) /\ l = LastFeed(b)
    BY <2>1, OpenSize
  <2>3. r <= l /\ l <= n
    BY <2>1, <2>2, OpenSize
  <2> QED BY <2>1, <2>2, <2>3
<1>4. OpenText(b) = <<>>
  <2>1. OpenText(b) \in Seq(Text) /\ Len(OpenText(b)) = 0 - LastFeed(b)
    BY <1>1, OpenSize
  <2> QED BY <1>3, <2>1
<1>5. \A field : Lines(b, <<>>, field) = {}
  BY <1>2 DEF Lines
<1>6. DataIn(b, <<>>) = <<>> /\ EventIn(b, <<>>) = <<>>
  BY <1>5, FieldsThere
<1>7. SseSaid(b) = <<>>
  BY <1>2, OrderedNone DEF SseSaid
<1>8. LinesFit(b)
  BY <1>3 DEF LinesFit
<1>9. ~ Broken(b)
  BY <1>1 DEF Broken
<1> DEFINE p == NewParser
<1>10. /\ p \in SseParser /\ p.failed = FALSE /\ p.buffer = <<>> /\ p.bytes = 0 /\ p.out = <<>>
       /\ p.data = <<>> /\ p.event = <<>> /\ p.id = FALSE
  BY DEF NewParser, SseParser
<1> HIDE DEF p
<1>11. FieldsRead(b, <<>>, p)
  BY <1>5, <1>6, <1>10 DEF FieldsRead
<1>12. <<>> \o p.out = SseSaid(b)
  BY <1>7, <1>10
<1>13. SseAt(b, p, <<>>)
  BY <1>3, <1>4, <1>8, <1>10, <1>11, <1>12 DEF SseAt
<1> QED BY <1>1, <1>9, <1>13 DEF p

-----------------------------------------------------------------------------
(* A chunk of frames. *)

AwsAt(b, p, said) ==
  /\ p.failed = FALSE
  /\ \E q : ParserAt(b, q, p, said) /\ ~ WholeFrame(b, q) /\ ~ Refused(b, q)

LEMMA JoinIs ==
  ASSUME NEW V, NEW s \in Seq(V), NEW t \in Seq(V)
  PROVE  /\ s \o t \in Seq(V) /\ Len(s \o t) = Len(s) + Len(t)
         /\ \A k \in 1 .. Len(s) : (s \o t)[k] = s[k]
         /\ \A k \in 1 .. Len(t) : (s \o t)[Len(s) + k] = t[k]
OBVIOUS

JoinedAt(b, chunk, e, q) ==
  /\ e \in Seq(Nat) /\ GoesOn(b, e)
  /\ SubSeq(b, q, Len(b)) \o chunk = SubSeq(e, q, Len(e))

LEMMA JoinedGoesOn ==
  ASSUME NEW b \in Seq(Nat), NEW chunk \in Seq(Nat), NEW e, Joined(b, chunk, e),
         NEW q \in 1 .. Len(b) + 1
  PROVE  JoinedAt(b, chunk, e, q)
<1>1. PICK n \in Nat, c \in Nat : n = Len(b) /\ c = Len(chunk)
  BY BytesIn
<1>2. /\ e \in Seq(Nat) /\ Len(e) = Len(b) + Len(chunk)
      /\ (\A i \in 1 .. Len(b) : e[i] = b[i]) /\ \A i \in 1 .. Len(chunk) : e[Len(b) + i] = chunk[i]
  <2>1. PICK u : u = b \o chunk
    OBVIOUS
  <2>2. /\ u \in Seq(Nat) /\ Len(u) = Len(b) + Len(chunk)
        /\ (\A i \in 1 .. Len(b) : u[i] = b[i]) /\ \A i \in 1 .. Len(chunk) : u[Len(b) + i] = chunk[i]
    BY <2>1, JoinIs
  <2>3. u = e
    BY <2>1 DEF Joined
  <2> QED BY <2>2, <2>3
<1>3. GoesOn(b, e)
  <2>1. Len(b) <= Len(e)
    <3>1. Len(b) \in Nat /\ Len(chunk) \in Nat
      BY BytesIn
    <3>2. Len(e) = Len(b) + Len(chunk)
      BY <1>2
    <3> QED BY <3>1, <3>2
  <2> QED BY <1>2, <2>1 DEF GoesOn
<1>4. /\ e \in Seq(Nat) /\ Len(e) = n + c
       /\ (\A i \in 1 .. n : e[i] = b[i]) /\ \A i \in 1 .. c : e[n + i] = chunk[i]
  BY <1>1, <1>2
<1>5. q \in Nat /\ 1 <= q /\ q <= n + 1 /\ q \in 1 .. Len(e) + 1 /\ n + 1 - q \in Nat
  BY <1>1, <1>4
<1>6. PICK u \in Seq(Nat) : /\ u = SubSeq(b, q, Len(b)) /\ Len(u) = n + 1 - q
                            /\ \A k \in 1 .. n + 1 - q : u[k] = b[q + k - 1]
  <2>1. /\ SubSeq(b, q, Len(b)) \in Seq(Nat) /\ Len(SubSeq(b, q, Len(b))) = Len(b) + 1 - q
        /\ \A k \in 1 .. Len(b) + 1 - q : SubSeq(b, q, Len(b))[k] = b[q + k - 1]
    BY RestIs
  <2> QED BY <1>1, <2>1
<1>7. PICK v \in Seq(Nat) : /\ v = SubSeq(e, q, Len(e)) /\ Len(v) = n + c + 1 - q
                            /\ \A k \in 1 .. n + c + 1 - q : v[k] = e[q + k - 1]
  <2>1. /\ SubSeq(e, q, Len(e)) \in Seq(Nat) /\ Len(SubSeq(e, q, Len(e))) = Len(e) + 1 - q
        /\ \A k \in 1 .. Len(e) + 1 - q : SubSeq(e, q, Len(e))[k] = e[q + k - 1]
    BY <1>4, <1>5, RestIs, ZenonT(40)
  <2> QED BY <1>4, <2>1
<1>8. PICK w \in Seq(Nat) : /\ w = u \o chunk /\ Len(w) = n + 1 - q + c
                            /\ \A k \in 1 .. n + 1 - q : w[k] = u[k]
                            /\ \A k \in 1 .. c : w[n + 1 - q + k] = chunk[k]
  <2>1. /\ u \o chunk \in Seq(Nat) /\ Len(u \o chunk) = Len(u) + c
        /\ \A k \in 1 .. Len(u) : (u \o chunk)[k] = u[k]
        /\ \A k \in 1 .. c : (u \o chunk)[Len(u) + k] = chunk[k]
    BY <1>1, JoinIs
  <2>2. PICK w : w = u \o chunk
    OBVIOUS
  <2>3. w \in Seq(Nat) /\ Len(w) = Len(u) + c
        /\ (\A k \in 1 .. Len(u) : w[k] = u[k]) /\ \A k \in 1 .. c : w[Len(u) + k] = chunk[k]
    BY <2>1, <2>2
  <2>4. Len(u) = n + 1 - q
    BY <1>6, ZenonT(40)
  <2> QED BY <2>2, <2>3, <2>4, ZenonT(40)
<1>9. Len(w) = Len(v)
  BY <1>1, <1>5, <1>7, <1>8
<1>10. ASSUME NEW k \in 1 .. Len(w) PROVE w[k] = v[k]
  <2>1. k \in Nat /\ 1 <= k /\ k <= n + 1 - q + c /\ k \in 1 .. n + c + 1 - q
    BY <1>1, <1>5, <1>8
  <2>2. CASE k <= n + 1 - q
    <3>1. k \in 1 .. n + 1 - q /\ q + k - 1 \in 1 .. n
      BY <1>1, <1>5, <2>1, <2>2
    <3>2. w[k] = b[q + k - 1] /\ v[k] = e[q + k - 1]
      BY <1>6, <1>7, <1>8, <2>1, <3>1
    <3> QED BY <1>4, <3>1, <3>2
  <2>3. CASE ~ (k <= n + 1 - q)
    <3>1. PICK j \in 1 .. c : k = n + 1 - q + j /\ q + k - 1 = n + j
      <4>1. k - (n + 1 - q) \in 1 .. c
        BY <1>1, <1>5, <2>1, <2>3
      <4>2. k = n + 1 - q + (k - (n + 1 - q)) /\ q + k - 1 = n + (k - (n + 1 - q))
        BY <1>1, <1>5, <2>1
      <4> QED BY <4>1, <4>2
    <3>2. w[k] = chunk[j]
      BY <1>8, <3>1
    <3>3. v[k] = e[n + j]
      BY <1>7, <2>1, <3>1
    <3> QED BY <1>4, <3>2, <3>3
  <2> QED BY <2>2, <2>3
<1>11. w = v
  BY <1>9, <1>10, SameSeq
<1> QED BY <1>4, <1>3, <1>6, <1>7, <1>8, <1>11 DEF JoinedAt

\* A chunk: the frames it completes, or a frame that is refused.
LEMMA FramesRead ==
  ASSUME NEW b \in Seq(Nat), NEW chunk \in Seq(Nat), NEW e, Joined(b, chunk, e), MaxEvent \in Nat,
         NEW p, NEW said \in Seq(AwsRecord), AwsAt(b, p, said), NEW next, next = AwsFeed(p, chunk)
  PROVE  /\ e \in Seq(Nat) /\ Begins(said, AwsRecords(e).records)
         /\ \/ next.failed = TRUE /\ AwsRecords(e).broken
            \/ next.failed = FALSE /\ ~ AwsRecords(e).broken /\ AwsAt(e, next, said)
<1>1. PICK q : ParserAt(b, q, p, said) /\ p.failed = FALSE
  BY DEF AwsAt
<1>2. /\ q \in FrameStarts(b) /\ q \in 1 .. Len(b) + 1 /\ p \in AwsParser
      /\ p.buffer = SubSeq(b, q, Len(b)) /\ said \o p.out = RecordsBefore(b, q)
  BY <1>1, StartsClosed DEF ParserAt
<1>3. e \in Seq(Nat) /\ GoesOn(b, e) /\ SubSeq(b, q, Len(b)) \o chunk = SubSeq(e, q, Len(e))
  <2>1. JoinedAt(b, chunk, e, q)
    BY <1>2, JoinedGoesOn
  <2> QED BY <2>1 DEF JoinedAt
<1>4. q \in FrameStarts(e) /\ RecordsBefore(e, q) = RecordsBefore(b, q)
  BY <1>2, <1>3, StartsStay, RecordsStay
<1>5. PICK whole : whole = [p EXCEPT !.buffer = @ \o chunk]
  OBVIOUS
<1>6. PICK t \in Seq(Nat) : t = p.buffer \o chunk /\ Len(t) \in Nat
  <2>1. PICK s \in Seq(Nat) : s = p.buffer
    BY <1>2 DEF AwsParser
  <2>2. s \o chunk \in Seq(Nat) /\ Len(s \o chunk) \in Nat
    BY JoinIs, BytesIn
  <2> QED BY <2>1, <2>2
<1>7. whole = [p EXCEPT !.buffer = t]
  BY <1>5, <1>6
<1>8. whole \in AwsParser /\ whole.buffer = t /\ whole.out = p.out /\ whole.failed = p.failed
  BY <1>2, <1>7 DEF AwsParser
<1>9. ParserAt(e, q, whole, said)
  BY <1>2, <1>3, <1>4, <1>6, <1>8 DEF ParserAt
<1>10. PICK n \in Nat : n = Len(whole.buffer)
  BY <1>6, <1>8
<1>11. PICK g : Turns(g, "aws", chunk, whole, n) /\ next = g[n]
  <2>1. WithChunk(p, chunk, whole)
    BY <1>5 DEF WithChunk
  <2> QED BY <1>10, <2>1, AwsFeedIs
<1>12. PICK r : ParserAt(e, r, g[n], said) /\ ~ WholeFrame(e, r) /\ (g[n].failed <=> Refused(e, r))
  <2>1. ~ whole.failed
    BY <1>1, <1>8
  <2> QED BY <1>3, <1>9, <1>10, <1>11, <2>1, FramesFed
<1>13. /\ r \in FrameStarts(e) /\ next \in AwsParser /\ said \o next.out = RecordsBefore(e, r)
       /\ ParserAt(e, r, next, said) /\ (next.failed <=> Refused(e, r))
  BY <1>11, <1>12 DEF ParserAt
<1>14. AwsRecords(e).records = RecordsBefore(e, r) /\ (AwsRecords(e).broken <=> Refused(e, r))
  BY <1>3, <1>12, <1>13, RecordsAll
<1>15. Begins(said, AwsRecords(e).records)
  <2>1. PICK o \in Seq(AwsRecord) : o = next.out
    BY <1>13 DEF AwsParser
  <2>2. Begins(said, said \o o)
    BY BeginsJoin
  <2> QED BY <1>13, <1>14, <2>1, <2>2
<1>16. next.failed \in BOOLEAN
  BY <1>13 DEF AwsParser
<1>17. CASE Refused(e, r)
  BY <1>3, <1>13, <1>14, <1>15, <1>16, <1>17
<1>18. CASE ~ Refused(e, r)
  <2>1. next.failed = FALSE
    BY <1>13, <1>16, <1>18
  <2>2. AwsAt(e, next, said)
    BY <1>12, <1>13, <1>18, <2>1 DEF AwsAt
  <2> QED BY <1>3, <1>14, <1>15, <1>18, <2>1, <2>2
<1> QED BY <1>17, <1>18

\* The end of a body of frames.
LEMMA FramesEnd ==
  ASSUME NEW b \in Seq(Nat), MaxEvent \in Nat, NEW p, NEW said \in Seq(AwsRecord), AwsAt(b, p, said),
         NEW next, next = AwsFinish(p)
  PROVE  /\ said \o p.out = AwsRecords(b).records /\ ~ AwsRecords(b).broken
         /\ next.out \in Seq(AwsRecord) /\ next.out = p.out
         /\ \/ next.failed = TRUE /\ AwsRecords(b).rest
            \/ next.failed = FALSE /\ ~ AwsRecords(b).rest
<1>1. PICK q : ParserAt(b, q, p, said) /\ p.failed = FALSE /\ ~ WholeFrame(b, q) /\ ~ Refused(b, q)
  BY DEF AwsAt
<1>2. /\ q \in FrameStarts(b) /\ q \in 1 .. Len(b) + 1 /\ p \in AwsParser
      /\ p.buffer = SubSeq(b, q, Len(b)) /\ said \o p.out = RecordsBefore(b, q)
  BY <1>1, StartsClosed DEF ParserAt
<1>3. /\ AwsRecords(b).records = RecordsBefore(b, q) /\ ~ AwsRecords(b).broken
      /\ AwsRecords(b).rest <=> q # Len(b) + 1
  BY <1>1, <1>2, RecordsAll
<1>4. p.buffer = <<>> <=> q = Len(b) + 1
  <2>1. PICK s \in Seq(Nat), n \in Nat : s = p.buffer /\ n = Len(b) /\ Len(s) = n + 1 - q /\ q \in 1 .. n + 1
    <3>1. /\ SubSeq(b, q, Len(b)) \in Seq(Nat) /\ Len(SubSeq(b, q, Len(b))) = Len(b) + 1 - q
      BY <1>2, RestIs
    <3>2. Len(b) \in Nat
      BY BytesIn
    <3> QED BY <1>2, <3>1, <3>2
  <2>2. s = <<>> <=> Len(s) = 0
    OBVIOUS
  <2> QED BY <2>1, <2>2
<1>5. p.out \in Seq(AwsRecord)
  BY <1>2 DEF AwsParser
<1>6. CASE p.buffer = <<>>
  BY <1>1, <1>2, <1>3, <1>4, <1>5, <1>6 DEF AwsFinish
<1>7. CASE p.buffer # <<>>
  <2>1. next = [p EXCEPT !.failed = TRUE]
    BY <1>7 DEF AwsFinish, Fail
  <2>2. next.failed = TRUE /\ next.out = p.out
    BY <1>2, <2>1 DEF AwsParser
  <2> QED BY <1>2, <1>3, <1>4, <1>5, <1>7, <2>2
<1> QED BY <1>6, <1>7

\* Before the first byte.
LEMMA FramesBegin ==
  ASSUME MaxEvent \in Nat
  PROVE  AwsAt(<<>>, NewParser, <<>>) /\ ~ AwsRecords(<<>>).broken
<1>1. PICK b \in Seq(Nat) : b = <<>> /\ Len(b) = 0
  <2>1. <<>> \in Seq(Nat) /\ Len(<<>>) = 0
    OBVIOUS
  <2> QED BY <2>1
<1>2. 1 \in FrameStarts(b)
  BY StartsClosed
<1>3. ~ LengthRead(b, 1)
  BY <1>1 DEF LengthRead
<1>4. ~ WholeFrame(b, 1) /\ ~ Refused(b, 1)
  BY <1>3 DEF WholeFrame, Refused, FrameRead
<1>5. PICK one \in FrameStarts(b) : one = 1
  BY <1>2
<1>6. RecordsBefore(b, one) = <<>>
  <2>1. FullBefore(b, one) = {}
    <3>1. \A i \in FrameStarts(b) : ~ (i < one)
      <4>1. FrameStarts(b) \in SUBSET (1 .. Len(b) + 1)
        BY StartsClosed
      <4>2. \A i \in 1 .. Len(b) + 1 : ~ (i < 1)
        BY <1>1
      <4> QED BY <1>5, <4>1, <4>2
    <3> QED BY <3>1 DEF FullBefore
  <2> QED BY <2>1, OrderedNone DEF RecordsBefore
<1> DEFINE p == NewParser
<1>7. p \in AwsParser /\ p.failed = FALSE /\ p.buffer = <<>> /\ p.out = <<>>
  BY DEF NewParser, AwsParser
<1>8. SubSeq(b, one, Len(b)) = <<>>
  <2>1. one \in 1 .. Len(b) + 1 /\ Len(b) + 1 - one = 0
    BY <1>1, <1>5
  <2>2. SubSeq(b, one, Len(b)) \in Seq(Nat) /\ Len(SubSeq(b, one, Len(b))) = Len(b) + 1 - one
    BY <2>1, RestIs
  <2> QED BY <2>1, <2>2
<1> HIDE DEF p
<1>9. <<>> \o p.out = RecordsBefore(b, one)
  BY <1>6, <1>7
<1>10. AwsAt(b, p, <<>>)
  BY <1>4, <1>5, <1>7, <1>8, <1>9 DEF AwsAt, ParserAt
<1>11. ~ AwsRecords(b).broken
  BY <1>4, <1>5, RecordsAll
<1> QED BY <1>1, <1>10, <1>11 DEF p

-----------------------------------------------------------------------------
(* However the network cuts a body, its records are handed over. *)

RecordsIn(kind) == IF kind = "sse" THEN SseRecord ELSE AwsRecord
SaidIn(kind, b) == IF kind = "sse" THEN SseRecords(b) ELSE AwsRecords(b)
EndsInside(kind, b) == kind = "aws" /\ AwsRecords(b).rest

\* The parser p has read the body b; h was handed over and w waits.
ReadSoFar(kind, b, p, h, w, state) ==
  /\ kind \in {"sse", "aws"} /\ state \in {"open", "ended", "failed"}
  /\ h \in Seq(RecordsIn(kind)) /\ w \in Seq(RecordsIn(kind))
  /\ kind = "sse" => b \in Seq(Text)
  /\ kind = "aws" => b \in Seq(Nat)
  /\ state = "open" /\ kind = "sse" => SseAt(b, p, h \o w)
  /\ state = "open" /\ kind = "aws" => AwsAt(b, p, h \o w)
  /\ state # "failed" => Begins(h \o w, SaidIn(kind, b).records) /\ ~ SaidIn(kind, b).broken
  /\ state = "ended" => h \o w = SaidIn(kind, b).records /\ ~ EndsInside(kind, b)
  /\ state = "failed" =>
       /\ w = <<>> /\ Begins(h, SaidIn(kind, b).records)
       /\ \/ SaidIn(kind, b).broken \/ Len(SaidIn(kind, b).records) > MaxRecords
          \/ EndsInside(kind, b)

FramingInv == ReadSoFar(framing, body, parser, handed, pending, reading)

LEMMA NothingBehind ==
  ASSUME NEW V, NEW s \in Seq(V)
  PROVE  s \o <<>> = s /\ <<>> \in Seq(V) /\ Begins(s, s)
<1>1. s \o <<>> = s /\ <<>> \in Seq(V)
  OBVIOUS
<1>2. Begins(s, s \o <<>>)
  BY <1>1, BeginsJoin
<1> QED BY <1>1, <1>2

\* The parser without the records it hands on.
LEMMA SseEmptied ==
  ASSUME NEW b, NEW p, NEW said \in Seq(SseRecord), SseAt(b, p, said), NEW o, o = p.out,
         NEW next, next = [p EXCEPT !.out = <<>>]
  PROVE  SseAt(b, next, said \o o) /\ o \in Seq(SseRecord) /\ said \o o = SseSaid(b)
<1>1. p \in SseParser /\ said \o o = SseSaid(b)
  BY DEF SseAt
<1>2. o \in Seq(SseRecord)
  BY <1>1 DEF SseParser
<1>3. PICK z \in Seq(SseRecord) : z = <<>>
  BY NothingBehind, <1>2
<1>4. next = [p EXCEPT !.out = z]
  BY <1>3
<1>5. /\ next \in SseParser /\ next.buffer = p.buffer /\ next.failed = p.failed /\ next.bytes = p.bytes
      /\ next.data = p.data /\ next.event = p.event /\ next.id = p.id /\ next.out = z
  BY <1>1, <1>4 DEF SseParser
<1>6. FieldsRead(b, <<>>, next)
  BY <1>5 DEF FieldsRead, SseAt
<1>7. (said \o o) \o z = SseSaid(b)
  <2>1. PICK u \in Seq(SseRecord) : u = said \o o
    BY <1>2, JoinIs
  <2>2. u \o <<>> = u
    BY NothingBehind
  <2> QED BY <1>1, <1>3, <2>1, <2>2
<1>8. (said \o o) \o next.out = SseSaid(b)
  BY <1>5, <1>7
<1> QED BY <1>1, <1>2, <1>5, <1>6, <1>8 DEF SseAt

LEMMA AwsEmptied ==
  ASSUME NEW b, NEW p, NEW said \in Seq(AwsRecord), AwsAt(b, p, said), NEW o, o = p.out,
         NEW next, next = [p EXCEPT !.out = <<>>]
  PROVE  AwsAt(b, next, said \o o) /\ o \in Seq(AwsRecord)
<1>1. PICK q : ParserAt(b, q, p, said) /\ ~ WholeFrame(b, q) /\ ~ Refused(b, q) /\ p.failed = FALSE
  BY DEF AwsAt
<1>2. p \in AwsParser /\ said \o o = RecordsBefore(b, q)
  BY <1>1 DEF ParserAt
<1>3. o \in Seq(AwsRecord)
  BY <1>2 DEF AwsParser
<1>4. PICK z \in Seq(AwsRecord) : z = <<>>
  BY NothingBehind, <1>3
<1>5. next = [p EXCEPT !.out = z]
  BY <1>4
<1>6. next \in AwsParser /\ next.buffer = p.buffer /\ next.failed = p.failed /\ next.out = z
  BY <1>2, <1>5 DEF AwsParser
<1>7. (said \o o) \o z = RecordsBefore(b, q)
  <2>1. PICK u \in Seq(AwsRecord) : u = said \o o
    BY <1>3, JoinIs
  <2>2. u \o <<>> = u
    BY NothingBehind
  <2> QED BY <1>2, <1>4, <2>1, <2>2
<1>8. ParserAt(b, q, next, said \o o)
  BY <1>1, <1>6, <1>7 DEF ParserAt
<1> QED BY <1>1, <1>3, <1>6, <1>8 DEF AwsAt

\* A chunk of text.
LEMMA TextChunkKept ==
  ASSUME MaxEvent \in Nat, NEW b, NEW p, NEW h, ReadSoFar("sse", b, p, h, <<>>, "open"),
         NEW chunk \in Seq(Text), NEW e, Joined(b, chunk, e), NEW next, next = SseFeed(p, chunk),
         NEW left, left = IF next.failed THEN <<>> ELSE next.out,
         NEW state, state = IF next.failed THEN "failed" ELSE "open"
  PROVE  ReadSoFar("sse", e, [next EXCEPT !.out = <<>>], h, left, state)
<1>1. h \in Seq(SseRecord) /\ b \in Seq(Text) /\ SseAt(b, p, h)
  <2>1. h \in Seq(SseRecord) /\ b \in Seq(Text) /\ SseAt(b, p, h \o <<>>)
    BY DEF ReadSoFar, RecordsIn
  <2>2. h \o <<>> = h
    BY <2>1, NothingBehind
  <2> QED BY <2>1, <2>2
<1>2. e \in Seq(Text)
  BY <1>1 DEF Joined
<1>3. /\ Begins(h, SseSaid(e))
      /\ \/ next.failed = TRUE /\ Broken(e)
         \/ next.failed = FALSE /\ ~ Broken(e) /\ SseAt(e, next, h)
  BY <1>1, ChunkRead
<1>4. PICK r : r = SseRecords(e) /\ (r.broken <=> Broken(e)) /\ Begins(h, r.records)
  BY <1>2, <1>3, BrokenText, SaidBegins
<1>5. SaidIn("sse", e) = r /\ RecordsIn("sse") = SseRecord /\ "sse" # "aws"
  BY <1>4 DEF SaidIn, RecordsIn
<1>6. CASE next.failed = TRUE
  <2>1. left = <<>> /\ state = "failed" /\ <<>> \in Seq(SseRecord) /\ Broken(e)
    BY <1>1, <1>3, <1>6, NothingBehind
  <2> QED BY <1>1, <1>2, <1>4, <1>5, <2>1 DEF ReadSoFar
<1>7. CASE next.failed = FALSE
  <2>1. left = next.out /\ state = "open" /\ ~ Broken(e) /\ SseAt(e, next, h)
    BY <1>3, <1>7
  <2>2. PICK q : q = [next EXCEPT !.out = <<>>]
    OBVIOUS
  <2>3. SseAt(e, q, h \o left) /\ left \in Seq(SseRecord) /\ h \o left = SseSaid(e)
    BY <1>1, <2>1, <2>2, SseEmptied, SMTT(40)
  <2>4. Begins(h \o left, r.records)
    <3>1. PICK u \in Seq(SseRecord) : u = h \o left
      BY <1>1, <2>3, JoinIs
    <3>2. Begins(u, SseSaid(e))
      BY <2>3, <3>1, NothingBehind
    <3> QED BY <1>2, <1>4, <3>1, <3>2, SaidBegins
  <2>5. ReadSoFar("sse", e, q, h, left, state)
    BY <1>1, <1>2, <1>4, <1>5, <2>1, <2>3, <2>4 DEF ReadSoFar
  <2> QED BY <2>2, <2>5
<1> QED BY <1>3, <1>6, <1>7

\* A chunk of frames.
LEMMA FrameChunkKept ==
  ASSUME MaxEvent \in Nat, NEW b, NEW p, NEW h, ReadSoFar("aws", b, p, h, <<>>, "open"),
         NEW chunk \in Seq(Nat), NEW e, Joined(b, chunk, e), NEW next, next = AwsFeed(p, chunk),
         NEW left, left = IF next.failed THEN <<>> ELSE next.out,
         NEW state, state = IF next.failed THEN "failed" ELSE "open"
  PROVE  ReadSoFar("aws", e, [next EXCEPT !.out = <<>>], h, left, state)
<1>1. h \in Seq(AwsRecord) /\ b \in Seq(Nat) /\ AwsAt(b, p, h)
  <2>1. h \in Seq(AwsRecord) /\ b \in Seq(Nat) /\ AwsAt(b, p, h \o <<>>)
    BY DEF ReadSoFar, RecordsIn
  <2>2. h \o <<>> = h
    BY <2>1, NothingBehind
  <2> QED BY <2>1, <2>2
<1>2. PICK r : r = AwsRecords(e)
  OBVIOUS
<1>3. /\ e \in Seq(Nat) /\ Begins(h, r.records)
      /\ \/ next.failed = TRUE /\ r.broken
         \/ next.failed = FALSE /\ ~ r.broken /\ AwsAt(e, next, h)
  BY <1>1, <1>2, FramesRead, ZenonT(40)
<1>4. SaidIn("aws", e) = r /\ RecordsIn("aws") = AwsRecord
  BY <1>2 DEF SaidIn, RecordsIn
<1>5. CASE next.failed = TRUE
  <2>1. left = <<>> /\ state = "failed" /\ <<>> \in Seq(AwsRecord) /\ r.broken
    BY <1>1, <1>3, <1>5, NothingBehind
  <2> QED BY <1>1, <1>3, <1>4, <2>1 DEF ReadSoFar
<1>6. CASE next.failed = FALSE
  <2>1. left = next.out /\ state = "open" /\ ~ r.broken /\ AwsAt(e, next, h)
    BY <1>3, <1>6
  <2>2. PICK q : q = [next EXCEPT !.out = <<>>]
    OBVIOUS
  <2>3. AwsAt(e, q, h \o left) /\ left \in Seq(AwsRecord)
    BY <1>1, <2>1, <2>2, AwsEmptied
  <2>4. Begins(h \o left, r.records)
    <3>1. PICK u \in Seq(AwsRecord) : u = h \o left
      BY <1>1, <2>3, JoinIs
    <3>2. u = r.records
      <4>1. PICK last : last = AwsFinish(next)
        OBVIOUS
      <4>2. h \o next.out = AwsRecords(e).records
        BY <1>1, <1>3, <2>1, <4>1, FramesEnd
      <4> QED BY <1>2, <2>1, <3>1, <4>2
    <3> QED BY <3>1, <3>2, NothingBehind
  <2>5. ReadSoFar("aws", e, q, h, left, state)
    BY <1>1, <1>3, <1>4, <2>1, <2>3, <2>4 DEF ReadSoFar
  <2> QED BY <2>2, <2>5
<1> QED BY <1>3, <1>5, <1>6

\* The end of the body.
LEMMA EndKept ==
  ASSUME MaxEvent \in Nat, NEW kind, NEW b, NEW p, NEW h, ReadSoFar(kind, b, p, h, <<>>, "open"),
         NEW next, next = IF kind = "sse" THEN SseFinish(p) ELSE AwsFinish(p),
         NEW left, left = IF next.failed THEN <<>> ELSE next.out,
         NEW state, state = IF next.failed THEN "failed" ELSE "ended", NEW q
  PROVE  ReadSoFar(kind, b, q, h, left, state)
<1>1. /\ kind \in {"sse", "aws"} /\ h \in Seq(RecordsIn(kind)) /\ ~ SaidIn(kind, b).broken
      /\ Begins(h, SaidIn(kind, b).records)
      /\ kind = "sse" => b \in Seq(Text) /\ SseAt(b, p, h)
      /\ kind = "aws" => b \in Seq(Nat) /\ AwsAt(b, p, h)
  <2>1. h \in Seq(RecordsIn(kind))
    BY DEF ReadSoFar
  <2>2. h \o <<>> = h
    BY <2>1, NothingBehind
  <2> QED BY <2>1, <2>2 DEF ReadSoFar
<1>2. CASE kind = "sse"
  <2>1. SaidIn(kind, b) = SseRecords(b) /\ RecordsIn(kind) = SseRecord /\ kind # "aws"
    BY <1>2 DEF SaidIn, RecordsIn
  <2>2. ~ Broken(b)
    BY <1>1, <2>1, BrokenText
  <2>3. next.failed = FALSE /\ next.out \in Seq(SseRecord) /\ h \o next.out = SseRecords(b).records
    BY <1>1, <1>2, <2>1, <2>2, TextEnds
  <2>4. left = next.out /\ state = "ended"
    BY <2>3
  <2>5. Begins(h \o left, SseRecords(b).records)
    <3>1. PICK u \in Seq(SseRecord) : u = h \o left
      BY <1>1, <2>1, <2>3, <2>4, JoinIs
    <3> QED BY <2>3, <2>4, <3>1, NothingBehind
  <2>6. h \o left = SaidIn(kind, b).records /\ ~ EndsInside(kind, b)
    BY <2>1, <2>3, <2>4 DEF EndsInside
  <2> QED BY <1>1, <1>2, <2>1, <2>3, <2>4, <2>5, <2>6 DEF ReadSoFar
<1>3. CASE kind = "aws"
  <2>1. PICK r : r = AwsRecords(b) /\ SaidIn(kind, b) = r /\ RecordsIn(kind) = AwsRecord
    BY <1>3 DEF SaidIn, RecordsIn
  <2>2. /\ h \o p.out = r.records /\ next.out \in Seq(AwsRecord) /\ next.out = p.out
        /\ \/ next.failed = TRUE /\ r.rest
           \/ next.failed = FALSE /\ ~ r.rest
    <3>1. h \in Seq(AwsRecord) /\ b \in Seq(Nat) /\ AwsAt(b, p, h) /\ next = AwsFinish(p)
      BY <1>1, <1>3, <2>1
    <3>2. PICK m : m = AwsFinish(p)
      OBVIOUS
    <3>3. /\ h \o p.out = AwsRecords(b).records /\ m.out \in Seq(AwsRecord) /\ m.out = p.out
          /\ \/ m.failed = TRUE /\ AwsRecords(b).rest
             \/ m.failed = FALSE /\ ~ AwsRecords(b).rest
      BY <3>1, <3>2, FramesEnd
    <3> QED BY <2>1, <3>1, <3>2, <3>3
  <2>3. EndsInside(kind, b) <=> r.rest
    BY <1>3, <2>1 DEF EndsInside
  <2>4. CASE next.failed = TRUE
    <3>1. left = <<>> /\ state = "failed" /\ <<>> \in Seq(AwsRecord)
      BY <1>1, <2>1, <2>4, NothingBehind
    <3> QED BY <1>1, <1>3, <2>1, <2>2, <2>3, <2>4, <3>1 DEF ReadSoFar
  <2>5. CASE next.failed = FALSE
    <3>1. left = next.out /\ state = "ended" /\ h \o left = r.records
      BY <2>2, <2>5
    <3>2. Begins(h \o left, r.records)
      <4>1. PICK u \in Seq(AwsRecord) : u = h \o left
        BY <1>1, <2>1, <2>2, <3>1, JoinIs
      <4> QED BY <3>1, <4>1, NothingBehind
    <3> QED BY <1>1, <1>3, <2>1, <2>2, <2>3, <2>5, <3>1, <3>2 DEF ReadSoFar
  <2> QED BY <2>2, <2>4, <2>5
<1> QED BY <1>1, <1>2, <1>3

LEMMA HandOver ==
  ASSUME NEW V, NEW h \in Seq(V), NEW w \in Seq(V), w # <<>>
  PROVE  /\ Append(h, Head(w)) \in Seq(V) /\ Tail(w) \in Seq(V)
         /\ Append(h, Head(w)) \o Tail(w) = h \o w
         /\ Len(h) < Len(h \o w) /\ Len(h) \in Nat /\ Len(h \o w) \in Nat
<1>1. Append(h, Head(w)) \in Seq(V) /\ Tail(w) \in Seq(V)
  OBVIOUS
<1>2. Append(h, Head(w)) \o Tail(w) = h \o w
  OBVIOUS
<1>3. Len(h) < Len(h \o w) /\ Len(h) \in Nat /\ Len(h \o w) \in Nat
  OBVIOUS
<1> QED BY <1>1, <1>2, <1>3

\* What begins a beginning.
LEMMA BeginsLess ==
  ASSUME NEW V, NEW h \in Seq(V), NEW w \in Seq(V), NEW t, Begins(h \o w, t)
  PROVE  Begins(h, t) /\ Len(h \o w) <= Len(t) /\ Len(t) \in Nat
<1>1. PICK u \in Seq(V) : /\ u = h \o w /\ Len(u) = Len(h) + Len(w) /\ \A k \in 1 .. Len(h) : u[k] = h[k]
  <2>1. PICK u : u = h \o w
    OBVIOUS
  <2>2. u \in Seq(V) /\ Len(u) = Len(h) + Len(w) /\ \A k \in 1 .. Len(h) : u[k] = h[k]
    BY <2>1, JoinIs
  <2> QED BY <2>1, <2>2
<1>2. PICK W : u \in Seq(W) /\ t \in Seq(W) /\ Len(u) <= Len(t) /\ \A i \in 1 .. Len(u) : u[i] = t[i]
  BY <1>1 DEF Begins
<1>3. PICK m \in Nat, n \in Nat : m = Len(h) /\ n = Len(w) /\ Len(u) = m + n /\ Len(t) \in Nat
  BY <1>1, <1>2, BytesIn
<1>4. \A k \in 1 .. m : k \in 1 .. m + n
  OBVIOUS
<1>5. \A k \in 1 .. m : h[k] = t[k] /\ t[k] \in W
  <2>1. ASSUME NEW k \in 1 .. m PROVE h[k] = t[k] /\ t[k] \in W
    <3>1. k \in 1 .. Len(t)
      BY <1>2, <1>3
    <3>2. t[k] \in W
      BY <1>2, <3>1, BytesIn
    <3> QED BY <1>1, <1>2, <1>3, <1>4, <3>2
  <2> QED BY <2>1
<1>6. h \in Seq(W)
  <2>1. h = [k \in 1 .. m |-> h[k]]
    BY <1>3
  <2>2. h \in [1 .. m -> W]
    BY <1>5, <2>1
  <2> QED BY <2>2
<1>7. m <= Len(t)
  BY <1>2, <1>3
<1> QED BY <1>1, <1>2, <1>3, <1>5, <1>6, <1>7 DEF Begins

\* A record is handed over, or there are too many.
LEMMA HandKept ==
  ASSUME MaxRecords \in Nat, NEW kind, NEW b, NEW p, NEW h, NEW w, NEW state,
         ReadSoFar(kind, b, p, h, w, state), state # "failed", w # <<>>
  PROVE  /\ ReadSoFar(kind, b, p, Append(h, Head(w)), Tail(w), state)
         /\ Len(h) = MaxRecords => ReadSoFar(kind, b, p, h, <<>>, "failed")
<1>1. PICK V, r : V = RecordsIn(kind) /\ r = SaidIn(kind, b).records
  OBVIOUS
<1>2. /\ kind \in {"sse", "aws"} /\ state \in {"open", "ended", "failed"}
      /\ h \in Seq(V) /\ w \in Seq(V) /\ Begins(h \o w, r)
  BY <1>1 DEF ReadSoFar
<1>3. PICK g, v : g = Append(h, Head(w)) /\ v = Tail(w)
  OBVIOUS
<1>4. g \in Seq(V) /\ v \in Seq(V) /\ g \o v = h \o w /\ Len(h) < Len(h \o w) /\ Len(h) \in Nat
  BY <1>2, <1>3, HandOver
<1>5. ReadSoFar(kind, b, p, g, v, state)
  BY <1>1, <1>4 DEF ReadSoFar
<1>6. ASSUME Len(h) = MaxRecords PROVE ReadSoFar(kind, b, p, h, <<>>, "failed")
  <2>1. Begins(h, r) /\ Len(h \o w) <= Len(r) /\ Len(r) \in Nat /\ Len(h \o w) \in Nat
    BY <1>2, HandOver, BeginsLess
  <2>2. Len(r) > MaxRecords
    BY <1>4, <1>6, <2>1
  <2>3. <<>> \in Seq(V)
    BY <1>2, NothingBehind
  <2>4. (kind = "sse" => b \in Seq(Text)) /\ (kind = "aws" => b \in Seq(Nat))
    BY DEF ReadSoFar
  <2> QED BY <1>1, <1>2, <2>1, <2>2, <2>3, <2>4 DEF ReadSoFar
<1> QED BY <1>3, <1>5, <1>6

-----------------------------------------------------------------------------

LEMMA FramingInitKept ==
  ASSUME FramingInit
  PROVE  FramingInv
<1>1. MaxEvent \in Nat
  BY FramingAssumption
<1>2. /\ framing \in {"sse", "aws"} /\ body = <<>> /\ parser = NewParser /\ pending = <<>>
      /\ handed = <<>> /\ reading = "open"
  BY DEF FramingInit
<1>3. PICK V : V = RecordsIn(framing)
  OBVIOUS
<1>4. PICK z \in Seq(V) : z = <<>>
  <2>1. <<>> \in Seq(V)
    OBVIOUS
  <2> QED BY <2>1
<1>5. z \o z = z
  BY <1>4, NothingBehind
<1>6. SseAt(<<>>, NewParser, z) /\ ~ Broken(<<>>) /\ AwsAt(<<>>, NewParser, z) /\ ~ AwsRecords(<<>>).broken
  BY <1>1, <1>4, TextBegins, FramesBegin
<1>7. <<>> \in Seq(Text) /\ <<>> \in Seq(Nat)
  OBVIOUS
<1>8. PICK r : r = SaidIn(framing, body)
  OBVIOUS
<1>9. ~ r.broken
  <2>1. ~ SseRecords(<<>>).broken
    BY <1>6, BrokenText
  <2> QED BY <1>2, <1>6, <1>8, <2>1 DEF SaidIn
<1>10. Begins(z, r.records)
  <2>1. CASE framing = "sse"
    <3>1. PICK b \in Seq(Text) : b = <<>>
      BY <1>7
    <3>2. PICK y \in Seq(SseRecord) : y = z
      BY <1>3, <2>1 DEF RecordsIn
    <3>3. PICK q, o : q = [NewParser EXCEPT !.out = <<>>] /\ o = NewParser.out
      OBVIOUS
    <3>4. o \in Seq(SseRecord) /\ y \o o = SseSaid(b)
      BY <1>6, <3>1, <3>2, <3>3, SseEmptied
    <3>5. Begins(y, SseSaid(b))
      BY <3>4, BeginsJoin
    <3>6. Begins(y, SseRecords(b).records)
      BY <3>5, SaidBegins
    <3> QED BY <1>2, <1>8, <2>1, <3>1, <3>2, <3>6 DEF SaidIn
  <2>2. CASE framing = "aws"
    <3>1. PICK b \in Seq(Nat) : b = <<>>
      BY <1>7
    <3>2. PICK y \in Seq(AwsRecord) : y = z
      BY <1>3, <2>2 DEF RecordsIn
    <3>3. PICK q, o : q = AwsFinish(NewParser) /\ o = NewParser.out
      OBVIOUS
    <3>4. y \o o = AwsRecords(b).records /\ o \in Seq(AwsRecord)
      BY <1>1, <1>6, <3>1, <3>2, <3>3, FramesEnd
    <3>5. Begins(y, AwsRecords(b).records)
      <4>1. Begins(y, y \o o)
        BY <3>4, BeginsJoin
      <4> QED BY <3>4, <4>1
    <3> QED BY <1>2, <1>8, <2>2, <3>1, <3>2, <3>5 DEF SaidIn
  <2> QED BY <1>2, <2>1, <2>2
<1>11. ReadSoFar(framing, body, parser, z, z, "open")
  BY <1>2, <1>3, <1>5, <1>6, <1>7, <1>8, <1>9, <1>10, <1>4 DEF ReadSoFar
<1> QED BY <1>2, <1>4, <1>11 DEF FramingInv

LEMMA FramingStepKept ==
  ASSUME FramingInv, [FramingNext]_framing_vars
  PROVE  FramingInv'
<1>1. MaxEvent \in Nat /\ MaxRecords \in Nat
  BY FramingAssumption
<1>2. CASE UNCHANGED framing_vars
  BY <1>2 DEF FramingInv, framing_vars
<1>3. CASE NextChunk
  <2>1. PICK n \in 1 .. MaxChunk : \E chunk \in [1 .. n -> Byte(framing)] :
           body' = body \o chunk /\ Parsed(Feed(parser, chunk), "open")
    BY <1>3 DEF NextChunk
  <2>2. PICK chunk \in [1 .. n -> Byte(framing)] :
           body' = body \o chunk /\ Parsed(Feed(parser, chunk), "open")
    BY <2>1
  <2>3. /\ framing' = framing /\ handed' = handed
        /\ ReadSoFar(framing, body, parser, handed, <<>>, "open")
    BY <1>3 DEF NextChunk, FramingInv
  <2>4. chunk \in Seq(Byte(framing))
    <3>1. n \in Nat
      BY FramingAssumption
    <3> QED BY <3>1
  <2>5. PICK next : next = Feed(parser, chunk)
    OBVIOUS
  <2>6. /\ parser' = [next EXCEPT !.out = <<>>]
        /\ pending' = IF next.failed THEN <<>> ELSE next.out
        /\ reading' = IF next.failed THEN "failed" ELSE "open"
    BY <2>2, <2>5 DEF Parsed
  <2>7. PICK e : e = body' /\ Joined(body, chunk, e)
    BY <2>2 DEF Joined
  <2>8. PICK left : left = pending' /\ left = IF next.failed THEN <<>> ELSE next.out
    BY <2>6
  <2>9. PICK state : state = reading' /\ state = IF next.failed THEN "failed" ELSE "open"
    BY <2>6
  <2>10. CASE framing = "sse"
    <3>1. chunk \in Seq(Text) /\ next = SseFeed(parser, chunk)
      BY <2>4, <2>5, <2>10 DEF Text, Feed
    <3>2. ReadSoFar("sse", body, parser, handed, <<>>, "open")
      BY <2>3, <2>10
    <3>3. ReadSoFar("sse", e, [next EXCEPT !.out = <<>>], handed, left, state)
      BY <1>1, <2>7, <2>8, <2>9, <3>1, <3>2, TextChunkKept
    <3> QED BY <2>3, <2>6, <2>7, <2>8, <2>9, <2>10, <3>3 DEF FramingInv
  <2>11. CASE framing = "aws"
    <3>1. chunk \in Seq(Nat) /\ next = AwsFeed(parser, chunk)
      <4>1. Byte(framing) \subseteq Nat
        BY <1>1, <2>11 DEF Byte
      <4> QED BY <2>4, <2>5, <2>11, <4>1, WiderSeq DEF Feed
    <3>2. ReadSoFar("aws", body, parser, handed, <<>>, "open")
      BY <2>3, <2>11
    <3>3. ReadSoFar("aws", e, [next EXCEPT !.out = <<>>], handed, left, state)
      BY <1>1, <2>7, <2>8, <2>9, <3>1, <3>2, FrameChunkKept
    <3> QED BY <2>3, <2>6, <2>7, <2>8, <2>9, <2>11, <3>3 DEF FramingInv
  <2>12. framing \in {"sse", "aws"}
    BY <2>3 DEF ReadSoFar
  <2> QED BY <2>10, <2>11, <2>12
<1>4. CASE BodyEnds
  <2>1. /\ framing' = framing /\ body' = body /\ handed' = handed /\ Parsed(FinishBody(parser), "ended")
        /\ ReadSoFar(framing, body, parser, handed, <<>>, "open")
    BY <1>4 DEF BodyEnds, FramingInv
  <2>2. PICK next : next = FinishBody(parser)
    OBVIOUS
  <2>3. PICK left : left = pending' /\ left = IF next.failed THEN <<>> ELSE next.out
    BY <2>1, <2>2 DEF Parsed
  <2>4. PICK state : state = reading' /\ state = IF next.failed THEN "failed" ELSE "ended"
    BY <2>1, <2>2 DEF Parsed
  <2>5. next = IF framing = "sse" THEN SseFinish(parser) ELSE AwsFinish(parser)
    BY <2>2 DEF FinishBody
  <2>6. PICK q : q = parser'
    OBVIOUS
  <2>7. ReadSoFar(framing, body, q, handed, left, state)
    BY <1>1, <2>1, <2>3, <2>4, <2>5, EndKept
  <2> QED BY <2>1, <2>3, <2>4, <2>6, <2>7 DEF FramingInv
<1>5. CASE HandRecord
  <2>1. /\ framing' = framing /\ body' = body /\ parser' = parser /\ reading # "failed" /\ pending # <<>>
        /\ ReadSoFar(framing, body, parser, handed, pending, reading)
    BY <1>5 DEF HandRecord, FramingInv
  <2>2. /\ ReadSoFar(framing, body, parser, Append(handed, Head(pending)), Tail(pending), reading)
        /\ Len(handed) = MaxRecords => ReadSoFar(framing, body, parser, handed, <<>>, "failed")
    BY <1>1, <2>1, HandKept
  <2>3. CASE Len(handed) = MaxRecords
    BY <1>5, <2>1, <2>2, <2>3 DEF HandRecord, FramingInv
  <2>4. CASE Len(handed) # MaxRecords
    BY <1>5, <2>1, <2>2, <2>4 DEF HandRecord, FramingInv
  <2> QED BY <2>3, <2>4
<1> QED BY <1>2, <1>3, <1>4, <1>5 DEF FramingNext

\* What the invariant says of the records.
LEMMA FramingInvSays ==
  ASSUME FramingInv
  PROVE  CutAnyhow
<1>1. PICK V, r : V = RecordsIn(framing) /\ r = SaidIn(framing, body)
  OBVIOUS
<1>2. Said = r /\ (EndsInside(framing, body) <=> framing = "aws" /\ r.rest)
  BY <1>1 DEF Said, SaidIn, EndsInside
<1>3. handed \in Seq(V) /\ pending \in Seq(V) /\ reading \in {"open", "ended", "failed"}
  BY <1>1 DEF FramingInv, ReadSoFar
<1>4. /\ reading # "failed" => Begins(handed \o pending, r.records) /\ ~ r.broken
      /\ reading = "ended" => handed \o pending = r.records /\ ~ EndsInside(framing, body)
      /\ reading = "failed" =>
           /\ Begins(handed, r.records)
           /\ r.broken \/ Len(r.records) > MaxRecords \/ EndsInside(framing, body)
  BY <1>1 DEF FramingInv, ReadSoFar
<1>5. Begins(handed, r.records)
  <2>1. CASE reading = "failed"
    BY <1>4, <2>1
  <2>2. CASE reading # "failed"
    BY <1>3, <1>4, <2>2, BeginsLess
  <2> QED BY <2>1, <2>2
<1>6. IsPrefix(handed, r.records)
  BY <1>5, BeginsIs
<1>7. reading = "ended" /\ pending = <<>> => handed = r.records
  BY <1>3, <1>4, NothingBehind
<1> QED BY <1>2, <1>4, <1>6, <1>7 DEF CutAnyhow

\* However the network cuts a body of either framing, and however large the bounds
\* are: what RecordStream::next has handed over are the first records of the body,
\* in order, and all of them once the body ended; it fails for what the body says
\* and never for where a chunk ended (sse.rs, aws_eventstream.rs, record.rs).
THEOREM CutIsIrrelevant == FramingSpec => []CutAnyhow
<1>1. FramingInit => FramingInv
  BY FramingInitKept
<1>2. FramingInv /\ [FramingNext]_framing_vars => FramingInv'
  BY FramingStepKept
<1>3. FramingInv => CutAnyhow
  BY FramingInvSays
<1> QED BY <1>1, <1>2, <1>3, PTL DEF FramingSpec

-----------------------------------------------------------------------------
\* All of it of the services together: a step of one of them is a step of that
\* component or leaves it alone (storage, config_file.rs, mcp.rs, search.rs and
\* record.rs share nothing).
THEOREM ServicesSafe ==
  ServicesSpec =>
    []CacheCoherent /\ []FileAsHeld /\ SavesFollow /\ []McpKept /\ []WebAsksAll
    /\ []CutAnyhow
<1>1. ServicesInit => StorageInit /\ SettingsInit /\ McpInit /\ WebInit /\ FramingInit
  BY DEF ServicesInit
<1>2. [ServicesNext]_service_vars => [StorageNext]_storage_vars
  BY DEF ServicesNext, service_vars
<1>3. [ServicesNext]_service_vars => [SettingsNext]_settings_vars
  BY DEF ServicesNext, service_vars
<1>4. [ServicesNext]_service_vars => [McpNext]_mcp_vars
  BY DEF ServicesNext, service_vars
<1>5. [ServicesNext]_service_vars => [WebNext]_web_vars
  BY DEF ServicesNext, service_vars
<1>6. [ServicesNext]_service_vars => [FramingNext]_framing_vars
  BY DEF ServicesNext, service_vars
<1>7. ServicesSpec => StorageSpec /\ SettingsSpec /\ McpSpec /\ WebSpec /\ FramingSpec
  BY <1>1, <1>2, <1>3, <1>4, <1>5, <1>6, PTL
     DEF ServicesSpec, StorageSpec, SettingsSpec, McpSpec, WebSpec, FramingSpec
<1> QED
  BY <1>7, CacheIsCoherent, FileIsHeld, SavesDoFollow, McpIsKept, WebAsksEveryone, CutIsIrrelevant, PTL
=============================================================================
