----------------------------- MODULE StorageEngine -----------------------------
(***************************************************************************)
(* The storage engine (storage/database.rs, transaction.rs, cache.rs):     *)
(* one thread owns the database and an LRU cache of decoded values, and    *)
(* runs one transaction at a time.  A transaction reads through the cache  *)
(* and writes to the database alone; it keeps the keys it has written as   *)
(* dirty and drops them from the cache once it has committed.  A           *)
(* transaction that fails, panics or was only rehearsed is rolled back and *)
(* leaves the cache as it is.                                              *)
(***************************************************************************)
EXTENDS Naturals, FiniteSets

CONSTANTS Object,      \* names of stored objects
          List,        \* names of stored lists
          Namespace,   \* sets of names that are deleted together
          Value,       \* decoded values
          Released,    \* what stands at a released position: an empty row
          Nothing,     \* no such object, list, item or page
          PageSize,    \* list.rs PAGE_SIZE
          MaxLength,   \* bound on the items of a list
          MaxEdits     \* bound on the writes of one transaction

ASSUME StorageAssumption ==
  /\ PageSize \in Nat \ {0} /\ MaxLength \in Nat /\ MaxEdits \in Nat
  /\ Namespace \subseteq SUBSET (Object \cup List)
  /\ Nothing \notin Value /\ Released \notin Value /\ Nothing # Released

VARIABLES stored,    \* what has been committed
          working,   \* the database as the running transaction sees it
          cache,     \* decoded values, each with its key
          dirty,     \* keys the running transaction has written
          running,   \* whether a transaction runs
          edits      \* writes it has made

storage_vars == <<stored, working, cache, dirty, running, edits>>

Position == 0 .. MaxLength - 1

PageOf(position) == position \div PageSize

ObjectKey(o) == [kind |-> "object", name |-> o, at |-> 0]
ItemKey(l, i) == [kind |-> "item", name |-> l, at |-> i]
PageKey(l, n) == [kind |-> "page", name |-> l, at |-> n]

CacheKey ==
  {ObjectKey(o) : o \in Object} \cup {ItemKey(l, i) : l \in List, i \in Position}
    \cup {PageKey(l, PageOf(i)) : l \in List, i \in Position}

\* A list's rows by position.
Rows == UNION {[0 .. n - 1 -> Value \cup {Released}] : n \in 0 .. MaxLength}

\* A list that is there is not a list that is not.
ASSUME ListAssumption == Nothing \notin Rows

Length(rows) == Cardinality(DOMAIN rows)

Database == [objects : [Object -> Value \cup {Nothing}], lists : [List -> Rows \cup {Nothing}]]

PageRows(rows, n) == {i \in DOMAIN rows : PageOf(i) = n}

\* What the database holds under a key.
View(database, key) ==
  IF key.kind = "object" THEN database.objects[key.name]
  ELSE IF database.lists[key.name] = Nothing THEN Nothing
  ELSE LET rows == database.lists[key.name]
       IN  IF key.kind = "item"
           THEN IF key.at \in DOMAIN rows THEN rows[key.at] ELSE Nothing
           ELSE IF PageRows(rows, key.at) = {} THEN Nothing
                ELSE [i \in PageRows(rows, key.at) |-> rows[i]]

Cached(key) == {entry \in cache : entry.key = key}

\* What a read of a key answers: an entry of the cache unless the transaction
\* has written the key, otherwise the row.  A list's length comes from the
\* database, so its items and pages are asked for only where there are some.
Answers(key) ==
  IF key \notin dirty /\ (key.kind # "object" => View(working, key) # Nothing)
       /\ Cached(key) # {}
  THEN {entry.value : entry \in Cached(key)}
  ELSE {View(working, key)}

MayBeCached(key) == View(working, key) \notin {Nothing, Released}

\* cache_value stores what was read of a clean key; making room drops any of
\* the others, and a value larger than the cache is not taken.
CacheValue(key) ==
  IF key \in dirty \/ Cached(key) # {} \/ ~ MayBeCached(key)
  THEN cache' = cache
  ELSE \/ \E kept \in SUBSET cache :
            cache' = kept \cup {[key |-> key, value |-> View(working, key)]}
       \/ cache' = cache

ObjectsDirty(o) == {ObjectKey(o)}
\* Mutant: a change of an item leaves the page it is on.
ItemsDirtyAlone(l, positions) == {ItemKey(l, i) : i \in positions}
ItemsDirty(l, positions) ==
  {ItemKey(l, i) : i \in positions} \cup {PageKey(l, PageOf(i)) : i \in positions}

\* One write of the transaction.
Write(database, keys) ==
  /\ running
  /\ edits < MaxEdits
  /\ working' = database
  /\ dirty' = dirty \cup keys
  /\ edits' = edits + 1
  /\ UNCHANGED <<stored, running>>

\* dispatch hands the closure to the storage thread, which begins a transaction.
BeginTransaction ==
  /\ ~ running
  /\ running' = TRUE
  /\ UNCHANGED <<stored, working, cache, dirty, edits>>

ReadKey(key) ==
  /\ running
  /\ CacheValue(key)
  /\ UNCHANGED <<stored, working, dirty, running, edits>>

LoadObject(o) == working.objects[o] # Nothing /\ ReadKey(ObjectKey(o))

CreateObject(o, v) ==
  /\ working.objects[o] = Nothing
  /\ Write([working EXCEPT !.objects[o] = v], ObjectsDirty(o))
  /\ cache' = cache

\* The object is loaded first, to check its kind, and so may be cached as it was.
SaveObject(o, v) ==
  /\ working.objects[o] # Nothing
  /\ CacheValue(ObjectKey(o))
  /\ Write([working EXCEPT !.objects[o] = v], ObjectsDirty(o))

CreateList(l) ==
  /\ working.lists[l] = Nothing
  /\ Write([working EXCEPT !.lists[l] = [i \in {} |-> Released]], {})
  /\ cache' = cache

GetItem(l, i) ==
  /\ working.lists[l] # Nothing
  /\ i \in DOMAIN working.lists[l]
  /\ ReadKey(ItemKey(l, i))

\* read_page, and each page of read_from and for_each_item.
ReadPage(l, n) ==
  /\ working.lists[l] # Nothing
  /\ PageRows(working.lists[l], n) # {}
  /\ ReadKey(PageKey(l, n))

AppendItem(l, v) ==
  /\ working.lists[l] # Nothing
  /\ LET rows == working.lists[l]
         start == Length(rows)
     IN  /\ start < MaxLength
         /\ Write([working EXCEPT !.lists[l] =
                     [i \in 0 .. start |-> IF i = start THEN v ELSE rows[i]]],
                  ItemsDirty(l, {start}))
  /\ cache' = cache

SetItem(l, i, v) ==
  /\ working.lists[l] # Nothing
  /\ i \in DOMAIN working.lists[l]
  /\ Write([working EXCEPT !.lists[l] = [working.lists[l] EXCEPT ![i] = v]],
           ItemsDirty(l, {i}))
  /\ cache' = cache

\* The suffix moves one position down; everything from the position on changes.
RemoveItem(l, i) ==
  /\ working.lists[l] # Nothing
  /\ i \in DOMAIN working.lists[l]
  /\ LET rows == working.lists[l]
         length == Length(rows)
     IN  Write([working EXCEPT !.lists[l] =
                  [j \in 0 .. length - 2 |-> IF j < i THEN rows[j] ELSE rows[j + 1]]],
               ItemsDirty(l, i .. length - 1))
  /\ cache' = cache

\* A released position keeps its place and is never filled again.
ReleaseItem(l, i) ==
  /\ working.lists[l] # Nothing
  /\ i \in DOMAIN working.lists[l]
  /\ working.lists[l][i] # Released
  /\ Write([working EXCEPT !.lists[l] = [working.lists[l] EXCEPT ![i] = Released]],
           ItemsDirty(l, {i}))
  /\ cache' = cache

DeleteList(l) ==
  /\ working.lists[l] # Nothing
  /\ Write([working EXCEPT !.lists[l] = Nothing], ItemsDirty(l, DOMAIN working.lists[l]))
  /\ cache' = cache

\* Everything below a name goes.  The whole cache is cleared; no key becomes dirty.
DeleteNamespace(names) ==
  /\ Write([objects |-> [o \in Object |-> IF o \in names THEN Nothing ELSE working.objects[o]],
            lists |-> [l \in List |-> IF l \in names THEN Nothing ELSE working.lists[l]]], {})
  /\ cache' = {}

EndTransaction ==
  /\ dirty' = {}
  /\ edits' = 0
  /\ running' = FALSE

CommitTransaction ==
  /\ running
  /\ stored' = working
  /\ cache' = {entry \in cache : entry.key \notin dirty}
  /\ EndTransaction
  /\ UNCHANGED working

\* A rehearsal, an error of the closure or of the commit, or a panic.
RollbackTransaction ==
  /\ running
  /\ working' = stored
  /\ EndTransaction
  /\ UNCHANGED <<stored, cache>>

\* The process ends and opens the database again.
RestartStorage ==
  /\ working' = stored
  /\ cache' = {}
  /\ EndTransaction
  /\ UNCHANGED stored

StorageInit ==
  /\ stored = [objects |-> [o \in Object |-> Nothing], lists |-> [l \in List |-> Nothing]]
  /\ working = stored
  /\ cache = {} /\ dirty = {} /\ running = FALSE /\ edits = 0

StorageNext ==
  \/ BeginTransaction \/ CommitTransaction \/ RollbackTransaction \/ RestartStorage
  \/ \E o \in Object :
       \/ LoadObject(o)
       \/ \E v \in Value : CreateObject(o, v) \/ SaveObject(o, v)
  \/ \E l \in List :
       \/ CreateList(l) \/ DeleteList(l)
       \/ \E v \in Value : AppendItem(l, v)
       \/ \E i \in Position :
            \/ GetItem(l, i) \/ ReadPage(l, PageOf(i))
            \/ RemoveItem(l, i) \/ ReleaseItem(l, i)
            \/ \E v \in Value : SetItem(l, i, v)
  \/ \E names \in Namespace : DeleteNamespace(names)

StorageSpec == StorageInit /\ [][StorageNext]_storage_vars

StorageTypeOK ==
  /\ stored \in Database /\ working \in Database
  /\ cache \subseteq [key : CacheKey, value : {View(stored, k) : k \in CacheKey}]
  /\ dirty \subseteq CacheKey
  /\ running \in BOOLEAN /\ edits \in 0 .. MaxEdits

\* What a transaction reads under any key is what the database holds for it:
\* what it has written itself, and otherwise what was committed, however many
\* transactions committed, failed or were rehearsed before it, whatever of
\* them the cache kept, and whatever it made room by dropping.
CacheCoherent == \A key \in CacheKey : Answers(key) = {View(working, key)}

=============================================================================
