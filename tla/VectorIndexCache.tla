-------------------------- MODULE VectorIndexCache --------------------------
(***************************************************************************)
(* The per-segment cache of vector indexes (faiss_vector_cache.go) and the *)
(* vectorIndexWrapper through which a query uses it (InterpretVectorIndex, *)
(* faiss_vector_posting.go).                                               *)
(*                                                                         *)
(* Every critical section of vc.m is one action: what it reads and writes  *)
(* is protected by the lock, except the two atomics refs and sample, which *)
(* are only updated while the read lock is held.  What runs outside the    *)
(* lock is separate: the gaps of loadOrCreate between RUnlock and Lock,    *)
(* the use of the index between loadOrCreate and the wrapper's Close, and  *)
(* the goroutine that entry.close() starts.                                *)
(*                                                                         *)
(* The averages are integers, 1/Precision units rounded up: a positive     *)
(* average stays positive, as the floating-point one does, and the         *)
(* eviction threshold 0.6 is representable.  A document has one vector, so *)
(* vecDocIDMap and docVecIDMap are sets of documents.                      *)
(***************************************************************************)
EXTENDS Integers, FiniteSets

CONSTANTS
  Users,      \* goroutines that query the segment
  Fields,     \* fields that have a vector section
  Docs,       \* documents that have a vector in each of the fields
  Excepts,    \* the deleted-document bitmaps a query may pass
  Entries,    \* cacheEntry structures; one is reused once it is garbage
  NoEntry,    \* the map has no value for the key
  NoMap,      \* a nil docVecIDMap
  NoHandle,   \* the user has no query under way
  Precision,  \* an average of 1.0 is this many units; a multiple of 5
  MaxSample   \* bound: hits of one entry between two ticks of the monitor

VARIABLES
  cache,      \* vc.cache: the entry of each field
  entries,    \* the cacheEntry structures, with the index each one owns
  cleared,    \* closeCh is closed and vc.cache is nil
  monitors,   \* number of monitor goroutines that have not returned
  pc,         \* where each user is in a query
  handle      \* what loadOrCreate gave each user

vars == <<cache, entries, cleared, monitors, pc, handle>>

Maps == {NoMap} \cup SUBSET Docs

Entry == [index   : {"open", "closing", "closed"},
          refs    : Int,
          sample  : Nat,
          avg     : Nat,
          vecDocs : SUBSET Docs,
          docVecs : Maps]

Request == [field : Fields, filtered : BOOLEAN, except : Excepts]

Handle == [req     : Request,
           entry   : Entries \cup {NoEntry},
           vecDocs : SUBSET Docs,
           docVecs : Maps,
           exclude : SUBSET Docs]

\* "missed" and "unmapped": between RUnlock and Lock in loadOrCreate.
\* "held": the wrapper was returned and has not been closed.
Phases == {"idle", "missed", "unmapped", "held"}

ASSUME CacheAssumption ==
  /\ IsFiniteSet(Users)
  /\ NoEntry \notin Entries
  /\ Excepts \subseteq SUBSET Docs
  /\ Precision \in {5, 10, 20}
  /\ MaxSample \in Nat \ {0}

-----------------------------------------------------------------------------
Cached == {cache[f] : f \in Fields} \ {NoEntry}

\* The users that took a reference on the entry and have not given it back.
Holders(e) ==
  {u \in Users : pc[u] \in {"unmapped", "held"} /\ handle[u].entry = e}

\* A structure nothing refers to: not allocated yet, or closed and dropped.
Unused == [index |-> "closed", refs |-> 0, sample |-> 0, avg |-> 0,
           vecDocs |-> {}, docVecs |-> NoMap]

\* The garbage collector may reuse what no goroutine can reach any more.
Garbage(e) == entries[e].index = "closed" /\ Holders(e) = {}

\* Mutant of HasMap: the wrong map of the entry is tested.
MutHasMapOther(e) == entries[e].vecDocs # {}

\* len(entry.docVecIDMap) > 0
HasMap(e) == entries[e].docVecs \notin {NoMap, {}}

\* Mutant of Load: the hit is counted, the reference is not taken.
MutLoadNoRef(e) == [entries[e] EXCEPT !.sample = @ + 1]

\* cacheEntry.load: incHit, addRef and the three fields of the entry.
Load(e) == [entries[e] EXCEPT !.sample = @ + 1, !.refs = @ + 1]

\* Mutant of Loaded: a hit reuses the cached maps without looking at except.
MutLoadedNoExclude(req, e, docVecs) ==
  [req |-> req, entry |-> e, vecDocs |-> entries[e].vecDocs,
   docVecs |-> docVecs, exclude |-> {}]

\* getVecIDsToExclude gives the last field.
Loaded(req, e, docVecs) ==
  [req |-> req, entry |-> e, vecDocs |-> entries[e].vecDocs,
   docVecs |-> docVecs, exclude |-> entries[e].vecDocs \cap req.except]

\* What addDocVecIDMapToCacheLOCKED returns and leaves in the entry.
FilledMap(e) ==
  IF entries[e].docVecs = NoMap THEN entries[e].vecDocs ELSE entries[e].docVecs

\* Mutant of EwmaAdd: a second without traffic leaves the average alone.
MutEwmaAddIdle(avg, sample) ==
  IF sample = 0 THEN avg ELSE (4 * Precision * sample + 6 * avg + 9) \div 10

\* Mutant of EwmaAdd: the first sample is averaged with nothing before it.
MutEwmaAddNoStart(avg, sample) == (4 * Precision * sample + 6 * avg + 9) \div 10

\* ewma.add with alpha = 0.4.
EwmaAdd(avg, sample) ==
  IF avg = 0 THEN Precision * sample
             ELSE (4 * Precision * sample + 6 * avg + 9) \div 10

Threshold == (6 * Precision) \div 10   \* 1 - alpha

-----------------------------------------------------------------------------
Init ==
  /\ cache = [f \in Fields |-> NoEntry]
  /\ entries = [e \in Entries |-> Unused]
  /\ cleared = FALSE
  /\ monitors = 0
  /\ pc = [u \in Users |-> "idle"]
  /\ handle = [u \in Users |-> NoHandle]

\* loadOrCreate, the section under the read lock: the field is cached.  A
\* filtered query that finds no docVecIDMap goes on to build it.
LoadHit(u, req) ==
  LET e == cache[req.field] IN
  /\ pc[u] = "idle"
  /\ e # NoEntry
  /\ entries[e].sample < MaxSample
  /\ entries' = [entries EXCEPT ![e] = Load(e)]
  /\ handle' = [handle EXCEPT ![u] = Loaded(req, e, entries[e].docVecs)]
  /\ pc' = [pc EXCEPT ![u] =
              IF req.filtered /\ ~HasMap(e) THEN "unmapped" ELSE "held"]
  /\ UNCHANGED <<cache, cleared, monitors>>

\* loadOrCreate, the section under the read lock: the field is not cached.
LoadMiss(u, req) ==
  /\ pc[u] = "idle"
  /\ cache[req.field] = NoEntry
  /\ handle' = [handle EXCEPT ![u] =
                  [req |-> req, entry |-> NoEntry, vecDocs |-> {},
                   docVecs |-> NoMap, exclude |-> {}]]
  /\ pc' = [pc EXCEPT ![u] = "missed"]
  /\ UNCHANGED <<cache, entries, cleared, monitors>>

\* addDocVecIDMapToCacheLOCKED, for the entry loaded before the lock was
\* taken; the entry is reached by pointer, not looked up again.
AddDocVecIDMap(u) ==
  LET e == handle[u].entry IN
  /\ pc[u] = "unmapped"
  /\ entries' = [entries EXCEPT ![e].docVecs = FilledMap(e)]
  /\ handle' = [handle EXCEPT ![u].docVecs = FilledMap(e)]
  /\ pc' = [pc EXCEPT ![u] = "held"]
  /\ UNCHANGED <<cache, cleared, monitors>>

\* createAndCacheLOCKED: another query cached the field in the meantime.
CreateFound(u) ==
  LET req == handle[u].req
      e   == cache[req.field]
      map == IF req.filtered /\ ~HasMap(e) THEN FilledMap(e)
                                           ELSE entries[e].docVecs
  IN
  /\ pc[u] = "missed"
  /\ e # NoEntry
  /\ entries[e].sample < MaxSample
  /\ entries' = [entries EXCEPT ![e] = [Load(e) EXCEPT !.docVecs = map]]
  /\ handle' = [handle EXCEPT ![u] = Loaded(req, e, map)]
  /\ pc' = [pc EXCEPT ![u] = "held"]
  /\ UNCHANGED <<cache, cleared, monitors>>

\* Mutant of CreateNew: the cache is not looked up again under the lock, and
\* insertLOCKED leaves the entry that is there.
MutCreateNewUnchecked(u) ==
  LET req     == handle[u].req
      vecDocs == Docs \ req.except
      docVecs == IF req.filtered THEN vecDocs ELSE NoMap
  IN
  /\ pc[u] = "missed"
  /\ \E e \in Entries :
       /\ Garbage(e)
       /\ entries' = [entries EXCEPT ![e] =
                        [index |-> "open", refs |-> 1, sample |-> 1, avg |-> 0,
                         vecDocs |-> vecDocs, docVecs |-> docVecs]]
       /\ cache' = [cache EXCEPT ![req.field] = IF @ = NoEntry THEN e ELSE @]
       /\ handle' = [handle EXCEPT ![u] =
                       [req |-> req, entry |-> e, vecDocs |-> vecDocs,
                        docVecs |-> docVecs, exclude |-> req.except]]
  /\ monitors' = IF Cached = {} THEN monitors + 1 ELSE monitors
  /\ pc' = [pc EXCEPT ![u] = "held"]
  /\ UNCHANGED cleared

\* createAndCacheLOCKED with insertLOCKED: parse the section, leave out the
\* documents of except, read the index, insert the entry with one reference
\* and one hit, and start a monitor for the first entry of the cache.
CreateNew(u) ==
  LET req     == handle[u].req
      vecDocs == Docs \ req.except
      docVecs == IF req.filtered THEN vecDocs ELSE NoMap
  IN
  /\ pc[u] = "missed"
  /\ cache[req.field] = NoEntry
  /\ \E e \in Entries :
       /\ Garbage(e)
       /\ entries' = [entries EXCEPT ![e] =
                        [index |-> "open", refs |-> 1, sample |-> 1, avg |-> 0,
                         vecDocs |-> vecDocs, docVecs |-> docVecs]]
       /\ cache' = [cache EXCEPT ![req.field] = e]
       /\ handle' = [handle EXCEPT ![u] =
                       [req |-> req, entry |-> e, vecDocs |-> vecDocs,
                        docVecs |-> docVecs, exclude |-> req.except]]
  /\ monitors' = IF Cached = {} THEN monitors + 1 ELSE monitors
  /\ pc' = [pc EXCEPT ![u] = "held"]
  /\ UNCHANGED cleared

\* createAndCacheLOCKED when ReadIndexFromBuffer fails: nothing is cached and
\* the caller drops the wrapper without closing it.
CreateFail(u) ==
  /\ pc[u] = "missed"
  /\ cache[handle[u].req.field] = NoEntry
  /\ pc' = [pc EXCEPT ![u] = "idle"]
  /\ handle' = [handle EXCEPT ![u] = NoHandle]
  /\ UNCHANGED <<cache, entries, cleared, monitors>>

\* The wrapper's Close: decRef looks the entry up by field.
DecRef(u) ==
  LET e == cache[handle[u].req.field] IN
  /\ pc[u] = "held"
  /\ entries' = IF e = NoEntry THEN entries
                               ELSE [entries EXCEPT ![e].refs = @ - 1]
  /\ pc' = [pc EXCEPT ![u] = "idle"]
  /\ handle' = [handle EXCEPT ![u] = NoHandle]
  /\ UNCHANGED <<cache, cleared, monitors>>

-----------------------------------------------------------------------------
NewAvg(e) == EwmaAdd(entries[e].avg, entries[e].sample)

\* Mutant of Evictable: a cold entry goes although a query uses it.
MutEvictableInUse(e) == NewAvg(e) <= Threshold

Evictable(e) == NewAvg(e) <= Threshold /\ entries[e].refs <= 0

\* Mutant of Cleanup: the monitor returns when it finds the cache empty, not
\* when it has emptied it.
MutCleanupStopsLate ==
  LET evicted == {e \in Cached : Evictable(e)} IN
  /\ monitors > 0
  /\ ~cleared
  /\ entries' = [e \in Entries |->
       IF e \notin Cached THEN entries[e]
       ELSE [entries[e] EXCEPT
               !.avg    = NewAvg(e),
               !.sample = 0,
               !.index  = IF e \in evicted THEN "closing" ELSE @]]
  /\ cache' = [f \in Fields |->
                 IF cache[f] \in evicted THEN NoEntry ELSE cache[f]]
  /\ monitors' = IF Cached = {} THEN monitors - 1 ELSE monitors
  /\ UNCHANGED <<cleared, pc, handle>>

\* One tick of a monitor: cleanup folds the sample of every entry into its
\* average, drops the cold ones and starts the goroutines that close them.
\* The monitor returns when the cache is left empty.
Cleanup ==
  LET evicted == {e \in Cached : Evictable(e)} IN
  /\ monitors > 0
  /\ ~cleared
  /\ entries' = [e \in Entries |->
       IF e \notin Cached THEN entries[e]
       ELSE [entries[e] EXCEPT
               !.avg    = NewAvg(e),
               !.sample = 0,
               !.index  = IF e \in evicted THEN "closing" ELSE @]]
  /\ cache' = [f \in Fields |->
                 IF cache[f] \in evicted THEN NoEntry ELSE cache[f]]
  /\ monitors' = IF Cached = evicted THEN monitors - 1 ELSE monitors
  /\ UNCHANGED <<cleared, pc, handle>>

\* The goroutine of cacheEntry.close; nothing reaches the entry afterwards.
CloseEntry(e) ==
  /\ entries[e].index = "closing"
  /\ entries' = [entries EXCEPT ![e] = Unused]
  /\ UNCHANGED <<cache, cleared, monitors, pc, handle>>

\* Mutant of MonitorStop: closeCh is looked at while there is an entry only.
MutMonitorStopBusy ==
  /\ monitors > 0
  /\ cleared
  /\ Cached # {}
  /\ monitors' = monitors - 1
  /\ UNCHANGED <<cache, entries, cleared, pc, handle>>

\* A monitor returns because closeCh is closed, or because its tick finds the
\* nil map empty.
MonitorStop ==
  /\ monitors > 0
  /\ cleared
  /\ monitors' = monitors - 1
  /\ UNCHANGED <<cache, entries, cleared, pc, handle>>

\* What the segment owes the cache: Clear only when no query is under way.
\* Module Segment discharges it.
Quiescent == \A u \in Users : pc[u] = "idle"

\* Clear; a query after it would insert into a nil map, and a second Clear
\* would close closeCh again.
Clear ==
  /\ ~cleared
  /\ cleared' = TRUE
  /\ entries' = [e \in Entries |->
       IF e \in Cached THEN [entries[e] EXCEPT !.index = "closing"]
                       ELSE entries[e]]
  /\ cache' = [f \in Fields |-> NoEntry]
  /\ UNCHANGED <<monitors, pc, handle>>

LoadOrCreate(u, req) == LoadHit(u, req) \/ LoadMiss(u, req)
CreateAndCache(u) == CreateFound(u) \/ CreateNew(u) \/ CreateFail(u)

Next ==
  \/ \E u \in Users :
       \/ ~cleared /\ \E req \in Request : LoadOrCreate(u, req)
       \/ AddDocVecIDMap(u)
       \/ CreateAndCache(u)
       \/ DecRef(u)
  \/ Cleanup
  \/ \E e \in Entries : CloseEntry(e)
  \/ MonitorStop
  \/ Quiescent /\ Clear

Spec == Init /\ [][Next]_vars

-----------------------------------------------------------------------------
TypeOK ==
  /\ cache \in [Fields -> Entries \cup {NoEntry}]
  /\ entries \in [Entries -> Entry]
  /\ cleared \in BOOLEAN
  /\ monitors \in Nat
  /\ pc \in [Users -> Phases]
  /\ handle \in [Users -> {NoHandle} \cup Handle]

\* Use after close (faiss_vector_cache.go:203-229, 322-329): from the moment
\* loadOrCreate has taken its reference until the wrapper is closed, the index
\* the query searches outside the lock is not closed and no goroutine is about
\* to close it.
IndexOpenWhileHeld ==
  \A u \in Users :
    pc[u] \in {"unmapped", "held"} => entries[handle[u].entry].index = "open"

\* The reference count of a cached entry is the number of queries that use it:
\* decRef, which finds the entry by field, gives back the reference to the
\* entry it was taken from, and no failed or concurrent creation leaks one.
RefsAreHolders ==
  \A e \in Cached : entries[e].refs = Cardinality(Holders(e))

\* An index that is not being closed is in the cache, under one field: two
\* queries that miss together do not build an index that nobody will close.
NoIndexLeak ==
  \A e \in Entries : entries[e].index = "open" =>
    Cardinality({f \in Fields : cache[f] = e}) = 1

\* insertLOCKED starts a monitor when the cache is empty and cleanup stops it
\* when it leaves the cache empty: a cache that holds an entry has exactly one
\* monitor, and an empty one has none.
OneMonitor ==
  ~cleared => monitors = IF Cached = {} THEN 0 ELSE 1

\* A filtered query gets the document map of its entry, complete, even when it
\* raced with the query that built the entry or the map.
FilteredHasMap ==
  \A u \in Users : pc[u] = "held" /\ handle[u].req.filtered =>
    handle[u].docVecs = handle[u].vecDocs

\* The documents an unfiltered search can return: the index returns vectors
\* that are not excluded, addIDsToPostingsList keeps those the map knows.
Hits(h) == (Docs \ h.exclude) \cap h.vecDocs

\* A search never returns a document its own except bitmap deletes, whichever
\* query, with whichever bitmap, built the cached maps.
NoDeletedHit ==
  \A u \in Users : pc[u] = "held" => Hits(handle[u]) \cap handle[u].req.except = {}

\* An entry that no query uses any more is dropped and its index closed.
ColdIndexClosed ==
  \A f \in Fields :
    <>[](\A u \in Users : pc[u] = "idle" \/ handle[u].req.field # f)
      => <>[](cache[f] = NoEntry)

\* An index is evicted for lack of queries only (faiss_vector_cache.go:208-221,
\* 261-270): the tick after it was read, however soon that comes, leaves it in
\* the cache, and one that was queried since the last tick goes only if its
\* average had fallen to a third of a query per second before.
EvictedWhenCold ==
  [][\A f \in Fields :
       cache[f] # NoEntry /\ cache'[f] = NoEntry /\ ~cleared' =>
         LET e == entries[cache[f]]
         IN  e.avg > 0 /\ (e.sample = 0 \/ 3 * e.avg <= Precision)]_vars

\* Clear ends the monitor.
MonitorEnds == cleared ~> monitors = 0

\* The cache implements IndexLease: a query holds its index from the reference
\* it takes to its Close, and an index whose close was scheduled is retired.
lease == [u \in Users |->
            IF pc[u] \in {"unmapped", "held"} THEN handle[u].entry ELSE NoEntry]

retired == {e \in Entries : entries[e].index = "closing"}

Lease == INSTANCE IndexLease WITH
           Indexes <- Entries, None <- NoEntry, serving <- cache

ImplementsLease == Lease!LeaseFairSpec

LeaseSafety == Lease!LeaseSpec

\* faiss_vector_cache.go:124-125 says that on a miss the vector to document map
\* is constructed out of the mem bytes: a later query would find in the cached
\* map every document of the section that its own bitmap does not delete.
MapOfTheSection ==
  \A u \in Users : pc[u] = "held" =>
    Docs \ handle[u].req.except \subseteq handle[u].vecDocs
=============================================================================
