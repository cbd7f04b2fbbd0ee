--------------------------- MODULE Segment_proofs ---------------------------
(***************************************************************************)
(* Safety of the vector index cache for any number of users, fields,       *)
(* documents and entries, and then of the segment around it.               *)
(*                                                                         *)
(* The invariants of the cache are not inductive by themselves: that       *)
(* decRef gives the reference back to the right entry needs that a user's  *)
(* entry is still the one cached for its field, which needs that a         *)
(* referenced entry is not evicted, which needs that refs counts the users.*)
(*                                                                         *)
(* The reference count of the segment keeps every query away from          *)
(* closeActual, so the composition obeys the specification the cache was   *)
(* proved under, and inherits its theorems.                                *)
(***************************************************************************)
EXTENDS Segment, FiniteSetTheorems, TLAPS

\* A user holds a reference from loadOrCreate's load until decRef.
Holding(u) == pc[u] \in {"unmapped", "held"}

\* What a user in a query carries; its entry is the one its field still has.
HandleInv ==
  \A u \in Users : pc[u] # "idle" =>
    /\ handle[u] \in Handle
    /\ Holding(u) => /\ handle[u].entry \in Entries
                     /\ cache[handle[u].req.field] = handle[u].entry

\* The cache maps fields to open indexes, one to one, and to all of them.
CacheInv ==
  /\ \A f \in Fields : cache[f] # NoEntry => entries[cache[f]].index = "open"
  /\ \A f, g \in Fields : cache[f] = cache[g] /\ cache[f] # NoEntry => f = g
  /\ \A e \in Entries : entries[e].index = "open" => e \in Cached

RefsInv == RefsAreHolders

IInv == TypeOK /\ HandleInv /\ CacheInv /\ RefsInv

-----------------------------------------------------------------------------
\* The average stays a natural number.
LEMMA EwmaType ==
  ASSUME NEW avg \in Nat, NEW sample \in Nat
  PROVE  EwmaAdd(avg, sample) \in Nat
<1>1. CASE Precision = 5
  BY <1>1 DEF EwmaAdd
<1>2. CASE Precision = 10
  BY <1>2 DEF EwmaAdd
<1>3. CASE Precision = 20
  BY <1>3 DEF EwmaAdd
<1> QED  BY <1>1, <1>2, <1>3, CacheAssumption

\* The users of an entry are finitely many, so their number is a natural.
LEMMA HoldersFinite ==
  ASSUME NEW e
  PROVE  IsFiniteSet(Holders(e)) /\ Cardinality(Holders(e)) \in Nat
<1>1. Holders(e) \in SUBSET Users
  BY DEF Holders
<1> QED  BY <1>1, CacheAssumption, FS_Subset, FS_CardinalityType

\* A user that takes a reference adds one to the users of its entry only.
LEMMA HolderJoins ==
  ASSUME TypeOK, NEW u \in Users, NEW e, ~Holding(u), Holding(u)',
         handle[u].entry' = e,
         \A v \in Users \ {u} : pc'[v] = pc[v] /\ handle'[v] = handle[v]
  PROVE  /\ Cardinality(Holders(e)') = Cardinality(Holders(e)) + 1
         /\ \A d : d # e => Holders(d)' = Holders(d)
<1>1. Holders(e)' = Holders(e) \cup {u}
  BY DEF Holders, Holding
<1>2. u \notin Holders(e)
  BY DEF Holders, Holding
<1>3. \A d : d # e => Holders(d)' = Holders(d)
  BY DEF Holders, Holding
<1> QED  BY <1>1, <1>2, <1>3, HoldersFinite, FS_AddElement

\* A user that gives its reference back takes one from its entry only.
LEMMA HolderLeaves ==
  ASSUME TypeOK, NEW u \in Users, NEW e, Holding(u), ~Holding(u)',
         handle[u].entry = e,
         \A v \in Users \ {u} : pc'[v] = pc[v] /\ handle'[v] = handle[v]
  PROVE  /\ Cardinality(Holders(e)') = Cardinality(Holders(e)) - 1
         /\ \A d : d # e => Holders(d)' = Holders(d)
<1>1. Holders(e)' = Holders(e) \ {u}
  BY DEF Holders, Holding
<1>2. u \in Holders(e)
  BY DEF Holders, Holding
<1>3. \A d : d # e => Holders(d)' = Holders(d)
  BY DEF Holders, Holding
<1> QED  BY <1>1, <1>2, <1>3, HoldersFinite, FS_RemoveElement

\* Nothing changes for the references when every user keeps its entry.
LEMMA HoldersKept ==
  ASSUME \A u \in Users : (Holding(u) <=> Holding(u)')
                          /\ (Holding(u) => handle'[u].entry = handle[u].entry)
  PROVE  \A d : Holders(d)' = Holders(d)
BY DEF Holders, Holding

-----------------------------------------------------------------------------
LEMMA InitIInv == Init => IInv
<1> SUFFICES ASSUME Init PROVE IInv
  OBVIOUS
<1>1. Unused \in Entry
  BY DEF Unused, Entry, Maps
<1>2. TypeOK
  BY <1>1 DEF Init, TypeOK, Phases
<1>3. HandleInv /\ CacheInv
  BY CacheAssumption DEF Init, HandleInv, CacheInv, Unused, Cached, Holding
<1>4. RefsInv
  BY DEF Init, RefsInv, RefsAreHolders, Cached
<1> QED  BY <1>2, <1>3, <1>4 DEF IInv

\* Setting one field of an entry to a value of its type leaves an entry.
LEMMA SetField ==
  ASSUME NEW r \in Entry
  PROVE  /\ \A x \in {"open", "closing", "closed"} : [r EXCEPT !.index = x] \in Entry
         /\ \A x \in Int  : [r EXCEPT !.refs = x] \in Entry
         /\ \A x \in Nat  : [r EXCEPT !.sample = x] \in Entry
         /\ \A x \in Nat  : [r EXCEPT !.avg = x] \in Entry
         /\ \A x \in Maps : [r EXCEPT !.docVecs = x] \in Entry
BY DEF Entry

\* load leaves a well-formed entry, with one more reference.
LEMMA LoadType ==
  ASSUME NEW e, entries[e] \in Entry
  PROVE  /\ Load(e) \in Entry
         /\ Load(e).refs = entries[e].refs + 1
         /\ Load(e).index = entries[e].index
<1> DEFINE r == entries[e]
           s == [r EXCEPT !.sample = r.sample + 1]
<1>1. s \in Entry
  BY SetField DEF Entry
<1>2. r.refs + 1 \in Int
  BY DEF Entry
<1>3. [s EXCEPT !.refs = r.refs + 1] \in Entry
  <2> HIDE DEF s
  <2> QED  BY <1>1, <1>2, SetField
<1>4. Load(e) = [s EXCEPT !.refs = r.refs + 1]
  BY DEF Load
<1> QED  BY <1>3, <1>4 DEF Load, Entry

\* What addDocVecIDMapToCacheLOCKED builds is a map of the documents.
LEMMA MapType ==
  ASSUME NEW e, entries[e] \in Entry
  PROVE  FilledMap(e) \in Maps /\ entries[e].docVecs \in Maps
BY DEF FilledMap, Entry, Maps

LEMMA LoadHitIInv ==
  ASSUME IInv, NEW u \in Users, NEW req \in Request, LoadHit(u, req)
  PROVE  IInv'
<1> USE DEF IInv
<1> PICK e \in Entries : e = cache[req.field]
  BY DEF LoadHit, Request, TypeOK
<1>1. /\ req.field \in Fields /\ req.except \in Excepts
      /\ entries[e] \in Entry
  BY DEF Request, TypeOK
<1>2. entries' = [entries EXCEPT ![e] = Load(e)]
  BY DEF LoadHit
<1>3. Loaded(req, e, entries[e].docVecs) \in Handle
  BY <1>1 DEF Loaded, Handle, Entry
<1>4. TypeOK'
  BY <1>1, <1>2, <1>3, LoadType DEF LoadHit, TypeOK, Phases
<1>5. HandleInv'
  BY <1>1, <1>3 DEF LoadHit, HandleInv, TypeOK, Holding, Loaded
<1>6. CacheInv'
  BY <1>1, <1>2, LoadType DEF LoadHit, CacheInv, TypeOK, Cached
<1>7. /\ ~Holding(u) /\ Holding(u)' /\ handle'[u].entry = e
      /\ \A v \in Users \ {u} : pc'[v] = pc[v] /\ handle'[v] = handle[v]
  BY DEF LoadHit, TypeOK, Holding, Loaded
<1>8. /\ Cardinality(Holders(e)') = Cardinality(Holders(e)) + 1
      /\ \A d : d # e => Holders(d)' = Holders(d)
  BY <1>7, HolderJoins
<1>9. RefsInv'
  BY <1>1, <1>2, <1>8, LoadType DEF LoadHit, RefsInv, RefsAreHolders, TypeOK, Cached
<1> QED  BY <1>4, <1>5, <1>6, <1>9

LEMMA LoadMissIInv ==
  ASSUME IInv, NEW u \in Users, NEW req \in Request, LoadMiss(u, req)
  PROVE  IInv'
<1> USE DEF IInv
<1>1. [req |-> req, entry |-> NoEntry, vecDocs |-> {}, docVecs |-> NoMap,
       exclude |-> {}] \in Handle
  BY DEF Handle, Maps
<1>2. TypeOK'
  BY <1>1 DEF LoadMiss, TypeOK, Phases
<1>3. HandleInv'
  BY <1>1 DEF LoadMiss, HandleInv, TypeOK, Holding
<1>4. CacheInv'
  BY DEF LoadMiss, CacheInv, Cached
<1>5. \A d : Holders(d)' = Holders(d)
  BY HoldersKept DEF LoadMiss, TypeOK, Holding
<1>6. RefsInv'
  BY <1>5 DEF LoadMiss, RefsInv, RefsAreHolders, Cached
<1> QED  BY <1>2, <1>3, <1>4, <1>6

LEMMA AddDocVecIDMapIInv ==
  ASSUME IInv, NEW u \in Users, AddDocVecIDMap(u)
  PROVE  IInv'
<1> USE DEF IInv
<1> PICK e \in Entries : e = handle[u].entry
  BY DEF AddDocVecIDMap, HandleInv, Holding
<1>1. entries[e] \in Entry /\ handle[u] \in Handle
  BY DEF AddDocVecIDMap, HandleInv, TypeOK
<1>2. /\ entries' = [entries EXCEPT ![e] = [entries[e] EXCEPT !.docVecs = FilledMap(e)]]
      /\ handle' = [handle EXCEPT ![u] = [handle[u] EXCEPT !.docVecs = FilledMap(e)]]
      /\ UNCHANGED <<cache, cleared, monitors>>
      /\ pc[u] = "unmapped" /\ pc' = [pc EXCEPT ![u] = "held"]
  BY DEF AddDocVecIDMap
<1>3. [entries[e] EXCEPT !.docVecs = FilledMap(e)] \in Entry
  BY <1>1, MapType, SetField
<1>4. [handle[u] EXCEPT !.docVecs = FilledMap(e)] \in Handle
  BY <1>1, MapType DEF Handle
<1>5. TypeOK'
  BY <1>2, <1>3, <1>4 DEF TypeOK, Phases
<1>6. /\ \A d \in Entries : /\ entries'[d].index = entries[d].index
                           /\ entries'[d].refs = entries[d].refs
      /\ handle'[u].entry = handle[u].entry /\ handle'[u].req = handle[u].req
      /\ \A v \in Users \ {u} : handle'[v] = handle[v]
  BY <1>1, <1>2 DEF TypeOK, Entry, Handle
<1>7. HandleInv'
  BY <1>2, <1>4, <1>6 DEF HandleInv, TypeOK, Holding
<1>8. CacheInv'
  BY <1>2, <1>6 DEF CacheInv, Cached, TypeOK
<1>9. \A d : Holders(d)' = Holders(d)
  BY <1>2, <1>6, HoldersKept DEF TypeOK, Holding
<1>10. RefsInv'
  BY <1>2, <1>6, <1>9 DEF RefsInv, RefsAreHolders, Cached, TypeOK
<1> QED  BY <1>5, <1>7, <1>8, <1>10

LEMMA CreateFoundIInv ==
  ASSUME IInv, NEW u \in Users, CreateFound(u)
  PROVE  IInv'
<1> USE DEF IInv
<1>1. handle[u] \in Handle
  BY DEF CreateFound, HandleInv
<1> PICK req \in Request : req = handle[u].req
  BY <1>1 DEF Handle
<1> PICK e \in Entries : e = cache[req.field]
  BY DEF CreateFound, Request, TypeOK
<1> PICK map : map = IF req.filtered /\ ~HasMap(e) THEN FilledMap(e)
                                                  ELSE entries[e].docVecs
  OBVIOUS
<1>2. /\ req.field \in Fields /\ req.except \in Excepts
      /\ entries[e] \in Entry
  BY DEF Request, TypeOK
<1> PICK r : r = [Load(e) EXCEPT !.docVecs = map]
  OBVIOUS
<1>3. /\ map \in Maps /\ r \in Entry
      /\ r.refs = entries[e].refs + 1 /\ r.index = entries[e].index
  <2>1. map \in Maps
    BY <1>2, MapType
  <2>2. r \in Entry
    BY <1>2, <2>1, LoadType, SetField
  <2>3. r.refs = Load(e).refs /\ r.index = Load(e).index
    BY <1>2, LoadType DEF Entry
  <2> QED  BY <1>2, <2>1, <2>2, <2>3, LoadType
<1>4. /\ entries' = [entries EXCEPT ![e] = r]
      /\ handle' = [handle EXCEPT ![u] = Loaded(req, e, map)]
      /\ pc[u] = "missed" /\ pc' = [pc EXCEPT ![u] = "held"]
      /\ UNCHANGED <<cache, cleared, monitors>>
  BY DEF CreateFound
<1>5. Loaded(req, e, map) \in Handle
  BY <1>2, <1>3 DEF Loaded, Handle, Entry
<1>6. TypeOK'
  BY <1>3, <1>4, <1>5 DEF TypeOK, Phases
<1>7. HandleInv'
  BY <1>2, <1>4, <1>5 DEF HandleInv, TypeOK, Holding, Loaded
<1>8. CacheInv'
  <2>1. \A d \in Entries : entries'[d].index = entries[d].index
    BY <1>3, <1>4 DEF TypeOK
  <2> QED  BY <1>4, <2>1 DEF CacheInv, TypeOK, Cached
<1>9. /\ ~Holding(u) /\ Holding(u)' /\ handle'[u].entry = e
      /\ \A v \in Users \ {u} : pc'[v] = pc[v] /\ handle'[v] = handle[v]
  BY <1>4 DEF TypeOK, Holding, Loaded
<1>10. /\ Cardinality(Holders(e)') = Cardinality(Holders(e)) + 1
       /\ \A d : d # e => Holders(d)' = Holders(d)
  BY <1>9, HolderJoins
<1>11. RefsInv'
  BY <1>2, <1>3, <1>4, <1>10 DEF RefsInv, RefsAreHolders, TypeOK, Cached
<1> QED  BY <1>6, <1>7, <1>8, <1>11

LEMMA CreateNewIInv ==
  ASSUME IInv, NEW u \in Users, CreateNew(u)
  PROVE  IInv'
<1> USE DEF IInv
<1>1. handle[u] \in Handle
  BY DEF CreateNew, HandleInv
<1> PICK req \in Request : req = handle[u].req
  BY <1>1 DEF Handle
<1> PICK vecDocs \in SUBSET Docs : vecDocs = Docs \ req.except
  OBVIOUS
<1> PICK docVecs \in Maps : docVecs = IF req.filtered THEN vecDocs ELSE NoMap
  BY DEF Maps
<1> PICK e \in Entries :
       /\ Garbage(e)
       /\ entries' = [entries EXCEPT ![e] =
                        [index |-> "open", refs |-> 1, sample |-> 1, avg |-> 0,
                         vecDocs |-> vecDocs, docVecs |-> docVecs]]
       /\ cache' = [cache EXCEPT ![req.field] = e]
       /\ handle' = [handle EXCEPT ![u] =
                       [req |-> req, entry |-> e, vecDocs |-> vecDocs,
                        docVecs |-> docVecs, exclude |-> req.except]]
  BY DEF CreateNew
<1>2. /\ req.field \in Fields /\ req.except \in Excepts
      /\ req.except \in SUBSET Docs
  BY CacheAssumption DEF Request
<1>3. /\ pc[u] = "missed" /\ pc' = [pc EXCEPT ![u] = "held"]
      /\ cache[req.field] = NoEntry
      /\ UNCHANGED cleared
      /\ monitors' = IF Cached = {} THEN monitors + 1 ELSE monitors
  BY DEF CreateNew
<1>4. /\ entries[e].index = "closed" /\ Holders(e) = {}
      /\ \A f \in Fields : cache[f] # e
      /\ NoEntry \notin Entries
  BY CacheAssumption DEF Garbage, CacheInv
<1> PICK r : r = [index |-> "open", refs |-> 1, sample |-> 1, avg |-> 0,
                  vecDocs |-> vecDocs, docVecs |-> docVecs]
  OBVIOUS
<1>5. r \in Entry /\ r.index = "open" /\ r.refs = 1
  BY DEF Entry
<1> PICK h : h = [req |-> req, entry |-> e, vecDocs |-> vecDocs,
                  docVecs |-> docVecs, exclude |-> req.except]
  OBVIOUS
<1>6. h \in Handle /\ h.entry = e /\ h.req = req
  BY <1>2 DEF Handle
<1>7. entries' = [entries EXCEPT ![e] = r] /\ handle' = [handle EXCEPT ![u] = h]
  OBVIOUS
<1>8. TypeOK'
  BY <1>2, <1>3, <1>5, <1>6, <1>7 DEF TypeOK, Phases
<1>9. HandleInv'
  BY <1>2, <1>3, <1>4, <1>6, <1>7 DEF HandleInv, TypeOK, Holding
<1>10. CacheInv'
  <2>1. \A d \in Entries \ {e} : entries'[d].index = entries[d].index
    BY <1>7 DEF TypeOK
  <2>2. entries'[e].index = "open"
    BY <1>5, <1>7 DEF TypeOK
  <2>3. cache'[req.field] = e /\ \A f \in Fields \ {req.field} : cache'[f] = cache[f]
    BY <1>2 DEF TypeOK
  <2> QED  BY <1>2, <1>3, <1>4, <2>1, <2>2, <2>3 DEF CacheInv, TypeOK, Cached
<1>11. /\ ~Holding(u) /\ Holding(u)' /\ handle'[u].entry = e
       /\ \A v \in Users \ {u} : pc'[v] = pc[v] /\ handle'[v] = handle[v]
  BY <1>3, <1>6, <1>7 DEF TypeOK, Holding
<1>12. /\ Cardinality(Holders(e)') = Cardinality(Holders(e)) + 1
       /\ \A d : d # e => Holders(d)' = Holders(d)
  BY <1>11, HolderJoins
<1>13. RefsInv'
  <2>1. Cardinality(Holders(e)') = 1
    BY <1>4, <1>12, FS_EmptySet
  <2>2. Cached' \subseteq Cached \cup {e}
    BY <1>2, <1>3 DEF Cached, TypeOK
  <2> QED  BY <1>5, <1>7, <1>12, <2>1, <2>2
           DEF RefsInv, RefsAreHolders, TypeOK, Cached
<1> QED  BY <1>8, <1>9, <1>10, <1>13

LEMMA CreateFailIInv ==
  ASSUME IInv, NEW u \in Users, CreateFail(u)
  PROVE  IInv'
<1> USE DEF IInv
<1>1. TypeOK'
  BY DEF CreateFail, TypeOK, Phases
<1>2. HandleInv'
  BY DEF CreateFail, HandleInv, TypeOK, Holding
<1>3. CacheInv'
  BY DEF CreateFail, CacheInv, Cached
<1>4. \A d : Holders(d)' = Holders(d)
  BY HoldersKept DEF CreateFail, TypeOK, Holding
<1>5. RefsInv'
  BY <1>4 DEF CreateFail, RefsInv, RefsAreHolders, Cached
<1> QED  BY <1>1, <1>2, <1>3, <1>5

LEMMA DecRefIInv ==
  ASSUME IInv, NEW u \in Users, DecRef(u)
  PROVE  IInv'
<1> USE DEF IInv
<1> PICK e \in Entries : e = handle[u].entry
  BY DEF DecRef, HandleInv, Holding
<1>1. cache[handle[u].req.field] = e /\ e # NoEntry /\ entries[e] \in Entry
  BY CacheAssumption DEF DecRef, HandleInv, Holding, TypeOK
<1>2. /\ entries' = [entries EXCEPT ![e] = [entries[e] EXCEPT !.refs = entries[e].refs - 1]]
      /\ pc[u] = "held" /\ pc' = [pc EXCEPT ![u] = "idle"]
      /\ handle' = [handle EXCEPT ![u] = NoHandle]
      /\ UNCHANGED <<cache, cleared, monitors>>
  BY <1>1 DEF DecRef
<1>3. [entries[e] EXCEPT !.refs = entries[e].refs - 1] \in Entry
  <2>1. entries[e].refs - 1 \in Int
    BY <1>1 DEF Entry
  <2> QED  BY <1>1, <2>1, SetField
<1>4. TypeOK'
  BY <1>2, <1>3 DEF TypeOK, Phases
<1>5. HandleInv'
  BY <1>2 DEF HandleInv, TypeOK, Holding
<1>6. /\ \A d \in Entries : entries'[d].index = entries[d].index
      /\ \A d \in Entries \ {e} : entries'[d].refs = entries[d].refs
      /\ entries'[e].refs = entries[e].refs - 1
  BY <1>1, <1>2 DEF TypeOK, Entry
<1>7. CacheInv'
  BY <1>2, <1>6 DEF CacheInv, Cached, TypeOK
<1>8. /\ Holding(u) /\ ~Holding(u)'
      /\ \A v \in Users \ {u} : pc'[v] = pc[v] /\ handle'[v] = handle[v]
  BY <1>2 DEF TypeOK, Holding
<1>9. /\ Cardinality(Holders(e)') = Cardinality(Holders(e)) - 1
      /\ \A d : d # e => Holders(d)' = Holders(d)
  BY <1>8, HolderLeaves
<1>10. RefsInv'
  BY <1>1, <1>2, <1>6, <1>9 DEF RefsInv, RefsAreHolders, TypeOK, Cached
<1> QED  BY <1>4, <1>5, <1>7, <1>10

\* The heart of the argument: cleanup evicts an entry only when refs is zero,
\* refs counts the users of the entry, so no user loses the entry it holds.
LEMMA CleanupIInv ==
  ASSUME IInv, Cleanup
  PROVE  IInv'
<1> USE DEF IInv
<1> PICK evicted : evicted = {e \in Cached : Evictable(e)}
  OBVIOUS
<1>1. /\ entries' = [e \in Entries |->
           IF e \notin Cached THEN entries[e]
           ELSE [entries[e] EXCEPT
                   !.avg    = NewAvg(e),
                   !.sample = 0,
                   !.index  = IF e \in evicted THEN "closing" ELSE entries[e].index]]
      /\ cache' = [f \in Fields |->
                     IF cache[f] \in evicted THEN NoEntry ELSE cache[f]]
      /\ monitors' = IF Cached = evicted THEN monitors - 1 ELSE monitors
      /\ monitors > 0
      /\ UNCHANGED <<cleared, pc, handle>>
  BY DEF Cleanup
<1>2. \A e \in Entries : /\ entries'[e] \in Entry
                         /\ entries'[e].refs = entries[e].refs
                         /\ entries'[e].index = IF e \in evicted THEN "closing"
                                                ELSE entries[e].index
  <2> SUFFICES ASSUME NEW e \in Entries
               PROVE  /\ entries'[e] \in Entry
                      /\ entries'[e].refs = entries[e].refs
                      /\ entries'[e].index = IF e \in evicted THEN "closing"
                                             ELSE entries[e].index
    OBVIOUS
  <2> PICK r \in Entry : r = entries[e]
    BY DEF TypeOK
  <2>1. CASE e \notin Cached
    BY <1>1, <2>1
  <2>2. CASE e \in Cached
    <3> PICK x : x = IF e \in evicted THEN "closing" ELSE r.index
      OBVIOUS
    <3> PICK n \in Nat : n = NewAvg(e)
      BY EwmaType DEF NewAvg, Entry
    <3>1. x \in {"open", "closing", "closed"}
      BY DEF Entry
    <3>2. entries'[e] = [r EXCEPT !.avg = n, !.sample = 0, !.index = x]
      BY <1>1, <2>2
    <3> PICK s : s = [r EXCEPT !.avg = n]
      OBVIOUS
    <3> PICK t : t = [s EXCEPT !.sample = 0]
      OBVIOUS
    <3>3. s \in Entry
      BY SetField
    <3>4. t \in Entry
      BY <3>3, SetField
    <3>5. [t EXCEPT !.index = x] \in Entry
      BY <3>1, <3>4, SetField
    <3>6. entries'[e] = [t EXCEPT !.index = x]
      BY <3>2
    <3> QED  BY <3>2, <3>5, <3>6 DEF Entry
  <2> QED  BY <2>1, <2>2
<1>3. \A e \in evicted : e \in Entries /\ Holders(e) = {}
  <2> SUFFICES ASSUME NEW e \in evicted PROVE e \in Entries /\ Holders(e) = {}
    OBVIOUS
  <2>1. e \in Entries /\ e \in Cached /\ entries[e].refs <= 0
    BY DEF Cached, TypeOK, Evictable
  <2>2. Cardinality(Holders(e)) = 0
    BY <2>1, HoldersFinite DEF RefsInv, RefsAreHolders
  <2> QED  BY <2>1, <2>2, HoldersFinite, FS_EmptySet
<1>4. TypeOK'
  <2>1. entries' \in [Entries -> Entry]
    <3>1. entries' = [e \in Entries |-> entries'[e]]
      BY <1>1
    <3> QED  BY <1>2, <3>1
  <2>2. cache' \in [Fields -> Entries \cup {NoEntry}]
    BY <1>1 DEF TypeOK
  <2>3. monitors' \in Nat
    <3>1. monitors' \in {monitors - 1, monitors} /\ monitors > 0
      BY <1>1
    <3> QED  BY <3>1 DEF TypeOK
  <2> QED  BY <1>1, <2>1, <2>2, <2>3 DEF TypeOK
<1>5. HandleInv'
  <2> SUFFICES ASSUME NEW u \in Users, Holding(u)
               PROVE  cache'[handle[u].req.field] = handle[u].entry
    BY <1>1 DEF HandleInv, Holding
  <2>1. /\ handle[u].entry \in Entries /\ handle[u].req.field \in Fields
        /\ cache[handle[u].req.field] = handle[u].entry
    BY DEF HandleInv, Holding, Handle, Request
  <2>2. handle[u].entry \notin evicted
    BY <1>3 DEF Holders, Holding
  <2> QED  BY <1>1, <2>1, <2>2
<1>6. CacheInv'
  <2>1. \A f \in Fields : cache'[f] # NoEntry =>
          cache'[f] = cache[f] /\ cache[f] \in Entries \ evicted
    BY <1>1 DEF TypeOK
  <2>2. \A e \in Entries : entries'[e].index = "open" =>
          entries[e].index = "open" /\ e \notin evicted
    BY <1>2
  <2>3. \A e \in Cached \ evicted : e \in Cached'
    BY <1>1 DEF Cached
  <2>4. \A f \in Fields : cache'[f] # NoEntry => entries'[cache'[f]].index = "open"
    BY <1>2, <2>1 DEF CacheInv
  <2>5. \A f, g \in Fields : cache'[f] = cache'[g] /\ cache'[f] # NoEntry => f = g
    BY <2>1 DEF CacheInv
  <2>6. \A e \in Entries : entries'[e].index = "open" => e \in Cached'
    BY <2>2, <2>3 DEF CacheInv
  <2> QED  BY <2>4, <2>5, <2>6 DEF CacheInv
<1>7. \A d : Holders(d)' = Holders(d)
  BY <1>1, HoldersKept DEF Holding
<1>8. RefsInv'
  <2>1. Cached' \subseteq Cached /\ Cached \subseteq Entries
    BY <1>1 DEF Cached, TypeOK
  <2> QED  BY <1>2, <1>7, <2>1 DEF RefsInv, RefsAreHolders
<1> QED  BY <1>4, <1>5, <1>6, <1>8

LEMMA CloseEntryIInv ==
  ASSUME IInv, NEW e \in Entries, CloseEntry(e)
  PROVE  IInv'
<1> USE DEF IInv
<1>1. entries[e].index = "closing" /\ e \notin Cached
  BY DEF CloseEntry, CacheInv, Cached
<1>2. Unused \in Entry /\ Unused.index = "closed"
  BY DEF Unused, Entry, Maps
<1>3. TypeOK'
  BY <1>2 DEF CloseEntry, TypeOK
<1>4. HandleInv'
  BY DEF CloseEntry, HandleInv, Holding
<1>5. CacheInv'
  BY <1>1, <1>2 DEF CloseEntry, CacheInv, Cached, TypeOK
<1>6. \A d : Holders(d)' = Holders(d)
  BY HoldersKept DEF CloseEntry, Holding
<1>7. RefsInv'
  BY <1>1, <1>6 DEF CloseEntry, RefsInv, RefsAreHolders, Cached, TypeOK
<1> QED  BY <1>3, <1>4, <1>5, <1>7

LEMMA ClearIInv ==
  ASSUME IInv, Quiescent, Clear
  PROVE  IInv'
<1> USE DEF IInv
<1>1. \A e \in Entries : /\ entries'[e] \in Entry
                         /\ entries'[e].index = IF e \in Cached THEN "closing"
                                                ELSE entries[e].index
  <2> SUFFICES ASSUME NEW e \in Entries
               PROVE  /\ entries'[e] \in Entry
                      /\ entries'[e].index = IF e \in Cached THEN "closing"
                                             ELSE entries[e].index
    OBVIOUS
  <2> PICK r \in Entry : r = entries[e]
    BY DEF TypeOK
  <2>1. [r EXCEPT !.index = "closing"] \in Entry
    BY SetField
  <2>2. [r EXCEPT !.index = "closing"].index = "closing"
    BY DEF Entry
  <2> QED  BY <2>1, <2>2 DEF Clear
<1>2. TypeOK'
  <2>1. entries' \in [Entries -> Entry]
    <3>1. entries' = [e \in Entries |-> entries'[e]]
      BY DEF Clear
    <3> QED  BY <1>1, <3>1
  <2> QED  BY <2>1 DEF Clear, TypeOK
<1>3. HandleInv'
  BY DEF Clear, Quiescent, HandleInv
<1>4. CacheInv'
  BY <1>1 DEF Clear, CacheInv, Cached
<1>5. RefsInv'
  BY DEF Clear, RefsInv, RefsAreHolders, Cached
<1> QED  BY <1>2, <1>3, <1>4, <1>5

LEMMA MonitorStopIInv ==
  ASSUME IInv, MonitorStop
  PROVE  IInv'
<1>1. TypeOK'
  BY DEF IInv, MonitorStop, TypeOK
<1>2. HandleInv' /\ CacheInv'
  BY DEF IInv, MonitorStop, HandleInv, CacheInv, Holding, Cached
<1>3. RefsInv'
  BY HoldersKept DEF IInv, MonitorStop, RefsInv, RefsAreHolders, Holding, Cached
<1> QED  BY <1>1, <1>2, <1>3 DEF IInv

LEMMA StutterIInv ==
  ASSUME IInv, UNCHANGED vars
  PROVE  IInv'
<1>1. TypeOK'
  BY DEF IInv, vars, TypeOK
<1>2. HandleInv' /\ CacheInv'
  BY DEF IInv, vars, HandleInv, CacheInv, Holding, Cached
<1>3. RefsInv'
  BY HoldersKept DEF IInv, vars, RefsInv, RefsAreHolders, Holding, Cached
<1> QED  BY <1>1, <1>2, <1>3 DEF IInv

LEMMA NextIInv == IInv /\ [Next]_vars => IInv'
<1> SUFFICES ASSUME IInv, [Next]_vars PROVE IInv'
  OBVIOUS
<1>1. CASE \E u \in Users, req \in Request : LoadOrCreate(u, req)
  BY <1>1, LoadHitIInv, LoadMissIInv DEF LoadOrCreate
<1>2. CASE \E u \in Users : AddDocVecIDMap(u)
  BY <1>2, AddDocVecIDMapIInv
<1>3. CASE \E u \in Users : CreateAndCache(u)
  BY <1>3, CreateFoundIInv, CreateNewIInv, CreateFailIInv DEF CreateAndCache
<1>4. CASE \E u \in Users : DecRef(u)
  BY <1>4, DecRefIInv
<1>5. CASE Cleanup
  BY <1>5, CleanupIInv
<1>6. CASE \E e \in Entries : CloseEntry(e)
  BY <1>6, CloseEntryIInv
<1>7. CASE MonitorStop
  BY <1>7, MonitorStopIInv
<1>8. CASE Quiescent /\ Clear
  BY <1>8, ClearIInv
<1>9. CASE UNCHANGED vars
  BY <1>9, StutterIInv
<1> QED  BY <1>1, <1>2, <1>3, <1>4, <1>5, <1>6, <1>7, <1>8, <1>9 DEF Next

\* The inductive invariant holds in every reachable state.
THEOREM CacheInvariant == Spec => []IInv
<1>1. Init => IInv
  BY InitIInv
<1>2. IInv /\ [Next]_vars => IInv'
  BY NextIInv
<1> QED  BY <1>1, <1>2, PTL DEF Spec

-----------------------------------------------------------------------------
\* Every variable keeps its type.
THEOREM TypeCorrect == Spec => []TypeOK
<1>1. IInv => TypeOK
  BY DEF IInv
<1> QED  BY <1>1, CacheInvariant, PTL

\* No query ever holds an index that is closed or about to be: between
\* loadOrCreate and the wrapper's Close, neither cleanup nor the goroutine of
\* entry.close() frees it.
THEOREM NoUseAfterClose == Spec => []IndexOpenWhileHeld
<1>1. IInv => IndexOpenWhileHeld
  <2> SUFFICES ASSUME IInv, NEW u \in Users, Holding(u)
               PROVE  entries[handle[u].entry].index = "open"
    BY DEF IndexOpenWhileHeld, Holding
  <2>1. /\ handle[u].entry \in Entries /\ handle[u].req.field \in Fields
        /\ cache[handle[u].req.field] = handle[u].entry
    BY DEF IInv, HandleInv, Holding, Handle, Request
  <2> QED  BY <2>1, CacheAssumption DEF IInv, CacheInv
<1> QED  BY <1>1, CacheInvariant, PTL

\* The atomic counter refs is exactly the number of queries that use the entry.
THEOREM RefsExact == Spec => []RefsAreHolders
<1>1. IInv => RefsAreHolders
  BY DEF IInv, RefsInv
<1> QED  BY <1>1, CacheInvariant, PTL

\* Every open index is in the cache, under one field only: none is leaked.
THEOREM NoLeak == Spec => []NoIndexLeak
<1>1. IInv => NoIndexLeak
  <2> SUFFICES ASSUME IInv, NEW e \in Entries, entries[e].index = "open"
               PROVE  Cardinality({f \in Fields : cache[f] = e}) = 1
    BY DEF NoIndexLeak
  <2>1. e \in Cached /\ e # NoEntry
    BY CacheAssumption DEF IInv, CacheInv
  <2> PICK f \in Fields : cache[f] = e
    BY <2>1 DEF Cached
  <2>2. {g \in Fields : cache[g] = e} = {f}
    BY <2>1 DEF IInv, CacheInv
  <2> QED  BY <2>2, FS_Singleton
<1> QED  BY <1>1, CacheInvariant, PTL

-----------------------------------------------------------------------------
\* One monitor: the step argument needs only the types and that a monitor
\* exists before a tick.
LEMMA NextOneMonitor == IInv /\ OneMonitor /\ [Next]_vars => OneMonitor'
<1> SUFFICES ASSUME IInv, OneMonitor, [Next]_vars PROVE OneMonitor'
  OBVIOUS
<1>1. CASE UNCHANGED <<cache, cleared, monitors>>
  BY <1>1 DEF OneMonitor, Cached
<1>2. CASE \E u \in Users : CreateNew(u)
  <2> PICK u \in Users : CreateNew(u)
    BY <1>2
  <2>1. handle[u].req.field \in Fields
    BY DEF IInv, HandleInv, CreateNew, Handle, Request
  <2>2. Cached' # {}
    BY <2>1, CacheAssumption DEF CreateNew, Cached, IInv, TypeOK
  <2> QED  BY <2>2 DEF CreateNew, OneMonitor
<1>3. CASE Cleanup
  <2> PICK evicted : evicted = {e \in Cached : Evictable(e)}
    OBVIOUS
  <2>1. Cached' = Cached \ evicted /\ evicted \subseteq Cached
    BY <1>3 DEF Cleanup, Cached
  <2>2. Cached # {} /\ monitors = 1
    <3>1. monitors > 0 /\ monitors = IF Cached = {} THEN 0 ELSE 1
      BY <1>3 DEF Cleanup, OneMonitor
    <3>2. Cached # {}
      BY <3>1
    <3> QED  BY <3>1, <3>2
  <2>3. CASE Cached = evicted
    <3>1. monitors' = monitors - 1 /\ Cached' = {}
      BY <1>3, <2>1, <2>3 DEF Cleanup
    <3> QED  BY <2>2, <3>1 DEF OneMonitor
  <2>4. CASE Cached # evicted
    <3>1. monitors' = monitors /\ Cached' # {}
      BY <1>3, <2>1, <2>4 DEF Cleanup
    <3> QED  BY <2>2, <3>1 DEF OneMonitor
  <2> QED  BY <2>3, <2>4
<1>4. CASE MonitorStop \/ Clear
  BY <1>4 DEF MonitorStop, Clear, OneMonitor
<1> QED  BY <1>1, <1>2, <1>3, <1>4
         DEF Next, LoadOrCreate, LoadHit, LoadMiss, AddDocVecIDMap, CreateAndCache,
             CreateFound, CreateFail, DecRef, CloseEntry, vars

\* A cache that holds an entry has exactly one monitor, an empty one none.
THEOREM OneMonitorAlways == Spec => []OneMonitor
<1>1. Init => OneMonitor
  BY DEF Init, OneMonitor, Cached
<1>2. IInv /\ OneMonitor /\ [Next]_vars => OneMonitor'
  BY NextOneMonitor
<1> QED  BY <1>1, <1>2, CacheInvariant, PTL DEF Spec

-----------------------------------------------------------------------------
\* An average of zero is that of an entry no tick has looked at: its sample has
\* the query that read the index.
FreshInv == \A e \in Cached : entries[e].avg = 0 => entries[e].sample > 0

\* The first sample is the average; then it stays positive, and a query keeps one
\* above a third over the threshold.
LEMMA EwmaIs ==
  ASSUME NEW avg \in Nat, NEW sample \in Nat
  PROVE  /\ EwmaAdd(avg, sample) \in Nat
         /\ avg > 0 \/ sample > 0 => EwmaAdd(avg, sample) > 0
         /\ EwmaAdd(avg, sample) <= Threshold =>
              IF avg = 0 THEN sample = 0 ELSE sample = 0 \/ 3 * avg <= Precision
<1>1. CASE Precision = 5
  BY <1>1 DEF EwmaAdd, Threshold
<1>2. CASE Precision = 10
  BY <1>2 DEF EwmaAdd, Threshold
<1>3. CASE Precision = 20
  BY <1>3 DEF EwmaAdd, Threshold
<1> QED  BY <1>1, <1>2, <1>3, CacheAssumption

\* load counts a hit and leaves the average.
LEMMA LoadCounts ==
  ASSUME NEW e, entries[e] \in Entry
  PROVE  Load(e).avg = entries[e].avg /\ Load(e).sample = entries[e].sample + 1
BY DEF Load, Entry

\* A step that changes an entry or the cache otherwise than by a tick.
LEMMA NextFresh == IInv /\ FreshInv /\ [Next]_vars => FreshInv'
<1> SUFFICES ASSUME IInv, FreshInv, [Next]_vars PROVE FreshInv'
  OBVIOUS
<1>t. /\ Cached \subseteq Entries /\ entries \in [Entries -> Entry]
      /\ \A e \in Entries : entries[e].avg \in Nat /\ entries[e].sample \in Nat
  BY DEF IInv, TypeOK, Cached, Entry
<1>1. CASE UNCHANGED <<cache, entries>>
  BY <1>1 DEF FreshInv, Cached
<1>2. ASSUME NEW u \in Users, NEW req \in Request, LoadHit(u, req) PROVE FreshInv'
  <2> PICK e \in Entries : e = cache[req.field]
    BY <1>2 DEF LoadHit, Request, IInv, TypeOK
  <2>1. UNCHANGED cache /\ entries' = [entries EXCEPT ![e] = Load(e)]
    BY <1>2 DEF LoadHit
  <2> QED  BY <1>t, <2>1, LoadCounts DEF FreshInv, Cached
<1>3. ASSUME NEW u \in Users, AddDocVecIDMap(u) PROVE FreshInv'
  <2> PICK e \in Entries : e = handle[u].entry
    BY <1>3 DEF AddDocVecIDMap, IInv, HandleInv, Holding
  <2> PICK m : m = FilledMap(e)
    OBVIOUS
  <2>1. UNCHANGED cache /\ entries' = [entries EXCEPT ![e].docVecs = m]
    BY <1>3 DEF AddDocVecIDMap
  <2>2. \A d \in Entries : /\ entries'[d].avg = entries[d].avg
                           /\ entries'[d].sample = entries[d].sample
    BY <1>t, <2>1 DEF Entry
  <2> QED  BY <1>t, <2>1, <2>2 DEF FreshInv, Cached
<1>4. ASSUME NEW u \in Users, CreateFound(u) PROVE FreshInv'
  <2>1. handle[u].req.field \in Fields
    BY <1>4 DEF IInv, HandleInv, CreateFound, Handle, Request
  <2> PICK e \in Entries : e = cache[handle[u].req.field]
    BY <1>4, <2>1 DEF CreateFound, IInv, TypeOK
  <2> PICK l : l = Load(e)
    OBVIOUS
  <2>2. UNCHANGED cache /\ \E m : entries' = [entries EXCEPT ![e] = [l EXCEPT !.docVecs = m]]
    BY <1>4 DEF CreateFound
  <2>3. l \in Entry /\ l.avg = entries[e].avg /\ l.sample = entries[e].sample + 1
    BY <1>t, LoadType, LoadCounts
  <2> PICK m : entries' = [entries EXCEPT ![e] = [l EXCEPT !.docVecs = m]]
    BY <2>2
  <2>4. [l EXCEPT !.docVecs = m].avg = l.avg /\ [l EXCEPT !.docVecs = m].sample = l.sample
    BY <2>3 DEF Entry
  <2>5. \A d \in Entries : d # e => entries'[d] = entries[d]
    BY <1>t
  <2>6. entries'[e].avg = entries[e].avg /\ entries'[e].sample > 0
    BY <1>t, <2>3, <2>4
  <2> QED  BY <1>t, <2>2, <2>5, <2>6 DEF FreshInv, Cached
<1>5. ASSUME NEW u \in Users, CreateNew(u) PROVE FreshInv'
  <2>1. PICK e, r :
          /\ e \in Entries /\ entries' = [entries EXCEPT ![e] = r] /\ r.sample = 1
          /\ cache' = [cache EXCEPT ![handle[u].req.field] = e]
    BY <1>5 DEF CreateNew
  <2>2. Cached' \subseteq Cached \cup {e}
    BY <2>1 DEF Cached, IInv, TypeOK
  <2> QED  BY <1>t, <2>1, <2>2 DEF FreshInv
<1>6. ASSUME NEW u \in Users, DecRef(u) PROVE FreshInv'
  <2>1. UNCHANGED cache /\ \E e, n : \/ UNCHANGED entries
                                   \/ entries' = [entries EXCEPT ![e].refs = n]
    BY <1>6 DEF DecRef
  <2>2. \A d \in Entries : /\ entries'[d].avg = entries[d].avg
                           /\ entries'[d].sample = entries[d].sample
    BY <1>t, <2>1 DEF Entry
  <2> QED  BY <1>t, <2>1, <2>2 DEF FreshInv, Cached
<1>7. CASE Cleanup
  <2>1. /\ Cached' \subseteq Cached
        /\ \A e \in Cached : entries'[e].avg = NewAvg(e)
    BY <1>7, <1>t DEF Cleanup, Cached, Entry
  <2>2. ASSUME NEW e \in Cached PROVE NewAvg(e) > 0
    <3> PICK a \in Nat : a = entries[e].avg
      BY <1>t
    <3> PICK s \in Nat : s = entries[e].sample
      BY <1>t
    <3>1. a > 0 \/ s > 0
      BY DEF FreshInv
    <3>2. EwmaAdd(a, s) > 0
      BY <3>1, EwmaIs
    <3> QED  BY <3>2 DEF NewAvg
  <2> QED  BY <2>1, <2>2 DEF FreshInv
<1>8. ASSUME NEW e \in Entries, CloseEntry(e) PROVE FreshInv'
  <2>1. e \notin Cached
    <3> SUFFICES ASSUME NEW f \in Fields, cache[f] = e, e # NoEntry PROVE FALSE
      BY DEF Cached
    <3> QED  BY <1>8 DEF CloseEntry, IInv, CacheInv
  <2>2. UNCHANGED cache /\ \A d \in Entries \ {e} : entries'[d] = entries[d]
    BY <1>8, <1>t DEF CloseEntry
  <2> QED  BY <1>t, <2>1, <2>2 DEF FreshInv, Cached
<1>9. CASE Clear
  BY <1>9 DEF Clear, FreshInv, Cached
<1> QED  BY <1>1, <1>2, <1>3, <1>4, <1>5, <1>6, <1>7, <1>8, <1>9
         DEF Next, LoadOrCreate, LoadMiss, CreateAndCache, CreateFail, MonitorStop, vars

\* An index is withdrawn by a tick or by Clear, and by a tick only if it is cold.
LEMMA WithdrawnCold ==
  ASSUME IInv, FreshInv, [Next]_vars, NEW f \in Fields,
         cache[f] # NoEntry, cache'[f] = NoEntry, ~cleared'
  PROVE  LET e == entries[cache[f]]
         IN  e.avg > 0 /\ (e.sample = 0 \/ 3 * e.avg <= Precision)
<1>1. Cleanup
  <2>1. ASSUME NEW u \in Users, CreateNew(u) PROVE FALSE
    <3>1. PICK e \in Entries : cache' = [cache EXCEPT ![handle[u].req.field] = e]
      BY <2>1 DEF CreateNew
    <3> QED  BY <3>1, CacheAssumption DEF IInv, TypeOK
  <2>2. ~Clear
    BY DEF Clear
  <2> QED
    BY <2>1, <2>2 DEF Next, LoadOrCreate, LoadHit, LoadMiss, AddDocVecIDMap, CreateAndCache,
       CreateFound, CreateFail, DecRef, CloseEntry, MonitorStop, vars
<1> PICK e \in Entries : e = cache[f]
  BY DEF IInv, TypeOK
<1>2. e \in Cached /\ Evictable(e)
  BY <1>1 DEF Cleanup, Cached
<1>3. /\ entries[e].avg \in Nat /\ entries[e].sample \in Nat
      /\ EwmaAdd(entries[e].avg, entries[e].sample) <= Threshold
      /\ entries[e].avg = 0 => entries[e].sample > 0
  BY <1>2 DEF IInv, TypeOK, Entry, Evictable, NewAvg, FreshInv
<1> PICK a \in Nat : a = entries[e].avg
  BY <1>3
<1> PICK s \in Nat : s = entries[e].sample
  BY <1>3
<1>4. IF a = 0 THEN s = 0 ELSE s = 0 \/ 3 * a <= Precision
  BY <1>3, EwmaIs
<1>5. a > 0 /\ (s = 0 \/ 3 * a <= Precision)
  BY <1>3, <1>4
<1> QED  BY <1>5

\* No index is evicted by the tick that follows its reading, and none that was
\* queried since the last tick while its average was above a third of a query.
THEOREM EvictionIsCold == Spec => EvictedWhenCold
<1>1. Init => FreshInv
  BY DEF Init, FreshInv, Cached
<1>2. IInv /\ FreshInv /\ [Next]_vars => FreshInv'
  BY NextFresh
<1>3. IInv /\ FreshInv /\ [Next]_vars =>
        [\A f \in Fields :
           cache[f] # NoEntry /\ cache'[f] = NoEntry /\ ~cleared' =>
             LET e == entries[cache[f]]
             IN  e.avg > 0 /\ (e.sample = 0 \/ 3 * e.avg <= Precision)]_vars
  BY WithdrawnCold
<1> QED  BY <1>1, <1>2, <1>3, CacheInvariant, PTL DEF Spec, EvictedWhenCold

-----------------------------------------------------------------------------
\* An entry's document map is absent or complete; what a user carries agrees
\* with its entry, and what it excludes covers what its bitmap deletes.
EntryMapInv == \A e \in Entries : entries[e].docVecs \in {NoMap, entries[e].vecDocs}

UserMapInv ==
  \A u \in Users : Holding(u) =>
    /\ handle[u].vecDocs = entries[handle[u].entry].vecDocs
    /\ handle[u].vecDocs \cap handle[u].req.except \subseteq handle[u].exclude
    /\ pc[u] = "held" /\ handle[u].req.filtered
         => handle[u].docVecs = handle[u].vecDocs

DataInv == EntryMapInv /\ UserMapInv

\* A complete map is what a query that asked for one is given.
LEMMA FilledIsComplete ==
  ASSUME NEW e, entries[e].docVecs \in {NoMap, entries[e].vecDocs}
  PROVE  /\ FilledMap(e) = entries[e].vecDocs
         /\ HasMap(e) => entries[e].docVecs = entries[e].vecDocs
BY DEF FilledMap, HasMap

\* A user that is not part of the step keeps its agreement with its entry.
LEMMA OtherUsers ==
  ASSUME IInv, UserMapInv, NEW v \in Users, Holding(v)',
         pc'[v] = pc[v], handle'[v] = handle[v],
         entries'[handle[v].entry].vecDocs = entries[handle[v].entry].vecDocs
  PROVE  /\ handle'[v].vecDocs = entries'[handle'[v].entry].vecDocs
         /\ handle'[v].vecDocs \cap handle'[v].req.except \subseteq handle'[v].exclude
         /\ pc'[v] = "held" /\ handle'[v].req.filtered
              => handle'[v].docVecs = handle'[v].vecDocs
BY DEF UserMapInv, Holding

\* A user that has loaded an entry agrees with it, if a filtered query that
\* holds its wrapper was given the complete map.
LEMMA LoadedAgrees ==
  ASSUME NEW v \in Users, NEW e \in Entries, NEW req, NEW map,
         handle'[v] = Loaded(req, e, map),
         entries'[e].vecDocs = entries[e].vecDocs,
         pc'[v] = "held" /\ req.filtered => map = entries[e].vecDocs
  PROVE  /\ handle'[v].vecDocs = entries'[handle'[v].entry].vecDocs
         /\ handle'[v].vecDocs \cap handle'[v].req.except \subseteq handle'[v].exclude
         /\ pc'[v] = "held" /\ handle'[v].req.filtered
              => handle'[v].docVecs = handle'[v].vecDocs
BY DEF Loaded

LEMMA LoadHitData ==
  ASSUME IInv, DataInv, NEW u \in Users, NEW req \in Request, LoadHit(u, req)
  PROVE  DataInv'
<1> PICK e \in Entries : e = cache[req.field]
  BY DEF LoadHit, Request, IInv, TypeOK
<1>1. entries[e] \in Entry /\ Load(e) \in Entry
  BY LoadType DEF IInv, TypeOK
<1>2. Load(e).docVecs = entries[e].docVecs /\ Load(e).vecDocs = entries[e].vecDocs
  BY <1>1 DEF Load, Entry
<1>3. \A d \in Entries : /\ entries'[d].docVecs = entries[d].docVecs
                         /\ entries'[d].vecDocs = entries[d].vecDocs
  BY <1>2 DEF LoadHit, IInv, TypeOK
<1>4. EntryMapInv'
  BY <1>3 DEF DataInv, EntryMapInv
<1>5. \A v \in Users \ {u} : pc'[v] = pc[v] /\ handle'[v] = handle[v]
  BY DEF LoadHit, IInv, TypeOK
<1>6. /\ handle'[u] = Loaded(req, e, entries[e].docVecs)
      /\ pc'[u] = IF req.filtered /\ ~HasMap(e) THEN "unmapped" ELSE "held"
  BY DEF LoadHit, IInv, TypeOK
<1>7. UserMapInv'
  <2> SUFFICES ASSUME NEW v \in Users, Holding(v)'
               PROVE  /\ handle'[v].vecDocs = entries'[handle'[v].entry].vecDocs
                      /\ handle'[v].vecDocs \cap handle'[v].req.except
                            \subseteq handle'[v].exclude
                      /\ pc'[v] = "held" /\ handle'[v].req.filtered
                           => handle'[v].docVecs = handle'[v].vecDocs
    BY DEF UserMapInv
  <2>1. CASE v = u
    <3>1. pc'[u] = "held" /\ req.filtered => entries[e].docVecs = entries[e].vecDocs
      BY <1>6, FilledIsComplete DEF DataInv, EntryMapInv
    <3> QED  BY <1>3, <1>6, <2>1, <3>1, LoadedAgrees
  <2>2. CASE v # u
    <3>1. handle[v].entry \in Entries
      BY <1>5, <2>2 DEF Holding, IInv, HandleInv
    <3> QED  BY <1>3, <1>5, <2>2, <3>1, OtherUsers DEF DataInv
  <2> QED  BY <2>1, <2>2
<1> QED  BY <1>4, <1>7 DEF DataInv

LEMMA AddDocVecIDMapData ==
  ASSUME IInv, DataInv, NEW u \in Users, AddDocVecIDMap(u)
  PROVE  DataInv'
<1> PICK e \in Entries : e = handle[u].entry
  BY DEF AddDocVecIDMap, IInv, HandleInv, Holding
<1>1. entries[e] \in Entry /\ handle[u] \in Handle
  BY DEF AddDocVecIDMap, IInv, HandleInv, TypeOK
<1>2. FilledMap(e) = entries[e].vecDocs
  BY FilledIsComplete DEF DataInv, EntryMapInv
<1>3. /\ \A d \in Entries : entries'[d].vecDocs = entries[d].vecDocs
      /\ entries'[e].docVecs = entries[e].vecDocs
      /\ \A d \in Entries \ {e} : entries'[d].docVecs = entries[d].docVecs
  BY <1>1, <1>2 DEF AddDocVecIDMap, IInv, TypeOK, Entry
<1>4. EntryMapInv'
  BY <1>3 DEF DataInv, EntryMapInv
<1>5. \A v \in Users \ {u} : pc'[v] = pc[v] /\ handle'[v] = handle[v]
  BY DEF AddDocVecIDMap, IInv, TypeOK
<1>6. /\ handle'[u].entry = e /\ handle'[u].vecDocs = handle[u].vecDocs
      /\ handle'[u].docVecs = entries[e].vecDocs
      /\ handle'[u].req = handle[u].req /\ handle'[u].exclude = handle[u].exclude
  BY <1>1, <1>2 DEF AddDocVecIDMap, IInv, TypeOK, Handle
<1>7. UserMapInv'
  <2> SUFFICES ASSUME NEW v \in Users, Holding(v)'
               PROVE  /\ handle'[v].vecDocs = entries'[handle'[v].entry].vecDocs
                      /\ handle'[v].vecDocs \cap handle'[v].req.except
                            \subseteq handle'[v].exclude
                      /\ pc'[v] = "held" /\ handle'[v].req.filtered
                           => handle'[v].docVecs = handle'[v].vecDocs
    BY DEF UserMapInv
  <2>1. CASE v = u
    <3>1. /\ handle[u].vecDocs = entries[e].vecDocs
          /\ handle[u].vecDocs \cap handle[u].req.except \subseteq handle[u].exclude
      BY DEF AddDocVecIDMap, DataInv, UserMapInv, Holding
    <3> QED  BY <1>3, <1>6, <2>1, <3>1
  <2>2. CASE v # u
    <3>1. handle[v].entry \in Entries
      BY <1>5, <2>2 DEF Holding, IInv, HandleInv
    <3> QED  BY <1>3, <1>5, <2>2, <3>1, OtherUsers DEF DataInv
  <2> QED  BY <2>1, <2>2
<1> QED  BY <1>4, <1>7 DEF DataInv

LEMMA CreateFoundData ==
  ASSUME IInv, DataInv, NEW u \in Users, CreateFound(u)
  PROVE  DataInv'
<1>1. handle[u] \in Handle
  BY DEF CreateFound, IInv, HandleInv
<1> PICK req \in Request : req = handle[u].req
  BY <1>1 DEF Handle
<1> PICK e \in Entries : e = cache[req.field]
  BY DEF CreateFound, Request, IInv, TypeOK
<1> PICK map : map = IF req.filtered /\ ~HasMap(e) THEN FilledMap(e)
                                                  ELSE entries[e].docVecs
  OBVIOUS
<1>2. /\ map \in {NoMap, entries[e].vecDocs}
      /\ req.filtered => map = entries[e].vecDocs
  BY FilledIsComplete DEF DataInv, EntryMapInv
<1>3. /\ entries' = [entries EXCEPT ![e] = [Load(e) EXCEPT !.docVecs = map]]
      /\ handle' = [handle EXCEPT ![u] = Loaded(req, e, map)]
      /\ pc' = [pc EXCEPT ![u] = "held"]
  BY DEF CreateFound
<1>4. entries[e] \in Entry /\ Load(e) \in Entry
  BY LoadType DEF IInv, TypeOK
<1>5. /\ [Load(e) EXCEPT !.docVecs = map].docVecs = map
      /\ [Load(e) EXCEPT !.docVecs = map].vecDocs = entries[e].vecDocs
  BY <1>4 DEF Load, Entry
<1>6. /\ \A d \in Entries : entries'[d].vecDocs = entries[d].vecDocs
      /\ entries'[e].docVecs = map
      /\ \A d \in Entries \ {e} : entries'[d].docVecs = entries[d].docVecs
  BY <1>3, <1>5 DEF IInv, TypeOK
<1>7. EntryMapInv'
  BY <1>2, <1>6 DEF DataInv, EntryMapInv
<1>8. /\ \A v \in Users \ {u} : pc'[v] = pc[v] /\ handle'[v] = handle[v]
      /\ handle'[u] = Loaded(req, e, map)
  BY <1>3 DEF IInv, TypeOK
<1>9. UserMapInv'
  <2> SUFFICES ASSUME NEW v \in Users, Holding(v)'
               PROVE  /\ handle'[v].vecDocs = entries'[handle'[v].entry].vecDocs
                      /\ handle'[v].vecDocs \cap handle'[v].req.except
                            \subseteq handle'[v].exclude
                      /\ pc'[v] = "held" /\ handle'[v].req.filtered
                           => handle'[v].docVecs = handle'[v].vecDocs
    BY DEF UserMapInv
  <2>1. CASE v = u
    BY <1>2, <1>6, <1>8, <2>1, LoadedAgrees
  <2>2. CASE v # u
    <3>1. handle[v].entry \in Entries
      BY <1>8, <2>2 DEF Holding, IInv, HandleInv
    <3> QED  BY <1>6, <1>8, <2>2, <3>1, OtherUsers DEF DataInv
  <2> QED  BY <2>1, <2>2
<1> QED  BY <1>7, <1>9 DEF DataInv

LEMMA CreateNewData ==
  ASSUME IInv, DataInv, NEW u \in Users, CreateNew(u)
  PROVE  DataInv'
<1>1. handle[u] \in Handle
  BY DEF CreateNew, IInv, HandleInv
<1> PICK req \in Request : req = handle[u].req
  BY <1>1 DEF Handle
<1> PICK vecDocs : vecDocs = Docs \ req.except
  OBVIOUS
<1> PICK docVecs : docVecs = IF req.filtered THEN vecDocs ELSE NoMap
  OBVIOUS
<1> PICK e \in Entries :
       /\ Garbage(e)
       /\ entries' = [entries EXCEPT ![e] =
                        [index |-> "open", refs |-> 1, sample |-> 1, avg |-> 0,
                         vecDocs |-> vecDocs, docVecs |-> docVecs]]
       /\ handle' = [handle EXCEPT ![u] =
                       [req |-> req, entry |-> e, vecDocs |-> vecDocs,
                        docVecs |-> docVecs, exclude |-> req.except]]
  BY DEF CreateNew
<1> PICK h : h = [req |-> req, entry |-> e, vecDocs |-> vecDocs,
                  docVecs |-> docVecs, exclude |-> req.except]
  OBVIOUS
<1>2. /\ pc' = [pc EXCEPT ![u] = "held"] /\ handle' = [handle EXCEPT ![u] = h]
      /\ h.req = req /\ h.entry = e /\ h.vecDocs = vecDocs
      /\ h.docVecs = docVecs /\ h.exclude = req.except
  BY DEF CreateNew
<1>3. /\ entries'[e].vecDocs = vecDocs /\ entries'[e].docVecs = docVecs
      /\ \A d \in Entries \ {e} : entries'[d] = entries[d]
      /\ \A v \in Users \ {u} : pc'[v] = pc[v] /\ handle'[v] = handle[v]
      /\ handle'[u] = h
  BY <1>2 DEF IInv, TypeOK
<1>4. EntryMapInv'
  BY <1>3 DEF DataInv, EntryMapInv
<1>5. UserMapInv'
  <2> SUFFICES ASSUME NEW v \in Users, Holding(v)'
               PROVE  /\ handle'[v].vecDocs = entries'[handle'[v].entry].vecDocs
                      /\ handle'[v].vecDocs \cap handle'[v].req.except
                            \subseteq handle'[v].exclude
                      /\ pc'[v] = "held" /\ handle'[v].req.filtered
                           => handle'[v].docVecs = handle'[v].vecDocs
    BY DEF UserMapInv
  <2>1. CASE v = u
    <3>1. handle'[v] = h
      BY <1>3, <2>1
    <3> QED  BY <1>2, <1>3, <3>1
  <2>2. CASE v # u
    <3>1. handle[v].entry \in Entries /\ handle[v].entry # e
      BY <1>3, <2>2 DEF Holding, IInv, HandleInv, Garbage, Holders
    <3> QED  BY <1>3, <2>2, <3>1, OtherUsers DEF DataInv
  <2> QED  BY <2>1, <2>2
<1> QED  BY <1>4, <1>5 DEF DataInv

\* A step that touches no document map, and no user that goes on holding.
LEMMA DocsKept ==
  ASSUME IInv, DataInv,
         \A e \in Entries : /\ entries'[e].vecDocs = entries[e].vecDocs
                           /\ entries'[e].docVecs = entries[e].docVecs,
         \A v \in Users : Holding(v)' => pc'[v] = pc[v] /\ handle'[v] = handle[v]
  PROVE  DataInv'
<1>1. EntryMapInv'
  BY DEF DataInv, EntryMapInv
<1>2. \A v \in Users : Holding(v)' => handle[v].entry \in Entries
  BY DEF IInv, HandleInv, Holding
<1>3. UserMapInv'
  BY <1>2, OtherUsers DEF DataInv, UserMapInv
<1> QED  BY <1>1, <1>3 DEF DataInv

LEMMA DecRefData ==
  ASSUME IInv, DataInv, NEW u \in Users, DecRef(u)
  PROVE  DataInv'
<1>1. \A e \in Entries : /\ entries'[e].vecDocs = entries[e].vecDocs
                         /\ entries'[e].docVecs = entries[e].docVecs
  <2>1. CASE entries' = entries
    BY <2>1
  <2>2. CASE entries' # entries
    <3> PICK e : e = cache[handle[u].req.field]
      OBVIOUS
    <3>1. entries' = [entries EXCEPT ![e] = [entries[e] EXCEPT !.refs = entries[e].refs - 1]]
      BY <2>2 DEF DecRef
    <3> QED  BY <3>1 DEF IInv, TypeOK, Entry
  <2> QED  BY <2>1, <2>2
<1>2. \A v \in Users : Holding(v)' => pc'[v] = pc[v] /\ handle'[v] = handle[v]
  BY DEF DecRef, Holding, IInv, TypeOK
<1> QED  BY <1>1, <1>2, DocsKept

LEMMA CleanupData ==
  ASSUME IInv, DataInv, Cleanup
  PROVE  DataInv'
<1>1. \A e \in Entries : /\ entries'[e].vecDocs = entries[e].vecDocs
                         /\ entries'[e].docVecs = entries[e].docVecs
  BY DEF Cleanup, IInv, TypeOK, Entry
<1>2. UNCHANGED <<pc, handle>>
  BY DEF Cleanup
<1> QED  BY <1>1, <1>2, DocsKept

LEMMA ClearData ==
  ASSUME IInv, DataInv, Clear
  PROVE  DataInv'
<1>1. \A e \in Entries : /\ entries'[e].vecDocs = entries[e].vecDocs
                         /\ entries'[e].docVecs = entries[e].docVecs
  BY DEF Clear, IInv, TypeOK, Entry
<1>2. UNCHANGED <<pc, handle>>
  BY DEF Clear
<1> QED  BY <1>1, <1>2, DocsKept

\* Only a withdrawn entry is closed, and nobody holds that.
LEMMA CloseEntryData ==
  ASSUME IInv, DataInv, NEW e \in Entries, CloseEntry(e)
  PROVE  DataInv'
<1>1. /\ entries'[e] = Unused
      /\ \A d \in Entries \ {e} : entries'[d] = entries[d]
      /\ UNCHANGED <<pc, handle>>
  BY DEF CloseEntry, IInv, TypeOK
<1>2. EntryMapInv'
  BY <1>1 DEF DataInv, EntryMapInv, Unused
<1>3. \A v \in Users : Holding(v) => handle[v].entry \in Entries \ {e}
  <2> SUFFICES ASSUME NEW v \in Users, Holding(v)
               PROVE  handle[v].entry \in Entries \ {e}
    OBVIOUS
  <2>1. /\ handle[v].entry \in Entries /\ handle[v].req.field \in Fields
        /\ cache[handle[v].req.field] = handle[v].entry
    BY DEF IInv, HandleInv, Holding, Handle, Request
  <2>2. entries[handle[v].entry].index = "open"
    BY <2>1, CacheAssumption DEF IInv, CacheInv
  <2> QED  BY <2>1, <2>2 DEF CloseEntry
<1>4. UserMapInv'
  <2>1. \A v \in Users : Holding(v)' => Holding(v)
    BY <1>1 DEF Holding
  <2> QED  BY <1>1, <1>3, <2>1, OtherUsers DEF DataInv, UserMapInv
<1> QED  BY <1>2, <1>4 DEF DataInv

LEMMA NextDataInv == IInv /\ DataInv /\ [Next]_vars => DataInv'
<1> SUFFICES ASSUME IInv, DataInv, [Next]_vars PROVE DataInv'
  OBVIOUS
<1>1. ASSUME NEW u \in Users, NEW req \in Request, LoadOrCreate(u, req)
      PROVE  DataInv'
  <2>1. CASE LoadHit(u, req)
    BY <2>1, LoadHitData
  <2>2. CASE LoadMiss(u, req)
    BY <2>2, DocsKept DEF LoadMiss, Holding, IInv, TypeOK
  <2> QED  BY <1>1, <2>1, <2>2 DEF LoadOrCreate
<1>2. ASSUME NEW u \in Users, CreateAndCache(u)
      PROVE  DataInv'
  <2>1. CASE CreateFail(u)
    BY <2>1, DocsKept DEF CreateFail, Holding, IInv, TypeOK
  <2> QED  BY <1>2, <2>1, CreateFoundData, CreateNewData DEF CreateAndCache
<1>3. CASE MonitorStop \/ UNCHANGED vars
  BY <1>3, DocsKept DEF MonitorStop, vars
<1> QED  BY <1>1, <1>2, <1>3, AddDocVecIDMapData, DecRefData, CleanupData, ClearData,
            CloseEntryData DEF Next

LEMMA DataInvariant == Spec => []DataInv
<1>1. Init => DataInv
  BY DEF Init, DataInv, EntryMapInv, UserMapInv, Holding, Unused
<1>2. IInv /\ DataInv /\ [Next]_vars => DataInv'
  BY NextDataInv
<1> QED  BY <1>1, <1>2, CacheInvariant, PTL DEF Spec

\* A filtered query always gets the complete document map of its entry.
THEOREM FilteredMapComplete == Spec => []FilteredHasMap
<1>1. DataInv => FilteredHasMap
  BY DEF DataInv, UserMapInv, FilteredHasMap, Holding
<1> QED  BY <1>1, DataInvariant, PTL

\* No search returns a document that the query's own bitmap deletes.
THEOREM DeletedNeverHit == Spec => []NoDeletedHit
<1>1. DataInv => NoDeletedHit
  BY DEF DataInv, UserMapInv, NoDeletedHit, Hits, Holding
<1> QED  BY <1>1, DataInvariant, PTL

-----------------------------------------------------------------------------
(* The cache implements IndexLease: under the refinement mapping of         *)
(* VectorIndexCache every step of the cache is a step of the lease or       *)
(* leaves it alone.  The liveness part of IndexLease is left to the model   *)
(* checker.                                                                 *)


\* The mapping of the variables, in terms of who holds what.
LEMMA LeaseOf ==
  ASSUME TypeOK, NEW u \in Users
  PROVE  /\ lease[u] = IF Holding(u) THEN handle[u].entry ELSE NoEntry
         /\ lease'[u] = IF Holding(u)' THEN handle'[u].entry ELSE NoEntry
BY DEF lease, Holding

\* A step in which no user starts or stops holding leaves the leases alone.
LEMMA LeaseKept ==
  ASSUME \A u \in Users : (Holding(u) <=> Holding(u)')
                          /\ (Holding(u) => handle'[u].entry = handle[u].entry)
  PROVE  lease' = lease
BY DEF lease, Holding

\* A user that starts holding e is the only one whose lease changes.
LEMMA LeaseTaken ==
  ASSUME NEW u \in Users, NEW e, ~Holding(u), Holding(u)', handle'[u].entry = e,
         \A v \in Users \ {u} : pc'[v] = pc[v] /\ handle'[v] = handle[v]
  PROVE  lease[u] = NoEntry /\ lease' = [lease EXCEPT ![u] = e]
BY DEF lease, Holding

\* Entries whose index keeps its state keep their place in the mapping.
LEMMA RetiredKept ==
  ASSUME \A e \in Entries : entries'[e].index = entries[e].index
  PROVE  retired' = retired
BY DEF retired

LEMMA LoadHitGrants ==
  ASSUME IInv, NEW u \in Users, NEW req \in Request, LoadHit(u, req)
  PROVE  Lease!Grant(u, req.field)
<1> PICK e \in Entries : e = cache[req.field]
  BY DEF LoadHit, Request, IInv, TypeOK
<1>1. /\ req.field \in Fields /\ UNCHANGED cache
      /\ ~Holding(u) /\ Holding(u)' /\ handle'[u].entry = e
      /\ \A v \in Users \ {u} : pc'[v] = pc[v] /\ handle'[v] = handle[v]
  BY DEF LoadHit, IInv, TypeOK, Holding, Loaded, Request
<1>2. retired' = retired
  BY LoadType, RetiredKept DEF LoadHit, IInv, TypeOK
<1>3. cache' = [cache EXCEPT ![req.field] = e]
  BY <1>1 DEF IInv, TypeOK
<1>4. lease[u] = NoEntry /\ lease' = [lease EXCEPT ![u] = e]
  BY <1>1, LeaseTaken
<1> QED  BY <1>2, <1>3, <1>4 DEF Lease!Grant

LEMMA CreateFoundGrants ==
  ASSUME IInv, NEW u \in Users, CreateFound(u)
  PROVE  \E f \in Fields : Lease!Grant(u, f)
<1>1. handle[u] \in Handle
  BY DEF CreateFound, IInv, HandleInv
<1> PICK req \in Request : req = handle[u].req
  BY <1>1 DEF Handle
<1> PICK e \in Entries : e = cache[req.field]
  BY DEF CreateFound, Request, IInv, TypeOK
<1> PICK map : map = IF req.filtered /\ ~HasMap(e) THEN FilledMap(e)
                                                  ELSE entries[e].docVecs
  OBVIOUS
<1>2. /\ entries' = [entries EXCEPT ![e] = [Load(e) EXCEPT !.docVecs = map]]
      /\ handle' = [handle EXCEPT ![u] = Loaded(req, e, map)]
      /\ pc[u] = "missed" /\ pc' = [pc EXCEPT ![u] = "held"] /\ UNCHANGED cache
  BY DEF CreateFound
<1>3. [Load(e) EXCEPT !.docVecs = map].index = entries[e].index
  BY LoadType DEF IInv, TypeOK, Entry
<1>4. retired' = retired
  BY <1>2, <1>3, RetiredKept DEF IInv, TypeOK
<1>5. /\ ~Holding(u) /\ Holding(u)' /\ handle'[u].entry = e
      /\ \A v \in Users \ {u} : pc'[v] = pc[v] /\ handle'[v] = handle[v]
  BY <1>2 DEF IInv, TypeOK, Holding, Loaded
<1>6. lease[u] = NoEntry /\ lease' = [lease EXCEPT ![u] = e]
  BY <1>5, LeaseTaken
<1>7. req.field \in Fields /\ cache' = [cache EXCEPT ![req.field] = e]
  BY <1>2 DEF IInv, TypeOK, Request
<1> QED  BY <1>4, <1>6, <1>7 DEF Lease!Grant

LEMMA CreateNewGrants ==
  ASSUME IInv, NEW u \in Users, CreateNew(u)
  PROVE  \E f \in Fields : Lease!Grant(u, f)
<1>1. handle[u] \in Handle
  BY DEF CreateNew, IInv, HandleInv
<1> PICK req \in Request : req = handle[u].req
  BY <1>1 DEF Handle
<1> PICK e \in Entries :
       /\ Garbage(e)
       /\ \E r : r.index = "open" /\ entries' = [entries EXCEPT ![e] = r]
       /\ cache' = [cache EXCEPT ![req.field] = e]
       /\ \E h : h.entry = e /\ handle' = [handle EXCEPT ![u] = h]
  <2> PICK e \in Entries :
       /\ Garbage(e)
       /\ entries' = [entries EXCEPT ![e] =
                        [index |-> "open", refs |-> 1, sample |-> 1, avg |-> 0,
                         vecDocs |-> Docs \ req.except,
                         docVecs |-> IF req.filtered THEN Docs \ req.except ELSE NoMap]]
       /\ cache' = [cache EXCEPT ![req.field] = e]
       /\ handle' = [handle EXCEPT ![u] =
                       [req |-> req, entry |-> e, vecDocs |-> Docs \ req.except,
                        docVecs |-> IF req.filtered THEN Docs \ req.except ELSE NoMap,
                        exclude |-> req.except]]
    BY DEF CreateNew
  <2>1. \E r : r.index = "open" /\ entries' = [entries EXCEPT ![e] = r]
    <3> PICK r : r = [index |-> "open", refs |-> 1, sample |-> 1, avg |-> 0,
                      vecDocs |-> Docs \ req.except,
                      docVecs |-> IF req.filtered THEN Docs \ req.except ELSE NoMap]
      OBVIOUS
    <3>1. r.index = "open"
      OBVIOUS
    <3>2. entries' = [entries EXCEPT ![e] = r]
      OBVIOUS
    <3> QED  BY <3>1, <3>2
  <2>2. \E h : h.entry = e /\ handle' = [handle EXCEPT ![u] = h]
    OBVIOUS
  <2> QED  BY <2>1, <2>2
<1>2. /\ pc[u] = "missed" /\ pc' = [pc EXCEPT ![u] = "held"]
      /\ cache[req.field] = NoEntry /\ req.field \in Fields
  BY DEF CreateNew, Request
<1>3. e \notin Cached /\ entries[e].index = "closed" /\ entries'[e].index = "open"
  BY CacheAssumption DEF Garbage, IInv, CacheInv, Cached, TypeOK
<1>4. retired' = retired /\ e \notin retired
  BY <1>3 DEF retired, IInv, TypeOK
<1>5. /\ ~Holding(u) /\ Holding(u)' /\ handle'[u].entry = e
      /\ \A v \in Users \ {u} : pc'[v] = pc[v] /\ handle'[v] = handle[v]
  BY <1>2 DEF IInv, TypeOK, Holding
<1>6. lease[u] = NoEntry /\ lease' = [lease EXCEPT ![u] = e]
  BY <1>5, LeaseTaken
<1>7. e \notin Lease!Serving
  BY <1>3 DEF Lease!Serving, Cached
<1> QED  BY <1>2, <1>4, <1>6, <1>7 DEF Lease!Grant

LEMMA DecRefReturns ==
  ASSUME IInv, NEW u \in Users, DecRef(u)
  PROVE  Lease!Return(u)
<1>1. /\ handle[u].entry \in Entries /\ Holding(u)
      /\ pc' = [pc EXCEPT ![u] = "idle"] /\ handle' = [handle EXCEPT ![u] = NoHandle]
      /\ UNCHANGED cache
  BY DEF DecRef, IInv, HandleInv, Holding
<1>2. lease[u] # NoEntry /\ lease' = [lease EXCEPT ![u] = NoEntry]
  BY <1>1, CacheAssumption DEF lease, Holding, IInv, TypeOK
<1>3. \A e \in Entries : entries'[e].index = entries[e].index
  <2>1. CASE entries' = entries
    BY <2>1
  <2>2. CASE entries' # entries
    <3> PICK e : e = cache[handle[u].req.field]
      OBVIOUS
    <3>1. entries' = [entries EXCEPT ![e] = [entries[e] EXCEPT !.refs = entries[e].refs - 1]]
      BY <2>2 DEF DecRef
    <3> QED  BY <3>1 DEF IInv, TypeOK, Entry
  <2> QED  BY <2>1, <2>2
<1> QED  BY <1>1, <1>2, <1>3, RetiredKept DEF Lease!Return

\* Withdrawing a set of cached entries that nobody holds.
LEMMA WithdrawRetires ==
  ASSUME IInv, NEW S \in SUBSET Cached,
         \A e \in S : Holders(e) = {},
         \A e \in Entries :
           entries'[e].index = IF e \in S THEN "closing" ELSE entries[e].index,
         cache' = [f \in Fields |-> IF cache[f] \in S THEN NoEntry ELSE cache[f]],
         UNCHANGED <<pc, handle>>
  PROVE  (\E T \in SUBSET Lease!Serving : Lease!Retire(T)) \/ UNCHANGED Lease!leaseVars
<1>1. S \subseteq Entries /\ S \subseteq Lease!Serving
  BY DEF Cached, Lease!Serving, IInv, TypeOK
<1>2. retired' = retired \cup S
  BY <1>1 DEF retired
<1>3. lease' = lease
  BY LeaseKept DEF Holding
<1>4. CASE S = {}
  <2>1. cache' = cache
    BY <1>4 DEF IInv, TypeOK
  <2> QED  BY <1>2, <1>3, <1>4, <2>1 DEF Lease!leaseVars
<1>5. CASE S # {}
  <2>1. S \cap Lease!Leased = {}
    BY DEF Lease!Leased, lease, Holders, Cached
  <2>2. Lease!Retire(S)
    BY <1>1, <1>2, <1>3, <1>5, <2>1 DEF Lease!Retire
  <2> QED  BY <1>1, <2>2
<1> QED  BY <1>4, <1>5

LEMMA CleanupRetires ==
  ASSUME IInv, Cleanup
  PROVE  (\E T \in SUBSET Lease!Serving : Lease!Retire(T)) \/ UNCHANGED Lease!leaseVars
<1> PICK evicted \in SUBSET Cached : evicted = {e \in Cached : Evictable(e)}
  OBVIOUS
<1>1. \A e \in evicted : Holders(e) = {}
  <2> SUFFICES ASSUME NEW e \in evicted PROVE Holders(e) = {}
    OBVIOUS
  <2>1. e \in Cached /\ entries[e].refs <= 0
    BY DEF Evictable
  <2>2. Cardinality(Holders(e)) = 0
    BY <2>1, HoldersFinite DEF IInv, RefsInv, RefsAreHolders
  <2> QED  BY <2>2, HoldersFinite, FS_EmptySet
<1>2. \A e \in Entries :
        entries'[e].index = IF e \in evicted THEN "closing" ELSE entries[e].index
  <2> SUFFICES ASSUME NEW e \in Entries
               PROVE  entries'[e].index = IF e \in evicted THEN "closing"
                                                           ELSE entries[e].index
    OBVIOUS
  <2> PICK r \in Entry : r = entries[e]
    BY DEF IInv, TypeOK
  <2> PICK x : x = IF e \in evicted THEN "closing" ELSE r.index
    OBVIOUS
  <2>1. CASE e \notin Cached
    BY <2>1 DEF Cleanup
  <2>2. CASE e \in Cached
    <3>1. entries'[e] = [r EXCEPT !.avg = NewAvg(e), !.sample = 0, !.index = x]
      BY <2>2 DEF Cleanup
    <3> QED  BY <3>1 DEF Entry
  <2> QED  BY <2>1, <2>2
<1>3. /\ cache' = [f \in Fields |-> IF cache[f] \in evicted THEN NoEntry ELSE cache[f]]
      /\ UNCHANGED <<pc, handle>>
  BY DEF Cleanup
<1> QED  BY <1>1, <1>2, <1>3, WithdrawRetires

LEMMA ClearRetires ==
  ASSUME IInv, Quiescent, Clear
  PROVE  (\E T \in SUBSET Lease!Serving : Lease!Retire(T)) \/ UNCHANGED Lease!leaseVars
<1> PICK S \in SUBSET Cached : S = Cached
  OBVIOUS
<1>1. \A e \in S : Holders(e) = {}
  BY DEF Quiescent, Holders
<1>2. \A e \in Entries :
        entries'[e].index = IF e \in S THEN "closing" ELSE entries[e].index
  BY DEF Clear, IInv, TypeOK, Entry
<1>3. /\ cache' = [f \in Fields |-> IF cache[f] \in S THEN NoEntry ELSE cache[f]]
      /\ UNCHANGED <<pc, handle>>
  BY DEF Clear, Cached, IInv, TypeOK
<1> QED  BY <1>1, <1>2, <1>3, WithdrawRetires

LEMMA CloseEntryFrees ==
  ASSUME IInv, NEW e \in Entries, CloseEntry(e)
  PROVE  Lease!Free(e)
<1>1. /\ e \in retired /\ entries'[e].index = "closed"
      /\ \A d \in Entries \ {e} : entries'[d] = entries[d]
      /\ UNCHANGED <<cache, pc, handle>>
  BY DEF CloseEntry, retired, IInv, TypeOK, Unused
<1>2. retired' = retired \ {e}
  BY <1>1 DEF retired
<1>3. lease' = lease
  BY <1>1, LeaseKept DEF Holding
<1> QED  BY <1>1, <1>2, <1>3 DEF Lease!Free

\* What is left changes neither who holds what nor the state of an index.
LEMMA SilentSteps ==
  ASSUME IInv,
         \/ \E u \in Users, req \in Request : LoadMiss(u, req)
         \/ \E u \in Users : AddDocVecIDMap(u) \/ CreateFail(u)
         \/ MonitorStop \/ UNCHANGED vars
  PROVE  UNCHANGED Lease!leaseVars
<1>1. ASSUME NEW u \in Users, NEW req \in Request, LoadMiss(u, req)
      PROVE  UNCHANGED Lease!leaseVars
  BY <1>1, LeaseKept, RetiredKept
     DEF LoadMiss, IInv, TypeOK, Holding, Lease!leaseVars
<1>2. ASSUME NEW u \in Users, AddDocVecIDMap(u)
      PROVE  UNCHANGED Lease!leaseVars
  <2>1. \A e \in Entries : entries'[e].index = entries[e].index
    BY <1>2 DEF AddDocVecIDMap, IInv, TypeOK, Entry
  <2>2. handle[u] \in Handle
    BY <1>2 DEF AddDocVecIDMap, IInv, HandleInv
  <2>3. \A v \in Users : (Holding(v) <=> Holding(v)')
                         /\ (Holding(v) => handle'[v].entry = handle[v].entry)
    BY <1>2, <2>2 DEF AddDocVecIDMap, IInv, TypeOK, Holding, Handle
  <2> QED  BY <1>2, <2>1, <2>3, LeaseKept, RetiredKept
           DEF AddDocVecIDMap, Lease!leaseVars
<1>3. ASSUME NEW u \in Users, CreateFail(u)
      PROVE  UNCHANGED Lease!leaseVars
  BY <1>3, LeaseKept, RetiredKept
     DEF CreateFail, IInv, TypeOK, Holding, Lease!leaseVars
<1>4. CASE MonitorStop \/ UNCHANGED vars
  BY <1>4, LeaseKept, RetiredKept DEF MonitorStop, vars, Holding, Lease!leaseVars
<1> QED  BY <1>1, <1>2, <1>3, <1>4

LEMMA NextImplements == IInv /\ [Next]_vars => [Lease!LeaseNext]_Lease!leaseVars
<1> SUFFICES ASSUME IInv, [Next]_vars PROVE Lease!LeaseNext \/ UNCHANGED Lease!leaseVars
  OBVIOUS
<1>1. ASSUME NEW u \in Users, NEW req \in Request, LoadOrCreate(u, req)
      PROVE  Lease!LeaseNext \/ UNCHANGED Lease!leaseVars
  BY <1>1, LoadHitGrants, SilentSteps DEF LoadOrCreate, Request, Lease!LeaseNext
<1>2. ASSUME NEW u \in Users, CreateAndCache(u)
      PROVE  Lease!LeaseNext \/ UNCHANGED Lease!leaseVars
  BY <1>2, CreateFoundGrants, CreateNewGrants, SilentSteps
     DEF CreateAndCache, Lease!LeaseNext
<1>3. ASSUME NEW u \in Users, DecRef(u)
      PROVE  Lease!LeaseNext
  BY <1>3, DecRefReturns DEF Lease!LeaseNext
<1>4. ASSUME NEW e \in Entries, CloseEntry(e)
      PROVE  Lease!LeaseNext
  BY <1>4, CloseEntryFrees DEF Lease!LeaseNext
<1>5. CASE \E u \in Users, req \in Request : LoadOrCreate(u, req)
  BY <1>1, <1>5
<1>6. CASE \E u \in Users : CreateAndCache(u)
  BY <1>2, <1>6
<1>7. CASE \E u \in Users : DecRef(u)
  BY <1>3, <1>7
<1>8. CASE \E e \in Entries : CloseEntry(e)
  BY <1>4, <1>8
<1>9. CASE Cleanup
  BY <1>9, CleanupRetires DEF Lease!LeaseNext
<1>10. CASE Quiescent /\ Clear
  BY <1>10, ClearRetires DEF Lease!LeaseNext
<1>11. CASE \E u \in Users : AddDocVecIDMap(u)
  BY <1>11, SilentSteps
<1>12. CASE MonitorStop
  BY <1>12, SilentSteps
<1>13. CASE UNCHANGED vars
  BY <1>13, SilentSteps
<1> QED  BY <1>5, <1>6, <1>7, <1>8, <1>9, <1>10, <1>11, <1>12, <1>13 DEF Next

\* The cache, whatever the interleaving of its users, monitor and goroutines,
\* is a correct lease of indexes.
THEOREM CacheImplementsLease == Spec => LeaseSafety
<1>1. Init => Lease!LeaseInit
  BY DEF Init, Lease!LeaseInit, lease, retired, Unused
<1>2. IInv /\ [Next]_vars => [Lease!LeaseNext]_Lease!leaseVars
  BY NextImplements
<1> QED  BY <1>1, <1>2, CacheInvariant, PTL DEF Spec, LeaseSafety, Lease!LeaseSpec

-----------------------------------------------------------------------------
(* The segment.                                                            *)

\* closeActual starts when the count reaches zero, which it does once.
SegInv ==
  /\ SegTypeOK
  /\ SegRefsAreHolders
  /\ pc \in [Users -> Phases]
  /\ \A u \in Users : pc[u] # "idle" => u \in pinned
  /\ closing = "no" <=> segRefs # 0
  /\ mapped <=> closing # "done"
  /\ cleared <=> closing \in {"unmap", "done"}

\* The count is zero exactly when nobody holds the segment.
LEMMA CountZero ==
  ASSUME SegTypeOK, SegRefsAreHolders
  PROVE  /\ segRefs \in Nat
         /\ segRefs = 0 <=> pinned = {} /\ ~owner
         /\ IsFiniteSet(pinned) /\ Cardinality(pinned) \in Nat
<1>1. IsFiniteSet(pinned) /\ Cardinality(pinned) \in Nat
  BY CacheAssumption, FS_Subset, FS_CardinalityType DEF SegTypeOK
<1>2. Cardinality(pinned) = 0 <=> pinned = {}
  BY <1>1, FS_EmptySet
<1> QED  BY <1>1, <1>2 DEF SegTypeOK, SegRefsAreHolders

\* The actions of a query and of the background leave closeCh alone and keep
\* the users that are not part of the step where they are.
LEMMA QueryFrame ==
  ASSUME pc \in [Users -> Phases], NEW u \in Users, Query(u)
  PROVE  /\ UNCHANGED segVars /\ UNCHANGED cleared /\ u \in pinned
         /\ pc' \in [Users -> Phases]
         /\ \A v \in Users \ {u} : pc'[v] = pc[v]
<1>1. UNCHANGED segVars /\ UNCHANGED cleared /\ u \in pinned
  BY DEF Query, LoadOrCreate, LoadHit, LoadMiss, AddDocVecIDMap, CreateAndCache,
         CreateFound, CreateNew, CreateFail, DecRef
<1>2. \E p \in Phases : pc' = [pc EXCEPT ![u] = p]
  BY DEF Query, LoadOrCreate, LoadHit, LoadMiss, AddDocVecIDMap, CreateAndCache,
         CreateFound, CreateNew, CreateFail, DecRef, Phases
<1> QED  BY <1>1, <1>2

LEMMA BackgroundFrame ==
  ASSUME Background
  PROVE  UNCHANGED segVars /\ UNCHANGED <<cleared, pc>>
BY DEF Background, Cleanup, MonitorStop, CloseEntry

LEMMA NextSegInv == SegInv /\ [SegNext]_allVars => SegInv'
<1> SUFFICES ASSUME SegInv, [SegNext]_allVars PROVE SegInv'
  OBVIOUS
<1> USE DEF SegInv
<1>1. ASSUME NEW u \in Users, AddRef(u) PROVE SegInv'
  <2>1. /\ u \notin pinned /\ pinned' = pinned \cup {u} /\ segRefs' = segRefs + 1
        /\ UNCHANGED <<owner, closing, mapped, cleared, pc>> /\ segRefs # 0
    BY <1>1, CountZero DEF AddRef, vars
  <2>2. Cardinality(pinned') = Cardinality(pinned) + 1
    BY <2>1, CountZero, FS_AddElement
  <2>3. SegTypeOK'
    BY <2>1 DEF SegTypeOK
  <2>4. SegRefsAreHolders' /\ segRefs' # 0
    BY <2>1, <2>2, CountZero DEF SegRefsAreHolders
  <2> QED  BY <2>1, <2>3, <2>4
<1>2. ASSUME NEW u \in Users, UserDecRef(u) PROVE SegInv'
  <2>1. /\ u \in pinned /\ pinned' = pinned \ {u} /\ segRefs' = segRefs - 1
        /\ closing' = IF segRefs = 1 THEN "clear" ELSE closing
        /\ pc[u] = "idle" /\ UNCHANGED <<owner, mapped, cleared, pc>>
        /\ segRefs # 0
    BY <1>2, CountZero DEF UserDecRef, Decrement, vars
  <2>2. Cardinality(pinned') = Cardinality(pinned) - 1
    BY <2>1, CountZero, FS_RemoveElement
  <2>3. SegTypeOK'
    BY <2>1 DEF SegTypeOK
  <2>4. SegRefsAreHolders'
    BY <2>1, <2>2, CountZero DEF SegRefsAreHolders
  <2>5. closing = "no" /\ segRefs \in Nat
    BY <2>1, CountZero
  <2> QED  BY <2>1, <2>3, <2>4, <2>5
<1>3. ASSUME OwnerClose PROVE SegInv'
  <2>1. /\ owner /\ owner' = FALSE /\ segRefs' = segRefs - 1
        /\ closing' = IF segRefs = 1 THEN "clear" ELSE closing
        /\ UNCHANGED <<pinned, mapped, cleared, pc>> /\ segRefs # 0
    BY <1>3, CountZero DEF OwnerClose, Decrement, vars
  <2>2. SegTypeOK'
    <3>1. segRefs' \in Nat /\ closing' \in {"no", "clear", "unmap", "done"}
      BY <2>1 DEF SegTypeOK
    <3>2. owner' \in BOOLEAN /\ mapped' \in BOOLEAN /\ pinned' \subseteq Users
      BY <2>1 DEF SegTypeOK
    <3> QED  BY <3>1, <3>2 DEF SegTypeOK
  <2>3. SegRefsAreHolders'
    BY <2>1, CountZero DEF SegRefsAreHolders
  <2>4. closing = "no" /\ segRefs \in Nat
    BY <2>1, CountZero
  <2> QED  BY <2>1, <2>2, <2>3, <2>4
<1>4. ASSUME ClearCaches PROVE SegInv'
  BY <1>4 DEF ClearCaches, Clear, SegTypeOK, SegRefsAreHolders
<1>5. ASSUME Unmap PROVE SegInv'
  BY <1>5 DEF Unmap, vars, SegTypeOK, SegRefsAreHolders
<1>6. ASSUME NEW u \in Users, Query(u) PROVE SegInv'
  BY <1>6, QueryFrame DEF segVars, SegTypeOK, SegRefsAreHolders
<1>7. ASSUME Background PROVE SegInv'
  BY <1>7, BackgroundFrame DEF segVars, SegTypeOK, SegRefsAreHolders
<1>8. CASE UNCHANGED allVars
  BY <1>8 DEF allVars, segVars, vars, SegTypeOK, SegRefsAreHolders
<1> QED  BY <1>1, <1>2, <1>3, <1>4, <1>5, <1>6, <1>7, <1>8 DEF SegNext

LEMMA SegInvariant == SegSpec => []SegInv
<1>1. SegInit => SegInv
  <2> SUFFICES ASSUME SegInit PROVE SegInv
    OBVIOUS
  <2>1. SegTypeOK /\ SegRefsAreHolders
    BY FS_EmptySet DEF SegInit, SegTypeOK, SegRefsAreHolders
  <2> QED  BY <2>1 DEF SegInit, Init, SegInv, Phases
<1>2. SegInv /\ [SegNext]_allVars => SegInv'
  BY NextSegInv
<1> QED  BY <1>1, <1>2, PTL DEF SegSpec

\* s.refs counts the holders: closeActual runs once, for the last of them.
THEOREM SegRefsExact == SegSpec => []SegRefsAreHolders
<1>1. SegInv => SegRefsAreHolders
  BY DEF SegInv
<1> QED  BY <1>1, SegInvariant, PTL

\* While a query is under way the file stays mapped.
THEOREM QueriesMapped == SegSpec => []QueriesReadMappedFile
<1>1. SegInv => QueriesReadMappedFile
  <2> SUFFICES ASSUME SegInv, NEW u \in Users, pc[u] # "idle" PROVE mapped
    BY DEF QueriesReadMappedFile
  <2>1. pinned # {}
    BY DEF SegInv
  <2>2. segRefs # 0
    BY <2>1, CountZero DEF SegInv
  <2> QED  BY <2>2 DEF SegInv
<1> QED  BY <1>1, SegInvariant, PTL

\* The composition behaves, as far as the cache can tell, as VectorIndexCache
\* does alone: queries end before Clear and none starts after it.
THEOREM ContractDischarged == SegSpec => ObeysCacheContract
<1>1. SegInit => Init
  BY DEF SegInit
<1>2. SegInv /\ [SegNext]_allVars => [Next]_vars
  <2> SUFFICES ASSUME SegInv, [SegNext]_allVars PROVE Next \/ UNCHANGED vars
    OBVIOUS
  <2>1. ASSUME NEW u \in Users, Query(u) PROVE Next
    <3>1. ~cleared
      BY <2>1, CountZero DEF Query, SegInv
    <3> QED  BY <2>1, <3>1 DEF Query, Next
  <2>2. ASSUME Background PROVE Next
    BY <2>2 DEF Background, Next
  <2>3. ASSUME ClearCaches PROVE Next
    <3>1. Quiescent
      BY <2>3, CountZero DEF ClearCaches, SegInv, Quiescent
    <3> QED  BY <2>3, <3>1 DEF ClearCaches, Next
  <2>4. CASE \E u \in Users : AddRef(u) \/ UserDecRef(u)
    BY <2>4 DEF AddRef, UserDecRef, Decrement
  <2>5. CASE OwnerClose \/ Unmap \/ UNCHANGED allVars
    BY <2>5 DEF OwnerClose, Unmap, Decrement, allVars
  <2> QED  BY <2>1, <2>2, <2>3, <2>4, <2>5 DEF SegNext
<1> QED  BY <1>1, <1>2, SegInvariant, PTL DEF SegSpec, Spec, ObeysCacheContract

\* In the composed system too, no query touches an index that is closed.
THEOREM SegmentSafe == SegSpec => []IndexOpenWhileHeld
BY ContractDischarged, NoUseAfterClose, PTL DEF ObeysCacheContract

\* The cache is emptied when it is cleared, and no query comes to fill it.
ClearedEmpty == cleared => \A f \in Fields : cache[f] = NoEntry

LEMMA NextClearedEmpty ==
  SegInv /\ ClearedEmpty /\ [SegNext]_allVars => ClearedEmpty'
<1> SUFFICES ASSUME SegInv, ClearedEmpty, [SegNext]_allVars PROVE ClearedEmpty'
  OBVIOUS
<1>1. ASSUME NEW u \in Users, Query(u) PROVE ~cleared'
  <2>1. u \in pinned /\ UNCHANGED cleared
    BY <1>1, QueryFrame DEF SegInv
  <2> QED  BY <2>1, CountZero DEF SegInv
<1>2. ASSUME Background PROVE ~cleared' \/ UNCHANGED <<cleared, cache>>
  BY <1>2 DEF Background, Cleanup, MonitorStop, CloseEntry
<1>3. ASSUME ClearCaches PROVE \A f \in Fields : cache'[f] = NoEntry
  BY <1>3 DEF ClearCaches, Clear
<1>4. ASSUME (\E u \in Users : AddRef(u) \/ UserDecRef(u)) \/ OwnerClose \/ Unmap
             \/ UNCHANGED allVars
      PROVE  UNCHANGED <<cleared, cache>>
  BY <1>4 DEF AddRef, UserDecRef, OwnerClose, Decrement, Unmap, allVars, vars
<1> QED  BY <1>1, <1>2, <1>3, <1>4 DEF SegNext, ClearedEmpty

\* Once the file is unmapped no cached index is served.
THEOREM NothingServedAfter == SegSpec => []NothingServedAfterUnmap
<1>1. SegInit => ClearedEmpty
  BY DEF SegInit, Init, ClearedEmpty
<1>2. SegInv /\ ClearedEmpty => NothingServedAfterUnmap
  BY DEF SegInv, ClearedEmpty, NothingServedAfterUnmap, Cached
<1> QED  BY <1>1, <1>2, NextClearedEmpty, SegInvariant, PTL DEF SegSpec
=============================================================================
