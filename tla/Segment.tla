------------------------------- MODULE Segment -------------------------------
(***************************************************************************)
(* The life of a persisted segment (segment.go): the reference count that  *)
(* its users share, and closeActual, which the last DecRef runs: it clears *)
(* the vector index cache and unmaps the file.  The queries of             *)
(* VectorIndexCache run between the AddRef and the DecRef of their user.   *)
(*                                                                         *)
(* A user takes its reference while somebody else holds one: the owner,    *)
(* which has the reference Open created, or another user.  Both, and a     *)
(* user closing its wrapper before its DecRef, are the contract of         *)
(* segment.Segment with the index that uses it, not code of this package.  *)
(***************************************************************************)
EXTENDS VectorIndexCache

VARIABLES
  segRefs,  \* s.refs
  pinned,   \* users that hold a reference to the segment
  owner,    \* TRUE until the index closes the reference Open gave it
  closing,  \* how far closeActual is: "no", "clear", "unmap", "done"
  mapped    \* s.mm is mapped

segVars == <<segRefs, pinned, owner, closing, mapped>>
allVars == <<vars, segVars>>

SegTypeOK ==
  /\ segRefs \in Nat
  /\ pinned \subseteq Users
  /\ owner \in BOOLEAN
  /\ closing \in {"no", "clear", "unmap", "done"}
  /\ mapped \in BOOLEAN

\* Open, once the file is mapped and its fields are loaded.
SegInit ==
  /\ Init
  /\ segRefs = 1
  /\ pinned = {}
  /\ owner = TRUE
  /\ closing = "no"
  /\ mapped = TRUE

\* s.m is held from the decrement in DecRef to the end of closeActual.
Unlocked == closing \in {"no", "done"}

\* Mutant of AddRef: the count is not raised.
MutAddRefNoCount(u) ==
  /\ Unlocked
  /\ u \notin pinned
  /\ owner \/ pinned # {}
  /\ pinned' = pinned \cup {u}
  /\ UNCHANGED <<segRefs, owner, closing, mapped, vars>>

AddRef(u) ==
  /\ Unlocked
  /\ u \notin pinned
  /\ owner \/ pinned # {}
  /\ segRefs' = segRefs + 1
  /\ pinned' = pinned \cup {u}
  /\ UNCHANGED <<owner, closing, mapped, vars>>

\* Mutant of Decrement: closes with one holder left.
MutDecrementEarly ==
  /\ Unlocked
  /\ segRefs' = segRefs - 1
  /\ closing' = IF segRefs = 2 THEN "clear" ELSE closing
  /\ UNCHANGED <<mapped, vars>>

\* Mutant of Decrement: tests the count before taking the reference off.
MutDecrementLate ==
  /\ Unlocked
  /\ segRefs' = segRefs - 1
  /\ closing' = IF segRefs = 0 THEN "clear" ELSE closing
  /\ UNCHANGED <<mapped, vars>>

\* The part of Segment.DecRef both kinds of holder share.
Decrement ==
  /\ Unlocked
  /\ segRefs' = segRefs - 1
  /\ closing' = IF segRefs = 1 THEN "clear" ELSE closing
  /\ UNCHANGED <<mapped, vars>>

UserDecRef(u) ==
  /\ u \in pinned
  /\ pc[u] = "idle"
  /\ Decrement
  /\ pinned' = pinned \ {u}
  /\ UNCHANGED owner

\* Close by the owner; readers of an older snapshot may still be at work.
OwnerClose ==
  /\ owner
  /\ Decrement
  /\ owner' = FALSE
  /\ UNCHANGED pinned

\* Mutant of ClearCaches: the caches are left as they are.
MutClearCachesSkipped ==
  /\ closing = "clear"
  /\ closing' = "unmap"
  /\ UNCHANGED <<segRefs, pinned, owner, mapped, vars>>

\* closeActual, first half: clear the vector index cache.
ClearCaches ==
  /\ closing = "clear"
  /\ Clear
  /\ closing' = "unmap"
  /\ UNCHANGED <<segRefs, pinned, owner, mapped>>

\* closeActual, second half: unmap and close the file, unlock.
Unmap ==
  /\ closing = "unmap"
  /\ mapped' = FALSE
  /\ closing' = "done"
  /\ UNCHANGED <<segRefs, pinned, owner, vars>>

\* InterpretVectorIndex and the wrapper's Close, by a user of the segment.
Query(u) ==
  /\ u \in pinned
  /\ \/ \E req \in Request : LoadOrCreate(u, req)
     \/ AddDocVecIDMap(u)
     \/ CreateAndCache(u)
     \/ DecRef(u)
  /\ UNCHANGED segVars

\* The goroutines of the cache need no reference to the segment.
Background ==
  /\ Cleanup \/ MonitorStop \/ \E e \in Entries : CloseEntry(e)
  /\ UNCHANGED segVars

SegNext ==
  \/ \E u \in Users : AddRef(u) \/ UserDecRef(u) \/ Query(u)
  \/ OwnerClose
  \/ ClearCaches
  \/ Unmap
  \/ Background

SegSpec == SegInit /\ [][SegNext]_allVars

\* closeActual runs to its end; the scheduler runs every goroutine of the cache,
\* the ticker keeps ticking and a query that is inside loadOrCreate gets the
\* lock.  Nobody promises that queries start, that wrappers are closed, or that
\* references are given back.
SegFairSpec ==
  /\ SegSpec
  /\ WF_allVars(ClearCaches)
  /\ WF_allVars(Unmap)
  /\ WF_allVars(Cleanup /\ UNCHANGED segVars)
  /\ WF_allVars(MonitorStop /\ UNCHANGED segVars)
  /\ \A e \in Entries : WF_allVars(CloseEntry(e) /\ UNCHANGED segVars)
  /\ \A u \in Users :
       WF_allVars((AddDocVecIDMap(u) \/ CreateAndCache(u)) /\ UNCHANGED segVars)

-----------------------------------------------------------------------------
\* The segment discharges what the cache assumes of it: as far as the cache
\* can tell, Clear comes once, when no query is under way, and no query after.
ObeysCacheContract == Spec

\* A query parses the section out of the mapped file (faiss_vector_cache.go
\* 126-155) and an index read with the mmap flag refers to it: while a query is
\* under way, or its wrapper is open, the file stays mapped.
QueriesReadMappedFile ==
  \A u \in Users : pc[u] # "idle" => mapped

\* s.refs counts the holders, so closeActual runs for the last one only and
\* never twice (closing closeCh a second time would panic).
SegRefsAreHolders ==
  segRefs = Cardinality(pinned) + (IF owner THEN 1 ELSE 0)

\* Once the file is unmapped the cache serves no index out of it.
NothingServedAfterUnmap == ~mapped => Cached = {}

\* When the last holder is gone everything is released: the file is unmapped,
\* every index closed and no monitor goroutine stays behind.
ReleasedInTheEnd ==
  (~owner /\ pinned = {}) ~>
    /\ ~mapped
    /\ monitors = 0
    /\ \A e \in Entries : entries[e].index = "closed"
=============================================================================
