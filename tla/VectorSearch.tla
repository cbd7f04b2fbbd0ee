---------------------------- MODULE VectorSearch ----------------------------
(***************************************************************************)
(* The nearest vectors of a query (search and searchWithFilter,            *)
(* faiss_vector_posting.go), with the maps the cache entry of the field    *)
(* has: documents that were deleted when it was made are not in them.      *)
(*                                                                         *)
(* A query and an index are chosen at first.  Clusters are numbered by     *)
(* their distance from the query.  Which of the vectors it may look at are *)
(* nearest is faiss's to say: it returns any k of them, or all.            *)
(***************************************************************************)
EXTENDS Integers, FiniteSets

CONSTANTS
  SearchDocs,  \* documents of the segment
  VectorDoc,   \* the document of each vector of the index
  Ks, NProbes, \* bounds: neighbours asked for, nprobe of the index
  Clusters,    \* bound: number of clusters of an IVF index
  NoHits       \* there is no answer yet

ASSUME VectorSearchAssumption ==
  /\ IsFiniteSet(SearchDocs) /\ IsFiniteSet(DOMAIN VectorDoc)
  /\ VectorDoc \in [DOMAIN VectorDoc -> SearchDocs]
  /\ Ks \subseteq Nat \ {0} /\ NProbes \subseteq Nat \ {0} /\ Clusters \in Nat \ {0}

VARIABLES
  query,  \* k; the eligible documents, or all in a search without a filter; except;
          \* made, if it is this query that makes the cache entry
  ivf,    \* the cluster of each vector, or 0 in an index that is not IVF
  nprobe, \* nprobe of the index
  built,  \* the documents that were deleted when the cache entry was made
  hits    \* the vectors in the list that is returned

searchVars == <<query, ivf, nprobe, built, hits>>

Vectors == DOMAIN VectorDoc
VectorsOf(D) == {v \in Vectors : VectorDoc[v] \in D}
IsIVFIndex == \E v \in Vectors : ivf[v] # 0

-----------------------------------------------------------------------------
\* vecDocIDMap and docVecIDMap of the entry.
Mapped     == VectorsOf(SearchDocs \ built)
MappedDocs == {VectorDoc[v] : v \in Mapped}

\* createAndCacheLOCKED leaves the documents of except out of the maps, and
\* gives the query that makes the entry all their vectors.
LeftOut == VectorsOf(query.except)

\* The query that makes the entry, and getVecIDsToExclude for any other.
VectorIDsToExclude ==
  IF query.made THEN LeftOut
  ELSE {v \in Mapped : VectorDoc[v] \in query.except}

\* Faiss returns k of the vectors it may look at, or all of them.
Nearest(S) ==
  {R \in SUBSET S : Cardinality(R) = IF Cardinality(S) < query.k THEN Cardinality(S) ELSE query.k}

\* addIDsToPostingsList: a vector that is not in the map is passed over.
AddIDsToPostingsList(R) == R \cap Mapped

\* SearchWithoutIDs; an IVF index looks into the nearest nprobe clusters.
Unfiltered ==
  Nearest({v \in Vectors \ VectorIDsToExclude : IsIVFIndex => ivf[v] <= nprobe})

VectorIDsToInclude == {v \in Mapped : VectorDoc[v] \in query.eligible}

\* The clusters with an eligible vector, nearest first, and the number of them
\* that has k eligible vectors but is not less than nprobe.
ClusterVectorCount(c)  == Cardinality({v \in VectorIDsToInclude : ivf[v] = c})
ClosestCentroids       == {c \in 1..Clusters : ClusterVectorCount(c) > 0}
FirstCentroids(n)      == {c \in ClosestCentroids :
                             Cardinality({e \in ClosestCentroids : e < c}) < n}
CountsIn(n)            == Cardinality({v \in VectorIDsToInclude : ivf[v] \in FirstCentroids(n)})

\* Mutant of MinEligibleCentroids: nprobe clusters are enough.
MutMinCentroidsNprobe ==
  LET n == Cardinality(ClosestCentroids) IN IF n < nprobe THEN n ELSE nprobe

MinEligibleCentroids ==
  LET enough == {n \in 1..Cardinality(ClosestCentroids) : CountsIn(n) >= query.k /\ n >= nprobe}
  IN  IF enough = {} THEN Cardinality(ClosestCentroids)
      ELSE CHOOSE n \in enough : \A m \in enough : n <= m

\* The selector: with more than half of the documents eligible it is made of
\* those that are not.
Selected ==
  IF 2 * Cardinality(query.eligible) > Cardinality(MappedDocs)
  THEN Vectors \ {v \in Mapped : VectorDoc[v] \notin query.eligible}
  ELSE VectorIDsToInclude

\* searchWithFilter, from its shortcuts to the clusters it probes.
Filtered ==
  IF query.eligible = {} THEN {{}}
  ELSE IF Cardinality(query.eligible) = Cardinality(SearchDocs) THEN Unfiltered
  ELSE IF VectorIDsToInclude = {} THEN {{}}
  ELSE IF ~IsIVFIndex THEN Nearest(VectorIDsToInclude)
  ELSE Nearest({v \in Selected : ivf[v] \in FirstCentroids(MinEligibleCentroids)})

-----------------------------------------------------------------------------
SearchInputs ==
  /\ \E k \in Ks, except \in SUBSET SearchDocs :
       query \in [k : {k}, except : {except}, made : BOOLEAN, filter : {FALSE},
                  eligible : {SearchDocs \ except}]
                   \cup [k : {k}, except : {except}, made : BOOLEAN, filter : {TRUE},
                         eligible : SUBSET (SearchDocs \ except)]
  /\ ivf \in [Vectors -> 1..Clusters] \cup {[v \in Vectors |-> 0]}
  /\ nprobe \in NProbes
  /\ built \in IF query.made THEN {query.except} ELSE SUBSET SearchDocs

NoSearch ==
  /\ query = [k |-> 1, except |-> {}, made |-> FALSE, filter |-> FALSE, eligible |-> {}]
  /\ ivf = [v \in Vectors |-> 0] /\ nprobe = 1 /\ built = {}

SearchStart == hits = NoHits

Search ==
  /\ hits = NoHits
  /\ \E R \in IF query.filter THEN Filtered ELSE Unfiltered : hits' = AddIDsToPostingsList(R)
  /\ UNCHANGED <<query, ivf, nprobe, built>>

\* The vectors a query is about, and those a search may find in place of them
\* and has to pass over; the query that makes the entry excludes them itself.
Asked == VectorsOf(query.eligible)
Foreign == IF query.made /\ ~query.filter THEN {} ELSE VectorsOf(built)

\* Vectors of documents that are eligible and none of one that is deleted come
\* back, at most k; and fewer than k, if there are as many, only for the vectors
\* of the documents that were deleted when the cache entry was made, unless the
\* query made it itself - or, in a search that no filter narrows, as an IVF index
\* looks into nprobe clusters.
HitsComplete ==
  hits # NoHits =>
    /\ hits \subseteq Asked
    /\ Cardinality(hits) <= query.k
    /\ \/ Cardinality(hits) + Cardinality(Foreign) >=
            IF Cardinality(Asked) < query.k THEN Cardinality(Asked) ELSE query.k
       \/ IsIVFIndex /\ (query.filter => query.eligible = SearchDocs)
=============================================================================
