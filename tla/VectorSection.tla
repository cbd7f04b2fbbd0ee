---------------------------- MODULE VectorSection ----------------------------
(***************************************************************************)
(* The vector section: what a batch leaves in the opaque of the builder,   *)
(* the sections it writes, and the merge of those of several segments with *)
(* the indexes it opens for it (section_faiss_vector_index.go).            *)
(*                                                                         *)
(* The sums and random bits of hashCode are taken to be different for      *)
(* every vector: an ID is <<segment, entry of the batch, sub-vector>>, and *)
(* the vector itself stands for its floats.  A section has the map of IDs  *)
(* to documents and the index, which maps IDs to vectors.  Faiss may fail  *)
(* at every call; the type of an index and its training are left out.      *)
(***************************************************************************)
EXTENDS MergeInput, Sequences

CONSTANTS
  VecBatches,  \* bound: the batches each segment may be built of
  NoIndex      \* the sets of fields whose index may be about to be removed

ASSUME VectorSectionAssumption ==
  /\ Itrs = 0..(Cardinality(Itrs) - 1)
  /\ \A i \in Itrs : \A b \in VecBatches[i] :
       b \in Seq([doc : Docs(i), field : Nat, vecs : Nat])
  /\ NoIndex \subseteq SUBSET Nat

VARIABLES
  vecBatches,  \* the batch of each segment: document, field, number of vectors;
               \* none stands for a field of another type
  updatedFields, \* the fields with updatedFields.Index
  vo,          \* the opaque of the builder
  sections,    \* of the segments that are built, the vector sections by field
  vecPc,       \* "build", "field", "gather", "read", "recons", "create", "failed"
               \* or "closed"
  vecFields,   \* the fields that are merged, the one at work included
  vecSeg,      \* the next segment, or the next member of indexes
  indexes,     \* indexes: vecIds, and "nil", "open", "closed" or "misused"
  vecToDocID,  \* vecToDocID
  vecData,     \* indexData
  faissIndex,  \* the new index: "nil", "open" or "closed"
  fieldAddrs,  \* the sections of the new segment, their index maybe to come
  persistErr   \* an error of writeVectorIndexes was dropped

mergeVecVars == <<vecFields, vecSeg, indexes, vecToDocID, vecData, faissIndex, fieldAddrs>>
vecVars == <<vecBatches, updatedFields, vo, sections, vecPc, mergeVecVars, persistErr>>

-----------------------------------------------------------------------------
SegFields(i) == {vecBatches[i][k].field : k \in DOMAIN vecBatches[i]}

\* The vectors of a field of a segment.
IDs(i, f) ==
  UNION {{<<i, k, n>> : n \in 1..vecBatches[i][k].vecs} :
           k \in {e \in DOMAIN vecBatches[i] : vecBatches[i][e].field = f}}

NewVecOpaque == [vecIDMap |-> <<>>, vecFieldMap |-> <<>>, fieldAddrs |-> <<>>]

\* realloc, at the first vector of a batch, and process for all of them.
processVectors(o, i) ==
  LET F   == {f \in SegFields(i) : IDs(i, f) # {}}
      all == UNION {IDs(i, f) : f \in F}
  IN
  IF F = {} THEN o
  ELSE [vecIDMap    |-> [id \in all |-> vecBatches[i][id[2]].doc],
        vecFieldMap |-> [n \in {FieldID(SegFields(i), f) : f \in F} |->
                           {id \in all : FieldID(SegFields(i), vecBatches[i][id[2]].field) = n}],
        fieldAddrs  |-> <<>>]

\* writeVectorIndexes gets as far as the field IDs of done, in any order.
writeVectorIndexes(o, done) ==
  [o EXCEPT !.fieldAddrs =
     [n \in done \cup DOMAIN @ |->
        IF n \in done
        THEN [docs  |-> [id \in o.vecFieldMap[n] |-> o.vecIDMap[id]],
              index |-> [id \in o.vecFieldMap[n] |-> id]]
        ELSE @[n]]]

\* AddrForField, of the fields F: one without an address has no section.
VecAddrForField(o, F) ==
  [f \in {g \in F : FieldID(F, g) \in DOMAIN o.fieldAddrs} |-> o.fieldAddrs[FieldID(F, f)]]

\* Mutant of ResetVectors: the addresses are kept.
MutResetVectorsAddrs(o) == [NewVecOpaque EXCEPT !.fieldAddrs = o.fieldAddrs]

\* Reset: the maps are nil until there is a vector again.
ResetVectors(o) == NewVecOpaque

VectorsStart ==
  /\ vo = NewVecOpaque
  /\ sections = <<>>
  /\ vecPc = "build" /\ persistErr = FALSE
  /\ vecFields = {} /\ vecSeg = 1 /\ indexes = <<>> /\ vecToDocID = <<>>
  /\ vecData = <<>> /\ faissIndex = "nil" /\ fieldAddrs = <<>>

VectorInputs ==
  /\ vecBatches \in {f \in [Itrs -> UNION {VecBatches[i] : i \in Itrs}] :
                       \A i \in Itrs : f[i] \in VecBatches[i]}
  /\ updatedFields \in NoIndex

NoVectors == vecBatches = [i \in Itrs |-> <<>>] /\ updatedFields = {}

\* A segment is built.  Persist drops the error of writeVectorIndexes: the
\* fields that were still to come have no vectors then.
BuildVectors ==
  /\ vecPc = "build"
  /\ \E i \in Itrs \ DOMAIN sections :
       LET o == processVectors(vo, i) IN
       \E done \in SUBSET DOMAIN o.vecFieldMap :
         LET w == writeVectorIndexes(o, done) IN
         /\ sections' = [j \in DOMAIN sections \cup {i} |->
              IF j = i THEN VecAddrForField(w, SegFields(i)) ELSE sections[j]]
         /\ vo' = ResetVectors(w)
         /\ persistErr' = (persistErr \/ done # DOMAIN o.vecFieldMap)
  /\ vecPc' = IF DOMAIN sections' = Itrs THEN "field" ELSE "build"
  /\ UNCHANGED <<drops, vecBatches, updatedFields, mergeVecVars>>

-----------------------------------------------------------------------------
buildVecVars == <<drops, vecBatches, updatedFields, vo, sections, persistErr>>

NewVecFields == UNION {SegFields(i) : i \in Itrs}
vecField     == CHOOSE f \in vecFields : \A g \in vecFields : g <= f

StartVecField ==
  /\ vecPc = "field" /\ NewVecFields # vecFields
  /\ vecFields' = vecFields \cup {Lowest(NewVecFields \ vecFields)}
  /\ indexes' = <<>> /\ vecToDocID' = <<>>
  /\ vecSeg' = Lowest(Itrs) /\ vecPc' = "gather"
  /\ UNCHANGED <<buildVecVars, vecData, faissIndex, fieldAddrs>>

\* closeCh is looked at before each segment.
GatherVectors ==
  /\ vecPc = "gather" /\ vecSeg \in Itrs
  /\ LET sec  == sections[vecSeg][vecField]
         live == {id \in DOMAIN sec.docs : sec.docs[id] \notin drops[vecSeg]}
     IN
     IF vecField \notin DOMAIN sections[vecSeg] \/ vecField \in updatedFields
     THEN UNCHANGED <<indexes, vecToDocID>>
     ELSE /\ indexes' = Append(indexes, [seg |-> vecSeg, vecIds |-> live, index |-> "nil"])
          /\ vecToDocID' = [id \in DOMAIN vecToDocID \cup live |->
               IF id \in live THEN NewNum(<<vecSeg, sec.docs[id]>>) ELSE vecToDocID[id]]
  /\ vecSeg' = vecSeg + 1
  /\ UNCHANGED <<buildVecVars, vecPc, vecFields, vecData, faissIndex, fieldAddrs>>

\* flushSectionMetadata: no address without a vector, nor if a write fails.
FlushSectionMetadata ==
  /\ vecPc = "gather" /\ vecSeg \notin Itrs
  /\ LET none == indexes = <<>> \/ DOMAIN vecToDocID = {} IN
     \/ /\ fieldAddrs' =
             IF none THEN fieldAddrs
             ELSE [f \in DOMAIN fieldAddrs \cup {vecField} |->
                     IF f = vecField THEN [docs |-> vecToDocID, index |-> Nothing]
                     ELSE fieldAddrs[f]]
        /\ vecPc' = "read"
     \/ ~none /\ vecPc' = "failed" /\ UNCHANGED fieldAddrs
  /\ vecSeg' = 1 /\ vecData' = <<>>
  /\ UNCHANGED <<buildVecVars, vecFields, indexes, vecToDocID, faissIndex>>

\* freeReconstructedIndexes.
Freed(list) ==
  [k \in DOMAIN list |->
     [list[k] EXCEPT !.index = IF @ = "nil" THEN @ ELSE IF @ = "open" THEN "closed" ELSE "misused"]]

\* Mutant of GiveUp: the indexes stay open.
MutGiveUpLeaks(outcome) == UNCHANGED indexes /\ vecPc' = outcome

\* closeCh is closed, or a call of faiss fails: what was opened is freed.
GiveUp(outcome) == indexes' = Freed(indexes) /\ vecPc' = outcome

\* The indexes of the segments that have vectors left are read.
ReadIndex ==
  /\ vecPc = "read" /\ vecSeg \in DOMAIN indexes
  /\ \/ GiveUp("closed")
     \/ /\ indexes[vecSeg].vecIds # {}
        /\ \/ GiveUp("failed")
           \/ indexes' = [indexes EXCEPT ![vecSeg].index = "open"] /\ UNCHANGED vecPc
     \/ indexes[vecSeg].vecIds = {} /\ UNCHANGED <<indexes, vecPc>>
  /\ vecSeg' = vecSeg + 1
  /\ UNCHANGED <<buildVecVars, vecFields, vecToDocID, vecData, faissIndex, fieldAddrs>>

\* validMerge: without an index to read the field is through.
EndRead ==
  /\ vecPc = "read" /\ vecSeg \notin DOMAIN indexes
  /\ vecPc' = IF \E k \in DOMAIN indexes : indexes[k].index = "open" THEN "recons" ELSE "field"
  /\ vecSeg' = 1
  /\ UNCHANGED <<buildVecVars, vecFields, indexes, vecToDocID, vecData, faissIndex, fieldAddrs>>

\* ReconstructBatch, for the vectors that are left.
Reconstruct ==
  /\ vecPc = "recons" /\ vecSeg \in DOMAIN indexes
  /\ LET x == indexes[vecSeg] IN
     \/ GiveUp("closed") /\ UNCHANGED vecData
     \/ x.vecIds # {} /\ GiveUp("failed") /\ UNCHANGED vecData
     \/ /\ vecData' = IF x.vecIds = {} THEN vecData
                      ELSE Append(vecData, [id \in x.vecIds |->
                                              sections[x.seg][vecField].index[id]])
        /\ indexes' = IF x.vecIds # {} /\ x.index # "open"
                      THEN [indexes EXCEPT ![vecSeg].index = "misused"] ELSE indexes
        /\ UNCHANGED vecPc
  /\ vecSeg' = vecSeg + 1
  /\ UNCHANGED <<buildVecVars, vecFields, vecToDocID, faissIndex, fieldAddrs>>

\* The old indexes are freed before the new one is made.
CreateIndex ==
  /\ vecPc = "recons" /\ vecSeg \notin DOMAIN indexes
  /\ indexes' = Freed(indexes)
  /\ \/ vecPc' = "failed" /\ UNCHANGED faissIndex
     \/ vecPc' = "create" /\ faissIndex' = "open"
  /\ UNCHANGED <<buildVecVars, vecFields, vecSeg, vecToDocID, vecData, fieldAddrs>>

\* It is trained and filled and written, and closed whatever comes of it.
WriteIndex ==
  /\ vecPc = "create"
  /\ faissIndex' = "closed"
  /\ \/ vecPc' = "failed" /\ UNCHANGED fieldAddrs
     \/ /\ vecPc' = "field"
        /\ fieldAddrs' = [fieldAddrs EXCEPT ![vecField].index =
             [id \in UNION {DOMAIN vecData[k] : k \in DOMAIN vecData} |->
                vecData[CHOOSE k \in DOMAIN vecData : id \in DOMAIN vecData[k]][id]]]
  /\ UNCHANGED <<buildVecVars, vecFields, vecSeg, indexes, vecToDocID, vecData>>

\* closeCh, between two segments that are looked at.
VectorsClosed ==
  /\ vecPc = "gather" /\ vecSeg \in Itrs
  /\ vecPc' = "closed"
  /\ UNCHANGED <<buildVecVars, mergeVecVars>>

VectorsNext ==
  \/ BuildVectors \/ StartVecField \/ GatherVectors \/ FlushSectionMetadata
  \/ ReadIndex \/ EndRead \/ Reconstruct \/ CreateIndex \/ WriteIndex \/ VectorsClosed

-----------------------------------------------------------------------------
DocOf(id) == vecBatches[id[1]][id[2]].doc

\* The section of a field leads from each vector to its document and its floats.
Holds(places, f, docs) ==
  IF DOMAIN docs = {} THEN f \notin DOMAIN places
  ELSE /\ f \in DOMAIN places
       /\ places[f] = [docs |-> docs, index |-> [id \in DOMAIN docs |-> id]]

SurvivingIDs(f) ==
  IF f \in updatedFields THEN {}
  ELSE {id \in UNION {IDs(i, f) : i \in {j \in Itrs : f \in DOMAIN sections[j]}} :
          DocOf(id) \notin drops[id[1]]}

\* Whatever the opaque was used for before and wherever a build or a merge was
\* broken off: a section that is in a segment has the vectors of its batch, and
\* all of them; one may be missing only if persisting failed.  The merged
\* section has those of the documents that survive, in its map and its index
\* alike, under the new numbers, and a field without any has no section.
VectorSectionExact ==
  /\ \A i \in DOMAIN sections : \A f \in SegFields(i) :
       \/ Holds(sections[i], f, [id \in IDs(i, f) |-> DocOf(id)])
       \/ persistErr /\ f \notin DOMAIN sections[i]
  /\ vecPc = "field" =>
       \A f \in vecFields :
         Holds(fieldAddrs, f, [id \in SurvivingIDs(f) |-> NewNum(<<id[1], DocOf(id)>>)])

\* On whatever way the merge leaves a field, the indexes it opened are closed,
\* each once, and none is used that is not open.
IndexesFreed ==
  /\ \A k \in DOMAIN indexes : indexes[k].index # "misused"
  /\ vecPc \in {"field", "failed", "closed"} =>
       /\ \A k \in DOMAIN indexes : indexes[k].index # "open"
       /\ faissIndex # "open"
=============================================================================
