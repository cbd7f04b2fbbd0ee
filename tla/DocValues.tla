------------------------------ MODULE DocValues ------------------------------
(***************************************************************************)
(* The doc values of the text section: written by the builder (writeDicts),*)
(* merged field by field (mergeAndPersistInvertedSection), and read by     *)
(* queries with a state that they keep from call to call (VisitDocValues). *)
(*                                                                         *)
(* Fields are numbers in the order of their IDs; that a segment lacks a    *)
(* field shows in that it has no documents for it.  Nothing that merging   *)
(* and reading share is written - both clone the readers of a segment - so *)
(* the calls come after the merge here.  The new document numbers are      *)
(* those of module MergeDocs.                                              *)
(***************************************************************************)
EXTENDS ContentCoder, Integers, FiniteSets, Sequences, SequencesExt

CONSTANTS
  NumDocs,   \* bound: documents of each segment
  Fields,
  NumTerms,  \* bound: terms of a field in a document that has it
  Batches,   \* bound: what each segment may have been built of
  Requests,  \* bound: the lists of fields a call may ask for
  NoInfo,    \* a field without one
  NoReader,  \* no doc values: fieldNotUninverted in the file, a nil reader
  New        \* the segment that the merge writes

Segs    == DOMAIN NumDocs
Docs(i) == 0..(NumDocs[i] - 1)

ASSUME DocValuesAssumption ==
  /\ NumDocs \in Seq(Nat)
  /\ Unit \in Nat \ {0} /\ NoChunk \notin Nat
  /\ IsFiniteSet(Fields) /\ Fields = 0..(Cardinality(Fields) - 1)
  /\ NumTerms \in [UNION {Docs(i) : i \in Segs} -> Nat \ {0}]
  /\ New \notin Segs /\ NoReader \notin Segs \cup {New}
  /\ Requests \subseteq Seq(Fields)
  /\ \A i \in Segs : \A b \in Batches[i] :
       /\ b.has \in [Fields -> SUBSET Docs(i)]   \* documents with a term of the field
       /\ b.included \subseteq Fields           \* IncludeDocValues, of a document's field
       /\ b.included # {} => Docs(i) # {}
       /\ DOMAIN b.updated = Fields             \* updatedFields, set when it is opened
       /\ \A f \in Fields :
            b.updated[f] \in [index : BOOLEAN, store : BOOLEAN, docValues : BOOLEAN]
                             \cup {NoInfo}

VARIABLES
  segs,     \* what the segments were built of
  drops,    \* the documents of each segment that the merge drops
  readers,  \* fieldDvReaders of each segment, the new one among them
  pc,       \* "build", "field", "segment" or "done"
  field,    \* the field that is merged
  segI,     \* the segment whose turn it is
  coder,    \* fdvEncoder
  avail,    \* fdvReadersAvailable
  dvs,      \* the docVisitState of a caller
  first,    \* history: the fields of the call that made its readers
  seen      \* the last call, and what its visitor got

segVars   == <<segs, drops>>
mergeVars == <<readers, pc, field, segI, coder, avail>>
visitVars == <<dvs, first, seen>>
vars      == <<segVars, mergeVars, visitVars>>

-----------------------------------------------------------------------------
\* The terms of a document in a field.
TermsOf(i, d, f) == [k \in 1..NumTerms[d] |-> <<i, d, f, k>>]

\* What mergeStoredAndRemap hands over.
Survivors   == {p \in UNION {{i} \X Docs(i) : i \in Segs} : p[2] \notin drops[p[1]]}
NewDocCount == Cardinality(Survivors)
NewNum(p)   == Cardinality({q \in Survivors : q[1] < p[1] \/ (q[1] = p[1] /\ q[2] < p[2])})

\* getChunkSize(LegacyChunkMode, 0, 0).
ChunkSize == Ints!getChunkSize("legacy", 0, 0)

\* writeDicts: the terms of each document that has some, in order.
WrittenByBuilder(i, f) ==
  LET docTermMap == [d \in segs[i].has[f] |-> TermsOf(i, d, f)]
      after[d \in 0..NumDocs[i]] ==
        IF d = 0 THEN newChunkedContentCoder(ChunkSize, NumDocs[i] - 1, FALSE)
        ELSE IF d - 1 \in DOMAIN docTermMap THEN Add(after[d - 1], d - 1, docTermMap[d - 1])
        ELSE after[d - 1]
  IN  Written(Close(after[NumDocs[i]]))

\* mergeUpdatedFields, for a field.
Combine(acc, info) ==
  IF info = NoInfo THEN acc
  ELSE IF acc = NoInfo THEN info
  ELSE [index     |-> acc.index \/ info.index,
        store     |-> acc.store \/ info.store,
        docValues |-> acc.store \/ info.store \/ info.docValues]
MergedInfo(f) == FoldLeft(Combine, NoInfo, [i \in Segs |-> segs[i].updated[f]])

Flagged(f, part) == MergedInfo(f) # NoInfo /\ MergedInfo(f)[part]

\* segmentsInFocus: the segments with a dictionary that has a term.
InFocus == {i \in Segs : segs[i].has[field] # {} /\ ~Flagged(field, "index")}

-----------------------------------------------------------------------------
Init ==
  /\ segs \in {f \in [Segs -> UNION {Batches[i] : i \in Segs}] :
                 \A i \in Segs : f[i] \in Batches[i]}
  /\ drops \in [Segs -> SUBSET UNION {Docs(i) : i \in Segs}]
  /\ \A i \in Segs : drops[i] \subseteq Docs(i)
  /\ NewDocCount > 0
  /\ readers = [i \in Segs \cup {New} |-> [f \in Fields |-> NoReader]]
  /\ pc = "build" /\ field = 0 /\ segI = 1
  /\ coder = NoReader /\ avail = FALSE
  /\ dvs = [segment |-> NoReader, dvrs |-> NoReader] /\ first = {}
  /\ seen = NoReader

\* writeDicts and loadDvReader of every segment.
Build ==
  /\ pc = "build"
  /\ readers' = [i \in Segs \cup {New} |-> [f \in Fields |->
       IF i # New /\ f \in segs[i].included
       THEN loadFieldDocValueReader(WrittenByBuilder(i, f)) ELSE NoReader]]
  /\ pc' = "field"
  /\ UNCHANGED <<segVars, field, segI, coder, avail, visitVars>>

\* The head of the doc values part of a field, behind its dictionary.
StartField ==
  /\ pc = "field" /\ field \in Fields
  /\ coder' = newChunkedContentCoder(ChunkSize, NewDocCount - 1, TRUE)
  /\ avail' = FALSE
  /\ segI' = 1
  /\ pc' = "segment"
  /\ UNCHANGED <<segVars, readers, field, visitVars>>

\* The visitor of iterateAllDocValues in the merge.
AddMerged(c, i, entry) ==
  IF entry.docNum \in drops[i] THEN c
  ELSE Add(c, NewNum(<<i, entry.docNum>>), entry.terms)
AddAll(coding, i, entries) == FoldLeft(LAMBDA c, entry : AddMerged(c, i, entry), coding, entries)

\* Mutant of MergeSegment: newDocNums is indexed by the place of the segment
\* among those in focus, and is that of all segments.
MutMergeSegmentIndex ==
  /\ pc = "segment" /\ segI \in Segs
  /\ LET di    == readers[segI][field]
         place == Cardinality({i \in InFocus : i <= segI})
     IN  IF segI \notin InFocus \/ Flagged(field, "docValues") \/ di = NoReader
         THEN UNCHANGED <<coder, avail>>
         ELSE /\ avail' = TRUE
              /\ coder' = AddAll(coder, place, iterateAllDocValues(cloneInto(di)))
  /\ segI' = segI + 1
  /\ UNCHANGED <<segVars, readers, pc, field, visitVars>>

\* A turn of the loop over segmentsInFocus; the other segments are passed over.
MergeSegment ==
  /\ pc = "segment" /\ segI \in Segs
  /\ LET di == readers[segI][field]
     IN  IF segI \notin InFocus \/ Flagged(field, "docValues") \/ di = NoReader
         THEN UNCHANGED <<coder, avail>>
         ELSE /\ avail' = TRUE
              /\ coder' = AddAll(coder, segI, iterateAllDocValues(cloneInto(di)))
  /\ segI' = segI + 1
  /\ UNCHANGED <<segVars, readers, pc, field, visitVars>>

\* The end of a field; after the last one the new segment is opened.
EndField ==
  /\ pc = "segment" /\ segI > Len(NumDocs)
  /\ readers' = [readers EXCEPT ![New][field] =
       IF avail THEN loadFieldDocValueReader(Written(Close(coder))) ELSE NoReader]
  /\ field' = field + 1
  /\ pc' = IF field + 1 \in Fields THEN "field" ELSE "done"
  /\ UNCHANGED <<segVars, segI, coder, avail, visitVars>>

-----------------------------------------------------------------------------
DocsOf(s) == IF s = New THEN 0..(NewDocCount - 1) ELSE Docs(s)

\* The readers of a state: those it has for this segment, or clones.  A state
\* that VisitDocValues made itself has no segment yet.
StateReaders(s, fields) ==
  IF dvs.segment = s THEN dvs.dvrs
  ELSE [f \in {g \in Range(fields) : readers[s][g] # NoReader} |-> cloneInto(readers[s][f])]

\* One turn of the loop over the fields.
VisitField(d, acc, f) ==
  IF f \notin DOMAIN acc.dvrs THEN acc
  ELSE LET chunk  == d \div ChunkSize
           loaded == IF acc.dvrs[f].curChunkNum = chunk THEN acc.dvrs[f]
                     ELSE loadDvChunk(acc.dvrs[f], chunk)
           v      == visitDocValues(loaded, d)
       IN  [dvrs |-> [acc.dvrs EXCEPT ![f] = v.reader], terms |-> acc.terms \o v.terms]

\* The loop.
VisitFields(d, acc, fields) == FoldLeft(LAMBDA a, f : VisitField(d, a, f), acc, fields)

\* VisitDocValues: the first call of a caller, or one with its last state.
VisitDocValues(s, d, fields) ==
  LET v == VisitFields(d, [dvrs |-> StateReaders(s, fields), terms |-> <<>>], fields)
  IN
  /\ pc = "done"
  /\ d \in DocsOf(s)
  /\ dvs' = [segment |-> IF seen = NoReader THEN NoReader ELSE s, dvrs |-> v.dvrs]
  /\ first' = IF dvs.segment = s THEN first ELSE Range(fields)
  /\ seen' = [segment |-> s, doc |-> d, fields |-> fields, terms |-> v.terms]
  /\ UNCHANGED <<segVars, mergeVars>>

Next ==
  \/ Build \/ StartField \/ MergeSegment \/ EndField
  \/ \E s \in Segs \cup {New}, d \in 0..Cardinality(UNION {{i} \X Docs(i) : i \in Segs}),
        fields \in Requests : VisitDocValues(s, d, fields)

Spec == Init /\ [][Next]_vars

-----------------------------------------------------------------------------
\* The doc values a document has: of a segment that was built, and of the new
\* one, where they are those of the document that got the number, unless some
\* segment says that they, or the index of the field, were removed.
Removed(f) == \E i \in Segs : segs[i].updated[f] # NoInfo
                              /\ (segs[i].updated[f].docValues \/ segs[i].updated[f].index)
Values(s, d, f) ==
  IF s = New
  THEN LET p == CHOOSE p \in Survivors : NewNum(p) = d
       IN  IF f \in segs[p[1]].included /\ p[2] \in segs[p[1]].has[f] /\ ~Removed(f)
           THEN TermsOf(p[1], p[2], f) ELSE <<>>
  ELSE IF f \in segs[s].included /\ d \in segs[s].has[f] THEN TermsOf(s, d, f) ELSE <<>>

\* A call hands the visitor exactly the terms of its document, whichever
\* documents, chunks and segments the state has been through; of the fields
\* its state was made for (docvalues.go:289-347).
VisitExact ==
  seen # NoReader =>
    seen.terms = FlattenSeq([k \in DOMAIN seen.fields |->
                   IF seen.fields[k] \in first
                   THEN Values(seen.segment, seen.doc, seen.fields[k]) ELSE <<>>])

\* After the merge each document has the doc values it had, under its new
\* number, and a field has a reader only if some segment had one for it.
MergedExact ==
  pc = "done" =>
    \A f \in Fields :
      LET di == readers[New][f] IN
      IF di = NoReader
      THEN \A d \in DocsOf(New) : Values(New, d, f) = <<>>
      ELSE /\ \E i \in Segs : readers[i][f] # NoReader
           /\ \A d \in DocsOf(New) :
                visitDocValues(loadDvChunk(cloneInto(di), d \div ChunkSize), d).terms
                  = Values(New, d, f)
=============================================================================
