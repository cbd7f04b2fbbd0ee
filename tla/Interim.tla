------------------------------- MODULE Interim -------------------------------
(***************************************************************************)
(* The builder of a segment (interim, new.go) and what the text section    *)
(* keeps for it (invertedIndexOpaque, section_inverted_text_index.go).     *)
(*                                                                         *)
(* Both come out of a pool and go back to it, so a build starts with the   *)
(* memory of an earlier one.  A slice is its length and its memory, as far *)
(* as its capacity: what is cut off is there again when it grows.  The     *)
(* lists of all terms are slices of one backing array, and nothing but the *)
(* counts of realloc keeps them apart.                                     *)
(*                                                                         *)
(* Names and terms are numbers in their order, and _id is 0; the fields of *)
(* a document come with the composite ones first.  The number of a         *)
(* postings list depends on the order of Go's maps; here it is that of the *)
(* terms.  The file holds one item for a document and one for a field.  The*)
(* fields of the vector and synonym sections have no terms here.           *)
(***************************************************************************)
EXTENDS Integers, FiniteSets, FiniteSetsExt, Sequences, SequencesExt

CONSTANTS
  Batches,    \* bound: the batches a caller may ask a segment for
  ChunkMode,  \* DefaultChunkMode
  Unit,       \* what 1024 stands for
  NoChunk,
  Nothing     \* no interim, no token frequencies, no doc values

Ints   == INSTANCE IntCoder
Values == INSTANCE ContentCoder

Id == 0

ASSUME InterimAssumption ==
  /\ ChunkMode \in {"legacy", "1025", "1026"}
  /\ \A b \in Batches : b \in Seq(Range(b)) /\ \A d \in DOMAIN b :
       /\ b[d] \in Seq(Range(b[d]))
       /\ \E k \in DOMAIN b[d] : b[d][k].name = Id /\ b[d][k].stored
       /\ \A k \in DOMAIN b[d] :
            /\ b[d][k].name \in Nat /\ b[d][k].len \in Nat
            /\ {b[d][k].dv, b[d][k].stored, b[d][k].valid} \subseteq BOOLEAN
            /\ b[d][k].extra \in Seq(Nat)          \* EncodedShape
            /\ IsFiniteSet(DOMAIN b[d][k].tfs)
            /\ \A t \in DOMAIN b[d][k].tfs :
                 /\ t \in Nat /\ b[d][k].tfs[t].freq \in Nat
                 /\ b[d][k].tfs[t].locs \in Seq(Range(b[d][k].tfs[t].locs))
                 \* a location is in the field, or names one of its document
                 /\ \A l \in Range(b[d][k].tfs[t].locs) :
                      l.field = Nothing \/ \E j \in DOMAIN b[d] : b[d][j].name = l.field

VARIABLES
  pool,   \* interimPool: an interim, or Nothing
  s,      \* the interim at work
  results,\* its batch
  pc,     \* "idle", "process", "stored", "dicts", "fields" or "done"
  at,     \* the document, or the field ID, that comes next
  local,  \* tfEncoder, locEncoder and docTermMap of writeDicts
  file,   \* what was written
  seg     \* what InitSegmentBase loaded

vars == <<pool, s, results, pc, at, local, file, seg>>

-----------------------------------------------------------------------------
NoSlice == [len |-> 0, mem |-> <<>>]
Cut(slice) == [slice EXCEPT !.len = 0]
Cleared(slice, zero) ==
  [slice EXCEPT !.mem = [k \in DOMAIN @ |-> IF k <= slice.len THEN zero ELSE @[k]]]
Resized(slice, n, zero) ==
  IF Len(slice.mem) >= n THEN [slice EXCEPT !.len = n]
  ELSE [len |-> n, mem |-> [k \in 1..n |-> zero]]

Part(part, mem) == [k \in 1..part.len |-> mem[part.off + k]]

\* append to a slice [off, len] of a backing array; beyond its end it is copied.
Appended(part, mem, x) ==
  LET end == part.off + part.len + 1 IN
  IF end <= Len(mem)
  THEN [part |-> [part EXCEPT !.len = @ + 1], mem |-> [mem EXCEPT ![end] = x]]
  ELSE [part |-> [off |-> Len(mem), len |-> part.len + 1],
        mem  |-> mem \o Part(part, mem) \o <<x>>]

\* InitOpaque; FieldsInv is kept by the interim alone, as both sort the same.
NewOpaque ==
  [init |-> FALSE, Dicts |-> <<>>, IncludeDocValues |-> NoSlice, Postings |-> NoSlice,
   FreqNorms |-> <<>>, freqNormsBacking |-> NoSlice, Locs |-> <<>>, locsBacking |-> NoSlice,
   extraDocValues |-> <<>>, FieldTFs |-> NoSlice, FieldLens |-> NoSlice, fieldAddrs |-> <<>>]

NewInterim == [FieldsMap |-> {}, FieldsInv |-> <<>>, opaque |-> NewOpaque]

NoFreqNorm == [freq |-> 0, norm |-> 0, numLocs |-> 0]
NoLoc      == [fieldID |-> 0, pos |-> 0]

\* Mutant of ResetOpaque: the bitmaps are cleared after the slice was cut.
MutResetCutsFirst(io) ==
  [io EXCEPT !.init = FALSE, !.Dicts = <<>>,
     !.IncludeDocValues = Cut(Cleared(@, FALSE)),
     !.Postings = Cleared(Cut(@), {}),
     !.FreqNorms = <<>>, !.freqNormsBacking = Cut(Cleared(@, NoFreqNorm)),
     !.Locs = <<>>,      !.locsBacking = Cut(Cleared(@, NoLoc)),
     !.extraDocValues = <<>>, !.FieldTFs = Cut(@), !.FieldLens = Cut(@)]

\* Reset of the opaque; fieldAddrs stays.
ResetOpaque(io) ==
  [io EXCEPT !.init = FALSE, !.Dicts = <<>>,
     !.IncludeDocValues = Cut(Cleared(@, FALSE)),
     !.Postings = Cut(Cleared(@, {})),
     !.FreqNorms = <<>>, !.freqNormsBacking = Cut(Cleared(@, NoFreqNorm)),
     !.Locs = <<>>,      !.locsBacking = Cut(Cleared(@, NoLoc)),
     !.extraDocValues = <<>>, !.FieldTFs = Cut(@), !.FieldLens = Cut(@)]

reset(i) == [FieldsMap |-> {}, FieldsInv |-> <<>>, opaque |-> ResetOpaque(i.opaque)]

-----------------------------------------------------------------------------
Names(b)  == {Id} \cup UNION {{b[d][k].name : k \in DOMAIN b[d]} : d \in DOMAIN b}
Fields(b) == UNION {Range(b[d]) : d \in DOMAIN b}
Total(f)  == FoldLeft(LAMBDA a, x : a + x, 0, f)

\* sort.Strings, and the order of a bitmap's iterator.
Sorted(S) == [k \in 1..Cardinality(S) |-> CHOOSE x \in S : Cardinality({y \in S : y < x}) = k - 1]

\* _id first, the others in order.
SortedNames(names) == <<Id>> \o Sorted(names \ {Id})

\* The place of a name in FieldsInv, from 1: what FieldsMap has for it.
FieldIDPlus1(inv, name) == CHOOSE k \in DOMAIN inv : inv[k] = name

Terms(b, name) == UNION {DOMAIN f.tfs : f \in {g \in Fields(b) : g.name = name}}

\* The fields of a document that have the term under the name.
OfTerm(doc, name, t) == {k \in DOMAIN doc : doc[k].name = name /\ t \in DOMAIN doc[k].tfs}

\* Mutant of NumTerms: the field that brings the term in is not counted.
MutNumTerms(b, name, t) ==
  Total([d \in DOMAIN b |-> Cardinality(OfTerm(b[d], name, t))]) - 1

\* Entries and locations that realloc foresees for a term.
NumTerms(b, name, t) == Total([d \in DOMAIN b |-> Cardinality(OfTerm(b[d], name, t))])

DocLocs(doc, name, t) ==
  [k \in DOMAIN doc |-> IF k \in OfTerm(doc, name, t) THEN Len(doc[k].tfs[t].locs) ELSE 0]
NumLocs(b, name, t) == Total([d \in DOMAIN b |-> Total(DocLocs(b[d], name, t))])

\* The fields and terms that the postings lists are of.
Pids(b, inv) ==
  LET OfField(k) == [i \in 1..Cardinality(Terms(b, inv[k])) |-> <<k, Sorted(Terms(b, inv[k]))[i]>>]
  IN  FlattenSeq([k \in DOMAIN inv |-> OfField(k)])

\* The places in a backing array of lists with these counts, all empty.
Placed(counts) == [p \in DOMAIN counts |-> [off |-> Total(SubSeq(counts, 1, p - 1)), len |-> 0]]

EncodedShapes(doc, name) ==
  FlattenSeq([k \in DOMAIN doc |-> IF doc[k].name = name THEN doc[k].extra ELSE <<>>])

realloc(io, b, inv) ==
  LET old   == io.Postings.mem
      pids  == Pids(b, inv)
      lists == Resized(io.Postings, Len(pids), {})
      dvs   == Resized(io.IncludeDocValues, Len(inv), FALSE)
      terms == [p \in DOMAIN pids |-> NumTerms(b, inv[pids[p][1]], pids[p][2])]
      locs  == [p \in DOMAIN pids |-> NumLocs(b, inv[pids[p][1]], pids[p][2])]
      Included(k) == k \in DOMAIN inv /\ \E f \in Fields(b) : f.name = inv[k] /\ f.dv
  IN
  [io EXCEPT
     !.init  = TRUE,
     !.Dicts = [k \in DOMAIN inv |->
                  [t \in Terms(b, inv[k]) |-> CHOOSE p \in DOMAIN pids : pids[p] = <<k, t>>]],
     !.IncludeDocValues = [dvs EXCEPT !.mem = [k \in DOMAIN @ |-> @[k] \/ Included(k)]],
     !.Postings = [lists EXCEPT                       \* the old bitmaps are kept
                     !.mem = [k \in DOMAIN @ |-> IF k <= Len(old) THEN old[k] ELSE @[k]]],
     !.FreqNorms        = Placed(terms),
     !.freqNormsBacking = Resized(@, Total(terms), NoFreqNorm),
     !.Locs             = Placed(locs),
     !.locsBacking      = Resized(@, Total(locs), NoLoc),
     !.extraDocValues   = [d \in DOMAIN b |-> [k \in DOMAIN inv |-> EncodedShapes(b[d], inv[k])]],
     !.FieldTFs         = Resized(@, Len(inv), Nothing),
     !.FieldLens        = Resized(@, Len(inv), 0)]

-----------------------------------------------------------------------------
\* MergeAll: what came before for the field, with f.
MergeAll(tfs, f) ==
  LET named(t) == [k \in DOMAIN f.tfs[t].locs |-> [f.tfs[t].locs[k] EXCEPT !.field = f.name]]
      none     == [freq |-> 0, locs |-> <<>>]
      old(t)   == IF t \in DOMAIN tfs THEN tfs[t] ELSE none
  IN  [t \in DOMAIN tfs \cup DOMAIN f.tfs |->
         IF t \notin DOMAIN f.tfs THEN tfs[t]
         ELSE [freq |-> old(t).freq + f.tfs[t].freq, locs |-> old(t).locs \o named(t)]]

\* process for a field.
AddField(io, f, inv) ==
  LET k == FieldIDPlus1(inv, f.name) IN
  [io EXCEPT !.FieldLens.mem[k] = @ + f.len,
             !.FieldTFs.mem[k]  = IF @ = Nothing THEN f.tfs ELSE MergeAll(@, f)]

AddFields(io, doc, inv) == FoldLeft(LAMBDA a, f : AddField(a, f, inv), io, doc)

\* The locations of a term in field k, behind those that its list has.
AddLocs(part, mem, locs, k, inv) ==
  FoldLeft(LAMBDA a, l : Appended(a.part, a.mem,
             [fieldID |-> IF l.field = Nothing THEN k ELSE FieldIDPlus1(inv, l.field),
              pos     |-> l.pos]),
           [part |-> part, mem |-> mem], locs)

\* process for the end of a document: the entries of a term.
CommitTerm(io, k, t, d, inv) ==
  LET p  == io.Dicts[k][t]
      tf == io.FieldTFs.mem[k][t]
      fn == Appended(io.FreqNorms[p], io.freqNormsBacking.mem,
              [freq |-> tf.freq, norm |-> io.FieldLens.mem[k], numLocs |-> Len(tf.locs)])
      lc == AddLocs(io.Locs[p], io.locsBacking.mem, tf.locs, k, inv)
  IN  [io EXCEPT !.Postings.mem[p] = @ \cup {d},
                 !.FreqNorms[p] = fn.part, !.freqNormsBacking.mem = fn.mem,
                 !.Locs[p] = lc.part,      !.locsBacking.mem = lc.mem]

CommitTerms(io, found, d, inv) ==
  FoldSet(LAMBDA x, a : CommitTerm(a, x[1], x[2], d, inv), io, found)

Commit(io, d, inv) ==
  LET found == UNION {{k} \X DOMAIN io.FieldTFs.mem[k] :
                        k \in {j \in DOMAIN inv : io.FieldTFs.mem[j] # Nothing}}
      done  == CommitTerms(io, found, d, inv)
  IN  [done EXCEPT !.FieldTFs = Cleared(@, Nothing), !.FieldLens = Cleared(@, 0)]

-----------------------------------------------------------------------------
\* The coder that served a term, written and reset for the next.
Served(c) == Ints!Reset(Ints!AfterWrite(Ints!Close(c)))

\* Mutant of AddPosting: the locations of each document are the first ones.
MutAddPostingLocs(a, io, p, d) ==
  LET fn == Part(io.FreqNorms[p], io.freqNormsBacking.mem)[a.n + 1]
      ls == SubSeq(Part(io.Locs[p], io.locsBacking.mem), 1, fn.numLocs)
  IN  [n   |-> a.n + 1, locs |-> a.locs + fn.numLocs,
       tf  |-> Ints!Add(a.tf, d, [freq |-> fn.freq, hasLocs |-> ls # <<>>,
                                  norm |-> IF fn.freq > 0 THEN fn.norm ELSE 0]),
       loc |-> IF ls = <<>> THEN a.loc ELSE Ints!Add(a.loc, d, ls)]

\* The loop over the postings of a term: n and locs are the offsets so far.
AddPosting(a, io, p, d) ==
  LET fn == Part(io.FreqNorms[p], io.freqNormsBacking.mem)[a.n + 1]
      ls == SubSeq(Part(io.Locs[p], io.locsBacking.mem), a.locs + 1, a.locs + fn.numLocs)
  IN  [n   |-> a.n + 1, locs |-> a.locs + fn.numLocs,
       tf  |-> Ints!Add(a.tf, d, [freq |-> fn.freq, hasLocs |-> ls # <<>>,
                                  norm |-> IF fn.freq > 0 THEN fn.norm ELSE 0]),
       loc |-> IF ls = <<>> THEN a.loc ELSE Ints!Add(a.loc, d, ls)]

\* The loop over the terms of a field.
WriteTerm(w, io, k, t, numDocs) ==
  LET p    == io.Dicts[k][t]
      docs == io.Postings.mem[p]
      size == Ints!getChunkSize(ChunkMode, Cardinality(docs), numDocs)
      a    == FoldLeft(LAMBDA x, d : AddPosting(x, io, p, d),
                [n |-> 0, locs |-> 0, tf |-> Ints!SetChunkSize(w.tf, size, numDocs - 1),
                 loc |-> Ints!SetChunkSize(w.loc, size, numDocs - 1)],
                Sorted(docs))
  IN  [tf  |-> Served(a.tf), loc |-> Served(a.loc),
       docTermMap |-> [d \in DOMAIN w.docTermMap |->
                         IF d \in docs THEN Append(w.docTermMap[d], t) ELSE w.docTermMap[d]],
       dict |-> IF docs = {} THEN w.dict
                ELSE [x \in DOMAIN w.dict \cup {t} |->
                        IF x = t THEN [docs |-> docs, tf |-> Ints!Written(Ints!Close(a.tf)),
                                       loc |-> Ints!Written(Ints!Close(a.loc))]
                        ELSE w.dict[x]]]

\* Mutant of NextDocTermMap: made once, and not emptied for the next field.
MutNextDocTermMap(old, numDocs) == IF old = <<>> THEN [d \in 0..(numDocs - 1) |-> <<>>] ELSE old

NextDocTermMap(old, numDocs) == [d \in 0..(numDocs - 1) |-> <<>>]

\* The doc values of a field: its terms, and the shapes behind them.
FieldDocValues(io, k, docTermMap, numDocs) ==
  LET terms(d) == docTermMap[d] \o io.extraDocValues[d + 1][k]
      coder == FoldLeft(LAMBDA c, d : IF terms(d) = <<>> THEN c ELSE Values!Add(c, d, terms(d)),
                 Values!newChunkedContentCoder(Ints!getChunkSize("legacy", 0, 0), numDocs - 1, FALSE),
                 [i \in 1..numDocs |-> i - 1])
  IN  IF io.IncludeDocValues.mem[k] THEN Values!Written(Values!Close(coder)) ELSE Nothing

-----------------------------------------------------------------------------
Init ==
  /\ pool = Nothing /\ s = Nothing /\ results = <<>>
  /\ pc = "idle" /\ at = 0 /\ local = Nothing
  /\ file = <<>> /\ seg = Nothing

\* newWithChunkMode and convert, as far as the fields: the pool may come up
\* empty although an interim was put.
Start(b, from) ==
  LET new == IF from = Nothing THEN NewInterim ELSE from
      inv == SortedNames(Names(b) \ new.FieldsMap)
  IN
  /\ pc = "idle"
  /\ pool' = Nothing
  /\ s' = [new EXCEPT !.FieldsInv = inv, !.FieldsMap = @ \cup Range(inv)]
  /\ results' = b
  /\ pc' = IF b = <<>> THEN "fields" ELSE "process"
  /\ at' = 0
  /\ local' = Nothing /\ file' = <<>> /\ seg' = Nothing

\* processDocument.
ProcessDocument ==
  LET io == IF s.opaque.init THEN s.opaque ELSE realloc(s.opaque, results, s.FieldsInv)
  IN
  /\ pc = "process"
  /\ s' = [s EXCEPT !.opaque =
             Commit(AddFields(io, results[at + 1], s.FieldsInv), at, s.FieldsInv)]
  /\ pc' = IF at + 1 = Len(results) THEN "stored" ELSE pc
  /\ at' = IF at + 1 = Len(results) THEN 0 ELSE at + 1
  /\ UNCHANGED <<pool, results, local, file, seg>>

\* What writeStoredFields writes of a document: values by field ID.
StoredOf(doc, inv) ==
  [k \in {FieldIDPlus1(inv, f.name) : f \in {g \in Range(doc) : g.stored}} |->
     SelectSeq([j \in DOMAIN doc |-> j], LAMBDA j : doc[j].stored /\ doc[j].name = inv[k])]

\* A turn of writeStoredFields.
WriteStored ==
  LET doc == results[at + 1] IN
  /\ pc = "stored"
  /\ \A k \in DOMAIN doc : doc[k].valid
  /\ file' = Append(file, [stored |-> StoredOf(doc, s.FieldsInv)])
  /\ pc' = IF at + 1 = Len(results) THEN "dicts" ELSE pc
  /\ at' = IF at + 1 = Len(results) THEN 0 ELSE at + 1
  /\ local' = IF at + 1 < Len(results) THEN local
              ELSE [tf  |-> Ints!newChunkedIntCoder(Unit, Len(results) - 1),
                    loc |-> Ints!newChunkedIntCoder(Unit, Len(results) - 1),
                    docTermMap |-> <<>>]
  /\ UNCHANGED <<pool, s, results, seg>>

\* ValidateDocFields says no: the interim does not go back to the pool.
Invalid ==
  /\ pc = "stored"
  /\ \E k \in DOMAIN results[at + 1] : ~results[at + 1][k].valid
  /\ s' = Nothing
  /\ pc' = "idle"
  /\ UNCHANGED <<pool, results, at, local, file, seg>>

\* A turn of writeDicts: a field.
WriteField ==
  LET k == at + 1
      n == Len(results)
      io == s.opaque
      w == FoldLeft(LAMBDA a, t : WriteTerm(a, io, k, t, n),
             [tf |-> local.tf, loc |-> local.loc, dict |-> <<>>,
              docTermMap |-> NextDocTermMap(local.docTermMap, n)],
             Sorted(DOMAIN io.Dicts[k]))
  IN
  /\ pc = "dicts"
  /\ local' = [tf |-> w.tf, loc |-> w.loc, docTermMap |-> w.docTermMap]
  /\ file' = Append(file, [dict |-> w.dict, dv |-> FieldDocValues(io, k, w.docTermMap, n)])
  /\ s' = [s EXCEPT !.opaque.fieldAddrs =
             [j \in DOMAIN @ \cup {k} |-> IF j = k THEN Len(file) ELSE @[j]]]
  /\ pc' = IF k = Len(s.FieldsInv) THEN "fields" ELSE pc
  /\ at' = IF k = Len(s.FieldsInv) THEN 0 ELSE at + 1
  /\ UNCHANGED <<pool, results, seg>>

\* AddrForField: 0 if it is not in the map.
AddrForField(io, k) == IF k \in DOMAIN io.fieldAddrs THEN io.fieldAddrs[k] ELSE 0

\* The fields that persistFieldsSection writes, as loadFieldNew finds them: one
\* whose record is at the start of the file is not loaded, and one without a
\* section is empty.
LoadedFields ==
  LET RecordAt(k) == Len(file) + k - 1
      Section(k)  == IF AddrForField(s.opaque, k) = 0 THEN [dict |-> <<>>, dv |-> Nothing]
                     ELSE file[AddrForField(s.opaque, k) + 1]
      found == SelectSeq([k \in DOMAIN s.FieldsInv |-> k], LAMBDA k : RecordAt(k) # 0)
  IN  [j \in DOMAIN found |-> [name |-> s.FieldsInv[found[j]], section |-> Section(found[j])]]

\* InitSegmentBase, reset and Put.
Finish ==
  /\ pc = "fields"
  /\ seg' = LoadedFields
  /\ pool' = reset(s)
  /\ s' = Nothing
  /\ pc' = "idle"
  /\ UNCHANGED <<results, at, local, file>>

Next ==
  \/ \E b \in Batches : Start(b, pool) \/ Start(b, Nothing)
  \/ ProcessDocument \/ WriteStored \/ Invalid \/ WriteField \/ Finish

Spec == Init /\ [][Next]_vars

-----------------------------------------------------------------------------
\* What the batch says of a term, and of the doc values, in a document.
Having(d, name, t) ==
  SelectSeq(results[d + 1], LAMBDA f : f.name = name /\ t \in DOMAIN f.tfs)
Located(f, t) ==
  [k \in DOMAIN f.tfs[t].locs |->
     LET l == f.tfs[t].locs[k]
     IN  [l EXCEPT !.field = IF @ = Nothing THEN f.name ELSE @]]
Expected(d, name, t) ==
  LET having == Having(d, name, t)
      freq   == Total([k \in DOMAIN having |-> having[k].tfs[t].freq])
      named  == SelectSeq(results[d + 1], LAMBDA f : f.name = name)
  IN  [freq |-> freq,
       norm |-> IF freq = 0 THEN 0 ELSE Total([k \in DOMAIN named |-> named[k].len]),
       locs |-> FlattenSeq([k \in DOMAIN having |-> Located(having[k], t)])]
ExpectedValues(d, name) ==
  Sorted(Terms(<<results[d + 1]>>, name)) \o EncodedShapes(results[d + 1], name)

\* How a reader finds the entries of a document (posting.go:306, intDecoder.go).
ReadChunkSize(v) == Ints!getChunkSize(ChunkMode, Cardinality(v.docs), Len(results))
Before(v, d) == {e \in v.docs : e < d /\ e \div ReadChunkSize(v) = d \div ReadChunkSize(v)}
FreqEntry(v, d) ==
  Ints!Chunk(v.tf, d \div ReadChunkSize(v))[Cardinality(Before(v, d)) + 1]
LocEntry(v, d) ==
  Ints!Chunk(v.loc, d \div ReadChunkSize(v))
    [Cardinality({e \in Before(v, d) : FreqEntry(v, e).hasLocs}) + 1]
Read(v, d) ==
  LET e    == FreqEntry(v, d)
      locs == IF e.hasLocs THEN LocEntry(v, d) ELSE <<>>
  IN  [freq |-> e.freq, norm |-> e.norm,
       locs |-> [k \in DOMAIN locs |-> [field |-> seg[locs[k].fieldID].name,
                                        pos |-> locs[k].pos]]]

\* Whatever the pool gave it, a segment has the fields and the terms of its own
\* batch, and a term leads to the documents that have it, each with the
\* frequency, norm and locations of all its fields of that name.
PostingsExact ==
  seg # Nothing =>
    /\ [k \in DOMAIN seg |-> seg[k].name]
         = IF results = <<>> THEN <<>> ELSE SortedNames(Names(results))
    /\ \A k \in DOMAIN seg :
         LET name == seg[k].name
             dict == seg[k].section.dict
         IN  /\ DOMAIN dict = Terms(results, name)
             /\ \A t \in DOMAIN dict :
                  /\ dict[t].docs = {d \in 0..(Len(results) - 1) : Having(d, name, t) # <<>>}
                  /\ \A d \in dict[t].docs : Read(dict[t], d) = Expected(d, name, t)

\* A field has doc values if a field of the batch asks for them, and then a
\* document has its own terms and shapes and no others; and its stored values
\* are found under the IDs that the segment has for their names.
ValuesExact ==
  seg # Nothing =>
    \A k \in DOMAIN seg, d \in 0..(Len(results) - 1) :
      LET name   == seg[k].name
          dv     == seg[k].section.dv
          stored == file[d + 1].stored
          asks   == \E f \in Fields(results) : f.name = name /\ f.dv
          reader == Values!loadFieldDocValueReader(dv)
          chunk  == d \div Ints!getChunkSize("legacy", 0, 0)
      IN  /\ (dv = Nothing) = ~asks
          /\ asks => Values!visitDocValues(Values!loadDvChunk(reader, chunk), d).terms
                       = ExpectedValues(d, name)
          /\ (IF k \in DOMAIN stored THEN Range(stored[k]) ELSE {})
               = {j \in DOMAIN results[d + 1] : results[d + 1][j].stored
                                                /\ results[d + 1][j].name = name}

\* The lists of two terms never share memory, none leaves the part of the array
\* that Reset clears, and each has an entry for every posting and a location
\* for every one counted in an entry.
ListsApart ==
  pc = "process" /\ s.opaque.init =>
    LET io == s.opaque
        Apart(parts, backing) ==
          \A p, q \in DOMAIN parts :
            /\ parts[p].off + parts[p].len <= backing.len
            /\ p < q => parts[p].off + parts[p].len <= parts[q].off
    IN  /\ Apart(io.FreqNorms, io.freqNormsBacking)
        /\ Apart(io.Locs, io.locsBacking)
        /\ \A p \in DOMAIN io.FreqNorms :
             LET entries == Part(io.FreqNorms[p], io.freqNormsBacking.mem)
             IN  /\ Len(entries) = Cardinality(io.Postings.mem[p])
                 /\ io.Locs[p].len = Total([k \in DOMAIN entries |-> entries[k].numLocs])

\* An interim in the pool, as far as its memory goes, holds nothing of the
\* batches it was used for.
PoolClean ==
  pool # Nothing =>
    LET io == pool.opaque IN
    /\ Range(io.Postings.mem) \subseteq {{}}
    /\ Range(io.IncludeDocValues.mem) \subseteq {FALSE}
    /\ Range(io.FieldTFs.mem) \subseteq {Nothing}
    /\ Range(io.FieldLens.mem) \subseteq {0}
    /\ Range(io.freqNormsBacking.mem) \subseteq {NoFreqNorm}
    /\ Range(io.locsBacking.mem) \subseteq {NoLoc}
=============================================================================
