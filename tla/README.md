# Verification of zapx

zapx is the segment format of the search engine bleve. A segment is built from
a batch of documents, written to a file, opened by mmap, read by many queries
at a time, and merged with other segments into a new one. This directory holds
TLA+ models of that code, the TLC runs that check them on small instances, and
theorems about them that TLAPS checks for every instance. Source paths are
relative to the repository's root; line numbers are those of the commit beside
which this directory lies.

1. [Inventory](#1-inventory)
2. [Modules](#2-modules)
3. [Runs](#3-runs)
4. [Fairness](#4-fairness)
5. [Proofs](#5-proofs)
6. [Where code and docs disagree](#6-where-code-and-docs-disagree)
7. [What is not modelled](#7-what-is-not-modelled)
8. [Plan](#8-plan)

## 1. Inventory

| Component | Source | State it keeps | Operations | What is hard | What makes it correct |
|---|---|---|---|---|---|
| Vector index cache | `faiss_vector_cache.go`, `faiss_vector_posting.go` 319-586 | map field → entry (faiss index, two document/vector maps, reference count, moving average), `closeCh`, monitor goroutine | `loadOrCreate`, `decRef`, `cleanup`, `Clear`, `entry.close` | queries use an index outside the lock while a monitor evicts; the entry is touched between RUnlock and Lock; indexes are closed by detached goroutines | an index is not closed while a query uses it, none leaks, cold ones are closed, deleted documents are never returned |
| Segment life cycle | `segment.go` | reference count, mmap, file, caches | `Open`, `AddRef`, `DecRef`, `Close`, `closeActual` | the last reader, not the owner, may be the one that closes | closed once, after the last reader; caches cleared before the unmap |
| Segment readers | `segment.go`, `read.go` | `visitDocumentCtxPool`, `fieldFSTs` | `VisitStoredFields`, `DocID`, `DocNumbers`, `Dictionary`, `Thesaurus` | contexts are shared through a pool, also with the merge | a call sees the bytes of its own document only |
| Segment merge | `merge.go` | the new file, `newDocNums`, stored offsets, field maps | `Merge`, `mergeSegmentBases`, `mergeStoredAndRemap`, `copyStoredDocs`, `persistMergedRest` | abort by `closeCh` at any time, errors after the file exists, a byte copy as a short cut, fields whose mapping changed | numbering is order preserving and gap free; every kept document keeps its values; a merge told to stop does not succeed |
| Enumerator | `enumerator.go` | current key of each dictionary iterator, lowest key and who has it | `newEnumerator`, `Current`, `GetLowIdxsAndValues`, `Next` | the empty key; one iterator of several failing | an ordered join: nothing left out, nothing twice, ends |
| Chunked integer coder | `intcoder.go`, `intDecoder.go`, `chunk.go`, `memuvarint.go` | chunk lengths, the open chunk, output buffer; reader position | `Add`, `AddBytes`, `Close`, `Write`, `Reset`, `SetChunkSize`; `loadChunk`, `readUvarint` | coders are reused from term to term; lengths become offsets in place | a chunk read back holds what was added for its documents |
| Postings iterator | `posting.go` | two bitmap iterators, two chunk readers, number of the loaded chunk | `Next`, `Advance`, `nextBytes`, `ReplaceActual`, reuse as prealloc | readers must be moved along with the bitmaps over deleted documents and chunks never loaded | a posting has the frequency, norm and locations of its own document |
| Inverted text section | `section_inverted_text_index.go`, `section.go` | per field dictionaries, postings, builders, field addresses | `Process`, `Persist`, `Merge` | 1-hit encoding; section builders reused through a pool | a term of the new dictionary leads to exactly the postings that survive |
| Dictionary | `dict.go`, `segment.go` 656-684 | FST reader, an iterator's postings list | `PostingsList`, `AutomatonIterator`, `Next`, `Contains`, `DocNumbers` | a caller hands a list back to be used again: the shared empty one, a 1-hit one or a general one; the iterator reuses one list for all entries | counts and postings are those of the term |
| Segment builder | `new.go`, `build.go`, `write.go`, `count.go` | pooled `interim`, writer, CRC | `New`, `convert`, `writeStoredFields`, `PersistSegmentBase` | an `interim` keeps its slices from batch to batch | a segment holds nothing of an earlier batch |
| Doc values | `contentcoder.go`, `docvalues.go` | chunked content, decoded chunk of a reader | `Add`, `Close`, `VisitDocValues` | empty chunks, cached chunk of a reader kept between calls | a document's values are its own |
| Synonyms | `section_synonym_index.go`, `synonym_cache.go`, `synonym_posting.go`, `thesaurus.go` | pooled lists of codes; per field the thesaurus FST and the terms of the synonym IDs, in the file and cached | section writer, merge, synonyms list and iterator, cache | lists and addresses stay in the pooled builder; IDs are handed out anew by the merge; a thesaurus without synonyms has no table of IDs | a term leads to the synonyms its documents name, and after a merge to those of the kept documents |
| Vectors | `section_faiss_vector_index.go`, `faiss_vector_posting.go` | vectors per field; the indexes a merge has open; hits of a search | section writer, merge, `Search`, `SearchWithFilter` | errors of the writer are dropped; indexes are freed by hand on every way out; selectors and cluster counts come from maps that may lack documents | a section has the vectors of its documents; every index is closed once; hits are eligible, and as many as asked for if there are |
| Command line tool | `cmd/zap` | none | prints a segment | | |
| Sizes, plugin, stubs | `sizes.go`, `plugin.go`, build-tag files | none | constants, constructors | | |

How they interact. `New` builds a segment in memory: the sections are filled
document by document and persisted through the coders. `Open` maps a file and
gives it one reference. A query holds a reference of the segment (`AddRef`)
while it asks a dictionary for a postings list and iterates it, visits stored
fields through a context of the pool, or asks the vector index cache for an
index. Its monitor and closing goroutines run without a reference. `Merge`
reads several segments: it numbers their documents (`mergeStoredAndRemap`),
then each section merges its own part with the new numbers; the text section
walks the terms with the enumerator, the postings with the postings iterator,
and writes with the coders. The last `DecRef` clears the caches and unmaps.

The behaviours that are hard to test are listed one by one, each at its line
with the properties aimed at it, under `hazards` in `PROJECT.json`.

## 2. Modules

Module by module: what it stands for, and how its state and actions correspond
to the code. `map` in `PROJECT.json` gives the lines of every definition.

### VectorIndexCache, IndexLease

`VectorIndexCache` has one action per critical section of `vc.m`. The variable
`cache` is the map, `entries` the `cacheEntry` structures with their index,
`monitors` counts monitor goroutines, `cleared` says that `closeCh` is closed,
and `pc`/`handle` say where each query is and what `loadOrCreate` gave it.

| Action | Code |
|---|---|
| `LoadHit`, `LoadMiss` | `loadOrCreate` under the read lock |
| `AddDocVecIDMap` | the filtered query that has to build the second map, after taking the lock |
| `CreateFound`, `CreateNew`, `CreateFail` | `createAndCacheLOCKED`, with `insertLOCKED` and the start of the monitor |
| `DecRef` | the wrapper's `Close` |
| `Cleanup`, `MonitorStop` | a tick of the monitor; its return |
| `CloseEntry` | the goroutine `entry.close` starts |
| `Clear` | `Clear` |

The gaps between RUnlock and Lock are states (`missed`, `unmapped`), and so is
the use of the index outside the lock (`held`). Averages are integers in units
of `1/Precision`, rounded up, so that a positive average stays positive, as the
floating-point one does. `IndexLease` is what the cache promises to a query,
without maps, counts or monitors: `Grant`, `Return`, `Retire`, `Free`.

### Segment

`Segment` extends the cache with the segment around it: reference count,
holders, `closeActual` in its two halves (`ClearCaches`, `Unmap`) under `s.m`.
The users' discipline (take a reference while somebody holds one, close the
wrapper before giving the reference back) is the contract of
`segment.Segment` with the index above it and stated as guards. The cache
alone assumes `Quiescent` for `Clear`; `ObeysCacheContract` discharges it.

### MergeDocs

`MergeDocs` is `merge.go` from the opening of the file to its completion or
removal: plan of fields (`AllFields`, `NewFields`, `MergedInfo`,
`FieldsSame`), documents copied as bytes (`CopySegment`) or visited one by one
(`EnterSegment`, `DropDoc`, `WriteDoc`, `LeaveSegment`), the stored index, the
sections in any order, the footer; `SeeClosed` at the places that look at
`closeCh` and `Fail` wherever I/O is done. A field is its rank, a stored value
is `<<segment, document, field>>`, so that a value under a wrong field or
document shows.

### Enumerator, SortedJoin, MergeInput

`Enumerator` has the calls of `Next` as actions: another iterator of the same
key, the next key, and a failure after some iterators have moved. Keys are
numbers in byte order with the empty key 0, because an exhausted vellum
iterator shows the empty key again when the dictionary has it. `NewEnumerator`
is what the merges call for a field, again and again; they use the actions, and
`EnumeratorSpec` is the enumerator by itself, for the proof. `SortedJoin` is
the promise of the comment at `enumerator.go:23-27`, and `Restart` the next
enumerator. Its variables are `unpassed`, what the iterators have still to
give, and `current`, what `Current` returns. `MergeInput` is what `mergeToWriter` gives to every section:
segments, drops, and the new document numbers, which `MergeDocs` shows to be
these.

### VisitCtxPool

Users take a context out of the pool, set its reader, decode into its buffer
and put it back, interleaved at every place where a context changes. The pool
is a multiset, because the code can put one context in twice. The history
variable `twice` remembers the contexts to which that happened.

### PostingsIterator

Every path of `nextDocNumAtOrAfter`: 1-hit, clean with and without
frequencies, dirty; each loop is a sequence of steps (`Seek`, `Skip`,
`Align`), and `Deliver` reads the entry. A chunk reader is the set of the
documents whose entries it has still to give, so an entry of another document
shows as such. `live` and `due` are history: what the caller must get.

A reader that has to skip documents in one chunk and a bitmap that has to skip
over chunks never loaded are different steps; the reader is only ever moved by
the entries of the chunk that is entered.

### IntCoder, MergeTerms

`IntCoder` is the coder as a record and its methods as operators. `chunkLens`
keeps its capacity when it is cut, so that lengths of an earlier term can show
again; `sound` becomes false where the code would panic (`Close` beyond the
lengths). `Written`, `Chunk` and `HasChunk` are the file and the decoder.
`MergeTerms` extends it and `MergeInput`, hence `Enumerator`:

| Action | Code |
|---|---|
| `StartField` | the head of the field loop: iterators, `newEnumerator`, an empty FST builder |
| `FinishPrevTerm`, `FinishField` | `finishTerm` at another term; after the loop |
| `BeginPostings` | the postings of the current iterator, `getChunkSize`, `SetChunkSize` |
| `AddPosting` | a turn of `mergeTermFreqNormLocs` or of the variant that copies bytes |
| `EndPostings` | the end of the loop body, with the enumerator's own `Next` |

The postings of a term are chosen when the enumerator arrives at it, since
nothing looks at them before. `written` is what the last `finishTerm` wrote and
the lists it stands for; `Decoded` takes it apart the way a reader of the new
segment does, which computes the chunk size by itself. An entry's norm is known
by its source `<<segment, document>>`. The new document numbers are those of
`MergeDocs` (`NewNum`), the iterator over a list with drops is that of
`PostingsIterator`. `NoField` in a decoded location stands for an index out of
range of `fieldsInv`.

### ContentCoder, DocValues

`ContentCoder` is the coder of doc values as a record, like `IntCoder`, and the
reader of a field: loaded chunk, header, compressed and decoded terms. A chunk
is a run of units in the file: the number of documents, a `MetaData` each, and
their terms, so that offsets mean what they mean in the code. `DocValues` has
`Build` (`writeDicts` and `loadDvReaders`), the part of the text section's merge
behind the dictionary (`StartField`, `MergeSegment`, `EndField`) and
`VisitDocValues`, with the state a caller keeps from call to call. Merge and
queries both clone a segment's readers; so calls follow the merge.

### Interim

`Interim` is a build from the pool to the pool: `s` is the `interim` at work
with its opaque, `results` the batch, `pool` what `interimPool` holds.

| Action | Code |
|---|---|
| `Start` | `newWithChunkMode` and the first part of `convert`; the pool may come up empty although something was put |
| `ProcessDocument` | `processDocument`, with `realloc` at the first one, and the commit of its terms |
| `WriteStored`, `Invalid` | a turn of `writeStoredFields`; `ValidateDocFields` refuses a document |
| `WriteField` | a turn of `writeDicts`: postings, locations and doc values of a field |
| `Finish` | `persistFieldsSection`, `InitSegmentBase`, `reset` and `Put` |

A slice has a length and a memory, which is its capacity, because `Reset` cuts
slices and the next build grows them again. The lists of entries and locations
of all terms are parts of one array each, which `append` writes in place. There
is no bound on the number of builds: what an interim keeps is soon as large as
it gets, and the run closes over that. One build runs at a time; two builds
share nothing, since each has an interim of its own.

### Sections

`Sections` holds the text section (`MergeTerms`) next to the four modules below.
They run after one another in the code, with the same drops and document
numbers and each with an opaque of its own, so that a behaviour of `Sections`
is that of one of them; `section` says which.

`Synonyms` builds two segments with one pooled opaque (`BuildSegment`, which is
`process`, `writeThesauri`, `AddrForField` and `Reset`) and merges them:

| Action | Code |
|---|---|
| `StartThesaurus` | the head of the field loop: thesauri are loaded, iterators collected, the enumerator made |
| `BeginSynonyms` | the head of the term loop, with `finishTerm` for the previous term |
| `AddSynonym` | a turn of the inner loop: a new ID for a synonym met first, the code under the new number |
| `EndSynonyms` | `prevTerm` and the enumerator's `Next` |
| `FinishThesaurus` | the last term, the FST, the table of IDs |
| `SynonymsClosed` | the places that look at `closeCh` |

`NumSyns`, `Loads`, `Codes`, `Fails` and `Hits` are the readers: the cache that
parses a thesaurus and the iterator over a list.

`VectorSection` is the same for vectors. The builder may fail after any field,
and drops the error (`BuildVectors`); the merge of a field gathers the vectors
that are left (`GatherVectors`), writes the map (`FlushSectionMetadata`, which
may fail as every write), opens indexes (`ReadIndex`), reconstructs
(`Reconstruct`), frees the old ones and makes the new one (`CreateIndex`,
`WriteIndex`). `GiveUp` is every way out on which `freeReconstructedIndexes` is
called; an index closed or used twice becomes `"misused"`.

`VectorSearch` is one search with the maps of a cache entry: `built` are the
documents that were deleted for the query that made the entry, whose vectors
are in the index and not in the maps. That query itself (`made`) excludes them
(`LeftOut`), another one cannot. Faiss may return any nearest `k` of the
vectors it is let look at (`Nearest`); which those are is `Unfiltered`,
`Filtered`, `Selected` and `MinEligibleCentroids`.

`Dictionary` is looking terms up: `postingsListInit` and `read` on a list that
may be handed back, the iterator that reads entry after entry into `itrTmp`, and
`DocNumbers`, which hands the list of one ID back for the next.

## 3. Runs

| Run | Question | Instance | Why it is enough |
|---|---|---|---|
| `cache_sectionMap` | Are the cached maps those of the section? | one field, two documents, two bitmaps | violated, see 6 |
| `segment_life` | May the owner or a reader close last, and what may run after? Is an index ever closed under a query, leaked, miscounted, or left without a monitor? Does a query get complete maps, and no deleted document? Does the cache implement `IndexLease`, are cold indexes closed, and no others evicted? | two users, one field, two entries, one document, two bitmaps | two queries meet at every gap, and the owner is a third holder; the second entry replaces one that waits to be closed; a bitmap with the document and one without is what makes the second map be built; the safety invariants are proved for any number (section 5) |
| `merge_stored` | Does every kept document keep its values under its new number? Does a merge return, leaving a whole file or none, and fail when told to stop before its last segment? | two segments of up to two documents, three in all, three fields, a field that may lose its store | byte copy and visiting follow one another in both orders; three fields allow as many fields with different IDs; the signal may arrive in, before and after each segment |
| `merge_deletedField` | Do the other fields of a document survive a deleted one? | one document, three fields | violated, see 6 |
| `visit_shared` | Does a context serve one call at a time? | two goroutines, three contexts, two documents | sharing needs two; a third adds only waiting |
| `visit_stopAtId` | Does that also hold for a visitor that stops at `_id`? | as `visit_shared` | violated, see 6 |
| `postings_entries` | Does every posting have its own entry? | six documents, chunks of three, every list, bitmap and sequence of calls | a chunk that is skipped, entered in the middle and left; a third chunk would be skipped like the first |
| `sections`: text | Does every term lead to the surviving postings? Is the enumerator an ordered join? | two segments of two and one documents, keys {0, 1}, {0, 1, 2} in the mode whose chunks depend on the term, frequencies {0, 1}, three chunk modes, fields equal, different or deleted; 1024 stands for 2 | three surviving postings exceed the unit, so that chunk sizes, and the number of chunks, go up and down from term to term and from field to field; a key in both dictionaries, in one, and the empty key at the start of either |
| `sections`: synonyms | Does a term lead to the synonyms of its documents, after building and after merging? | the same segments; six kinds of documents, two terms, two fields, two synonyms; every drop, the segments built in either order | an opaque that shrinks and grows; a field that is in one segment only; synonyms whose IDs differ in the segments; a term without synonyms |
| `sections`: vectors | Does a section have the vectors of its documents, is every index closed once? | the same segments; six kinds of documents, two fields, up to two vectors a document; an error or `closeCh` at every step | a segment whose vectors are all dropped, so that its index is never opened; fields without a section; an index to open after one that failed |
| `sections`: search | Are there as many hits as asked for, and only of eligible documents? | four vectors of three documents of four, one or two clusters, `k` up to 3, `nprobe` 1 or 2, every filter and every set of deleted documents, now and when the entry was made | a filter on both sides of one half; fewer than `k` eligible in the first `nprobe` clusters; documents without vectors |
| `sections`: dictionary | Does a list that is handed back get the documents of the new term? | two terms, two documents, general and 1-hit entries, every sequence of calls | a list of either encoding before either, the shared empty list, a term that is not there |
| `synonym_emptyTerm` | Is what is collected for a term that of the term, the empty one included? | synonyms as above | violated, see 6 |
| `dict_count` | Is the count of an entry that of the term? | dictionary as above | violated, see 6 |
| `docvalues_visit` | Does a document keep its doc values, and does every call get those of its document? | segments of three and two documents, chunks of two, two fields, one or two terms a document; doc values or index of a field removed | the new segment has up to three chunks: empty ones at the start, in the middle and at the end; segments out of focus and without readers |
| `interim_pool` | Is a segment made of its own batch only, whatever the pool gave it? Do the lists of two terms share memory? | five kinds of documents; every batch of up to two, and of three out of two kinds, the empty one included; 1024 stands for 2; the number of builds is not bounded | a field twice in a document, a composite field, no frequencies, a shape, a refused document; three documents make two chunks; slices grow within and beyond their capacity |

The bounds are the constants that the modules mark as bounds: `Excepts`,
`Entries`, `MaxSample`, `Precision` (cache); `NumSegs`, `MaxDocs` (merge);
`MaxDoc`, `ChunkSize` (iterator); `NumDocs`, `Plans`, `Freqs`, `LocFields`
(terms); `SynBatches`, `VecBatches`, `NoIndex` (synonyms, vectors);
`SearchDocs`, `VectorDoc`, `Ks`, `NProbes`, `Clusters` (search); `Terms`,
`DictValues`, `DictDocs` (dictionary); `NumDocs`, `NumTerms`, `Batches`, `Requests` (doc values);
`Batches` (builder); `ShortSpec`
bounds the documents of `merge_stored`. `Entries` is reused: an entry whose
index is closed and that nobody refers to is free again, so that the run has no
last entry. Users and contexts of the pool runs are symmetric; the runs with
liveness use no symmetry.

`CHECK_DEADLOCK FALSE` stands where a system may stop: a segment that is
closed, a merge that has returned, a merge of sections that is through or has
failed, and a search that has its answer.

Five runs are expected to find a violation; section 6 says of what. Every
property of the other runs has a mutant in `PROJECT.json`: a plausible bug in
one of the definitions under which the property is violated.

## 4. Fairness

- Segment with its cache (`SegFairSpec`). The monitor has a ticker and ticks
  (`Cleanup`), and sees a closed `closeCh` (`MonitorStop`); a goroutine that
  closes an index runs (`CloseEntry`); a query that waits for `vc.m` gets it
  (`sync.RWMutex` does not starve); `closeActual`, once begun, runs to its end.
  Nothing says that a query arrives, or that one returns its index, or that a
  reference is given back: `ColdIndexClosed` therefore speaks of indexes that
  are no longer asked for, and `ReleasedInTheEnd` of a segment nobody holds.
- Merge (`FairSpec` of `MergeDocs`). One goroutine, never blocked: `WF(Step)`.
  `closeCh` may be closed at any time or never.
- `PostingsIterator`, `VisitCtxPool`, `Sections`, `DocValues`, `Interim`: safety only.

## 5. Proofs

TLAPS checks 38 theorems listed in `PROJECT.json` and their lemmas. They hold
for every number of users, fields, documents, entries and for every chunk size,
not only those of the runs. The only assumptions are those named in the modules:

- the constants that stand for "nothing" are not members of the sets they are
  used with; numbers are natural, chunk sizes positive; the users of the cache,
  the iterators, keys, fields, documents and vectors are finitely many;
- the segments of a merge are numbered from 0 (`VectorSectionAssumption`), and a
  synonym entry is one of a document of its segment (`SynonymsAssumption`);
- an average of 1.0 is 5, 10 or 20 units (`VectorIndexCache`);
- an entry of a dictionary has documents, and exactly one if it is a 1-hit entry
  (`DictionaryAssumption`): the builder and the merge insert no others;
- batches, documents and the locations of a term are sequences, the terms of a
  field are finitely many, every document has a stored `_id`, and a location is in
  its own field or in one of its document (`InterimAssumption`): an analyzer gives
  no others;
- the builder includes doc values only of a field that a document of its batch
  has (`DocValuesAssumption`);
- the fields of the new segment are those of the old ones unless a mapping was
  updated, `_id` is never updated, and no location lies in a deleted field
  (`MergeTermsAssumption`). The last is a bound, because of `merge.go:297`
  (section 6): such a location is written with an ID that nothing can read.

**Segment_proofs**, the cache. `IndexOpenWhileHeld` is not inductive: it says
nothing of the step that closes. The chain is: `decRef` looks the entry up by
field, and finds the one its query uses, because that one is still in the map;
it is there because an entry with references is not evicted; its references are
positive because `refs` counts its users exactly. The three statements need
each other and are proved together, as `HandleInv`, `CacheInv` and `RefsInv`,
with the facts about which entries are open. The other invariants (no leak, one
monitor, complete maps, no deleted hit) follow from the same inductive
invariant or extend it. So does the action property `EvictedWhenCold`: an
average of zero, which is below the threshold, is that of an entry that no tick
has looked at, and such an entry has a hit (`FreshInv`); the first sample is the
average, and a positive one stays positive (`EwmaIs`).

The same module has the refinement (`CacheImplementsLease`): every step of the
cache is a step of `IndexLease` or a stutter. `lease` is the entry of a query that holds one,
`retired` the entries that are neither in the map nor closed.

**Segment_proofs**, the segment. `SegInv` says that the count is the number of holders, and
that caches are cleared and the file unmapped only at zero. From it follow that
no query runs on an unmapped file and that the segment keeps the cache's
contract (`ContractDischarged`), so that all that was proved of the cache holds
of the cache in its segment (`SegmentSafe`). `NothingServedAfter` needs that the
cache stays empty once it is cleared, since no user is left to load into it.

**PostingsIterator_proofs.** `IInv` is `TypeOK`, `Flags`, `IdleInv`, `SeekInv`
and `AlignInv`. Between two calls the readers stand where the bitmap `all`
stands: what they have still to give in the loaded chunk is what `all` has
still to give in it. During a call they are behind by exactly the entries that
the loops have still to pass: `SeekInv` for the loop over chunks, `AlignInv` for
the one inside the chunk. `OwnEntry` and `AdvanceExact` are read off at the end
of the call.

**VisitCtxPool_proofs.** `Exclusive` speaks of contexts not put back twice, so
the invariant (`PoolInv`) counts where the copies of a context are: one, in the
pool or with one call, until it is put back twice (`OneCopy`). A call that reads
fields has had its reader and its document set by its own first step and nobody
else's (`ReadsOwnDoc`). Without the visitor that stops at `_id` no context is
ever put back twice (`NeverShared`).

**MergeDocs_proofs.** `MergeInv` keeps, at every step, that the numbers given so
far grow with segment and document and are all of `0..newDocNum-1` (`Numbering`),
that the new file has under each what the visitor or the copy put there
(`Written`), and how far the loops have come (`Progress`): copying numbers a whole
segment at once, visiting one document, and dropping none. From that follow the
formula for the numbers (`NumbersExact`), that a merge which succeeds has numbered
all that `computeNewDocCount` counted, and that what a reader finds under a
number is what was collected (`DocumentsFound`; `StoredAlways` has no condition).
`PreservedAlways` has the one that the finding of `merge_deletedField` calls for:
no field is deleted.

**Sections_proofs.** The merge of vectors owns the indexes it opened from
`ReadIndex` to the way out it takes, and each way out closes exactly those
(`IndexesAlwaysFreed`). Of the lookups (`LookupInv`), a list of the caller or of
`DocNumbers` stands for the term it was last asked for, and `postingsListInit`
has to make that true of every list that can be handed back, the shared empty
one among them, which nothing may change. `HitsAlwaysComplete` is about one step
but four ways to search: the lemmas say which vectors each lets faiss look at,
and that any nearest `k` of them are hits that may not be missed.
`VectorsAlwaysExact` needs `VecInv`: a build starts from an opaque as new, and
what it leaves under the ID of a field is that field's (`ProcessedIs`,
`WrittenIs`; two fields have no ID in common, `FieldIDTells`). In the merge,
`indexes` and `vecToDocID` have the vectors left of the segments passed
(`AtGather`), which at the end are exactly those that survive
(`LeftAreSurviving`). The address is there if one survives (`Flushed`), and that
is also when an index is opened, so that `validMerge` leaves no field with a map
and without an index (`EndReadStep`). What is reconstructed grows to all of them
(`Reconstructed`) before the new index is made; the fields done before are not
touched (`OrderStays`, which needs that fields are taken in order).

**Sections_proofs**, the enumerator. While there is an entry, `lowK` is the least key that any
iterator has still to give and `lowIdxs` are the iterators that have it
(`AtLeast`, in `EInv`), so that the current entry is the least of those not
passed. `updateMatches` sees only `currKs`; the step that needs the invariant
is its second parameter: after a `Next` no iterator has the empty key still to
give, so a current key that is empty belongs to one that is exhausted, and
skipping it skips nothing (`StepKey`, `MatchesFound`). The join then takes the
same step: each `Next` is its `Advance`, a failing one its `Break`
(`EnumeratorJoins`). The position of an entry among those of its key is a number of
iterators, so the lemmas on `FirstOf` and `After` are about cardinalities.

**Sections_proofs**, the merge of the text. `JoinInv` says where the merges of text and synonyms stand
in the enumerator; from it follows that they keep its protocol (`SectionsJoin`).
`TextInv` adds, for the text section, what the coders hold. Collected are the
postings that the drops leave of the iterators of the current key up to the
current one, under their new numbers, which are monotone along the enumerator and
never repeat. A coder has the entries of all closed chunks, in order, and those
of the open one; the lengths of closed chunks are their sizes, the others are zero
(`Coded`). After `Close` the lengths are those of all chunks (`Closed`), and
`Decoded` gets the postings back out of them with a chunk size that it computes by
itself from the number of postings (`TermAlwaysReadable`). Three places need
more than one expects. `prevTerm` stays nil after the empty term (`AtNextTerm`):
`SetChunkSize` is then called again for the iterators that share it, and does no
harm because the size is the same. A term is passed to `finishTerm` before the
first one as well, with nothing collected. `Reset` clears the lengths in use, and
`SetChunkSize` may uncover more of them: these are zero too, since every term has
cleared what it used.

**Sections_proofs**, the thesauri. Of the opaque of the builder nothing is cleared but what the
last batch used, and some of it not at all. What makes this enough is that all its
lists of codes are empty between two builds (`NoneLeft`), and that `realloc`
replaces every map and `writeThesauri` every address that a batch looks up: a thesaurus is
a function of its own batch (`ThesaurusOf`, `BuiltIs`). It is truthful
(`BuiltTruthful`): the numbers of synonyms are the ranks in which they first
appear, so that they are one to one and below the length of the map (`RankIs`,
`IDsAre`), and the codes under a term are those of its entries (`CodeOf`). In the
merge (`SynInv`), what is written and collected says, of every term, what the
surviving documents of the entries passed say (`Collects`): of a term that is done
in the dictionary, of the current one in the bitmap and the list of synonyms, which
grows without moving a number given before (`AddCollected`). When
the enumerator is through, nothing is left to pass and the merged thesaurus says all (`SynFinish`).
The theorem has two hypotheses. `NothingApart`: nil is neither a map nor a
thesaurus. `NoEmptyStrings`: no term and no synonym is empty, because of
`synonym_emptyTerm` and of the thesaurus that cannot be loaded (section 6).

**DocValues_proofs.** A coder and a file are taken to hold a map from documents to
terms. `Holds` says it of a coder: what it has written and what it keeps is, chunk
after chunk, the run of units that `Block` describes, where each chunk lies is the
sum of the lengths before it (`Laid`), and the documents of a chunk are those of the
map (`OfChunks`). `Add` puts one more document into the map, whichever chunks it
passes over (`AddHolds`), `Close` and `Written` make a file of it (`WrittenIs`), and
a reader that has loaded a chunk of the file finds the terms of each of its
documents, those that it has not included (`VisitIs`). The builder adds its
documents in order (`BuilderIs`). So does the merge, and that is the part with an
invariant (`DVInv`): the coder of the field holds the documents that survive in the
segments passed, under numbers that grow with segment and document (`Merging`,
`NumbersGrow`, `SegmentMerges`), and `fdvReadersAvailable` is true exactly if one of
those segments had doc values. `MergedExactHolds` follows from it at the end.
`VisitExactHolds` needs `VisitInv` besides: a state has a reader for each field it
was made for that has one, and such a reader either has no chunk or has its header,
its terms and its decoded terms out of one chunk (`StateFor`, `Loaded`); a turn of
the loop over the fields keeps that (`VisitFieldIs`). Both theorems have two
hypotheses. `NotAReader`: nil is not a reader. `FlagsApart`: of two segments that
have flags for one field neither says that its stored part or its doc values were
removed, because of `merge.go:655` (section 6), with which `MergedExact` is violated.

**Interim_proofs.** `realloc` counts, for the list of each term, the fields and the
locations it will get; `processDocument` merges the fields of one name first and
appends afterwards. So `ListsApart` is a matter of two different ways to count, and
of every order in which a document's terms may come out of Go's maps. The invariant
(`At`) speaks of the documents: when n of them are processed, each list has its
place where `realloc` put it and is no longer than the counts of these n add up to
(`Lists`), and its entries say how many locations it has. For one document, `AddField`
merged into no more locations than were counted (`AddFieldsHold`). `CommitTerm` then
appends to the lists of one term only: to its end, within its part, and so to no other list
(`AppendFits`), and a term is committed once. Hence the sum over the documents stays
within the sum that placed the next list. `PoolAlwaysClean` follows the memory rather than the
values: of a slice, everything beyond its length is zero (`Memory`), whatever is
written is within its length, and `Reset` clears up to there before it cuts (`Zeroed`). A build
that is refused halfway gives nothing back.

**FoldSteps** is about recursion as such. The prover cannot instantiate a theorem
that takes an operator, but it can instantiate a module, so the operator of a step is
a constant there: a fold over a sequence takes one element after the other
(`LeftSteps`), a fold over a set one after the other in some order (`OverSteps`), a
recursive function is what its definition says (`CountedSteps`). `DocValues_proofs`
has an instance for each of its loops: builder, merge, `iterateAllDocValues`,
`mergeUpdatedFields`, the fields of a call; `Interim_proofs` for sums, fields,
locations and the terms of a document.

Only model-checked:

- all liveness, and everything under fairness, which is beyond the prover;
- the values of averages, whose decay is a matter of numbers;
- of the builder, what a segment says in the end (`PostingsExact`, `ValuesExact`
  of `Interim`);
- what is found to be violated (section 6).

The prover has no induction over data, so that a recursive function is reasoned
about through a least counterexample: `OffsetsAre` and `UpToIs` do so for the lengths
of the chunks and the numbers of the postings, `UpTo` and `Subsets` of `FoldSteps`
for every loop.

## 6. Where code and docs disagree

With a run that shows it (`findings` in `PROJECT.json`):

- `cache_sectionMap`: a miss caches the maps without the documents that the
  missing query's bitmap excluded (`faiss_vector_cache.go:142`); the comment at
  124-125 says the maps are constructed out of the section. A later query with
  a smaller bitmap loses hits.
- `merge_deletedField`: the merge's visitor returns false for a deleted field
  (`merge.go:459`), which ends the visit of the document: the values of the
  fields behind it are lost (`merge.go:36-38` promises the remaining data).
- `visit_stopAtId`: a context is put into the pool twice when a visitor stops
  at `_id` (`segment.go:566` and 545), and two calls then share it.

- `synonym_emptyTerm`: in the merge of synonyms `prevTerm` is nil again after the
  empty term (`section_synonym_index.go:701-702`), so that its synonyms are
  written under the next term, or not at all if none follows (655, 714; the
  comment at 661-662 says they are written out when the term changes).
  `ThesaurusExact` is therefore checked with terms that are not empty.
- `dict_count`: a dictionary iterator reads every entry into the same list
  without initialising it (`dict.go:180`), so that after a 1-hit entry the count
  of a general one is 1 (`posting.go:234` says that `Count` is the number of
  items on the list).

Met while reading, without a run:

- The vector maps of `cache_sectionMap` have a second effect: vectors of
  documents that are not in them cannot be excluded from a search, take places
  among the `k` nearest, and are dropped from the answer afterwards.
  `HitsComplete` allows for exactly that many missing hits (`Foreign`), and for
  none in an unfiltered search by the query that made the entry.
- A thesaurus in which a synonym is the empty string cannot be loaded
  (`synonym_cache.go:84-100`), and its merge fails.
- Goroutines that close cached indexes need not have run when the file is
  unmapped (`segment.go:702-706`). No property orders the two.
- An entry queried in this second may be evicted, the comment at
  `faiss_vector_cache.go:213-216` notwithstanding, if its average had fallen to a
  third while a long query held it; it only costs a reload. `EvictedWhenCold` has
  that exception. Averages rounded up to fifths do not fall so far: the run needs
  the exception only with `Precision` 10, for which the theorem holds as well.
- The DocValues flag of a field is combined out of its Store flag
  (`merge.go:655`): when two segments know that the stored part of a field was
  removed, the merge drops its doc values as well. `MergedExact` is violated in
  `DocValues` as soon as two segments have that flag; the run leaves it out.
- A field whose index was removed loses its doc values in the merge, whatever
  its DocValues flag says (`section_inverted_text_index.go:130`).
- `Segment.loadDvReaders` ignores the errors of `loadDvReader`
  (`segment.go:903`): a field whose doc values cannot be read has none.
- `enumerator.Current` after an error answers with the state before it
  (`enumerator.go:80-82`, 113); no caller asks.
- `PostingsIteratorFromBitmap` (`posting.go:623`) gives nothing: its list is
  nil, and the iterator tests for that first.
- A term whose last segment has no survivors is not 1-hit encoded although it
  could be; it stays readable (`TermReadable`).
- The location of a deleted field within a composite one is written with field
  ID 65535 (`merge.go:297`), and a reader indexes `fieldsInv` out of range
  (`posting.go:497`).
- `VisitDocValues` keeps the readers of the fields of its first call: fields
  first asked for in a later call with the same state are skipped
  (`docvalues.go:303-316`).
- `fieldAddrs` is not reset with the rest of the builder: a batch of no
  documents writes the address of an earlier file for `_id`. Nothing reads it,
  because the record of that field is then at offset 0, which `loadFieldNew`
  takes for a field without a record (`segment.go:379`).
- `interim.reset` loses the error of all sections but the last
  (`new.go:143-147`); the vector section's `Persist` ignores write errors.

## 7. What is not modelled

- Library code is external: roaring bitmaps are sets, vellum FSTs are sets of
  keys, faiss indexes are tokens that are open or closed, mmap is a flag.
- `VisitCtxPool`, `MergeDocs`: compression of stored values (snappy) and the
  layout of a stored document; varints are atomic.
- `MergeTerms`: array positions of a location, more than one location of a
  term in a document, norms of zero bits; the choice between copying and
  translating is modelled by what it does to the field ID.
- `Interim`: the size of the output buffer, statistics of bytes, array
  positions, the layout of the file (one item for a document, one for a field),
  and the fields of the vector and synonym sections.
- `Synonyms`: the thesaurus iterator, a caller's own list and iterator handed
  back, the map of loaded thesauri (each is parsed once, under a lock, and never
  changes). Terms of the passing run are not empty, and neither are synonyms.
- `VectorSection`: the IDs of vectors are unique, as `hashCode` makes them with
  overwhelming likelihood; types, training and parameters of an index. The
  branch for merged indexes without data (`section_faiss_vector_index.go:358`)
  cannot be reached, since an index is read only for vectors that are left.
- `VectorSearch`: distances and scores, vectors of the wrong dimension, and the
  iterator over the hits.
- `Dictionary`: the order and the automaton of an iterator are those of vellum;
  `Contains` and `Cardinality` only ask vellum.
- The command line tool only prints; `sizes.go`, `plugin.go` and the stubs of
  build tags hold constants and constructors.
- `DocValues`: extra values of geo shapes, readers of the formats before
  sections, counts of bytes read, and `closeCh`, which `MergeDocs` has.
- Crash recovery: the code has none. A crash between the opening of the new
  file and its completion leaves a partial file; the caller's index never
  refers to it.

## 8. Plan

| # | Module | Over | What it is for | State |
|---|---|---|---|---|
| 1 | `VectorIndexCache`, `IndexLease` | | use after close, leak, monitor | checked, proved, refinement proved |
| 2 | `Segment` | 1 | order of close, clear and unmap | checked, proved |
| 3 | `MergeDocs` | | numbering, stored values, abort | checked, proved but for abort |
| 4 | `Enumerator`, `SortedJoin` | | ordered join | checked, refinement proved |
| 5 | `VisitCtxPool` | | pool of contexts | checked, proved |
| 6 | `PostingsIterator` | | entries of their own document | checked, proved |
| 7 | `IntCoder` | | chunks written and read | checked and proved through 8 |
| 8 | `MergeInput`, `MergeTerms` | 4, 7 | terms and postings survive | checked, proved |
| 9 | `ContentCoder`, `DocValues` | 7 | content coder, cached chunk of a reader, merge of values | checked, proved |
| 10 | `Interim` | 7 | pooled builder: nothing of an earlier batch; `writeDicts` | checked, its memory proved |
| 11 | `Dictionary` | | lists handed back, counts of entries, `DocNumbers` | checked, proved but for the iterator |
| 12 | `Synonyms` | 8 | pooled builder; synonym IDs remapped by a merge | checked, proved |
| 13 | `VectorSection`, `VectorSearch` | 8 | dropped errors, life of indexes; eligible documents, selectors, clusters | checked, proved |
| 14 | `Sections` | 8, 11-13 | the sections side by side | checked, proved as its parts are |
| 15 | `SegmentFile` | | persist and merge to a path that exists | to do |

Theorems to come: of `Interim`, `PostingsExact` and `ValuesExact`, for which the
lemmas on coders of `Sections_proofs` and `DocValues_proofs` are the start.
