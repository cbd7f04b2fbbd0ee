------------------------------ MODULE Synonyms ------------------------------
(***************************************************************************)
(* The synonym section: the builder that comes out of the pool             *)
(* (synonymIndexOpaque, section_synonym_index.go), the thesauri it writes, *)
(* how they are read (synonym_cache.go, thesaurus.go, synonym_posting.go)  *)
(* and how those of several segments are merged.                           *)
(*                                                                         *)
(* Two segments are built in any order with one opaque, then merged.  A    *)
(* batch is the sequence of what IterateSynonyms passes, document by       *)
(* document.  Names, terms and synonyms are numbers in their order, and 0  *)
(* is the empty term.  A code is <<synonym ID, document>>, in the order of *)
(* its 64 bits; an address stands for what is written there.               *)
(***************************************************************************)
EXTENDS MergeInput, Sequences
Seqs == INSTANCE SequencesExt

CONSTANT SynBatches  \* bound: the batches each segment may be built of

ASSUME SynonymsAssumption ==
  \A i \in Itrs : \A b \in SynBatches[i] :
    b \in Seq([doc : Docs(i), field : Nat, term : Keys, syns : Seq(Nat)])

VARIABLES
  batches,   \* the batch of each segment
  so,        \* the opaque of the builder
  thesauri,  \* the thesauri of each segment by field, or Nothing
  synPc,     \* "build", "field", "entry", "codes", "merged", "failed", "closed"
  thesField, \* the field that is merged
  synRoaring,\* newRoaring
  synTodo,   \* codes of the current list the loop has not reached
  synPrev,   \* prevTerm
  synTerms,  \* synTermMap of the merge: its IDs are handed out in order
  newFst,    \* the dictionary of newVellum
  merged     \* the thesauri of the new segment, for the fields done

synVars == <<batches, so, thesauri, synPc, thesField, synRoaring, synTodo,
             synPrev, synTerms, newFst, merged>>

-----------------------------------------------------------------------------
\* The number of x in the order in which the members of seq appear first.
Rank(seq, x) ==
  LET first == Lowest({k \in DOMAIN seq : seq[k] = x})
  IN  Cardinality({seq[k] : k \in 1..(first - 1)})

Members(seq)    == {seq[k] : k \in DOMAIN seq}
FieldsIn(b)     == [k \in DOMAIN b |-> b[k].field]
TermsIn(b)      == [k \in DOMAIN b |-> <<b[k].field, b[k].term>>]
SynonymsIn(b)   == Seqs!FlattenSeq([k \in DOMAIN b |->
                     [n \in DOMAIN b[k].syns |-> <<b[k].field, b[k].syns[n]>>]])
BatchFields(b)  == Members(FieldsIn(b))

\* The synonyms of each thesaurus; sidNext is one for all of them.
SynonymIDtoTerm(b, f) ==
  [id \in {Rank(SynonymsIn(b), p) : p \in {q \in Members(SynonymsIn(b)) : q[1] = f}} |->
     (CHOOSE p \in Members(SynonymsIn(b)) : Rank(SynonymsIn(b), p) = id)[2]]

NewOpaque == [FieldIDtoThesaurusID |-> Nothing, Synonyms |-> <<>>, len |-> 0,
              thesaurusAddrs |-> <<>>]

\* realloc: the lists are as many as the batch has terms; memory is kept.
realloc(o, b) ==
  LET n == Cardinality(Members(TermsIn(b))) IN
  [o EXCEPT
     !.FieldIDtoThesaurusID =
        [id \in {FieldID(BatchFields(b), f) : f \in BatchFields(b)} |->
           Rank(FieldsIn(b), CHOOSE f \in BatchFields(b) : FieldID(BatchFields(b), f) = id)],
     !.Synonyms =
        [k \in 1..(IF Len(@) > n THEN Len(@) ELSE n) |-> IF k <= Len(@) THEN @[k] ELSE {}],
     !.len = n]

\* process, for every synonym field of the batch.
process(o, b) ==
  [o EXCEPT !.Synonyms =
     [k \in DOMAIN @ |->
        @[k] \cup UNION {
          {<<Rank(SynonymsIn(b), <<b[e].field, s>>), b[e].doc>> : s \in Members(b[e].syns)} :
            e \in {x \in DOMAIN b : Rank(TermsIn(b), TermsIn(b)[x]) + 1 = k}}]]

\* writeThesauri: a term without a synonym is not inserted.
writeThesauri(o, b) ==
  LET list(f, t) == o.Synonyms[Rank(TermsIn(b), <<f, t>>) + 1]
      thesaurus(f) ==
        [fst |-> [t \in {u \in {p[2] : p \in {q \in Members(TermsIn(b)) : q[1] = f}} :
                           list(f, u) # {}} |-> list(f, t)],
         synTermMap |-> SynonymIDtoTerm(b, f)]
      ids == {Rank(FieldsIn(b), f) : f \in BatchFields(b)}
  IN
  [o EXCEPT !.thesaurusAddrs =
     [id \in ids \cup DOMAIN @ |->
        IF id \in ids
        THEN thesaurus(CHOOSE f \in BatchFields(b) : Rank(FieldsIn(b), f) = id)
        ELSE @[id]]]

AddrForField(o, id) ==
  IF o.FieldIDtoThesaurusID = Nothing \/ id \notin DOMAIN o.FieldIDtoThesaurusID
  THEN Nothing
  ELSE o.thesaurusAddrs[o.FieldIDtoThesaurusID[id]]

\* Mutant of ResetOpaque: the lists are cut off as they are.
MutResetOpaqueKeeps(o) == [o EXCEPT !.FieldIDtoThesaurusID = Nothing, !.len = 0]

\* Reset: thesaurusAddrs stays.
ResetOpaque(o) ==
  [o EXCEPT !.FieldIDtoThesaurusID = Nothing,
            !.Synonyms = [k \in DOMAIN @ |-> IF k <= o.len THEN {} ELSE @[k]],
            !.len = 0]

-----------------------------------------------------------------------------
\* What createAndCacheLOCKED takes for the number of synonyms: if the map was
\* not written, the number behind it, fieldNotUninverted, which is -1 as an int.
NumSyns(t) ==
  IF DOMAIN t.synTermMap = {} THEN -1 ELSE Cardinality(DOMAIN t.synTermMap)

Loads(t) == NumSyns(t) # 0 /\ \A id \in DOMAIN t.synTermMap : t.synTermMap[id] # 0

\* The codes of a term that the iterator passes; the others are dropped.
Codes(t, term, except) ==
  IF t = Nothing \/ term \notin DOMAIN t.fst THEN {}
  ELSE {c \in t.fst[term] : c[2] \notin except}

\* SynonymsIterator.next fails on an ID without a term.
Fails(t, codes) == \E c \in codes : c[1] \notin DOMAIN t.synTermMap

\* The synonyms of a term and the documents that have them.
Hits(t, term, except) ==
  {<<t.synTermMap[c[1]], c[2]>> : c \in Codes(t, term, except)}

Thesaurus(i, f) ==
  IF thesauri[i] = Nothing \/ f \notin DOMAIN thesauri[i] THEN Nothing ELSE thesauri[i][f]

-----------------------------------------------------------------------------
SynonymsStart ==
  /\ thesauri = [i \in Itrs |-> Nothing] /\ so = NewOpaque
  /\ synPc = "build" /\ thesField = Nothing
  /\ synRoaring = {} /\ synTodo = {} /\ synPrev = NoKey /\ synTerms = <<>>
  /\ newFst = <<>> /\ merged = <<>>

SynonymInputs ==
  batches \in {f \in [Itrs -> UNION {SynBatches[i] : i \in Itrs}] :
                 \A i \in Itrs : f[i] \in SynBatches[i]}

NoSynonyms == batches = [i \in Itrs |-> <<>>]

mergeSynVars == <<thesField, synRoaring, synTodo, synPrev, synTerms, newFst, merged>>

\* A segment is built: its batch is processed and persisted, the section's
\* addresses are fetched, and the opaque goes back to the pool.
BuildSegment ==
  /\ synPc = "build"
  /\ \E i \in {j \in Itrs : thesauri[j] = Nothing} :
       LET b == batches[i]
           o == IF b = <<>> THEN so ELSE writeThesauri(process(realloc(so, b), b), b)
       IN
       /\ thesauri' = [thesauri EXCEPT ![i] =
            [f \in BatchFields(b) |-> AddrForField(o, FieldID(BatchFields(b), f))]]
       /\ so' = ResetOpaque(o)
  /\ synPc' = IF \E i \in Itrs : thesauri'[i] = Nothing THEN "build" ELSE "field"
  /\ UNCHANGED <<itrVars, drops, batches, mergeSynVars>>

\* closeCh is looked at for each segment of a field and when the term changes.
SynonymsClosed ==
  /\ \/ synPc = "field"
     \/ synPc = "entry" /\ err = "none" /\ synPrev \notin {NoKey, lowK}
  /\ synPc' = "closed"
  /\ UNCHANGED <<itrVars, drops, batches, so, thesauri, mergeSynVars>>

NewSynFields == UNION {BatchFields(batches[i]) : i \in Itrs}

\* The next field: its thesauri are loaded; one without terms has no iterator,
\* and a field without iterators gets no thesaurus.
StartThesaurus ==
  /\ synPc = "field" /\ NewSynFields # DOMAIN merged
  /\ LET f    == Lowest(NewSynFields \ DOMAIN merged)
         thes == [i \in Itrs |-> Thesaurus(i, f)]
         ds   == [i \in Itrs |-> IF thes[i] = Nothing THEN {} ELSE DOMAIN thes[i].fst]
     IN
     IF \E i \in Itrs : thes[i] # Nothing /\ ~Loads(thes[i])
     THEN /\ synPc' = "failed"
          /\ UNCHANGED <<itrVars, mergeSynVars>>
     ELSE IF \A i \in Itrs : ds[i] = {}
     THEN /\ merged' = [g \in DOMAIN merged \cup {f} |->
                          IF g = f THEN Nothing ELSE merged[g]]
          /\ UNCHANGED <<itrVars, synPc, thesField, synRoaring, synTodo, synPrev,
                         synTerms, newFst>>
     ELSE /\ NewEnumerator(ds)
          /\ thesField' = f
          /\ synRoaring' = {} /\ synPrev' = NoKey /\ synTerms' = <<>> /\ newFst' = <<>>
          /\ synPc' = "entry"
          /\ UNCHANGED <<synTodo, merged>>
  /\ UNCHANGED <<drops, batches, so, thesauri>>

\* finishTerm: a term that has lost its synonyms is not inserted.
FinishSynTerm(term) ==
  /\ newFst' = IF synRoaring = {} THEN newFst
               ELSE [t \in DOMAIN newFst \cup {term} |->
                       IF t = term THEN synRoaring ELSE newFst[t]]
  /\ synRoaring' = {}

\* The head of the loop: prevTerm is nil at first, and after the empty term too.
BeginSynonyms ==
  /\ synPc = "entry" /\ err = "none"
  /\ IF synPrev # NoKey /\ synPrev # lowK THEN FinishSynTerm(synPrev)
     ELSE UNCHANGED <<newFst, synRoaring>>
  /\ synTodo' = Codes(Thesaurus(CurrentIdx, thesField), lowK, drops[CurrentIdx])
  /\ synPc' = IF Fails(Thesaurus(CurrentIdx, thesField), synTodo') THEN "failed" ELSE "codes"
  /\ UNCHANGED <<itrVars, drops, batches, so, thesauri, thesField, synPrev, synTerms, merged>>

\* One turn of the inner loop: a synonym gets an ID when it is met first.
AddSynonym ==
  /\ synPc = "codes" /\ synTodo # {}
  /\ LET c    == CHOOSE c \in synTodo : \A e \in synTodo \ {c} :
                   c[1] < e[1] \/ (c[1] = e[1] /\ c[2] < e[2])
         syn  == Thesaurus(CurrentIdx, thesField).synTermMap[c[1]]
     IN
     /\ synTodo' = synTodo \ {c}
     /\ IF c[2] \in drops[CurrentIdx]   \* "see hit with dropped docNum"
        THEN synPc' = "failed" /\ UNCHANGED <<synTerms, synRoaring>>
        ELSE /\ synTerms' = IF syn \in Members(synTerms) THEN synTerms
                            ELSE Append(synTerms, syn)
             /\ synRoaring' = synRoaring \cup
                  {<<Rank(synTerms', syn), NewNum(<<CurrentIdx, c[2]>>)>>}
             /\ UNCHANGED synPc
  /\ UNCHANGED <<itrVars, drops, batches, so, thesauri, thesField, synPrev, newFst, merged>>

\* The end of the loop body; a nil prevTerm to which nothing is appended is nil.
EndSynonyms ==
  /\ synPc = "codes" /\ synTodo = {}
  /\ synPrev' = IF lowK = 0 /\ synPrev = NoKey THEN NoKey ELSE lowK
  /\ Next
  /\ synPc' = IF err' = "error" THEN "failed" ELSE "entry"
  /\ UNCHANGED <<drops, batches, so, thesauri, thesField, synRoaring, synTodo, synTerms,
                 newFst, merged>>

\* After the loop: the last term, and the thesaurus goes to the file.
FinishThesaurus ==
  /\ synPc = "entry" /\ err = "done"
  /\ IF synPrev # NoKey THEN FinishSynTerm(synPrev) ELSE UNCHANGED <<newFst, synRoaring>>
  /\ merged' = [g \in DOMAIN merged \cup {thesField} |->
       IF g = thesField
       THEN [fst |-> newFst', synTermMap |-> [id \in 0..(Len(synTerms) - 1) |-> synTerms[id + 1]]]
       ELSE merged[g]]
  /\ synPc' = "field"
  /\ UNCHANGED <<itrVars, drops, batches, so, thesauri, thesField, synTodo, synPrev, synTerms>>

SynonymsNext ==
  \/ BuildSegment \/ SynonymsClosed \/ StartThesaurus \/ BeginSynonyms
  \/ AddSynonym \/ EndSynonyms \/ FinishThesaurus

-----------------------------------------------------------------------------
\* What the documents of a segment say are the synonyms of a term.
Said(i, f, term) ==
  UNION {Members(batches[i][k].syns) \X {batches[i][k].doc} :
    k \in {n \in DOMAIN batches[i] : batches[i][n].field = f /\ batches[i][n].term = term}}

SaidBySurvivors(f, term) ==
  {<<x[1], NewNum(<<x[2], x[3]>>)>> :
     x \in UNION {{<<h[1], i, h[2]>> : h \in {g \in Said(i, f, term) : g[2] \notin drops[i]}} :
                    i \in Itrs}}

Readable(t) ==
  t # Nothing => Loads(t) /\ \A term \in DOMAIN t.fst : ~Fails(t, t.fst[term])

FoundIn(t, term, except) == IF t = Nothing THEN {} ELSE Hits(t, term, except)

\* Whatever the opaque was used for before: the thesauri of a segment load, and
\* a term in them leads to the synonyms its documents name, those of the
\* documents in except left out; and when the thesauri of segments are merged
\* the new one leads to those of the documents that survive, under their new
\* numbers.  The merge fails for nothing but a dictionary that cannot be read.
ThesaurusExact ==
  /\ \A i \in Itrs : thesauri[i] # Nothing =>
       \A f \in BatchFields(batches[i]) : \A term \in Keys : \A except \in {{}, drops[i]} :
         /\ Readable(Thesaurus(i, f))
         /\ FoundIn(Thesaurus(i, f), term, except)
              = {h \in Said(i, f, term) : h[2] \notin except}
  /\ \A f \in DOMAIN merged : \A term \in Keys :
       /\ Readable(merged[f])
       /\ FoundIn(merged[f], term, {}) = SaidBySurvivors(f, term)
  /\ synPc = "failed" => err = "error"

\* "If the term changed, write out the info collected for the previous term":
\* what is collected while a term is read belongs to that term.
CollectsOneTerm ==
  synPc = "codes" =>
    {<<synTerms[c[1] + 1], c[2]>> : c \in synRoaring} \subseteq SaidBySurvivors(thesField, lowK)
=============================================================================
