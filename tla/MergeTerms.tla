----------------------------- MODULE MergeTerms -----------------------------
(***************************************************************************)
(* The merge of the dictionaries and postings of a field                   *)
(* (mergeAndPersistInvertedSection, section_inverted_text_index.go; the    *)
(* term functions and writePostings of merge.go), over the enumerator and  *)
(* with the two coders that serve term after term, field after field.      *)
(*                                                                         *)
(* The iterators are those of the segments, which are numbered like them.  *)
(* The source of an entry is <<segment, document>>; its norm is known by   *)
(* its source.  A document has at most one location of a term, in the      *)
(* field itself or, in a composite one, in another.  The postings of a     *)
(* term are chosen when the enumerator arrives at it: nothing looks at     *)
(* them before.  The iterator over them is module PostingsIterator, and    *)
(* the new document numbers are those of module MergeDocs.                 *)
(***************************************************************************)
EXTENDS MergeInput, Sequences, IntCoder

CONSTANTS
  Plans,    \* what mergeToWriter hands over: fields and chunk mode
  Freqs,    \* bound: frequencies of a term in a document
  LocFields \* bound: fields a location may be in

NoField == -1

ASSUME MergeTermsAssumption ==
  /\ Freqs \subseteq Nat /\ LocFields \subseteq Nat
  /\ \A p \in Plans :
       /\ p.mode \in {"legacy", "1025", "1026"}
       /\ p.terms \subseteq Keys              \* bound: terms of a dictionary
       /\ p.fields \in [Itrs -> SUBSET Nat]   \* the fields of each segment
       /\ p.newFields \subseteq Nat           \* those of the new segment
       /\ IsFiniteSet(p.newFields)
       /\ p.updated \in BOOLEAN               \* updatedFields is not empty
       /\ ~p.updated => p.newFields = UNION {p.fields[i] : i \in Itrs}
       \* bound: no location is in a field that is deleted
       /\ \A i \in Itrs : LocFields \cap p.fields[i] \subseteq p.newFields
  /\ \A i \in Itrs :
       \A f \in [Docs(i) -> [freq : Freqs, at : {NoField} \cup LocFields] \cup {Nothing}] :
         f # Nothing

VARIABLES
  plan,     \* a member of Plans
  lists,    \* the postings of the term that is merged, for each segment
  todo,     \* postings of the current iterator the loop has not reached
  pc,       \* "field", "entry", "begin", "postings" or "failed"
  prevTerm, \* prevTerm
  tf,       \* tfEncoder
  loc,      \* locEncoder
  roar,     \* newRoaring
  last,     \* lastDocNum, lastFreq, lastNorm
  fst,      \* terms in the new dictionary of the field
  written,  \* what finishTerm wrote, and the postings it stands for
  alive     \* history: the terms that have had a posting to keep

coders    == <<tf, loc>>
fixed     == <<plan, drops>>
dictVars  == <<fst, written, alive>>
mergeVars == <<itrVars, fixed, coders, dictVars, lists, todo, pc, prevTerm, roar, last>>

-----------------------------------------------------------------------------
\* A posting: its frequency and the field of its location.
Postings(i) ==
  {x \in [freq : Freqs, at : {NoField} \cup (LocFields \cap plan.fields[i])] :
     x.freq = 0 => x.at = NoField}

\* The lists a dictionary entry may lead to: none is empty.
PostingsLists(i) ==
  {f \in [Docs(i) -> Postings(i) \cup {Nothing}] : \E d \in Docs(i) : f[d] # Nothing}

\* What the drops leave of a list.
Surviving(list, i) == {d \in Docs(i) : list[d] # Nothing /\ d \notin drops[i]}
Kept(ls) == {p \in Survivors : ls[p[1]] # Nothing /\ ls[p[1]][p[2]] # Nothing}

\* fieldsInv of the new segment; NoField stands for an index out of range.
FieldOf(id) ==
  IF \E f \in plan.newFields : FieldID(plan.newFields, f) = id
  THEN CHOOSE f \in plan.newFields : FieldID(plan.newFields, f) = id
  ELSE NoField

\* fieldsSame, and no mapping changed: bytes may be copied.
Copying == ~plan.updated /\ \A i, j \in Itrs : plan.fields[i] = plan.fields[j]

\* The ID a location is written with: copied, or translated.
NewFieldID(i, f) == IF Copying THEN FieldID(plan.fields[i], f)
                               ELSE FieldID(plan.newFields, f)

-----------------------------------------------------------------------------
\* InitOpaque and what mergeAndPersistInvertedSection makes before its loop.
MergeStart ==
  /\ tf = newChunkedIntCoder(Unit, NewDocCount - 1) /\ loc = tf
  /\ lists = [i \in Itrs |-> Nothing] /\ todo = {}
  /\ pc = "field"
  /\ prevTerm = NoKey /\ roar = {}
  /\ last = [doc |-> 0, freq |-> 0, norm |-> Nothing]
  /\ fst = {} /\ written = Nothing /\ alive = {}

TermInputs == plan \in Plans

NoTerms == plan = CHOOSE p \in Plans : TRUE

\* The next field: the iterators of its dictionaries, and an empty builder.
StartField ==
  /\ pc = "field"
  /\ \E ds \in [Itrs -> SUBSET plan.terms] : NewEnumerator(ds)
  /\ prevTerm' = NoKey
  /\ roar' = {}
  /\ last' = [doc |-> 0, freq |-> 0, norm |-> Nothing]
  /\ fst' = {} /\ written' = Nothing /\ alive' = {}
  /\ pc' = "entry"
  /\ UNCHANGED <<fixed, coders, lists, todo>>

-----------------------------------------------------------------------------
\* A term as bytes: nil and the empty term are equal.
Bytes(term) == IF term = NoKey THEN 0 ELSE term
TermChanged == Bytes(prevTerm) # lowK

\* use1HitEncoding, after the coders are closed.
use1HitEncoding ==
  /\ Cardinality(roar) = 1
  /\ Close(loc).final = <<>>
  /\ roar = {last.doc}
  /\ last.freq = 1

\* writePostings.
Value ==
  IF use1HitEncoding
  THEN [oneHit |-> TRUE, doc |-> last.doc, norm |-> last.norm]
  ELSE [oneHit |-> FALSE, docs |-> roar,
        tf |-> Written(Close(tf)), loc |-> Written(Close(loc))]

\* Mutant of Finished: the coder is closed, and reset only if it was written.
MutFinishedNoReset(c) == IF roar = {} THEN Close(c) ELSE Reset(AfterWrite(Close(c)))

\* A coder after finishTerm.
Finished(c) ==
  Reset(IF roar = {} \/ use1HitEncoding THEN Close(c) ELSE AfterWrite(Close(c)))

\* Mutant of finishTerm: a nil term is not inserted.
MutFinishTermNil(term) ==
  /\ IF roar = {} \/ term = NoKey THEN UNCHANGED <<fst, written>>
     ELSE /\ fst' = fst \cup {Bytes(term)}
          /\ written' = [value |-> Value, lists |-> lists]
  /\ tf' = Finished(tf) /\ loc' = Finished(loc)
  /\ roar' = {}
  /\ last' = [doc |-> 0, freq |-> 0, norm |-> Nothing]
  /\ lists' = [i \in Itrs |-> Nothing]

finishTerm(term) ==
  /\ IF roar = {} THEN UNCHANGED <<fst, written>>
     ELSE /\ fst' = fst \cup {Bytes(term)}
          /\ written' = [value |-> Value, lists |-> lists]
  /\ tf' = Finished(tf) /\ loc' = Finished(loc)
  /\ roar' = {}
  /\ last' = [doc |-> 0, freq |-> 0, norm |-> Nothing]
  /\ lists' = [i \in Itrs |-> Nothing]

\* The head of the loop: another term than the last one.
FinishPrevTerm ==
  /\ pc = "entry" /\ err = "none" /\ TermChanged
  /\ finishTerm(prevTerm)
  /\ pc' = "begin"
  /\ UNCHANGED <<itrVars, fixed, todo, prevTerm, alive>>

\* The postings of the iterator are up; a term gets its chunk size first, and
\* the empty term for each iterator, as prevTerm stays nil.
BeginPostings ==
  LET sized == pc = "begin" \/ prevTerm = NoKey
      size  == getChunkSize(plan.mode, Cardinality(Kept(lists')), NewDocCount)
  IN
  /\ \/ pc = "begin"
     \/ pc = "entry" /\ err = "none" /\ ~TermChanged
  /\ IF lowCurr = 0
     THEN lists' \in {f \in [Itrs -> UNION {PostingsLists(i) : i \in Itrs} \cup {Nothing}] :
                        \A i \in Itrs : IF i \in lowIdxs THEN f[i] \in PostingsLists(i)
                                                         ELSE f[i] = Nothing}
     ELSE UNCHANGED lists
  /\ alive' = IF Kept(lists') = {} THEN alive ELSE alive \cup {lowK}
  /\ written' = Nothing
  /\ todo' = Surviving(lists'[CurrentIdx], CurrentIdx)
  /\ last' = [doc |-> 0, freq |-> 0, norm |-> Nothing]
  /\ IF sized /\ size > 0
     THEN /\ tf' = SetChunkSize(tf, size, NewDocCount - 1)
          /\ loc' = SetChunkSize(loc, size, NewDocCount - 1)
     ELSE UNCHANGED coders
  /\ pc' = IF sized /\ size = 0 THEN "failed" ELSE "postings"
  /\ UNCHANGED <<itrVars, fixed, prevTerm, roar, fst>>

\* One turn of mergeTermFreqNormLocs or mergeTermFreqNormLocsByCopying.
AddPosting ==
  LET i   == CurrentIdx
      d   == Lowest(todo)
      x   == lists[i][d]
      n   == NewNum(<<i, d>>)
      src == IF x.freq > 0 THEN <<i, d>> ELSE Nothing
  IN
  /\ pc = "postings" /\ todo # {}
  /\ todo' = todo \ {d}
  /\ roar' = roar \cup {n}
  /\ tf' = Add(tf, n, [freq |-> x.freq, norm |-> src, hasLocs |-> x.at # NoField])
  /\ loc' = IF x.at = NoField THEN loc
            ELSE Add(loc, n, [src |-> <<i, d>>, field |-> NewFieldID(i, x.at)])
  /\ last' = [doc |-> n, freq |-> x.freq, norm |-> src]
  /\ UNCHANGED <<itrVars, fixed, dictVars, lists, pc, prevTerm>>

\* The end of the loop body, with the call of enumerator.Next.
EndPostings ==
  /\ pc = "postings" /\ todo = {}
  /\ prevTerm' = IF lowK = 0 /\ prevTerm = NoKey THEN NoKey ELSE lowK
  /\ Next
  /\ pc' = IF err' = "error" THEN "failed" ELSE "entry"
  /\ UNCHANGED <<fixed, coders, dictVars, lists, todo, roar, last>>

\* After the loop: the last term, and the dictionary goes to the file.
FinishField ==
  /\ pc = "entry" /\ err = "done"
  /\ finishTerm(prevTerm)
  /\ pc' = "field"
  /\ UNCHANGED <<itrVars, fixed, todo, prevTerm, alive>>

MergeNext ==
  \/ StartField \/ FinishPrevTerm \/ BeginPostings \/ AddPosting
  \/ EndPostings \/ FinishField

-----------------------------------------------------------------------------
\* How a reader of the new segment takes a value apart: the chunk size from the
\* number of postings (posting.go:306), the entry by its rank in the chunk.
ReadChunkSize(docs) == getChunkSize(plan.mode, Cardinality(docs), NewDocCount)
Before(S, n) == {m \in S : m < n /\ m \div ReadChunkSize(S) = n \div ReadChunkSize(S)}

FreqEntry(v, n) ==
  Chunk(v.tf, n \div ReadChunkSize(v.docs))[Cardinality(Before(v.docs, n)) + 1]
LocEntry(v, n) ==
  Chunk(v.loc, n \div ReadChunkSize(v.docs))
    [Cardinality({m \in Before(v.docs, n) : FreqEntry(v, m).hasLocs}) + 1]

Decoded(v) ==
  IF v.oneHit
  THEN {[doc |-> v.doc, freq |-> 1, norm |-> v.norm, locOf |-> Nothing, at |-> NoField]}
  ELSE {LET e == FreqEntry(v, n)
        IN  [doc   |-> n,
             freq  |-> e.freq,
             norm  |-> e.norm,
             locOf |-> IF e.hasLocs THEN LocEntry(v, n).src ELSE Nothing,
             at    |-> IF e.hasLocs THEN FieldOf(LocEntry(v, n).field) ELSE NoField] :
          n \in v.docs}

\* The chunks and entries Decoded looks at are there.
Found(coder, docs, located) ==
  \A n \in located :
    LET chunk == n \div ReadChunkSize(docs) IN
    /\ HasChunk(coder, chunk)
    /\ Cardinality(located \cap Before(docs, n)) < Len(Chunk(coder, chunk))

ChunksThere(v) ==
  v.oneHit \/
    /\ Found(v.tf, v.docs, v.docs)
    /\ Found(v.loc, v.docs, {n \in v.docs : FreqEntry(v, n).hasLocs})

\* Whatever was merged with the two coders before, by whichever path and into
\* whichever encoding: a term of the new segment leads to the postings that the
\* drops leave of the old ones, under their new numbers, each with its own
\* frequency, norm and location.
TermReadable ==
  written # Nothing =>
    /\ ChunksThere(written.value)
    /\ Decoded(written.value) =
         {LET x == written.lists[p[1]][p[2]]
          IN  [doc   |-> NewNum(p),
               freq  |-> x.freq,
               norm  |-> IF x.freq > 0 THEN p ELSE Nothing,
               locOf |-> IF x.at = NoField THEN Nothing ELSE p,
               at    |-> x.at] :
            p \in Kept(written.lists)}

\* The dictionary of a field has the terms that have a posting left, the empty
\* term, which prevTerm does not tell from nil, among them.
DictionaryExact == pc = "field" => fst = alive

\* Close never writes beyond the chunk lengths, and nothing but a dictionary
\* that cannot be read makes the merge fail.
MergeSound == tf.sound /\ loc.sound /\ (pc = "failed" => err = "error")
=============================================================================
