----------------------- MODULE PostingsIterator_proofs -----------------------
(***************************************************************************)
(* Proofs about PostingsIterator: the iterator returns the postings of its *)
(* list that are not deleted, each with its own entry, for every number of *)
(* documents and every chunk size.                                         *)
(***************************************************************************)
EXTENDS PostingsIterator, FiniteSets, FiniteSetTheorems, WellFoundedInduction, TLAPS

After(d) == {e \in postings : e > d}

\* The readers, once at chunk c, have the entries of the documents of S left.
ReaderHas(S, c) ==
  /\ Loaded(c).freq = InChunk(S, c)
  /\ withLocs => Loaded(c).loc = Loaded(c).freq \cap located

\* The documents whose bytes are behind the readers, in the chunk of n, are the
\* ones that were passed over and counted.
Counted ==
  LET r == Loaded(ChunkOf(n)) IN
  /\ r.freq \subseteq InChunk(postings, ChunkOf(n))
  /\ From(r.freq, n) = InChunk(From(postings, n), ChunkOf(n))
  /\ withLocs => r.loc = r.freq \cap located
  /\ skips = Cardinality({d \in r.freq : d < n})

\* Between calls, the readers are where `all' is, or not in use yet.
InStep ==
  \/ all = {}
  \/ isNil /\ all = postings
  \/ /\ ~isNil /\ n \in postings /\ all = After(n)
     /\ currChunk = ChunkOf(n)
     /\ freqRest = InChunk(all, currChunk)
     /\ withLocs => locRest = freqRest \cap located

\* The documents of a list end in what `all' has to give.
Upwards == \A d \in all, e \in postings : d <= e => e \in all

Flags ==
  /\ withLocs => withFreq
  /\ kind = "1hit" => located = {} /\ \A d, e \in postings : d = e
  /\ kind \in {"unused", "1hit"} => pc = "idle"
  /\ kind = "unused" => hit = None /\ freqOf = None /\ locsOf = None /\ due = None

IdleInv ==
  pc = "idle" =>
    /\ AdvanceExact /\ OwnEntry
    /\ live = actual
    /\ kind \in {"clean", "dirty"} =>
         /\ actual \subseteq all /\ Upwards
         /\ kind = "clean" => all = actual
         /\ withFreq => InStep

SeekInv ==
  pc \in {"seek", "skip"} =>
    /\ kind = "clean" /\ withFreq /\ all = actual
    /\ n \in postings /\ actual = After(n)
    /\ ~isNil => currChunk <= ChunkOf(n)
    /\ Counted
    /\ pc = "seek" => /\ due = LeastOrNone(From({n} \cup actual, want))
                      /\ live = Rest(From({n} \cup actual, want))
    /\ pc = "skip" => due = n /\ live = actual

AlignInv ==
  pc = "align" =>
    /\ kind = "dirty" /\ n \in postings /\ allN \in postings /\ allN <= n
    /\ all = After(allN) /\ actual \subseteq After(n)
    /\ due = n /\ live = actual
    /\ withFreq => ReaderHas(From(postings, allN), ChunkOf(n))

IInv == TypeOK /\ Flags /\ IdleInv /\ SeekInv /\ AlignInv

-----------------------------------------------------------------------------
\* Documents and their chunks: the only facts about division that are used.
LEMMA DocsNat == Docs \subseteq Nat
  BY IteratorAssumption DEF Docs

LEMMA ChunkNat == \A d \in Docs : ChunkOf(d) \in Nat
  <1>1. \A d \in Nat : d \div ChunkSize \in Nat
    BY IteratorAssumption
  <1> QED BY <1>1, DocsNat DEF ChunkOf

LEMMA ChunkMono == \A d, e \in Docs : d <= e => ChunkOf(d) <= ChunkOf(e)
  <1>1. ASSUME NEW d \in Nat, NEW e \in Nat, NEW c \in Nat \ {0}, d <= e
        PROVE  d \div c <= e \div c
    BY <1>1
  <1> QED BY <1>1, DocsNat, IteratorAssumption DEF ChunkOf

LEMMA ChunkStart ==
  \A d, e \in Docs : d >= ChunkOf(e) * ChunkSize <=> ChunkOf(d) >= ChunkOf(e)
  <1>1. ASSUME NEW d \in Nat, NEW e \in Nat, NEW c \in Nat \ {0}
        PROVE  d >= (e \div c) * c <=> d \div c >= e \div c
    OBVIOUS
  <1> QED BY <1>1, DocsNat, IteratorAssumption DEF ChunkOf

\* Every set of documents but the empty one has a least one.
LEMMA LeastExists ==
  ASSUME NEW S \in SUBSET Docs, S # {}
  PROVE  \E d \in S : \A e \in S : d <= e
  <1>1. PICK d \in S : \A e \in S : ~(<<e, d>> \in OpToRel(<, Nat))
    BY WFMin, NatLessThanWellFounded, DocsNat
  <1>2. \A e \in S : ~(e < d)
    BY <1>1, DocsNat DEF OpToRel
  <1> QED BY <1>2, DocsNat

LEMMA LeastFact ==
  ASSUME NEW S \in SUBSET Docs, S # {}
  PROVE  Least(S) \in S /\ \A e \in S : Least(S) <= e
  BY LeastExists DEF Least

LEMMA LeastIs ==
  ASSUME NEW S \in SUBSET Docs, NEW d \in S, \A e \in S : d <= e
  PROVE  S # {} /\ Least(S) = d /\ LeastOrNone(S) = d
  <1>1. S # {}
    OBVIOUS
  <1>2. Least(S) \in S /\ Least(S) <= d /\ d <= Least(S)
    BY <1>1, LeastFact
  <1>3. Least(S) = d
    <2>1. Least(S) \in Nat /\ d \in Nat
      BY <1>2, DocsNat
    <2> QED BY <1>2, <2>1
  <1> QED BY <1>1, <1>3 DEF LeastOrNone

LEMMA RestIs ==
  ASSUME NEW S \in SUBSET Docs, S # {}
  PROVE  Rest(S) = {e \in S : e > Least(S)} /\ S = {Least(S)} \cup Rest(S)
  <1>1. PICK m \in S : m = Least(S) /\ \A e \in S : m <= e
    BY LeastFact
  <1>2. S \subseteq Nat
    BY DocsNat
  <1>3. \A e \in S : e \in Rest(S) <=> e > m
    BY <1>1, <1>2 DEF Rest
  <1>4. \A e \in S : e = m \/ e > m
    BY <1>1, <1>2
  <1>5. Rest(S) \subseteq S
    BY DEF Rest
  <1> QED BY <1>1, <1>3, <1>4, <1>5

-----------------------------------------------------------------------------
\* What the readers give.
LEMMA LoadedType ==
  ASSUME TypeOK, NEW c
  PROVE  Loaded(c).freq \subseteq Docs /\ Loaded(c).loc \subseteq Docs
  BY DEF TypeOK, Loaded, InChunk

LEMMA LoadedNext ==
  ASSUME NEW c, NEW r, ReadersAre(c, r)
  PROVE  Loaded(c)'.freq = r.freq /\ Loaded(c)'.loc = r.loc
  BY DEF ReadersAre, Loaded

\* An entry that is read takes its locations with it.
LEMMA PastEntry ==
  ASSUME NEW r, r.freq \in SUBSET Docs, r.freq # {}, withLocs \in BOOLEAN,
         withLocs => r.loc = r.freq \cap located
  PROVE  /\ Past(r).freq = Rest(r.freq)
         /\ withLocs => Past(r).loc = Rest(r.freq) \cap located
  <1>1. Past(r).freq = Rest(r.freq)
    BY DEF Past
  <1>2. ASSUME withLocs PROVE Past(r).loc = Rest(r.freq) \cap located
    <2>1. PICK m \in r.freq : m = Least(r.freq) /\ \A e \in r.freq : m <= e
      BY LeastFact
    <2>2. LeastOrNone(r.freq) = m
      BY <2>1 DEF LeastOrNone
    <2>3. Rest(r.freq) = {e \in r.freq : e > m}
      BY <2>1, RestIs
    <2>4. r.freq \subseteq Nat
      BY DocsNat
    <2>5. CASE m \in located
      <3>1. Past(r).loc = Rest(r.loc)
        BY <1>2, <2>2, <2>5 DEF Past, HasLocs
      <3>2. m \in r.loc /\ \A e \in r.loc : m <= e
        BY <1>2, <2>1, <2>5
      <3>3. r.loc \in SUBSET Docs /\ r.loc # {} /\ Least(r.loc) = m
        BY <1>2, <3>2, LeastIs
      <3>4. Rest(r.loc) = {e \in r.loc : e > m}
        BY <3>3, RestIs
      <3> QED BY <1>2, <2>3, <3>1, <3>4
    <2>6. CASE m \notin located
      <3>1. Past(r).loc = r.loc
        BY <1>2, <2>2, <2>6 DEF Past, HasLocs
      <3>2. \A e \in r.freq : e \in located => e > m
        BY <2>1, <2>4, <2>6
      <3> QED BY <1>2, <2>3, <3>1, <3>2
    <2> QED BY <2>5, <2>6
  <1> QED BY <1>1, <1>2

LEMMA DocsFinite == ASSUME NEW S \in SUBSET Docs PROVE IsFiniteSet(S)
  <1>1. IsFiniteSet(Docs)
    BY FS_Interval, IteratorAssumption DEF Docs
  <1> QED BY <1>1, FS_Subset

\* One turn of the second loop: an entry before that of n is read.
LEMMA SkipCounted ==
  ASSUME TypeOK, Counted, n \in postings, skips > 0,
         CurrChunkNext(ChunkOf(n)), skips' = skips - 1,
         UNCHANGED <<list, n>>
  PROVE  Counted' /\ (~isNil => currChunk <= ChunkOf(n))'
  <1> DEFINE c == ChunkOf(n)
             r == Loaded(c)
             passed == {d \in r.freq : d < n}
  <1>1. r.freq \in SUBSET Docs /\ n \in Docs /\ withLocs \in BOOLEAN
    BY LoadedType DEF TypeOK
  <1>2. IsFiniteSet(passed) /\ Cardinality(passed) = skips
    BY <1>1, DocsFinite DEF Counted
  <1>0. r.freq \subseteq Nat /\ n \in Nat
    BY <1>1, DocsNat
  <1>3. passed # {}
    BY <1>2, FS_EmptySet
  <1>4. PICK m \in r.freq : m = Least(r.freq) /\ \A e \in r.freq : m <= e
    BY <1>1, <1>3, LeastFact
  <1>5. m < n /\ m \in passed
    <2>1. PICK k \in r.freq : k < n
      BY <1>3
    <2>2. m <= k /\ m \in Nat /\ k \in Nat
      BY <1>0, <1>4
    <2> QED BY <1>0, <2>1, <2>2
  <1>6. Rest(r.freq) = r.freq \ {m}
    <2>1. Rest(r.freq) = {e \in r.freq : e > m}
      BY <1>1, <1>4, RestIs
    <2>2. \A e \in r.freq : e > m <=> e # m
      BY <1>0, <1>4
    <2> QED BY <2>1, <2>2
  <1>7. /\ Loaded(c)'.freq = Rest(r.freq)
        /\ withLocs => Loaded(c)'.loc = Rest(r.freq) \cap located
    <2>1. /\ Past(r).freq = Rest(r.freq)
          /\ withLocs => Past(r).loc = Rest(r.freq) \cap located
      BY <1>1, <1>4, PastEntry DEF Counted
    <2>2. Loaded(c)'.freq = Past(r).freq /\ Loaded(c)'.loc = Past(r).loc
      BY LoadedNext DEF CurrChunkNext
    <2> QED BY <2>1, <2>2
  <1>8. Cardinality({d \in Rest(r.freq) : d < n}) = skips - 1
    <2>1. {d \in Rest(r.freq) : d < n} = passed \ {m}
      BY <1>6
    <2>2. Cardinality(passed \ {m}) = Cardinality(passed) - 1
      BY <1>2, <1>5, FS_RemoveElement
    <2> QED BY <1>2, <2>1, <2>2
  <1>9. From(Rest(r.freq), n) = From(r.freq, n)
    BY <1>1, <1>5, <1>6, DocsNat DEF From
  <1>10. UNCHANGED <<postings, located, withLocs>> /\ ChunkOf(n)' = c
    BY DEF list
  <1>11. Counted'
    BY <1>6, <1>7, <1>8, <1>9, <1>10 DEF Counted, From, InChunk
  <1>12. currChunk' = ChunkOf(n)'
    BY <1>10 DEF CurrChunkNext, ReadersAre
  <1> QED BY <1>1, <1>10, <1>11, <1>12, ChunkNat

\* At the end of that loop the entry of n is next.
LEMMA SkippedAll ==
  ASSUME TypeOK, Counted, n \in postings, skips = 0
  PROVE  ReaderHas(From(postings, n), ChunkOf(n))
  <1> DEFINE r == Loaded(ChunkOf(n))
             passed == {d \in r.freq : d < n}
  <1>1. r.freq \in SUBSET Docs /\ n \in Docs
    BY LoadedType DEF TypeOK
  <1>2. passed = {}
    BY <1>1, DocsFinite, FS_EmptySet DEF Counted
  <1>3. r.freq = From(r.freq, n)
    <2>1. \A d \in r.freq : d \in Nat /\ ~(d < n)
      BY <1>1, <1>2, DocsNat
    <2>2. \A d \in r.freq : d >= n
      BY <1>1, <2>1, DocsNat
    <2> QED BY <2>2 DEF From
  <1> QED BY <1>3 DEF Counted, ReaderHas

\* Deliver reads the entry of n, and leaves the readers in step.
LEMMA DeliverReads ==
  ASSUME TypeOK, Deliver, withFreq, n \in postings, all = After(n),
         ReaderHas(From(postings, n), ChunkOf(n))
  PROVE  freqOf' = n /\ locsOf' = (IF withLocs /\ n \in located THEN n ELSE None)
         /\ InStep'
  <1> DEFINE c == ChunkOf(n)
             r == Loaded(c)
  <1>1. r.freq = InChunk(From(postings, n), c) /\ r.freq \in SUBSET Docs /\ n \in Docs
    BY LoadedType DEF ReaderHas, TypeOK
  <1>2. n \in r.freq /\ \A e \in r.freq : n <= e
    BY <1>1, DocsNat DEF InChunk, From
  <1>3. LeastOrNone(r.freq) = n /\ Least(r.freq) = n /\ r.freq # {}
    BY <1>1, <1>2, LeastIs
  <1>4. Rest(r.freq) = InChunk(After(n), c)
    <2>1. Rest(r.freq) = {e \in r.freq : e > n}
      BY <1>1, <1>3, RestIs
    <2>2. n \in Nat /\ \A e \in postings : e \in Nat
      BY DocsNat DEF TypeOK
    <2>3. \A e \in postings : e > n => e >= n
      BY <2>2
    <2>4. r.freq = {e \in postings : e >= n /\ ChunkOf(e) = c}
      BY <1>1 DEF InChunk, From
    <2>5. InChunk(After(n), c) = {e \in postings : e > n /\ ChunkOf(e) = c}
      BY DEF InChunk, After
    <2> HIDE DEF r
    <2> QED BY <2>1, <2>3, <2>4, <2>5
  <1>5. /\ Past(r).freq = Rest(r.freq)
        /\ withLocs => Past(r).loc = Rest(r.freq) \cap located
    BY <1>1, <1>3, PastEntry DEF ReaderHas, TypeOK
  <1>6. freqOf' = n /\ locsOf' = (IF withLocs /\ n \in located THEN n ELSE None)
    <2>1. freqOf' = n /\ locsOf' = IF HasLocs(r) THEN LeastOrNone(r.loc) ELSE None
      BY <1>3 DEF Deliver
    <2>2. HasLocs(r) <=> withLocs /\ n \in located
      BY <1>3 DEF HasLocs
    <2>3. ASSUME withLocs, n \in located PROVE LeastOrNone(r.loc) = n
      <3>1. r.loc \in SUBSET Docs /\ n \in r.loc /\ \A e \in r.loc : n <= e
        BY <1>1, <1>2, <2>3 DEF ReaderHas
      <3> QED BY <3>1, LeastIs
    <2> QED BY <2>1, <2>2, <2>3
  <1>7. /\ currChunk' = c /\ isNil' = FALSE
        /\ freqRest' = Past(r).freq /\ locRest' = Past(r).loc
    BY DEF Deliver, ReadersAre
  <1>8. /\ UNCHANGED <<postings, located, withLocs, all, n>>
        /\ After(n)' = After(n) /\ ChunkOf(n)' = c
    BY DEF Deliver, list, After
  <1>9. InStep'
    <2>1. freqRest' = InChunk(all, currChunk)'
      BY <1>4, <1>5, <1>7, <1>8 DEF InChunk
    <2>2. withLocs' => locRest' = freqRest' \cap located'
      BY <1>5, <1>7, <1>8
    <2> QED BY <1>7, <1>8, <2>1, <2>2 DEF InStep
  <1> QED BY <1>6, <1>9

-----------------------------------------------------------------------------
\* What `all' has to give begins with its least document.
LEMMA UpFrom ==
  ASSUME TypeOK, Upwards, all # {}
  PROVE  /\ Least(all) \in all /\ From(postings, Least(all)) = all
         /\ Rest(all) = After(Least(all)) /\ all = {Least(all)} \cup Rest(all)
  <1>1. PICK m \in all : m = Least(all) /\ \A e \in all : m <= e
    BY LeastFact DEF TypeOK
  <1>2. all \subseteq postings /\ postings \subseteq Nat /\ all \in SUBSET Docs
    BY DocsNat DEF TypeOK
  <1>3. \A e \in postings : e \in all <=> e >= m
    BY <1>1, <1>2 DEF Upwards
  <1>4. Rest(all) = {e \in all : e > m} /\ all = {m} \cup Rest(all)
    BY <1>1, <1>2, RestIs
  <1>5. From(postings, m) = all
    BY <1>2, <1>3 DEF From
  <1>6. \A e \in postings : e > m => e \in all
    BY <1>1, <1>2, <1>3
  <1>7. Rest(all) = After(m)
    BY <1>2, <1>4, <1>6 DEF After
  <1> QED BY <1>1, <1>4, <1>5, <1>7

\* Whichever document comes next, the readers have what is left of its chunk.
LEMMA EnterChunk ==
  ASSUME TypeOK, InStep, NEW m \in all
  PROVE  ReaderHas(all, ChunkOf(m)) /\ (~isNil => currChunk <= ChunkOf(m))
  <1> DEFINE c == ChunkOf(m)
  <1>1. m \in Docs /\ located \subseteq postings /\ withLocs \in BOOLEAN /\ m \in Nat
        /\ all \subseteq postings /\ postings \subseteq Docs /\ postings \subseteq Nat
    BY DocsNat DEF TypeOK
  <1>2. CASE isNil /\ all = postings
    BY <1>1, <1>2 DEF ReaderHas, Loaded, InChunk
  <1>3. CASE ~(isNil /\ all = postings)
    <2>1. /\ ~isNil /\ n \in postings /\ all = After(n)
          /\ currChunk = ChunkOf(n)
          /\ freqRest = InChunk(all, currChunk)
          /\ withLocs => locRest = freqRest \cap located
      BY <1>3 DEF InStep
    <2>2. n < m /\ n \in Nat
      BY <1>1, <2>1 DEF After
    <2>3. currChunk <= c /\ currChunk \in Nat /\ c \in Nat
      BY <1>1, <2>1, <2>2, ChunkMono, ChunkNat
    <2>4. CASE currChunk = c
      BY <2>1, <2>3, <2>4 DEF ReaderHas, Loaded
    <2>5. CASE currChunk # c
      <3>1. ASSUME NEW e \in postings, ChunkOf(e) = c
            PROVE  e \in all
        <4>1. SUFFICES ASSUME ~(e > n) PROVE FALSE
          BY <2>1 DEF After
        <4>2. e <= n /\ e \in Docs /\ n \in Docs
          BY <1>1, <2>1, <4>1
        <4>3. c <= currChunk
          BY <2>1, <3>1, <4>2, ChunkMono
        <4> QED BY <2>3, <2>5, <4>3
      <3>2. InChunk(postings, c) = InChunk(all, c)
        BY <1>1, <3>1 DEF InChunk
      <3>3. Loaded(c).freq = InChunk(postings, c)
            /\ (withLocs => Loaded(c).loc = InChunk(located, c))
        BY <2>5 DEF Loaded
      <3>4. InChunk(located, c) = InChunk(postings, c) \cap located
        BY <1>1 DEF InChunk
      <3> QED BY <2>3, <3>2, <3>3, <3>4 DEF ReaderHas
    <2> QED BY <2>3, <2>4, <2>5
  <1> QED BY <1>2, <1>3

\* The count of the first loop, at its start.
LEMMA CountedAtStart ==
  ASSUME TypeOK, NEW m \in postings, ReaderHas(From(postings, m), ChunkOf(m))
  PROVE  LET r == Loaded(ChunkOf(m)) IN
         /\ r.freq \subseteq InChunk(postings, ChunkOf(m))
         /\ From(r.freq, m) = InChunk(From(postings, m), ChunkOf(m))
         /\ withLocs => r.loc = r.freq \cap located
         /\ Cardinality({d \in r.freq : d < m}) = 0
  <1> DEFINE r == Loaded(ChunkOf(m))
  <1>1. r.freq = InChunk(From(postings, m), ChunkOf(m))
    BY DEF ReaderHas
  <1>2. r.freq \subseteq InChunk(postings, ChunkOf(m))
    BY <1>1 DEF InChunk, From
  <1>3. \A d \in r.freq : d \in Nat /\ d >= m
    BY <1>1, DocsNat DEF InChunk, From, TypeOK
  <1>4. m \in Nat
    BY DocsNat DEF TypeOK
  <1>5. From(r.freq, m) = r.freq
    BY <1>3 DEF From
  <1>6. {d \in r.freq : d < m} = {}
    BY <1>3, <1>4
  <1> QED BY <1>1, <1>2, <1>5, <1>6, FS_EmptySet DEF ReaderHas

\* One turn of the first loop.
LEMMA SeekCounted ==
  ASSUME TypeOK, Counted, Upwards, n \in postings, all = actual, actual = After(n),
         ~isNil => currChunk <= ChunkOf(n), Seek
  PROVE  Counted' /\ (~isNil => currChunk <= ChunkOf(n))'
         /\ n' \in postings /\ actual' = After(n)'
  <1> DEFINE c == ChunkOf(n)
             r == Loaded(c)
  <1>1. PICK m \in actual : n' = m /\ m = Least(actual) /\ (\A e \in actual : m <= e)
                            /\ actual' = After(m)
    BY UpFrom, LeastFact DEF Seek, TypeOK
  <1>2. UNCHANGED <<postings, located, withLocs, currChunk, isNil, freqRest, locRest>>
    BY DEF Seek, list, reader
  <1>3. \A S : Loaded(S)' = Loaded(S)
    BY <1>2 DEF Loaded, InChunk
  <1>4. /\ postings \subseteq Docs /\ postings \subseteq Nat /\ n \in Docs /\ n \in Nat
        /\ m \in postings /\ m \in Docs /\ m \in Nat /\ m > n
        /\ currChunk \in Nat /\ located \subseteq postings /\ withLocs \in BOOLEAN
        /\ skips \in Nat
    BY <1>1, DocsNat DEF After, TypeOK
  <1>5. \A e \in postings : e < m => e <= n
    <2>1. \A e \in postings : e > n => e >= m
      BY <1>1, <1>4 DEF After
    <2> QED BY <1>4, <2>1
  <1>6. n' = m /\ ChunkOf(n)' = ChunkOf(m) /\ c \in Nat /\ ChunkOf(m) \in Nat /\ c <= ChunkOf(m)
    BY <1>1, <1>4, ChunkNat, ChunkMono
  <1>7. n' \in postings /\ actual' = After(n)'
    BY <1>1, <1>2, <1>4 DEF After
  <1>8. (~isNil => currChunk <= ChunkOf(n))'
    BY <1>2, <1>4, <1>6
  <1>9. CASE ChunkOf(m) = c
    <2>1. r.freq \subseteq InChunk(postings, c) /\ From(r.freq, n) = InChunk(From(postings, n), c)
          /\ (withLocs => r.loc = r.freq \cap located)
          /\ skips = Cardinality({d \in r.freq : d < n})
      BY DEF Counted
    <2>2. r.freq \subseteq postings /\ r.freq \in SUBSET Docs
      BY <1>4, <2>1 DEF InChunk
    <2>3. n \in r.freq
      <3>1. n \in InChunk(From(postings, n), c)
        BY <1>4 DEF InChunk, From
      <3> QED BY <2>1, <3>1 DEF From
    <2>4. From(r.freq, m) = InChunk(From(postings, m), c)
      <3>1. \A e \in postings : e >= m => e >= n
        BY <1>4
      <3>2. \A e \in postings : e >= m => (e \in r.freq <=> ChunkOf(e) = c)
        BY <2>1, <2>2, <3>1 DEF InChunk, From
      <3> HIDE DEF r
      <3> QED BY <2>2, <3>2 DEF InChunk, From
    <2>5. {d \in r.freq : d < m} = {d \in r.freq : d < n} \cup {n}
      <3>1. \A d \in r.freq : d < m <=> d < n \/ d = n
        BY <1>4, <1>5, <2>2
      <3> HIDE DEF r
      <3> QED BY <2>3, <3>1
    <2>6. Cardinality({d \in r.freq : d < m}) = skips + 1
      <3>1. IsFiniteSet({d \in r.freq : d < n}) /\ n \notin {d \in r.freq : d < n}
        BY <1>4, <2>2, DocsFinite
      <3> HIDE DEF r
      <3> QED BY <2>1, <2>5, <3>1, FS_AddElement
    <2>7. skips' = skips + 1
      BY <1>6, <1>9 DEF Seek
    <2>8. Loaded(ChunkOf(n))' = r
      BY <1>3, <1>6, <1>9
    <2>9. Counted'
      BY <1>2, <1>6, <1>9, <2>1, <2>4, <2>6, <2>7, <2>8 DEF Counted, From, InChunk
    <2> QED BY <1>7, <1>8, <2>9
  <1>10. CASE ChunkOf(m) # c
    <2> DEFINE k == ChunkOf(m)
    <2>1. currChunk # k \/ isNil
      BY <1>4, <1>6, <1>10
    <2>2. Loaded(k).freq = InChunk(postings, k) /\ (withLocs => Loaded(k).loc = InChunk(located, k))
      BY <2>1 DEF Loaded
    <2>3. \A e \in postings : ChunkOf(e) = k => e >= m
      <3>1. SUFFICES ASSUME NEW e \in postings, ChunkOf(e) = k, ~(e >= m) PROVE FALSE
        OBVIOUS
      <3>2. e <= n /\ e \in Docs
        BY <1>4, <1>5, <3>1
      <3>3. k <= c
        BY <1>4, <3>1, <3>2, ChunkMono
      <3> QED BY <1>6, <1>10, <3>3
    <2>4. ReaderHas(From(postings, m), k)
      <3>1. InChunk(postings, k) = InChunk(From(postings, m), k)
        BY <2>3 DEF InChunk, From
      <3>2. InChunk(located, k) = InChunk(postings, k) \cap located
        BY <1>4 DEF InChunk
      <3> QED BY <2>2, <3>1, <3>2 DEF ReaderHas
    <2>5. skips' = 0
      BY <1>6, <1>10 DEF Seek
    <2>6. Loaded(ChunkOf(n))' = Loaded(k)
      BY <1>3, <1>6
    <2>7. Counted'
      BY <1>2, <1>4, <1>6, <2>4, <2>5, <2>6, CountedAtStart DEF Counted, From, InChunk
    <2> QED BY <1>7, <1>8, <2>7
  <1> QED BY <1>9, <1>10

\* One turn of the loop of the other path.
LEMMA AlignReads ==
  ASSUME TypeOK, Align, withFreq, n \in postings, allN \in postings, allN <= n,
         all = After(allN), ReaderHas(From(postings, allN), ChunkOf(n))
  PROVE  ReaderHas(From(postings, allN), ChunkOf(n))'
  <1> DEFINE c == ChunkOf(n)
             r == Loaded(c)
  <1>1. PICK m \in all : allN' = m /\ m = Least(all) /\ \A e \in all : m <= e
    BY LeastFact DEF Align, TypeOK
  <1>2. /\ postings \subseteq Docs /\ postings \subseteq Nat /\ n \in Docs /\ allN \in Docs
        /\ allN \in Nat /\ n \in Nat /\ m \in postings /\ m \in Nat /\ allN < m
        /\ withLocs \in BOOLEAN
    BY <1>1, DocsNat DEF TypeOK, After
  <1>3. \A e \in postings : e >= m <=> e > allN
    BY <1>1, <1>2 DEF After
  <1>4. UNCHANGED <<postings, located, withLocs, n>> /\ ChunkOf(n)' = c
    BY DEF Align, list
  <1>5. r.freq = InChunk(From(postings, allN), c) /\ (withLocs => r.loc = r.freq \cap located)
        /\ r.freq \in SUBSET Docs
    BY LoadedType DEF ReaderHas
  <1>6. CASE allN >= ChunkOf(n) * ChunkSize
    <2>1. ChunkOf(allN) = c
      <3>1. ChunkOf(allN) >= c /\ ChunkOf(allN) <= c
        BY <1>2, <1>6, ChunkStart, ChunkMono
      <3> QED BY <1>2, <3>1, ChunkNat
    <2>2. allN \in r.freq /\ \A e \in r.freq : allN <= e
      BY <1>2, <1>5, <2>1 DEF InChunk, From
    <2>3. Least(r.freq) = allN /\ r.freq # {}
      BY <1>5, <2>2, LeastIs
    <2>4. Rest(r.freq) = {e \in r.freq : e > allN}
      BY <1>5, <2>3, RestIs
    <2>5. Rest(r.freq) = InChunk(From(postings, m), c)
      <3>1. \A e \in postings : e > allN => e >= allN
        BY <1>2
      <3> HIDE DEF r
      <3> QED BY <1>3, <1>5, <2>4, <3>1 DEF InChunk, From
    <2>6. /\ Past(r).freq = Rest(r.freq)
          /\ withLocs => Past(r).loc = Rest(r.freq) \cap located
      BY <1>2, <1>5, <2>3, PastEntry
    <2>7. Loaded(c)'.freq = Past(r).freq /\ Loaded(c)'.loc = Past(r).loc
      BY <1>6, LoadedNext DEF Align, CurrChunkNext
    <2> QED BY <1>1, <1>4, <2>5, <2>6, <2>7 DEF ReaderHas, InChunk, From
  <1>7. CASE ~(allN >= ChunkOf(n) * ChunkSize)
    <2>1. ChunkOf(allN) # c
      <3>1. ~(ChunkOf(allN) >= c)
        BY <1>2, <1>7, ChunkStart
      <3> QED BY <1>2, <3>1, ChunkNat
    <2>2. UNCHANGED <<currChunk, isNil, freqRest, locRest>>
      BY <1>7 DEF Align, reader
    <2>3. Loaded(c)' = r
      BY <1>4, <2>2 DEF Loaded, InChunk
    <2>4. InChunk(From(postings, allN), c) = InChunk(From(postings, m), c)
      <3>1. \A e \in postings : ChunkOf(e) = c => (e >= allN <=> e >= m)
        <4>1. \A e \in postings : e # allN => (e >= allN <=> e > allN)
          BY <1>2
        <4> QED BY <1>3, <2>1, <4>1
      <3> QED BY <3>1 DEF InChunk, From
    <2> QED BY <1>1, <1>4, <1>5, <2>3, <2>4 DEF ReaderHas, InChunk, From
  <1> QED BY <1>6, <1>7

-----------------------------------------------------------------------------
\* Every action preserves the types.
LEMMA LeastType ==
  ASSUME NEW S \in SUBSET Docs
  PROVE  /\ LeastOrNone(S) \in Docs \cup {None}
         /\ S # {} => Least(S) \in S /\ Least(S) \in Docs
         /\ Rest(S) \subseteq S
  BY LeastFact DEF LeastOrNone, Rest

LEMMA TypeInit == Init => TypeOK
  <1>1. 0 \in Docs
    BY IteratorAssumption DEF Docs
  <1>2. 0 \in Nat
    OBVIOUS
  <1>3. SUFFICES ASSUME Init PROVE TypeOK
    OBVIOUS
  <1>4. {hit, freqOf, locsOf, due} \subseteq Docs \cup {None}
    BY <1>3 DEF Init
  <1> QED BY <1>1, <1>2, <1>3, <1>4 DEF Init, TypeOK

LEMMA TypeCall ==
  ASSUME TypeOK, NEW d \in Docs, Call(d)
  PROVE  TypeOK'
  <1>1. From(live, d) \in SUBSET Docs /\ From(actual, d) \in SUBSET postings
        /\ From(actual, d) \in SUBSET Docs /\ actual \in SUBSET Docs /\ all \in SUBSET Docs
    BY DEF TypeOK, From
  <1>2. /\ LeastOrNone(From(live, d)) \in Docs \cup {None}
        /\ Rest(From(live, d)) \subseteq Docs
        /\ From(actual, d) # {} => Least(From(actual, d)) \in Docs
        /\ actual # {} => Least(actual) \in Docs
        /\ all # {} => Least(all) \in Docs
        /\ Rest(From(actual, d)) \subseteq postings
        /\ Rest(actual) \subseteq postings /\ Rest(all) \subseteq postings
    BY <1>1, LeastType DEF TypeOK
  <1>3. ASSUME Asked(d)
        PROVE  want' \in Docs /\ due' \in Docs \cup {None} /\ live' \subseteq Docs
    BY <1>2, <1>3 DEF Asked
  <1>4. CASE Call1Hit(d)
    <2>1. From(actual, d) # {} => actual # {}
      BY DEF From
    <2> QED BY <1>2, <1>3, <1>4, <2>1 DEF Call1Hit, TypeOK, NoHit, list, reader
  <1>5. CASE CallEmpty(d)
    BY <1>3, <1>5 DEF CallEmpty, TypeOK, NoHit, list, reader
  <1>6. CASE CallBare(d)
    BY <1>2, <1>3, <1>6 DEF CallBare, TypeOK, NoHit, list, reader
  <1>7. CASE CallClean(d)
    BY <1>2, <1>3, <1>7 DEF CallClean, TypeOK, list, reader, found
  <1>8. CASE CallDirty(d)
    <2>1. CASE From(actual, d) = {} \/ all = {}
      BY <1>1, <1>3, <1>8, <2>1 DEF CallDirty, TypeOK, NoHit, list, reader
    <2>2. CASE ~(From(actual, d) = {} \/ all = {})
      BY <1>2, <1>3, <1>8, <2>2 DEF CallDirty, TypeOK, list, reader, found
    <2> QED BY <2>1, <2>2
  <1> QED BY <1>4, <1>5, <1>6, <1>7, <1>8 DEF Call

LEMMA TypeOther ==
  ASSUME TypeOK, ~\E d \in Docs : Call(d), [Next]_vars
  PROVE  TypeOK'
  <1>0. actual \in SUBSET Docs /\ all \in SUBSET Docs
    BY DEF TypeOK
  <1>1. /\ actual # {} => Least(actual) \in Docs /\ Rest(actual) \subseteq actual
        /\ all # {} => Least(all) \in Docs /\ Rest(all) \subseteq all
    BY <1>0, LeastType
  <1>2. ASSUME NEW r, r.freq \in SUBSET Docs, r.loc \in SUBSET Docs
        PROVE  /\ Past(r).freq \subseteq Docs /\ Past(r).loc \subseteq Docs
               /\ LeastOrNone(r.freq) \in Docs \cup {None}
               /\ LeastOrNone(r.loc) \in Docs \cup {None}
    BY <1>2, LeastType DEF Past
  <1>3. ChunkOf(n) \in Nat /\ Loaded(ChunkOf(n)).freq \subseteq Docs
        /\ Loaded(ChunkOf(n)).loc \subseteq Docs
    BY ChunkNat, LoadedType DEF TypeOK
  <1>4. ASSUME CurrChunkNext(ChunkOf(n))
        PROVE  currChunk' \in Nat /\ isNil' \in BOOLEAN /\ freqRest' \subseteq Docs
               /\ locRest' \subseteq Docs
    BY <1>2, <1>3, <1>4 DEF CurrChunkNext, ReadersAre
  <1>5. CASE Open
    BY <1>5 DEF Open, Reset, TypeOK, found
  <1>6. CASE ReplaceActual
    BY <1>6 DEF ReplaceActual, TypeOK, found, reader
  <1>7. CASE Recycle
    <2>1. 0 \in Docs
      BY IteratorAssumption DEF Docs
    <2> QED BY <1>7, <2>1 DEF Recycle, TypeOK, reader
  <1>8. CASE Seek
    BY <1>1, <1>8 DEF Seek, TypeOK, list, reader, found, ghosts
  <1>9. CASE SeekEnd
    BY <1>9 DEF SeekEnd, NoHit, TypeOK, list, reader, ghosts
  <1>10. CASE SeekDone
    BY <1>10 DEF SeekDone, TypeOK, list, reader, found, ghosts
  <1>11. CASE Skip
    BY <1>4, <1>11 DEF Skip, TypeOK, list, found, ghosts
  <1>12. CASE Align
    <2>1. currChunk' \in Nat /\ isNil' \in BOOLEAN /\ freqRest' \subseteq Docs
          /\ locRest' \subseteq Docs
      BY <1>4, <1>12 DEF Align, reader, TypeOK
    <2> QED BY <1>1, <1>12, <2>1 DEF Align, TypeOK, list, found, ghosts
  <1>13. CASE Deliver
    <2>1. /\ currChunk' \in Nat /\ isNil' \in BOOLEAN /\ freqRest' \subseteq Docs
          /\ locRest' \subseteq Docs
          /\ freqOf' \in Docs \cup {None} /\ locsOf' \in Docs \cup {None}
      BY <1>2, <1>3, <1>13 DEF Deliver, ReadersAre, reader, TypeOK
    <2> QED BY <1>13, <2>1 DEF Deliver, TypeOK, list, ghosts
  <1>14. CASE UNCHANGED vars
    BY <1>14 DEF vars, TypeOK, list, reader, found, ghosts
  <1> QED BY <1>5, <1>6, <1>7, <1>8, <1>9, <1>10, <1>11, <1>12, <1>13, <1>14 DEF Next

-----------------------------------------------------------------------------
\* A call of the iterator preserves the invariant.
LEMMA CallKeeps ==
  ASSUME IInv, NEW d \in Docs, Call(d)
  PROVE  IInv'
  <1> DEFINE A == From(actual, d)
  <1>1. /\ TypeOK' /\ TypeOK /\ pc = "idle" /\ kind # "unused" /\ Asked(d) /\ want' = d
        /\ live = actual /\ UNCHANGED list
        /\ due' = LeastOrNone(A) /\ live' = Rest(A)
    <2>1. pc = "idle" /\ kind # "unused" /\ Asked(d) /\ UNCHANGED list
      BY DEF Call, Call1Hit, CallEmpty, CallBare, CallClean, CallDirty, Asked
    <2>2. TypeOK /\ live = actual
      BY <2>1 DEF IInv, IdleInv
    <2> QED BY <2>1, <2>2, TypeCall DEF Asked
  <1>2. /\ A \in SUBSET Docs /\ A \subseteq actual /\ actual \subseteq postings
        /\ postings \in SUBSET Docs /\ postings \subseteq Nat
    BY <1>1, DocsNat DEF TypeOK, From
  <1>3. Flags'
    <2>1. kind' # "unused" /\ kind' = kind /\ (kind = "1hit" => pc' = "idle")
      <3>1. kind = "1hit" => pc' = "idle"
        BY DEF Call, Call1Hit, CallEmpty, CallBare, CallClean, CallDirty, NoHit
      <3> QED BY <1>1, <3>1 DEF list
    <2> QED BY <1>1, <2>1 DEF IInv, Flags, list
  <1>4. CASE Call1Hit(d)
    <2>1. /\ kind' = "1hit" /\ pc' = "idle" /\ actual' = {} /\ located' = {}
          /\ UNCHANGED <<withFreq, withLocs>>
      BY <1>1, <1>4 DEF Call1Hit, NoHit, list, IInv, Flags
    <2>2. Rest(A) = {}
      <3>1. \A e, f \in A : e = f
        BY <1>2, <1>4 DEF Call1Hit, IInv, Flags
      <3>2. \A e \in Nat : ~(e < e)
        OBVIOUS
      <3>3. A \subseteq Nat
        BY <1>2
      <3> HIDE DEF A
      <3> QED BY <3>1, <3>2, <3>3 DEF Rest
    <2>3. CASE A = {}
      BY <1>1, <1>4, <2>1, <2>2, <2>3, <1>3
         DEF Call1Hit, NoHit, LeastOrNone, IInv, IdleInv, SeekInv, AlignInv, AdvanceExact, OwnEntry
    <2>4. CASE A # {}
      <3>1. A = actual
        BY <1>2, <1>4, <2>4 DEF Call1Hit, IInv, Flags
      <3>2. hit' = Least(A) /\ freqOf' = (IF withFreq THEN hit' ELSE None) /\ locsOf' = None
        BY <1>4, <2>4, <3>1 DEF Call1Hit
      <3>3. hit' = due'
        BY <1>1, <2>4, <3>2 DEF LeastOrNone
      <3>4. IdleInv'
        BY <1>1, <2>1, <2>2, <3>2, <3>3 DEF IdleInv, AdvanceExact, OwnEntry
      <3> QED BY <1>1, <1>3, <2>1, <3>4 DEF IInv, SeekInv, AlignInv
    <2> QED BY <2>3, <2>4
  <1>5. CASE CallEmpty(d)
    <2>1. A = {} /\ Rest(A) = {} /\ due' = None
      BY <1>1, <1>2, <1>5 DEF CallEmpty, LeastOrNone, Rest
    <2>2. UNCHANGED <<kind, postings, located, withFreq, withLocs, reader, actual, all, n>>
          /\ hit' = None /\ freqOf' = None /\ locsOf' = None /\ pc' = "idle"
      BY <1>5 DEF CallEmpty, NoHit, list
    <2>3. InStep' = InStep /\ Upwards' = Upwards
      BY <2>2 DEF InStep, Upwards, After, InChunk, reader
    <2>4. IdleInv'
      BY <1>1, <1>5, <2>1, <2>2, <2>3 DEF CallEmpty, IInv, IdleInv, AdvanceExact, OwnEntry
    <2> QED BY <1>1, <1>3, <2>2, <2>4 DEF IInv, SeekInv, AlignInv
  <1>6. CASE CallBare(d)
    <2>1. /\ all = actual /\ Upwards /\ all' = actual' /\ kind' = "clean" /\ pc' = "idle"
          /\ withFreq' = FALSE /\ withLocs' = FALSE /\ UNCHANGED postings
      BY <1>1, <1>6 DEF CallBare, NoHit, IInv, IdleInv, Flags, TypeOK, list
    <2>2. CASE A = {}
      <3>1. /\ hit' = None /\ freqOf' = None /\ locsOf' = None /\ due' = None
            /\ actual' = {} /\ Rest(A) = {}
        BY <1>1, <1>6, <2>2 DEF CallBare, NoHit, LeastOrNone, Rest
      <3>2. IdleInv'
        BY <1>1, <2>1, <3>1 DEF IdleInv, AdvanceExact, OwnEntry, Upwards
      <3> QED BY <1>1, <1>3, <2>1, <3>2 DEF IInv, SeekInv, AlignInv
    <2>3. CASE A # {}
      <3>1. /\ hit' = Least(A) /\ freqOf' = None /\ locsOf' = None /\ due' = Least(A)
            /\ actual' = Rest(A)
        BY <1>1, <1>6, <2>3 DEF CallBare, LeastOrNone
      <3>2. \A e \in Rest(A), f \in postings : e <= f => f \in Rest(A)
        <4>1. Rest(A) = {e \in A : e > Least(A)} /\ Least(A) \in A
          BY <1>2, <2>3, RestIs, LeastFact
        <4>2. \A e \in A, f \in postings : e <= f => f \in A
          BY <1>2, <2>1, DocsNat DEF Upwards, From
        <4>3. Least(A) \in Nat
          BY <1>2, <4>1
        <4> HIDE DEF A
        <4> SUFFICES ASSUME NEW e \in Rest(A), NEW f \in postings, e <= f
                     PROVE  f \in Rest(A)
          OBVIOUS
        <4>4. e \in A /\ e > Least(A) /\ e \in Nat /\ f \in Nat
          BY <1>2, <4>1
        <4>5. f \in A
          BY <4>2, <4>4
        <4>6. f > Least(A)
          BY <4>3, <4>4
        <4> QED BY <4>1, <4>5, <4>6
      <3>3. IdleInv'
        BY <1>1, <2>1, <3>1, <3>2 DEF IdleInv, AdvanceExact, OwnEntry, Upwards
      <3> QED BY <1>1, <1>3, <2>1, <3>3 DEF IInv, SeekInv, AlignInv
    <2> QED BY <2>2, <2>3
  <1>7. CASE CallClean(d)
    <2>1. /\ kind' = "clean" /\ withFreq' /\ withFreq /\ all = actual /\ Upwards /\ InStep
          /\ actual # {}
          /\ n' = Least(actual) /\ actual' = Rest(actual) /\ all' = actual' /\ skips' = 0
          /\ pc' = "seek" /\ UNCHANGED <<list, reader>>
      BY <1>1, <1>7 DEF CallClean, IInv, IdleInv, list
    <2>2. PICK m \in all : m = Least(all)
      BY <1>1, <2>1, UpFrom
    <2>3. /\ m \in postings /\ From(postings, m) = all /\ Rest(all) = After(m)
          /\ all = {m} \cup Rest(all)
      BY <1>1, <1>2, <2>1, <2>2, UpFrom
    <2>4. ReaderHas(all, ChunkOf(m)) /\ (~isNil => currChunk <= ChunkOf(m))
      BY <1>1, <2>1, <2>2, EnterChunk
    <2>5. LET r == Loaded(ChunkOf(m)) IN
          /\ r.freq \subseteq InChunk(postings, ChunkOf(m))
          /\ From(r.freq, m) = InChunk(From(postings, m), ChunkOf(m))
          /\ withLocs => r.loc = r.freq \cap located
          /\ Cardinality({e \in r.freq : e < m}) = 0
      BY <1>1, <2>3, <2>4, CountedAtStart
    <2>6. n' = m /\ UNCHANGED <<postings, located, withLocs, currChunk, isNil, freqRest, locRest>>
      BY <2>1, <2>2 DEF list, reader
    <2>7. Loaded(ChunkOf(n))' = Loaded(ChunkOf(m)) /\ ChunkOf(n)' = ChunkOf(m)
      BY <2>6 DEF Loaded, InChunk
    <2>8. Counted'
      BY <2>1, <2>5, <2>6, <2>7 DEF Counted, From, InChunk
    <2>9. actual' = After(n)' /\ {n'} \cup actual' = actual
      BY <2>1, <2>2, <2>3, <2>6 DEF After
    <2>10. due' = LeastOrNone(From({n} \cup actual, want))'
           /\ live' = Rest(From({n} \cup actual, want))'
      <3>1. From({n} \cup actual, want)' = A
        BY <1>1, <2>9 DEF From
      <3> QED BY <1>1, <3>1
    <2>11. SeekInv'
      BY <2>1, <2>3, <2>4, <2>6, <2>7, <2>8, <2>9, <2>10 DEF SeekInv
    <2> QED BY <1>1, <1>3, <2>1, <2>11 DEF IInv, IdleInv, AlignInv
  <1>8. CASE CallDirty(d)
    <2>1. /\ kind' = "dirty" /\ kind = "dirty" /\ UNCHANGED <<list, reader>>
          /\ actual \subseteq all /\ Upwards /\ (withFreq => InStep) /\ all # {} /\ actual # {}
      BY <1>1, <1>8 DEF CallDirty, IInv, IdleInv, list
    <2>2. UNCHANGED <<postings, located, withFreq, withLocs, currChunk, isNil, freqRest, locRest>>
      BY <2>1 DEF list, reader
    <2>3. CASE A = {}
      <3>1. /\ hit' = None /\ freqOf' = None /\ locsOf' = None /\ pc' = "idle"
            /\ actual' = {} /\ UNCHANGED <<n, all>> /\ due' = None /\ Rest(A) = {}
        BY <1>1, <1>8, <2>3 DEF CallDirty, NoHit, LeastOrNone, Rest
      <3>2. InStep' = InStep /\ Upwards' = Upwards
        BY <2>2, <3>1 DEF InStep, Upwards, After, InChunk
      <3>3. IdleInv'
        BY <1>1, <2>1, <2>2, <3>1, <3>2 DEF IdleInv, AdvanceExact, OwnEntry
      <3> QED BY <1>1, <1>3, <3>1, <3>3 DEF IInv, SeekInv, AlignInv
    <2>4. CASE A # {}
      <3>1. /\ n' = Least(A) /\ actual' = Rest(A) /\ allN' = Least(all) /\ all' = Rest(all)
            /\ pc' = "align" /\ due' = Least(A)
        BY <1>1, <1>8, <2>1, <2>4 DEF CallDirty, LeastOrNone
      <3>2. PICK k \in A : k = Least(A) /\ Rest(A) = {e \in A : e > k}
        BY <1>2, <2>4, LeastFact, RestIs
      <3>3. PICK m \in all : m = Least(all) /\ \A e \in all : m <= e
        BY <1>1, <2>1, LeastFact DEF TypeOK
      <3>4. From(postings, m) = all /\ Rest(all) = After(m)
        BY <1>1, <2>1, <3>3, UpFrom
      <3>5. k \in all /\ k \in postings /\ m \in postings /\ m <= k
        BY <1>1, <1>2, <2>1, <3>2, <3>3 DEF TypeOK
      <3>6. Rest(A) \subseteq After(k)
        BY <1>2, <3>2 DEF After
      <3>7. withFreq => ReaderHas(From(postings, m), ChunkOf(k))
        BY <1>1, <2>1, <3>4, <3>5, EnterChunk
      <3>8. n' = k /\ allN' = m /\ ChunkOf(n)' = ChunkOf(k) /\ Loaded(ChunkOf(n))' = Loaded(ChunkOf(k))
        BY <2>2, <3>1, <3>2, <3>3 DEF Loaded, InChunk
      <3>9. withFreq' => ReaderHas(From(postings, allN), ChunkOf(n))'
        BY <2>2, <3>7, <3>8 DEF ReaderHas, InChunk, From
      <3>10. AlignInv'
        BY <1>1, <2>1, <2>2, <3>1, <3>2, <3>4, <3>5, <3>6, <3>8, <3>9 DEF AlignInv, After
      <3> QED BY <1>1, <1>3, <3>1, <3>10 DEF IInv, IdleInv, SeekInv
    <2> QED BY <2>3, <2>4
  <1> QED BY <1>4, <1>5, <1>6, <1>7, <1>8 DEF Call

-----------------------------------------------------------------------------
\* What After(d) has is closed upwards.
LEMMA AfterUp ==
  ASSUME TypeOK, NEW d \in postings, all = After(d)
  PROVE  Upwards
  <1>1. postings \subseteq Nat
    BY DocsNat DEF TypeOK
  <1>2. \A e \in After(d), f \in postings : e <= f => f \in After(d)
    BY <1>1 DEF After
  <1> QED BY <1>2 DEF Upwards

\* The start, the replacement and the reuse of an iterator.
LEMMA BetweenKeeps ==
  ASSUME IInv, TypeOK', Open \/ ReplaceActual \/ Recycle
  PROVE  IInv'
  <1>1. CASE Open
    <2>1. /\ pc = "idle" /\ pc' = "idle" /\ hit' = None /\ freqOf' = None /\ locsOf' = None
          /\ due' = None /\ actual' = live' /\ all' = postings' /\ isNil' = TRUE
          /\ live' \subseteq postings'
      BY <1>1 DEF Open, Reset, IInv, Flags, found
    <2>2. Flags'
      BY <1>1, <2>1 DEF Open, Flags
    <2>3. IdleInv'
      BY <1>1, <2>1 DEF Open, IdleInv, AdvanceExact, OwnEntry, Upwards, InStep
    <2> QED BY <2>1, <2>2, <2>3 DEF IInv, SeekInv, AlignInv
  <1>2. CASE ReplaceActual
    <2>1. /\ pc = "idle" /\ pc' = "idle" /\ kind' = "dirty" /\ actual' \subseteq actual
          /\ live' = actual' /\ kind \in {"clean", "dirty"}
          /\ UNCHANGED <<postings, located, withFreq, withLocs, currChunk, isNil, freqRest,
                         locRest, hit, freqOf, locsOf, due, all, n>>
      BY <1>2 DEF ReplaceActual, reader, found
    <2>2. Flags'
      BY <2>1 DEF IInv, Flags
    <2>3. InStep' = InStep /\ Upwards' = Upwards
      BY <2>1 DEF InStep, Upwards, After, InChunk
    <2>4. AdvanceExact' /\ OwnEntry'
      BY <2>1 DEF IInv, IdleInv, AdvanceExact, OwnEntry
    <2>5. actual' \subseteq all' /\ Upwards' /\ (withFreq' => InStep')
      BY <2>1, <2>3 DEF IInv, IdleInv
    <2>6. IdleInv'
      BY <2>1, <2>4, <2>5 DEF IdleInv
    <2> QED BY <2>1, <2>2, <2>6 DEF IInv, SeekInv, AlignInv
  <1>3. CASE Recycle
    <2>1. /\ kind' = "unused" /\ pc' = "idle" /\ withLocs' = FALSE /\ live' = {} /\ actual' = {}
          /\ hit' = None /\ freqOf' = None /\ locsOf' = None /\ due' = None
      BY <1>3 DEF Recycle
    <2>2. Flags' /\ IdleInv'
      BY <2>1 DEF Flags, IdleInv, AdvanceExact, OwnEntry
    <2> QED BY <2>1, <2>2 DEF IInv, SeekInv, AlignInv
  <1> QED BY <1>1, <1>2, <1>3

\* The two loops of the path without deleted documents.
LEMMA SeekKeeps ==
  ASSUME IInv, TypeOK', Seek \/ SeekEnd \/ SeekDone \/ Skip
  PROVE  IInv'
  <1>0. TypeOK /\ pc \in {"seek", "skip"} /\ SeekInv /\ Flags
    BY DEF IInv, Seek, SeekEnd, SeekDone, Skip
  <1>1. /\ kind = "clean" /\ withFreq /\ all = actual /\ n \in postings /\ actual = After(n)
        /\ (~isNil => currChunk <= ChunkOf(n)) /\ Counted /\ Upwards
    BY <1>0, AfterUp DEF SeekInv
  <1>2. UNCHANGED <<kind, postings, located, withFreq, withLocs>>
    BY DEF Seek, SeekEnd, SeekDone, Skip, list
  <1>3. Flags'
    BY <1>0, <1>1, <1>2 DEF Flags
  <1>4. n \in Nat /\ want \in Nat /\ postings \subseteq Nat /\ actual \in SUBSET Docs
    BY <1>0, DocsNat DEF TypeOK
  <1>5. CASE Seek
    <2>1. /\ pc = "seek" /\ pc' = "seek" /\ all' = actual' /\ n < want /\ actual # {}
          /\ n' = Least(actual) /\ actual' = Rest(actual) /\ UNCHANGED <<live, due, want>>
      BY <1>5 DEF Seek, ghosts
    <2>2. Counted' /\ (~isNil => currChunk <= ChunkOf(n))' /\ n' \in postings'
          /\ actual' = After(n)'
      BY <1>0, <1>1, <1>2, <1>5, SeekCounted
    <2>3. {n'} \cup actual' = actual
      BY <1>4, <2>1, RestIs
    <2>4. From({n} \cup actual, want)' = From({n} \cup actual, want)
      BY <1>4, <2>1, <2>3 DEF From
    <2>5. SeekInv'
      BY <1>0, <1>1, <1>2, <2>1, <2>2, <2>4 DEF SeekInv
    <2> QED BY <1>3, <2>1, <2>5 DEF IInv, IdleInv, AlignInv
  <1>6. CASE SeekEnd
    <2>1. /\ pc = "seek" /\ pc' = "idle" /\ actual = {} /\ n < want
          /\ hit' = None /\ freqOf' = None /\ locsOf' = None
          /\ UNCHANGED <<live, due, actual, all>>
      BY <1>6 DEF SeekEnd, NoHit, ghosts
    <2>2. From({n} \cup actual, want) = {}
      BY <1>4, <2>1 DEF From
    <2>3. due = None /\ live = {}
      BY <1>0, <2>1, <2>2 DEF SeekInv, LeastOrNone, Rest
    <2>4. IdleInv'
      BY <1>1, <1>2, <2>1, <2>3 DEF IdleInv, AdvanceExact, OwnEntry, Upwards, InStep
    <2> QED BY <1>3, <2>1, <2>4 DEF IInv, SeekInv, AlignInv
  <1>7. CASE SeekDone
    <2>1. /\ pc = "seek" /\ pc' = "skip" /\ n >= want
          /\ UNCHANGED <<live, due, actual, all, n, skips, currChunk, isNil, freqRest, locRest>>
      BY <1>7 DEF SeekDone, ghosts, reader
    <2>2. \A e \in actual : e > n /\ e \in Nat
      BY <1>1, <1>4 DEF After
    <2>3. From({n} \cup actual, want) = {n} \cup actual
      BY <1>4, <2>1, <2>2 DEF From
    <2>4. {n} \cup actual \in SUBSET Docs
      BY <1>0 DEF TypeOK
    <2>5. LeastOrNone({n} \cup actual) = n
      <3>1. \A e \in {n} \cup actual : n <= e
        BY <1>4, <2>2
      <3> QED BY <2>4, <3>1, LeastIs
    <2>6. Rest({n} \cup actual) = actual
      <3>1. \A e \in {n} \cup actual : e \in Rest({n} \cup actual) <=> e # n
        BY <1>4, <2>2 DEF Rest
      <3>2. Rest({n} \cup actual) \subseteq {n} \cup actual
        BY DEF Rest
      <3>3. n \notin actual
        BY <1>4, <2>2
      <3> QED BY <3>1, <3>2, <3>3
    <2>7. due = n /\ live = actual
      BY <1>0, <2>1, <2>3, <2>5, <2>6 DEF SeekInv
    <2>8. Counted' = Counted /\ After(n)' = After(n) /\ ChunkOf(n)' = ChunkOf(n)
      BY <1>2, <2>1 DEF Counted, Loaded, InChunk, From, After
    <2>9. SeekInv'
      BY <1>1, <1>2, <2>1, <2>7, <2>8 DEF SeekInv
    <2> QED BY <1>3, <2>1, <2>9 DEF IInv, IdleInv, AlignInv
  <1>8. CASE Skip
    <2>1. /\ pc = "skip" /\ pc' = "skip" /\ UNCHANGED <<live, due, actual, all, n, list>>
          /\ skips > 0 /\ CurrChunkNext(ChunkOf(n)) /\ skips' = skips - 1
      BY <1>8 DEF Skip, ghosts
    <2>2. Counted' /\ (~isNil => currChunk <= ChunkOf(n))'
      BY <1>0, <1>1, <2>1, SkipCounted
    <2>3. SeekInv'
      BY <1>0, <1>1, <1>2, <2>1, <2>2 DEF SeekInv, After
    <2> QED BY <1>3, <2>1, <2>3 DEF IInv, IdleInv, AlignInv
  <1> QED BY <1>5, <1>6, <1>7, <1>8

\* The loop of the path with deleted documents.
LEMMA AlignKeeps ==
  ASSUME IInv, TypeOK', Align
  PROVE  IInv'
  <1>1. /\ TypeOK /\ Flags /\ AlignInv /\ pc = "align" /\ pc' = "align" /\ all # {}
        /\ allN # n /\ allN' = Least(all) /\ all' = Rest(all)
        /\ UNCHANGED <<list, actual, n, live, due>>
    BY DEF IInv, Align, ghosts
  <1>2. /\ kind = "dirty" /\ n \in postings /\ allN \in postings /\ allN <= n /\ all = After(allN)
        /\ actual \subseteq After(n) /\ due = n /\ live = actual
        /\ (withFreq => ReaderHas(From(postings, allN), ChunkOf(n))) /\ Upwards
    BY <1>1, AfterUp DEF AlignInv
  <1>3. /\ UNCHANGED <<kind, postings, located, withFreq, withLocs>>
        /\ n \in Nat /\ allN \in Nat /\ postings \subseteq Nat
    BY <1>1, <1>2, DocsNat DEF list, TypeOK
  <1>4. PICK m \in all : m = Least(all) /\ (\A e \in all : m <= e) /\ Rest(all) = After(m)
    BY <1>1, <1>2, LeastFact, UpFrom DEF TypeOK
  <1>5. n \in all
    BY <1>1, <1>2, <1>3 DEF After
  <1>6. allN' = m /\ m \in postings /\ m <= n
    BY <1>1, <1>2, <1>4, <1>5 DEF TypeOK
  <1>7. withFreq => ReaderHas(From(postings, allN), ChunkOf(n))'
    BY <1>1, <1>2, AlignReads
  <1>8. AlignInv'
    BY <1>1, <1>2, <1>3, <1>4, <1>6, <1>7 DEF AlignInv, After
  <1>9. Flags'
    BY <1>1, <1>2, <1>3 DEF Flags
  <1> QED BY <1>1, <1>8, <1>9 DEF IInv, IdleInv, SeekInv

\* The posting that is found.
LEMMA DeliverKeeps ==
  ASSUME IInv, TypeOK', Deliver
  PROVE  IInv'
  <1>1. /\ TypeOK /\ Flags /\ SeekInv /\ AlignInv /\ pc' = "idle" /\ hit' = n
        /\ UNCHANGED <<list, actual, all, n, live, due>>
    BY DEF IInv, Deliver, ghosts
  <1>2. UNCHANGED <<kind, postings, located, withFreq, withLocs>>
    BY <1>1 DEF list
  <1>3. /\ kind \in {"clean", "dirty"} /\ n \in postings /\ all = After(n) /\ due = n
        /\ live = actual /\ actual \subseteq all /\ (kind = "clean" => all = actual)
        /\ (withFreq => ReaderHas(From(postings, n), ChunkOf(n)))
    <2>1. CASE pc = "skip" /\ skips = 0
      BY <1>1, <2>1, SkippedAll DEF SeekInv
    <2>2. CASE pc = "align" /\ allN = n
      BY <1>1, <2>2 DEF AlignInv
    <2> QED BY <2>1, <2>2 DEF Deliver
  <1>4. Upwards' = Upwards /\ Upwards
    BY <1>1, <1>2, <1>3, AfterUp DEF Upwards
  <1>5. CASE withFreq
    <2>1. freqOf' = n /\ locsOf' = (IF withLocs /\ n \in located THEN n ELSE None) /\ InStep'
      BY <1>1, <1>3, <1>5, DeliverReads
    <2> QED BY <1>1, <1>2, <1>3, <1>4, <1>5, <2>1
            DEF IInv, Flags, IdleInv, SeekInv, AlignInv, AdvanceExact, OwnEntry
  <1>6. CASE ~withFreq
    <2>1. freqOf' = None /\ locsOf' = None /\ ~withLocs
      BY <1>1, <1>6 DEF Deliver, Flags
    <2> QED BY <1>1, <1>2, <1>3, <1>4, <1>6, <2>1
            DEF IInv, Flags, IdleInv, SeekInv, AlignInv, AdvanceExact, OwnEntry
  <1> QED BY <1>5, <1>6

\* The inductive invariant: between calls the readers stand where `all' stands,
\* or have not been used; within a call, as many entries are ahead of that of n
\* as the loops have still to pass over.
THEOREM Inductive == Spec => []IInv
  <1>1. Init => IInv
    BY TypeInit DEF Init, IInv, Flags, IdleInv, SeekInv, AlignInv, AdvanceExact, OwnEntry
  <1>2. IInv /\ [Next]_vars => IInv'
    <2> SUFFICES ASSUME IInv, [Next]_vars PROVE IInv'
      OBVIOUS
    <2>1. CASE \E d \in Docs : Call(d)
      BY <2>1, CallKeeps
    <2>2. CASE ~\E d \in Docs : Call(d)
      <3>1. TypeOK'
        BY <2>2, TypeOther DEF IInv
      <3>2. CASE UNCHANGED vars
        BY <3>2 DEF vars, list, reader, found, ghosts, IInv, TypeOK, Flags, IdleInv, SeekInv,
                    AlignInv, AdvanceExact, OwnEntry, Upwards, InStep, Counted, ReaderHas,
                    Loaded, InChunk, After, From
      <3>3. CASE Next
        BY <2>2, <3>1, <3>3, BetweenKeeps, SeekKeeps, AlignKeeps, DeliverKeeps DEF Next
      <3> QED BY <3>2, <3>3
    <2> QED BY <2>1, <2>2
  <1> QED BY <1>1, <1>2, PTL DEF Spec

\* The types of the iterator.
THEOREM IteratorTypes == Spec => []TypeOK
  <1>1. IInv => TypeOK
    BY DEF IInv
  <1> QED BY <1>1, Inductive, PTL

\* Advance returns the posting asked for, whichever path it takes.
THEOREM AdvanceAlwaysExact == Spec => []AdvanceExact
  <1>1. IInv => AdvanceExact
    BY DEF IInv, IdleInv, AdvanceExact
  <1> QED BY <1>1, Inductive, PTL

\* A posting never has the frequency, norm or locations of another document.
THEOREM EntryAlwaysOwn == Spec => []OwnEntry
  <1>1. IInv => OwnEntry
    BY DEF IInv, IdleInv, OwnEntry
  <1> QED BY <1>1, Inductive, PTL
=============================================================================
