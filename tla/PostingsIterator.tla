-------------------------- MODULE PostingsIterator --------------------------
(***************************************************************************)
(* The iterator over a postings list (posting.go) and the two chunk        *)
(* readers it keeps in step with the bitmaps: one for frequencies and      *)
(* norms, one for locations (intDecoder.go).                               *)
(*                                                                         *)
(* A reader stands for the documents of its chunk whose entries it has not *)
(* read; an entry is named by its document, so that reading the entry of   *)
(* another document shows.  Loops are steps: the caller waits.             *)
(***************************************************************************)
EXTENDS Integers

CONSTANTS
  MaxDoc,     \* bound: the documents are 0..MaxDoc
  ChunkSize,  \* postings.chunkSize
  None        \* no document

ASSUME IteratorAssumption ==
  /\ MaxDoc \in Nat /\ ChunkSize \in Nat \ {0}
  /\ None \notin Nat

Docs == 0..MaxDoc
ChunkOf(d) == d \div ChunkSize

VARIABLES
  kind,       \* "unused", "1hit", "clean" (Actual is all) or "dirty"
  postings,   \* the documents of the list
  located,    \* those that have locations
  withFreq,   \* includeFreqNorm
  withLocs,   \* includeLocs
  actual,     \* what Actual, or docNum1Hit, has to give
  all,        \* what the iterator `all' has to give
  currChunk,  \* currChunk
  isNil,      \* freqNormReader.isNil()
  freqRest,   \* entries left in freqNormReader
  locRest,    \* entries left in locReader
  pc,         \* the loop nextDocNumAtOrAfter is in, or "idle"
  want,       \* atOrAfter
  n,          \* n
  allN,       \* allN
  skips,      \* sameChunkNexts
  hit,        \* the document of the posting returned last, or None
  freqOf,     \* the document whose frequency and norm it has
  locsOf,     \* the document whose locations it has
  live,       \* history: the documents the caller has not been past
  due         \* history: the document the call has to return

list   == <<kind, postings, located, withFreq, withLocs>>
reader == <<currChunk, isNil, freqRest, locRest>>
found  == <<hit, freqOf, locsOf>>
ghosts == <<live, due>>
vars   == <<list, reader, found, ghosts, actual, all, pc, want, n, allN, skips>>

Least(S) == CHOOSE d \in S : \A e \in S : d <= e
LeastOrNone(S) == IF S = {} THEN None ELSE Least(S)
Rest(S) == {e \in S : \E d \in S : d < e}
From(S, d) == {e \in S : e >= d}
InChunk(S, c) == {d \in S : ChunkOf(d) = c}

TypeOK ==
  /\ kind \in {"unused", "1hit", "clean", "dirty"}
  /\ located \subseteq postings /\ postings \subseteq Docs
  /\ actual \subseteq postings /\ all \subseteq postings
  /\ withFreq \in BOOLEAN /\ withLocs \in BOOLEAN
  /\ currChunk \in Nat /\ isNil \in BOOLEAN
  /\ freqRest \subseteq Docs /\ locRest \subseteq Docs
  /\ pc \in {"idle", "seek", "skip", "align"}
  /\ want \in Docs /\ n \in Docs /\ allN \in Docs /\ skips \in Nat
  /\ {hit, freqOf, locsOf, due} \subseteq Docs \cup {None}
  /\ live \subseteq Docs

Init ==
  /\ kind = "unused"
  /\ postings = {} /\ located = {} /\ actual = {} /\ all = {} /\ live = {}
  /\ withFreq = FALSE /\ withLocs = FALSE
  /\ currChunk = 0 /\ isNil = TRUE /\ freqRest = {} /\ locRest = {}
  /\ pc = "idle" /\ want = 0 /\ n = 0 /\ allN = 0 /\ skips = 0
  /\ hit = None /\ freqOf = None /\ locsOf = None /\ due = None

-----------------------------------------------------------------------------
\* reset() of both readers, and the new struct.
Reset == currChunk' = 0 /\ isNil' = TRUE /\ freqRest' = {} /\ locRest' = {}

\* PostingsList.iterator, new or over one that was used before: `live' are the
\* documents of the list that are not in its except bitmap.
Open ==
  /\ kind = "unused"
  /\ kind' \in {"1hit", "clean", "dirty"}
  /\ postings' \in SUBSET Docs /\ postings' # {}
  /\ kind' = "1hit" => \A d, e \in postings' : d = e
  /\ live' \in SUBSET postings'
  /\ kind' = "clean" => live' = postings'
  /\ located' \in SUBSET IF kind' = "1hit" THEN {} ELSE postings'
  /\ withFreq' \in BOOLEAN /\ withLocs' \in BOOLEAN
  /\ withLocs' => withFreq'
  /\ actual' = live' /\ all' = postings'
  /\ Reset
  /\ UNCHANGED <<found, due, pc, want, n, allN, skips>>

\* ReplaceActual, by a caller that has intersected the actual bitmap with
\* others, before the first call.
ReplaceActual ==
  /\ kind \in {"clean", "dirty"} /\ pc = "idle"
  /\ hit = None /\ due = None /\ all = postings
  /\ actual' \in SUBSET actual /\ live' = actual'
  /\ kind' = "dirty"
  /\ UNCHANGED <<postings, located, withFreq, withLocs, reader, found, due,
                 all, pc, want, n, allN, skips>>

\* The iterator is given back as the prealloc of a later one; of all it holds,
\* only the readers live on.
Recycle ==
  /\ kind # "unused" /\ pc = "idle"
  /\ kind' = "unused"
  /\ postings' = {} /\ located' = {} /\ actual' = {} /\ all' = {} /\ live' = {}
  /\ withFreq' = FALSE /\ withLocs' = FALSE
  /\ want' = 0 /\ n' = 0 /\ allN' = 0 /\ skips' = 0
  /\ hit' = None /\ freqOf' = None /\ locsOf' = None /\ due' = None
  /\ UNCHANGED <<reader, pc>>

-----------------------------------------------------------------------------
\* The caller asks: the ghosts record what it must get.
Asked(d) ==
  /\ kind # "unused" /\ pc = "idle"
  /\ want' = d
  /\ due' = LeastOrNone(From(live, d))
  /\ live' = Rest(From(live, d))

NoHit == hit' = None /\ freqOf' = None /\ locsOf' = None /\ pc' = "idle"

\* nextDocNumAtOrAfter for a 1-hit list, consumed by the first call.
Call1Hit(d) ==
  /\ kind = "1hit" /\ Asked(d)
  /\ IF From(actual, d) = {} THEN NoHit
     ELSE /\ hit' = Least(actual)
          /\ freqOf' = IF withFreq THEN hit' ELSE None
          /\ locsOf' = None /\ pc' = "idle"
  /\ actual' = {}
  /\ UNCHANGED <<list, reader, all, n, allN, skips>>

\* Nothing left in Actual.
CallEmpty(d) ==
  /\ kind \in {"clean", "dirty"} /\ Asked(d)
  /\ actual = {}
  /\ NoHit
  /\ UNCHANGED <<list, reader, actual, all, n, allN, skips>>

\* nextDocNumAtOrAfterClean without frequencies.
CallBare(d) ==
  /\ kind = "clean" /\ ~withFreq /\ Asked(d)
  /\ actual # {}
  /\ IF From(actual, d) = {} THEN NoHit /\ actual' = {}
     ELSE /\ hit' = Least(From(actual, d)) /\ actual' = Rest(From(actual, d))
          /\ freqOf' = None /\ locsOf' = None /\ pc' = "idle"
  /\ all' = actual'
  /\ UNCHANGED <<list, reader, n, allN, skips>>

\* nextDocNumAtOrAfterClean with frequencies, up to its first loop.
CallClean(d) ==
  /\ kind = "clean" /\ withFreq /\ Asked(d)
  /\ actual # {}
  /\ n' = Least(actual) /\ actual' = Rest(actual) /\ all' = actual'
  /\ skips' = 0
  /\ pc' = "seek"
  /\ UNCHANGED <<list, reader, found, allN>>

\* nextDocNumAtOrAfter with deleted documents, up to its loop.
CallDirty(d) ==
  /\ kind = "dirty" /\ Asked(d)
  /\ actual # {}
  /\ IF From(actual, d) = {} \/ all = {}
     THEN NoHit /\ actual' = From(actual, d) /\ UNCHANGED <<n, allN, all>>
     ELSE /\ n' = Least(From(actual, d)) /\ actual' = Rest(From(actual, d))
          /\ allN' = Least(all) /\ all' = Rest(all)
          /\ pc' = "align"
          /\ UNCHANGED found
  /\ UNCHANGED <<list, reader, skips>>

Call(d) == Call1Hit(d) \/ CallEmpty(d) \/ CallBare(d) \/ CallClean(d) \/ CallDirty(d)

-----------------------------------------------------------------------------
\* The readers once chunk c is loaded, if it is not.
Loaded(c) ==
  IF currChunk # c \/ isNil
  THEN [freq |-> InChunk(postings, c),
        loc  |-> IF withLocs THEN InChunk(located, c) ELSE {}]
  ELSE [freq |-> freqRest, loc |-> locRest]

\* The entry that is next in the readers has locations, and they are wanted.
HasLocs(r) == withLocs /\ LeastOrNone(r.freq) \in located

\* The readers past that entry.
Past(r) == [freq |-> Rest(r.freq),
            loc  |-> IF HasLocs(r) THEN Rest(r.loc) ELSE r.loc]

ReadersAre(c, r) ==
  /\ currChunk' = c /\ isNil' = FALSE
  /\ freqRest' = r.freq /\ locRest' = r.loc

\* currChunkNext: the entry of a document that is passed over.
CurrChunkNext(c) == ReadersAre(c, Past(Loaded(c)))

\* Mutant of Seek: goes on past the document asked for.
MutSeekPast ==
  /\ pc = "seek" /\ n <= want /\ actual # {}
  /\ n' = Least(actual) /\ actual' = Rest(actual) /\ all' = actual'
  /\ skips' = IF ChunkOf(n') = ChunkOf(n) THEN skips + 1 ELSE 0
  /\ UNCHANGED <<list, reader, found, ghosts, pc, want, allN>>

\* Mutant of Seek: a step into another chunk counts as well.
MutSeekNoReset ==
  /\ pc = "seek" /\ n < want /\ actual # {}
  /\ n' = Least(actual) /\ actual' = Rest(actual) /\ all' = actual'
  /\ skips' = skips + 1
  /\ UNCHANGED <<list, reader, found, ghosts, pc, want, allN>>

\* The first loop of nextDocNumAtOrAfterClean: only the documents passed over
\* in the chunk of n are counted.
Seek ==
  /\ pc = "seek" /\ n < want /\ actual # {}
  /\ n' = Least(actual) /\ actual' = Rest(actual) /\ all' = actual'
  /\ skips' = IF ChunkOf(n') = ChunkOf(n) THEN skips + 1 ELSE 0
  /\ UNCHANGED <<list, reader, found, ghosts, pc, want, allN>>

SeekEnd ==
  /\ pc = "seek" /\ n < want /\ actual = {}
  /\ NoHit
  /\ UNCHANGED <<list, reader, ghosts, actual, all, want, n, allN, skips>>

SeekDone ==
  /\ pc = "seek" /\ n >= want
  /\ pc' = "skip"
  /\ UNCHANGED <<list, reader, found, ghosts, actual, all, want, n, allN, skips>>

\* Mutant of Skip: one entry too many is passed over.
MutSkipOnceMore ==
  /\ pc = "skip" /\ skips >= 0
  /\ CurrChunkNext(ChunkOf(n))
  /\ skips' = skips - 1
  /\ UNCHANGED <<list, found, ghosts, actual, all, pc, want, n, allN>>

\* Its second loop.
Skip ==
  /\ pc = "skip" /\ skips > 0
  /\ CurrChunkNext(ChunkOf(n))
  /\ skips' = skips - 1
  /\ UNCHANGED <<list, found, ghosts, actual, all, pc, want, n, allN>>

\* The loop of nextDocNumAtOrAfter: `all' catches up with n, and with it the
\* readers once it is in the chunk of n.  It does not run out before n: the run
\* would deadlock here.
Align ==
  /\ pc = "align" /\ allN # n /\ all # {}
  /\ IF withFreq /\ allN >= ChunkOf(n) * ChunkSize
     THEN CurrChunkNext(ChunkOf(n)) ELSE UNCHANGED reader
  /\ allN' = Least(all) /\ all' = Rest(all)
  /\ UNCHANGED <<list, found, ghosts, actual, pc, want, n, skips>>

\* n is found: load its chunk, if it is not, and read its entry (nextAtOrAfter,
\* and nextBytes, which takes the entry as bytes).
Deliver ==
  LET r == Loaded(ChunkOf(n)) IN
  /\ \/ pc = "skip" /\ skips = 0
     \/ pc = "align" /\ allN = n
  /\ hit' = n
  /\ IF withFreq
     THEN /\ freqOf' = LeastOrNone(r.freq)
          /\ locsOf' = IF HasLocs(r) THEN LeastOrNone(r.loc) ELSE None
          /\ ReadersAre(ChunkOf(n), Past(r))
     ELSE freqOf' = None /\ locsOf' = None /\ UNCHANGED reader
  /\ pc' = "idle"
  /\ UNCHANGED <<list, ghosts, actual, all, want, n, allN, skips>>

Next ==
  \/ Open \/ ReplaceActual \/ Recycle
  \/ \E d \in Docs : Call(d)
  \/ Seek \/ SeekEnd \/ SeekDone \/ Skip \/ Align \/ Deliver

Spec == Init /\ [][Next]_vars

-----------------------------------------------------------------------------
\* posting.go:526-527: Advance returns the posting of the document asked for,
\* or of the next one that is not deleted, or nil at the end, whichever of the
\* three paths it takes; and no posting is returned twice.
AdvanceExact == pc = "idle" => hit = due

\* The frequency, norm and locations of a posting are those of its document:
\* however many postings were passed over, deleted, replaced or in chunks never
\* loaded, the readers stand at the entries of the document found.
OwnEntry ==
  pc = "idle" /\ hit # None =>
    /\ freqOf = IF withFreq THEN hit ELSE None
    /\ locsOf = IF withLocs /\ hit \in located THEN hit ELSE None
=============================================================================
