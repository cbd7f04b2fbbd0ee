----------------------------- MODULE ContentCoder -----------------------------
(***************************************************************************)
(* The chunked content coder (contentcoder.go) and the reader of a field's *)
(* doc values (docValueReader, docvalues.go).                              *)
(*                                                                         *)
(* A term takes one unit of a chunk.  A chunk is the number of its         *)
(* documents, a MetaData for each, and their terms; compressing the terms  *)
(* changes nothing here, except that no chunk that was written is empty.   *)
(***************************************************************************)
EXTENDS Integers, Sequences, FiniteSets

CONSTANTS
  Unit,    \* what 1024 stands for
  NoChunk  \* math.MaxUint64, the number of no chunk

Ints == INSTANCE IntCoder

NumChunks(chunkSize, maxDocNum) == Ints!NumChunks(chunkSize, maxDocNum)

newChunkedContentCoder(chunkSize, maxDocNum, progressiveWrite) ==
  [chunkSize |-> chunkSize, progressiveWrite |-> progressiveWrite,
   currChunk |-> 0, chunkLens |-> [i \in 0..(NumChunks(chunkSize, maxDocNum) - 1) |-> 0],
   chunkMeta |-> <<>>, chunkBuf |-> <<>>, final |-> <<>>, w |-> <<>>]

flushContents(c) ==
  LET chunk == <<[numDocs |-> Len(c.chunkMeta)]>> \o c.chunkMeta \o c.chunkBuf
      final == c.final \o chunk
  IN  [c EXCEPT !.chunkLens[c.currChunk] = Len(chunk),
                !.w     = IF c.progressiveWrite THEN @ \o final ELSE @,
                !.final = IF c.progressiveWrite THEN <<>> ELSE final]

Add(c, docNum, terms) ==
  LET chunk == docNum \div c.chunkSize
      d     == IF chunk = c.currChunk THEN c
               ELSE [flushContents(c) EXCEPT !.chunkBuf = <<>>, !.chunkMeta = <<>>,
                                             !.currChunk = chunk]
  IN  [d EXCEPT !.chunkBuf  = @ \o terms,
                !.chunkMeta = Append(@, [docNum |-> docNum, end |-> Len(d.chunkBuf \o terms)])]

Close(c) == flushContents(c)

\* Write: what the file holds of the field.
Written(c) ==
  [data    |-> c.w \o c.final,
   offsets |-> Ints!modifyLengthsToEndOffsets(c.chunkLens, Cardinality(DOMAIN c.chunkLens))]

-----------------------------------------------------------------------------
loadFieldDocValueReader(written) ==
  [written |-> written, curChunkNum |-> NoChunk,
   curChunkHeader |-> <<>>, curChunkData |-> <<>>, uncompressed |-> <<>>]

cloneInto(di) ==
  [di EXCEPT !.curChunkNum = NoChunk, !.curChunkHeader = <<>>,
             !.curChunkData = <<>>, !.uncompressed = <<>>]

readChunkBoundary(chunk, offsets) ==
  [start |-> IF chunk > 0 THEN offsets[chunk - 1] ELSE 0, end |-> offsets[chunk]]

\* Mutant of loadDvChunk: the terms of the last chunk stay decoded.
MutLoadKeepsUncompressed(di, chunk) ==
  LET at   == readChunkBoundary(chunk, di.written.offsets)
      mem  == di.written.data
      docs == mem[at.start + 1].numDocs
  IN  IF at.start >= at.end
      THEN [di EXCEPT !.curChunkNum = chunk, !.curChunkHeader = <<>>, !.curChunkData = <<>>]
      ELSE [di EXCEPT !.curChunkNum = chunk,
              !.curChunkHeader = SubSeq(mem, at.start + 2, at.start + 1 + docs),
              !.curChunkData   = SubSeq(mem, at.start + 2 + docs, at.end)]

loadDvChunk(di, chunk) ==
  LET at   == readChunkBoundary(chunk, di.written.offsets)
      mem  == di.written.data
      docs == mem[at.start + 1].numDocs
  IN  IF at.start >= at.end
      THEN [di EXCEPT !.curChunkNum = chunk, !.curChunkHeader = <<>>,
                      !.curChunkData = <<>>, !.uncompressed = <<>>]
      ELSE [di EXCEPT !.curChunkNum = chunk,
              !.curChunkHeader = SubSeq(mem, at.start + 2, at.start + 1 + docs),
              !.curChunkData   = SubSeq(mem, at.start + 2 + docs, at.end),
              !.uncompressed   = <<>>]

\* ReadDocValueBoundary, for the i-th document of the header, from 1.
Boundary(header, i) ==
  [start |-> IF i > 1 THEN header[i - 1].end ELSE 0, end |-> header[i].end]

\* getDocValueLocs: the places of a document in the header, at most one.
Places(di, docNum) == {i \in DOMAIN di.curChunkHeader : di.curChunkHeader[i].docNum = docNum}

Terms(data, at) == SubSeq(data, at.start + 1, at.end)

\* visitDocValues: the reader after it, and the terms handed to the visitor.
visitDocValues(di, docNum) ==
  IF \A i \in Places(di, docNum) :
       Boundary(di.curChunkHeader, i).start = Boundary(di.curChunkHeader, i).end
  THEN [reader |-> di, terms |-> <<>>]
  ELSE LET i    == CHOOSE i \in Places(di, docNum) : TRUE
           data == IF di.uncompressed # <<>> THEN di.uncompressed ELSE di.curChunkData
       IN  [reader |-> [di EXCEPT !.uncompressed = data],
            terms  |-> Terms(data, Boundary(di.curChunkHeader, i))]

\* iterateAllDocValues: what the visitor gets, in order.  Every chunk is loaded
\* in turn, and decoded without a look at what was decoded before.
iterateAllDocValues(di) ==
  LET chunk(n) == loadDvChunk(di, n)
      got[n \in 0..Cardinality(DOMAIN di.written.offsets)] ==
        IF n = 0 THEN <<>>
        ELSE got[n - 1] \o
             [i \in DOMAIN chunk(n - 1).curChunkHeader |->
               [docNum |-> chunk(n - 1).curChunkHeader[i].docNum,
                terms  |-> Terms(chunk(n - 1).curChunkData,
                                 Boundary(chunk(n - 1).curChunkHeader, i))]]
  IN  got[Cardinality(DOMAIN di.written.offsets)]
=============================================================================
