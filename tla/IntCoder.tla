------------------------------ MODULE IntCoder ------------------------------
(***************************************************************************)
(* The chunked integer coder (intcoder.go), what it writes, and how the    *)
(* decoder finds a chunk again (intDecoder.go); the choice of a chunk size *)
(* (chunk.go).                                                             *)
(*                                                                         *)
(* An entry is what one document adds to a chunk.  Lengths and offsets     *)
(* count entries instead of bytes.  chunkLens is kept with its capacity: a *)
(* slice that is cut and grown again shows what was there before.          *)
(***************************************************************************)
LOCAL INSTANCE Integers
LOCAL INSTANCE Sequences

CONSTANT Unit  \* what 1024 stands for: the most entries a chunk should have

ASSUME UnitAssumption == Unit \in Nat \ {0, 1}

\* 0 stands for ErrChunkSizeZero.  "legacy" is every chunkMode <= 1024.
getChunkSize(mode, cardinality, maxDocs) ==
  CASE mode = "legacy" -> Unit
    [] mode = "1025"   -> IF cardinality <= Unit THEN maxDocs ELSE Unit
    [] mode = "1026"   -> maxDocs \div ((cardinality \div Unit) + 1)

NumChunks(chunkSize, maxDocNum) == maxDocNum \div chunkSize + 1

-----------------------------------------------------------------------------
\* The coder.  `sound' turns false where the code would panic: Close beyond
\* chunkLens, as a second Close of the same coder is.
newChunkedIntCoder(chunkSize, maxDocNum) ==
  LET total == NumChunks(chunkSize, maxDocNum) IN
  [chunkSize |-> chunkSize, total |-> total, cap |-> total,
   chunkLens |-> [i \in 0..(total - 1) |-> 0],
   currChunk |-> 0, chunkBuf |-> <<>>, final |-> <<>>, sound |-> TRUE]

\* Mutant of Reset: the lengths of the last term stay.
MutResetKeepsLens(c) == [c EXCEPT !.final = <<>>, !.chunkBuf = <<>>, !.currChunk = 0]

Reset(c) ==
  [c EXCEPT !.final = <<>>, !.chunkBuf = <<>>, !.currChunk = 0,
            !.chunkLens = [i \in DOMAIN @ |-> IF i < c.total THEN 0 ELSE @[i]]]

SetChunkSize(c, chunkSize, maxDocNum) ==
  LET total == NumChunks(chunkSize, maxDocNum) IN
  IF c.cap < total
  THEN [c EXCEPT !.chunkSize = chunkSize, !.total = total, !.cap = total,
                 !.chunkLens = [i \in 0..(total - 1) |-> 0]]
  ELSE [c EXCEPT !.chunkSize = chunkSize, !.total = total]

Close(c) ==
  IF c.currChunk < c.total
  THEN [c EXCEPT !.chunkLens[c.currChunk] = Len(c.chunkBuf),
                 !.final = @ \o c.chunkBuf,
                 !.currChunk = c.cap]
  ELSE [c EXCEPT !.sound = FALSE]

\* The first lines of Add and AddBytes.
Enter(c, docNum) ==
  LET chunk == docNum \div c.chunkSize IN
  IF chunk = c.currChunk THEN c
  ELSE [Close(c) EXCEPT !.chunkBuf = <<>>, !.currChunk = chunk]

Add(c, docNum, entry) ==
  [Enter(c, docNum) EXCEPT !.chunkBuf = Append(@, entry)]

-----------------------------------------------------------------------------
modifyLengthsToEndOffsets(lengths, total) ==
  LET end[i \in 0..(total - 1)] ==
        lengths[i] + (IF i = 0 THEN 0 ELSE end[i - 1])
  IN  end

NotEncoded == [offsets |-> <<>>, data |-> <<>>]

\* writeAt: what is in the file, termNotEncoded if there is no data.
Written(c) ==
  IF c.final = <<>> THEN NotEncoded
  ELSE [offsets |-> modifyLengthsToEndOffsets(c.chunkLens, c.total), data |-> c.final]

\* The coder after writeAt: the lengths have become offsets in place.
AfterWrite(c) ==
  IF c.final = <<>> THEN c
  ELSE [c EXCEPT !.chunkLens = [i \in DOMAIN @ |->
          IF i < c.total THEN Written(c).offsets[i] ELSE @[i]]]

\* loadChunk: the entries of a chunk, none if nothing was encoded.
HasChunk(w, chunk) ==
  w = NotEncoded \/ (chunk \in DOMAIN w.offsets /\ w.offsets[chunk] <= Len(w.data))
Chunk(w, chunk) ==
  IF w = NotEncoded THEN <<>>
  ELSE LET start == IF chunk > 0 THEN w.offsets[chunk - 1] ELSE 0
       IN  SubSeq(w.data, start + 1, w.offsets[chunk])
=============================================================================
