-------------------------- MODULE DocValues_proofs ---------------------------
(***************************************************************************)
(* The doc values that readers, merges and callers with a state find are   *)
(* those of the documents, for any segments, drops, fields, sizes of       *)
(* chunks and sequences of calls.                                          *)
(*                                                                         *)
(* A coder holds a map from documents to terms (Holds): its chunks are     *)
(* behind each other in what is written, the offsets are the sums of their *)
(* lengths, and each is a Block.  Add puts one more document into the map  *)
(* (AddHolds), so that the file of a built segment holds what its          *)
(* documents have, and, with the numbers of the survivors growing, that of *)
(* the merged one what those have that survive (Merging).  A reader that   *)
(* has loaded a chunk of such a file finds the terms of every document of  *)
(* it (VisitIs), whatever it decoded before; a state of a caller has such  *)
(* readers (StateFor).                                                     *)
(*                                                                         *)
(* Two things are assumed of the constants besides: that NoReader is not a *)
(* reader (NotAReader), and that no two segments have flags of a field     *)
(* with the stored part or the doc values among them (FlagsApart), which   *)
(* mergeUpdatedFields mixes up.                                            *)
(***************************************************************************)
EXTENDS DocValues, FiniteSetTheorems, SequenceTheorems, TLAPS

-----------------------------------------------------------------------------
(* The documents of a chunk: their metadata and their terms.               *)

Entries(T) == [docNum : Nat, terms : Seq(T)]
Metas      == [docNum : Nat, end : Nat]
Cells(T)   == [numDocs : Nat] \cup Metas \cup T

StartOf(meta, i) == IF i > 1 THEN meta[i - 1].end ELSE 0

\* meta and buf are those of the documents es, in their order.
Block(meta, buf, es, T) ==
  /\ meta \in Seq(Metas) /\ buf \in Seq(T) /\ es \in Seq(Entries(T)) /\ Len(meta) = Len(es)
  /\ Len(buf) = StartOf(meta, Len(meta) + 1)
  /\ \A i \in 1..Len(es) :
       /\ meta[i].docNum = es[i].docNum
       /\ StartOf(meta, i) <= meta[i].end /\ meta[i].end <= Len(buf)
       /\ es[i].terms = SubSeq(buf, StartOf(meta, i) + 1, meta[i].end)

LEMMA EmptyBlock ==
  ASSUME NEW T
  PROVE  Block(<<>>, <<>>, <<>>, T)
BY DEF Block, StartOf

LEMMA JoinIs ==
  ASSUME NEW T, NEW s \in Seq(T), NEW t \in Seq(T)
  PROVE  /\ s \o t \in Seq(T) /\ Len(s) \in Nat /\ Len(t) \in Nat /\ Len(s \o t) = Len(s) + Len(t)
         /\ \A i \in 1..Len(s) : (s \o t)[i] = s[i]
         /\ \A i \in 1..Len(t) : (s \o t)[Len(s) + i] = t[i]
<1>1. Len(s) \in Nat /\ Len(t) \in Nat
  OBVIOUS
<1>2. Len(s \o t) = Len(s) + Len(t) /\ s \o t \in Seq(T)
  OBVIOUS
<1>3. \A i \in 1..Len(s) : (s \o t)[i] = s[i]
  OBVIOUS
<1>4. \A i \in 1..Len(t) : (s \o t)[Len(s) + i] = t[i]
  OBVIOUS
<1> QED  BY <1>1, <1>2, <1>3, <1>4

\* A part of the first sequence is the same part of both.
LEMMA PartOfJoin ==
  ASSUME NEW T, NEW s \in Seq(T), NEW t \in Seq(T), NEW a \in Nat, NEW b \in Nat,
         a >= 1, b <= Len(s)
  PROVE  SubSeq(s \o t, a, b) = SubSeq(s, a, b)
<1>1. Len(s) \in Nat /\ s \o t \in Seq(T) /\ \A i \in 1..Len(s) : (s \o t)[i] = s[i]
  BY JoinIs
<1> DEFINE u == s \o t
<1> HIDE DEF u
<1>2. \A i \in 1..Len(s) : u[i] = s[i]
  BY <1>1 DEF u
<1>3. SubSeq(u, a, b) = [i \in 1..(b - a + 1) |-> u[i + a - 1]]
  <2>1. u \in Seq(T)
    BY <1>1 DEF u
  <2> QED  BY <2>1
<1>4. SubSeq(s, a, b) = [i \in 1..(b - a + 1) |-> s[i + a - 1]]
  OBVIOUS
<1>5. \A i \in 1..(b - a + 1) : u[i + a - 1] = s[i + a - 1]
  <2> SUFFICES ASSUME NEW i \in 1..(b - a + 1) PROVE u[i + a - 1] = s[i + a - 1]
    OBVIOUS
  <2>1. i + a - 1 \in 1..Len(s)
    BY <1>1
  <2> QED  BY <1>2, <2>1
<1> QED  BY <1>3, <1>4, <1>5 DEF u

\* A part of the second one.
LEMMA PartBehind ==
  ASSUME NEW T, NEW s \in Seq(T), NEW t \in Seq(T), NEW a \in Nat, NEW b \in Nat,
         a >= 1, b <= Len(t)
  PROVE  SubSeq(s \o t, Len(s) + a, Len(s) + b) = SubSeq(t, a, b)
<1>1. Len(s) \in Nat /\ Len(t) \in Nat /\ s \o t \in Seq(T)
      /\ \A i \in 1..Len(t) : (s \o t)[Len(s) + i] = t[i]
  BY JoinIs
<1> DEFINE u == s \o t  n == Len(s)
<1> HIDE DEF u, n
<1>2. n \in Nat /\ \A i \in 1..Len(t) : u[n + i] = t[i]
  BY <1>1 DEF u, n
<1>3. SubSeq(u, n + a, n + b) = [i \in 1..(b - a + 1) |-> u[i + (n + a) - 1]]
  <2>1. u \in Seq(T)
    BY <1>1 DEF u
  <2> DEFINE x == n + a  y == n + b
  <2>2. x \in Nat /\ y \in Nat /\ y - x + 1 = b - a + 1
    BY <1>2
  <2> HIDE DEF x, y
  <2>3. SubSeq(u, x, y) = [i \in 1..(y - x + 1) |-> u[i + x - 1]]
    BY <2>1, <2>2
  <2>4. SubSeq(u, x, y) = [i \in 1..(b - a + 1) |-> u[i + x - 1]]
    BY <2>2, <2>3
  <2> QED  BY <2>4 DEF x, y
<1>4. SubSeq(t, a, b) = [i \in 1..(b - a + 1) |-> t[i + a - 1]]
  OBVIOUS
<1>5. \A i \in 1..(b - a + 1) : u[i + (n + a) - 1] = t[i + a - 1]
  <2> SUFFICES ASSUME NEW i \in 1..(b - a + 1) PROVE u[i + (n + a) - 1] = t[i + a - 1]
    OBVIOUS
  <2>1. i + a - 1 \in 1..Len(t) /\ n + (i + a - 1) = i + (n + a) - 1
    BY <1>1, <1>2
  <2> QED  BY <1>2, <2>1
<1> QED  BY <1>3, <1>4, <1>5 DEF u, n

LEMMA BlockGrows ==
  ASSUME NEW T, NEW meta, NEW buf, NEW es, Block(meta, buf, es, T),
         NEW d \in Nat, NEW ts \in Seq(T)
  PROVE  Block(Append(meta, [docNum |-> d, end |-> Len(buf \o ts)]), buf \o ts,
               Append(es, [docNum |-> d, terms |-> ts]), T)
<1> DEFINE e == [docNum |-> d, terms |-> ts]  m == [docNum |-> d, end |-> Len(buf \o ts)]
           n == Len(es)  es2 == Append(es, e)  meta2 == Append(meta, m)  buf2 == buf \o ts
<1>1. /\ meta \in Seq(Metas) /\ buf \in Seq(T) /\ es \in Seq(Entries(T)) /\ Len(meta) = n
      /\ n \in Nat /\ Len(buf) = StartOf(meta, n + 1)
  BY DEF Block
<1>2. buf2 \in Seq(T) /\ Len(buf) \in Nat /\ Len(ts) \in Nat /\ Len(buf2) = Len(buf) + Len(ts)
  BY <1>1, JoinIs
<1>3. e \in Entries(T) /\ m \in Metas
  BY <1>2 DEF Entries, Metas
<1>4. /\ es2 \in Seq(Entries(T)) /\ Len(es2) = n + 1 /\ es2[n + 1] = e
      /\ \A i \in 1..n : es2[i] = es[i]
  <2> HIDE DEF e
  <2> QED  BY <1>1, <1>3
<1>5. /\ meta2 \in Seq(Metas) /\ Len(meta2) = n + 1 /\ meta2[n + 1] = m
      /\ \A i \in 1..n : meta2[i] = meta[i]
  <2> HIDE DEF m
  <2> QED  BY <1>1, <1>3
<1>6. m.docNum = d /\ m.end = Len(buf2) /\ e.docNum = d /\ e.terms = ts
  OBVIOUS
<1> HIDE DEF e, m, es2, meta2, n
<1>7. \A i \in 1..(n + 1) : StartOf(meta2, i) = StartOf(meta, i)
  <2> SUFFICES ASSUME NEW i \in 1..(n + 1) PROVE StartOf(meta2, i) = StartOf(meta, i)
    OBVIOUS
  <2>1. i > 1 => i - 1 \in 1..n
    BY <1>1
  <2> QED  BY <1>5, <2>1 DEF StartOf
<1>8. Len(buf2) = StartOf(meta2, n + 2)
  <2>1. n + 2 > 1 /\ (n + 2) - 1 = n + 1
    BY <1>1
  <2>2. StartOf(meta2, n + 2) = meta2[(n + 2) - 1].end
    BY <2>1 DEF StartOf
  <2>3. meta2[(n + 2) - 1] = m
    BY <1>5, <2>1
  <2> HIDE DEF buf2
  <2> QED  BY <1>6, <2>2, <2>3
<1>9. ASSUME NEW i \in 1..(n + 1)
      PROVE  /\ meta2[i].docNum = es2[i].docNum
             /\ StartOf(meta2, i) <= meta2[i].end /\ meta2[i].end <= Len(buf2)
             /\ es2[i].terms = SubSeq(buf2, StartOf(meta2, i) + 1, meta2[i].end)
  <2>1. CASE i = n + 1
    <3>1. SubSeq(buf2, Len(buf) + 1, Len(buf) + Len(ts)) = SubSeq(ts, 1, Len(ts))
      <4>1. 1 \in Nat /\ Len(ts) \in Nat /\ 1 >= 1 /\ Len(ts) <= Len(ts)
        BY <1>2
      <4> QED  BY <1>1, <4>1, PartBehind
    <3>2. SubSeq(ts, 1, Len(ts)) = ts
      OBVIOUS
    <3>3. StartOf(meta2, i) = Len(buf) /\ meta2[i] = m /\ es2[i] = e
      BY <1>1, <1>4, <1>5, <1>7, <2>1
    <3> HIDE DEF buf2
    <3>4. meta2[i].docNum = es2[i].docNum /\ meta2[i].end = Len(buf2)
      BY <1>6, <3>3
    <3>5. StartOf(meta2, i) <= meta2[i].end /\ meta2[i].end <= Len(buf2)
      BY <1>2, <3>3, <3>4
    <3>6. SubSeq(buf2, StartOf(meta2, i) + 1, meta2[i].end) = ts
      BY <1>2, <3>1, <3>2, <3>3, <3>4
    <3>7. es2[i].terms = ts
      BY <1>6, <3>3
    <3> QED  BY <3>4, <3>5, <3>6, <3>7
  <2>2. CASE i # n + 1
    <3>1. i \in 1..n /\ i \in 1..Len(es)
      BY <1>1, <2>2 DEF n
    <3>2. /\ meta[i].docNum = es[i].docNum
          /\ StartOf(meta, i) <= meta[i].end /\ meta[i].end <= Len(buf)
          /\ es[i].terms = SubSeq(buf, StartOf(meta, i) + 1, meta[i].end)
      BY <3>1 DEF Block
    <3>3. meta[i].end \in Nat /\ StartOf(meta, i) \in Nat
      <4>1. meta[i] \in Metas /\ (i > 1 => meta[i - 1] \in Metas)
        BY <1>1, <3>1
      <4> QED  BY <4>1 DEF Metas, StartOf
    <3>4. SubSeq(buf2, StartOf(meta, i) + 1, meta[i].end)
            = SubSeq(buf, StartOf(meta, i) + 1, meta[i].end)
      <4> DEFINE a == StartOf(meta, i) + 1  b == meta[i].end
      <4>1. a \in Nat /\ b \in Nat /\ a >= 1 /\ b <= Len(buf)
        BY <3>2, <3>3
      <4> HIDE DEF a, b
      <4>2. SubSeq(buf \o ts, a, b) = SubSeq(buf, a, b)
        BY <1>1, <4>1, PartOfJoin
      <4> QED  BY <4>2 DEF a, b
    <3>5. meta2[i] = meta[i] /\ es2[i] = es[i] /\ StartOf(meta2, i) = StartOf(meta, i)
      BY <1>4, <1>5, <1>7, <3>1
    <3>6. meta[i].end <= Len(buf2)
      BY <1>2, <3>2, <3>3
    <3> HIDE DEF buf2
    <3> QED  BY <3>2, <3>4, <3>5, <3>6
  <2> QED  BY <2>1, <2>2
<1>10. Block(meta2, buf2, es2, T)
  <2>1. n + 1 + 1 = n + 2
    BY <1>1
  <2> HIDE DEF buf2
  <2> QED  BY <1>2, <1>4, <1>5, <1>8, <1>9, <2>1 DEF Block
<1> QED  BY <1>10 DEF meta2, buf2, es2, e, m

-----------------------------------------------------------------------------
(* Where the chunks are in the data.                                       *)

\* The bytes from from to to are the chunk of the documents es.
InPlace(data, from, to, es, T) ==
  \/ from = to /\ es = <<>>
  \/ \E meta, buf :
       /\ Block(meta, buf, es, T)
       /\ to = from + 1 + Len(meta) + Len(buf) /\ to <= Len(data)
       /\ data[from + 1].numDocs = Len(meta)
       /\ SubSeq(data, from + 2, from + 1 + Len(meta)) = meta
       /\ SubSeq(data, from + 2 + Len(meta), to) = buf

LEMMA WiderSeq ==
  ASSUME NEW S, NEW T, S \subseteq T, NEW s \in Seq(S)
  PROVE  s \in Seq(T)
OBVIOUS

ChunkFor(meta, buf) == <<[numDocs |-> Len(meta)]>> \o meta \o buf

LEMMA ChunkIs ==
  ASSUME NEW T, NEW meta, NEW buf, NEW es, Block(meta, buf, es, T)
  PROVE  /\ ChunkFor(meta, buf) \in Seq(Cells(T))
         /\ Len(ChunkFor(meta, buf)) = 1 + Len(meta) + Len(buf)
         /\ ChunkFor(meta, buf)[1].numDocs = Len(meta)
         /\ SubSeq(ChunkFor(meta, buf), 2, 1 + Len(meta)) = meta
         /\ SubSeq(ChunkFor(meta, buf), 2 + Len(meta), 1 + Len(meta) + Len(buf)) = buf
<1> DEFINE C == Cells(T)  h == <<[numDocs |-> Len(meta)]>>  m == Len(meta)  b == Len(buf)
<1>1. meta \in Seq(Metas) /\ buf \in Seq(T) /\ m \in Nat /\ b \in Nat
  BY DEF Block
<1>2. h \in Seq(C) /\ meta \in Seq(C) /\ buf \in Seq(C) /\ Len(h) = 1 /\ h[1].numDocs = m
  <2>1. [numDocs |-> Len(meta)] \in C
    BY <1>1 DEF Cells
  <2>2. Metas \subseteq C /\ T \subseteq C
    BY DEF Cells
  <2>3. meta \in Seq(C) /\ buf \in Seq(C)
    BY <1>1, <2>2, WiderSeq
  <2> QED  BY <2>1, <2>3
<1> HIDE DEF C, h, m, b
<1> DEFINE hm == h \o meta  all == hm \o buf
<1>3. hm \in Seq(C) /\ Len(hm) = 1 + m /\ hm[1] = h[1]
  <2>1. hm \in Seq(C) /\ Len(hm) = Len(h) + Len(meta) /\ \A i \in 1..Len(h) : hm[i] = h[i]
    BY <1>2, JoinIs
  <2>2. 1 \in 1..Len(h)
    BY <1>2
  <2> HIDE DEF hm
  <2> QED  BY <1>2, <2>1, <2>2 DEF m
<1>4. SubSeq(hm, 2, 1 + m) = meta
  <2>1. 1 \in Nat /\ m \in Nat /\ 1 >= 1 /\ m <= Len(meta)
    BY <1>1 DEF m
  <2>0. h \in Seq(C) /\ meta \in Seq(C)
    BY <1>2
  <2>2. SubSeq(h \o meta, Len(h) + 1, Len(h) + m) = SubSeq(meta, 1, m)
    BY <2>0, <2>1, PartBehind
  <2>3. SubSeq(meta, 1, m) = meta
    BY <1>1 DEF m
  <2>4. Len(h) + 1 = 2 /\ Len(h) + m = 1 + m
    BY <1>1, <1>2
  <2>5. SubSeq(hm, Len(h) + 1, Len(h) + m) = meta
    BY <2>2, <2>3
  <2> HIDE DEF hm
  <2> QED  BY <2>4, <2>5
<1> HIDE DEF hm
<1>5. all \in Seq(C) /\ Len(all) = 1 + m + b /\ all[1] = hm[1]
  <2>1. /\ all \in Seq(C) /\ Len(all) = Len(hm) + Len(buf)
        /\ \A i \in 1..Len(hm) : all[i] = hm[i]
    BY <1>2, <1>3, JoinIs
  <2>2. 1 \in 1..Len(hm)
    BY <1>1, <1>3
  <2> HIDE DEF all
  <2> QED  BY <1>3, <2>1, <2>2 DEF b
<1>6. SubSeq(all, 2, 1 + m) = meta
  <2>1. 2 \in Nat /\ 1 + m \in Nat /\ 2 >= 1 /\ 1 + m <= Len(hm)
    BY <1>1, <1>3
  <2>2. SubSeq(all, 2, 1 + m) = SubSeq(hm, 2, 1 + m)
    BY <1>2, <1>3, <2>1, PartOfJoin
  <2> QED  BY <1>4, <2>2
<1>7. SubSeq(all, 2 + m, 1 + m + b) = buf
  <2>1. 1 \in Nat /\ b \in Nat /\ 1 >= 1 /\ b <= Len(buf)
    BY <1>1 DEF b
  <2>2. SubSeq(all, Len(hm) + 1, Len(hm) + b) = SubSeq(buf, 1, b)
    BY <1>2, <1>3, <2>1, PartBehind
  <2>3. SubSeq(buf, 1, b) = buf
    BY <1>1 DEF b
  <2>4. Len(hm) + 1 = 2 + m /\ Len(hm) + b = 1 + m + b
    BY <1>1, <1>3
  <2> HIDE DEF all
  <2> QED  BY <2>2, <2>3, <2>4
<1>8. all = ChunkFor(meta, buf)
  BY DEF all, hm, h, ChunkFor
<1> HIDE DEF all
<1>9. all[1].numDocs = m
  BY <1>2, <1>3, <1>5
<1> QED  BY <1>5, <1>6, <1>7, <1>8, <1>9 DEF m, b, C

\* A chunk stays where it is when the data grows.
LEMMA StaysInPlace ==
  ASSUME NEW T, NEW data \in Seq(Cells(T)), NEW more \in Seq(Cells(T)), NEW from \in Nat,
         NEW to, NEW es, InPlace(data, from, to, es, T)
  PROVE  InPlace(data \o more, from, to, es, T)
<1>1. CASE from = to /\ es = <<>>
  BY <1>1 DEF InPlace
<1>2. CASE ~(from = to /\ es = <<>>)
  <2>1. PICK meta, buf :
          /\ Block(meta, buf, es, T)
          /\ to = from + 1 + Len(meta) + Len(buf) /\ to <= Len(data)
          /\ data[from + 1].numDocs = Len(meta)
          /\ SubSeq(data, from + 2, from + 1 + Len(meta)) = meta
          /\ SubSeq(data, from + 2 + Len(meta), to) = buf
    BY <1>2 DEF InPlace
  <2>2. Len(meta) \in Nat /\ Len(buf) \in Nat
    BY <2>1 DEF Block
  <2> DEFINE u == data \o more
  <2>3. /\ Len(data) \in Nat /\ Len(more) \in Nat /\ Len(u) = Len(data) + Len(more)
        /\ \A i \in 1..Len(data) : u[i] = data[i]
    BY JoinIs
  <2>4. from + 1 \in 1..Len(data) /\ to \in Nat
    BY <2>1, <2>2, <2>3
  <2>5. SubSeq(u, from + 2, from + 1 + Len(meta)) = meta
    <3> DEFINE x == from + 2  y == from + 1 + Len(meta)
    <3>1. x \in Nat /\ y \in Nat /\ x >= 1 /\ y <= Len(data)
      BY <2>1, <2>2, <2>3, <2>4
    <3>2. SubSeq(data, x, y) = meta
      BY <2>1
    <3> HIDE DEF x, y
    <3>3. SubSeq(data \o more, x, y) = SubSeq(data, x, y)
      BY <3>1, PartOfJoin
    <3> QED  BY <3>2, <3>3 DEF x, y
  <2>6. SubSeq(u, from + 2 + Len(meta), to) = buf
    <3> DEFINE x == from + 2 + Len(meta)
    <3>1. x \in Nat /\ to \in Nat /\ x >= 1 /\ to <= Len(data)
      BY <2>1, <2>2, <2>3, <2>4
    <3>2. SubSeq(data, x, to) = buf
      BY <2>1
    <3> HIDE DEF x
    <3>3. SubSeq(data \o more, x, to) = SubSeq(data, x, to)
      BY <3>1, PartOfJoin
    <3> QED  BY <3>2, <3>3 DEF x
  <2>7. u[from + 1].numDocs = Len(meta)
    BY <2>1, <2>3, <2>4
  <2>8. to <= Len(u)
    <3> HIDE DEF u
    <3> QED  BY <2>1, <2>3, <2>4
  <2> HIDE DEF u
  <2>9. InPlace(u, from, to, es, T)
    BY <2>1, <2>5, <2>6, <2>7, <2>8 DEF InPlace
  <2> QED  BY <2>9 DEF u
<1> QED  BY <1>1, <1>2

\* The chunk that is put behind the data.
LEMMA AppendedInPlace ==
  ASSUME NEW T, NEW data \in Seq(Cells(T)), NEW meta, NEW buf, NEW es, Block(meta, buf, es, T)
  PROVE  /\ data \o ChunkFor(meta, buf) \in Seq(Cells(T))
         /\ Len(data \o ChunkFor(meta, buf)) = Len(data) + (1 + Len(meta) + Len(buf))
         /\ InPlace(data \o ChunkFor(meta, buf), Len(data),
                    Len(data) + (1 + Len(meta) + Len(buf)), es, T)
<1> DEFINE c == ChunkFor(meta, buf)  u == data \o c  n == Len(data)
           m == Len(meta)  b == Len(buf)
<1>1. /\ c \in Seq(Cells(T)) /\ Len(c) = 1 + m + b /\ c[1].numDocs = m
      /\ SubSeq(c, 2, 1 + m) = meta /\ SubSeq(c, 2 + m, 1 + m + b) = buf
  BY ChunkIs
<1>2. m \in Nat /\ b \in Nat /\ n \in Nat
  BY DEF Block
<1> HIDE DEF c
<1>3. /\ u \in Seq(Cells(T)) /\ Len(u) = n + Len(c)
      /\ \A i \in 1..Len(c) : u[n + i] = c[i]
  <2>1. /\ data \o c \in Seq(Cells(T)) /\ Len(data \o c) = Len(data) + Len(c)
        /\ \A i \in 1..Len(c) : (data \o c)[Len(data) + i] = c[i]
    <3>1. c \in Seq(Cells(T))
      BY <1>1
    <3> QED  BY <3>1, JoinIs
  <2> QED  BY <2>1
<1>4. u[n + 1].numDocs = m
  <2>1. 1 \in 1..Len(c)
    BY <1>1, <1>2
  <2>2. u[n + 1] = c[1]
    BY <1>3, <2>1
  <2> QED  BY <1>1, <2>2
<1>5. SubSeq(u, n + 2, n + 1 + m) = meta
  <2>1. 2 \in Nat /\ 1 + m \in Nat /\ 2 >= 1 /\ 1 + m <= Len(c)
    BY <1>1, <1>2
  <2>2. SubSeq(u, n + 2, n + (1 + m)) = SubSeq(c, 2, 1 + m)
    BY <1>1, <2>1, PartBehind
  <2>3. n + (1 + m) = n + 1 + m
    BY <1>2
  <2> HIDE DEF u, n, m
  <2> QED  BY <1>1, <2>2, <2>3
<1>6. SubSeq(u, n + 2 + m, n + (1 + m + b)) = buf
  <2>1. 2 + m \in Nat /\ 1 + m + b \in Nat /\ 2 + m >= 1 /\ 1 + m + b <= Len(c)
    BY <1>1, <1>2
  <2>2. SubSeq(u, n + (2 + m), n + (1 + m + b)) = SubSeq(c, 2 + m, 1 + m + b)
    BY <1>1, <2>1, PartBehind
  <2>3. n + (2 + m) = n + 2 + m
    BY <1>2
  <2> HIDE DEF u, n, m, b
  <2> QED  BY <1>1, <2>2, <2>3
<1> HIDE DEF u
<1>7. n + (1 + m + b) = n + 1 + m + b /\ n + (1 + m + b) <= Len(u)
  BY <1>1, <1>2, <1>3
<1>8. InPlace(u, n, n + (1 + m + b), es, T)
  BY <1>4, <1>5, <1>6, <1>7 DEF InPlace
<1> QED  BY <1>1, <1>3, <1>8 DEF u, c

Steps == INSTANCE FoldSteps WITH op <- LAMBDA p, acc, x : acc

-----------------------------------------------------------------------------
(* The coder.                                                              *)

Coders(K, T) ==
  [chunkSize : {Unit}, progressiveWrite : BOOLEAN, currChunk : 0..(K - 1),
   chunkLens : [0..(K - 1) -> Nat], chunkMeta : Seq(Metas), chunkBuf : Seq(T),
   final : Seq(Cells(T)), w : Seq(Cells(T))]

Data(c) == c.w \o c.final

\* The first n of K chunks are in the data, with the documents of B.
Laid(data, lens, off, B, n, K, T) ==
  /\ data \in Seq(Cells(T)) /\ off \in [0..K -> Nat] /\ off[0] = 0
  /\ \A j \in 0..(K - 1) : off[j + 1] = off[j] + lens[j]
  /\ \A j \in 0..(n - 1) : InPlace(data, off[j], off[j + 1], B[j], T)
  /\ \A j \in n..K : off[j] = Len(data)

LEMMA LaidNext ==
  ASSUME NEW T, NEW K \in Nat, NEW data, NEW lens \in [0..(K - 1) -> Nat], NEW off, NEW B,
         NEW n \in 0..(K - 1), Laid(data, lens, off, B, n, K, T),
         NEW meta, NEW buf, Block(meta, buf, B[n], T)
  PROVE  \E off2 : Laid(data \o ChunkFor(meta, buf),
                        [lens EXCEPT ![n] = 1 + Len(meta) + Len(buf)], off2, B, n + 1, K, T)
<1> DEFINE L == 1 + Len(meta) + Len(buf)  all == Len(data) + L  u == data \o ChunkFor(meta, buf)
           off2 == [j \in 0..K |-> IF j <= n THEN off[j] ELSE all]
           lens2 == [lens EXCEPT ![n] = L]
<1>1. /\ data \in Seq(Cells(T)) /\ off \in [0..K -> Nat] /\ off[0] = 0
      /\ \A j \in 0..(K - 1) : off[j + 1] = off[j] + lens[j]
      /\ \A j \in 0..(n - 1) : InPlace(data, off[j], off[j + 1], B[j], T)
      /\ \A j \in n..K : off[j] = Len(data)
  BY DEF Laid
<1>2. u \in Seq(Cells(T)) /\ Len(u) = all /\ InPlace(u, Len(data), all, B[n], T)
  BY <1>1, AppendedInPlace
<1>3. ChunkFor(meta, buf) \in Seq(Cells(T)) /\ L \in Nat /\ Len(data) \in Nat
  <2>1. Len(meta) \in Nat /\ Len(buf) \in Nat
    BY DEF Block
  <2> QED  BY <1>1, <2>1, ChunkIs
<1>4. all \in Nat /\ n \in Nat /\ n <= K - 1 /\ n + 1 \in Nat
  BY <1>3
<1>5. ASSUME NEW j \in 0..(n - 1) PROVE InPlace(u, off[j], off[j + 1], B[j], T)
  <2>1. j \in 0..K
    BY <1>4
  <2>2. off[j] \in Nat /\ InPlace(data, off[j], off[j + 1], B[j], T)
    BY <1>1, <1>5, <2>1
  <2> QED  BY <1>1, <1>3, <2>2, StaysInPlace
<1>6. off[n] = Len(data)
  <2>1. n \in n..K
    BY <1>4
  <2> QED  BY <1>1, <2>1
<1> HIDE DEF u, L, all
<1>7. off2 \in [0..K -> Nat] /\ off2[0] = 0
  BY <1>1, <1>4
<1>8. ASSUME NEW j \in 0..(K - 1) PROVE off2[j + 1] = off2[j] + lens2[j]
  <2>1. j \in 0..K /\ j + 1 \in 0..K /\ j \in Nat /\ K \in Nat
    OBVIOUS
  <2>2. CASE j = n
    <3>1. off2[j + 1] = all /\ off2[j] = Len(data) /\ lens2[j] = L
      BY <1>4, <1>6, <2>1, <2>2
    <3> QED  BY <3>1 DEF all
  <2>3. CASE j < n
    <3>1. off2[j + 1] = off[j + 1] /\ off2[j] = off[j] /\ lens2[j] = lens[j]
      BY <1>4, <2>1, <2>3
    <3> QED  BY <1>1, <3>1
  <2>4. CASE j > n
    <3>1. off2[j + 1] = all /\ off2[j] = all /\ lens2[j] = lens[j]
      BY <1>4, <2>1, <2>4
    <3>2. off[j] = Len(data) /\ off[j + 1] = Len(data)
      <4>1. j \in n..K /\ j + 1 \in n..K
        BY <1>4, <2>1, <2>4
      <4> QED  BY <1>1, <4>1
    <3>3. lens[j] = 0
      <4>1. off[j + 1] = off[j] + lens[j] /\ lens[j] \in Nat
        BY <1>1
      <4> QED  BY <1>3, <3>2, <4>1
    <3> HIDE DEF off2, lens2
    <3> QED  BY <1>4, <3>1, <3>3
  <2> QED  BY <1>4, <2>1, <2>2, <2>3, <2>4
<1>9. ASSUME NEW j \in 0..n PROVE InPlace(u, off2[j], off2[j + 1], B[j], T)
  <2>1. CASE j = n
    <3>1. off2[j] = Len(data) /\ off2[j + 1] = all
      BY <1>4, <1>6, <2>1
    <3> QED  BY <1>2, <2>1, <3>1
  <2>2. CASE j # n
    <3>1. j \in 0..(n - 1) /\ off2[j] = off[j] /\ off2[j + 1] = off[j + 1]
      BY <1>4, <2>2
    <3> QED  BY <1>5, <3>1
  <2> QED  BY <2>1, <2>2
<1>10. \A j \in (n + 1)..K : off2[j] = Len(u)
  BY <1>2, <1>4
<1> HIDE DEF off2, lens2
<1>11. Laid(u, lens2, off2, B, n + 1, K, T)
  <2>1. (n + 1) - 1 = n
    BY <1>4
  <2> QED  BY <1>2, <1>7, <1>8, <1>9, <1>10, <2>1 DEF Laid
<1> QED  BY <1>11 DEF u, lens2, L

\* Chunks without documents take no room.
LEMMA LaidOver ==
  ASSUME NEW T, NEW K \in Nat, NEW data, NEW lens, NEW off, NEW B,
         NEW n \in 0..K, Laid(data, lens, off, B, n, K, T),
         NEW m \in n..K, \A j \in n..(m - 1) : B[j] = <<>>
  PROVE  Laid(data, lens, off, B, m, K, T)
<1>1. /\ data \in Seq(Cells(T)) /\ off \in [0..K -> Nat] /\ off[0] = 0
      /\ \A j \in 0..(K - 1) : off[j + 1] = off[j] + lens[j]
      /\ \A j \in 0..(n - 1) : InPlace(data, off[j], off[j + 1], B[j], T)
      /\ \A j \in n..K : off[j] = Len(data)
  BY DEF Laid
<1>2. ASSUME NEW j \in 0..(m - 1) PROVE InPlace(data, off[j], off[j + 1], B[j], T)
  <2>1. CASE j < n
    <3>1. j \in 0..(n - 1)
      BY <2>1
    <3> QED  BY <1>1, <3>1
  <2>2. CASE ~ (j < n)
    <3>1. j \in n..K /\ j + 1 \in n..K /\ j \in n..(m - 1)
      BY <2>2
    <3>2. off[j] = off[j + 1] /\ B[j] = <<>>
      BY <1>1, <3>1
    <3> QED  BY <3>2 DEF InPlace
  <2> QED  BY <2>1, <2>2
<1>3. \A j \in m..K : j \in n..K
  OBVIOUS
<1> QED  BY <1>1, <1>2, <1>3 DEF Laid

LEMMA FlushIs ==
  ASSUME NEW T, NEW K \in Nat, NEW c \in Coders(K, T), NEW es,
         Block(c.chunkMeta, c.chunkBuf, es, T)
  PROVE  /\ flushContents(c) \in Coders(K, T)
         /\ flushContents(c).currChunk = c.currChunk
         /\ flushContents(c).chunkLens
              = [c.chunkLens EXCEPT ![c.currChunk] = 1 + Len(c.chunkMeta) + Len(c.chunkBuf)]
         /\ Data(flushContents(c)) = Data(c) \o ChunkFor(c.chunkMeta, c.chunkBuf)
<1> DEFINE ch == ChunkFor(c.chunkMeta, c.chunkBuf)
           l  == 1 + Len(c.chunkMeta) + Len(c.chunkBuf)
           fi == c.final \o ch
           w2 == IF c.progressiveWrite THEN c.w \o fi ELSE c.w
           f2 == IF c.progressiveWrite THEN <<>> ELSE fi
           C  == Seq(Cells(T))
           f  == flushContents(c)
<1>1. ch \in C /\ Len(ch) = l /\ l \in Nat
  <2>1. Len(c.chunkMeta) \in Nat /\ Len(c.chunkBuf) \in Nat
    BY DEF Block
  <2> DEFINE m == c.chunkMeta  b == c.chunkBuf
  <2>2. Block(m, b, es, T)
    OBVIOUS
  <2> HIDE DEF m, b
  <2>3. ChunkFor(m, b) \in Seq(Cells(T)) /\ Len(ChunkFor(m, b)) = 1 + Len(m) + Len(b)
    BY <2>2, ChunkIs
  <2>4. Len(m) \in Nat /\ Len(b) \in Nat
    BY <2>1 DEF m, b
  <2>5. 1 + Len(m) + Len(b) \in Nat
    BY <2>4
  <2> QED  BY <2>3, <2>5 DEF m, b
<1>2. f = [c EXCEPT !.chunkLens[c.currChunk] = Len(ch), !.w = w2, !.final = f2]
  BY DEF flushContents, ChunkFor
<1>3. /\ c.final \in C /\ c.w \in C /\ c.chunkLens \in [0..(K - 1) -> Nat]
      /\ c.progressiveWrite \in BOOLEAN
  BY DEF Coders
<1>4. fi \in C /\ c.w \o fi \in C /\ c.w \o c.final \in C
  BY <1>1, <1>3, JoinIs
<1>5. w2 \o f2 = c.w \o fi
  <2>1. CASE c.progressiveWrite
    <3>1. w2 = c.w \o fi /\ f2 = <<>>
      BY <2>1
    <3> QED  BY <1>4, <3>1, ConcatEmptySeq
  <2>2. CASE ~ c.progressiveWrite
    BY <2>2
  <2> QED  BY <1>3, <2>1, <2>2
<1>6. c.w \o fi = (c.w \o c.final) \o ch
  <2>1. c.w \in Seq(Cells(T)) /\ c.final \in Seq(Cells(T)) /\ ch \in Seq(Cells(T))
    BY <1>1, <1>3
  <2> DEFINE x == c.w  y == c.final  S == Cells(T)
  <2> HIDE DEF ch, x, y, S
  <2>2. x \in Seq(S) /\ y \in Seq(S) /\ ch \in Seq(S)
    BY <2>1 DEF x, y, S
  <2>3. (x \o y) \o ch = x \o (y \o ch)
    BY <2>2, ConcatAssociative
  <2> QED  BY <2>3 DEF x, y
<1>7. w2 \in C /\ f2 \in C
  BY <1>3, <1>4
<1> HIDE DEF ch, l, fi, w2, f2, f
<1> DEFINE lens2 == [c.chunkLens EXCEPT ![c.currChunk] = l]
<1>8. lens2 \in [0..(K - 1) -> Nat]
  BY <1>1, <1>3
<1> HIDE DEF lens2
<1>9. f = [c EXCEPT !.chunkLens = lens2, !.w = w2, !.final = f2]
  BY <1>1, <1>2 DEF lens2
<1>10. f \in Coders(K, T)
  BY <1>7, <1>8, <1>9 DEF Coders, C
<1>11. f.currChunk = c.currChunk /\ f.chunkLens = lens2 /\ f.w = w2 /\ f.final = f2
  BY <1>9 DEF Coders
<1> QED  BY <1>5, <1>6, <1>10, <1>11 DEF Data, f, lens2, l, ch, fi

-----------------------------------------------------------------------------
(* The documents of the chunks.                                            *)

\* B are the documents of the K chunks; V is what each of them has.
OfChunks(B, K, V, T) ==
  /\ B \in [0..(K - 1) -> Seq(Entries(T))]
  /\ V \in [DOMAIN V -> Seq(T)] /\ DOMAIN V \subseteq Nat
  /\ \A j \in 0..(K - 1) :
       /\ \A i \in 1..Len(B[j]) : /\ B[j][i].docNum \in DOMAIN V
                                  /\ B[j][i].docNum \div Unit = j
                                  /\ B[j][i].terms = V[B[j][i].docNum]
       /\ \A i, k \in 1..Len(B[j]) : i < k => B[j][i].docNum < B[j][k].docNum
  /\ \A d \in DOMAIN V : /\ d \div Unit \in 0..(K - 1)
                         /\ \E i \in 1..Len(B[d \div Unit]) : B[d \div Unit][i].docNum = d

\* The coder has been given V.
HoldsAs(c, K, V, T, B, off) ==
  /\ OfChunks(B, K, V, T)
  /\ Laid(Data(c), c.chunkLens, off, B, c.currChunk, K, T)
  /\ Block(c.chunkMeta, c.chunkBuf, B[c.currChunk], T)
  /\ \A j \in (c.currChunk + 1)..(K - 1) : B[j] = <<>>
  /\ c.currChunk = 0 \/ \E d \in DOMAIN V : d \div Unit = c.currChunk
Holds(c, K, V, T) == c \in Coders(K, T) /\ \E B, off : HoldsAs(c, K, V, T, B, off)

Put(V, d, ts) == [e \in DOMAIN V \cup {d} |-> IF e = d THEN ts ELSE V[e]]

LEMMA UnitIs == Unit \in Nat \ {0} /\ ChunkSize = Unit
BY DocValuesAssumption DEF ChunkSize, Ints!getChunkSize

LEMMA ChunksGrow ==
  ASSUME NEW m \in Nat, NEW n \in Nat, m <= n
  PROVE  m \div Unit \in Nat /\ n \div Unit \in Nat /\ m \div Unit <= n \div Unit
BY UnitIs

\* The coder whose current chunk is that of the document.
Entered(c, k) ==
  IF k = c.currChunk THEN c
  ELSE [flushContents(c) EXCEPT !.chunkBuf = <<>>, !.chunkMeta = <<>>, !.currChunk = k]

LEMMA EnteredIs ==
  ASSUME NEW T, NEW K \in Nat, NEW V, NEW c \in Coders(K, T), NEW B, NEW off,
         HoldsAs(c, K, V, T, B, off), NEW k \in 0..(K - 1), c.currChunk <= k
  PROVE  /\ Entered(c, k) \in Coders(K, T) /\ Entered(c, k).currChunk = k
         /\ \E off2 : Laid(Data(Entered(c, k)), Entered(c, k).chunkLens, off2, B, k, K, T)
         /\ Block(Entered(c, k).chunkMeta, Entered(c, k).chunkBuf, B[k], T)
<1>1. CASE k = c.currChunk
  BY <1>1 DEF Entered, HoldsAs
<1>2. CASE k # c.currChunk
  <2> DEFINE n == c.currChunk  f == flushContents(c)
             e == [f EXCEPT !.chunkBuf = <<>>, !.chunkMeta = <<>>, !.currChunk = k]
             lens2 == [c.chunkLens EXCEPT ![n] = 1 + Len(c.chunkMeta) + Len(c.chunkBuf)]
             u == Data(c) \o ChunkFor(c.chunkMeta, c.chunkBuf)
  <2>1. /\ Laid(Data(c), c.chunkLens, off, B, n, K, T)
        /\ Block(c.chunkMeta, c.chunkBuf, B[n], T)
        /\ \A j \in (n + 1)..(K - 1) : B[j] = <<>>
    BY DEF HoldsAs
  <2>2. n \in 0..(K - 1) /\ c.chunkLens \in [0..(K - 1) -> Nat] /\ n < k
    BY <1>2 DEF Coders
  <2>3. f \in Coders(K, T) /\ f.chunkLens = lens2 /\ Data(f) = u
    BY <2>1, FlushIs
  <2>4. PICK off2 : Laid(u, lens2, off2, B, n + 1, K, T)
    <3> DEFINE m == c.chunkMeta  b == c.chunkBuf  l == c.chunkLens  D == Data(c)
    <3>1. Laid(D, l, off, B, n, K, T) /\ Block(m, b, B[n], T) /\ l \in [0..(K - 1) -> Nat]
      BY <2>1, <2>2
    <3> HIDE DEF m, b, l, n, D
    <3>2. \E off2 : Laid(D \o ChunkFor(m, b), [l EXCEPT ![n] = 1 + Len(m) + Len(b)],
                         off2, B, n + 1, K, T)
      BY <2>2, <3>1, LaidNext
    <3> QED  BY <3>2 DEF m, b, l, n, D
  <2> HIDE DEF f, u, lens2
  <2>5. Laid(u, lens2, off2, B, k, K, T)
    <3>1. n + 1 \in 0..K /\ k \in (n + 1)..K /\ \A j \in (n + 1)..(k - 1) : B[j] = <<>>
      BY <2>1, <2>2
    <3> QED  BY <2>4, <3>1, LaidOver
  <2>6. /\ e \in Coders(K, T) /\ e.chunkLens = f.chunkLens /\ e.w = f.w /\ e.final = f.final
        /\ e.currChunk = k /\ e.chunkMeta = <<>> /\ e.chunkBuf = <<>>
    <3>1. <<>> \in Seq(Metas) /\ <<>> \in Seq(T)
      OBVIOUS
    <3> QED  BY <2>3, <3>1 DEF Coders
  <2>7. B[k] = <<>>
    BY <2>1, <2>2
  <2>8. Entered(c, k) = e
    BY <1>2 DEF Entered, f
  <2>9. Block(<<>>, <<>>, B[k], T)
    BY <2>7, EmptyBlock
  <2>10. Data(e) = u
    BY <2>3, <2>6 DEF Data
  <2> HIDE DEF e
  <2> QED  BY <2>3, <2>5, <2>6, <2>8, <2>9, <2>10
<1> QED  BY <1>1, <1>2

Joined(e, d, ts) ==
  [e EXCEPT !.chunkBuf  = @ \o ts,
            !.chunkMeta = Append(@, [docNum |-> d, end |-> Len(e.chunkBuf \o ts)])]

LEMMA AddIsEntered ==
  ASSUME NEW T, NEW K \in Nat, NEW c \in Coders(K, T), NEW d \in Nat, NEW ts
  PROVE  Add(c, d, ts) = Joined(Entered(c, d \div Unit), d, ts)
<1>1. c.chunkSize = Unit
  BY DEF Coders
<1> QED  BY <1>1 DEF Add, Entered, Joined

\* With one more document, behind all others, a chunk has its terms too.
LEMMA PutChunk ==
  ASSUME NEW T, NEW K \in Nat, NEW B, NEW V, OfChunks(B, K, V, T), NEW d \in Nat,
         d \div Unit \in 0..(K - 1), \A e \in DOMAIN V : e < d, NEW ts \in Seq(T)
  PROVE  OfChunks([B EXCEPT ![d \div Unit] = Append(@, [docNum |-> d, terms |-> ts])],
                  K, Put(V, d, ts), T)
<1> DEFINE k == d \div Unit  e == [docNum |-> d, terms |-> ts]
           B2 == [B EXCEPT ![k] = Append(@, e)]  V2 == Put(V, d, ts)  n == Len(B[k])
<1>1. /\ B \in [0..(K - 1) -> Seq(Entries(T))]
      /\ V \in [DOMAIN V -> Seq(T)] /\ DOMAIN V \subseteq Nat
  BY DEF OfChunks
<1>2. V2 \in [DOMAIN V2 -> Seq(T)] /\ DOMAIN V2 = DOMAIN V \cup {d} /\ DOMAIN V2 \subseteq Nat
      /\ V2[d] = ts /\ (\A x \in DOMAIN V : V2[x] = V[x]) /\ d \notin DOMAIN V
  <2>1. d \notin DOMAIN V
    OBVIOUS
  <2> QED  BY <1>1, <2>1 DEF Put
<1>3. e \in Entries(T) /\ e.docNum = d /\ e.terms = ts
  BY DEF Entries
<1>4. k \in 0..(K - 1) /\ B[k] \in Seq(Entries(T)) /\ n \in Nat
  BY <1>1
<1> HIDE DEF e, V2
<1>5. /\ Append(B[k], e) \in Seq(Entries(T)) /\ Len(Append(B[k], e)) = n + 1
      /\ Append(B[k], e)[n + 1] = e /\ \A i \in 1..n : Append(B[k], e)[i] = B[k][i]
  BY <1>3, <1>4
<1>6. /\ B2 \in [0..(K - 1) -> Seq(Entries(T))] /\ B2[k] = Append(B[k], e)
      /\ \A j \in 0..(K - 1) : j # k => B2[j] = B[j]
  BY <1>1, <1>4, <1>5
<1> HIDE DEF B2, k
<1>7. ASSUME NEW j \in 0..(K - 1), NEW i \in 1..Len(B2[j])
      PROVE  \/ i \in 1..Len(B[j]) /\ B2[j][i] = B[j][i]
             \/ j = k /\ i = n + 1 /\ B2[j][i] = e
  <2>1. CASE j # k
    BY <1>6, <1>7, <2>1
  <2>2. CASE j = k /\ i = n + 1
    BY <1>5, <1>6, <2>2
  <2>3. CASE j = k /\ i # n + 1
    <3>1. i \in 1..n
      BY <1>4, <1>5, <1>6, <1>7, <2>3
    <3> QED  BY <1>5, <1>6, <2>3, <3>1
  <2> QED  BY <2>1, <2>2, <2>3
<1>8. ASSUME NEW j \in 0..(K - 1), NEW i \in 1..Len(B2[j])
      PROVE  /\ B2[j][i].docNum \in DOMAIN V2 /\ B2[j][i].docNum \div Unit = j
             /\ B2[j][i].terms = V2[B2[j][i].docNum]
  <2>1. CASE i \in 1..Len(B[j]) /\ B2[j][i] = B[j][i]
    <3>1. /\ B[j][i].docNum \in DOMAIN V /\ B[j][i].docNum \div Unit = j
          /\ B[j][i].terms = V[B[j][i].docNum]
      BY <2>1 DEF OfChunks
    <3> QED  BY <1>2, <2>1, <3>1
  <2>2. CASE j = k /\ i = n + 1 /\ B2[j][i] = e
    BY <1>2, <1>3, <2>2 DEF k
  <2> QED  BY <1>7, <2>1, <2>2
<1>9. ASSUME NEW j \in 0..(K - 1), NEW i \in 1..Len(B2[j]), NEW m \in 1..Len(B2[j]), i < m
      PROVE  B2[j][i].docNum < B2[j][m].docNum
  <2>1. i \in 1..Len(B[j]) /\ B2[j][i] = B[j][i]
    <3>1. CASE j = k
      <4>1. i # n + 1
        BY <1>4, <1>5, <1>6, <1>9, <3>1
      <4> QED  BY <1>7, <4>1
    <3>2. CASE j # k
      BY <1>7, <3>2
    <3> QED  BY <3>1, <3>2
  <2>2. B[j][i].docNum \in DOMAIN V
    BY <2>1 DEF OfChunks
  <2>3. CASE m \in 1..Len(B[j]) /\ B2[j][m] = B[j][m]
    <3>1. B[j][i].docNum < B[j][m].docNum
      BY <1>9, <2>1, <2>3 DEF OfChunks
    <3> QED  BY <2>1, <2>3, <3>1
  <2>4. CASE B2[j][m] = e
    BY <1>3, <2>1, <2>2, <2>4
  <2> QED  BY <1>7, <2>3, <2>4
<1>10. ASSUME NEW x \in DOMAIN V2
       PROVE  /\ x \div Unit \in 0..(K - 1)
              /\ \E i \in 1..Len(B2[x \div Unit]) : B2[x \div Unit][i].docNum = x
  <2>1. CASE x = d
    <3>1. n + 1 \in 1..Len(B2[k]) /\ B2[k][n + 1] = e
      BY <1>4, <1>5, <1>6
    <3> QED  BY <1>3, <1>4, <2>1, <3>1 DEF k
  <2>2. CASE x # d
    <3>1. x \in DOMAIN V
      BY <1>2, <2>2
    <3> DEFINE j == x \div Unit
    <3>2. j \in 0..(K - 1) /\ \E i \in 1..Len(B[j]) : B[j][i].docNum = x
      BY <3>1 DEF OfChunks
    <3> HIDE DEF j
    <3>3. PICK i \in 1..Len(B[j]) : B[j][i].docNum = x
      BY <3>2
    <3>4. i \in 1..Len(B2[j]) /\ B2[j][i] = B[j][i]
      <4>1. CASE j # k
        BY <1>6, <3>2, <3>3, <4>1
      <4>2. CASE j = k
        <5>1. i \in 1..n /\ i \in 1..(n + 1)
          BY <1>4, <3>3, <4>2
        <5>2. B2[j] = Append(B[k], e)
          BY <1>6, <4>2
        <5> HIDE DEF n
        <5> QED  BY <1>5, <4>2, <5>1, <5>2
      <4> QED  BY <4>1, <4>2
    <3>5. \E y \in 1..Len(B2[j]) : B2[j][y].docNum = x
      BY <3>3, <3>4
    <3> QED  BY <3>2, <3>5 DEF j
  <2> QED  BY <2>1, <2>2
<1>11. OfChunks(B2, K, V2, T)
  BY <1>2, <1>6, <1>8, <1>9, <1>10 DEF OfChunks
<1> QED  BY <1>11 DEF B2, V2, k, e

LEMMA AddHolds ==
  ASSUME NEW T, NEW K \in Nat, NEW V, NEW c, Holds(c, K, V, T), NEW d \in Nat,
         d \div Unit \in 0..(K - 1), \A e \in DOMAIN V : e < d, NEW ts \in Seq(T)
  PROVE  Holds(Add(c, d, ts), K, Put(V, d, ts), T)
<1> DEFINE k == d \div Unit  e == Entered(c, k)  a == Add(c, d, ts)
           m == [docNum |-> d, end |-> Len(e.chunkBuf \o ts)]
           x == [docNum |-> d, terms |-> ts]
<1>1. PICK B, off : HoldsAs(c, K, V, T, B, off)
  BY DEF Holds
<1> DEFINE B2 == [B EXCEPT ![k] = Append(@, x)]
<1>2. c \in Coders(K, T) /\ OfChunks(B, K, V, T)
      /\ (c.currChunk = 0 \/ \E y \in DOMAIN V : y \div Unit = c.currChunk)
      /\ \A j \in (c.currChunk + 1)..(K - 1) : B[j] = <<>>
  BY <1>1 DEF Holds, HoldsAs
<1>3. c.currChunk <= k /\ c.currChunk \in Nat
  <2>1. k \in Nat /\ c.currChunk \in Nat
    BY <1>2 DEF Coders
  <2>2. ASSUME NEW y \in DOMAIN V PROVE y \div Unit <= k
    <3>1. y \in Nat /\ y <= d
      BY <1>2 DEF OfChunks
    <3> QED  BY <3>1, ChunksGrow
  <2> HIDE DEF k
  <2> QED  BY <1>2, <2>1, <2>2
<1>4. k \in 0..(K - 1)
  OBVIOUS
<1>5. /\ e \in Coders(K, T) /\ e.currChunk = k /\ Block(e.chunkMeta, e.chunkBuf, B[k], T)
      /\ \E off2 : Laid(Data(e), e.chunkLens, off2, B, k, K, T)
  <2> HIDE DEF k
  <2> QED  BY <1>1, <1>2, <1>3, <1>4, EnteredIs
<1>6. a = [e EXCEPT !.chunkBuf = @ \o ts, !.chunkMeta = Append(@, m)]
  <2>1. Add(c, d, ts) = Joined(Entered(c, k), d, ts)
    BY <1>2, AddIsEntered
  <2> HIDE DEF k
  <2> QED  BY <2>1 DEF Joined
<1> HIDE DEF e, a
<1>7. Block(Append(e.chunkMeta, m), e.chunkBuf \o ts, Append(B[k], x), T)
  <2> DEFINE mm == e.chunkMeta  b == e.chunkBuf  es == B[k]
  <2>1. Block(mm, b, es, T)
    BY <1>5
  <2> HIDE DEF mm, b, es
  <2>2. Block(Append(mm, [docNum |-> d, end |-> Len(b \o ts)]), b \o ts,
              Append(es, [docNum |-> d, terms |-> ts]), T)
    BY <2>1, BlockGrows
  <2> QED  BY <2>2 DEF mm, b, es
<1>8. Append(e.chunkMeta, m) \in Seq(Metas) /\ e.chunkBuf \o ts \in Seq(T)
  BY <1>7 DEF Block
<1> HIDE DEF m
<1>9. /\ a \in Coders(K, T) /\ a.currChunk = k /\ a.chunkMeta = Append(e.chunkMeta, m)
      /\ a.chunkBuf = e.chunkBuf \o ts /\ a.chunkLens = e.chunkLens /\ Data(a) = Data(e)
  BY <1>5, <1>6, <1>8 DEF Coders, Data
<1> HIDE DEF x
<1>10. /\ B2[k] = Append(B[k], x) /\ \A j \in 0..(K - 1) : j # k => B2[j] = B[j]
  BY <1>2, <1>4 DEF OfChunks
<1>11. OfChunks(B2, K, Put(V, d, ts), T)
  BY <1>2, PutChunk DEF x
<1> HIDE DEF k, B2
<1>12. PICK off2 : Laid(Data(e), e.chunkLens, off2, B, k, K, T)
  BY <1>5
<1>13. Laid(Data(a), a.chunkLens, off2, B2, k, K, T)
  <2>1. \A j \in 0..(k - 1) : B2[j] = B[j]
    BY <1>4, <1>10
  <2> QED  BY <1>9, <1>12, <2>1 DEF Laid
<1>14. \A j \in (k + 1)..(K - 1) : B2[j] = <<>>
  BY <1>2, <1>3, <1>4, <1>10
<1>15. \E y \in DOMAIN Put(V, d, ts) : y \div Unit = k
  BY DEF Put, k
<1>16. HoldsAs(a, K, Put(V, d, ts), T, B2, off2)
  BY <1>7, <1>9, <1>10, <1>11, <1>13, <1>14, <1>15 DEF HoldsAs
<1> QED  BY <1>9, <1>16 DEF Holds, a

-----------------------------------------------------------------------------
(* What is written, and how it is read.                                    *)

NothingIn == [d \in {} |-> <<>>]
ChunksFor(n) == (n - 1) \div Unit + 1

LEMMA NewHolds ==
  ASSUME NEW T, NEW N \in Nat \ {0}, NEW pw \in BOOLEAN
  PROVE  /\ ChunksFor(N) \in Nat
         /\ Holds(newChunkedContentCoder(ChunkSize, N - 1, pw), ChunksFor(N), NothingIn, T)
<1> DEFINE K == ChunksFor(N)  c == newChunkedContentCoder(ChunkSize, N - 1, pw)
           B == [j \in 0..(K - 1) |-> <<>>]  off == [j \in 0..K |-> 0]
           lens == [j \in 0..(K - 1) |-> 0]
<1>1. K \in Nat /\ 0 \in 0..(K - 1) /\ NumChunks(Unit, N - 1) = K
  <2>1. (N - 1) \div Unit \in Nat
    BY UnitIs
  <2> QED  BY <2>1 DEF ChunksFor, NumChunks, Ints!NumChunks
<1>2. c = [chunkSize |-> Unit, progressiveWrite |-> pw, currChunk |-> 0, chunkLens |-> lens,
           chunkMeta |-> <<>>, chunkBuf |-> <<>>, final |-> <<>>, w |-> <<>>]
  <2>1. c = [chunkSize |-> Unit, progressiveWrite |-> pw, currChunk |-> 0,
             chunkLens |-> [i \in 0..(NumChunks(Unit, N - 1) - 1) |-> 0],
             chunkMeta |-> <<>>, chunkBuf |-> <<>>, final |-> <<>>, w |-> <<>>]
    BY UnitIs DEF newChunkedContentCoder
  <2> HIDE DEF c
  <2> QED  BY <1>1, <2>1
<1> HIDE DEF K, c
<1>3. c \in Coders(K, T)
  <2>1. lens \in [0..(K - 1) -> Nat]
    OBVIOUS
  <2>2. <<>> \in Seq(Metas) /\ <<>> \in Seq(T) /\ <<>> \in Seq(Cells(T))
    OBVIOUS
  <2> HIDE DEF lens
  <2> QED  BY <1>1, <1>2, <2>1, <2>2 DEF Coders
<1>4. Data(c) = <<>> /\ c.currChunk = 0 /\ c.chunkLens = lens
      /\ c.chunkMeta = <<>> /\ c.chunkBuf = <<>>
  BY <1>2 DEF Data
<1>5. OfChunks(B, K, NothingIn, T)
  <2>1. B \in [0..(K - 1) -> Seq(Entries(T))] /\ \A j \in 0..(K - 1) : Len(B[j]) = 0
    OBVIOUS
  <2>2. DOMAIN NothingIn = {} /\ NothingIn \in [DOMAIN NothingIn -> Seq(T)]
    BY DEF NothingIn
  <2>3. 1..0 = {}
    OBVIOUS
  <2> HIDE DEF B
  <2> QED  BY <2>1, <2>2, <2>3 DEF OfChunks
<1>6. Laid(<<>>, lens, off, B, 0, K, T)
  <2>1. <<>> \in Seq(Cells(T)) /\ Len(<<>>) = 0 /\ off \in [0..K -> Nat] /\ off[0] = 0
    BY <1>1
  <2>2. \A j \in 0..(K - 1) : off[j + 1] = off[j] + lens[j]
    BY <1>1
  <2>3. \A j \in 0..K : off[j] = 0
    OBVIOUS
  <2>4. 0..(0 - 1) = {}
    OBVIOUS
  <2> HIDE DEF off, lens, B
  <2> QED  BY <2>1, <2>2, <2>3, <2>4 DEF Laid
<1>7. B[0] = <<>> /\ \A j \in (0 + 1)..(K - 1) : B[j] = <<>>
  BY <1>1
<1>8. Block(<<>>, <<>>, <<>>, T)
  BY EmptyBlock
<1> HIDE DEF B, off, lens
<1>9. HoldsAs(c, K, NothingIn, T, B, off)
  BY <1>4, <1>5, <1>6, <1>7, <1>8 DEF HoldsAs
<1> QED  BY <1>1, <1>3, <1>9 DEF Holds, K, c

\* The file holds V.
FileAs(wr, K, V, T, B, off) ==
  /\ OfChunks(B, K, V, T)
  /\ off \in [0..K -> Nat] /\ off[0] = 0
  /\ \A j \in 0..(K - 1) : /\ wr.offsets[j] = off[j + 1]
                           /\ InPlace(wr.data, off[j], off[j + 1], B[j], T)
FileOf(wr, K, V, T) ==
  /\ K \in Nat /\ wr.data \in Seq(Cells(T)) /\ DOMAIN wr.offsets = 0..(K - 1)
  /\ \E B, off : FileAs(wr, K, V, T, B, off)

\* The offsets are the sums of the lengths.
EndOffsets(lengths, total) ==
  LET end[i \in 0..(total - 1)] == lengths[i] + (IF i = 0 THEN 0 ELSE end[i - 1]) IN end

LEMMA OffsetsAre ==
  ASSUME NEW total \in Nat, NEW lengths, NEW f \in [0..(total - 1) -> Nat],
         \A i \in 0..(total - 1) : f[i] = lengths[i] + (IF i = 0 THEN 0 ELSE f[i - 1])
  PROVE  EndOffsets(lengths, total) = f
<1> DEFINE end == EndOffsets(lengths, total)
<1>1. end = [i \in 0..(total - 1) |-> lengths[i] + (IF i = 0 THEN 0 ELSE end[i - 1])]
  <2>1. f = [i \in 0..(total - 1) |-> lengths[i] + (IF i = 0 THEN 0 ELSE f[i - 1])]
    OBVIOUS
  <2> QED  BY <2>1 DEF EndOffsets
<1> HIDE DEF end
<1> DEFINE Differ == {i \in 0..(total - 1) : end[i] # f[i]}
<1>2. Differ = {}
  <2> SUFFICES ASSUME Differ # {} PROVE FALSE
    OBVIOUS
  <2>1. Differ \in SUBSET Nat
    OBVIOUS
  <2>2. PICK m \in Differ : \A i \in Differ : m <= i
    <3> HIDE DEF Differ
    <3> QED  BY <2>1, Steps!LeastIs
  <2>3. m \in 0..(total - 1) /\ end[m] # f[m] /\ m \in Nat
    OBVIOUS
  <2>4. end[m] = lengths[m] + (IF m = 0 THEN 0 ELSE end[m - 1])
        /\ f[m] = lengths[m] + (IF m = 0 THEN 0 ELSE f[m - 1])
    BY <1>1, <2>3
  <2>5. m # 0
    BY <2>3, <2>4
  <2>6. m - 1 \in 0..(total - 1) /\ ~ (m <= m - 1)
    BY <2>3, <2>5
  <2>7. end[m - 1] = f[m - 1]
    <3>1. m - 1 \notin Differ
      <4> HIDE DEF Differ
      <4> QED  BY <2>2, <2>6
    <3> QED  BY <2>6, <3>1
  <2> QED  BY <2>3, <2>4, <2>5, <2>7
<1>3. \A i \in 0..(total - 1) : end[i] = f[i]
  BY <1>2
<1> QED  BY <1>1, <1>3 DEF end

LEMMA WrittenIs ==
  ASSUME NEW T, NEW K \in Nat, NEW V, NEW c, Holds(c, K, V, T)
  PROVE  FileOf(Written(Close(c)), K, V, T)
<1> DEFINE f == flushContents(c)  n == c.currChunk  wr == Written(Close(c))
           m == c.chunkMeta  b == c.chunkBuf  D == Data(c)  l == c.chunkLens
           lens2 == [l EXCEPT ![n] = 1 + Len(m) + Len(b)]  u == D \o ChunkFor(m, b)
<1>1. PICK B, off : HoldsAs(c, K, V, T, B, off)
  BY DEF Holds
<1>2. /\ c \in Coders(K, T) /\ n \in 0..(K - 1) /\ l \in [0..(K - 1) -> Nat]
      /\ OfChunks(B, K, V, T) /\ Laid(D, l, off, B, n, K, T) /\ Block(m, b, B[n], T)
      /\ \A j \in (n + 1)..(K - 1) : B[j] = <<>>
  BY <1>1 DEF Holds, HoldsAs, Coders
<1>3. f \in Coders(K, T) /\ f.chunkLens = lens2 /\ Data(f) = u
  BY <1>2, FlushIs
<1>4. wr.data = Data(f)
      /\ wr.offsets = EndOffsets(f.chunkLens, Cardinality(DOMAIN f.chunkLens))
  <2>1. wr.data = Data(f)
    BY DEF Written, Close, Data
  <2>2. wr.offsets = Ints!modifyLengthsToEndOffsets(f.chunkLens, Cardinality(DOMAIN f.chunkLens))
    BY DEF Written, Close
  <2>3. \A x, y : Ints!modifyLengthsToEndOffsets(x, y) = EndOffsets(x, y)
    BY DEF Ints!modifyLengthsToEndOffsets, EndOffsets
  <2> HIDE DEF f, wr
  <2> QED  BY <2>1, <2>2, <2>3
<1> HIDE DEF f, n, m, b, D, l
<1>5. PICK off2 : Laid(u, lens2, off2, B, n + 1, K, T)
  BY <1>2, LaidNext
<1>6. lens2 \in [0..(K - 1) -> Nat]
  <2>1. Len(m) \in Nat /\ Len(b) \in Nat
    BY <1>2 DEF Block
  <2> QED  BY <1>2, <2>1
<1> HIDE DEF lens2, u
<1>7. Laid(u, lens2, off2, B, K, K, T)
  <2>1. n + 1 \in 0..K /\ K \in (n + 1)..K
    BY <1>2
  <2> QED  BY <1>2, <1>5, <2>1, LaidOver
<1>8. /\ u \in Seq(Cells(T)) /\ off2 \in [0..K -> Nat] /\ off2[0] = 0
      /\ \A j \in 0..(K - 1) : off2[j + 1] = off2[j] + lens2[j]
      /\ \A j \in 0..(K - 1) : InPlace(u, off2[j], off2[j + 1], B[j], T)
  BY <1>7 DEF Laid
<1> DEFINE g == [j \in 0..(K - 1) |-> off2[j + 1]]
<1>9. g \in [0..(K - 1) -> Nat]
      /\ \A j \in 0..(K - 1) : g[j] = lens2[j] + (IF j = 0 THEN 0 ELSE g[j - 1])
  <2>1. \A j \in 0..(K - 1) : j + 1 \in 0..K /\ j \in 0..K /\ off2[j + 1] \in Nat
    BY <1>8
  <2>2. g \in [0..(K - 1) -> Nat]
    BY <2>1
  <2>3. ASSUME NEW j \in 0..(K - 1) PROVE g[j] = lens2[j] + (IF j = 0 THEN 0 ELSE g[j - 1])
    <3>1. g[j] = off2[j] + lens2[j] /\ off2[j] \in Nat /\ lens2[j] \in Nat
      BY <1>6, <1>8, <2>1
    <3>2. CASE j = 0
      BY <1>8, <3>1, <3>2
    <3>3. CASE j # 0
      <4>1. j - 1 \in 0..(K - 1) /\ (j - 1) + 1 = j
        BY <3>3
      <4>2. g[j - 1] = off2[j]
        BY <4>1
      <4> HIDE DEF g
      <4> QED  BY <3>1, <3>3, <4>2
    <3> QED  BY <3>2, <3>3
  <2> QED  BY <2>2, <2>3
<1> HIDE DEF g
<1>10. EndOffsets(lens2, K) = g
  BY <1>9, OffsetsAre
<1>11. Cardinality(DOMAIN lens2) = K
  <2>1. DOMAIN lens2 = 0..(K - 1)
    BY <1>6
  <2>2. Cardinality(0..(K - 1)) = IF 0 > K - 1 THEN 0 ELSE (K - 1) - 0 + 1
    BY FS_Interval
  <2>3. K \in Nat /\ (K = 0 => Cardinality(0..(K - 1)) = 0)
    BY <2>2
  <2> QED  BY <2>1, <2>2, <2>3
<1>12. wr.data = u /\ wr.offsets = g
  BY <1>3, <1>4, <1>10, <1>11
<1> HIDE DEF wr
<1>13. DOMAIN g = 0..(K - 1) /\ \A j \in 0..(K - 1) : g[j] = off2[j + 1]
  BY DEF g
<1>14. FileAs(wr, K, V, T, B, off2)
  BY <1>2, <1>8, <1>12, <1>13 DEF FileAs
<1> QED  BY <1>8, <1>12, <1>13, <1>14 DEF FileOf, wr

-----------------------------------------------------------------------------
(* The reader.                                                             *)

\* es are the documents of the chunk j.
ChunkHas(es, j, V, T) ==
  /\ es \in Seq(Entries(T))
  /\ \A i \in 1..Len(es) : /\ es[i].docNum \in DOMAIN V /\ es[i].docNum \div Unit = j
                           /\ es[i].terms = V[es[i].docNum]
  /\ \A i, k \in 1..Len(es) : i < k => es[i].docNum < es[k].docNum
  /\ \A d \in DOMAIN V : d \div Unit = j => \E i \in 1..Len(es) : es[i].docNum = d

ValueAt(V, d) == IF d \in DOMAIN V THEN V[d] ELSE <<>>

Readers(wr, T) ==
  [written : {wr}, curChunkNum : Nat \cup {NoChunk}, curChunkHeader : Seq(Metas),
   curChunkData : Seq(T), uncompressed : Seq(T)]

\* The reader has a chunk of the file.
Has(r, es, V, T) ==
  /\ ChunkHas(es, r.curChunkNum, V, T)
  /\ Block(r.curChunkHeader, r.curChunkData, es, T)
  /\ r.uncompressed \in {<<>>, r.curChunkData}
Loaded(r, wr, V, T) ==
  /\ r \in Readers(wr, T)
  /\ r.curChunkNum # NoChunk => \E es : Has(r, es, V, T)

LEMMA ChunkOfFile ==
  ASSUME NEW T, NEW K \in Nat, NEW B, NEW V, OfChunks(B, K, V, T), NEW j \in 0..(K - 1)
  PROVE  ChunkHas(B[j], j, V, T)
<1>1. B[j] \in Seq(Entries(T))
  BY DEF OfChunks
<1>2. \A i \in 1..Len(B[j]) : /\ B[j][i].docNum \in DOMAIN V /\ B[j][i].docNum \div Unit = j
                              /\ B[j][i].terms = V[B[j][i].docNum]
  BY DEF OfChunks
<1>3. \A i, k \in 1..Len(B[j]) : i < k => B[j][i].docNum < B[j][k].docNum
  BY DEF OfChunks
<1>4. \A d \in DOMAIN V : d \div Unit = j => \E i \in 1..Len(B[j]) : B[j][i].docNum = d
  BY DEF OfChunks
<1> QED  BY <1>1, <1>2, <1>3, <1>4 DEF ChunkHas

LEMMA LoadIs ==
  ASSUME NEW T, NEW wr, NEW K, NEW V, FileOf(wr, K, V, T), NEW r \in Readers(wr, T),
         NEW j \in 0..(K - 1)
  PROVE  /\ loadDvChunk(r, j) \in Readers(wr, T) /\ loadDvChunk(r, j).curChunkNum = j
         /\ \E es : Has(loadDvChunk(r, j), es, V, T)
<1>1. K \in Nat /\ \E B, off : FileAs(wr, K, V, T, B, off)
  BY DEF FileOf
<1>2. PICK B, off : FileAs(wr, K, V, T, B, off)
  BY <1>1
<1> DEFINE from == off[j]  to == off[j + 1]  mem == wr.data  docs == mem[from + 1].numDocs
           l == loadDvChunk(r, j)  es == B[j]
<1>3. /\ from \in Nat /\ to \in Nat /\ InPlace(mem, from, to, es, T)
      /\ readChunkBoundary(j, wr.offsets) = [start |-> from, end |-> to]
  <2>1. /\ OfChunks(B, K, V, T) /\ off \in [0..K -> Nat] /\ off[0] = 0
        /\ \A x \in 0..(K - 1) : /\ wr.offsets[x] = off[x + 1]
                                 /\ InPlace(wr.data, off[x], off[x + 1], B[x], T)
    BY <1>2 DEF FileAs
  <2>2. j \in 0..K /\ j + 1 \in 0..K /\ j \in Nat
    BY <1>1
  <2>3. (IF j > 0 THEN wr.offsets[j - 1] ELSE 0) = from
    <3>1. CASE j > 0
      <4>1. j - 1 \in 0..(K - 1) /\ (j - 1) + 1 = j
        BY <1>1, <2>2, <3>1
      <4>2. wr.offsets[j - 1] = off[(j - 1) + 1]
        BY <2>1, <4>1
      <4> QED  BY <3>1, <4>1, <4>2
    <3>2. CASE ~ (j > 0)
      BY <2>1, <2>2, <3>2
    <3> QED  BY <3>1, <3>2
  <2>4. wr.offsets[j] = to
    BY <2>1
  <2> QED  BY <2>1, <2>2, <2>3, <2>4 DEF readChunkBoundary
<1>4. ChunkHas(es, j, V, T)
  BY <1>1, <1>2, ChunkOfFile DEF FileAs
<1>5. /\ r = [written |-> wr, curChunkNum |-> r.curChunkNum,
              curChunkHeader |-> r.curChunkHeader, curChunkData |-> r.curChunkData,
              uncompressed |-> r.uncompressed]
      /\ r.written = wr /\ j \in Nat
  BY <1>1 DEF Readers
<1> HIDE DEF from, to, es
<1>6. l = IF from >= to
          THEN [r EXCEPT !.curChunkNum = j, !.curChunkHeader = <<>>,
                         !.curChunkData = <<>>, !.uncompressed = <<>>]
          ELSE [r EXCEPT !.curChunkNum = j,
                  !.curChunkHeader = SubSeq(mem, from + 2, from + 1 + docs),
                  !.curChunkData   = SubSeq(mem, from + 2 + docs, to),
                  !.uncompressed   = <<>>]
  <2>1. /\ readChunkBoundary(j, r.written.offsets).start = from
        /\ readChunkBoundary(j, r.written.offsets).end = to
        /\ r.written.data = mem
    BY <1>3, <1>5
  <2> HIDE DEF mem
  <2> QED  BY <2>1 DEF loadDvChunk
<1> HIDE DEF l, mem
<1>7. PICK meta, buf :
        /\ Block(meta, buf, es, T)
        /\ l = [r EXCEPT !.curChunkNum = j, !.curChunkHeader = meta,
                         !.curChunkData = buf, !.uncompressed = <<>>]
  <2>1. CASE from >= to
    <3>1. es = <<>>
      <4>1. SUFFICES ASSUME es # <<>> PROVE FALSE
        OBVIOUS
      <4>2. PICK meta, buf : Block(meta, buf, es, T) /\ to = from + 1 + Len(meta) + Len(buf)
        BY <1>3, <4>1 DEF InPlace
      <4>3. Len(meta) \in Nat /\ Len(buf) \in Nat
        BY <4>2 DEF Block
      <4> QED  BY <1>3, <2>1, <4>2, <4>3
    <3>2. Block(<<>>, <<>>, es, T)
      BY <3>1, EmptyBlock
    <3> QED  BY <1>6, <2>1, <3>2
  <2>2. CASE ~ (from >= to)
    <3>1. from # to
      BY <1>3, <2>2
    <3>2. PICK meta, buf :
            /\ Block(meta, buf, es, T)
            /\ docs = Len(meta)
            /\ SubSeq(mem, from + 2, from + 1 + Len(meta)) = meta
            /\ SubSeq(mem, from + 2 + Len(meta), to) = buf
      BY <1>3, <3>1 DEF InPlace
    <3> HIDE DEF docs
    <3>3. l = [r EXCEPT !.curChunkNum = j, !.curChunkHeader = meta,
                        !.curChunkData = buf, !.uncompressed = <<>>]
      BY <1>6, <2>2, <3>2
    <3> QED  BY <3>2, <3>3
  <2> QED  BY <2>1, <2>2
<1>8. meta \in Seq(Metas) /\ buf \in Seq(T) /\ <<>> \in Seq(T)
  BY <1>7 DEF Block
<1>9. l \in Readers(wr, T) /\ l.curChunkNum = j /\ l.curChunkHeader = meta
      /\ l.curChunkData = buf /\ l.uncompressed = <<>>
  BY <1>5, <1>7, <1>8 DEF Readers
<1>10. Has(l, es, V, T)
  BY <1>4, <1>7, <1>9 DEF Has
<1> QED  BY <1>9, <1>10 DEF l

LEMMA EmptyPart ==
  ASSUME NEW T, NEW s \in Seq(T), NEW a \in Nat
  PROVE  SubSeq(s, a + 1, a) = <<>>
<1>1. SubSeq(s, a + 1, a) \in Seq(T) /\ Len(SubSeq(s, a + 1, a)) = 0
  OBVIOUS
<1> QED  BY <1>1

\* A document's terms.
LEMMA BoundaryIs ==
  ASSUME NEW T, NEW meta, NEW buf, NEW es, Block(meta, buf, es, T), NEW i \in 1..Len(es)
  PROVE  /\ Boundary(meta, i).start \in Nat /\ Boundary(meta, i).end = meta[i].end
         /\ Terms(buf, Boundary(meta, i)) = es[i].terms
         /\ Boundary(meta, i).start = Boundary(meta, i).end => es[i].terms = <<>>
<1>1. /\ meta \in Seq(Metas) /\ buf \in Seq(T) /\ Len(meta) = Len(es) /\ Len(es) \in Nat
      /\ es[i].terms = SubSeq(buf, StartOf(meta, i) + 1, meta[i].end)
  BY DEF Block
<1>2. Boundary(meta, i).start = StartOf(meta, i) /\ Boundary(meta, i).end = meta[i].end
  BY DEF Boundary, StartOf
<1>3. StartOf(meta, i) \in Nat
  <2>1. i > 1 => meta[i - 1] \in Metas
    BY <1>1
  <2> QED  BY <2>1 DEF StartOf, Metas
<1>4. Terms(buf, Boundary(meta, i)) = es[i].terms
  BY <1>1, <1>2 DEF Terms
<1>5. ASSUME StartOf(meta, i) = meta[i].end PROVE es[i].terms = <<>>
  BY <1>1, <1>3, <1>5, EmptyPart
<1> QED  BY <1>2, <1>3, <1>4, <1>5

LEMMA VisitIs ==
  ASSUME NEW T, NEW wr, NEW V, NEW r, Loaded(r, wr, V, T), NEW d \in Nat,
         r.curChunkNum = d \div Unit
  PROVE  /\ visitDocValues(r, d).terms = ValueAt(V, d)
         /\ Loaded(visitDocValues(r, d).reader, wr, V, T)
<1> DEFINE h == r.curChunkHeader  data == r.curChunkData  P == Places(r, d)
           v == visitDocValues(r, d)
           u == IF r.uncompressed # <<>> THEN r.uncompressed ELSE data
           p == CHOOSE i \in P : TRUE
           empty == \A i \in P : Boundary(h, i).start = Boundary(h, i).end
<1>1. r.curChunkNum # NoChunk
  <2>1. d \div Unit \in Nat
    BY ChunksGrow
  <2> QED  BY <2>1, DocValuesAssumption
<1>2. PICK es : Has(r, es, V, T)
  BY <1>1 DEF Loaded
<1>3. /\ ChunkHas(es, d \div Unit, V, T) /\ Block(h, data, es, T)
      /\ r.uncompressed \in {<<>>, data} /\ r \in Readers(wr, T)
  BY <1>2 DEF Has, Loaded
<1>4. u = data
  BY <1>3
<1>5. DOMAIN h = 1..Len(es) /\ \A i \in 1..Len(es) : h[i].docNum = es[i].docNum
  BY <1>3 DEF Block
<1>6. \A i : i \in P <=> i \in 1..Len(es) /\ es[i].docNum = d
  BY <1>5 DEF Places
<1>7. v = IF empty THEN [reader |-> r, terms |-> <<>>]
          ELSE [reader |-> [r EXCEPT !.uncompressed = u], terms |-> Terms(u, Boundary(h, p))]
  BY DEF visitDocValues
<1> HIDE DEF P, u, v, h, data
<1>8. ASSUME NEW i \in P
      PROVE  d \in DOMAIN V /\ Terms(data, Boundary(h, i)) = V[d]
             /\ (Boundary(h, i).start = Boundary(h, i).end => V[d] = <<>>)
  <2>1. i \in 1..Len(es) /\ es[i].docNum = d
    BY <1>6
  <2>2. d \in DOMAIN V /\ es[i].terms = V[d]
    BY <1>3, <2>1 DEF ChunkHas
  <2>3. /\ Terms(data, Boundary(h, i)) = es[i].terms
        /\ Boundary(h, i).start = Boundary(h, i).end => es[i].terms = <<>>
    BY <1>3, <2>1, BoundaryIs
  <2> QED  BY <2>2, <2>3
<1>9. P = {} => d \notin DOMAIN V
  BY <1>3, <1>6 DEF ChunkHas
<1>10. CASE empty
  <2>1. v.terms = <<>> /\ v.reader = r
    BY <1>7, <1>10
  <2>2. ValueAt(V, d) = <<>>
    <3>1. CASE P = {}
      BY <1>9, <3>1 DEF ValueAt
    <3>2. CASE P # {}
      <4>1. PICK i \in P : TRUE
        BY <3>2
      <4>2. Boundary(h, i).start = Boundary(h, i).end
        BY <1>10
      <4> QED  BY <1>8, <4>1, <4>2 DEF ValueAt
    <3> QED  BY <3>1, <3>2
  <2> QED  BY <2>1, <2>2 DEF v
<1>11. CASE ~ empty
  <2>1. P # {}
    BY <1>11
  <2>2. p \in P
    BY <2>1
  <2> HIDE DEF p, empty
  <2>3. v.terms = Terms(u, Boundary(h, p)) /\ v.reader = [r EXCEPT !.uncompressed = u]
    BY <1>7, <1>11
  <2>4. v.terms = ValueAt(V, d)
    BY <1>4, <1>8, <2>2, <2>3 DEF ValueAt
  <2>5. data \in Seq(T)
    BY <1>3 DEF Block
  <2>6. /\ v.reader \in Readers(wr, T) /\ v.reader.curChunkNum = r.curChunkNum
        /\ v.reader.curChunkHeader = h /\ v.reader.curChunkData = data
        /\ v.reader.uncompressed = data
    BY <1>3, <1>4, <2>3, <2>5 DEF Readers, h, data
  <2>7. Has(v.reader, es, V, T)
    BY <1>2, <1>3, <2>6 DEF Has, h, data
  <2>8. Loaded(v.reader, wr, V, T)
    BY <2>6, <2>7 DEF Loaded
  <2> QED  BY <2>4, <2>8 DEF v
<1> QED  BY <1>10, <1>11

-----------------------------------------------------------------------------
(* All documents of a reader.                                              *)

EntriesOf(l) ==
  [i \in DOMAIN l.curChunkHeader |->
    [docNum |-> l.curChunkHeader[i].docNum,
     terms  |-> Terms(l.curChunkData, Boundary(l.curChunkHeader, i))]]
GotStep(di, acc, n) == acc \o EntriesOf(loadDvChunk(di, n - 1))
Got == INSTANCE FoldSteps WITH op <- GotStep

LEMMA IterateIs ==
  ASSUME NEW di
  PROVE  LET n == Cardinality(DOMAIN di.written.offsets)
         IN  iterateAllDocValues(di) = Got!Counted(di, <<>>, n)[n]
BY DEF iterateAllDocValues, Got!Counted, GotStep, EntriesOf

\* s are the documents of the first n chunks.
FirstChunks(s, n, V, T) ==
  /\ s \in Seq(Entries(T))
  /\ \A i \in 1..Len(s) : /\ s[i].docNum \in DOMAIN V /\ s[i].docNum \div Unit < n
                          /\ s[i].terms = V[s[i].docNum]
  /\ \A i, k \in 1..Len(s) : i < k => s[i].docNum < s[k].docNum
  /\ \A d \in DOMAIN V : d \div Unit < n => \E i \in 1..Len(s) : s[i].docNum = d

LEMMA OneMoreChunk ==
  ASSUME NEW T, NEW V, DOMAIN V \subseteq Nat, NEW n \in Nat, NEW s, FirstChunks(s, n, V, T),
         NEW es, ChunkHas(es, n, V, T)
  PROVE  FirstChunks(s \o es, n + 1, V, T)
<1> DEFINE u == s \o es  m == Len(s)
<1>1. s \in Seq(Entries(T)) /\ es \in Seq(Entries(T))
  BY DEF FirstChunks, ChunkHas
<1>2. /\ u \in Seq(Entries(T)) /\ m \in Nat /\ Len(es) \in Nat /\ Len(u) = m + Len(es)
      /\ \A i \in 1..m : u[i] = s[i]
      /\ \A i \in 1..Len(es) : u[m + i] = es[i]
  BY <1>1, JoinIs
<1> HIDE DEF u, m
<1>3. \A d \in DOMAIN V : d \in Nat /\ d \div Unit \in Nat
  BY ChunksGrow
<1>4. ASSUME NEW i \in 1..m
      PROVE  /\ u[i].docNum \in DOMAIN V /\ u[i].docNum \div Unit < n
             /\ u[i].terms = V[u[i].docNum]
  BY <1>2 DEF FirstChunks, m
<1>5. ASSUME NEW i \in 1..Len(u), i \notin 1..m
      PROVE  /\ i - m \in 1..Len(es) /\ u[i] = es[i - m]
             /\ u[i].docNum \in DOMAIN V /\ u[i].docNum \div Unit = n
             /\ u[i].terms = V[u[i].docNum]
  <2>1. i - m \in 1..Len(es) /\ m + (i - m) = i
    BY <1>2, <1>5
  <2>2. u[i] = es[i - m]
    BY <1>2, <2>1
  <2> QED  BY <2>1, <2>2 DEF ChunkHas
<1>6. ASSUME NEW i \in 1..Len(u)
      PROVE  /\ u[i].docNum \in DOMAIN V /\ u[i].docNum \div Unit < n + 1
             /\ u[i].terms = V[u[i].docNum]
  <2>1. CASE i \in 1..m
    BY <1>3, <1>4, <2>1
  <2>2. CASE i \notin 1..m
    BY <1>3, <1>5, <2>2
  <2> QED  BY <2>1, <2>2
<1>7. ASSUME NEW i \in 1..Len(u), NEW k \in 1..Len(u), i < k
      PROVE  u[i].docNum < u[k].docNum
  <2>1. CASE i \in 1..m /\ k \in 1..m
    BY <1>2, <1>7, <2>1 DEF FirstChunks, m
  <2>2. CASE i \in 1..m /\ k \notin 1..m
    <3> DEFINE x == u[i].docNum  y == u[k].docNum
    <3>1. x \in Nat /\ y \in Nat /\ x \div Unit < n /\ y \div Unit = n
      BY <1>3, <1>4, <1>5, <2>2
    <3> HIDE DEF x, y
    <3>2. ~ (y <= x)
      <4>1. y <= x => y \div Unit <= x \div Unit /\ x \div Unit \in Nat
        BY <3>1, ChunksGrow
      <4> QED  BY <3>1, <4>1
    <3>3. x < y
      BY <3>1, <3>2
    <3> QED  BY <3>3 DEF x, y
  <2>3. CASE i \notin 1..m
    <3>1. k \notin 1..m
      BY <1>2, <1>7, <2>3
    <3>2. u[i] = es[i - m] /\ u[k] = es[k - m] /\ i - m \in 1..Len(es) /\ k - m \in 1..Len(es)
      BY <1>5, <2>3, <3>1
    <3>3. i - m < k - m
      BY <1>2, <1>7
    <3> QED  BY <3>2, <3>3 DEF ChunkHas
  <2> QED  BY <2>1, <2>2, <2>3
<1>8. ASSUME NEW d \in DOMAIN V, d \div Unit < n + 1
      PROVE  \E i \in 1..Len(u) : u[i].docNum = d
  <2>1. CASE d \div Unit < n
    <3>1. PICK i \in 1..Len(s) : s[i].docNum = d
      BY <2>1 DEF FirstChunks
    <3>2. i \in 1..Len(u) /\ i \in 1..m
      BY <1>2, <3>1 DEF m
    <3> QED  BY <1>2, <3>1, <3>2
  <2>2. CASE d \div Unit = n
    <3>1. PICK i \in 1..Len(es) : es[i].docNum = d
      BY <2>2 DEF ChunkHas
    <3>2. m + i \in 1..Len(u)
      BY <1>2, <3>1
    <3> QED  BY <1>2, <3>1, <3>2
  <2> QED  BY <1>3, <1>8, <2>1, <2>2
<1>9. FirstChunks(u, n + 1, V, T)
  BY <1>2, <1>6, <1>7, <1>8 DEF FirstChunks
<1> QED  BY <1>9 DEF u

LEMMA NoChunksYet ==
  ASSUME NEW T, NEW V, DOMAIN V \subseteq Nat
  PROVE  FirstChunks(<<>>, 0, V, T)
<1>1. \A d \in DOMAIN V : ~ (d \div Unit < 0)
  <2>1. \A d \in DOMAIN V : d \div Unit \in Nat
    BY ChunksGrow
  <2> QED  BY <2>1
<1>2. <<>> \in Seq(Entries(T)) /\ Len(<<>>) = 0 /\ 1..0 = {}
  OBVIOUS
<1> QED  BY <1>1, <1>2 DEF FirstChunks

LEMMA EntriesAre ==
  ASSUME NEW T, NEW V, NEW l, NEW es, Has(l, es, V, T)
  PROVE  EntriesOf(l) = es
<1> DEFINE h == l.curChunkHeader  b == l.curChunkData
<1>1. Block(h, b, es, T)
  BY DEF Has
<1>2. /\ es \in Seq(Entries(T)) /\ DOMAIN h = 1..Len(es)
      /\ \A i \in 1..Len(es) : h[i].docNum = es[i].docNum
  BY <1>1 DEF Block
<1>3. ASSUME NEW i \in 1..Len(es)
      PROVE  [docNum |-> h[i].docNum, terms |-> Terms(b, Boundary(h, i))] = es[i]
  <2>1. Terms(b, Boundary(h, i)) = es[i].terms
    BY <1>1, BoundaryIs
  <2>2. es[i] \in Entries(T)
    BY <1>2
  <2> QED  BY <1>2, <2>1, <2>2 DEF Entries
<1>4. es = [i \in 1..Len(es) |-> es[i]]
  BY <1>2
<1>5. EntriesOf(l) = [i \in 1..Len(es) |->
                       [docNum |-> h[i].docNum, terms |-> Terms(b, Boundary(h, i))]]
  BY <1>2 DEF EntriesOf
<1> HIDE DEF h, b
<1> QED  BY <1>3, <1>4, <1>5

LEMMA AllDocuments ==
  ASSUME NEW T, NEW wr, NEW K, NEW V, FileOf(wr, K, V, T), NEW r \in Readers(wr, T)
  PROVE  FirstChunks(iterateAllDocValues(r), K, V, T)
<1> DEFINE w == Got!Counted(r, <<>>, K)
           S == {n \in 0..K : FirstChunks(w[n], n, V, T)}
<1>1. K \in Nat /\ DOMAIN wr.offsets = 0..(K - 1) /\ DOMAIN V \subseteq Nat /\ r.written = wr
  <2>1. PICK B, off : FileAs(wr, K, V, T, B, off)
    BY DEF FileOf
  <2>2. DOMAIN V \subseteq Nat
    BY <2>1 DEF FileAs, OfChunks
  <2> QED  BY <2>2 DEF FileOf, Readers
<1>2. Cardinality(0..(K - 1)) = K
  <2>1. Cardinality(0..(K - 1)) = IF 0 > K - 1 THEN 0 ELSE (K - 1) - 0 + 1
    BY <1>1, FS_Interval
  <2> QED  BY <1>1, <2>1
<1>3. iterateAllDocValues(r) = w[K]
  <2>1. Cardinality(DOMAIN r.written.offsets) = K
    BY <1>1, <1>2
  <2> QED  BY <2>1, IterateIs
<1>4. w[0] = <<>> /\ \A k \in 1..K : w[k] = GotStep(r, w[k - 1], k)
  BY <1>1, Got!CountedSteps
<1> HIDE DEF w
<1>5. 0 \in S
  BY <1>1, <1>4, NoChunksYet
<1>6. ASSUME NEW k \in 1..K, k - 1 \in S PROVE k \in S
  <2>1. k - 1 \in 0..(K - 1) /\ k - 1 \in Nat /\ (k - 1) + 1 = k /\ k \in 0..K
    BY <1>1
  <2>2. PICK es : Has(loadDvChunk(r, k - 1), es, V, T)
    BY <2>1, LoadIs
  <2>3. loadDvChunk(r, k - 1).curChunkNum = k - 1
    BY <2>1, LoadIs
  <2>4. ChunkHas(es, k - 1, V, T) /\ EntriesOf(loadDvChunk(r, k - 1)) = es
    BY <2>2, <2>3, EntriesAre DEF Has
  <2>5. w[k] = w[k - 1] \o es
    BY <1>4, <2>4 DEF GotStep
  <2>6. FirstChunks(w[k - 1] \o es, (k - 1) + 1, V, T)
    BY <1>1, <1>6, <2>1, <2>4, OneMoreChunk
  <2> QED  BY <2>1, <2>5, <2>6
<1>7. K \in S
  <2> HIDE DEF S
  <2>1. K \in 0..K
    BY <1>1
  <2> QED  BY <1>1, <1>5, <1>6, <2>1, Steps!UpTo
<1> QED  BY <1>3, <1>7

-----------------------------------------------------------------------------
(* The builder.                                                            *)

TermSet == Nat \X Nat \X Nat \X Nat

LEMMA SegsAre ==
  /\ Len(NumDocs) \in Nat /\ Segs = 1..Len(NumDocs)
  /\ \A i \in Segs : i \in Nat /\ NumDocs[i] \in Nat /\ Docs(i) = 0..(NumDocs[i] - 1)
                     /\ Docs(i) \subseteq Nat
  /\ Fields \subseteq Nat
<1>1. NumDocs \in Seq(Nat)
  BY DocValuesAssumption
<1>2. Cardinality(Fields) \in Nat /\ Fields = 0..(Cardinality(Fields) - 1)
  BY DocValuesAssumption, FS_CardinalityType
<1>3. Len(NumDocs) \in Nat /\ Segs = 1..Len(NumDocs)
  BY <1>1 DEF Segs
<1> QED  BY <1>1, <1>2, <1>3 DEF Docs

LEMMA TermsAre ==
  ASSUME NEW i \in Segs, NEW d \in Docs(i), NEW f \in Fields
  PROVE  TermsOf(i, d, f) \in Seq(TermSet)
<1>1. i \in Nat /\ d \in Nat /\ f \in Nat
  BY SegsAre
<1>2. NumTerms[d] \in Nat
  <2>1. d \in UNION {Docs(j) : j \in Segs}
    OBVIOUS
  <2> QED  BY <2>1, DocValuesAssumption
<1> DEFINE n == NumTerms[d]
<1>3. \A k \in 1..n : <<i, d, f, k>> \in TermSet
  BY <1>1, <1>2 DEF TermSet
<1> HIDE DEF n
<1>4. [k \in 1..n |-> <<i, d, f, k>>] \in Seq(TermSet)
  BY <1>2, <1>3 DEF n
<1> QED  BY <1>4 DEF TermsOf, n

BuiltStep(V, c, n) == IF n - 1 \in DOMAIN V THEN Add(c, n - 1, V[n - 1]) ELSE c
Built == INSTANCE FoldSteps WITH op <- BuiltStep

BuiltOf(V, n) ==
  Written(Close(Built!Counted(V, newChunkedContentCoder(ChunkSize, n - 1, FALSE), n)[n]))

LEMMA BuilderIs ==
  ASSUME NEW i, NEW f
  PROVE  WrittenByBuilder(i, f) = BuiltOf([d \in segs[i].has[f] |-> TermsOf(i, d, f)], NumDocs[i])
BY DEF WrittenByBuilder, BuiltOf, Built!Counted, BuiltStep

\* What comes before the document n.
Before(V, n) == [d \in {e \in DOMAIN V : e < n} |-> V[d]]

LEMMA BuiltHolds ==
  ASSUME NEW T, NEW N \in Nat \ {0}, NEW V, V \in [DOMAIN V -> Seq(T)],
         DOMAIN V \subseteq 0..(N - 1)
  PROVE  FileOf(BuiltOf(V, N), ChunksFor(N), V, T)
<1> DEFINE K == ChunksFor(N)  base == newChunkedContentCoder(ChunkSize, N - 1, FALSE)
           w == Built!Counted(V, base, N)
           S == {n \in 0..N : Holds(w[n], K, Before(V, n), T)}
<1>1. w[0] = base /\ \A k \in 1..N : w[k] = BuiltStep(V, w[k - 1], k)
  <2>1. N \in Nat
    OBVIOUS
  <2> HIDE DEF base
  <2> QED  BY <2>1, Built!CountedSteps
<1>2. K \in Nat /\ Holds(base, K, NothingIn, T)
  BY NewHolds
<1> HIDE DEF w, base
<1>3. 0 \in S
  <2>1. {e \in DOMAIN V : e < 0} = {}
    OBVIOUS
  <2>2. Before(V, 0) = NothingIn
    BY <2>1 DEF Before, NothingIn
  <2> QED  BY <1>1, <1>2, <2>2
<1>4. ASSUME NEW k \in 1..N, k - 1 \in S PROVE k \in S
  <2> DEFINE d == k - 1
  <2>1. k \in 0..N /\ d \in Nat /\ d \in 0..(N - 1) /\ k \in Nat /\ d + 1 = k
    OBVIOUS
  <2>2. Holds(w[d], K, Before(V, d), T)
    BY <1>4
  <2>3. w[k] = BuiltStep(V, w[d], k)
    BY <1>1
  <2> HIDE DEF d
  <2>4. \A e \in DOMAIN V : e < k <=> e < d \/ e = d
    BY <2>1
  <2>5. CASE d \in DOMAIN V
    <3>1. w[k] = Add(w[d], d, V[d])
      BY <2>3, <2>5 DEF BuiltStep, d
    <3>2. Before(V, k) = Put(Before(V, d), d, V[d])
      <4>1. DOMAIN Before(V, d) = {e \in DOMAIN V : e < d}
        BY DEF Before
      <4>2. {e \in DOMAIN V : e < k} = {e \in DOMAIN V : e < d} \cup {d}
        BY <2>4, <2>5
      <4>3. \A e \in {x \in DOMAIN V : x < d} : e # d /\ Before(V, d)[e] = V[e]
        BY <2>1 DEF Before
      <4> QED  BY <4>1, <4>2, <4>3 DEF Before, Put
    <3>3. d \div Unit \in 0..(K - 1)
      <4>1. d \in Nat /\ N - 1 \in Nat /\ d <= N - 1
        BY <2>1
      <4>2. d \div Unit \in Nat /\ (N - 1) \div Unit \in Nat /\ d \div Unit <= (N - 1) \div Unit
        BY <4>1, ChunksGrow
      <4>3. K = (N - 1) \div Unit + 1
        BY DEF ChunksFor
      <4> HIDE DEF K
      <4> QED  BY <4>2, <4>3
    <3>4. V[d] \in Seq(T) /\ \A e \in DOMAIN Before(V, d) : e < d
      BY <2>5 DEF Before
    <3> HIDE DEF K
    <3>5. Holds(Add(w[d], d, V[d]), K, Put(Before(V, d), d, V[d]), T)
      BY <1>2, <2>1, <2>2, <3>3, <3>4, AddHolds
    <3> QED  BY <2>1, <3>1, <3>2, <3>5
  <2>6. CASE d \notin DOMAIN V
    <3>1. w[k] = w[d]
      BY <2>3, <2>6 DEF BuiltStep, d
    <3>2. {e \in DOMAIN V : e < k} = {e \in DOMAIN V : e < d}
      BY <2>4, <2>6
    <3>3. Before(V, k) = Before(V, d)
      BY <3>2 DEF Before
    <3> QED  BY <2>1, <2>2, <3>1, <3>3
  <2> QED  BY <2>5, <2>6
<1>5. N \in S
  <2> HIDE DEF S
  <2>1. N \in 0..N
    OBVIOUS
  <2> QED  BY <1>3, <1>4, <2>1, Steps!UpTo
<1>6. Before(V, N) = V
  <2>1. \A e \in DOMAIN V : e < N
    <3>1. \A e \in 0..(N - 1) : e < N
      OBVIOUS
    <3> QED  BY <3>1
  <2>2. {e \in DOMAIN V : e < N} = DOMAIN V
    BY <2>1
  <2> QED  BY <2>2 DEF Before
<1>7. Holds(w[N], K, V, T)
  BY <1>5, <1>6
<1> HIDE DEF K
<1>8. FileOf(Written(Close(w[N])), K, V, T)
  BY <1>2, <1>7, WrittenIs
<1> QED  BY <1>8 DEF BuiltOf, K, w, base

-----------------------------------------------------------------------------
(* The new numbers.                                                        *)

Chosen == /\ segs \in [Segs -> UNION {Batches[i] : i \in Segs}]
          /\ \A i \in Segs : segs[i] \in Batches[i] /\ drops[i] \subseteq Docs(i)
          /\ NewDocCount > 0

Source(n) == CHOOSE p \in Survivors : NewNum(p) = n
Earlier(p, q) == p[1] < q[1] \/ (p[1] = q[1] /\ p[2] < q[2])

LEMMA SmallerSet ==
  ASSUME NEW S, IsFiniteSet(S), NEW T, \A k \in T : k \in S,
         NEW x \in S, x \notin T
  PROVE  /\ Cardinality(T) \in Nat /\ Cardinality(S) \in Nat
         /\ Cardinality(T) < Cardinality(S)
<1>1. T \in SUBSET S
  OBVIOUS
<1>2. /\ IsFiniteSet(T) /\ Cardinality(T) <= Cardinality(S)
      /\ Cardinality(S) = Cardinality(T) => S = T
  BY <1>1, FS_Subset
<1>3. Cardinality(T) \in Nat /\ Cardinality(S) \in Nat
  BY <1>2, FS_CardinalityType
<1>4. S # T
  OBVIOUS
<1> QED  BY <1>2, <1>3, <1>4

LEMMA SurvivorIs ==
  ASSUME NEW p \in Survivors
  PROVE  /\ p = <<p[1], p[2]>> /\ p[1] \in Segs /\ p[1] \in Nat
         /\ p[2] \in Docs(p[1]) /\ p[2] \in Nat /\ p[2] \notin drops[p[1]]
<1>1. PICK i \in Segs : p \in {i} \X Docs(i)
  BY DEF Survivors
<1> QED  BY <1>1, SegsAre DEF Survivors

LEMMA SurvivorWhen ==
  ASSUME NEW i \in Segs, NEW d \in Docs(i), d \notin drops[i]
  PROVE  <<i, d>> \in Survivors
BY DEF Survivors

LEMMA SurvivorsFinite == IsFiniteSet(Survivors) /\ NewDocCount \in Nat
<1> DEFINE Of(i) == {i} \X Docs(i)
           S == {Of(i) : i \in Segs}
           f == [i \in Segs |-> Of(i)]
<1>1. IsFiniteSet(S)
  <2>1. f \in Surjection(Segs, S)
    BY DEF Surjection
  <2>2. IsFiniteSet(Segs)
    BY SegsAre, FS_Interval
  <2> QED  BY <2>1, <2>2, FS_Surjection
<1>2. \A T \in S : IsFiniteSet(T)
  <2>1. ASSUME NEW i \in Segs PROVE IsFiniteSet(Of(i))
    <3>1. IsFiniteSet(Docs(i))
      <4>1. NumDocs[i] - 1 \in Int /\ Docs(i) = 0..(NumDocs[i] - 1)
        BY SegsAre
      <4> QED  BY <4>1, FS_Interval
    <3> QED  BY <3>1, FS_Singleton, FS_Product
  <2> QED  BY <2>1
<1>3. IsFiniteSet(UNION S)
  <2> HIDE DEF S
  <2> QED  BY <1>1, <1>2, FS_UNION
<1>4. Survivors \in SUBSET UNION S
  BY DEF Survivors
<1>5. IsFiniteSet(Survivors)
  BY <1>3, <1>4, FS_Subset
<1> QED  BY <1>5, FS_CardinalityType DEF NewDocCount

LEMMA NumberIs ==
  ASSUME NEW p \in Survivors
  PROVE  NewNum(p) \in Nat /\ NewNum(p) \in 0..(NewDocCount - 1)
<1> DEFINE S == {q \in Survivors : q[1] < p[1] \/ (q[1] = p[1] /\ q[2] < p[2])}
<1>1. \A q \in S : q \in Survivors
  OBVIOUS
<1>2. p \notin S
  BY SurvivorIs
<1>3. NewNum(p) = Cardinality(S)
  BY DEF NewNum
<1> HIDE DEF S
<1>4. Cardinality(S) \in Nat /\ NewDocCount \in Nat /\ Cardinality(S) < NewDocCount
  BY <1>1, <1>2, SurvivorsFinite, SmallerSet DEF NewDocCount
<1> QED  BY <1>3, <1>4

LEMMA NumbersGrow ==
  ASSUME NEW p \in Survivors, NEW q \in Survivors, Earlier(p, q)
  PROVE  NewNum(p) < NewNum(q)
<1> DEFINE S(x) == {y \in Survivors : y[1] < x[1] \/ (y[1] = x[1] /\ y[2] < x[2])}
<1>1. /\ p[1] \in Nat /\ p[2] \in Nat /\ q[1] \in Nat /\ q[2] \in Nat
      /\ \A y \in Survivors : y[1] \in Nat /\ y[2] \in Nat
  BY SurvivorIs
<1>2. (\A y \in S(p) : y \in S(q)) /\ p \in S(q) /\ p \notin S(p)
  BY <1>1 DEF Earlier
<1>3. S(q) \in SUBSET Survivors
  OBVIOUS
<1>4. NewNum(p) = Cardinality(S(p)) /\ NewNum(q) = Cardinality(S(q))
  BY DEF NewNum
<1> HIDE DEF S
<1>5. IsFiniteSet(S(q))
  BY <1>3, SurvivorsFinite, FS_Subset
<1> QED  BY <1>2, <1>4, <1>5, SmallerSet

\* A new number is that of one document.
LEMMA SourceIs ==
  ASSUME NEW p \in Survivors
  PROVE  /\ Source(NewNum(p)) = p
         /\ \A q \in Survivors : NewNum(q) = NewNum(p) => q = p
<1>1. ASSUME NEW q \in Survivors, NewNum(q) = NewNum(p) PROVE q = p
  <2>1. NewNum(p) \in Nat
    BY NumberIs
  <2>2. ~ Earlier(p, q)
    BY <1>1, <2>1, NumbersGrow
  <2>3. ~ Earlier(q, p)
    BY <1>1, <2>1, NumbersGrow
  <2>4. p = <<p[1], p[2]>> /\ q = <<q[1], q[2]>>
        /\ p[1] \in Nat /\ p[2] \in Nat /\ q[1] \in Nat /\ q[2] \in Nat
    BY SurvivorIs
  <2>5. p[1] = q[1] /\ p[2] = q[2]
    BY <2>2, <2>3, <2>4 DEF Earlier
  <2> QED  BY <2>4, <2>5
<1> QED  BY <1>1 DEF Source

\* Every number is that of some document.
LEMMA NumberFrom ==
  ASSUME NEW n \in 0..(NewDocCount - 1)
  PROVE  Source(n) \in Survivors /\ NewNum(Source(n)) = n
<1> DEFINE S == Survivors  T == 0..(NewDocCount - 1)  f == [p \in S |-> NewNum(p)]
<1>1. IsFiniteSet(S) /\ NewDocCount \in Nat /\ Cardinality(S) = NewDocCount
  BY SurvivorsFinite DEF NewDocCount
<1>2. IsFiniteSet(T) /\ Cardinality(T) = NewDocCount
  <2>1. IsFiniteSet(T) /\ Cardinality(T)
          = IF 0 > NewDocCount - 1 THEN 0 ELSE (NewDocCount - 1) - 0 + 1
    BY <1>1, FS_Interval
  <2> QED  BY <1>1, <2>1
<1>3. f \in Injection(S, T)
  <2>1. f \in [S -> T]
    BY NumberIs
  <2>2. ASSUME NEW p \in S, NEW q \in S, f[p] = f[q] PROVE p = q
    BY <2>2, SourceIs
  <2> HIDE DEF f, S, T
  <2> QED  BY <2>1, <2>2 DEF Injection, IsInjective
<1>4. f \in Surjection(S, T)
  <2> HIDE DEF f, S, T
  <2> QED  BY <1>1, <1>2, <1>3, FS_Injection
<1>5. \E p \in S : f[p] = n
  <2>1. n \in T
    OBVIOUS
  <2> HIDE DEF f, S, T
  <2> QED  BY <1>4, <2>1 DEF Surjection
<1>6. \E p \in Survivors : NewNum(p) = n
  BY <1>5
<1> QED  BY <1>6 DEF Source

-----------------------------------------------------------------------------
(* What segments know of a field whose mapping has changed.                *)

Infos == [index : BOOLEAN, store : BOOLEAN, docValues : BOOLEAN]

\* The flags of two segments are not mixed: merge.go:655 loses a flag where
\* they are.
FlagsApart ==
  /\ NoInfo \notin Infos
  /\ \A i, j \in Segs : \A b \in Batches[i], c \in Batches[j] : \A f \in Fields :
       \/ i = j \/ b.updated[f] = NoInfo \/ c.updated[f] = NoInfo
       \/ /\ ~ b.updated[f].store /\ ~ b.updated[f].docValues
          /\ ~ c.updated[f].store /\ ~ c.updated[f].docValues

CombineStep(p, acc, info) == Combine(acc, info)
Merged == INSTANCE FoldSteps WITH op <- CombineStep

LEMMA MergedInfoIs ==
  ASSUME NEW s
  PROVE  FoldLeft(Combine, NoInfo, s) = Merged!Left(0, NoInfo, s, DOMAIN s)
BY Zenon DEF FoldLeft, MapThenFoldSet, Max, Merged!Left, Merged!Highest, CombineStep

\* The information of the first n segments has been combined in acc.
Combined(acc, n, s) ==
  /\ acc \in Infos \cup {NoInfo}
  /\ acc = NoInfo <=> \A i \in 1..n : s[i] = NoInfo
  /\ acc # NoInfo =>
       /\ acc.index     <=> \E i \in 1..n : s[i] # NoInfo /\ s[i].index
       /\ acc.store     <=> \E i \in 1..n : s[i] # NoInfo /\ s[i].store
       /\ acc.docValues <=> \E i \in 1..n : s[i] # NoInfo /\ s[i].docValues

LEMMA CombineIs ==
  ASSUME NEW N \in Nat, NEW s, \A i \in 1..N : s[i] \in Infos \cup {NoInfo},
         NoInfo \notin Infos,
         \A i, j \in 1..N : \/ i = j \/ s[i] = NoInfo \/ s[j] = NoInfo
                            \/ /\ ~ s[i].store /\ ~ s[i].docValues
                               /\ ~ s[j].store /\ ~ s[j].docValues,
         NEW n \in 1..N, NEW acc, Combined(acc, n - 1, s)
  PROVE  Combined(Combine(acc, s[n]), n, s)
<1> DEFINE new == Combine(acc, s[n])
<1>1. \A i : i \in 1..n <=> i \in 1..(n - 1) \/ i = n
  OBVIOUS
<1>2. CASE s[n] = NoInfo
  <2>1. new = acc
    BY <1>2 DEF Combine
  <2> QED  BY <1>1, <1>2, <2>1 DEF Combined
<1>3. CASE s[n] # NoInfo /\ acc = NoInfo
  <2>1. new = s[n] /\ s[n] \in Infos
    BY <1>3 DEF Combine
  <2>2. \A i \in 1..(n - 1) : s[i] = NoInfo
    BY <1>3 DEF Combined
  <2> QED  BY <1>1, <1>3, <2>1, <2>2 DEF Combined
<1>4. CASE s[n] # NoInfo /\ acc # NoInfo
  <2>1. s[n] \in Infos /\ acc \in Infos
    BY <1>4 DEF Combined
  <2>2. new = [index |-> acc.index \/ s[n].index, store |-> acc.store \/ s[n].store,
               docValues |-> acc.store \/ s[n].store \/ s[n].docValues]
    BY <1>4 DEF Combine
  <2>3. new \in Infos /\ new.index = (acc.index \/ s[n].index)
        /\ new.store = (acc.store \/ s[n].store)
        /\ new.docValues = (acc.store \/ s[n].store \/ s[n].docValues)
    <3> HIDE DEF new
    <3>1. (acc.index \/ s[n].index) \in BOOLEAN /\ (acc.store \/ s[n].store) \in BOOLEAN
          /\ (acc.store \/ s[n].store \/ s[n].docValues) \in BOOLEAN
      OBVIOUS
    <3> QED  BY <2>2, <3>1 DEF Infos
  <2>4. PICK k \in 1..(n - 1) : s[k] # NoInfo
    BY <1>4 DEF Combined
  <2>5. k # n /\ k \in 1..N /\ n \in 1..N
    OBVIOUS
  <2>6. ~ s[n].store /\ ~ s[n].docValues
    BY <1>4, <2>4, <2>5
  <2>7. \A i \in 1..(n - 1) : s[i] # NoInfo => ~ s[i].store /\ ~ s[i].docValues
    <3> SUFFICES ASSUME NEW i \in 1..(n - 1), s[i] # NoInfo
                 PROVE  ~ s[i].store /\ ~ s[i].docValues
      OBVIOUS
    <3>1. i # n /\ i \in 1..N
      OBVIOUS
    <3> QED  BY <1>4, <2>5, <3>1
  <2>8. /\ acc.index <=> \E i \in 1..(n - 1) : s[i] # NoInfo /\ s[i].index
        /\ ~ acc.store /\ ~ acc.docValues
    BY <1>4, <2>7 DEF Combined
  <2> HIDE DEF new
  <2>9. new # NoInfo
    BY <2>3
  <2>10. new.index <=> \E i \in 1..n : s[i] # NoInfo /\ s[i].index
    BY <1>1, <1>4, <2>3, <2>8
  <2>11. ~ new.store /\ ~ new.docValues
    BY <2>3, <2>6, <2>8
  <2>12. \A i \in 1..n : s[i] # NoInfo => ~ s[i].store /\ ~ s[i].docValues
    BY <1>1, <2>6, <2>7
  <2>13. Combined(new, n, s)
    BY <1>1, <1>4, <2>3, <2>9, <2>10, <2>11, <2>12 DEF Combined
  <2> QED  BY <2>13 DEF new
<1> QED  BY <1>2, <1>3, <1>4

LEMMA FlagsAre ==
  ASSUME FlagsApart, Chosen, NEW f \in Fields
  PROVE  Flagged(f, "index") \/ Flagged(f, "docValues") <=> Removed(f)
<1> DEFINE s == [i \in Segs |-> segs[i].updated[f]]  N == Len(NumDocs)
<1>1. N \in Nat /\ Segs = 1..N
  BY SegsAre
<1>2. \A i \in Segs : s[i] = segs[i].updated[f] /\ segs[i] \in Batches[i]
                      /\ s[i] \in Infos \cup {NoInfo}
  <2>1. ASSUME NEW i \in Segs, NEW b \in Batches[i] PROVE b.updated[f] \in Infos \cup {NoInfo}
    BY DocValuesAssumption DEF Infos
  <2> QED  BY <2>1 DEF Chosen
<1>3. \A i, j \in Segs : \/ i = j \/ s[i] = NoInfo \/ s[j] = NoInfo
                         \/ /\ ~ s[i].store /\ ~ s[i].docValues
                            /\ ~ s[j].store /\ ~ s[j].docValues
  BY <1>2 DEF FlagsApart
<1>4. MergedInfo(f) = Merged!Left(0, NoInfo, s, DOMAIN s) /\ DOMAIN s = 1..N
  BY <1>1, MergedInfoIs DEF MergedInfo
<1> HIDE DEF s, N
<1>5. PICK w : /\ w[0] = NoInfo
               /\ \A k \in 1..N : w[k] = Combine(w[k - 1], s[k])
               /\ Merged!Left(0, NoInfo, s, 1..N) = w[N]
  BY <1>1, Merged!LeftSteps DEF CombineStep
<1> DEFINE S == {n \in 0..N : Combined(w[n], n, s)}
<1>6. 0 \in S
  <2>1. \A i : i \notin 1..0
    OBVIOUS
  <2> QED  BY <1>1, <1>5, <2>1 DEF Combined
<1>7. ASSUME NEW k \in 1..N, k - 1 \in S PROVE k \in S
  <2>1. Combined(Combine(w[k - 1], s[k]), k, s)
    <3>1. Combined(w[k - 1], k - 1, s) /\ NoInfo \notin Infos
      BY <1>7 DEF FlagsApart
    <3> QED  BY <1>1, <1>2, <1>3, <3>1, CombineIs
  <2> QED  BY <1>1, <1>5, <2>1
<1>8. Combined(MergedInfo(f), N, s)
  <2>1. N \in 0..N
    BY <1>1
  <2>2. N \in S
    <3> HIDE DEF S
    <3> QED  BY <1>1, <1>6, <1>7, <2>1, Steps!UpTo
  <2> QED  BY <1>4, <1>5, <2>2
<1>9. Removed(f) <=> \E i \in 1..N : s[i] # NoInfo /\ (s[i].docValues \/ s[i].index)
  BY <1>1, <1>2 DEF Removed
<1> QED  BY <1>8, <1>9 DEF Combined, Flagged

-----------------------------------------------------------------------------
(* The merge.                                                              *)

ValueMap(i, f)  == [d \in segs[i].has[f] |-> TermsOf(i, d, f)]
Contributors(f) == {i \in Segs : /\ segs[i].has[f] # {} /\ f \in segs[i].included
                                 /\ ~ Flagged(f, "index") /\ ~ Flagged(f, "docValues")}
\* The documents whose terms the first segments, below s, have given the merge.
Contributed(f, s) ==
  {p \in Survivors : p[1] < s /\ p[1] \in Contributors(f) /\ p[2] \in segs[p[1]].has[f]}
MergedMap(f, P) ==
  [n \in {NewNum(p) : p \in P} |-> TermsOf(Source(n)[1], Source(n)[2], f)]

LEMMA ChosenIs ==
  ASSUME Chosen, NEW i \in Segs
  PROVE  /\ segs[i].has \in [Fields -> SUBSET Docs(i)] /\ segs[i].included \subseteq Fields
         /\ segs[i].included # {} => NumDocs[i] \in Nat \ {0}
<1>1. segs[i] \in Batches[i]
  BY DEF Chosen
<1>2. NumDocs[i] \in Nat /\ Docs(i) = 0..(NumDocs[i] - 1)
  BY SegsAre
<1>3. Docs(i) # {} => NumDocs[i] # 0
  BY <1>2
<1>4. /\ segs[i].has \in [Fields -> SUBSET Docs(i)] /\ segs[i].included \subseteq Fields
      /\ segs[i].included # {} => Docs(i) # {}
  BY <1>1, DocValuesAssumption
<1> QED  BY <1>2, <1>3, <1>4

LEMMA ValuesAre ==
  ASSUME Chosen, NEW i \in Segs, NEW f \in Fields
  PROVE  /\ DOMAIN ValueMap(i, f) = segs[i].has[f] /\ segs[i].has[f] \subseteq Docs(i)
         /\ ValueMap(i, f) \in [DOMAIN ValueMap(i, f) -> Seq(TermSet)]
         /\ \A d \in segs[i].has[f] : ValueMap(i, f)[d] = TermsOf(i, d, f)
<1>1. segs[i].has[f] \subseteq Docs(i)
  BY ChosenIs
<1>2. \A d \in segs[i].has[f] : TermsOf(i, d, f) \in Seq(TermSet)
  BY <1>1, TermsAre
<1> QED  BY <1>1, <1>2 DEF ValueMap

\* The builder's file.
LEMMA BuiltFile ==
  ASSUME Chosen, NEW i \in Segs, NEW f \in segs[i].included
  PROVE  /\ NumDocs[i] \in Nat \ {0}
         /\ FileOf(WrittenByBuilder(i, f), ChunksFor(NumDocs[i]), ValueMap(i, f), TermSet)
<1>1. f \in Fields /\ NumDocs[i] \in Nat \ {0}
  BY ChosenIs
<1> DEFINE N == NumDocs[i]  V == ValueMap(i, f)
<1>2. WrittenByBuilder(i, f) = BuiltOf(V, N)
  BY BuilderIs DEF ValueMap
<1>3. V \in [DOMAIN V -> Seq(TermSet)] /\ DOMAIN V \subseteq 0..(N - 1)
  BY <1>1, ValuesAre, SegsAre
<1> HIDE DEF V, N
<1>4. FileOf(BuiltOf(V, N), ChunksFor(N), V, TermSet)
  BY <1>1, <1>3, BuiltHolds DEF N
<1> QED  BY <1>1, <1>2, <1>4 DEF V, N

LEMMA MergedMapIs ==
  ASSUME NEW f, NEW P \in SUBSET Survivors
  PROVE  /\ DOMAIN MergedMap(f, P) = {NewNum(p) : p \in P}
         /\ \A p \in P : MergedMap(f, P)[NewNum(p)] = TermsOf(p[1], p[2], f)
         /\ \A p \in Survivors : NewNum(p) \in DOMAIN MergedMap(f, P) => p \in P
<1>1. \A p \in P : Source(NewNum(p)) = p
  BY SourceIs
<1>2. DOMAIN MergedMap(f, P) = {NewNum(p) : p \in P}
  BY DEF MergedMap
<1>3. ASSUME NEW p \in P PROVE MergedMap(f, P)[NewNum(p)] = TermsOf(p[1], p[2], f)
  BY <1>1 DEF MergedMap
<1>4. ASSUME NEW p \in Survivors, NewNum(p) \in DOMAIN MergedMap(f, P) PROVE p \in P
  <2>1. PICK q \in P : NewNum(q) = NewNum(p)
    BY <1>2, <1>4
  <2> QED  BY <2>1, SourceIs
<1> QED  BY <1>2, <1>3, <1>4

LEMMA PutMerged ==
  ASSUME NEW f, NEW P \in SUBSET Survivors, NEW q \in Survivors, q \notin P
  PROVE  MergedMap(f, P \cup {q}) = Put(MergedMap(f, P), NewNum(q), TermsOf(q[1], q[2], f))
<1> DEFINE V == MergedMap(f, P)  n == NewNum(q)  ts == TermsOf(q[1], q[2], f)
           W == MergedMap(f, P \cup {q})
<1>1. Source(n) = q
  BY SourceIs
<1>2. DOMAIN V = {NewNum(p) : p \in P} /\ n \notin DOMAIN V
  BY MergedMapIs
<1>3. W = [x \in {NewNum(p) : p \in P} \cup {n} |-> TermsOf(Source(x)[1], Source(x)[2], f)]
  <2>1. {NewNum(p) : p \in P \cup {q}} = {NewNum(p) : p \in P} \cup {NewNum(q)}
    OBVIOUS
  <2> QED  BY <2>1 DEF MergedMap
<1>4. \A x \in {NewNum(p) : p \in P} : V[x] = TermsOf(Source(x)[1], Source(x)[2], f)
  BY DEF MergedMap
<1> HIDE DEF V, n, W
<1>5. Put(V, n, ts) = [x \in {NewNum(p) : p \in P} \cup {n} |-> IF x = n THEN ts ELSE V[x]]
  BY <1>2 DEF Put
<1>6. \A x \in {NewNum(p) : p \in P} \cup {n} :
        TermsOf(Source(x)[1], Source(x)[2], f) = IF x = n THEN ts ELSE V[x]
  BY <1>1, <1>2, <1>4
<1> QED  BY <1>3, <1>5, <1>6 DEF V, n, W

LEMMA NewChunks ==
  ASSUME Chosen, NEW n \in 0..(NewDocCount - 1)
  PROVE  n \in Nat /\ n \div Unit \in 0..(ChunksFor(NewDocCount) - 1)
<1>1. NewDocCount \in Nat \ {0}
  BY SurvivorsFinite DEF Chosen
<1> DEFINE N == NewDocCount
<1> HIDE DEF N
<1>2. N \in Nat \ {0} /\ n \in 0..(N - 1)
  BY <1>1 DEF N
<1>3. n \div Unit \in Nat /\ (N - 1) \div Unit \in Nat /\ n \div Unit <= (N - 1) \div Unit
  BY <1>2, ChunksGrow
<1> QED  BY <1>2, <1>3 DEF ChunksFor, N

MergeStep(i, c, entry) == AddMerged(c, i, entry)
MergeFold == INSTANCE FoldSteps WITH op <- MergeStep

LEMMA MergeFoldIs ==
  ASSUME NEW c, NEW i, NEW s
  PROVE  AddAll(c, i, s) = MergeFold!Left(i, c, s, DOMAIN s)
BY Zenon DEF AddAll, FoldLeft, MapThenFoldSet, Max, MergeFold!Left, MergeFold!Highest, MergeStep

\* A segment with doc values gives the coder its documents.
LEMMA SegmentMerges ==
  ASSUME Chosen, NEW f \in Fields, NEW i \in Contributors(f), NEW wr, NEW K,
         FileOf(wr, K, ValueMap(i, f), TermSet), NEW r \in Readers(wr, TermSet), NEW c,
         Holds(c, ChunksFor(NewDocCount), MergedMap(f, Contributed(f, i)), TermSet)
  PROVE  Holds(AddAll(c, i, iterateAllDocValues(r)),
               ChunksFor(NewDocCount), MergedMap(f, Contributed(f, i + 1)), TermSet)
<1> DEFINE s == iterateAllDocValues(r)  V == ValueMap(i, f)  L == ChunksFor(NewDocCount)
           P(k) == Contributed(f, i)
                     \cup {p \in Survivors : p[1] = i /\ \E m \in 1..k : s[m].docNum = p[2]}
           H(x, k) == Holds(x, L, MergedMap(f, P(k)), TermSet)
<1>1. FirstChunks(s, K, V, TermSet)
  BY AllDocuments
<1>2. i \in Segs /\ i \in Nat
  BY SegsAre DEF Contributors
<1>3. /\ DOMAIN V = segs[i].has[f] /\ segs[i].has[f] \subseteq Docs(i)
      /\ \A d \in segs[i].has[f] : V[d] = TermsOf(i, d, f) /\ TermsOf(i, d, f) \in Seq(TermSet)
      /\ Docs(i) \subseteq Nat
  BY <1>2, ValuesAre, SegsAre, TermsAre
<1>4. K \in Nat /\ \A d \in DOMAIN V : d \div Unit < K
  <2>1. K \in Nat /\ \E B, off : FileAs(wr, K, V, TermSet, B, off)
    BY DEF FileOf
  <2>2. \A d \in DOMAIN V : d \div Unit \in 0..(K - 1)
    BY <2>1 DEF FileAs, OfChunks
  <2> QED  BY <2>1, <2>2
<1> HIDE DEF s, V
<1>5. /\ s \in Seq(Entries(TermSet))
      /\ \A m \in 1..Len(s) : s[m].docNum \in DOMAIN V /\ s[m].terms = V[s[m].docNum]
      /\ \A m, n \in 1..Len(s) : m < n => s[m].docNum < s[n].docNum
      /\ \A d \in DOMAIN V : \E m \in 1..Len(s) : s[m].docNum = d
  BY <1>1, <1>4 DEF FirstChunks
<1>6. Len(s) \in Nat /\ DOMAIN s = 1..Len(s)
  BY <1>5
<1>7. PICK w : /\ w[0] = c
               /\ \A k \in 1..Len(s) : w[k] = AddMerged(w[k - 1], i, s[k])
               /\ MergeFold!Left(i, c, s, 1..Len(s)) = w[Len(s)]
  <2>1. Len(s) \in Nat
    BY <1>6
  <2> DEFINE n == Len(s)
  <2>2. n \in Nat
    BY <2>1
  <2> HIDE DEF P, H, L, n
  <2>3. \E w : /\ w[0] = c
               /\ \A k \in 1..n : w[k] = AddMerged(w[k - 1], i, s[k])
               /\ MergeFold!Left(i, c, s, 1..n) = w[n]
    BY <2>2, MergeFold!LeftSteps DEF MergeStep
  <2> QED  BY <2>3 DEF n
<1>8. \A k : P(k) \in SUBSET Survivors
  BY DEF Contributed
<1>9. H(w[0], 0)
  <2>1. \A m : m \notin 1..0
    OBVIOUS
  <2>2. P(0) = Contributed(f, i)
    BY <2>1
  <2> HIDE DEF P
  <2> QED  BY <1>7, <2>2
<1>10. ASSUME NEW k \in 1..Len(s), H(w[k - 1], k - 1) PROVE H(w[k], k)
  <2> DEFINE d == s[k].docNum  q == <<i, d>>
  <2>1. \A m : m \in 1..k <=> m \in 1..(k - 1) \/ m = k
    BY <1>6
  <2>2. d \in DOMAIN V /\ s[k].terms = TermsOf(i, d, f) /\ d \in Docs(i) /\ d \in Nat
        /\ s[k].terms \in Seq(TermSet)
    BY <1>3, <1>5
  <2>3. w[k] = AddMerged(w[k - 1], i, s[k])
    BY <1>7
  <2> HIDE DEF d
  <2>4. P(k) = P(k - 1) \cup {p \in Survivors : p = q}
    <3>1. ASSUME NEW p \in Survivors
          PROVE  (p[1] = i /\ \E m \in 1..k : s[m].docNum = p[2])
                   <=> (p[1] = i /\ \E m \in 1..(k - 1) : s[m].docNum = p[2]) \/ p = q
      <4>1. p = <<p[1], p[2]>>
        BY SurvivorIs
      <4>2. (p[1] = i /\ s[k].docNum = p[2]) <=> p = q
        BY <4>1 DEF d
      <4> HIDE DEF q
      <4> QED  BY <2>1, <4>2
    <3> HIDE DEF q
    <3> QED  BY <3>1
  <2>5. CASE d \in drops[i]
    <3>1. w[k] = w[k - 1]
      BY <2>3, <2>5 DEF AddMerged, d
    <3>2. q \notin Survivors
      <4>1. q[1] = i /\ q[2] = d
        OBVIOUS
      <4> HIDE DEF q
      <4> QED  BY <2>5, <4>1, SurvivorIs
    <3>3. P(k) = P(k - 1)
      <4> HIDE DEF q, P
      <4> QED  BY <2>4, <3>2
    <3> HIDE DEF P
    <3> QED  BY <1>10, <3>1, <3>3
  <2>6. CASE d \notin drops[i]
    <3>1. w[k] = Add(w[k - 1], NewNum(q), TermsOf(i, d, f))
      BY <2>2, <2>3, <2>6 DEF AddMerged, d
    <3>2. q \in Survivors /\ q[1] = i /\ q[2] = d
      BY <1>2, <2>2, <2>6, SurvivorWhen
    <3> HIDE DEF q
    <3>3. P(k) = P(k - 1) \cup {q}
      <4> HIDE DEF P
      <4> QED  BY <2>4, <3>2
    <3>4. ASSUME NEW p \in P(k - 1) PROVE p \in Survivors /\ Earlier(p, q)
      <4>1. p \in Survivors
        BY <1>8
      <4>2. CASE p \in Contributed(f, i)
        BY <3>2, <4>2 DEF Contributed, Earlier
      <4>3. CASE p \notin Contributed(f, i)
        <5>1. p[1] = i /\ \E m \in 1..(k - 1) : s[m].docNum = p[2]
          BY <4>3
        <5>2. PICK m \in 1..(k - 1) : s[m].docNum = p[2]
          BY <5>1
        <5>3. m \in 1..Len(s) /\ m < k
          BY <1>6
        <5>4. s[m].docNum < s[k].docNum
          BY <1>5, <5>3
        <5> QED  BY <3>2, <4>1, <5>1, <5>2, <5>4 DEF Earlier, d
      <4> QED  BY <4>1, <4>2, <4>3
    <3> DEFINE A == P(k - 1)
    <3>5. A \in SUBSET Survivors /\ Holds(w[k - 1], L, MergedMap(f, A), TermSet)
      BY <1>8, <1>10
    <3> HIDE DEF P, A
    <3>6. q \notin A
      <4>1. ~ Earlier(q, q)
        <5>1. q[1] \in Nat /\ q[2] \in Nat
          BY <3>2, SurvivorIs
        <5> QED  BY <5>1 DEF Earlier
      <4> QED  BY <3>4, <4>1 DEF A
    <3>7. \A n \in DOMAIN MergedMap(f, A) : n < NewNum(q)
      <4> SUFFICES ASSUME NEW n \in DOMAIN MergedMap(f, A) PROVE n < NewNum(q)
        OBVIOUS
      <4>0. DOMAIN MergedMap(f, A) = {NewNum(p) : p \in A}
        BY <3>5, MergedMapIs
      <4>1. PICK p \in A : n = NewNum(p)
        BY <4>0
      <4>2. p \in Survivors /\ Earlier(p, q)
        BY <3>4, <4>1 DEF A
      <4> QED  BY <3>2, <4>1, <4>2, NumbersGrow
    <3>8. NewNum(q) \in Nat /\ NewNum(q) \div Unit \in 0..(L - 1) /\ L \in Nat
      <4>1. NewNum(q) \in 0..(NewDocCount - 1)
        BY <3>2, NumberIs
      <4>2. NewDocCount \in Nat \ {0}
        BY SurvivorsFinite DEF Chosen
      <4> QED  BY <4>1, <4>2, NewChunks, NewHolds
    <3>9. TermsOf(i, d, f) \in Seq(TermSet)
      BY <2>2
    <3> HIDE DEF L
    <3>10. Holds(w[k], L, Put(MergedMap(f, A), NewNum(q), TermsOf(i, d, f)), TermSet)
      BY <3>1, <3>5, <3>7, <3>8, <3>9, AddHolds
    <3>11. MergedMap(f, A \cup {q})
             = Put(MergedMap(f, A), NewNum(q), TermsOf(q[1], q[2], f))
      BY <3>2, <3>5, <3>6, PutMerged
    <3> QED  BY <3>2, <3>3, <3>10, <3>11 DEF A
  <2> QED  BY <2>5, <2>6
<1> HIDE DEF H
<1>11. H(w[Len(s)], Len(s))
  <2> DEFINE S == {k \in 0..Len(s) : H(w[k], k)}
  <2>1. 0 \in S
    BY <1>6, <1>9
  <2>2. ASSUME NEW k \in 1..Len(s), k - 1 \in S PROVE k \in S
    BY <1>6, <1>10, <2>2
  <2>3. Len(s) \in 0..Len(s)
    BY <1>6
  <2>4. Len(s) \in S
    <3> HIDE DEF S
    <3> QED  BY <1>6, <2>1, <2>2, <2>3, Steps!UpTo
  <2> QED  BY <2>4
<1>12. P(Len(s)) = Contributed(f, i + 1)
  <2>1. ASSUME NEW p \in Survivors
        PROVE  p \in P(Len(s)) <=> p \in Contributed(f, i + 1)
    <3>1. p[1] \in Nat /\ i \in Nat
      BY <1>2, SurvivorIs
    <3>2. p[1] < i + 1 <=> p[1] < i \/ p[1] = i
      BY <3>1
    <3>3. (\E m \in 1..Len(s) : s[m].docNum = p[2]) <=> p[2] \in DOMAIN V
      BY <1>5
    <3>4. p[1] = i => (p[2] \in DOMAIN V <=> p[2] \in segs[p[1]].has[f])
                      /\ p[1] \in Contributors(f)
      BY <1>3
    <3> QED  BY <3>2, <3>3, <3>4 DEF Contributed
  <2>2. P(Len(s)) \in SUBSET Survivors /\ Contributed(f, i + 1) \in SUBSET Survivors
    BY DEF Contributed
  <2> HIDE DEF P
  <2> QED  BY <2>1, <2>2
<1>13. AddAll(c, i, s) = w[Len(s)]
  BY <1>6, <1>7, MergeFoldIs
<1> HIDE DEF P
<1> QED  BY <1>11, <1>12, <1>13 DEF H, s

-----------------------------------------------------------------------------
(* The invariant of the merge.                                             *)

NotAReader == \A wr : loadFieldDocValueReader(wr) # NoReader

AllSegs == Len(NumDocs) + 1

\* A field has a reader in the new segment when a segment has contributed.
MergedReader(di, f) ==
  IF Contributors(f) = {} THEN di = NoReader
  ELSE \E wr : /\ di = loadFieldDocValueReader(wr)
               /\ FileOf(wr, ChunksFor(NewDocCount), MergedMap(f, Contributed(f, AllSegs)), TermSet)

ReadersInv ==
  /\ readers = [s \in Segs \cup {New} |-> [f \in Fields |-> readers[s][f]]]
  /\ pc # "build" => \A i \in Segs : \A f \in Fields :
       readers[i][f] = IF f \in segs[i].included
                       THEN loadFieldDocValueReader(WrittenByBuilder(i, f)) ELSE NoReader
  /\ \A f \in Fields : f < field => MergedReader(readers[New][f], f)

Merging(c, f, s, av) ==
  /\ Holds(c, ChunksFor(NewDocCount), MergedMap(f, Contributed(f, s)), TermSet)
  /\ av \in BOOLEAN
  /\ av <=> \E i \in Contributors(f) : i < s

FieldsInv ==
  /\ pc \in {"build", "field", "segment", "done"} /\ field \in Nat
  /\ pc = "build" => field = 0
  /\ pc = "segment" => field \in Fields /\ segI \in 1..AllSegs /\ Merging(coder, field, segI, avail)
  /\ pc = "done" => \A f \in Fields : f < field

DVInv == Chosen /\ ReadersInv /\ FieldsInv

LEMMA SegmentsStay ==
  ASSUME UNCHANGED segVars
  PROVE  /\ Chosen' = Chosen /\ Survivors' = Survivors /\ NewDocCount' = NewDocCount
         /\ \A f : Contributors(f)' = Contributors(f)
         /\ \A f, s : Contributed(f, s)' = Contributed(f, s)
         /\ \A f, s : MergedMap(f, Contributed(f, s))' = MergedMap(f, Contributed(f, s))
         /\ \A i, f : WrittenByBuilder(i, f)' = WrittenByBuilder(i, f)
<1>1. segs' = segs /\ drops' = drops
  BY DEF segVars
<1>2. Survivors' = Survivors /\ NewDocCount' = NewDocCount
  BY <1>1 DEF Survivors, NewDocCount
<1>3. Chosen' = Chosen
  BY <1>1, <1>2 DEF Chosen
<1>4. \A f : Contributors(f)' = Contributors(f)
  BY <1>1 DEF Contributors, Flagged, MergedInfo
<1>5. \A f, s : Contributed(f, s)' = Contributed(f, s)
  BY <1>1, <1>2, <1>4 DEF Contributed
<1>6. \A p : NewNum(p)' = NewNum(p)
  BY <1>2 DEF NewNum
<1>7. \A n : Source(n)' = Source(n)
  BY <1>2, <1>6 DEF Source
<1>8. \A f, s : MergedMap(f, Contributed(f, s))' = MergedMap(f, Contributed(f, s))
  BY <1>5, <1>6, <1>7 DEF MergedMap
<1>9. \A i, f : WrittenByBuilder(i, f)' = WrittenByBuilder(i, f)
  BY <1>1 DEF WrittenByBuilder
<1> QED  BY <1>2, <1>3, <1>4, <1>5, <1>8, <1>9

LEMMA MergingStays ==
  ASSUME UNCHANGED segVars, NEW f, NEW s
  PROVE  /\ \A di : MergedReader(di, f) => MergedReader(di, f)'
         /\ \A c, av : Merging(c, f, s, av) => Merging(c, f, s, av)'
<1>1. /\ NewDocCount' = NewDocCount /\ Contributors(f)' = Contributors(f)
      /\ MergedMap(f, Contributed(f, s))' = MergedMap(f, Contributed(f, s))
      /\ MergedMap(f, Contributed(f, AllSegs))' = MergedMap(f, Contributed(f, AllSegs))
  BY SegmentsStay
<1> QED  BY <1>1 DEF MergedReader, Merging

LEMMA InitDV == Init => DVInv
<1> SUFFICES ASSUME Init PROVE DVInv
  OBVIOUS
<1>1. Chosen
  BY DEF Init, Chosen
<1>2. ReadersInv
  <2>1. pc = "build" /\ field = 0
    BY DEF Init
  <2>2. readers = [i \in Segs \cup {New} |-> [f \in Fields |-> NoReader]]
    BY DEF Init
  <2>3. \A f \in Fields : ~ (f < 0)
    BY SegsAre
  <2> QED  BY <2>1, <2>2, <2>3 DEF ReadersInv
<1>3. FieldsInv
  BY DEF Init, FieldsInv
<1> QED  BY <1>1, <1>2, <1>3 DEF DVInv

\* The readers of the segments that were built, of a call or of the merge.
LEMMA LoadedIs ==
  ASSUME NEW wr, NEW T
  PROVE  /\ loadFieldDocValueReader(wr) \in Readers(wr, T)
         /\ cloneInto(loadFieldDocValueReader(wr)) = loadFieldDocValueReader(wr)
         /\ loadFieldDocValueReader(wr).written = wr
         /\ loadFieldDocValueReader(wr).curChunkNum = NoChunk
<1>1. <<>> \in Seq(Metas) /\ <<>> \in Seq(T)
  OBVIOUS
<1> DEFINE r == loadFieldDocValueReader(wr)
<1>2. r = [written |-> wr, curChunkNum |-> NoChunk, curChunkHeader |-> <<>>,
           curChunkData |-> <<>>, uncompressed |-> <<>>]
  BY DEF loadFieldDocValueReader
<1> HIDE DEF r
<1>3. r \in Readers(wr, T) /\ r.written = wr /\ r.curChunkNum = NoChunk
  BY <1>1, <1>2 DEF Readers
<1>4. cloneInto(r) = r
  <2> DEFINE c == [r EXCEPT !.curChunkNum = NoChunk, !.curChunkHeader = <<>>,
                            !.curChunkData = <<>>, !.uncompressed = <<>>]
  <2>1. c \in Readers(wr, T)
    BY <1>1, <1>3 DEF Readers
  <2>2. /\ c.written = wr /\ c.curChunkNum = NoChunk /\ c.curChunkHeader = <<>>
        /\ c.curChunkData = <<>> /\ c.uncompressed = <<>>
    BY <1>3 DEF Readers
  <2>3. c = cloneInto(r)
    BY DEF cloneInto
  <2> HIDE DEF c
  <2>4. c = [written |-> wr, curChunkNum |-> NoChunk, curChunkHeader |-> <<>>,
             curChunkData |-> <<>>, uncompressed |-> <<>>]
    BY <2>1, <2>2 DEF Readers
  <2> QED  BY <1>2, <2>3, <2>4
<1> QED  BY <1>3, <1>4 DEF r

LEMMA BuildDV == DVInv /\ Build => DVInv'
<1> SUFFICES ASSUME DVInv, Build PROVE DVInv'
  OBVIOUS
<1>1. UNCHANGED segVars /\ pc' = "field" /\ field' = field /\ field = 0 /\ segs' = segs
  BY DEF Build, DVInv, FieldsInv, segVars
<1>2. Chosen'
  BY <1>1, SegmentsStay DEF DVInv
<1>3. readers' = [i \in Segs \cup {New} |-> [f \in Fields |->
       IF i # New /\ f \in segs[i].included
       THEN loadFieldDocValueReader(WrittenByBuilder(i, f)) ELSE NoReader]]
  BY DEF Build
<1>4. readers' = [s \in Segs \cup {New} |-> [f \in Fields |-> readers'[s][f]]]
  BY <1>3
<1>5. ASSUME NEW i \in Segs, NEW f \in Fields
      PROVE  readers'[i][f] = IF f \in segs'[i].included
                THEN loadFieldDocValueReader(WrittenByBuilder(i, f)') ELSE NoReader
  <2>1. i # New
    BY DocValuesAssumption
  <2>2. WrittenByBuilder(i, f)' = WrittenByBuilder(i, f)
    BY <1>1, SegmentsStay
  <2> QED  BY <1>1, <1>3, <2>1, <2>2
<1>6. \A f \in Fields : ~ (f < field')
  BY <1>1, SegsAre
<1>7. ReadersInv'
  BY <1>4, <1>5, <1>6 DEF ReadersInv
<1>8. FieldsInv'
  BY <1>1 DEF FieldsInv
<1> QED  BY <1>2, <1>7, <1>8 DEF DVInv

\* What leaves the readers and the field alone keeps what is known of them.
LEMMA ReadersStay ==
  ASSUME ReadersInv, UNCHANGED <<segVars, readers, field>>, pc # "build"
  PROVE  ReadersInv'
<1>1. UNCHANGED segVars /\ readers' = readers /\ field' = field /\ segs' = segs
  BY DEF segVars
<1>2. \A i, f : WrittenByBuilder(i, f)' = WrittenByBuilder(i, f)
  BY <1>1, SegmentsStay
<1>3. ASSUME NEW f \in Fields, f < field PROVE MergedReader(readers[New][f], f)'
  <2> PICK di : di = readers[New][f]
    OBVIOUS
  <2>1. MergedReader(di, f)
    BY <1>3 DEF ReadersInv
  <2>2. MergedReader(di, f)'
    BY <1>1, <2>1, MergingStays
  <2>3. di = readers'[New][f]
    BY <1>1
  <2> QED  BY <2>2, <2>3
<1> QED  BY <1>1, <1>2, <1>3 DEF ReadersInv

LEMMA StartFieldDV == DVInv /\ StartField => DVInv'
<1> SUFFICES ASSUME DVInv, StartField PROVE DVInv'
  OBVIOUS
<1>1. /\ UNCHANGED segVars /\ pc = "field" /\ pc' = "segment" /\ field \in Fields /\ field' = field
      /\ segI' = 1 /\ avail' = FALSE /\ readers' = readers
      /\ coder' = newChunkedContentCoder(ChunkSize, NewDocCount - 1, TRUE)
  BY DEF StartField
<1>2. Chosen' /\ Chosen
  BY <1>1, SegmentsStay DEF DVInv
<1>3. ReadersInv'
  BY <1>1, ReadersStay DEF DVInv
<1> PICK f \in Fields : f = field
  BY <1>1
<1> PICK c : c = newChunkedContentCoder(ChunkSize, NewDocCount - 1, TRUE)
  OBVIOUS
<1>4. Merging(c, f, 1, FALSE)
  <2>1. NewDocCount \in Nat \ {0}
    BY <1>2, SurvivorsFinite DEF Chosen
  <2>2. Holds(c, ChunksFor(NewDocCount), NothingIn, TermSet)
    BY <2>1, NewHolds
  <2>3. Contributed(f, 1) = {}
    <3>1. \A p \in Survivors : ~ (p[1] < 1)
      BY SurvivorIs, SegsAre
    <3> QED  BY <3>1 DEF Contributed
  <2>4. MergedMap(f, {}) = NothingIn
    <3>1. {NewNum(p) : p \in {}} = {}
      OBVIOUS
    <3> QED  BY <3>1 DEF MergedMap, NothingIn
  <2>5. \A i \in Contributors(f) : ~ (i < 1)
    BY SegsAre DEF Contributors
  <2> QED  BY <2>2, <2>3, <2>4, <2>5 DEF Merging
<1>5. Merging(c, f, 1, FALSE)'
  BY <1>1, <1>4, MergingStays
<1>6. coder' = c /\ field' = f /\ segI' = 1 /\ avail' = FALSE
  BY <1>1
<1>7. FieldsInv'
  <2>1. 1 \in 1..AllSegs
    BY SegsAre DEF AllSegs
  <2>2. field' \in Nat
    BY <1>6, SegsAre
  <2> QED  BY <1>1, <1>5, <1>6, <2>1, <2>2 DEF FieldsInv
<1> QED  BY <1>2, <1>3, <1>7 DEF DVInv

LEMMA MergeSegmentDV == NotAReader /\ DVInv /\ MergeSegment => DVInv'
<1> SUFFICES ASSUME NotAReader, DVInv, MergeSegment PROVE DVInv'
  OBVIOUS
<1>1. /\ UNCHANGED segVars /\ pc = "segment" /\ pc' = pc /\ field' = field /\ segI \in Segs
      /\ segI' = segI + 1 /\ readers' = readers
  BY DEF MergeSegment
<1>2. Chosen' /\ Chosen
  BY <1>1, SegmentsStay DEF DVInv
<1>3. ReadersInv'
  BY <1>1, ReadersStay DEF DVInv
<1>4. field \in Fields /\ Merging(coder, field, segI, avail)
  BY <1>1 DEF DVInv, FieldsInv
<1> PICK f \in Fields : f = field
  BY <1>4
<1> PICK i \in Segs : i = segI
  BY <1>1
<1> DEFINE di == readers[i][f]  g == AddAll(coder, i, iterateAllDocValues(cloneInto(di)))
<1>5. di = IF f \in segs[i].included
           THEN loadFieldDocValueReader(WrittenByBuilder(i, f)) ELSE NoReader
  BY <1>1 DEF DVInv, ReadersInv
<1>6. i \in Contributors(f)
        <=> ~ (i \notin InFocus \/ Flagged(f, "docValues") \/ di = NoReader)
  <2>1. di = NoReader <=> f \notin segs[i].included
    BY <1>5 DEF NotAReader
  <2>2. i \in InFocus <=> segs[i].has[f] # {} /\ ~ Flagged(f, "index")
    BY DEF InFocus
  <2> HIDE DEF di
  <2> QED  BY <2>1, <2>2 DEF Contributors
<1>7. /\ i \in Contributors(f) => avail' = TRUE /\ coder' = g
      /\ i \notin Contributors(f) => avail' = avail /\ coder' = coder
  BY <1>6 DEF MergeSegment
<1>8. i \in Nat /\ \A k \in Contributors(f) : k \in Nat /\ (k < i + 1 <=> k < i \/ k = i)
  BY SegsAre DEF Contributors
<1> PICK c : c = coder'
  OBVIOUS
<1> PICK av : av = avail'
  OBVIOUS
<1>9. Holds(coder, ChunksFor(NewDocCount), MergedMap(f, Contributed(f, i)), TermSet)
      /\ avail \in BOOLEAN /\ (avail <=> \E k \in Contributors(f) : k < i)
  BY <1>4 DEF Merging
<1>10. CASE i \in Contributors(f)
  <2>1. av = TRUE /\ c = g
    BY <1>7, <1>10
  <2>2. f \in segs[i].included /\ di = loadFieldDocValueReader(WrittenByBuilder(i, f))
    BY <1>5, <1>10 DEF Contributors
  <2>3. FileOf(WrittenByBuilder(i, f), ChunksFor(NumDocs[i]), ValueMap(i, f), TermSet)
    BY <1>2, <2>2, BuiltFile
  <2>4. cloneInto(di) \in Readers(WrittenByBuilder(i, f), TermSet)
    BY <2>2, LoadedIs
  <2> HIDE DEF di
  <2>5. Holds(g, ChunksFor(NewDocCount), MergedMap(f, Contributed(f, i + 1)), TermSet)
    BY <1>2, <1>9, <1>10, <2>3, <2>4, SegmentMerges
  <2>6. \E k \in Contributors(f) : k < i + 1
    BY <1>8, <1>10
  <2> HIDE DEF g
  <2>7. Merging(c, f, i + 1, av)
    BY <2>1, <2>5, <2>6 DEF Merging
  <2>8. Merging(c, f, i + 1, av)'
    BY <1>1, <2>7, MergingStays
  <2> QED
    <3>1. segI' = i + 1 /\ field' = f /\ coder' = c /\ avail' = av
      BY <1>1
    <3>2. FieldsInv'
      <4>1. i + 1 \in 1..AllSegs
        BY SegsAre DEF AllSegs
      <4> QED  BY <1>1, <1>4, <2>8, <3>1, <4>1, SegsAre DEF FieldsInv
    <3> QED  BY <1>2, <1>3, <3>2 DEF DVInv
<1>11. CASE i \notin Contributors(f)
  <2>1. av = avail /\ c = coder
    BY <1>7, <1>11
  <2>2. Contributed(f, i + 1) = Contributed(f, i)
    <3>1. ASSUME NEW p \in Survivors, p[1] \in Contributors(f) PROVE p[1] < i + 1 <=> p[1] < i
      BY <1>8, <1>11, <3>1
    <3> QED  BY <3>1 DEF Contributed
  <2>3. Merging(c, f, i + 1, av)
    BY <1>8, <1>9, <1>11, <2>1, <2>2 DEF Merging
  <2>4. Merging(c, f, i + 1, av)'
    BY <1>1, <2>3, MergingStays
  <2> QED
    <3>1. segI' = i + 1 /\ field' = f /\ coder' = c /\ avail' = av
      BY <1>1
    <3>2. FieldsInv'
      <4>1. i + 1 \in 1..AllSegs
        BY SegsAre DEF AllSegs
      <4> QED  BY <1>1, <1>4, <2>4, <3>1, <4>1, SegsAre DEF FieldsInv
    <3> QED  BY <1>2, <1>3, <3>2 DEF DVInv
<1> QED  BY <1>10, <1>11

LEMMA EndFieldDV == NotAReader /\ DVInv /\ EndField => DVInv'
<1> SUFFICES ASSUME NotAReader, DVInv, EndField PROVE DVInv'
  OBVIOUS
<1> PICK x : x = IF avail THEN loadFieldDocValueReader(Written(Close(coder))) ELSE NoReader
  OBVIOUS
<1>1. /\ UNCHANGED segVars /\ pc = "segment" /\ field' = field + 1 /\ segI > Len(NumDocs)
      /\ readers' = [readers EXCEPT ![New][field] = x]
      /\ pc' = IF field + 1 \in Fields THEN "field" ELSE "done"
  BY DEF EndField
<1>2. Chosen' /\ Chosen /\ ReadersInv
  BY <1>1, SegmentsStay DEF DVInv
<1>3. field \in Fields /\ segI \in 1..AllSegs /\ Merging(coder, field, segI, avail)
  BY <1>1 DEF DVInv, FieldsInv
<1>4. segI = AllSegs
  BY <1>1, <1>3, SegsAre DEF AllSegs
<1> PICK f \in Fields : f = field
  BY <1>3
<1>5. MergedReader(x, f)
  <2>1. /\ Holds(coder, ChunksFor(NewDocCount), MergedMap(f, Contributed(f, AllSegs)), TermSet)
        /\ avail \in BOOLEAN /\ (avail <=> \E i \in Contributors(f) : i < AllSegs)
    BY <1>3, <1>4 DEF Merging
  <2>2. \A i \in Contributors(f) : i < AllSegs
    BY SegsAre DEF Contributors, AllSegs
  <2>3. CASE avail
    <3>1. x = loadFieldDocValueReader(Written(Close(coder))) /\ Contributors(f) # {}
      BY <2>1, <2>3
    <3>2. NewDocCount \in Nat \ {0}
      BY <1>2, SurvivorsFinite DEF Chosen
    <3>3. ChunksFor(NewDocCount) \in Nat
      BY <3>2, NewHolds
    <3>4. FileOf(Written(Close(coder)), ChunksFor(NewDocCount),
                 MergedMap(f, Contributed(f, AllSegs)), TermSet)
      BY <2>1, <3>3, WrittenIs
    <3> QED  BY <3>1, <3>4 DEF MergedReader
  <2>4. CASE ~ avail
    <3>1. x = NoReader /\ Contributors(f) = {}
      BY <2>1, <2>2, <2>4
    <3> QED  BY <3>1 DEF MergedReader
  <2> QED  BY <2>1, <2>3, <2>4
<1>6. New \in Segs \cup {New} /\ New \notin Segs
  BY DocValuesAssumption
<1>7. /\ readers = [s \in Segs \cup {New} |-> [g \in Fields |-> readers[s][g]]]
      /\ \A i \in Segs : \A g \in Fields :
           readers[i][g] = IF g \in segs[i].included
                       THEN loadFieldDocValueReader(WrittenByBuilder(i, g)) ELSE NoReader
      /\ \A g \in Fields : g < field => MergedReader(readers[New][g], g)
  BY <1>1, <1>2 DEF ReadersInv
<1>8. /\ readers' = [s \in Segs \cup {New} |-> [g \in Fields |-> readers'[s][g]]]
      /\ \A i \in Segs : readers'[i] = readers[i]
      /\ \A g \in Fields : readers'[New][g] = IF g = f THEN x ELSE readers[New][g]
  BY <1>1, <1>6, <1>7
<1>9. ReadersInv'
  <2>1. ASSUME NEW i \in Segs, NEW g \in Fields
        PROVE  readers'[i][g] = IF g \in segs'[i].included
                  THEN loadFieldDocValueReader(WrittenByBuilder(i, g)') ELSE NoReader
    <3>1. WrittenByBuilder(i, g)' = WrittenByBuilder(i, g) /\ segs' = segs
      BY <1>1, SegmentsStay DEF segVars
    <3> QED  BY <1>7, <1>8, <3>1
  <2>2. ASSUME NEW g \in Fields, g < field' PROVE MergedReader(readers[New][g], g)'
    <3> PICK di : di = readers'[New][g]
      OBVIOUS
    <3>1. MergedReader(di, g)
      <4>1. CASE g = f
        BY <1>5, <1>8, <4>1
      <4>2. CASE g # f
        <5>1. g < field
          BY <1>1, <2>2, <4>2, SegsAre
        <5> QED  BY <1>7, <1>8, <4>2, <5>1
      <4> QED  BY <4>1, <4>2
    <3>2. MergedReader(di, g)'
      BY <1>1, <3>1, MergingStays
    <3> QED  BY <3>2
  <2> QED  BY <1>8, <2>1, <2>2 DEF ReadersInv
<1>10. FieldsInv'
  <2>1. field \in Nat /\ field' \in Nat
    BY <1>1, <1>3, SegsAre
  <2>2. pc' = "done" => \A g \in Fields : g < field'
    <3> SUFFICES ASSUME field + 1 \notin Fields, NEW g \in Fields PROVE g < field + 1
      BY <1>1
    <3>1. Cardinality(Fields) \in Nat /\ Fields = 0..(Cardinality(Fields) - 1)
      BY DocValuesAssumption, FS_CardinalityType
    <3> DEFINE n == Cardinality(Fields)
    <3> HIDE DEF n
    <3>2. n \in Nat /\ field \in 0..(n - 1) /\ field + 1 \notin 0..(n - 1) /\ g \in 0..(n - 1)
      BY <1>3, <3>1 DEF n
    <3> QED  BY <3>2
  <2> QED  BY <1>1, <2>1, <2>2 DEF FieldsInv
<1> QED  BY <1>2, <1>9, <1>10 DEF DVInv

LEMMA VisitLeaves ==
  ASSUME NEW s, NEW d, NEW fields, VisitDocValues(s, d, fields)
  PROVE  UNCHANGED <<segVars, mergeVars>> /\ pc = "done"
BY DEF VisitDocValues

LEMMA SameDV ==
  ASSUME DVInv, UNCHANGED <<segVars, mergeVars>>
  PROVE  DVInv'
<1>1. /\ UNCHANGED segVars /\ pc' = pc /\ field' = field /\ segI' = segI /\ readers' = readers
      /\ coder' = coder /\ avail' = avail /\ segs' = segs
  BY DEF mergeVars, segVars
<1>2. Chosen'
  BY <1>1, SegmentsStay DEF DVInv
<1>3. ReadersInv'
  <2>1. CASE pc # "build"
    BY <1>1, <2>1, ReadersStay DEF DVInv
  <2>2. CASE pc = "build"
    <3>1. field = 0 /\ \A f \in Fields : ~ (f < 0)
      BY <2>2, SegsAre DEF DVInv, FieldsInv
    <3> QED  BY <1>1, <2>2, <3>1 DEF DVInv, ReadersInv
  <2> QED  BY <2>1, <2>2
<1>4. FieldsInv'
  <2>1. CASE pc = "segment"
    <3>1. field \in Fields /\ Merging(coder, field, segI, avail)
      BY <2>1 DEF DVInv, FieldsInv
    <3> PICK f, s, c, av : f = field /\ s = segI /\ c = coder /\ av = avail
      OBVIOUS
    <3>2. Merging(c, f, s, av)
      BY <3>1
    <3>3. Merging(c, f, s, av)'
      BY <1>1, <3>2, MergingStays
    <3>4. f = field' /\ s = segI' /\ c = coder' /\ av = avail'
      BY <1>1
    <3>5. Merging(coder, field, segI, avail)'
      BY <3>3, <3>4
    <3> QED  BY <1>1, <2>1, <3>5 DEF DVInv, FieldsInv
  <2>2. CASE pc # "segment"
    BY <1>1, <2>2 DEF DVInv, FieldsInv
  <2> QED  BY <2>1, <2>2
<1> QED  BY <1>2, <1>3, <1>4 DEF DVInv

LEMMA NextDV == NotAReader /\ DVInv /\ [Next]_vars => DVInv'
<1> SUFFICES ASSUME NotAReader, DVInv, [Next]_vars PROVE DVInv'
  OBVIOUS
<1>1. CASE Build
  BY <1>1, BuildDV
<1>2. CASE StartField
  BY <1>2, StartFieldDV
<1>3. CASE MergeSegment
  BY <1>3, MergeSegmentDV
<1>4. CASE EndField
  BY <1>4, EndFieldDV
<1>5. ASSUME NEW s, NEW d, NEW fields, VisitDocValues(s, d, fields) PROVE DVInv'
  <2>1. UNCHANGED <<segVars, mergeVars>>
    BY <1>5, VisitLeaves
  <2> QED  BY <2>1, SameDV
<1>6. CASE UNCHANGED vars
  BY <1>6, SameDV DEF vars
<1> QED  BY <1>1, <1>2, <1>3, <1>4, <1>5, <1>6 DEF Next

-----------------------------------------------------------------------------
(* The documents of a reader.                                              *)

MapOf(s, f) == IF s = New THEN MergedMap(f, Contributed(f, AllSegs)) ELSE ValueMap(s, f)
CountOf(s)  == IF s = New THEN NewDocCount ELSE NumDocs[s]

LEMMA ReaderIs ==
  ASSUME DVInv, pc = "done", NEW s \in Segs \cup {New}, NEW f \in Fields,
         readers[s][f] # NoReader
  PROVE  /\ CountOf(s) \in Nat \ {0} /\ DocsOf(s) = 0..(CountOf(s) - 1)
         /\ \E wr : /\ readers[s][f] = loadFieldDocValueReader(wr)
                    /\ FileOf(wr, ChunksFor(CountOf(s)), MapOf(s, f), TermSet)
<1>1. New \notin Segs
  BY DocValuesAssumption
<1>2. CASE s = New
  <2>1. NewDocCount \in Nat \ {0}
    BY SurvivorsFinite DEF DVInv, Chosen
  <2>2. MergedReader(readers[New][f], f)
    BY DEF DVInv, ReadersInv, FieldsInv
  <2>3. \E wr : /\ readers[New][f] = loadFieldDocValueReader(wr)
                /\ FileOf(wr, ChunksFor(NewDocCount),
                          MergedMap(f, Contributed(f, AllSegs)), TermSet)
    BY <1>2, <2>2 DEF MergedReader
  <2> QED  BY <1>2, <2>1, <2>3 DEF CountOf, DocsOf, MapOf
<1>3. CASE s # New
  <2>1. s \in Segs
    BY <1>3
  <2>2. readers[s][f] = IF f \in segs[s].included
                        THEN loadFieldDocValueReader(WrittenByBuilder(s, f)) ELSE NoReader
    BY <2>1 DEF DVInv, ReadersInv
  <2>3. f \in segs[s].included
        /\ readers[s][f] = loadFieldDocValueReader(WrittenByBuilder(s, f))
    BY <2>2
  <2>4. NumDocs[s] \in Nat \ {0}
        /\ FileOf(WrittenByBuilder(s, f), ChunksFor(NumDocs[s]), ValueMap(s, f), TermSet)
    BY <2>1, <2>3, BuiltFile DEF DVInv
  <2>5. CountOf(s) = NumDocs[s] /\ DocsOf(s) = 0..(NumDocs[s] - 1) /\ MapOf(s, f) = ValueMap(s, f)
    BY <1>3, <2>1, SegsAre DEF CountOf, DocsOf, MapOf
  <2> QED  BY <2>3, <2>4, <2>5
<1> QED  BY <1>2, <1>3

LEMMA ChunkThere ==
  ASSUME NEW N \in Nat \ {0}, NEW d \in 0..(N - 1)
  PROVE  d \in Nat /\ d \div Unit \in 0..(ChunksFor(N) - 1)
<1>1. d \in Nat /\ N - 1 \in Nat /\ d <= N - 1
  OBVIOUS
<1>2. d \div Unit \in Nat /\ (N - 1) \div Unit \in Nat /\ d \div Unit <= (N - 1) \div Unit
  BY <1>1, ChunksGrow
<1> QED  BY <1>2 DEF ChunksFor

\* The map of a reader holds what the document has; without one it has nothing.
LEMMA MapIs ==
  ASSUME NotAReader, FlagsApart, DVInv, pc = "done", NEW s \in Segs \cup {New}, NEW f \in Fields,
         NEW d \in DocsOf(s)
  PROVE  /\ readers[s][f] # NoReader => Values(s, d, f) = ValueAt(MapOf(s, f), d)
         /\ readers[s][f] = NoReader => Values(s, d, f) = <<>>
         /\ Values(s, d, f) \in Seq(TermSet)
<1>1. New \notin Segs /\ Chosen /\ <<>> \in Seq(TermSet)
  BY DocValuesAssumption DEF DVInv
<1>2. CASE s = New
  <2> DEFINE p == Source(d)  P == Contributed(f, AllSegs)
             there == f \in segs[p[1]].included /\ p[2] \in segs[p[1]].has[f] /\ ~ Removed(f)
  <2>1. p \in Survivors /\ NewNum(p) = d
    BY <1>2, NumberFrom DEF DocsOf
  <2>2. Values(s, d, f) = IF there THEN TermsOf(p[1], p[2], f) ELSE <<>>
    BY <1>2 DEF Values, Source
  <2>3. p[1] \in Segs /\ p[2] \in Docs(p[1]) /\ p[1] < AllSegs
    BY <2>1, SurvivorIs, SegsAre DEF AllSegs
  <2>4. TermsOf(p[1], p[2], f) \in Seq(TermSet)
    BY <2>3, TermsAre
  <2>5. Removed(f) <=> Flagged(f, "index") \/ Flagged(f, "docValues")
    BY <1>1, FlagsAre
  <2>6. there <=> p \in P
    BY <2>1, <2>3, <2>5 DEF Contributed, Contributors
  <2>7. P \in SUBSET Survivors
    BY DEF Contributed
  <2> HIDE DEF P, there
  <2>8. ValueAt(MergedMap(f, P), d) = IF p \in P THEN TermsOf(p[1], p[2], f) ELSE <<>>
    <3>1. CASE p \in P
      <4>1. d \in DOMAIN MergedMap(f, P) /\ MergedMap(f, P)[d] = TermsOf(p[1], p[2], f)
        <5>1. /\ DOMAIN MergedMap(f, P) = {NewNum(q) : q \in P}
              /\ MergedMap(f, P)[NewNum(p)] = TermsOf(p[1], p[2], f)
          BY <2>7, <3>1, MergedMapIs
        <5> HIDE DEF p
        <5> QED  BY <2>1, <3>1, <5>1
      <4> QED  BY <3>1, <4>1 DEF ValueAt
    <3>2. CASE p \notin P
      <4>1. d \notin DOMAIN MergedMap(f, P)
        BY <2>1, <2>7, <3>2, MergedMapIs
      <4> QED  BY <3>2, <4>1 DEF ValueAt
    <3> QED  BY <3>1, <3>2
  <2>9. MapOf(s, f) = MergedMap(f, P)
    BY <1>2 DEF MapOf, P
  <2>10. readers[New][f] = NoReader => p \notin P
    <3> SUFFICES ASSUME p \in P PROVE readers[New][f] # NoReader
      BY <1>2
    <3>1. MergedReader(readers[New][f], f)
      BY DEF DVInv, ReadersInv, FieldsInv
    <3>2. Contributors(f) # {}
      BY DEF P, Contributed
    <3> QED  BY <3>1, <3>2 DEF MergedReader, NotAReader
  <2> QED  BY <1>1, <1>2, <2>2, <2>4, <2>6, <2>8, <2>9, <2>10
<1>3. CASE s # New
  <2>1. s \in Segs /\ d \in Docs(s)
    BY <1>3 DEF DocsOf
  <2>2. Values(s, d, f) = IF f \in segs[s].included /\ d \in segs[s].has[f]
                          THEN TermsOf(s, d, f) ELSE <<>>
    BY <1>3 DEF Values
  <2>3. readers[s][f] = IF f \in segs[s].included
                        THEN loadFieldDocValueReader(WrittenByBuilder(s, f)) ELSE NoReader
    BY <2>1 DEF DVInv, ReadersInv
  <2>4. MapOf(s, f) = ValueMap(s, f)
    BY <1>3 DEF MapOf
  <2>5. ValueAt(ValueMap(s, f), d) = IF d \in segs[s].has[f] THEN TermsOf(s, d, f) ELSE <<>>
    BY <1>1, <2>1, ValuesAre DEF ValueAt
  <2>6. TermsOf(s, d, f) \in Seq(TermSet)
    BY <2>1, TermsAre
  <2>7. readers[s][f] = NoReader <=> f \notin segs[s].included
    BY <2>3 DEF NotAReader
  <2>8. Values(s, d, f) \in Seq(TermSet)
    BY <1>1, <2>2, <2>6
  <2>9. f \in segs[s].included => Values(s, d, f) = ValueAt(MapOf(s, f), d)
    BY <2>2, <2>4, <2>5
  <2>10. readers[s][f] # NoReader => Values(s, d, f) = ValueAt(MapOf(s, f), d)
    BY <2>7, <2>9
  <2>11. readers[s][f] = NoReader => Values(s, d, f) = <<>>
    BY <2>2, <2>7
  <2> QED  BY <2>8, <2>10, <2>11
<1> QED  BY <1>2, <1>3

\* The reader of a field, after it has loaded the chunk of a document.
LEMMA ReadIs ==
  ASSUME NEW T, NEW wr, NEW N \in Nat \ {0}, NEW V, FileOf(wr, ChunksFor(N), V, T),
         NEW r, Loaded(r, wr, V, T), NEW d \in 0..(N - 1)
  PROVE  /\ Loaded(loadDvChunk(r, d \div ChunkSize), wr, V, T)
         /\ loadDvChunk(r, d \div ChunkSize).curChunkNum = d \div Unit
<1>1. ChunkSize = Unit /\ d \div Unit \in 0..(ChunksFor(N) - 1)
  BY UnitIs, ChunkThere
<1> DEFINE j == d \div Unit  K == ChunksFor(N)  l == loadDvChunk(r, j)
<1>2. r \in Readers(wr, T)
  BY DEF Loaded
<1>3. FileOf(wr, K, V, T) /\ j \in 0..(K - 1)
  BY <1>1
<1> HIDE DEF j, K
<1>4. /\ loadDvChunk(r, j) \in Readers(wr, T) /\ loadDvChunk(r, j).curChunkNum = j
      /\ \E es : Has(loadDvChunk(r, j), es, V, T)
  BY <1>2, <1>3, LoadIs
<1> HIDE DEF l
<1>5. Loaded(l, wr, V, T) /\ l.curChunkNum = j
  BY <1>4 DEF Loaded, l
<1> QED  BY <1>1, <1>5 DEF j, l

LEMMA LoadedNew ==
  ASSUME NEW wr, NEW V, NEW T
  PROVE  Loaded(cloneInto(loadFieldDocValueReader(wr)), wr, V, T)
BY LoadedIs DEF Loaded

LEMMA MergedIs == NotAReader /\ FlagsApart /\ DVInv => MergedExact
<1> SUFFICES ASSUME NotAReader, FlagsApart, DVInv, pc = "done", NEW f \in Fields
             PROVE  LET di == readers[New][f] IN
                    IF di = NoReader
                    THEN \A d \in DocsOf(New) : Values(New, d, f) = <<>>
                    ELSE /\ \E i \in Segs : readers[i][f] # NoReader
                         /\ \A d \in DocsOf(New) :
                              visitDocValues(loadDvChunk(cloneInto(di), d \div ChunkSize), d).terms
                                = Values(New, d, f)
  BY DEF MergedExact
<1> DEFINE di == readers[New][f]
<1>1. New \in Segs \cup {New}
  OBVIOUS
<1>2. ASSUME di = NoReader, NEW d \in DocsOf(New) PROVE Values(New, d, f) = <<>>
  BY <1>1, <1>2, MapIs
<1>3. ASSUME di # NoReader PROVE \E i \in Segs : readers[i][f] # NoReader
  <2>1. MergedReader(readers[New][f], f)
    BY DEF DVInv, ReadersInv, FieldsInv
  <2>2. PICK i \in Contributors(f) : TRUE
    BY <1>3, <2>1 DEF MergedReader
  <2>3. i \in Segs /\ f \in segs[i].included
    BY DEF Contributors
  <2>4. readers[i][f] = loadFieldDocValueReader(WrittenByBuilder(i, f))
    BY <2>3 DEF DVInv, ReadersInv
  <2>5. readers[i][f] # NoReader
    BY <2>4 DEF NotAReader
  <2> QED  BY <2>3, <2>5
<1>4. ASSUME di # NoReader, NEW d \in DocsOf(New)
      PROVE  visitDocValues(loadDvChunk(cloneInto(di), d \div ChunkSize), d).terms
               = Values(New, d, f)
  <2>1. /\ CountOf(New) \in Nat \ {0} /\ DocsOf(New) = 0..(CountOf(New) - 1)
        /\ \E wr : /\ di = loadFieldDocValueReader(wr)
                   /\ FileOf(wr, ChunksFor(CountOf(New)), MapOf(New, f), TermSet)
    BY <1>1, <1>4, ReaderIs
  <2>2. PICK wr : /\ di = loadFieldDocValueReader(wr)
                  /\ FileOf(wr, ChunksFor(CountOf(New)), MapOf(New, f), TermSet)
    BY <2>1
  <2>3. Values(New, d, f) = ValueAt(MapOf(New, f), d)
    BY <1>1, <1>4, MapIs
  <2> DEFINE V == MapOf(New, f)  N == CountOf(New)  r == cloneInto(di)
             l == loadDvChunk(r, d \div ChunkSize)
  <2>4. Loaded(r, wr, V, TermSet)
    BY <2>2, LoadedNew
  <2>5. N \in Nat \ {0} /\ FileOf(wr, ChunksFor(N), V, TermSet) /\ d \in 0..(N - 1) /\ d \in Nat
    BY <2>1, <2>2
  <2> HIDE DEF V, N, r
  <2>6. Loaded(l, wr, V, TermSet) /\ l.curChunkNum = d \div Unit
    BY <2>4, <2>5, ReadIs
  <2> HIDE DEF l
  <2>7. visitDocValues(l, d).terms = ValueAt(V, d)
    BY <2>5, <2>6, VisitIs
  <2> QED  BY <2>3, <2>7 DEF l, r, V
<1> QED  BY <1>2, <1>3, <1>4

\* After the merge each document has the doc values it had, under its new
\* number.  The flags of two segments are apart, or what mergeUpdatedFields
\* makes of them says more than any of the segments does (merge.go:655).
THEOREM MergedExactHolds ==
  ASSUME NotAReader, FlagsApart
  PROVE  Spec => []MergedExact
<1>1. Init => DVInv
  BY InitDV
<1>2. DVInv /\ [Next]_vars => DVInv'
  BY NextDV
<1>3. DVInv => MergedExact
  BY MergedIs
<1> QED  BY <1>1, <1>2, <1>3, PTL DEF Spec

-----------------------------------------------------------------------------
(* The calls.                                                              *)

\* What is flattened is what is put together step by step.
LEMMA FlattenIs ==
  ASSUME NEW seqs
  PROVE  FlattenSeq(seqs) = Steps!Flat(seqs)
BY Zenon DEF FlattenSeq, Steps!Flat

\* What a call hands over of a field, with a state made for the fields fs.
Wanted(s, d, f, fs) == IF f \in fs THEN Values(s, d, f) ELSE <<>>

\* dvrs are the readers of a state made for the fields fs of a segment.
StateFor(s, dvrs, fs) ==
  /\ DOMAIN dvrs = {g \in fs : readers[s][g] # NoReader}
  /\ \A g \in DOMAIN dvrs : Loaded(dvrs[g], readers[s][g].written, MapOf(s, g), TermSet)

VisitStep(d, acc, f) == VisitField(d, acc, f)
VisitFold == INSTANCE FoldSteps WITH op <- VisitStep

LEMMA VisitFoldIs ==
  ASSUME NEW d, NEW acc, NEW fields
  PROVE  VisitFields(d, acc, fields) = VisitFold!Left(d, acc, fields, DOMAIN fields)
BY Zenon DEF VisitFields, FoldLeft, MapThenFoldSet, Max, VisitFold!Left, VisitFold!Highest,
             VisitStep

LEMMA WantedIs ==
  ASSUME NotAReader, FlagsApart, DVInv, pc = "done", NEW s \in Segs \cup {New},
         NEW d \in DocsOf(s), NEW fs \in SUBSET Fields, NEW f \in Fields
  PROVE  Wanted(s, d, f, fs) \in Seq(TermSet)
<1>1. Values(s, d, f) \in Seq(TermSet)
  BY MapIs
<1> QED  BY <1>1 DEF Wanted

\* One turn of the loop.
LEMMA VisitFieldIs ==
  ASSUME NotAReader, FlagsApart, DVInv, pc = "done", NEW s \in Segs \cup {New},
         NEW d \in DocsOf(s), NEW fs \in SUBSET Fields, NEW f \in Fields, NEW acc,
         StateFor(s, acc.dvrs, fs), acc.terms \in Seq(TermSet)
  PROVE  /\ StateFor(s, VisitField(d, acc, f).dvrs, fs)
         /\ VisitField(d, acc, f).terms = acc.terms \o Wanted(s, d, f, fs)
<1>1. /\ readers[s][f] # NoReader => Values(s, d, f) = ValueAt(MapOf(s, f), d)
      /\ readers[s][f] = NoReader => Values(s, d, f) = <<>>
  BY MapIs
<1>2. /\ DOMAIN acc.dvrs = {g \in fs : readers[s][g] # NoReader}
      /\ \A g \in DOMAIN acc.dvrs :
           Loaded(acc.dvrs[g], readers[s][g].written, MapOf(s, g), TermSet)
  BY DEF StateFor
<1>3. CASE f \notin DOMAIN acc.dvrs
  <2>1. VisitField(d, acc, f) = acc
    BY <1>3 DEF VisitField
  <2>2. Wanted(s, d, f, fs) = <<>>
    BY <1>1, <1>2, <1>3 DEF Wanted
  <2>3. acc.terms \o <<>> = acc.terms
    OBVIOUS
  <2> QED  BY <2>1, <2>2, <2>3
<1>4. CASE f \in DOMAIN acc.dvrs
  <2> DEFINE chunk == d \div ChunkSize  r == acc.dvrs[f]  V == MapOf(s, f)  N == CountOf(s)
             loaded == IF r.curChunkNum = chunk THEN r ELSE loadDvChunk(r, chunk)
             v == visitDocValues(loaded, d)
             out == [dvrs |-> [acc.dvrs EXCEPT ![f] = v.reader], terms |-> acc.terms \o v.terms]
  <2>1. VisitField(d, acc, f) = out
    BY <1>4 DEF VisitField
  <2>2. f \in fs /\ readers[s][f] # NoReader /\ Loaded(r, readers[s][f].written, V, TermSet)
    BY <1>2, <1>4
  <2>3. /\ N \in Nat \ {0} /\ DocsOf(s) = 0..(N - 1)
        /\ \E wr : /\ readers[s][f] = loadFieldDocValueReader(wr)
                   /\ FileOf(wr, ChunksFor(N), V, TermSet)
    BY <2>2, ReaderIs
  <2>4. PICK wr : /\ readers[s][f] = loadFieldDocValueReader(wr)
                  /\ FileOf(wr, ChunksFor(N), V, TermSet)
    BY <2>3
  <2>5. readers[s][f].written = wr
    BY <2>4, LoadedIs
  <2>6. Loaded(r, wr, V, TermSet)
    BY <2>2, <2>5
  <2>7. d \in 0..(N - 1) /\ d \in Nat /\ N \in Nat \ {0} /\ chunk = d \div Unit
    BY <2>3, UnitIs
  <2> HIDE DEF V, N, r
  <2>8. /\ Loaded(loadDvChunk(r, chunk), wr, V, TermSet)
        /\ loadDvChunk(r, chunk).curChunkNum = d \div Unit
    BY <2>4, <2>6, <2>7, ReadIs
  <2>9. Loaded(loaded, wr, V, TermSet) /\ loaded.curChunkNum = d \div Unit
    BY <2>6, <2>7, <2>8
  <2> HIDE DEF loaded
  <2>10. v.terms = ValueAt(V, d) /\ Loaded(v.reader, wr, V, TermSet)
    BY <2>7, <2>9, VisitIs
  <2>11. Wanted(s, d, f, fs) = v.terms
    BY <1>1, <2>2, <2>10 DEF Wanted, V
  <2> HIDE DEF v
  <2>12. out.terms = acc.terms \o Wanted(s, d, f, fs)
    BY <2>11
  <2> DEFINE dvrs == [acc.dvrs EXCEPT ![f] = v.reader]
  <2>13. DOMAIN dvrs = DOMAIN acc.dvrs
         /\ \A g \in DOMAIN dvrs : dvrs[g] = IF g = f THEN v.reader ELSE acc.dvrs[g]
    BY <1>4
  <2>14. out.dvrs = dvrs
    OBVIOUS
  <2> HIDE DEF dvrs, out
  <2>15. ASSUME NEW g \in DOMAIN dvrs
         PROVE  Loaded(dvrs[g], readers[s][g].written, MapOf(s, g), TermSet)
    <3>1. CASE g = f
      BY <2>5, <2>10, <2>13, <3>1 DEF V
    <3>2. CASE g # f
      BY <1>2, <2>13, <3>2
    <3> QED  BY <3>1, <3>2
  <2>16. StateFor(s, dvrs, fs)
    BY <1>2, <2>13, <2>15 DEF StateFor
  <2> QED  BY <2>1, <2>12, <2>14, <2>16
<1> QED  BY <1>3, <1>4

\* The whole loop.
LEMMA VisitFieldsIs ==
  ASSUME NotAReader, FlagsApart, DVInv, pc = "done", NEW s \in Segs \cup {New},
         NEW d \in DocsOf(s), NEW fs \in SUBSET Fields, NEW fields \in Seq(Fields),
         NEW acc, StateFor(s, acc.dvrs, fs), acc.terms = <<>>
  PROVE  /\ StateFor(s, VisitFields(d, acc, fields).dvrs, fs)
         /\ VisitFields(d, acc, fields).terms
              = FlattenSeq([k \in DOMAIN fields |-> Wanted(s, d, fields[k], fs)])
<1> DEFINE n == Len(fields)
<1>1. n \in Nat /\ DOMAIN fields = 1..n /\ \A k \in 1..n : fields[k] \in Fields
  OBVIOUS
<1> DEFINE seqs == [k \in DOMAIN fields |-> Wanted(s, d, fields[k], fs)]
<1>2. \A k \in 1..n : Wanted(s, d, fields[k], fs) \in Seq(TermSet)
  <2> SUFFICES ASSUME NEW k \in 1..n PROVE Wanted(s, d, fields[k], fs) \in Seq(TermSet)
    OBVIOUS
  <2>1. fields[k] \in Fields
    BY <1>1
  <2> QED  BY <2>1, WantedIs
<1> HIDE DEF n
<1>3. seqs \in Seq(Seq(TermSet)) /\ Len(seqs) = n
      /\ \A k \in 1..n : seqs[k] = Wanted(s, d, fields[k], fs)
  BY <1>1, <1>2
<1>4. PICK w : /\ w[0] = acc
               /\ \A k \in 1..n : w[k] = VisitStep(d, w[k - 1], fields[k])
               /\ VisitFold!Left(d, acc, fields, 1..n) = w[n]
  BY <1>1, VisitFold!LeftSteps
<1>5. VisitFields(d, acc, fields) = w[n]
  BY <1>1, <1>4, VisitFoldIs
<1> DEFINE S == {k \in 0..n : StateFor(s, w[k].dvrs, fs) /\ w[k].terms \in Seq(TermSet)}
<1>6. 0 \in S
  <2>1. <<>> \in Seq(TermSet) /\ 0 \in 0..n
    BY <1>1
  <2> QED  BY <1>4, <2>1
<1>7. ASSUME NEW k \in 1..n, k - 1 \in S
      PROVE  k \in S /\ w[k].terms = w[k - 1].terms \o seqs[k]
  <2>1. w[k] = VisitField(d, w[k - 1], fields[k]) /\ fields[k] \in Fields /\ k \in 0..n
    BY <1>1, <1>4 DEF VisitStep
  <2> DEFINE a == w[k - 1]  f == fields[k]
  <2>2. StateFor(s, a.dvrs, fs) /\ a.terms \in Seq(TermSet) /\ f \in Fields
    BY <1>7, <2>1
  <2> HIDE DEF a, f
  <2>3. /\ StateFor(s, VisitField(d, a, f).dvrs, fs)
        /\ VisitField(d, a, f).terms = a.terms \o Wanted(s, d, f, fs)
    BY <2>2, VisitFieldIs
  <2>4. Wanted(s, d, f, fs) \in Seq(TermSet) /\ seqs[k] = Wanted(s, d, f, fs)
    BY <1>2, <1>3 DEF f
  <2> DEFINE x == a.terms  y == Wanted(s, d, f, fs)
  <2>5. x \o y \in Seq(TermSet)
    <3> HIDE DEF x, y
    <3>1. x \in Seq(TermSet) /\ y \in Seq(TermSet) => x \o y \in Seq(TermSet)
      OBVIOUS
    <3> QED  BY <2>2, <2>4, <3>1 DEF x, y
  <2>6. w[k] = VisitField(d, a, f)
    BY <2>1 DEF a, f
  <2>7. StateFor(s, w[k].dvrs, fs) /\ w[k].terms = x \o y
    BY <2>3, <2>6
  <2>8. k \in S
    BY <2>1, <2>5, <2>7
  <2> HIDE DEF S, seqs
  <2> QED  BY <2>4, <2>7, <2>8 DEF a
<1>8. \A k \in 0..n : k \in S
  <2> HIDE DEF S, seqs
  <2> QED  BY <1>1, <1>6, <1>7, Steps!UpTo
<1> DEFINE u == [k \in 0..n |-> w[k].terms]
<1>9. n \in S
  <2> HIDE DEF S
  <2>1. n \in 0..n
    BY <1>1
  <2> QED  BY <1>8, <2>1
<1>10. StateFor(s, w[n].dvrs, fs)
  BY <1>9
<1>11. u[0] = <<>> /\ u[n] = w[n].terms
  <2>1. 0 \in 0..n /\ n \in 0..n
    BY <1>1
  <2> QED  BY <1>4, <2>1
<1>12. ASSUME NEW k \in 1..n PROVE u[k] = u[k - 1] \o seqs[k]
  <2>1. k \in 0..n /\ k - 1 \in 0..n
    BY <1>1
  <2>2. w[k].terms = w[k - 1].terms \o seqs[k]
    <3>1. k - 1 \in S
      <4> HIDE DEF S
      <4> QED  BY <1>8, <2>1
    <3> HIDE DEF S, seqs
    <3> QED  BY <1>7, <3>1
  <2> HIDE DEF seqs
  <2> QED  BY <2>1, <2>2
<1> HIDE DEF u, S, seqs
<1>13. FlattenSeq(seqs) = u[n]
  <2>1. n \in Nat /\ seqs \in Seq(Seq(TermSet)) /\ Len(seqs) = n /\ u[0] = <<>>
    BY <1>1, <1>3, <1>11
  <2>2. \A k \in 1..n : u[k] = u[k - 1] \o seqs[k]
    BY <1>12
  <2> QED  BY <2>1, <2>2, FlattenIs, Steps!FlatSteps
<1> QED  BY <1>5, <1>10, <1>11, <1>13 DEF seqs

-----------------------------------------------------------------------------
(* The invariant of the calls.                                             *)

VisitInv ==
  /\ pc # "done" => seen = NoReader /\ dvs.segment = NoReader
  /\ dvs.segment \in Segs \cup {New} =>
       first \in SUBSET Fields /\ StateFor(dvs.segment, dvs.dvrs, first)
  /\ VisitExact

LEMMA ValuesStay ==
  ASSUME UNCHANGED segVars
  PROVE  /\ \A s, f : MapOf(s, f)' = MapOf(s, f)
         /\ \A s, d, f : Values(s, d, f)' = Values(s, d, f)
<1>1. /\ segs' = segs /\ Survivors' = Survivors
      /\ \A f, s : MergedMap(f, Contributed(f, s))' = MergedMap(f, Contributed(f, s))
  BY SegmentsStay DEF segVars
<1>2. \A s, f : ValueMap(s, f)' = ValueMap(s, f)
  BY <1>1 DEF ValueMap
<1>3. \A s, f : MapOf(s, f)' = MapOf(s, f)
  BY <1>1, <1>2 DEF MapOf
<1>4. \A p : NewNum(p)' = NewNum(p)
  BY <1>1 DEF NewNum
<1>5. \A d : Source(d)' = Source(d)
  BY <1>1, <1>4 DEF Source
<1>6. \A f : Removed(f)' <=> Removed(f)
  BY <1>1 DEF Removed
<1>7. \A s, d, f : Values(s, d, f)
        = IF s = New
          THEN IF /\ f \in segs[Source(d)[1]].included
                  /\ Source(d)[2] \in segs[Source(d)[1]].has[f] /\ ~ Removed(f)
               THEN TermsOf(Source(d)[1], Source(d)[2], f) ELSE <<>>
          ELSE IF f \in segs[s].included /\ d \in segs[s].has[f] THEN TermsOf(s, d, f) ELSE <<>>
  BY DEF Values, Source
<1>8. \A s, d, f : Values(s, d, f)'
        = IF s = New
          THEN IF /\ f \in segs'[Source(d)'[1]].included
                  /\ Source(d)'[2] \in segs'[Source(d)'[1]].has[f] /\ ~ Removed(f)'
               THEN TermsOf(Source(d)'[1], Source(d)'[2], f) ELSE <<>>
          ELSE IF f \in segs'[s].included /\ d \in segs'[s].has[f] THEN TermsOf(s, d, f) ELSE <<>>
  BY DEF Values, Source
<1>9. \A s, d, f : Values(s, d, f)' = Values(s, d, f)
  BY <1>1, <1>5, <1>6, <1>7, <1>8
<1> QED  BY <1>3, <1>9

LEMMA StateStays ==
  ASSUME UNCHANGED <<segVars, readers>>, NEW s, NEW dvrs, NEW fs
  PROVE  /\ StateFor(s, dvrs, fs)' <=> StateFor(s, dvrs, fs)
         /\ \A d, f : Wanted(s, d, f, fs)' = Wanted(s, d, f, fs)
<1>1. readers' = readers /\ UNCHANGED segVars
  OBVIOUS
<1>2. /\ \A g : MapOf(s, g)' = MapOf(s, g)
      /\ \A d, f : Values(s, d, f)' = Values(s, d, f)
  BY <1>1, ValuesStay
<1> QED  BY <1>1, <1>2 DEF StateFor, Wanted

\* The state that a call uses is one for its segment.
LEMMA StateReadersAre ==
  ASSUME DVInv, VisitInv, pc = "done", NEW s \in Segs \cup {New}, NEW fields \in Seq(Fields),
         NEW fs, fs = IF dvs.segment = s THEN first ELSE Range(fields)
  PROVE  fs \in SUBSET Fields /\ StateFor(s, StateReaders(s, fields), fs)
<1>1. CASE dvs.segment = s
  BY <1>1 DEF VisitInv, StateReaders
<1>2. CASE dvs.segment # s
  <2>1. fs = Range(fields) /\ fs \in SUBSET Fields
    <3>1. \A k \in DOMAIN fields : fields[k] \in Fields
      OBVIOUS
    <3> QED  BY <1>2, <3>1 DEF Range
  <2> DEFINE G == {g \in fs : readers[s][g] # NoReader}
             dvrs == [f \in G |-> cloneInto(readers[s][f])]
  <2>2. StateReaders(s, fields) = dvrs
    BY <1>2, <2>1 DEF StateReaders
  <2>3. ASSUME NEW g \in G PROVE Loaded(dvrs[g], readers[s][g].written, MapOf(s, g), TermSet)
    <3>1. g \in Fields /\ readers[s][g] # NoReader
      BY <2>1
    <3>2. PICK wr : readers[s][g] = loadFieldDocValueReader(wr)
      BY <3>1, ReaderIs
    <3>3. readers[s][g].written = wr
      BY <3>2, LoadedIs
    <3>4. Loaded(cloneInto(loadFieldDocValueReader(wr)), wr, MapOf(s, g), TermSet)
      BY LoadedNew
    <3> QED  BY <3>2, <3>3, <3>4
  <2>4. DOMAIN dvrs = G
    OBVIOUS
  <2> HIDE DEF dvrs
  <2>5. StateFor(s, dvrs, fs)
    BY <2>3, <2>4 DEF StateFor
  <2> QED  BY <2>1, <2>2, <2>5
<1> QED  BY <1>1, <1>2

LEMMA InitVisit == Init => VisitInv
<1> SUFFICES ASSUME Init PROVE VisitInv
  OBVIOUS
<1>1. seen = NoReader /\ dvs = [segment |-> NoReader, dvrs |-> NoReader]
  BY DEF Init
<1>2. NoReader \notin Segs \cup {New}
  BY DocValuesAssumption
<1> QED  BY <1>1, <1>2 DEF VisitInv, VisitExact

\* Nothing visits before the merge is done.
LEMMA MergeVisit ==
  ASSUME VisitInv, pc # "done", UNCHANGED visitVars
  PROVE  VisitInv'
<1>1. seen' = NoReader /\ dvs'.segment = NoReader
  BY DEF VisitInv, visitVars
<1>2. NoReader \notin Segs \cup {New}
  BY DocValuesAssumption
<1> QED  BY <1>1, <1>2 DEF VisitInv, VisitExact

\* The last call, as the invariant says it.
Handed(call, fs) ==
  call.terms = FlattenSeq([k \in DOMAIN call.fields |->
                 Wanted(call.segment, call.doc, call.fields[k], fs)])

LEMMA HandedIs == VisitExact <=> (seen # NoReader => Handed(seen, first))
BY DEF VisitExact, Handed, Wanted

LEMMA HandedStays ==
  ASSUME UNCHANGED <<segVars, readers>>, NEW call, NEW fs
  PROVE  Handed(call, fs)' <=> Handed(call, fs)
<1>1. \A s, d, f : Wanted(s, d, f, fs)' = Wanted(s, d, f, fs)
  BY StateStays
<1> QED  BY <1>1 DEF Handed

LEMMA VisitVisit ==
  ASSUME NotAReader, FlagsApart, DVInv, VisitInv, NEW s \in Segs \cup {New}, NEW d,
         NEW fields \in Requests, VisitDocValues(s, d, fields)
  PROVE  VisitInv'
<1> PICK acc : acc = [dvrs |-> StateReaders(s, fields), terms |-> <<>>]
  OBVIOUS
<1> PICK v : v = VisitFields(d, acc, fields)
  OBVIOUS
<1> PICK fs : fs = IF dvs.segment = s THEN first ELSE Range(fields)
  OBVIOUS
<1> PICK call : call = [segment |-> s, doc |-> d, fields |-> fields, terms |-> v.terms]
  OBVIOUS
<1>1. /\ pc = "done" /\ pc' = "done" /\ d \in DocsOf(s)
      /\ dvs' = [segment |-> IF seen = NoReader THEN NoReader ELSE s, dvrs |-> v.dvrs]
      /\ first' = fs
      /\ seen' = call
      /\ UNCHANGED <<segVars, readers>>
  BY DEF VisitDocValues, mergeVars
<1>2. fields \in Seq(Fields)
  BY DocValuesAssumption
<1>3. fs \in SUBSET Fields /\ StateFor(s, acc.dvrs, fs) /\ acc.terms = <<>>
  BY <1>1, <1>2, StateReadersAre
<1>4. /\ StateFor(s, v.dvrs, fs)
      /\ v.terms = FlattenSeq([k \in DOMAIN fields |-> Wanted(s, d, fields[k], fs)])
  BY <1>1, <1>2, <1>3, VisitFieldsIs
<1>5. Handed(call, fs)
  BY <1>4 DEF Handed
<1>6. Handed(call, fs)'
  BY <1>1, <1>5, HandedStays
<1>7. VisitExact'
  <2>1. Handed(seen, first)'
    BY <1>1, <1>6
  <2>2. VisitExact' <=> (seen' # NoReader => Handed(seen, first)')
    BY DEF VisitExact, Handed, Wanted
  <2> QED  BY <2>1, <2>2
<1> PICK dvrs : dvrs = v.dvrs
  OBVIOUS
<1>8. StateFor(s, dvrs, fs)'
  BY <1>1, <1>4, StateStays
<1>9. ASSUME dvs'.segment \in Segs \cup {New}
      PROVE  first' \in SUBSET Fields /\ StateFor(dvs.segment, dvs.dvrs, first)'
  <2>1. NoReader \notin Segs \cup {New}
    BY DocValuesAssumption
  <2>2. s = dvs'.segment /\ dvrs = dvs'.dvrs /\ fs = first'
    BY <1>1, <1>9, <2>1
  <2>3. StateFor(dvs.segment, dvs.dvrs, first)'
    BY <1>8, <2>2
  <2> QED  BY <1>3, <2>2, <2>3
<1> QED  BY <1>1, <1>7, <1>9 DEF VisitInv

LEMMA SameVisit ==
  ASSUME VisitInv, UNCHANGED vars
  PROVE  VisitInv'
<1>1. UNCHANGED <<segVars, readers>> /\ dvs' = dvs /\ first' = first /\ seen' = seen /\ pc' = pc
  BY DEF vars, mergeVars, visitVars
<1> PICK s : s = dvs.segment
  OBVIOUS
<1> PICK dvrs : dvrs = dvs.dvrs
  OBVIOUS
<1> PICK fs : fs = first
  OBVIOUS
<1> PICK call : call = seen
  OBVIOUS
<1>2. StateFor(s, dvrs, fs)' <=> StateFor(s, dvrs, fs)
  BY <1>1, StateStays
<1>3. Handed(call, fs)' <=> Handed(call, fs)
  BY <1>1, HandedStays
<1>4. StateFor(dvs.segment, dvs.dvrs, first)' <=> StateFor(dvs.segment, dvs.dvrs, first)
  BY <1>1, <1>2
<1>5. VisitExact' <=> VisitExact
  <2>1. VisitExact' <=> (seen' # NoReader => Handed(seen, first)')
    BY DEF VisitExact, Handed, Wanted
  <2>2. Handed(seen, first)' <=> Handed(seen, first)
    BY <1>1, <1>3
  <2> QED  BY <1>1, <2>1, <2>2, HandedIs
<1> QED  BY <1>1, <1>4, <1>5 DEF VisitInv

LEMMA NextVisit ==
  NotAReader /\ FlagsApart /\ DVInv /\ VisitInv /\ [Next]_vars => VisitInv'
<1> SUFFICES ASSUME NotAReader, FlagsApart, DVInv, VisitInv, [Next]_vars PROVE VisitInv'
  OBVIOUS
<1>1. CASE Build \/ StartField \/ MergeSegment \/ EndField
  <2>1. pc # "done" /\ UNCHANGED visitVars
    BY <1>1 DEF Build, StartField, MergeSegment, EndField
  <2> QED  BY <2>1, MergeVisit
<1>2. ASSUME NEW s \in Segs \cup {New}, NEW d, NEW fields \in Requests, VisitDocValues(s, d, fields)
      PROVE  VisitInv'
  BY <1>2, VisitVisit
<1>3. CASE UNCHANGED vars
  BY <1>3, SameVisit
<1> QED  BY <1>1, <1>2, <1>3 DEF Next

\* A call hands over exactly what its document has, of the fields that its
\* state was made for, after any calls for other documents, chunks and segments
\* (docvalues.go:289-347).
THEOREM VisitExactHolds ==
  ASSUME NotAReader, FlagsApart
  PROVE  Spec => []VisitExact
<1>1. Init => DVInv /\ VisitInv
  BY InitDV, InitVisit
<1>2. DVInv /\ VisitInv /\ [Next]_vars => DVInv' /\ VisitInv'
  BY NextDV, NextVisit
<1>3. VisitInv => VisitExact
  BY DEF VisitInv
<1> QED  BY <1>1, <1>2, <1>3, PTL DEF Spec
=============================================================================
