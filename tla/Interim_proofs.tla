--------------------------- MODULE Interim_proofs ---------------------------
(***************************************************************************)
(* The lists of the terms never share memory, and an interim in the pool   *)
(* holds nothing of the batches it was used for, for any batches.          *)
(*                                                                         *)
(* For each postings list, realloc counts the fields that have its term,   *)
(* and their locations, document by document.  After n documents no list   *)
(* is longer than what was counted in these (Lists), so that an append     *)
(* stays within the part of the array that the list was given, and that    *)
(* part within what Reset clears (AppendFits).  Within a document its      *)
(* terms come in any order, and each has a postings list of its own: the   *)
(* documents are counted for each list alone.                              *)
(***************************************************************************)
EXTENDS Interim, FiniteSetTheorems, SequenceTheorems, TLAPS

-----------------------------------------------------------------------------
(* Sums.                                                                   *)

PlusStep(p, acc, x) == acc + x
Plus == INSTANCE FoldSteps WITH op <- PlusStep

\* The sum of the first n.
Upto(f, n) == Total(SubSeq(f, 1, n))

LEMMA PlusSteps ==
  ASSUME NEW f, NEW n \in Nat
  PROVE  \E w : /\ w[0] = 0
                /\ \A k \in 1..n : w[k] = w[k - 1] + f[k]
                /\ Plus!Left(0, 0, f, 1..n) = w[n]
<1>1. \A p, base : \E w : /\ w[0] = base
                          /\ \A k \in 1..n : w[k] = PlusStep(p, w[k - 1], f[k])
                          /\ Plus!Left(p, base, f, 1..n) = w[n]
  BY Plus!LeftSteps
<1> QED  BY <1>1 DEF PlusStep

LEMMA TotalSteps ==
  ASSUME NEW f \in Seq(Nat)
  PROVE  \E w : /\ w[0] = 0
                /\ \A k \in 1..Len(f) : w[k] = w[k - 1] + f[k]
                /\ Total(f) = w[Len(f)]
<1>1. Len(f) \in Nat /\ DOMAIN f = 1..Len(f)
  OBVIOUS
<1>2. Total(f) = Plus!Left(0, 0, f, DOMAIN f)
  BY Zenon DEF Total, FoldLeft, MapThenFoldSet, Max, Plus!Left, Plus!Highest, PlusStep
<1>3. Total(f) = Plus!Left(0, 0, f, 1..Len(f))
  BY <1>1, <1>2
<1>4. PICK n \in Nat : n = Len(f)
  BY <1>1
<1>5. PICK w : /\ w[0] = 0
               /\ \A k \in 1..n : w[k] = w[k - 1] + f[k]
               /\ Plus!Left(0, 0, f, 1..n) = w[n]
  BY PlusSteps
<1>6. Total(f) = w[n]
  BY <1>3, <1>4, <1>5
<1> QED  BY <1>4, <1>5, <1>6

LEMMA SumSteps ==
  ASSUME NEW f \in Seq(Nat)
  PROVE  /\ Upto(f, 0) = 0 /\ Upto(f, Len(f)) = Total(f)
         /\ \A k \in 1..Len(f) : Upto(f, k) = Upto(f, k - 1) + f[k]
         /\ \A k \in 0..Len(f) : Upto(f, k) \in Nat
<1> DEFINE n == Len(f)
<1>1. n \in Nat /\ \A k \in 1..n : f[k] \in Nat
  OBVIOUS
<1>2. PICK w : w[0] = 0 /\ \A k \in 1..n : w[k] = w[k - 1] + f[k]
  BY TotalSteps
<1>3. ASSUME NEW k \in 0..n PROVE Upto(f, k) = w[k] /\ w[k] \in Nat
  <2> DEFINE g == SubSeq(f, 1, k)
  <2>1. g \in Seq(Nat) /\ Len(g) = k /\ k \in Nat /\ \A j \in 1..k : g[j] = f[j] /\ j \in 1..n
    OBVIOUS
  <2> HIDE DEF g, n
  <2>2. PICK v : /\ v[0] = 0 /\ \A j \in 1..k : v[j] = v[j - 1] + g[j]
                 /\ Total(g) = v[k]
    BY <2>1, TotalSteps
  <2> DEFINE S == {j \in 0..k : v[j] = w[j] /\ w[j] \in Nat}
  <2>3. 0 \in S
    BY <1>2, <2>1, <2>2
  <2>4. ASSUME NEW j \in 1..k, j - 1 \in S PROVE j \in S
    <3>1. v[j] = v[j - 1] + f[j] /\ w[j] = w[j - 1] + f[j] /\ f[j] \in Nat
      BY <1>1, <1>2, <2>1, <2>2
    <3>2. v[j - 1] = w[j - 1] /\ w[j - 1] \in Nat /\ j \in 0..k
      BY <2>4
    <3>3. w[j] \in Nat
      BY <3>1, <3>2
    <3> QED  BY <3>1, <3>2, <3>3
  <2>5. k \in S
    <3> HIDE DEF S
    <3>1. k \in 0..k
      BY <2>1
    <3> QED  BY <2>1, <2>3, <2>4, <3>1, Plus!UpTo
  <2> QED  BY <2>2, <2>5 DEF Upto, g
<1>4. Upto(f, n) = Total(f)
  <2>1. SubSeq(f, 1, Len(f)) = f
    OBVIOUS
  <2> QED  BY <2>1 DEF Upto
<1>5. \A k \in 1..n : k \in 0..n /\ k - 1 \in 0..n
  BY <1>1
<1>6. 0 \in 0..n
  BY <1>1
<1> HIDE DEF n
<1>7. Upto(f, 0) = 0 /\ \A k \in 1..n : Upto(f, k) = Upto(f, k - 1) + f[k]
  BY <1>2, <1>3, <1>5, <1>6
<1> QED  BY <1>3, <1>4, <1>7 DEF n

LEMMA SumGrows ==
  ASSUME NEW f \in Seq(Nat), NEW i \in 0..Len(f), NEW k \in 0..Len(f), i <= k
  PROVE  Upto(f, i) <= Upto(f, k) /\ Upto(f, i) \in Nat /\ Upto(f, k) \in Nat
<1> DEFINE n == Len(f)  S == {j \in 0..(n - i) : Upto(f, i) <= Upto(f, i + j)}
<1>1. n \in Nat /\ i \in Nat /\ k \in Nat /\ n - i \in Nat /\ \A j \in 1..n : f[j] \in Nat
  OBVIOUS
<1>2. /\ \A j \in 1..n : Upto(f, j) = Upto(f, j - 1) + f[j]
      /\ \A j \in 0..n : Upto(f, j) \in Nat
  BY SumSteps
<1> HIDE DEF n
<1>3. 0 \in S
  <2>1. i \in 0..n /\ i + 0 = i
    BY <1>1 DEF n
  <2>2. Upto(f, i) \in Nat
    BY <1>2, <2>1
  <2> QED  BY <1>1, <2>1, <2>2
<1>4. ASSUME NEW j \in 1..(n - i), j - 1 \in S PROVE j \in S
  <2>1. i + j \in 1..n /\ i + (j - 1) = i + j - 1 /\ i + j - 1 \in 0..n /\ i \in 0..n /\ j \in 0..(n - i)
    BY <1>1 DEF n
  <2>2. Upto(f, i + j) = Upto(f, i + j - 1) + f[i + j] /\ f[i + j] \in Nat
    BY <1>1, <1>2, <2>1
  <2>3. Upto(f, i) <= Upto(f, i + j - 1)
    BY <1>4, <2>1
  <2>4. Upto(f, i) \in Nat /\ Upto(f, i + j - 1) \in Nat
    BY <1>2, <2>1
  <2>5. Upto(f, i) <= Upto(f, i + j)
    BY <2>2, <2>3, <2>4
  <2> QED  BY <2>1, <2>5
<1>5. k - i \in 0..(n - i) /\ i + (k - i) = k
  BY <1>1 DEF n
<1>6. k - i \in S
  <2> HIDE DEF S
  <2> QED  BY <1>1, <1>3, <1>4, <1>5, Plus!UpTo
<1>7. i \in 0..n /\ k \in 0..n
  BY DEF n
<1> QED  BY <1>2, <1>5, <1>6, <1>7

LEMMA TotalAppend ==
  ASSUME NEW f \in Seq(Nat), NEW x \in Nat
  PROVE  Total(Append(f, x)) = Total(f) + x
<1> DEFINE g == Append(f, x)  n == Len(f)
<1>1. g \in Seq(Nat) /\ Len(g) = n + 1 /\ n \in Nat /\ g[n + 1] = x /\ SubSeq(g, 1, n) = f
  OBVIOUS
<1>2. n + 1 \in 1..Len(g) /\ n + 1 - 1 = n
  BY <1>1
<1> HIDE DEF g
<1>3. Total(g) = Upto(g, n) + x
  BY <1>1, <1>2, SumSteps
<1>4. Upto(g, n) = Total(f)
  BY <1>1 DEF Upto
<1> QED  BY <1>3, <1>4 DEF g

-----------------------------------------------------------------------------
(* Slices.                                                                 *)

LEMMA ListIs ==
  ASSUME NEW f, NEW n \in Nat, f = [k \in 1..n |-> f[k]]
  PROVE  f \in Seq(Range(f)) /\ Len(f) = n /\ DOMAIN f = 1..n
<1>1. \A k \in 1..n : f[k] \in Range(f)
  BY DEF Range
<1> DEFINE R == Range(f)
<1> HIDE DEF R
<1>2. [k \in 1..n |-> f[k]] \in Seq(R) /\ Len([k \in 1..n |-> f[k]]) = n
  BY <1>1 DEF R
<1>3. DOMAIN [k \in 1..n |-> f[k]] = 1..n
  OBVIOUS
<1> QED  BY <1>2, <1>3 DEF R

IsSlice(z) == /\ z = [len |-> z.len, mem |-> z.mem]
              /\ z.mem \in Seq(Range(z.mem)) /\ z.len \in Nat /\ z.len <= Len(z.mem)

\* Beyond the length, and all over, there is nothing of an earlier use.
Memory(z, zero) == IsSlice(z) /\ \A k \in DOMAIN z.mem : k > z.len => z.mem[k] = zero
Zeroed(z, zero) == IsSlice(z) /\ \A k \in DOMAIN z.mem : z.mem[k] = zero

LEMMA SliceIs ==
  ASSUME NEW n \in Nat, NEW m, m = [k \in 1..n |-> m[k]], NEW l \in 0..n
  PROVE  LET z == [len |-> l, mem |-> m] IN IsSlice(z) /\ DOMAIN z.mem = 1..n /\ z.len = l
<1>1. m \in Seq(Range(m)) /\ Len(m) = n /\ DOMAIN m = 1..n
  BY ListIs
<1> QED  BY <1>1 DEF IsSlice

LEMMA SliceOf ==
  ASSUME NEW z, IsSlice(z)
  PROVE  /\ Len(z.mem) \in Nat /\ DOMAIN z.mem = 1..Len(z.mem) /\ z.len \in 0..Len(z.mem)
         /\ z.mem = [k \in 1..Len(z.mem) |-> z.mem[k]] /\ z = [len |-> z.len, mem |-> z.mem]
<1> DEFINE R == Range(z.mem)
<1>1. z.mem \in Seq(R) /\ z.len \in Nat /\ z.len <= Len(z.mem)
  BY DEF IsSlice
<1> HIDE DEF R
<1> QED  BY <1>1 DEF IsSlice

LEMMA ClearedIs ==
  ASSUME NEW z, NEW zero, Memory(z, zero)
  PROVE  Zeroed(Cleared(z, zero), zero) /\ Cleared(z, zero).len = z.len
         /\ DOMAIN Cleared(z, zero).mem = DOMAIN z.mem
<1> DEFINE n == Len(z.mem)
           m == [k \in 1..n |-> IF k <= z.len THEN zero ELSE z.mem[k]]
<1>1. /\ n \in Nat /\ DOMAIN z.mem = 1..n /\ z.len \in 0..n
      /\ z = [len |-> z.len, mem |-> z.mem]
  BY SliceOf DEF Memory
<1>2. Cleared(z, zero) = [len |-> z.len, mem |-> m]
  <2> DEFINE c == [k \in DOMAIN z.mem |-> IF k <= z.len THEN zero ELSE z.mem[k]]
  <2>1. Cleared(z, zero) = [z EXCEPT !.mem = c]
    BY Zenon DEF Cleared
  <2>2. c = m
    BY <1>1
  <2> HIDE DEF c
  <2>3. [z EXCEPT !.mem = c] = [len |-> z.len, mem |-> c]
    BY <1>1
  <2> QED  BY <2>1, <2>2, <2>3
<1>3. m = [k \in 1..n |-> m[k]] /\ \A k \in 1..n : m[k] = zero
  BY <1>1 DEF Memory
<1> HIDE DEF n, m
<1>4. IsSlice([len |-> z.len, mem |-> m]) /\ DOMAIN m = 1..n
  BY <1>1, <1>3, SliceIs
<1> QED  BY <1>1, <1>2, <1>3, <1>4 DEF Zeroed

LEMMA CutIs ==
  ASSUME NEW z, NEW zero, Zeroed(z, zero)
  PROVE  Zeroed(Cut(z), zero)
<1>1. /\ Len(z.mem) \in Nat /\ z.len \in 0..Len(z.mem) /\ DOMAIN z.mem = 1..Len(z.mem)
      /\ z.mem = [k \in 1..Len(z.mem) |-> z.mem[k]] /\ z = [len |-> z.len, mem |-> z.mem]
  BY SliceOf DEF Zeroed
<1>2. Cut(z) = [len |-> 0, mem |-> z.mem]
  BY <1>1 DEF Cut
<1>3. 0 \in 0..Len(z.mem)
  BY <1>1
<1>4. IsSlice([len |-> 0, mem |-> z.mem])
  BY <1>1, <1>3, SliceIs
<1> QED  BY <1>2, <1>4 DEF Zeroed

LEMMA ResizedIs ==
  ASSUME NEW z, NEW zero, Zeroed(z, zero), NEW n \in Nat
  PROVE  Zeroed(Resized(z, n, zero), zero) /\ Resized(z, n, zero).len = n
<1>1. /\ Len(z.mem) \in Nat /\ z.len \in 0..Len(z.mem) /\ DOMAIN z.mem = 1..Len(z.mem)
      /\ z.mem = [k \in 1..Len(z.mem) |-> z.mem[k]] /\ z = [len |-> z.len, mem |-> z.mem]
  BY SliceOf DEF Zeroed
<1>2. CASE Len(z.mem) >= n
  <2>1. Resized(z, n, zero) = [len |-> n, mem |-> z.mem]
    BY <1>1, <1>2 DEF Resized
  <2>2. n \in 0..Len(z.mem)
    BY <1>1, <1>2
  <2>3. IsSlice([len |-> n, mem |-> z.mem])
    BY <1>1, <2>2, SliceIs
  <2> QED  BY <2>1, <2>3 DEF Zeroed
<1>3. CASE ~ (Len(z.mem) >= n)
  <2> DEFINE m == [k \in 1..n |-> zero]
  <2>1. Resized(z, n, zero) = [len |-> n, mem |-> m]
    BY <1>3 DEF Resized
  <2>2. m = [k \in 1..n |-> m[k]] /\ (\A k \in 1..n : m[k] = zero) /\ n \in 0..n
    OBVIOUS
  <2> HIDE DEF m
  <2>3. IsSlice([len |-> n, mem |-> m]) /\ DOMAIN m = 1..n
    BY <2>2, SliceIs
  <2> QED  BY <2>1, <2>2, <2>3 DEF Zeroed
<1> QED  BY <1>2, <1>3

LEMMA ZeroedIsMemory ==
  ASSUME NEW z, NEW zero, Zeroed(z, zero)
  PROVE  Memory(z, zero)
BY DEF Zeroed, Memory

\* A place of a slice is written.
LEMMA WrittenAt ==
  ASSUME NEW z, NEW zero, Memory(z, zero), NEW i \in 1..z.len, NEW x,
         NEW y, y = [z EXCEPT !.mem = [z.mem EXCEPT ![i] = x]]
  PROVE  /\ Memory(y, zero) /\ y.len = z.len /\ DOMAIN y.mem = DOMAIN z.mem
         /\ y.mem = [k \in DOMAIN z.mem |-> IF k = i THEN x ELSE z.mem[k]]
<1> DEFINE n == Len(z.mem)
           m == [k \in 1..n |-> IF k = i THEN x ELSE z.mem[k]]
<1>1. /\ n \in Nat /\ DOMAIN z.mem = 1..n /\ z.len \in 0..n /\ z.mem = [k \in 1..n |-> z.mem[k]]
      /\ z = [len |-> z.len, mem |-> z.mem]
  BY SliceOf DEF Memory
<1>2. [z.mem EXCEPT ![i] = x] = m /\ [z EXCEPT !.mem = m] = [len |-> z.len, mem |-> m]
  <2>1. PICK u : u = z.mem
    OBVIOUS
  <2>2. u = [k \in 1..n |-> u[k]]
    BY <1>1, <2>1
  <2>3. [u EXCEPT ![i] = x] = [k \in 1..n |-> IF k = i THEN x ELSE u[k]]
    BY <2>2
  <2>4. [z.mem EXCEPT ![i] = x] = m
    BY <2>1, <2>3
  <2> HIDE DEF m
  <2>5. PICK l : l = z.len
    OBVIOUS
  <2>6. [z EXCEPT !.mem = m] = [len |-> l, mem |-> m]
    BY <1>1, <2>1, <2>5
  <2> QED  BY <2>4, <2>5, <2>6
<1>3. m = [k \in 1..n |-> m[k]] /\ \A k \in 1..n : k > z.len => m[k] = z.mem[k]
  BY <1>1
<1>4. \A k \in 1..n : k > z.len => z.mem[k] = zero
  BY <1>1 DEF Memory
<1>5. m = [k \in DOMAIN z.mem |-> IF k = i THEN x ELSE z.mem[k]]
  BY <1>1
<1> HIDE DEF n, m
<1>6. IsSlice([len |-> z.len, mem |-> m]) /\ DOMAIN m = 1..n
  BY <1>1, <1>3, SliceIs
<1>7. Memory([len |-> z.len, mem |-> m], zero)
  BY <1>3, <1>4, <1>6 DEF Memory
<1> QED  BY <1>1, <1>2, <1>5, <1>6, <1>7

-----------------------------------------------------------------------------
(* Lists in a backing array.                                               *)

IsPart(part) == part = [off |-> part.off, len |-> part.len] /\ part.off \in Nat /\ part.len \in Nat

\* Each list begins behind the counts of those before it, and keeps to its own.
Placing(parts, counts, z, zero) ==
  /\ counts \in Seq(Nat) /\ parts = [p \in DOMAIN counts |-> parts[p]]
  /\ \A p \in DOMAIN counts :
       IsPart(parts[p]) /\ parts[p].off = Upto(counts, p - 1) /\ parts[p].len <= counts[p]
  /\ Memory(z, zero) /\ z.len = Total(counts)

LEMMA PlacesApart ==
  ASSUME NEW parts, NEW counts, NEW z, NEW zero, Placing(parts, counts, z, zero),
         NEW p \in DOMAIN counts
  PROVE  /\ parts[p].off \in Nat /\ parts[p].len \in Nat /\ counts[p] \in Nat /\ z.len \in Nat
         /\ parts[p].off + counts[p] <= z.len
         /\ \A q \in DOMAIN counts : p < q => parts[p].off + counts[p] <= parts[q].off
<1> DEFINE n == Len(counts)
<1>1. n \in Nat /\ DOMAIN counts = 1..n /\ counts[p] \in Nat /\ counts \in Seq(Nat)
  BY DEF Placing
<1> HIDE DEF n
<1>2. /\ \A k \in 1..n : Upto(counts, k) = Upto(counts, k - 1) + counts[k]
      /\ Upto(counts, n) = Total(counts) /\ \A k \in 0..n : Upto(counts, k) \in Nat
  BY <1>1, SumSteps DEF n
<1>3. p \in 1..n /\ p \in 0..n /\ n \in 0..n /\ p <= n /\ \A q \in 1..n : q - 1 \in 0..n /\ (p < q => p <= q - 1)
  BY <1>1
<1>4. parts[p].off \in Nat /\ parts[p].len \in Nat /\ parts[p].off = Upto(counts, p - 1)
  BY DEF Placing, IsPart
<1>5. parts[p].off + counts[p] = Upto(counts, p)
  BY <1>2, <1>3, <1>4
<1>6. \A k \in 0..n : p <= k => Upto(counts, p) <= Upto(counts, k)
  BY <1>1, <1>3, SumGrows DEF n
<1>7. z.len = Total(counts) /\ \A q \in 1..n : parts[q].off = Upto(counts, q - 1)
  BY <1>1 DEF Placing
<1>8. parts[p].off + counts[p] <= z.len /\ z.len \in Nat
  BY <1>2, <1>3, <1>5, <1>6, <1>7
<1>9. ASSUME NEW q \in 1..n, p < q PROVE parts[p].off + counts[p] <= parts[q].off
  <2>1. q - 1 \in 0..n /\ p <= q - 1
    BY <1>3, <1>9
  <2> QED  BY <1>5, <1>6, <1>7, <2>1
<1> QED  BY <1>1, <1>4, <1>8, <1>9

\* What an append in place leaves.
Extended(a, parts, counts, z, zero, p) ==
  Placing([parts EXCEPT ![p] = a.part], counts, [z EXCEPT !.mem = a.mem], zero)

OthersKeep(mem, parts, counts, z, p) ==
  \A q \in DOMAIN counts : q # p => Part(parts[q], mem) = Part(parts[q], z.mem)

OneMore(new, old, n, x) == new = [k \in 1..(n + 1) |-> IF k = n + 1 THEN x ELSE old[k]]

\* A list with room takes one more in place, and the others keep what they have.
LEMMA AppendFits ==
  ASSUME NEW parts, NEW counts, NEW z, NEW zero, Placing(parts, counts, z, zero),
         NEW p \in DOMAIN counts, parts[p].len < counts[p], NEW x,
         NEW a, a = Appended(parts[p], z.mem, x)
  PROVE  /\ a.part.len = parts[p].len + 1
         /\ Extended(a, parts, counts, z, zero, p)
         /\ OneMore(Part(a.part, a.mem), Part(parts[p], z.mem), parts[p].len, x)
         /\ OthersKeep(a.mem, parts, counts, z, p)
<1> DEFINE y == [z EXCEPT !.mem = a.mem]
           off == parts[p].off  l == parts[p].len  i == off + l + 1
           new == [off |-> off, len |-> l + 1]
           m == [k \in DOMAIN z.mem |-> IF k = i THEN x ELSE z.mem[k]]
<1>1. PICK n \in Nat : n = Len(counts) /\ DOMAIN counts = 1..n
  <2>1. counts \in Seq(Nat)
    BY DEF Placing
  <2>2. Len(counts) \in Nat /\ DOMAIN counts = 1..Len(counts)
    BY <2>1
  <2> QED  BY <2>2
<1>2. /\ off \in Nat /\ l \in Nat /\ counts[p] \in Nat /\ z.len \in Nat /\ off + counts[p] <= z.len
      /\ \A q \in DOMAIN counts : p < q => off + counts[p] <= parts[q].off
  BY PlacesApart
<1>3. i \in 1..z.len
  BY <1>2
<1>4. parts[p] = [off |-> off, len |-> l] /\ Memory(z, zero)
  BY DEF Placing, IsPart
<1>5. Len(z.mem) \in Nat /\ z.len <= Len(z.mem) /\ DOMAIN z.mem = 1..Len(z.mem)
  <2>1. IsSlice(z)
    BY <1>4 DEF Memory
  <2>2. PICK l1 : l1 = Len(z.mem)
    OBVIOUS
  <2>3. l1 \in Nat /\ z.len \in 0..l1 /\ DOMAIN z.mem = 1..l1
    BY <2>1, <2>2, SliceOf
  <2>4. z.len <= l1
    BY <2>3
  <2> QED  BY <2>2, <2>3, <2>4
<1>6. a = [part |-> new, mem |-> [z.mem EXCEPT ![i] = x]]
  <2>1. i <= Len(z.mem)
    BY <1>2, <1>3, <1>5
  <2>2. [parts[p] EXCEPT !.len = @ + 1] = new
    BY <1>4
  <2> HIDE DEF new
  <2> QED  BY <2>1, <2>2 DEF Appended
<1>7. a.part = new /\ a.mem = [z.mem EXCEPT ![i] = x]
  <2> HIDE DEF new, i
  <2> QED  BY <1>6
<1>8. Memory(y, zero) /\ y.len = z.len /\ y.mem = m
  <2>1. y = [z EXCEPT !.mem = [z.mem EXCEPT ![i] = x]]
    <3> HIDE DEF i
    <3> QED  BY <1>7
  <2> HIDE DEF i
  <2> HIDE DEF y
  <2> QED  BY <1>3, <1>4, <2>1, WrittenAt
<1>9. a.mem = m
  <2>1. PICK c : c = a.mem
    OBVIOUS
  <2>2. y.mem = c
    <3>1. [z EXCEPT !.mem = c].mem = c
      <4>1. z = [len |-> z.len, mem |-> z.mem]
        BY <1>4, SliceOf DEF Memory
      <4> QED  BY <4>1
    <3> QED  BY <2>1, <3>1
  <2> HIDE DEF y, m
  <2> QED  BY <1>8, <2>1, <2>2
<1> DEFINE parts2 == [parts EXCEPT ![p] = new]
<1>10. Placing(parts2, counts, y, zero)
  <2>1. parts = [q \in DOMAIN counts |-> parts[q]]
    BY DEF Placing
  <2>2. parts2 = [q \in DOMAIN counts |-> IF q = p THEN new ELSE parts[q]]
    BY <2>1
  <2>3. IsPart(new) /\ new.off = off /\ new.len = l + 1 /\ l + 1 <= counts[p]
    BY <1>2 DEF IsPart
  <2>4. /\ counts \in Seq(Nat) /\ z.len = Total(counts)
        /\ \A q \in DOMAIN counts : IsPart(parts[q]) /\ parts[q].off = Upto(counts, q - 1)
                                    /\ parts[q].len <= counts[q]
    BY DEF Placing
  <2> HIDE DEF parts2, new, y
  <2>5. ASSUME NEW q \in DOMAIN counts
        PROVE  IsPart(parts2[q]) /\ parts2[q].off = Upto(counts, q - 1)
               /\ parts2[q].len <= counts[q]
    BY <2>2, <2>3, <2>4
  <2>6. parts2 = [q \in DOMAIN counts |-> parts2[q]]
    BY <2>2
  <2> QED  BY <1>8, <2>4, <2>5, <2>6 DEF Placing
<1>11. Part(new, m) = [k \in 1..(l + 1) |-> IF k = l + 1 THEN x ELSE Part(parts[p], z.mem)[k]]
  <2>1. \A k \in 1..(l + 1) : new.off + k \in DOMAIN z.mem
    BY <1>2, <1>5
  <2>2. ASSUME NEW k \in 1..(l + 1)
        PROVE  m[new.off + k] = IF k = l + 1 THEN x ELSE Part(parts[p], z.mem)[k]
    <3>1. CASE k = l + 1
      BY <1>2, <2>1, <3>1
    <3>2. CASE k # l + 1
      <4>1. k \in 1..l /\ off + k # i
        BY <1>2, <3>2
      <4>2. Part(parts[p], z.mem)[k] = z.mem[off + k]
        BY <4>1 DEF Part
      <4> QED  BY <2>1, <3>2, <4>1, <4>2
    <3> QED  BY <3>1, <3>2
  <2>3. new.len = l + 1
    OBVIOUS
  <2> HIDE DEF m, new, l
  <2> QED  BY <2>2, <2>3 DEF Part
<1>12. ASSUME NEW q \in DOMAIN counts, q # p PROVE Part(parts[q], m) = Part(parts[q], z.mem)
  <2>1. /\ parts[q].off \in Nat /\ parts[q].len \in Nat /\ counts[q] \in Nat
        /\ parts[q].off + counts[q] <= z.len
        /\ q < p => parts[q].off + counts[q] <= off
    BY PlacesApart
  <2>2. parts[q].len <= counts[q] /\ q \in Int /\ p \in Int
    BY <1>1 DEF Placing
  <2>3. q < p \/ p < q
    BY <1>12, <2>2
  <2>4. ASSUME NEW k \in 1..parts[q].len
        PROVE  parts[q].off + k \in DOMAIN z.mem /\ parts[q].off + k # i
    <3>1. PICK o, ql, cq, zl, ml : o = parts[q].off /\ ql = parts[q].len /\ cq = counts[q]
                                   /\ zl = z.len /\ ml = Len(z.mem)
      OBVIOUS
    <3>2. /\ o \in Nat /\ ql \in Nat /\ cq \in Nat /\ zl \in Nat /\ ml \in Nat /\ o + cq <= zl
          /\ ql <= cq /\ k \in 1..ql /\ zl <= ml /\ DOMAIN z.mem = 1..ml
      BY <1>2, <1>5, <2>1, <2>2, <3>1
    <3>3. o + k \in 1..ml
      BY <3>2
    <3>4. PICK j, ol, cp : j = i /\ ol = off /\ cp = counts[p]
      OBVIOUS
    <3>5. ol \in Nat /\ cp \in Nat /\ j \in Nat /\ j > ol /\ j <= ol + cp
      <4>1. l \in Nat /\ l + 1 <= counts[p] /\ off \in Nat /\ counts[p] \in Nat
        BY <1>2
      <4> HIDE DEF l, off
      <4>2. i = off + l + 1
        BY DEF i
      <4> HIDE DEF i
      <4> QED  BY <3>4, <4>1, <4>2
    <3>6. CASE q < p
      <4>1. o + cq <= ol
        BY <2>1, <3>1, <3>4, <3>6
      <4>2. o + k # j
        BY <3>2, <3>5, <4>1
      <4> QED  BY <3>1, <3>2, <3>3, <3>4, <4>2
    <3>7. CASE p < q
      <4>1. ol + cp <= o
        BY <1>2, <3>1, <3>4, <3>7
      <4>2. o + k # j
        BY <3>2, <3>5, <4>1
      <4> QED  BY <3>1, <3>2, <3>3, <3>4, <4>2
    <3> QED  BY <2>3, <3>6, <3>7
  <2>5. \A k \in 1..parts[q].len : m[parts[q].off + k] = z.mem[parts[q].off + k]
    BY <2>4
  <2> HIDE DEF m
  <2> QED  BY <2>5 DEF Part
<1>13. a.part.len = l + 1
  <2>1. new.len = l + 1
    OBVIOUS
  <2> HIDE DEF new, l
  <2> QED  BY <1>7, <2>1
<1>14. OneMore(Part(a.part, a.mem), Part(parts[p], z.mem), l, x)
  <2> HIDE DEF new, y, m, parts2, l
  <2> QED  BY <1>7, <1>9, <1>11 DEF OneMore
<1>15. OthersKeep(a.mem, parts, counts, z, p)
  <2> HIDE DEF new, y, m, parts2
  <2> QED  BY <1>9, <1>12 DEF OthersKeep
<1>16. Extended(a, parts, counts, z, zero, p)
  <2> HIDE DEF new, m
  <2> QED  BY <1>7, <1>10 DEF Extended
<1> QED  BY <1>13, <1>14, <1>15, <1>16

LocStep(p, a, l) ==
  Appended(a.part, a.mem,
    [fieldID |-> IF l.field = Nothing THEN p[1] ELSE FieldIDPlus1(p[2], l.field), pos |-> l.pos])

Loc == INSTANCE FoldSteps WITH op <- LocStep

LEMMA AddLocsIs ==
  ASSUME NEW part, NEW mem, NEW locs, NEW p
  PROVE  AddLocs(part, mem, locs, p[1], p[2])
           = Loc!Left(p, [part |-> part, mem |-> mem], locs, DOMAIN locs)
BY Zenon DEF AddLocs, FoldLeft, MapThenFoldSet, Max, Loc!Left, Loc!Highest, LocStep

HasRoom(part, n, count) == part.len + n <= count

\* A list with room for all of them takes the locations of a term.
AddsLocs(a, parts, counts, z, zero, p, locs, n, k, inv) ==
  /\ Placing(parts, counts, z, zero) /\ p \in DOMAIN counts
  /\ n \in Nat /\ DOMAIN locs = 1..n /\ HasRoom(parts[p], n, counts[p])
  /\ a = AddLocs(parts[p], z.mem, locs, k, inv)

LEMMA LocsFit ==
  ASSUME NEW a, NEW parts, NEW counts, NEW z, NEW zero, NEW p, NEW locs, NEW n, NEW k, NEW inv,
         AddsLocs(a, parts, counts, z, zero, p, locs, n, k, inv)
  PROVE  a.part.len = parts[p].len + n /\ Extended(a, parts, counts, z, zero, p)
<1>0. /\ Placing(parts, counts, z, zero) /\ p \in DOMAIN counts
      /\ n \in Nat /\ DOMAIN locs = 1..n /\ HasRoom(parts[p], n, counts[p])
      /\ a = AddLocs(parts[p], z.mem, locs, k, inv)
  BY DEF AddsLocs
<1> DEFINE base == [part |-> parts[p], mem |-> z.mem]
<1>1. AddLocs(parts[p], z.mem, locs, k, inv) = Loc!Left(<<k, inv>>, base, locs, 1..n)
  <2>1. PICK q : q = <<k, inv>>
    OBVIOUS
  <2>2. q[1] = k /\ q[2] = inv
    BY <2>1
  <2> HIDE DEF base
  <2>3. AddLocs(parts[p], z.mem, locs, q[1], q[2])
          = Loc!Left(q, [part |-> parts[p], mem |-> z.mem], locs, DOMAIN locs)
    BY AddLocsIs
  <2> QED  BY <1>0, <2>1, <2>2, <2>3 DEF base
<1>2. PICK w : /\ w[0] = base
               /\ \A j \in 1..n : w[j] = LocStep(<<k, inv>>, w[j - 1], locs[j])
               /\ Loc!Left(<<k, inv>>, base, locs, 1..n) = w[n]
  <2> HIDE DEF base
  <2>1. \A q : \E w : /\ w[0] = base
                      /\ \A j \in 1..n : w[j] = LocStep(q, w[j - 1], locs[j])
                      /\ Loc!Left(q, base, locs, 1..n) = w[n]
    BY <1>0, Loc!LeftSteps
  <2> QED  BY <2>1
<1> DEFINE P(v) == [parts EXCEPT ![p] = v.part]  Z(v) == [z EXCEPT !.mem = v.mem]
           Fits(v) == Placing(P(v), counts, Z(v), zero)
           S == {j \in 0..n : w[j].part.len = parts[p].len + j /\ Fits(w[j])}
<1>3. z = [len |-> z.len, mem |-> z.mem] /\ parts = [q \in DOMAIN counts |-> parts[q]]
  BY <1>0, SliceOf DEF Placing, Memory
<1>4. parts[p].len \in Nat /\ counts[p] \in Nat
  BY <1>0, PlacesApart
<1>5. 0 \in S
  <2>1. w[0].part = parts[p] /\ w[0].mem = z.mem
    BY <1>2
  <2>2. P(w[0]) = parts
    <3>1. [parts EXCEPT ![p] = parts[p]] = parts
      BY <1>3
    <3> QED  BY <2>1, <3>1
  <2>3. Z(w[0]) = z
    <3>1. [z EXCEPT !.mem = z.mem] = z
      BY <1>3
    <3> QED  BY <2>1, <3>1
  <2>4. Fits(w[0])
    BY <1>0, <2>2, <2>3
  <2> HIDE DEF Fits
  <2> QED  BY <1>0, <1>4, <2>1, <2>4
<1>6. ASSUME NEW j \in 1..n, j - 1 \in S PROVE j \in S
  <2> DEFINE u == w[j - 1]
  <2>1. Fits(u) /\ u.part.len = parts[p].len + (j - 1) /\ j \in 0..n
    BY <1>0, <1>6
  <2>2. P(u)[p] = u.part /\ Z(u).mem = u.mem
    <3> HIDE DEF u
    <3> QED  BY <1>0, <1>3
  <2>3. P(u)[p].len < counts[p]
    <3>1. j - 1 < n /\ u.part.len = parts[p].len + (j - 1) /\ parts[p].len + n <= counts[p]
      BY <1>0, <2>1 DEF HasRoom
    <3> HIDE DEF u, P
    <3> QED  BY <1>0, <1>4, <2>2, <3>1
  <2>4. PICK x : w[j] = Appended(u.part, u.mem, x)
    BY <1>2 DEF LocStep
  <2> HIDE DEF u
  <2>5. PICK pu, zu, v : pu = P(u) /\ zu = Z(u) /\ v = w[j]
    OBVIOUS
  <2>6. /\ v.part.len = u.part.len + 1
        /\ Placing([P(u) EXCEPT ![p] = v.part], counts, [Z(u) EXCEPT !.mem = v.mem], zero)
    <3> HIDE DEF P, Z
    <3>1. Placing(pu, counts, zu, zero) /\ pu[p].len < counts[p]
      BY <2>1, <2>3, <2>5 DEF Fits
    <3>2. v = Appended(pu[p], zu.mem, x)
      BY <2>2, <2>4, <2>5
    <3>3. v.part.len = pu[p].len + 1 /\ Extended(v, pu, counts, zu, zero, p)
      BY <1>0, <3>1, <3>2, AppendFits
    <3> QED  BY <2>2, <2>5, <3>3 DEF Extended
  <2>7. [P(u) EXCEPT ![p] = v.part] = P(v)
    BY <1>3
  <2>8. [Z(u) EXCEPT !.mem = v.mem] = Z(v)
    BY <1>3
  <2>9. Fits(v)
    <3> HIDE DEF P, Z
    <3> QED  BY <2>6, <2>7, <2>8 DEF Fits
  <2> HIDE DEF Fits
  <2>10. w[j].part.len = parts[p].len + j
    BY <1>0, <1>4, <2>1, <2>5, <2>6
  <2> QED  BY <2>1, <2>5, <2>9, <2>10
<1>7. n \in S
  <2> HIDE DEF S
  <2>1. n \in Nat /\ n \in 0..n
    BY <1>0
  <2> QED  BY <1>5, <1>6, <2>1, Loc!UpTo
<1>8. w[n].part.len = parts[p].len + n /\ Fits(w[n])
  <2> HIDE DEF Fits
  <2> QED  BY <1>7
<1>9. a = w[n]
  BY <1>0, <1>1, <1>2
<1> QED  BY <1>8, <1>9 DEF Extended

-----------------------------------------------------------------------------
(* What realloc counts.                                                    *)

LEMMA BatchIs ==
  ASSUME NEW b \in Batches
  PROVE  /\ Len(b) \in Nat /\ DOMAIN b = 1..Len(b) /\ b = [d \in 1..Len(b) |-> b[d]]
         /\ \A d \in DOMAIN b :
              /\ Len(b[d]) \in Nat /\ DOMAIN b[d] = 1..Len(b[d])
              /\ \A k \in DOMAIN b[d] :
                   /\ b[d][k].name \in Nat /\ IsFiniteSet(DOMAIN b[d][k].tfs)
                   /\ \A t \in DOMAIN b[d][k].tfs :
                        /\ t \in Nat
                        /\ Len(b[d][k].tfs[t].locs) \in Nat
                        /\ DOMAIN b[d][k].tfs[t].locs = 1..Len(b[d][k].tfs[t].locs)
<1>1. ASSUME NEW q, q \in Seq(Range(q))
      PROVE  Len(q) \in Nat /\ DOMAIN q = 1..Len(q) /\ q = [d \in 1..Len(q) |-> q[d]]
  <2> DEFINE R == Range(q)
  <2>1. q \in Seq(R)
    BY <1>1
  <2> HIDE DEF R
  <2> QED  BY <2>1
<1>2. b \in Seq(Range(b)) /\ \A d \in DOMAIN b : b[d] \in Seq(Range(b[d]))
  BY InterimAssumption
<1>3. ASSUME NEW d \in DOMAIN b, NEW k \in DOMAIN b[d]
      PROVE  /\ b[d][k].name \in Nat /\ IsFiniteSet(DOMAIN b[d][k].tfs)
             /\ \A t \in DOMAIN b[d][k].tfs :
                  t \in Nat /\ b[d][k].tfs[t].locs \in Seq(Range(b[d][k].tfs[t].locs))
  BY InterimAssumption
<1>4. ASSUME NEW d \in DOMAIN b, NEW k \in DOMAIN b[d], NEW t \in DOMAIN b[d][k].tfs
      PROVE  /\ Len(b[d][k].tfs[t].locs) \in Nat
             /\ DOMAIN b[d][k].tfs[t].locs = 1..Len(b[d][k].tfs[t].locs)
  BY <1>1, <1>3
<1>5. ASSUME NEW d \in DOMAIN b PROVE Len(b[d]) \in Nat /\ DOMAIN b[d] = 1..Len(b[d])
  BY <1>1, <1>2
<1>6. Len(b) \in Nat /\ DOMAIN b = 1..Len(b) /\ b = [d \in 1..Len(b) |-> b[d]]
  BY <1>1, <1>2
<1> QED  BY <1>3, <1>4, <1>5, <1>6

\* Document by document, the fields with a term and their locations.
TermsIn(b, name, t) == [d \in DOMAIN b |-> Cardinality(OfTerm(b[d], name, t))]
LocsIn(b, name, t)  == [d \in DOMAIN b |-> Total(DocLocs(b[d], name, t))]

LEMMA DocLocsIs ==
  ASSUME NEW b \in Batches, NEW d \in DOMAIN b, NEW name, NEW t
  PROVE  /\ DocLocs(b[d], name, t) \in Seq(Nat)
         /\ Len(DocLocs(b[d], name, t)) = Len(b[d])
         /\ IsFiniteSet(OfTerm(b[d], name, t)) /\ OfTerm(b[d], name, t) \subseteq DOMAIN b[d]
<1> DEFINE n == Len(b[d])  doc == b[d]
           v(k) == IF k \in OfTerm(doc, name, t) THEN Len(doc[k].tfs[t].locs) ELSE 0
<1>1. n \in Nat /\ DOMAIN doc = 1..n
  BY BatchIs
<1>2. \A k \in DOMAIN doc : v(k) \in Nat
  BY BatchIs DEF OfTerm
<1>3. OfTerm(doc, name, t) \subseteq DOMAIN doc
  BY DEF OfTerm
<1>4. IsFiniteSet(OfTerm(doc, name, t))
  <2>1. IsFiniteSet(1..n)
    BY <1>1, FS_Interval
  <2> QED  BY <1>1, <1>3, <2>1, FS_Subset
<1>5. DocLocs(doc, name, t) = [k \in 1..n |-> v(k)]
  BY <1>1 DEF DocLocs
<1> HIDE DEF n, doc, v
<1>6. \A k \in 1..n : v(k) \in Nat
  BY <1>1, <1>2
<1>7. [k \in 1..n |-> v(k)] \in Seq(Nat) /\ Len([k \in 1..n |-> v(k)]) = n
  BY <1>1, <1>6
<1>8. DocLocs(doc, name, t) \in Seq(Nat) /\ Len(DocLocs(doc, name, t)) = n
  BY <1>5, <1>7
<1> QED  BY <1>3, <1>4, <1>8 DEF n, doc

LEMMA CountsAre ==
  ASSUME NEW b \in Batches, NEW name, NEW t
  PROVE  /\ TermsIn(b, name, t) \in Seq(Nat) /\ Len(TermsIn(b, name, t)) = Len(b)
         /\ LocsIn(b, name, t) \in Seq(Nat) /\ Len(LocsIn(b, name, t)) = Len(b)
         /\ NumTerms(b, name, t) = Upto(TermsIn(b, name, t), Len(b))
         /\ NumLocs(b, name, t) = Upto(LocsIn(b, name, t), Len(b))
         /\ NumTerms(b, name, t) \in Nat /\ NumLocs(b, name, t) \in Nat
<1> DEFINE n == Len(b)  c(d) == Cardinality(OfTerm(b[d], name, t))
           l(d) == Total(DocLocs(b[d], name, t))
<1>1. n \in Nat /\ DOMAIN b = 1..n
  BY BatchIs
<1>2. \A d \in DOMAIN b : c(d) \in Nat
  BY DocLocsIs, FS_CardinalityType
<1>3. ASSUME NEW d \in DOMAIN b PROVE l(d) \in Nat
  <2> DEFINE f == DocLocs(b[d], name, t)
  <2>1. f \in Seq(Nat) /\ Len(f) \in Nat
    BY DocLocsIs, BatchIs
  <2> HIDE DEF f
  <2>2. Upto(f, Len(f)) = Total(f) /\ Upto(f, Len(f)) \in Nat
    <3>1. Len(f) \in 0..Len(f)
      BY <2>1
    <3> QED  BY <2>1, <3>1, SumSteps
  <2> QED  BY <2>2 DEF f
<1>4. TermsIn(b, name, t) = [d \in 1..n |-> c(d)] /\ LocsIn(b, name, t) = [d \in 1..n |-> l(d)]
  BY <1>1 DEF TermsIn, LocsIn
<1> HIDE DEF n, c, l
<1>5. /\ [d \in 1..n |-> c(d)] \in Seq(Nat) /\ Len([d \in 1..n |-> c(d)]) = n
      /\ [d \in 1..n |-> l(d)] \in Seq(Nat) /\ Len([d \in 1..n |-> l(d)]) = n
  BY <1>1, <1>2, <1>3
<1>6. /\ TermsIn(b, name, t) \in Seq(Nat) /\ Len(TermsIn(b, name, t)) = n
      /\ LocsIn(b, name, t) \in Seq(Nat) /\ Len(LocsIn(b, name, t)) = n
  BY <1>4, <1>5
<1>7. NumTerms(b, name, t) = Total(TermsIn(b, name, t)) /\ NumLocs(b, name, t) = Total(LocsIn(b, name, t))
  BY DEF NumTerms, NumLocs, TermsIn, LocsIn
<1>8. n \in 0..n
  BY <1>1
<1>9. /\ Upto(TermsIn(b, name, t), n) = Total(TermsIn(b, name, t))
      /\ Upto(LocsIn(b, name, t), n) = Total(LocsIn(b, name, t))
      /\ Upto(TermsIn(b, name, t), n) \in Nat /\ Upto(LocsIn(b, name, t), n) \in Nat
  BY <1>6, <1>8, SumSteps
<1> QED  BY <1>6, <1>7, <1>9 DEF n

LEMMA Room ==
  ASSUME NEW b \in Batches, NEW name, NEW t, NEW d \in 0..(Len(b) - 1)
  PROVE  LET T == TermsIn(b, name, t)  L == LocsIn(b, name, t) IN
         /\ Upto(T, d) \in Nat /\ Upto(L, d) \in Nat
         /\ Cardinality(OfTerm(b[d + 1], name, t)) \in Nat
         /\ Total(DocLocs(b[d + 1], name, t)) \in Nat
         /\ Upto(T, d + 1) = Upto(T, d) + Cardinality(OfTerm(b[d + 1], name, t))
         /\ Upto(L, d + 1) = Upto(L, d) + Total(DocLocs(b[d + 1], name, t))
         /\ Upto(T, d + 1) <= NumTerms(b, name, t) /\ Upto(L, d + 1) <= NumLocs(b, name, t)
         /\ Upto(T, d) <= Upto(T, d + 1) /\ Upto(L, d) <= Upto(L, d + 1)
<1> DEFINE T == TermsIn(b, name, t)  L == LocsIn(b, name, t)  n == Len(b)
<1>1. n \in Nat /\ DOMAIN b = 1..n
  BY BatchIs
<1>2. /\ T \in Seq(Nat) /\ Len(T) = n /\ L \in Seq(Nat) /\ Len(L) = n
      /\ NumTerms(b, name, t) = Upto(T, n) /\ NumLocs(b, name, t) = Upto(L, n)
  BY CountsAre
<1>3. d + 1 \in DOMAIN b /\ d + 1 \in 1..n /\ d + 1 - 1 = d /\ d \in 0..n /\ d + 1 \in 0..n
      /\ n \in 0..n /\ d <= d + 1 /\ d + 1 <= n
  BY <1>1
<1>4. T[d + 1] = Cardinality(OfTerm(b[d + 1], name, t)) /\ L[d + 1] = Total(DocLocs(b[d + 1], name, t))
  BY <1>3 DEF TermsIn, LocsIn
<1>5. T[d + 1] \in Nat /\ L[d + 1] \in Nat
  <2> HIDE DEF T, L, n
  <2> QED  BY <1>2, <1>3
<1> HIDE DEF T, L, n
<1>6. /\ Upto(T, d + 1) = Upto(T, d) + T[d + 1] /\ Upto(L, d + 1) = Upto(L, d) + L[d + 1]
      /\ Upto(T, d) \in Nat /\ Upto(L, d) \in Nat
  <2>1. /\ \A k \in 1..n : Upto(T, k) = Upto(T, k - 1) + T[k]
        /\ \A k \in 0..n : Upto(T, k) \in Nat
    BY <1>2, SumSteps
  <2>2. /\ \A k \in 1..n : Upto(L, k) = Upto(L, k - 1) + L[k]
        /\ \A k \in 0..n : Upto(L, k) \in Nat
    BY <1>2, SumSteps
  <2> QED  BY <1>3, <2>1, <2>2
<1>7. /\ Upto(T, d + 1) <= Upto(T, n) /\ Upto(L, d + 1) <= Upto(L, n)
      /\ Upto(T, d) <= Upto(T, d + 1) /\ Upto(L, d) <= Upto(L, d + 1)
  BY <1>2, <1>3, SumGrows
<1> QED  BY <1>2, <1>4, <1>5, <1>6, <1>7 DEF T, L

-----------------------------------------------------------------------------
(* The entries of a term.                                                  *)

NameOf(b, inv, p) == inv[Pids(b, inv)[p][1]]
TermOf(b, inv, p) == Pids(b, inv)[p][2]
ForTerms(b, inv) ==
  [p \in DOMAIN Pids(b, inv) |-> NumTerms(b, NameOf(b, inv, p), TermOf(b, inv, p))]

ForLocs(b, inv) ==
  [p \in DOMAIN Pids(b, inv) |-> NumLocs(b, NameOf(b, inv, p), TermOf(b, inv, p))]

Numbers(es)    == [k \in DOMAIN es |-> es[k].numLocs]
Entries(io, p) == Part(io.FreqNorms[p], io.freqNormsBacking.mem)

\* No list is longer than what was counted in the first n documents.
ListOk(io, b, inv, p, n) ==
  /\ io.FreqNorms[p].len <= Upto(TermsIn(b, NameOf(b, inv, p), TermOf(b, inv, p)), n)
  /\ io.Locs[p].len <= Upto(LocsIn(b, NameOf(b, inv, p), TermOf(b, inv, p)), n)
  /\ io.Postings.mem[p] \subseteq 0..(n - 1)
  /\ Cardinality(io.Postings.mem[p]) = io.FreqNorms[p].len
  /\ Numbers(Entries(io, p)) \in Seq(Nat)
  /\ Total(Numbers(Entries(io, p))) = io.Locs[p].len

\* Each list has seen the documents before D[p].
Lists(io, b, inv, D) ==
  /\ Placing(io.FreqNorms, ForTerms(b, inv), io.freqNormsBacking, NoFreqNorm)
  /\ Placing(io.Locs, ForLocs(b, inv), io.locsBacking, NoLoc)
  /\ Memory(io.Postings, {}) /\ io.Postings.len = Len(ForTerms(b, inv))
  /\ \A p \in DOMAIN Pids(b, inv) : D[p] \in 0..Len(b) /\ ListOk(io, b, inv, p, D[p])

OpaqueKeys == {"init", "Dicts", "IncludeDocValues", "Postings", "FreqNorms", "freqNormsBacking",
               "Locs", "locsBacking", "extraDocValues", "FieldTFs", "FieldLens", "fieldAddrs"}

IsOpaque(io) == io = [x \in OpaqueKeys |-> io[x]]

\* What the terms of a document leave alone.
SameElse(c, io) == /\ c.init = io.init /\ c.Dicts = io.Dicts /\ c.IncludeDocValues = io.IncludeDocValues
                   /\ c.FieldTFs = io.FieldTFs /\ c.FieldLens = io.FieldLens

Commits(c, io, k, t, d, inv, p, tf, fn, lc) ==
  /\ IsOpaque(io) /\ c = CommitTerm(io, k, t, d, inv)
  /\ p = io.Dicts[k][t] /\ tf = io.FieldTFs.mem[k][t]
  /\ fn = Appended(io.FreqNorms[p], io.freqNormsBacking.mem,
             [freq |-> tf.freq, norm |-> io.FieldLens.mem[k], numLocs |-> Len(tf.locs)])
  /\ lc = AddLocs(io.Locs[p], io.locsBacking.mem, tf.locs, k, inv)

Committed(c, io, p, d, fn, lc) ==
  /\ c.Postings = [io.Postings EXCEPT !.mem =
                     [io.Postings.mem EXCEPT ![p] = io.Postings.mem[p] \cup {d}]]
  /\ c.FreqNorms = [io.FreqNorms EXCEPT ![p] = fn.part]
  /\ c.freqNormsBacking = [io.freqNormsBacking EXCEPT !.mem = fn.mem]
  /\ c.Locs = [io.Locs EXCEPT ![p] = lc.part]
  /\ c.locsBacking = [io.locsBacking EXCEPT !.mem = lc.mem]

LEMMA CommitTermFields ==
  ASSUME NEW c, NEW io, NEW k, NEW t, NEW d, NEW inv, NEW p, NEW tf, NEW fn, NEW lc,
         Commits(c, io, k, t, d, inv, p, tf, fn, lc)
  PROVE  IsOpaque(c) /\ SameElse(c, io) /\ Committed(c, io, p, d, fn, lc)
<1>1. c = [io EXCEPT !.Postings.mem[p] = io.Postings.mem[p] \cup {d},
                     !.FreqNorms[p] = fn.part, !.freqNormsBacking.mem = fn.mem,
                     !.Locs[p] = lc.part, !.locsBacking.mem = lc.mem]
  BY DEF Commits, CommitTerm
<1>2. DOMAIN io = OpaqueKeys
  BY DEF Commits, IsOpaque
<1>3. IsOpaque(c)
  BY <1>1, <1>2 DEF IsOpaque
<1>4. SameElse(c, io)
  BY <1>1, <1>2 DEF SameElse, OpaqueKeys
<1>5. c.Postings = [io.Postings EXCEPT !.mem =
                      [io.Postings.mem EXCEPT ![p] = io.Postings.mem[p] \cup {d}]]
  BY <1>1, <1>2 DEF OpaqueKeys
<1>6. c.FreqNorms = [io.FreqNorms EXCEPT ![p] = fn.part]
      /\ c.freqNormsBacking = [io.freqNormsBacking EXCEPT !.mem = fn.mem]
  BY <1>1, <1>2 DEF OpaqueKeys
<1>7. c.Locs = [io.Locs EXCEPT ![p] = lc.part]
      /\ c.locsBacking = [io.locsBacking EXCEPT !.mem = lc.mem]
  BY <1>1, <1>2 DEF OpaqueKeys
<1> QED  BY <1>3, <1>4, <1>5, <1>6, <1>7 DEF Committed

LEMMA NumbersMore ==
  ASSUME NEW es, Numbers(es) \in Seq(Nat), NEW n \in Nat, es = [k \in 1..n |-> es[k]],
         NEW x, x.numLocs \in Nat, NEW new, OneMore(new, es, n, x)
  PROVE  Numbers(new) \in Seq(Nat) /\ Total(Numbers(new)) = Total(Numbers(es)) + x.numLocs
<1> DEFINE f == Numbers(es)  v == x.numLocs
<1>1. f \in Seq(Nat) /\ f = [k \in 1..n |-> es[k].numLocs] /\ v \in Nat
  BY DEF Numbers
<1>2. DOMAIN f = 1..n /\ \A k \in 1..n : f[k] = es[k].numLocs
  <2> HIDE DEF f
  <2> QED  BY <1>1
<1> HIDE DEF f
<1>3. Len(f) = n
  BY <1>1, <1>2
<1>4. Append(f, v) = [k \in 1..(n + 1) |-> IF k = n + 1 THEN v ELSE f[k]]
  <2> HIDE DEF v
  <2> QED  BY <1>1, <1>3
<1>5. new = [k \in 1..(n + 1) |-> IF k = n + 1 THEN x ELSE es[k]]
  BY DEF OneMore
<1>6. Numbers(new) = [k \in 1..(n + 1) |-> IF k = n + 1 THEN v ELSE f[k]]
  <2>1. DOMAIN new = 1..(n + 1)
    BY <1>5
  <2>2. \A k \in 1..(n + 1) : new[k].numLocs = IF k = n + 1 THEN v ELSE f[k]
    <3>1. \A k \in 1..(n + 1) : k # n + 1 => k \in 1..n
      OBVIOUS
    <3> QED  BY <1>2, <1>5, <3>1
  <2> QED  BY <2>1, <2>2 DEF Numbers
<1>7. Numbers(new) = Append(f, v)
  BY <1>4, <1>6
<1>8. Append(f, v) \in Seq(Nat) /\ Total(Append(f, v)) = Total(f) + v
  <2> HIDE DEF v
  <2> QED  BY <1>1, TotalAppend
<1> QED  BY <1>7, <1>8 DEF f

\* A term of document d, of which only other terms were seen so far.
Committing(io, b, inv, D, k, t, d, p) ==
  /\ IsOpaque(io) /\ Lists(io, b, inv, D) /\ D = [q \in DOMAIN Pids(b, inv) |-> D[q]]
  /\ p \in DOMAIN Pids(b, inv) /\ Pids(b, inv)[p] = <<k, t>> /\ p = io.Dicts[k][t]
  /\ d \in 0..(Len(b) - 1) /\ D[p] = d /\ OfTerm(b[d + 1], inv[k], t) # {}

HasLocs(tf, m, limit) == m \in Nat /\ m = Len(tf.locs) /\ DOMAIN tf.locs = 1..m /\ m <= limit

\* The list of a term, and no other, has seen one more document.
LEMMA CommitTermIs ==
  ASSUME NEW b \in Batches, NEW inv, NEW io, NEW D, NEW k, NEW t, NEW d, NEW p,
         Committing(io, b, inv, D, k, t, d, p),
         NEW tf, tf = io.FieldTFs.mem[k][t], NEW m,
         HasLocs(tf, m, Total(DocLocs(b[d + 1], inv[k], t))),
         NEW c, c = CommitTerm(io, k, t, d, inv)
  PROVE  IsOpaque(c) /\ SameElse(c, io) /\ Lists(c, b, inv, [D EXCEPT ![p] = d + 1])
<1> DEFINE P == DOMAIN Pids(b, inv)  C == ForTerms(b, inv)  L == ForLocs(b, inv)
           name == inv[k]  T == TermsIn(b, name, t)  N == LocsIn(b, name, t)
<1>0. /\ IsOpaque(io) /\ Lists(io, b, inv, D) /\ p \in DOMAIN Pids(b, inv) /\ p = io.Dicts[k][t]
      /\ d \in 0..(Len(b) - 1) /\ D[p] = d
  BY DEF Committing
<1>1. PICK x : x = [freq |-> tf.freq, norm |-> io.FieldLens.mem[k], numLocs |-> m]
  OBVIOUS
<1>2. PICK fn : fn = Appended(io.FreqNorms[p], io.freqNormsBacking.mem, x)
  OBVIOUS
<1>3. PICK lc : lc = AddLocs(io.Locs[p], io.locsBacking.mem, tf.locs, k, inv)
  OBVIOUS
<1>4. /\ IsOpaque(c) /\ SameElse(c, io)
      /\ c.Postings = [io.Postings EXCEPT !.mem =
                         [io.Postings.mem EXCEPT ![p] = io.Postings.mem[p] \cup {d}]]
      /\ c.FreqNorms = [io.FreqNorms EXCEPT ![p] = fn.part]
      /\ c.freqNormsBacking = [io.freqNormsBacking EXCEPT !.mem = fn.mem]
      /\ c.Locs = [io.Locs EXCEPT ![p] = lc.part]
      /\ c.locsBacking = [io.locsBacking EXCEPT !.mem = lc.mem]
  <2>1. fn = Appended(io.FreqNorms[p], io.freqNormsBacking.mem,
               [freq |-> tf.freq, norm |-> io.FieldLens.mem[k], numLocs |-> Len(tf.locs)])
    BY <1>1, <1>2 DEF HasLocs
  <2> HIDE DEF P, C, L, name, T, N
  <2>2. Commits(c, io, k, t, d, inv, p, tf, fn, lc)
    BY <1>0, <1>3, <2>1 DEF Commits
  <2>3. IsOpaque(c) /\ SameElse(c, io) /\ Committed(c, io, p, d, fn, lc)
    BY <2>2, CommitTermFields
  <2> QED  BY <2>3 DEF Committed
<1>5. /\ Placing(io.FreqNorms, C, io.freqNormsBacking, NoFreqNorm)
      /\ Placing(io.Locs, L, io.locsBacking, NoLoc)
      /\ Memory(io.Postings, {}) /\ io.Postings.len = Len(C)
      /\ \A q \in P : D[q] \in 0..Len(b) /\ ListOk(io, b, inv, q, D[q])
  BY <1>0 DEF Lists
<1>6. DOMAIN C = P /\ DOMAIN L = P /\ C[p] = NumTerms(b, name, t) /\ L[p] = NumLocs(b, name, t)
      /\ NameOf(b, inv, p) = name /\ TermOf(b, inv, p) = t
  <2>1. Pids(b, inv)[p] = <<k, t>>
    BY DEF Committing
  <2> QED  BY <1>0, <2>1 DEF ForTerms, ForLocs, NameOf, TermOf
<1>7. /\ io.FreqNorms[p].len \in Nat /\ C[p] \in Nat /\ io.Locs[p].len \in Nat /\ L[p] \in Nat
  <2> HIDE DEF C, L, P
  <2>1. PICK fp, fz, lp, lz : fp = io.FreqNorms /\ fz = io.freqNormsBacking
                              /\ lp = io.Locs /\ lz = io.locsBacking
    OBVIOUS
  <2>2. p \in DOMAIN C /\ p \in DOMAIN L
    BY <1>0, <1>6 DEF P
  <2>3. fp[p].len \in Nat /\ C[p] \in Nat
    BY <1>5, <2>1, <2>2, PlacesApart
  <2>4. lp[p].len \in Nat /\ L[p] \in Nat
    BY <1>5, <2>1, <2>2, PlacesApart
  <2> QED  BY <2>1, <2>3, <2>4
<1>8. /\ Upto(T, d) \in Nat /\ Upto(N, d) \in Nat
      /\ Cardinality(OfTerm(b[d + 1], name, t)) \in Nat
      /\ Total(DocLocs(b[d + 1], name, t)) \in Nat
      /\ Upto(T, d + 1) = Upto(T, d) + Cardinality(OfTerm(b[d + 1], name, t))
      /\ Upto(N, d + 1) = Upto(N, d) + Total(DocLocs(b[d + 1], name, t))
      /\ Upto(T, d + 1) <= C[p] /\ Upto(N, d + 1) <= L[p]
  <2> HIDE DEF C, L, name
  <2> QED  BY <1>0, <1>6, Room
<1>9. /\ io.FreqNorms[p].len <= Upto(T, d) /\ io.Locs[p].len <= Upto(N, d)
      /\ io.Postings.mem[p] \subseteq 0..(d - 1)
      /\ Cardinality(io.Postings.mem[p]) = io.FreqNorms[p].len
      /\ Numbers(Entries(io, p)) \in Seq(Nat)
      /\ Total(Numbers(Entries(io, p))) = io.Locs[p].len
  <2>1. ListOk(io, b, inv, p, d)
    BY <1>0, <1>5
  <2> HIDE DEF T, N, name
  <2> QED  BY <1>6, <2>1 DEF ListOk, T, N
<1>10. Cardinality(OfTerm(b[d + 1], name, t)) >= 1
  <2>1. d + 1 \in DOMAIN b
    <3>1. Len(b) \in Nat /\ DOMAIN b = 1..Len(b)
      BY BatchIs
    <3> QED  BY <1>0, <3>1
  <2>2. IsFiniteSet(OfTerm(b[d + 1], name, t))
    BY <2>1, DocLocsIs
  <2>3. Cardinality(OfTerm(b[d + 1], name, t)) # 0
    BY <2>2, FS_EmptySet DEF Committing
  <2> QED  BY <1>8, <2>3
<1> HIDE DEF C, L, T, N, P
<1>11. io.FreqNorms[p].len + 1 <= Upto(T, d + 1) /\ io.FreqNorms[p].len < C[p]
  <2>1. PICK l, u, v, a, e : l = io.FreqNorms[p].len /\ u = Upto(T, d) /\ v = Upto(T, d + 1)
                             /\ a = Cardinality(OfTerm(b[d + 1], name, t)) /\ e = C[p]
    OBVIOUS
  <2> HIDE DEF name
  <2>2. l \in Nat /\ u \in Nat /\ a \in Nat /\ e \in Nat /\ l <= u /\ v = u + a /\ v <= e /\ a >= 1
    BY <1>7, <1>8, <1>9, <1>10, <2>1
  <2>3. l + 1 <= v /\ l < e
    BY <2>2
  <2> QED  BY <2>1, <2>3
<1>12. io.Locs[p].len + m <= Upto(N, d + 1) /\ io.Locs[p].len + m <= L[p]
  <2>1. PICK l, u, v, a, e : l = io.Locs[p].len /\ u = Upto(N, d) /\ v = Upto(N, d + 1)
                             /\ a = Total(DocLocs(b[d + 1], name, t)) /\ e = L[p]
    OBVIOUS
  <2>2. m <= a /\ m \in Nat
    BY <2>1 DEF HasLocs
  <2> HIDE DEF name
  <2>3. l \in Nat /\ u \in Nat /\ a \in Nat /\ e \in Nat /\ l <= u /\ v = u + a /\ v <= e
    BY <1>7, <1>8, <1>9, <2>1
  <2>4. l + m <= v /\ l + m <= e
    BY <2>2, <2>3
  <2> QED  BY <2>1, <2>4
<1>13. p \in DOMAIN C /\ p \in DOMAIN L
  BY <1>0, <1>6 DEF P
<1>14. /\ fn.part.len = io.FreqNorms[p].len + 1
       /\ Extended(fn, io.FreqNorms, C, io.freqNormsBacking, NoFreqNorm, p)
       /\ OneMore(Part(fn.part, fn.mem), Part(io.FreqNorms[p], io.freqNormsBacking.mem),
                  io.FreqNorms[p].len, x)
       /\ OthersKeep(fn.mem, io.FreqNorms, C, io.freqNormsBacking, p)
  <2>1. PICK fp, fz : fp = io.FreqNorms /\ fz = io.freqNormsBacking
    OBVIOUS
  <2>2. fn = Appended(fp[p], fz.mem, x) /\ Placing(fp, C, fz, NoFreqNorm) /\ fp[p].len < C[p]
    BY <1>2, <1>5, <1>11, <2>1
  <2>3. /\ fn.part.len = fp[p].len + 1 /\ Extended(fn, fp, C, fz, NoFreqNorm, p)
        /\ OneMore(Part(fn.part, fn.mem), Part(fp[p], fz.mem), fp[p].len, x)
        /\ OthersKeep(fn.mem, fp, C, fz, p)
    BY <1>13, <2>2, AppendFits
  <2> QED  BY <2>1, <2>3
<1>15. /\ lc.part.len = io.Locs[p].len + m
       /\ Extended(lc, io.Locs, L, io.locsBacking, NoLoc, p)
  <2>1. PICK lp, lz, ls : lp = io.Locs /\ lz = io.locsBacking /\ ls = tf.locs
    OBVIOUS
  <2>2. /\ lc = AddLocs(lp[p], lz.mem, ls, k, inv) /\ Placing(lp, L, lz, NoLoc)
        /\ HasRoom(lp[p], m, L[p]) /\ DOMAIN ls = 1..m
    BY <1>3, <1>5, <1>12, <2>1 DEF HasRoom, HasLocs
  <2>3. m \in Nat
    BY DEF HasLocs
  <2>4. lc.part.len = lp[p].len + m /\ Extended(lc, lp, L, lz, NoLoc, p)
    <3>1. AddsLocs(lc, lp, L, lz, NoLoc, p, ls, m, k, inv)
      BY <1>13, <2>2, <2>3 DEF AddsLocs
    <3> QED  BY <3>1, LocsFit
  <2> QED  BY <2>1, <2>4
<1>16. /\ Placing(c.FreqNorms, C, c.freqNormsBacking, NoFreqNorm)
       /\ Placing(c.Locs, L, c.locsBacking, NoLoc)
  BY <1>4, <1>14, <1>15 DEF Extended
<1>17. PICK n \in Nat : n = Len(C) /\ DOMAIN C = 1..n /\ n = io.Postings.len
  <2>1. C \in Seq(Nat)
    BY <1>5 DEF Placing
  <2>2. Len(C) \in Nat /\ DOMAIN C = 1..Len(C)
    BY <2>1
  <2> QED  BY <1>5, <2>2
<1>18. Memory(c.Postings, {}) /\ c.Postings.len = n
       /\ \A q \in P : c.Postings.mem[q] = IF q = p THEN io.Postings.mem[p] \cup {d} ELSE io.Postings.mem[q]
  <2>1. p \in 1..io.Postings.len
    BY <1>13, <1>17
  <2>2. PICK y, e, z : y = c.Postings /\ e = io.Postings.mem[p] \cup {d} /\ z = io.Postings
    OBVIOUS
  <2>3. y = [z EXCEPT !.mem = [z.mem EXCEPT ![p] = e]] /\ Memory(z, {}) /\ p \in 1..z.len
    BY <1>4, <1>5, <2>1, <2>2
  <2>4. Memory(y, {}) /\ y.len = z.len
        /\ y.mem = [q \in DOMAIN z.mem |-> IF q = p THEN e ELSE z.mem[q]]
    BY <2>3, WrittenAt
  <2>5. P \subseteq DOMAIN io.Postings.mem
    <3>1. IsSlice(io.Postings)
      BY <1>5 DEF Memory
    <3>2. PICK l : l = Len(io.Postings.mem)
      OBVIOUS
    <3>3. l \in Nat /\ DOMAIN io.Postings.mem = 1..l /\ io.Postings.len \in 0..l
      BY <3>1, <3>2, SliceOf
    <3>4. P = 1..n /\ n <= l
      BY <1>6, <1>17, <3>3
    <3> QED  BY <3>3, <3>4
  <2> QED  BY <1>17, <2>2, <2>4, <2>5
<1>19. /\ c.FreqNorms[p] = fn.part /\ c.Locs[p] = lc.part
       /\ \A q \in P : q # p => c.FreqNorms[q] = io.FreqNorms[q] /\ c.Locs[q] = io.Locs[q]
  <2>1. io.FreqNorms = [q \in P |-> io.FreqNorms[q]] /\ io.Locs = [q \in P |-> io.Locs[q]]
    BY <1>5, <1>6 DEF Placing
  <2>2. p \in P
    BY <1>0 DEF P
  <2> QED  BY <1>4, <2>1, <2>2
<1>20. c.freqNormsBacking.mem = fn.mem
  <2>1. io.freqNormsBacking = [len |-> io.freqNormsBacking.len, mem |-> io.freqNormsBacking.mem]
    BY <1>5, SliceOf DEF Placing, Memory
  <2> QED  BY <1>4, <2>1
<1>21. ListOk(c, b, inv, p, d + 1)
  <2>1. c.FreqNorms[p].len <= Upto(T, d + 1) /\ c.Locs[p].len <= Upto(N, d + 1)
    BY <1>11, <1>12, <1>14, <1>15, <1>19
  <2>2. PICK o, o2 : o = io.Postings.mem[p] /\ o2 = c.Postings.mem[p]
    OBVIOUS
  <2>3. o2 = o \cup {d} /\ o \subseteq 0..(d - 1)
    BY <1>0, <1>9, <1>18, <2>2 DEF P
  <2>4. o2 \subseteq 0..((d + 1) - 1) /\ d \notin o
    BY <1>0, <2>3
  <2>5. Cardinality(o2) = Cardinality(o) + 1
    <3>1. IsFiniteSet(0..(d - 1)) /\ o \in SUBSET (0..(d - 1))
      <4>1. 0 \in Int /\ d - 1 \in Int
        BY <1>0
      <4> QED  BY <2>3, <4>1, FS_Interval
    <3>2. IsFiniteSet(o)
      BY <3>1, FS_Subset
    <3> QED  BY <2>3, <2>4, <3>2, FS_AddElement
  <2>6. Cardinality(o2) = c.FreqNorms[p].len
    BY <1>9, <1>14, <1>19, <2>2, <2>5
  <2>7. PICK es, new : es = Entries(io, p) /\ new = Entries(c, p)
    OBVIOUS
  <2>8. OneMore(new, es, io.FreqNorms[p].len, x)
    BY <1>14, <1>19, <1>20, <2>7 DEF Entries
  <2>9. es = [j \in 1..io.FreqNorms[p].len |-> es[j]]
    BY <2>7 DEF Entries, Part
  <2>10. x.numLocs = m /\ m \in Nat
    BY <1>1 DEF HasLocs
  <2>11. Numbers(new) \in Seq(Nat) /\ Total(Numbers(new)) = Total(Numbers(es)) + m
    <3>1. PICK l : l = io.FreqNorms[p].len
      OBVIOUS
    <3>2. l \in Nat /\ OneMore(new, es, l, x) /\ es = [j \in 1..l |-> es[j]]
          /\ Numbers(es) \in Seq(Nat) /\ x.numLocs \in Nat
      BY <1>7, <1>9, <2>7, <2>8, <2>9, <2>10, <3>1
    <3>3. Numbers(new) \in Seq(Nat) /\ Total(Numbers(new)) = Total(Numbers(es)) + x.numLocs
      BY <3>2, NumbersMore
    <3> QED  BY <2>10, <3>3
  <2>12. Total(Numbers(new)) = c.Locs[p].len
    BY <1>9, <1>15, <1>19, <2>7, <2>11
  <2> QED  BY <1>6, <2>1, <2>2, <2>4, <2>6, <2>7, <2>11, <2>12 DEF ListOk, T, N
<1>22. ASSUME NEW q \in P, q # p PROVE ListOk(c, b, inv, q, D[q])
  <2>1. ListOk(io, b, inv, q, D[q])
    BY <1>5
  <2>2. c.FreqNorms[q] = io.FreqNorms[q] /\ c.Locs[q] = io.Locs[q]
        /\ c.Postings.mem[q] = io.Postings.mem[q]
    BY <1>18, <1>19, <1>22
  <2>3. Entries(c, q) = Entries(io, q)
    BY <1>6, <1>14, <1>20, <1>22, <2>2 DEF OthersKeep, Entries
  <2> QED  BY <2>1, <2>2, <2>3 DEF ListOk
<1>23. PICK D2 : D2 = [D EXCEPT ![p] = d + 1]
  OBVIOUS
<1>24. D2[p] = d + 1 /\ \A q \in P : q # p => D2[q] = D[q]
  <2>1. D = [q \in P |-> D[q]]
    BY DEF Committing, P
  <2> QED  BY <1>0, <1>23, <2>1 DEF P
<1>25. d + 1 \in 0..Len(b)
  <2>1. Len(b) \in Nat
    BY BatchIs
  <2> QED  BY <1>0, <2>1
<1>26. \A q \in P : D2[q] \in 0..Len(b) /\ ListOk(c, b, inv, q, D2[q])
  BY <1>5, <1>21, <1>22, <1>24, <1>25
<1>27. Lists(c, b, inv, D2)
  BY <1>16, <1>17, <1>18, <1>26 DEF Lists, C, L, P
<1> QED  BY <1>4, <1>23, <1>27

-----------------------------------------------------------------------------
(* The terms of a document, in any order.                                  *)

CTStep(p, a, x) == CommitTerm(a, x[1], x[2], p[1], p[2])
CT == INSTANCE FoldSteps WITH op <- CTStep

LEMMA CommitTermsIs ==
  ASSUME NEW io, NEW found, NEW p
  PROVE  CommitTerms(io, found, p[1], p[2]) = CT!Over(p, io, found)
BY Zenon DEF CommitTerms, FoldSet, MapThenFoldSet, CT!Over, CT!Any, CTStep

LEMMA CTSteps ==
  ASSUME NEW S, IsFiniteSet(S), NEW q, NEW base
  PROVE  \E w : CT!Gathered(w, q, base, S)
<1>1. CT!IsFiniteSet(S)
  BY DEF CT!IsFiniteSet, IsFiniteSet
<1> QED  BY <1>1, CT!OverSteps

LEMMA CTSubsets ==
  ASSUME NEW S, IsFiniteSet(S)
  PROVE  \A G : (\A T \in SUBSET S : (\A x \in T : T \ {x} \in G) => T \in G) => S \in G
BY CT!Subsets DEF CT!IsFiniteSet, IsFiniteSet

LEMMA ListOkGrows ==
  ASSUME NEW b \in Batches, NEW inv, NEW io, NEW p \in DOMAIN Pids(b, inv),
         NEW d \in 0..(Len(b) - 1), ListOk(io, b, inv, p, d),
         io.FreqNorms[p].len \in Nat, io.Locs[p].len \in Nat
  PROVE  ListOk(io, b, inv, p, d + 1)
<1> DEFINE name == NameOf(b, inv, p)  t == TermOf(b, inv, p)
           T == TermsIn(b, name, t)  N == LocsIn(b, name, t)
<1>1. /\ Upto(T, d) \in Nat /\ Upto(N, d) \in Nat
      /\ Upto(T, d) <= Upto(T, d + 1) /\ Upto(N, d) <= Upto(N, d + 1)
      /\ Upto(T, d + 1) = Upto(T, d) + Cardinality(OfTerm(b[d + 1], name, t))
      /\ Upto(N, d + 1) = Upto(N, d) + Total(DocLocs(b[d + 1], name, t))
      /\ Cardinality(OfTerm(b[d + 1], name, t)) \in Nat
      /\ Total(DocLocs(b[d + 1], name, t)) \in Nat
  <2> HIDE DEF name, t
  <2> QED  BY Room
<1> HIDE DEF name, t, T, N
<1>2. io.FreqNorms[p].len <= Upto(T, d) /\ io.Locs[p].len <= Upto(N, d)
  BY DEF ListOk, name, t, T, N
<1>3. PICK f, l, u, v, u1, v1 : /\ f = io.FreqNorms[p].len /\ l = io.Locs[p].len
                                /\ u = Upto(T, d) /\ v = Upto(N, d)
                                /\ u1 = Upto(T, d + 1) /\ v1 = Upto(N, d + 1)
  OBVIOUS
<1>4. u1 \in Nat /\ v1 \in Nat
  <2>1. PICK x, y : x = Cardinality(OfTerm(b[d + 1], name, t)) /\ y = Total(DocLocs(b[d + 1], name, t))
    OBVIOUS
  <2>2. u1 = u + x /\ v1 = v + y /\ x \in Nat /\ y \in Nat /\ u \in Nat /\ v \in Nat
    BY <1>1, <1>3, <2>1
  <2> QED  BY <2>2
<1>5. f <= u /\ u <= u1 /\ l <= v /\ v <= v1 /\ f \in Nat /\ l \in Nat /\ u \in Nat /\ v \in Nat
  BY <1>1, <1>2, <1>3
<1>6. f <= u1 /\ l <= v1
  BY <1>4, <1>5
<1>7. \A o : o \subseteq 0..(d - 1) => o \subseteq 0..((d + 1) - 1)
  OBVIOUS
<1>8. io.Postings.mem[p] \subseteq 0..((d + 1) - 1)
  <2>1. io.Postings.mem[p] \subseteq 0..(d - 1)
    BY DEF ListOk
  <2> QED  BY <1>7, <2>1
<1>9. io.FreqNorms[p].len <= Upto(T, d + 1) /\ io.Locs[p].len <= Upto(N, d + 1)
  BY <1>3, <1>6
<1> QED  BY <1>8, <1>9 DEF ListOk, name, t, T, N

\* What processDocument has found in a document, as the counts foresaw it.
Founds(io, b, inv, d, found) ==
  /\ IsFiniteSet(found)
  /\ \A x \in found :
       /\ io.Dicts[x[1]][x[2]] \in DOMAIN Pids(b, inv)
       /\ Pids(b, inv)[io.Dicts[x[1]][x[2]]] = x /\ x = <<x[1], x[2]>>
       /\ OfTerm(b[d + 1], inv[x[1]], x[2]) # {}
       /\ HasLocs(io.FieldTFs.mem[x[1]][x[2]], Len(io.FieldTFs.mem[x[1]][x[2]].locs),
                  Total(DocLocs(b[d + 1], inv[x[1]], x[2])))

All(b, inv, n) == [q \in DOMAIN Pids(b, inv) |-> n]

LEMMA CommitTermsHold ==
  ASSUME NEW b \in Batches, NEW inv, NEW io, IsOpaque(io), NEW d \in 0..(Len(b) - 1),
         Lists(io, b, inv, All(b, inv, d)), NEW found, Founds(io, b, inv, d, found),
         NEW c, c = CommitTerms(io, found, d, inv)
  PROVE  IsOpaque(c) /\ SameElse(c, io) /\ Lists(c, b, inv, All(b, inv, d + 1))
<1> DEFINE P == DOMAIN Pids(b, inv)
           Seen(T) == [q \in P |-> IF \E x \in T : q = io.Dicts[x[1]][x[2]] THEN d + 1 ELSE d]
<1>0. PICK dd : dd = d
  OBVIOUS
<1>1. PICK pd : pd = <<d, inv>> /\ pd[1] = d /\ pd[2] = inv
  <2>1. PICK q : q = <<d, inv>>
    OBVIOUS
  <2>2. q[1] = d /\ q[2] = inv
    BY <2>1
  <2> QED  BY <2>1, <2>2
<1>2. c = CT!Over(pd, io, found)
  BY <1>1, CommitTermsIs
<1>3. IsFiniteSet(found)
  BY DEF Founds
<1>4. PICK w : /\ w[{}] = io
               /\ \A T \in SUBSET found : T # {} => \E x \in T : w[T] = CTStep(pd, w[T \ {x}], x)
               /\ CT!Over(pd, io, found) = w[found]
  <2>1. PICK w : CT!Gathered(w, pd, io, found)
    BY <1>3, CTSteps
  <2>2. /\ w[{}] = io
        /\ \A T \in SUBSET found : T # {} => \E x \in T : w[T] = CTStep(pd, w[T \ {x}], x)
        /\ CT!Over(pd, io, found) = w[found]
    BY <2>1 DEF CT!Gathered
  <2> QED  BY <2>2
<1> DEFINE Done(T) == IsOpaque(w[T]) /\ SameElse(w[T], io) /\ Lists(w[T], b, inv, Seen(T))
           F == {T \in SUBSET found : Done(T)}
<1>5. Done({})
  <2>1. Seen({}) = All(b, inv, d)
    BY DEF All
  <2> HIDE DEF Seen
  <2> QED  BY <1>4, <2>1 DEF SameElse
<1>6. ASSUME NEW T \in SUBSET found, \A x \in T : T \ {x} \in F
      PROVE  T \in F
  <2>1. CASE T = {}
    <3> HIDE DEF Done
    <3> QED  BY <1>5, <2>1
  <2>2. CASE T # {}
    <3>1. PICK x \in T : w[T] = CTStep(pd, w[T \ {x}], x)
      BY <1>4, <2>2
    <3> DEFINE U == T \ {x}  p == io.Dicts[x[1]][x[2]]
    <3>2. PICK u, v : u = w[U] /\ v = w[T]
      OBVIOUS
    <3>3. IsOpaque(u) /\ SameElse(u, io) /\ Lists(u, b, inv, Seen(U))
      <4>1. Done(U)
        <5> HIDE DEF Done
        <5> QED  BY <1>6
      <4> HIDE DEF Seen, U
      <4> QED  BY <3>2, <4>1
    <3>4. v = CommitTerm(u, x[1], x[2], d, inv)
      BY <1>1, <3>1, <3>2 DEF CTStep
    <3>5. /\ x \in found /\ p \in P /\ Pids(b, inv)[p] = x /\ x = <<x[1], x[2]>>
          /\ OfTerm(b[d + 1], inv[x[1]], x[2]) # {}
          /\ HasLocs(io.FieldTFs.mem[x[1]][x[2]], Len(io.FieldTFs.mem[x[1]][x[2]].locs),
                     Total(DocLocs(b[d + 1], inv[x[1]], x[2])))
      BY DEF Founds
    <3>6. \A y \in U : p # io.Dicts[y[1]][y[2]]
      <4> SUFFICES ASSUME NEW y \in U, p = io.Dicts[y[1]][y[2]] PROVE FALSE
        OBVIOUS
      <4>1. y \in found /\ y # x
        OBVIOUS
      <4>2. Pids(b, inv)[p] = y
        BY <4>1 DEF Founds
      <4> QED  BY <3>5, <4>1, <4>2
    <3>7. Seen(U)[p] = d /\ Seen(U) = [q \in P |-> Seen(U)[q]]
      BY <3>5, <3>6
    <3>8. [Seen(U) EXCEPT ![p] = d + 1] = Seen(T)
      <4>1. \A q \in P : (\E y \in T : q = io.Dicts[y[1]][y[2]])
                           <=> (q = p \/ \E y \in U : q = io.Dicts[y[1]][y[2]])
        BY <3>5
      <4> HIDE DEF U, p, P
      <4> QED  BY <4>1
    <3>9. u.Dicts = io.Dicts /\ u.FieldTFs = io.FieldTFs
      BY <3>3 DEF SameElse
    <3>10. PICK k, t, tf, m : k = x[1] /\ t = x[2] /\ tf = u.FieldTFs.mem[k][t] /\ m = Len(tf.locs)
      OBVIOUS
    <3>11. PICK q, D : q = p /\ D = Seen(U)
      OBVIOUS
    <3> HIDE DEF Seen, U, p
    <3>12. Committing(u, b, inv, D, k, t, d, q)
      BY <3>3, <3>5, <3>7, <3>9, <3>10, <3>11 DEF Committing, P, p
    <3>13. HasLocs(tf, m, Total(DocLocs(b[d + 1], inv[k], t)))
      BY <3>5, <3>9, <3>10
    <3>14. IsOpaque(v) /\ SameElse(v, u) /\ Lists(v, b, inv, [D EXCEPT ![q] = d + 1])
      BY <3>4, <3>10, <3>12, <3>13, CommitTermIs
    <3>15. SameElse(v, io)
      BY <3>3, <3>14 DEF SameElse
    <3>16. Done(T)
      BY <3>2, <3>8, <3>11, <3>14, <3>15
    <3> HIDE DEF Done
    <3> QED  BY <3>16
  <2> QED  BY <2>1, <2>2
<1>7. found \in F
  <2> HIDE DEF F
  <2>1. \A T \in SUBSET found : (\A x \in T : T \ {x} \in F) => T \in F
    BY <1>6
  <2>2. \A G : (\A T \in SUBSET found : (\A x \in T : T \ {x} \in G) => T \in G) => found \in G
    BY <1>3, CTSubsets
  <2> QED  BY <2>1, <2>2
<1>8. IsOpaque(c) /\ SameElse(c, io) /\ Lists(c, b, inv, Seen(found))
  <2>1. Done(found)
    <3> HIDE DEF Done
    <3> QED  BY <1>7
  <2> HIDE DEF Seen
  <2> QED  BY <1>2, <1>4, <2>1
<1>9. Lists(c, b, inv, All(b, inv, d + 1))
  <2> DEFINE D == Seen(found)
  <2>1. ASSUME NEW q \in P PROVE ListOk(c, b, inv, q, d + 1) /\ d + 1 \in 0..Len(b)
    <3>1. D[q] = d \/ D[q] = d + 1
      OBVIOUS
    <3> HIDE DEF D, Seen
    <3>2. ListOk(c, b, inv, q, D[q])
      BY <1>8 DEF Lists, D
    <3>3. PICK fp, fz, lp, lz : fp = c.FreqNorms /\ fz = c.freqNormsBacking
                                /\ lp = c.Locs /\ lz = c.locsBacking
      OBVIOUS
    <3>4. Placing(fp, ForTerms(b, inv), fz, NoFreqNorm) /\ Placing(lp, ForLocs(b, inv), lz, NoLoc)
      BY <1>8, <3>3 DEF Lists
    <3>5. q \in DOMAIN ForTerms(b, inv) /\ q \in DOMAIN ForLocs(b, inv)
      BY DEF ForTerms, ForLocs
    <3>6. fp[q].len \in Nat
      BY <3>4, <3>5, PlacesApart
    <3>7. lp[q].len \in Nat
      BY <3>4, <3>5, PlacesApart
    <3>8. d + 1 \in 0..Len(b)
      BY BatchIs
    <3>9. CASE D[q] = d
      BY <3>2, <3>3, <3>6, <3>7, <3>8, <3>9, ListOkGrows
    <3>10. CASE D[q] = d + 1
      BY <3>2, <3>8, <3>10
    <3> QED  BY <3>1, <3>9, <3>10
  <2>2. \A q \in P : All(b, inv, d + 1)[q] = d + 1
    BY DEF All
  <2> HIDE DEF D, Seen
  <2> QED  BY <1>8, <2>1, <2>2 DEF Lists
<1> QED  BY <1>8, <1>9

-----------------------------------------------------------------------------
(* The fields of a document.                                               *)

LEMMA ConcatIs ==
  ASSUME NEW p, p \in Seq(Range(p)), NEW q, q \in Seq(Range(q))
  PROVE  p \o q \in Seq(Range(p \o q)) /\ Len(p \o q) = Len(p) + Len(q) /\ Len(p) \in Nat /\ Len(q) \in Nat
<1> DEFINE R == Range(p) \cup Range(q)  n == Len(p)  m == Len(q)
<1>1. p \in Seq(R) /\ q \in Seq(R)
  <2>1. \A A, B, f : f \in Seq(A) /\ A \subseteq B => f \in Seq(B)
    OBVIOUS
  <2> QED  BY <2>1
<1> HIDE DEF R
<1>2. p \o q \in Seq(R) /\ Len(p \o q) = n + m /\ n \in Nat /\ m \in Nat
  BY <1>1
<1>3. PICK r : r = p \o q
  OBVIOUS
<1>4. r \in Seq(R) /\ Len(r) = n + m /\ n + m \in Nat
  BY <1>2, <1>3
<1> HIDE DEF n, m
<1>5. r = [k \in 1..(n + m) |-> r[k]]
  BY <1>4
<1>6. r \in Seq(Range(r))
  BY <1>4, <1>5, ListIs
<1> QED  BY <1>2, <1>3, <1>6 DEF n, m

\* The memory that the fields of a document are gathered in.
FieldMemory(io, inv) ==
  /\ Memory(io.FieldTFs, Nothing) /\ io.FieldTFs.len = Len(inv)
  /\ Memory(io.FieldLens, 0) /\ io.FieldLens.len = Len(inv)

\* After the first j fields, the terms and locations gathered under name.
Gathers(tfs, doc, name, j) ==
  \/ tfs = Nothing
  \/ /\ IsFiniteSet(DOMAIN tfs)
     /\ \A t \in DOMAIN tfs :
          /\ \E i \in 1..j : i \in OfTerm(doc, name, t)
          /\ tfs[t].locs \in Seq(Range(tfs[t].locs))
          /\ Len(tfs[t].locs) <= Upto(DocLocs(doc, name, t), j)

HasRead(io, doc, inv, j) ==
  FieldMemory(io, inv) /\ \A k \in 1..Len(inv) : Gathers(io.FieldTFs.mem[k], doc, inv[k], j)

\* The interim has all names of the document.
Knows(inv, doc) == /\ Len(inv) \in Nat /\ DOMAIN inv = 1..Len(inv)
                   /\ \A k \in DOMAIN doc : \E i \in DOMAIN inv : inv[i] = doc[k].name

LEMMA GathersMore ==
  ASSUME NEW b \in Batches, NEW d \in DOMAIN b, NEW j \in 1..Len(b[d]), NEW tfs, NEW name,
         Gathers(tfs, b[d], name, j - 1)
  PROVE  Gathers(tfs, b[d], name, j)
<1> DEFINE doc == b[d]
<1>1. CASE tfs = Nothing
  BY <1>1 DEF Gathers
<1>2. CASE tfs # Nothing
  <2>1. ASSUME NEW t \in DOMAIN tfs
        PROVE  /\ \E i \in 1..j : i \in OfTerm(doc, name, t)
               /\ tfs[t].locs \in Seq(Range(tfs[t].locs))
               /\ Len(tfs[t].locs) <= Upto(DocLocs(doc, name, t), j)
    <3>1. /\ \E i \in 1..(j - 1) : i \in OfTerm(doc, name, t)
          /\ tfs[t].locs \in Seq(Range(tfs[t].locs))
          /\ Len(tfs[t].locs) <= Upto(DocLocs(doc, name, t), j - 1)
      BY <1>2, <2>1 DEF Gathers
    <3>2. PICK f, n, l : f = DocLocs(doc, name, t) /\ n = Len(doc) /\ l = Len(tfs[t].locs)
      OBVIOUS
    <3>3. f \in Seq(Nat) /\ Len(f) = n /\ n \in Nat /\ j \in 1..n
      BY <3>2, DocLocsIs, BatchIs
    <3>4. j - 1 \in 0..Len(f) /\ j \in 0..Len(f) /\ j - 1 <= j /\ \A i \in 1..(j - 1) : i \in 1..j
      BY <3>3
    <3>5. Upto(f, j - 1) <= Upto(f, j) /\ Upto(f, j - 1) \in Nat /\ Upto(f, j) \in Nat
      BY <3>3, <3>4, SumGrows
    <3>6. l \in Nat
      <4>1. PICK ls, R : ls = tfs[t].locs /\ R = Range(tfs[t].locs)
        OBVIOUS
      <4>2. ls \in Seq(R)
        BY <3>1, <4>1
      <4>3. Len(ls) \in Nat
        BY <4>2
      <4> QED  BY <3>2, <4>1, <4>3
    <3>7. l <= Upto(f, j)
      <4>1. l <= Upto(f, j - 1)
        BY <3>1, <3>2
      <4> QED  BY <3>5, <3>6, <4>1
    <3> QED  BY <3>1, <3>2, <3>4, <3>7
  <2>2. IsFiniteSet(DOMAIN tfs)
    BY <1>2 DEF Gathers
  <2> QED  BY <2>1, <2>2 DEF Gathers
<1> QED  BY <1>1, <1>2

\* A field more of the name.
LEMMA GathersField ==
  ASSUME NEW b \in Batches, NEW d \in DOMAIN b, NEW j \in 1..Len(b[d]), NEW tfs,
         NEW f, f = b[d][j], Gathers(tfs, b[d], f.name, j - 1)
  PROVE  Gathers(IF tfs = Nothing THEN f.tfs ELSE MergeAll(tfs, f), b[d], f.name, j)
<1> DEFINE doc == b[d]  name == f.name
<1>1. Len(doc) \in Nat /\ DOMAIN doc = 1..Len(doc) /\ j \in DOMAIN doc /\ j \in 1..j
  BY BatchIs
<1>2. IsFiniteSet(DOMAIN f.tfs) /\ \A t \in DOMAIN f.tfs : f.tfs[t].locs \in Seq(Range(f.tfs[t].locs))
  BY <1>1, InterimAssumption
<1>3. ASSUME NEW t \in DOMAIN f.tfs
      PROVE  /\ j \in OfTerm(doc, name, t) /\ Len(f.tfs[t].locs) \in Nat
             /\ Upto(DocLocs(doc, name, t), j)
                  = Upto(DocLocs(doc, name, t), j - 1) + Len(f.tfs[t].locs)
             /\ Upto(DocLocs(doc, name, t), j - 1) \in Nat
  <2>1. j \in OfTerm(doc, name, t)
    BY <1>1, <1>3 DEF OfTerm
  <2>2. PICK g, n : g = DocLocs(doc, name, t) /\ n = Len(doc)
    OBVIOUS
  <2>3. g \in Seq(Nat) /\ Len(g) = n /\ n \in Nat /\ j \in 1..n /\ j - 1 \in 0..n
    BY <1>1, <2>2, DocLocsIs
  <2>4. g[j] = Len(f.tfs[t].locs)
    BY <1>1, <2>1, <2>2 DEF DocLocs
  <2>5. /\ \A k \in 1..n : Upto(g, k) = Upto(g, k - 1) + g[k]
        /\ \A k \in 0..n : Upto(g, k) \in Nat
    BY <2>3, SumSteps
  <2>6. g[j] \in Nat
    BY <2>3
  <2> QED  BY <2>1, <2>2, <2>3, <2>4, <2>5, <2>6
<1>4. CASE tfs = Nothing
  <2>1. ASSUME NEW t \in DOMAIN f.tfs
        PROVE  Len(f.tfs[t].locs) <= Upto(DocLocs(doc, name, t), j)
    <3>1. PICK l, u, v : /\ l = Len(f.tfs[t].locs) /\ u = Upto(DocLocs(doc, name, t), j - 1)
                         /\ v = Upto(DocLocs(doc, name, t), j)
      OBVIOUS
    <3>2. v = u + l /\ u \in Nat /\ l \in Nat
      BY <1>3, <2>1, <3>1
    <3>3. l <= v
      BY <3>2
    <3> QED  BY <3>1, <3>3
  <2>2. Gathers(f.tfs, doc, name, j)
    BY <1>1, <1>2, <1>3, <2>1 DEF Gathers
  <2> QED  BY <1>4, <2>2
<1>5. CASE tfs # Nothing
  <2> DEFINE none == [freq |-> 0, locs |-> <<>>]
             old(t) == IF t \in DOMAIN tfs THEN tfs[t] ELSE none
             named(t) == [k \in DOMAIN f.tfs[t].locs |-> [f.tfs[t].locs[k] EXCEPT !.field = name]]
             new == [t \in DOMAIN tfs \cup DOMAIN f.tfs |->
                       IF t \notin DOMAIN f.tfs THEN tfs[t]
                       ELSE [freq |-> old(t).freq + f.tfs[t].freq, locs |-> old(t).locs \o named(t)]]
  <2>1. MergeAll(tfs, f) = new
    BY DEF MergeAll
  <2>2. IsFiniteSet(DOMAIN tfs)
    BY <1>5 DEF Gathers
  <2>3. DOMAIN new = DOMAIN tfs \cup DOMAIN f.tfs /\ IsFiniteSet(DOMAIN new)
    <3>1. DOMAIN new = DOMAIN tfs \cup DOMAIN f.tfs
      OBVIOUS
    <3> HIDE DEF new
    <3> QED  BY <1>2, <2>2, <3>1, FS_Union
  <2>4. Gathers(tfs, doc, name, j)
    BY GathersMore
  <2>5. ASSUME NEW t \in DOMAIN new
        PROVE  /\ \E i \in 1..j : i \in OfTerm(doc, name, t)
               /\ new[t].locs \in Seq(Range(new[t].locs))
               /\ Len(new[t].locs) <= Upto(DocLocs(doc, name, t), j)
    <3>1. CASE t \notin DOMAIN f.tfs
      <4>1. t \in DOMAIN tfs /\ new[t] = tfs[t]
        BY <2>3, <2>5, <3>1
      <4> HIDE DEF new
      <4> QED  BY <1>5, <2>4, <4>1 DEF Gathers
    <3>2. CASE t \in DOMAIN f.tfs
      <4>1. PICK o, e, r : o = old(t).locs /\ e = named(t) /\ r = new[t].locs
        OBVIOUS
      <4>2. r = o \o e
        BY <3>2, <4>1
      <4>3. e \in Seq(Range(e)) /\ Len(e) = Len(f.tfs[t].locs)
        <5>1. PICK ls, n : ls = f.tfs[t].locs /\ n = Len(ls)
          OBVIOUS
        <5>2. n \in Nat /\ DOMAIN ls = 1..n
          BY <1>1, <3>2, <5>1, BatchIs
        <5>3. e = [k \in 1..n |-> e[k]]
          BY <4>1, <5>1, <5>2
        <5> QED  BY <5>1, <5>2, <5>3, ListIs
      <4>4. PICK u, v, l : /\ l = Len(e) /\ u = Upto(DocLocs(doc, name, t), j - 1)
                           /\ v = Upto(DocLocs(doc, name, t), j)
        OBVIOUS
      <4>5. v = u + l /\ u \in Nat /\ l \in Nat
        BY <1>3, <3>2, <4>3, <4>4
      <4>6. o \in Seq(Range(o)) /\ Len(o) <= u
        <5>1. CASE t \in DOMAIN tfs
          <6>1. o = tfs[t].locs
            BY <4>1, <5>1
          <6> QED  BY <1>5, <4>4, <5>1, <6>1 DEF Gathers
        <5>2. CASE t \notin DOMAIN tfs
          <6>1. o = <<>>
            BY <4>1, <5>2
          <6>2. o \in Seq(Range(o)) /\ Len(o) = 0
            <7>1. <<>> \in Seq(Range(<<>>)) /\ Len(<<>>) = 0
              OBVIOUS
            <7> QED  BY <6>1, <7>1
          <6> QED  BY <4>5, <6>2
        <5> QED  BY <5>1, <5>2
      <4>7. r \in Seq(Range(r)) /\ Len(r) = Len(o) + l /\ Len(o) \in Nat
        BY <4>2, <4>3, <4>4, <4>6, ConcatIs
      <4>8. Len(r) <= v
        <5>1. PICK lo : lo = Len(o)
          OBVIOUS
        <5>2. lo + l <= u + l
          BY <4>5, <4>6, <4>7, <5>1
        <5> QED  BY <4>5, <4>7, <5>1, <5>2
      <4> HIDE DEF new
      <4> QED  BY <1>1, <1>3, <3>2, <4>1, <4>4, <4>7, <4>8
    <3> QED  BY <3>1, <3>2
  <2>6. Gathers(new, doc, name, j)
    <3> HIDE DEF new
    <3> QED  BY <2>3, <2>5 DEF Gathers
  <2> HIDE DEF new
  <2> QED  BY <1>5, <2>1, <2>6
<1> QED  BY <1>4, <1>5

\* What the fields of a document leave alone.
SameLists(c, io) == /\ c.init = io.init /\ c.Dicts = io.Dicts /\ c.IncludeDocValues = io.IncludeDocValues
                    /\ c.Postings = io.Postings
                    /\ c.FreqNorms = io.FreqNorms /\ c.freqNormsBacking = io.freqNormsBacking
                    /\ c.Locs = io.Locs /\ c.locsBacking = io.locsBacking

AddsField(c, io, f, inv, k, n, x) ==
  /\ IsOpaque(io) /\ c = AddField(io, f, inv) /\ k = FieldIDPlus1(inv, f.name)
  /\ n = io.FieldLens.mem[k] + f.len
  /\ x = IF io.FieldTFs.mem[k] = Nothing THEN f.tfs ELSE MergeAll(io.FieldTFs.mem[k], f)

FieldAdded(c, io, k, n, x) ==
  /\ c.FieldLens = [io.FieldLens EXCEPT !.mem = [io.FieldLens.mem EXCEPT ![k] = n]]
  /\ c.FieldTFs = [io.FieldTFs EXCEPT !.mem = [io.FieldTFs.mem EXCEPT ![k] = x]]

LEMMA AddFieldFields ==
  ASSUME NEW c, NEW io, NEW f, NEW inv, NEW k, NEW n, NEW x, AddsField(c, io, f, inv, k, n, x)
  PROVE  IsOpaque(c) /\ SameLists(c, io) /\ FieldAdded(c, io, k, n, x)
<1>1. DOMAIN io = OpaqueKeys
  BY DEF AddsField, IsOpaque
<1>2. c = [io EXCEPT !.FieldLens.mem[k] = io.FieldLens.mem[k] + f.len,
                     !.FieldTFs.mem[k] = IF io.FieldTFs.mem[k] = Nothing THEN f.tfs
                                         ELSE MergeAll(io.FieldTFs.mem[k], f)]
  BY <1>1 DEF AddsField, AddField, OpaqueKeys
<1>3. c = [io EXCEPT !.FieldLens.mem[k] = n, !.FieldTFs.mem[k] = x]
  BY <1>2 DEF AddsField
<1>4. IsOpaque(c)
  BY <1>1, <1>3 DEF IsOpaque
<1>5. SameLists(c, io)
  BY <1>1, <1>3 DEF SameLists, OpaqueKeys
<1>6. FieldAdded(c, io, k, n, x)
  BY <1>1, <1>3 DEF FieldAdded, OpaqueKeys
<1> QED  BY <1>4, <1>5, <1>6

\* A place of a slice is written (WrittenAt).
Writes(z, zero, i, x, y) ==
  Memory(z, zero) /\ i \in 1..z.len /\ y = [z EXCEPT !.mem = [z.mem EXCEPT ![i] = x]]

LEMMA WritesOne ==
  ASSUME NEW z, NEW zero, NEW i, NEW x, NEW y, Writes(z, zero, i, x, y)
  PROVE  /\ Memory(y, zero) /\ y.len = z.len
         /\ y.mem = [k \in DOMAIN z.mem |-> IF k = i THEN x ELSE z.mem[k]]
<1>1. Memory(z, zero) /\ i \in 1..z.len /\ y = [z EXCEPT !.mem = [z.mem EXCEPT ![i] = x]]
  BY DEF Writes
<1> QED  BY <1>1, WrittenAt

LEMMA AddFieldHolds ==
  ASSUME NEW b \in Batches, NEW d \in DOMAIN b, NEW j \in 1..Len(b[d]), NEW inv, Knows(inv, b[d]),
         NEW io, IsOpaque(io), HasRead(io, b[d], inv, j - 1),
         NEW c, c = AddField(io, b[d][j], inv)
  PROVE  IsOpaque(c) /\ SameLists(c, io) /\ HasRead(c, b[d], inv, j)
<1>1. PICK doc, f : doc = b[d] /\ f = b[d][j]
  OBVIOUS
<1>2. PICK k : k = FieldIDPlus1(inv, f.name)
  OBVIOUS
<1>3. PICK n : n = io.FieldLens.mem[k] + f.len
  OBVIOUS
<1>4. PICK x : x = IF io.FieldTFs.mem[k] = Nothing THEN f.tfs ELSE MergeAll(io.FieldTFs.mem[k], f)
  OBVIOUS
<1>5. IsOpaque(c) /\ SameLists(c, io) /\ FieldAdded(c, io, k, n, x)
  <2>1. AddsField(c, io, f, inv, k, n, x)
    BY <1>1, <1>2, <1>3, <1>4 DEF AddsField
  <2> QED  BY <2>1, AddFieldFields
<1>6. k \in 1..Len(inv) /\ inv[k] = f.name
  <2>1. j \in DOMAIN doc /\ f = doc[j]
    BY <1>1, BatchIs
  <2>2. \E i \in DOMAIN inv : inv[i] = f.name
    BY <1>1, <2>1 DEF Knows
  <2>3. k \in DOMAIN inv /\ inv[k] = f.name
    BY <1>2, <2>2 DEF FieldIDPlus1
  <2> QED  BY <2>3 DEF Knows
<1>7. PICK tz, lz, ty, ly, zero : /\ tz = io.FieldTFs /\ lz = io.FieldLens /\ zero = 0
                                  /\ ty = c.FieldTFs /\ ly = c.FieldLens
  OBVIOUS
<1>8. Memory(tz, Nothing) /\ tz.len = Len(inv) /\ Memory(lz, zero) /\ lz.len = Len(inv)
  BY <1>7 DEF HasRead, FieldMemory
<1>9. ty = [tz EXCEPT !.mem = [tz.mem EXCEPT ![k] = x]] /\ ly = [lz EXCEPT !.mem = [lz.mem EXCEPT ![k] = n]]
  BY <1>5, <1>7 DEF FieldAdded
<1>10. /\ Memory(ty, Nothing) /\ ty.len = Len(inv)
       /\ ty.mem = [i \in DOMAIN tz.mem |-> IF i = k THEN x ELSE tz.mem[i]]
  <2>1. Writes(tz, Nothing, k, x, ty)
    BY <1>6, <1>8, <1>9 DEF Writes
  <2> QED  BY <1>8, <2>1, WritesOne
<1>11. Memory(ly, zero) /\ ly.len = Len(inv)
  <2>1. Writes(lz, zero, k, n, ly)
    BY <1>6, <1>8, <1>9 DEF Writes
  <2>2. /\ Memory(ly, zero) /\ ly.len = lz.len
        /\ ly.mem = [i \in DOMAIN lz.mem |-> IF i = k THEN n ELSE lz.mem[i]]
    BY <2>1, WritesOne
  <2> QED  BY <1>8, <2>2
<1>12. ASSUME NEW i \in 1..Len(inv) PROVE Gathers(ty.mem[i], doc, inv[i], j)
  <2>1. Gathers(tz.mem[i], doc, inv[i], j - 1)
    BY <1>1, <1>7 DEF HasRead
  <2>2. i \in DOMAIN tz.mem
    <3>1. Len(tz.mem) \in Nat /\ DOMAIN tz.mem = 1..Len(tz.mem) /\ tz.len \in 0..Len(tz.mem)
      BY <1>8, SliceOf DEF Memory
    <3> QED  BY <1>8, <3>1
  <2>3. CASE i = k
    <3>1. ty.mem[i] = x
      BY <1>10, <2>2, <2>3
    <3>2. PICK m : m = tz.mem[k]
      OBVIOUS
    <3>3. Gathers(m, b[d], f.name, j - 1)
      BY <1>1, <1>6, <2>1, <2>3, <3>2
    <3>4. Gathers(IF m = Nothing THEN f.tfs ELSE MergeAll(m, f), b[d], f.name, j)
      BY <1>1, <3>3, GathersField
    <3>5. x = IF m = Nothing THEN f.tfs ELSE MergeAll(m, f)
      BY <1>4, <1>7, <3>2
    <3> QED  BY <1>1, <1>6, <2>3, <3>1, <3>4, <3>5
  <2>4. CASE i # k
    <3>1. ty.mem[i] = tz.mem[i]
      BY <1>10, <2>2, <2>4
    <3>2. PICK m, v : m = tz.mem[i] /\ v = inv[i]
      OBVIOUS
    <3>3. Gathers(m, b[d], v, j - 1)
      BY <1>1, <2>1, <3>2
    <3>4. Gathers(m, b[d], v, j)
      BY <3>3, GathersMore
    <3> QED  BY <1>1, <3>1, <3>2, <3>4
  <2> QED  BY <2>3, <2>4
<1>13. HasRead(c, doc, inv, j)
  BY <1>7, <1>10, <1>11, <1>12 DEF HasRead, FieldMemory
<1> QED  BY <1>1, <1>5, <1>13

AFStep(p, a, f) == AddField(a, f, p)
AF == INSTANCE FoldSteps WITH op <- AFStep

LEMMA AddFieldsIs ==
  ASSUME NEW io, NEW doc, NEW inv
  PROVE  AddFields(io, doc, inv) = AF!Left(inv, io, doc, DOMAIN doc)
BY Zenon DEF AddFields, FoldLeft, MapThenFoldSet, Max, AF!Left, AF!Highest, AFStep

LEMMA AddFieldsHold ==
  ASSUME NEW b \in Batches, NEW d \in DOMAIN b, NEW inv, Knows(inv, b[d]),
         NEW io, IsOpaque(io), HasRead(io, b[d], inv, 0),
         NEW c, c = AddFields(io, b[d], inv)
  PROVE  IsOpaque(c) /\ SameLists(c, io) /\ HasRead(c, b[d], inv, Len(b[d]))
<1>1. PICK doc, n : doc = b[d] /\ n = Len(doc)
  OBVIOUS
<1>2. n \in Nat /\ DOMAIN doc = 1..n
  BY <1>1, BatchIs
<1>3. c = AF!Left(inv, io, doc, 1..n)
  BY <1>1, <1>2, AddFieldsIs
<1>4. PICK w : /\ w[0] = io
               /\ \A j \in 1..n : w[j] = AFStep(inv, w[j - 1], doc[j])
               /\ AF!Left(inv, io, doc, 1..n) = w[n]
  BY <1>2, AF!LeftSteps
<1> DEFINE Done(j) == IsOpaque(w[j]) /\ SameLists(w[j], io) /\ HasRead(w[j], b[d], inv, j)
           S == {j \in 0..n : Done(j)}
<1>5. 0 \in S
  <2>1. Done(0)
    BY <1>4 DEF SameLists
  <2> HIDE DEF Done
  <2> QED  BY <1>2, <2>1
<1>6. ASSUME NEW j \in 1..n, j - 1 \in S PROVE j \in S
  <2>1. PICK u, v : u = w[j - 1] /\ v = w[j]
    OBVIOUS
  <2>2. IsOpaque(u) /\ SameLists(u, io) /\ HasRead(u, b[d], inv, j - 1)
    BY <1>6, <2>1
  <2>3. v = AddField(u, b[d][j], inv) /\ j \in 1..Len(b[d]) /\ j \in 0..n
    BY <1>1, <1>2, <1>4, <2>1 DEF AFStep
  <2>4. IsOpaque(v) /\ SameLists(v, u) /\ HasRead(v, b[d], inv, j)
    BY <2>2, <2>3, AddFieldHolds
  <2>5. SameLists(v, io)
    BY <2>2, <2>4 DEF SameLists
  <2>6. Done(j)
    BY <2>1, <2>4, <2>5
  <2> HIDE DEF Done
  <2> QED  BY <2>3, <2>6
<1>7. n \in S
  <2> HIDE DEF S
  <2>1. n \in 0..n
    BY <1>2
  <2> QED  BY <1>2, <1>5, <1>6, <2>1, AF!UpTo
<1>8. Done(n)
  <2> HIDE DEF Done
  <2> QED  BY <1>7
<1> QED  BY <1>1, <1>3, <1>4, <1>8

-----------------------------------------------------------------------------
(* The end of a document.                                                  *)

LEMMA FiniteImage ==
  ASSUME NEW S, IsFiniteSet(S), NEW f, NEW T, T = {f[x] : x \in S}
  PROVE  IsFiniteSet(T)
<1> DEFINE g == [x \in S |-> f[x]]
<1>1. g \in Surjection(S, T)
  BY DEF Surjection
<1> HIDE DEF g
<1> QED  BY <1>1, FS_Surjection

\* Each term of a field is in a list of its own.
Numbered(io, b, inv) ==
  \A k \in DOMAIN inv : \A t \in Terms(b, inv[k]) :
    /\ io.Dicts[k][t] \in DOMAIN Pids(b, inv)
    /\ Pids(b, inv)[io.Dicts[k][t]] = <<k, t>>

Found(io, inv) ==
  UNION {{k} \X DOMAIN io.FieldTFs.mem[k] : k \in {j \in DOMAIN inv : io.FieldTFs.mem[j] # Nothing}}

\* A document all of whose fields were gathered.
Ready(io, b, inv, d) ==
  /\ d \in 0..(Len(b) - 1) /\ Len(inv) \in Nat /\ DOMAIN inv = 1..Len(inv)
  /\ Numbered(io, b, inv) /\ HasRead(io, b[d + 1], inv, Len(b[d + 1]))

LEMMA FoundIs ==
  ASSUME NEW b \in Batches, NEW inv, NEW io, NEW d, Ready(io, b, inv, d)
  PROVE  Founds(io, b, inv, d, Found(io, inv))
<1> DEFINE doc == b[d + 1]  mem == io.FieldTFs.mem
           Has == {j \in DOMAIN inv : mem[j] # Nothing}
<1>1. /\ Len(inv) \in Nat /\ DOMAIN inv = 1..Len(inv) /\ d \in 0..(Len(b) - 1)
      /\ \A k \in DOMAIN inv : Gathers(mem[k], doc, inv[k], Len(doc))
  BY DEF Ready, HasRead
<1>2. d + 1 \in DOMAIN b
  BY <1>1, BatchIs
<1>3. Len(doc) \in Nat /\ DOMAIN doc = 1..Len(doc)
  BY <1>2, BatchIs
<1>4. IsFiniteSet(Found(io, inv))
  <2> DEFINE f == [k \in DOMAIN inv |-> {k} \X DOMAIN mem[k]]  T == {f[k] : k \in Has}
  <2>1. IsFiniteSet(Has)
    <3>1. IsFiniteSet(1..Len(inv))
      BY <1>1, FS_Interval
    <3> QED  BY <1>1, <3>1, FS_Subset
  <2>2. IsFiniteSet(T)
    <3> HIDE DEF f, Has
    <3> QED  BY <2>1, FiniteImage
  <2>3. ASSUME NEW k \in Has PROVE IsFiniteSet(f[k])
    <3>1. IsFiniteSet(DOMAIN mem[k])
      BY <1>1, <2>3 DEF Gathers
    <3>2. IsFiniteSet({k})
      BY FS_Singleton
    <3>3. IsFiniteSet({k} \X DOMAIN mem[k])
      <4>1. PICK A, B : A = {k} /\ B = DOMAIN mem[k]
        OBVIOUS
      <4>2. IsFiniteSet(A \X B)
        BY <3>1, <3>2, <4>1, FS_Product
      <4> QED  BY <4>1, <4>2
    <3> QED  BY <3>3
  <2>4. \A A \in T : IsFiniteSet(A)
    BY <2>3
  <2>5. Found(io, inv) = UNION T
    BY DEF Found
  <2> HIDE DEF T
  <2> QED  BY <2>2, <2>4, <2>5, FS_UNION
<1>5. ASSUME NEW x \in Found(io, inv)
      PROVE  /\ io.Dicts[x[1]][x[2]] \in DOMAIN Pids(b, inv)
             /\ Pids(b, inv)[io.Dicts[x[1]][x[2]]] = x /\ x = <<x[1], x[2]>>
             /\ OfTerm(doc, inv[x[1]], x[2]) # {}
             /\ HasLocs(mem[x[1]][x[2]], Len(mem[x[1]][x[2]].locs),
                        Total(DocLocs(doc, inv[x[1]], x[2])))
  <2>1. PICK k \in Has : x \in {k} \X DOMAIN mem[k]
    BY DEF Found
  <2>2. PICK t \in DOMAIN mem[k] : x = <<k, t>>
    BY <2>1
  <2>3. x[1] = k /\ x[2] = t
    BY <2>2
  <2>4. PICK name, tf : name = inv[k] /\ tf = mem[k][t]
    OBVIOUS
  <2>5. /\ \E i \in 1..Len(doc) : i \in OfTerm(doc, name, t)
        /\ tf.locs \in Seq(Range(tf.locs))
        /\ Len(tf.locs) <= Upto(DocLocs(doc, name, t), Len(doc))
    <3>1. Gathers(mem[k], doc, name, Len(doc)) /\ mem[k] # Nothing
      BY <1>1, <2>4
    <3> HIDE DEF Has, mem, doc
    <3> QED  BY <2>4, <3>1 DEF Gathers
  <2>6. PICK i \in DOMAIN doc : doc[i].name = name /\ t \in DOMAIN doc[i].tfs
    BY <2>5 DEF OfTerm
  <2>7. t \in Terms(b, name)
    <3>1. doc[i] \in Fields(b)
      BY <1>2 DEF Fields, Range
    <3> QED  BY <2>6, <3>1 DEF Terms
  <2>8. k \in DOMAIN inv
    OBVIOUS
  <2>9. /\ io.Dicts[k][t] \in DOMAIN Pids(b, inv)
        /\ Pids(b, inv)[io.Dicts[k][t]] = <<k, t>>
    BY <2>4, <2>7, <2>8 DEF Ready, Numbered
  <2>10. HasLocs(tf, Len(tf.locs), Total(DocLocs(doc, name, t)))
    <3>1. PICK f, n : f = DocLocs(b[d + 1], name, t) /\ n = Len(doc)
      OBVIOUS
    <3>2. f \in Seq(Nat) /\ Len(f) = n
      BY <1>2, <3>1, DocLocsIs
    <3>3. Upto(f, n) = Total(f)
      BY <3>2, SumSteps
    <3>4. PICK ls, R : ls = tf.locs /\ R = Range(tf.locs)
      OBVIOUS
    <3>5. ls \in Seq(R)
      BY <2>5, <3>4
    <3>6. Len(ls) \in Nat /\ DOMAIN ls = 1..Len(ls)
      BY <3>5
    <3> QED  BY <2>5, <3>1, <3>3, <3>4, <3>6 DEF HasLocs
  <2> QED  BY <2>2, <2>3, <2>4, <2>5, <2>9, <2>10
<1> HIDE DEF doc, mem
<1>6. Founds(io, b, inv, d, Found(io, inv))
  BY <1>4, <1>5 DEF Founds, doc, mem
<1> QED  BY <1>6

\* What the end of a document leaves alone.
SameHead(c, io) == c.init = io.init /\ c.Dicts = io.Dicts /\ c.IncludeDocValues = io.IncludeDocValues

\* The memory of the fields is empty, and as long as the fields are many.
FieldsZeroed(io, inv) ==
  /\ Zeroed(io.FieldTFs, Nothing) /\ io.FieldTFs.len = Len(inv)
  /\ Zeroed(io.FieldLens, 0) /\ io.FieldLens.len = Len(inv)

LEMMA CommitHolds ==
  ASSUME NEW b \in Batches, NEW inv, NEW io, NEW d, Ready(io, b, inv, d),
         IsOpaque(io), Lists(io, b, inv, All(b, inv, d)), NEW c, c = Commit(io, d, inv)
  PROVE  IsOpaque(c) /\ SameHead(c, io) /\ Lists(c, b, inv, All(b, inv, d + 1)) /\ FieldsZeroed(c, inv)
<1>1. PICK found, done : found = Found(io, inv) /\ done = CommitTerms(io, found, d, inv)
  OBVIOUS
<1>2. IsOpaque(done) /\ SameElse(done, io) /\ Lists(done, b, inv, All(b, inv, d + 1))
  <2>1. Founds(io, b, inv, d, found) /\ d \in 0..(Len(b) - 1)
    BY <1>1, FoundIs DEF Ready
  <2> QED  BY <1>1, <2>1, CommitTermsHold
<1>3. c = [done EXCEPT !.FieldTFs = Cleared(done.FieldTFs, Nothing),
                       !.FieldLens = Cleared(done.FieldLens, 0)]
  <2>1. DOMAIN done = OpaqueKeys
    BY <1>2 DEF IsOpaque
  <2>2. c = [done EXCEPT !.FieldTFs = Cleared(@, Nothing), !.FieldLens = Cleared(@, 0)]
    BY <1>1 DEF Commit, Found
  <2> QED  BY <2>1, <2>2 DEF OpaqueKeys
<1>4. /\ IsOpaque(c) /\ c.FieldTFs = Cleared(done.FieldTFs, Nothing)
      /\ c.FieldLens = Cleared(done.FieldLens, 0)
      /\ c.init = done.init /\ c.Dicts = done.Dicts /\ c.IncludeDocValues = done.IncludeDocValues
      /\ c.Postings = done.Postings /\ c.FreqNorms = done.FreqNorms
      /\ c.freqNormsBacking = done.freqNormsBacking
      /\ c.Locs = done.Locs /\ c.locsBacking = done.locsBacking
  <2>1. DOMAIN done = OpaqueKeys
    BY <1>2 DEF IsOpaque
  <2> QED  BY <1>3, <2>1 DEF IsOpaque, OpaqueKeys
<1>5. SameHead(c, io)
  BY <1>2, <1>4 DEF SameHead, SameElse
<1>6. Lists(c, b, inv, All(b, inv, d + 1))
  BY <1>2, <1>4 DEF Lists, ListOk, Entries
<1>7. FieldsZeroed(c, inv)
  <2>1. PICK tz, lz, zero : tz = io.FieldTFs /\ lz = io.FieldLens /\ zero = 0
    OBVIOUS
  <2>2. Memory(tz, Nothing) /\ tz.len = Len(inv) /\ Memory(lz, zero) /\ lz.len = Len(inv)
    BY <2>1 DEF Ready, HasRead, FieldMemory
  <2>3. c.FieldTFs = Cleared(tz, Nothing) /\ c.FieldLens = Cleared(lz, zero)
    BY <1>2, <1>4, <2>1 DEF SameElse
  <2>4. Zeroed(Cleared(tz, Nothing), Nothing) /\ Cleared(tz, Nothing).len = tz.len
    BY <2>2, ClearedIs
  <2>5. Zeroed(Cleared(lz, zero), zero) /\ Cleared(lz, zero).len = lz.len
    BY <2>2, ClearedIs
  <2> QED  BY <2>1, <2>2, <2>3, <2>4, <2>5 DEF FieldsZeroed
<1> QED  BY <1>2, <1>4, <1>5, <1>6, <1>7

-----------------------------------------------------------------------------
(* What is in order, and the fields and terms of a batch.                  *)

Below(S, x) == {y \in S : y < x}

LEMMA SortedIs ==
  ASSUME NEW S \in SUBSET Nat, IsFiniteSet(S)
  PROVE  /\ Cardinality(S) \in Nat
         /\ Sorted(S) = [k \in 1..Cardinality(S) |-> Sorted(S)[k]]
         /\ \A x \in S : \E k \in 1..Cardinality(S) : Sorted(S)[k] = x
<1> DEFINE n == Cardinality(S)  rank(x) == Cardinality(Below(S, x))
<1>1. n \in Nat
  BY FS_CardinalityType
<1>2. ASSUME NEW x \in S
      PROVE  IsFiniteSet(Below(S, x)) /\ rank(x) \in Nat /\ rank(x) < n
  <2>1. PICK B : B = Below(S, x)
    OBVIOUS
  <2>2. B \in SUBSET S /\ x \notin B
    BY <2>1 DEF Below
  <2>3. IsFiniteSet(B) /\ Cardinality(B) <= n /\ (n = Cardinality(B) => S = B)
    BY <2>2, FS_Subset
  <2>4. Cardinality(B) \in Nat
    BY <2>3, FS_CardinalityType
  <2>5. Cardinality(B) # n
    BY <2>2, <2>3
  <2> QED  BY <1>1, <2>1, <2>3, <2>4, <2>5
<1>3. ASSUME NEW x \in S, NEW y \in S, x < y PROVE rank(x) < rank(y)
  <2>1. PICK A, B : A = Below(S, x) /\ B = Below(S, y)
    OBVIOUS
  <2>2. A \in SUBSET B /\ x \in B /\ x \notin A
    <3>1. x \in Nat /\ y \in Nat /\ \A z \in S : z \in Nat
      OBVIOUS
    <3>2. \A z \in S : z < x => z < y
      BY <1>3, <3>1
    <3>3. ~ (x < x)
      BY <3>1
    <3> QED  BY <1>3, <2>1, <3>2, <3>3 DEF Below
  <2>3. IsFiniteSet(B)
    BY <1>2, <2>1
  <2>4. IsFiniteSet(A) /\ Cardinality(A) <= Cardinality(B) /\ (Cardinality(B) = Cardinality(A) => B = A)
    BY <2>2, <2>3, FS_Subset
  <2>5. Cardinality(A) \in Nat /\ Cardinality(B) \in Nat /\ Cardinality(A) # Cardinality(B)
    BY <2>2, <2>3, <2>4, FS_CardinalityType
  <2> QED  BY <2>1, <2>4, <2>5
<1>4. Sorted(S) = [k \in 1..n |-> CHOOSE x \in S : rank(x) = k - 1]
  BY DEF Sorted, Below
<1> HIDE DEF rank
<1>5. ASSUME NEW x \in S PROVE \E k \in 1..n : Sorted(S)[k] = x
  <2>1. PICK m \in 1..n : m - 1 = rank(x)
    <3>1. PICK r : r = rank(x)
      OBVIOUS
    <3>2. r \in Nat /\ r < n
      BY <1>2, <3>1
    <3>3. r + 1 \in 1..n /\ (r + 1) - 1 = r
      BY <1>1, <3>2
    <3> QED  BY <3>1, <3>3
  <2>2. PICK y : y = CHOOSE z \in S : rank(z) = m - 1
    OBVIOUS
  <2>3. y \in S /\ rank(y) = rank(x)
    BY <2>1, <2>2
  <2>4. y = x
    <3>1. x \in Nat /\ y \in Nat /\ rank(x) \in Nat
      BY <1>2, <2>3
    <3>2. ~ (x < y) /\ ~ (y < x)
      BY <1>3, <2>3, <3>1
    <3> QED  BY <3>1, <3>2
  <2>5. Sorted(S)[m] = y
    BY <1>4, <2>1, <2>2
  <2> QED  BY <2>1, <2>4, <2>5
<1>6. Sorted(S) = [k \in 1..n |-> Sorted(S)[k]]
  BY <1>4
<1> QED  BY <1>1, <1>5, <1>6

LEMMA FieldsAre ==
  ASSUME NEW b \in Batches
  PROVE  /\ IsFiniteSet(Fields(b))
         /\ \A f \in Fields(b) : \E d \in DOMAIN b : \E k \in DOMAIN b[d] : f = b[d][k]
<1>1. Len(b) \in Nat /\ DOMAIN b = 1..Len(b)
  BY BatchIs
<1> DEFINE g == [d \in DOMAIN b |-> Range(b[d])]  T == {g[d] : d \in DOMAIN b}
<1>2. IsFiniteSet(DOMAIN b)
  BY <1>1, FS_Interval
<1>3. IsFiniteSet(T)
  <2> HIDE DEF g
  <2> QED  BY <1>2, FiniteImage
<1>4. ASSUME NEW d \in DOMAIN b PROVE IsFiniteSet(g[d])
  <2>1. PICK doc, R, D : doc = b[d] /\ R = Range(b[d]) /\ D = DOMAIN b[d]
    OBVIOUS
  <2>2. IsFiniteSet(D)
    <3>1. Len(doc) \in Nat /\ D = 1..Len(doc)
      BY <2>1, BatchIs
    <3> QED  BY <3>1, FS_Interval
  <2>3. R = {doc[k] : k \in D}
    BY <2>1 DEF Range
  <2>4. IsFiniteSet(R)
    BY <2>2, <2>3, FiniteImage
  <2> QED  BY <2>1, <2>4
<1>5. \A A \in T : IsFiniteSet(A)
  <2> HIDE DEF g
  <2> QED  BY <1>4
<1>6. Fields(b) = UNION T
  BY DEF Fields
<1>7. IsFiniteSet(Fields(b))
  <2> HIDE DEF T
  <2> QED  BY <1>3, <1>5, <1>6, FS_UNION
<1>8. \A f \in Fields(b) : \E d \in DOMAIN b : \E k \in DOMAIN b[d] : f = b[d][k]
  BY DEF Fields, Range
<1> QED  BY <1>7, <1>8

LEMMA TermsAre ==
  ASSUME NEW b \in Batches, NEW name
  PROVE  Terms(b, name) \in SUBSET Nat /\ IsFiniteSet(Terms(b, name))
<1> DEFINE G == {g \in Fields(b) : g.name = name}
           h == [f \in G |-> DOMAIN f.tfs]  T == {h[f] : f \in G}
<1>1. IsFiniteSet(G)
  <2>1. G \in SUBSET Fields(b)
    OBVIOUS
  <2> HIDE DEF G
  <2> QED  BY <2>1, FieldsAre, FS_Subset
<1>2. ASSUME NEW f \in G
      PROVE  IsFiniteSet(DOMAIN f.tfs) /\ \A t \in DOMAIN f.tfs : t \in Nat
  <2>1. PICK d \in DOMAIN b : \E k \in DOMAIN b[d] : f = b[d][k]
    BY FieldsAre
  <2>2. PICK k \in DOMAIN b[d] : f = b[d][k]
    BY <2>1
  <2> QED  BY <2>2, BatchIs
<1>3. IsFiniteSet(T)
  <2> HIDE DEF h, G
  <2> QED  BY <1>1, FiniteImage
<1>4. \A A \in T : IsFiniteSet(A) /\ \A t \in A : t \in Nat
  <2>1. \A f \in G : h[f] = DOMAIN f.tfs
    OBVIOUS
  <2> HIDE DEF h, G
  <2> QED  BY <1>2, <2>1
<1>5. Terms(b, name) = UNION T
  BY DEF Terms
<1> HIDE DEF T
<1>6. IsFiniteSet(UNION T) /\ \A t \in UNION T : t \in Nat
  BY <1>3, <1>4, FS_UNION
<1> QED  BY <1>5, <1>6

LEMMA NamesAre ==
  ASSUME NEW b \in Batches, NEW inv, inv = SortedNames(Names(b))
  PROVE  Len(inv) \in Nat /\ DOMAIN inv = 1..Len(inv) /\ \A d \in DOMAIN b : Knows(inv, b[d])
<1>1. PICK S : S = Names(b) \ {Id}
  OBVIOUS
<1>2. S \in SUBSET Nat
  <2>1. ASSUME NEW x \in S PROVE x \in Nat
    <3>1. PICK d \in DOMAIN b : x \in {b[d][k].name : k \in DOMAIN b[d]}
      BY <1>1 DEF Names
    <3>2. PICK k \in DOMAIN b[d] : x = b[d][k].name
      BY <3>1
    <3> QED  BY <3>2, BatchIs
  <2> QED  BY <2>1
<1>3. IsFiniteSet(S)
  <2> DEFINE h == [f \in Fields(b) |-> f.name]  T == {h[f] : f \in Fields(b)}
  <2>1. IsFiniteSet(T)
    <3> HIDE DEF h
    <3> QED  BY FieldsAre, FiniteImage
  <2>2. ASSUME NEW x \in S PROVE x \in T
    <3>1. PICK d \in DOMAIN b : x \in {b[d][k].name : k \in DOMAIN b[d]}
      BY <1>1 DEF Names
    <3>2. PICK k \in DOMAIN b[d] : x = b[d][k].name
      BY <3>1
    <3>3. b[d][k] \in Fields(b)
      BY DEF Fields, Range
    <3> QED  BY <3>2, <3>3
  <2>3. S \in SUBSET T
    BY <2>2
  <2> HIDE DEF T
  <2> QED  BY <2>1, <2>3, FS_Subset
<1>4. PICK n, q : n = Cardinality(S) /\ q = Sorted(S)
  OBVIOUS
<1>5. n \in Nat /\ q = [k \in 1..n |-> q[k]] /\ \A x \in S : \E k \in 1..n : q[k] = x
  BY <1>2, <1>3, <1>4, SortedIs
<1>6. q \in Seq(Range(q)) /\ Len(q) = n
  BY <1>5, ListIs
<1>7. inv = <<Id>> \o q
  BY <1>1, <1>4 DEF SortedNames
<1>8. Len(inv) = n + 1 /\ DOMAIN inv = 1..(n + 1) /\ inv[1] = Id /\ \A k \in 1..n : inv[k + 1] = q[k]
  <2>1. PICK R : R = Range(q) \cup {Id}
    OBVIOUS
  <2>2. q \in Seq(R) /\ <<Id>> \in Seq(R)
    <3>1. \A A, B, f : f \in Seq(A) /\ A \subseteq B => f \in Seq(B)
      OBVIOUS
    <3>2. Range(q) \subseteq R
      BY <2>1
    <3> QED  BY <1>6, <2>1, <3>1, <3>2
  <2> QED  BY <1>5, <1>6, <1>7, <2>2
<1>9. n + 1 \in Nat
  BY <1>5
<1>10. ASSUME NEW d \in DOMAIN b, NEW k \in DOMAIN b[d]
       PROVE  \E i \in DOMAIN inv : inv[i] = b[d][k].name
  <2>1. CASE b[d][k].name = Id
    <3>1. 1 \in DOMAIN inv
      BY <1>5, <1>8
    <3> QED  BY <1>8, <2>1, <3>1
  <2>2. CASE b[d][k].name # Id
    <3>1. b[d][k].name \in S
      BY <1>1, <2>2 DEF Names
    <3>2. PICK i \in 1..n : q[i] = b[d][k].name
      BY <1>5, <3>1
    <3>3. i + 1 \in DOMAIN inv
      BY <1>5, <1>8
    <3> QED  BY <1>8, <3>2, <3>3
  <2> QED  BY <2>1, <2>2
<1>11. Len(inv) \in Nat /\ DOMAIN inv = 1..Len(inv)
  BY <1>8, <1>9
<1> QED  BY <1>10, <1>11 DEF Knows

CatStep(p, acc, k) == acc \o p[k]
Cat == INSTANCE FoldSteps WITH op <- CatStep

LEMMA FlattenIs ==
  ASSUME NEW seqs
  PROVE  FlattenSeq(seqs) = Cat!Flat(seqs)
BY Zenon DEF FlattenSeq, Cat!Flat

LEMMA CatSteps ==
  ASSUME NEW T, NEW n \in Nat, NEW seqs \in Seq(Seq(T)), Len(seqs) = n
  PROVE  \E u : /\ u[0] = <<>> /\ \A k \in 1..n : u[k] = u[k - 1] \o seqs[k]
                /\ FlattenSeq(seqs) = u[n]
<1>1. PICK empty : empty = <<>>
  OBVIOUS
<1>2. PICK u : u = Cat!Counted(seqs, empty, n)
  OBVIOUS
<1>3. u[0] = empty /\ \A k \in 1..n : u[k] = CatStep(seqs, u[k - 1], k)
  BY <1>2, Cat!CountedSteps
<1>4. u[0] = <<>> /\ \A k \in 1..n : u[k] = u[k - 1] \o seqs[k]
  BY <1>1, <1>3 DEF CatStep
<1>5. Cat!Flat(seqs) = u[n]
  BY <1>4, Cat!FlatSteps
<1> QED  BY <1>4, <1>5, FlattenIs

\* Each item of a sequence comes up in what is flattened.
Flattens(r, seqs, n, T) ==
  /\ r \in Seq(T)
  /\ \A k \in 1..n : \A i \in 1..Len(seqs[k]) : \E p \in 1..Len(r) : r[p] = seqs[k][i]

LEMMA FlattenOnto ==
  ASSUME NEW T, NEW n \in Nat, NEW seqs \in Seq(Seq(T)), Len(seqs) = n,
         NEW r, r = FlattenSeq(seqs)
  PROVE  Flattens(r, seqs, n, T)
<1>1. PICK u : /\ u[0] = <<>> /\ \A k \in 1..n : u[k] = u[k - 1] \o seqs[k]
               /\ FlattenSeq(seqs) = u[n]
  BY CatSteps
<1>2. \A k \in 1..n : seqs[k] \in Seq(T)
  OBVIOUS
<1> DEFINE Has(k) == /\ u[k] \in Seq(T)
                     /\ \A j \in 1..k : \A i \in 1..Len(seqs[j]) : \E p \in 1..Len(u[k]) : u[k][p] = seqs[j][i]
           S == {k \in 0..n : Has(k)}
<1>3. 0 \in S
  <2>1. Has(0)
    BY <1>1
  <2> HIDE DEF Has
  <2> QED  BY <2>1
<1>4. ASSUME NEW k \in 1..n, k - 1 \in S PROVE k \in S
  <2>1. PICK v, w, e : v = u[k - 1] /\ w = u[k] /\ e = seqs[k]
    OBVIOUS
  <2>2. v \in Seq(T) /\ e \in Seq(T) /\ w = v \o e
    BY <1>1, <1>2, <1>4, <2>1
  <2>3. PICK l, m : l = Len(v) /\ m = Len(e)
    OBVIOUS
  <2>4. /\ w \in Seq(T) /\ Len(w) = l + m /\ l \in Nat /\ m \in Nat
        /\ \A p \in 1..l : w[p] = v[p]
        /\ \A i \in 1..m : w[l + i] = e[i]
    <3>1. /\ w \in Seq(T) /\ Len(w) = l + m /\ l \in Nat /\ m \in Nat
      BY <2>2, <2>3
    <3>2. \A p \in 1..l : w[p] = v[p]
      BY <2>2, <2>3
    <3>3. ASSUME NEW i \in 1..m PROVE w[l + i] = e[i]
      <4>1. l + i \in 1..(l + m) /\ ~ (l + i <= l) /\ (l + i) - l = i
        BY <3>1
      <4> QED  BY <2>2, <2>3, <3>1, <4>1
    <3> QED  BY <3>1, <3>2, <3>3
  <2>5. ASSUME NEW j \in 1..k, NEW i \in 1..Len(seqs[j])
        PROVE  \E p \in 1..Len(w) : w[p] = seqs[j][i]
    <3>1. CASE j = k
      <4>1. i \in 1..m /\ seqs[j][i] = e[i]
        BY <2>1, <2>3, <3>1
      <4>2. l + i \in 1..Len(w)
        BY <2>4, <4>1
      <4> QED  BY <2>4, <4>1, <4>2
    <3>2. CASE j # k
      <4>1. j \in 1..(k - 1)
        BY <3>2
      <4>2. PICK p \in 1..l : v[p] = seqs[j][i]
        BY <1>4, <2>1, <2>3, <4>1
      <4>3. p \in 1..Len(w)
        BY <2>4
      <4> QED  BY <2>4, <4>2, <4>3
    <3> QED  BY <3>1, <3>2
  <2>6. Has(k)
    BY <2>1, <2>4, <2>5
  <2>7. k \in 0..n
    OBVIOUS
  <2> HIDE DEF Has
  <2> QED  BY <2>6, <2>7
<1>5. n \in S
  <2> HIDE DEF S
  <2>1. n \in 0..n
    OBVIOUS
  <2> QED  BY <1>3, <1>4, <2>1, Cat!UpTo
<1>6. Has(n)
  <2> HIDE DEF Has
  <2> QED  BY <1>5
<1>7. r = u[n]
  BY <1>1
<1> QED  BY <1>6, <1>7 DEF Flattens

\* The postings lists of a field.
PidsOf(b, inv, k) ==
  [i \in 1..Cardinality(Terms(b, inv[k])) |-> <<k, Sorted(Terms(b, inv[k]))[i]>>]

LEMMA PidsAre ==
  ASSUME NEW b \in Batches, NEW inv, Len(inv) \in Nat, DOMAIN inv = 1..Len(inv),
         NEW r, r = Pids(b, inv)
  PROVE  /\ Len(r) \in Nat /\ DOMAIN r = 1..Len(r)
         /\ \A k \in DOMAIN inv : \A t \in Terms(b, inv[k]) : \E p \in DOMAIN r : r[p] = <<k, t>>
<1>1. PICK n \in Nat : n = Len(inv)
  OBVIOUS
<1> DEFINE T == UNION {Range(PidsOf(b, inv, k)) : k \in 1..n}
           seqs == [k \in 1..n |-> PidsOf(b, inv, k)]
<1>2. ASSUME NEW k \in 1..n
      PROVE  /\ PidsOf(b, inv, k) \in Seq(T)
             /\ Len(PidsOf(b, inv, k)) = Cardinality(Terms(b, inv[k]))
             /\ \A t \in Terms(b, inv[k]) : \E i \in 1..Len(PidsOf(b, inv, k)) :
                  PidsOf(b, inv, k)[i] = <<k, t>>
  <2>1. PICK S, m, q, f : /\ S = Terms(b, inv[k]) /\ m = Cardinality(S) /\ q = Sorted(S)
                          /\ f = PidsOf(b, inv, k)
    OBVIOUS
  <2>2. m \in Nat /\ \A t \in S : \E i \in 1..m : q[i] = t
    <3>1. S \in SUBSET Nat /\ IsFiniteSet(S)
      BY <2>1, TermsAre
    <3> QED  BY <2>1, <3>1, SortedIs
  <2>3. f = [i \in 1..m |-> <<k, q[i]>>]
    BY <2>1 DEF PidsOf
  <2>4. f = [i \in 1..m |-> f[i]] /\ \A i \in 1..m : f[i] = <<k, q[i]>>
    BY <2>3
  <2>5. f \in Seq(Range(f)) /\ Len(f) = m
    BY <2>2, <2>4, ListIs
  <2>6. Range(f) \subseteq T
    BY <2>1
  <2> HIDE DEF T
  <2>7. f \in Seq(T)
    <3>1. \A A, B, g : g \in Seq(A) /\ A \subseteq B => g \in Seq(B)
      OBVIOUS
    <3> QED  BY <2>5, <2>6, <3>1
  <2>8. \A t \in S : \E i \in 1..Len(f) : f[i] = <<k, t>>
    BY <2>2, <2>4, <2>5
  <2> QED  BY <2>1, <2>5, <2>7, <2>8
<1> HIDE DEF T
<1>3. seqs \in Seq(Seq(T)) /\ Len(seqs) = n /\ \A k \in 1..n : seqs[k] = PidsOf(b, inv, k)
  BY <1>2
<1>4. r = FlattenSeq(seqs)
  BY <1>1 DEF Pids, PidsOf
<1> HIDE DEF seqs
<1>5. /\ r \in Seq(T)
      /\ \A k \in 1..n : \A i \in 1..Len(seqs[k]) : \E p \in 1..Len(r) : r[p] = seqs[k][i]
  <2>1. Flattens(r, seqs, n, T)
    BY <1>3, <1>4, FlattenOnto
  <2> QED  BY <2>1 DEF Flattens
<1>6. Len(r) \in Nat /\ DOMAIN r = 1..Len(r)
  BY <1>5
<1>7. ASSUME NEW k \in DOMAIN inv, NEW t \in Terms(b, inv[k])
      PROVE  \E p \in DOMAIN r : r[p] = <<k, t>>
  <2>1. k \in 1..n
    BY <1>1
  <2>2. PICK i \in 1..Len(seqs[k]) : seqs[k][i] = <<k, t>>
    BY <1>2, <1>3, <2>1
  <2>3. \E p \in 1..Len(r) : r[p] = seqs[k][i]
    BY <1>5, <2>1
  <2> QED  BY <1>6, <2>2, <2>3
<1> QED  BY <1>6, <1>7

-----------------------------------------------------------------------------
(* What realloc hands out.                                                 *)

\* Nothing of an earlier use is left.
Emptied(io) ==
  /\ Zeroed(io.Postings, {}) /\ Zeroed(io.IncludeDocValues, FALSE)
  /\ Zeroed(io.FieldTFs, Nothing) /\ Zeroed(io.FieldLens, 0)
  /\ Zeroed(io.freqNormsBacking, NoFreqNorm) /\ Zeroed(io.locsBacking, NoLoc)

Includes(b, inv, k) == k \in DOMAIN inv /\ \E f \in Fields(b) : f.name = inv[k] /\ f.dv
Including(z, b, inv) == [z EXCEPT !.mem = [k \in DOMAIN z.mem |-> z.mem[k] \/ Includes(b, inv, k)]]
Keeping(z, old) ==
  [z EXCEPT !.mem = [k \in DOMAIN z.mem |-> IF k <= Len(old) THEN old[k] ELSE z.mem[k]]]

DictsOf(b, inv) ==
  [k \in DOMAIN inv |-> [t \in Terms(b, inv[k]) |->
     CHOOSE p \in DOMAIN Pids(b, inv) : Pids(b, inv)[p] = <<k, t>>]]

Reallocated(c, io, b, inv) ==
  /\ c.init = TRUE /\ c.Dicts = DictsOf(b, inv)
  /\ c.IncludeDocValues = Including(Resized(io.IncludeDocValues, Len(inv), FALSE), b, inv)
  /\ c.Postings = Keeping(Resized(io.Postings, Len(Pids(b, inv)), {}), io.Postings.mem)
  /\ c.FreqNorms = Placed(ForTerms(b, inv))
  /\ c.freqNormsBacking = Resized(io.freqNormsBacking, Total(ForTerms(b, inv)), NoFreqNorm)
  /\ c.Locs = Placed(ForLocs(b, inv))
  /\ c.locsBacking = Resized(io.locsBacking, Total(ForLocs(b, inv)), NoLoc)
  /\ c.FieldTFs = Resized(io.FieldTFs, Len(inv), Nothing)
  /\ c.FieldLens = Resized(io.FieldLens, Len(inv), 0)

LEMMA ReallocFields ==
  ASSUME NEW b, NEW inv, NEW io, IsOpaque(io), NEW c, c = realloc(io, b, inv)
  PROVE  IsOpaque(c) /\ Reallocated(c, io, b, inv)
<1>1. DOMAIN io = OpaqueKeys
  BY DEF IsOpaque
<1>2. PICK dicts, inc, post, fns, fnb, ls, lb, tfs, lens, shapes :
        /\ dicts = DictsOf(b, inv)
        /\ inc = Including(Resized(io.IncludeDocValues, Len(inv), FALSE), b, inv)
        /\ post = Keeping(Resized(io.Postings, Len(Pids(b, inv)), {}), io.Postings.mem)
        /\ fns = Placed(ForTerms(b, inv))
        /\ fnb = Resized(io.freqNormsBacking, Total(ForTerms(b, inv)), NoFreqNorm)
        /\ ls = Placed(ForLocs(b, inv))
        /\ lb = Resized(io.locsBacking, Total(ForLocs(b, inv)), NoLoc)
        /\ tfs = Resized(io.FieldTFs, Len(inv), Nothing)
        /\ lens = Resized(io.FieldLens, Len(inv), 0)
        /\ shapes = [d \in DOMAIN b |-> [k \in DOMAIN inv |-> EncodedShapes(b[d], inv[k])]]
  OBVIOUS
<1>3. c = [io EXCEPT !.init = TRUE, !.Dicts = dicts, !.IncludeDocValues = inc, !.Postings = post,
                     !.FreqNorms = fns, !.freqNormsBacking = fnb, !.Locs = ls, !.locsBacking = lb,
                     !.extraDocValues = shapes, !.FieldTFs = tfs, !.FieldLens = lens]
  <2>1. c = [io EXCEPT
               !.init = TRUE, !.Dicts = DictsOf(b, inv),
               !.IncludeDocValues = Including(Resized(@, Len(inv), FALSE), b, inv),
               !.Postings = Keeping(Resized(@, Len(Pids(b, inv)), {}), io.Postings.mem),
               !.FreqNorms = Placed(ForTerms(b, inv)),
               !.freqNormsBacking = Resized(@, Total(ForTerms(b, inv)), NoFreqNorm),
               !.Locs = Placed(ForLocs(b, inv)),
               !.locsBacking = Resized(@, Total(ForLocs(b, inv)), NoLoc),
               !.extraDocValues = [d \in DOMAIN b |-> [k \in DOMAIN inv |-> EncodedShapes(b[d], inv[k])]],
               !.FieldTFs = Resized(@, Len(inv), Nothing),
               !.FieldLens = Resized(@, Len(inv), 0)]
    BY Zenon DEF realloc, DictsOf, Including, Includes, Keeping, ForTerms, ForLocs, NameOf, TermOf
  <2> QED  BY <1>1, <1>2, <2>1 DEF OpaqueKeys
<1>4. IsOpaque(c)
  BY <1>1, <1>3 DEF IsOpaque
<1>5. /\ c.init = TRUE /\ c.Dicts = dicts /\ c.IncludeDocValues = inc /\ c.Postings = post
      /\ c.FreqNorms = fns /\ c.freqNormsBacking = fnb /\ c.Locs = ls /\ c.locsBacking = lb
      /\ c.FieldTFs = tfs /\ c.FieldLens = lens
  BY <1>1, <1>3 DEF OpaqueKeys
<1> QED  BY <1>2, <1>4, <1>5 DEF Reallocated

\* Lists that are all empty, in memory that is.
LEMMA PlacedIs ==
  ASSUME NEW counts \in Seq(Nat), NEW z, NEW zero, Zeroed(z, zero), z.len = Total(counts)
  PROVE  /\ Placing(Placed(counts), counts, z, zero)
         /\ \A p \in DOMAIN counts : Placed(counts)[p].len = 0
<1>1. PICK n : n = Len(counts)
  OBVIOUS
<1>2. n \in Nat /\ DOMAIN counts = 1..n /\ \A p \in 1..n : counts[p] \in Nat
  BY <1>1
<1>3. Placed(counts) = [p \in DOMAIN counts |-> [off |-> Upto(counts, p - 1), len |-> 0]]
  BY DEF Placed, Upto
<1>4. \A p \in DOMAIN counts : Placed(counts)[p] = [off |-> Upto(counts, p - 1), len |-> 0]
  BY <1>3
<1>5. Placed(counts) = [p \in DOMAIN counts |-> Placed(counts)[p]]
  BY <1>3
<1>6. ASSUME NEW p \in DOMAIN counts
      PROVE  /\ IsPart(Placed(counts)[p]) /\ Placed(counts)[p].off = Upto(counts, p - 1)
             /\ Placed(counts)[p].len <= counts[p] /\ Placed(counts)[p].len = 0
  <2>1. PICK o : o = Upto(counts, p - 1)
    OBVIOUS
  <2>2. o \in Nat
    <3>1. p - 1 \in 0..n
      BY <1>2
    <3> QED  BY <1>1, <2>1, <3>1, SumSteps
  <2>3. Placed(counts)[p] = [off |-> o, len |-> 0]
    BY <1>4, <2>1
  <2> QED  BY <1>2, <2>1, <2>2, <2>3 DEF IsPart
<1>7. Memory(z, zero)
  BY ZeroedIsMemory
<1> QED  BY <1>5, <1>6, <1>7 DEF Placing

LEMMA IncludingIs ==
  ASSUME NEW z, Zeroed(z, FALSE), NEW inv, Len(inv) \in Nat, DOMAIN inv = 1..Len(inv),
         z.len = Len(inv), NEW b
  PROVE  Memory(Including(z, b, inv), FALSE)
<1> DEFINE n == Len(z.mem)  m == [k \in 1..n |-> z.mem[k] \/ Includes(b, inv, k)]
<1>1. /\ n \in Nat /\ DOMAIN z.mem = 1..n /\ z.len \in 0..n /\ z = [len |-> z.len, mem |-> z.mem]
  BY SliceOf DEF Zeroed
<1>2. Including(z, b, inv) = [len |-> z.len, mem |-> m]
  BY <1>1 DEF Including
<1>3. m = [k \in 1..n |-> m[k]]
  OBVIOUS
<1>4. ASSUME NEW k \in 1..n, k > z.len PROVE m[k] = FALSE
  <2>1. z.mem[k] = FALSE
    BY <1>1 DEF Zeroed
  <2>2. k \notin 1..Len(inv)
    BY <1>4
  <2>3. Includes(b, inv, k) = FALSE
    BY <2>2 DEF Includes
  <2> QED  BY <2>1, <2>3
<1> HIDE DEF n, m
<1>5. IsSlice([len |-> z.len, mem |-> m]) /\ DOMAIN m = 1..n
  BY <1>1, <1>3, SliceIs
<1>6. PICK r : r = Including(z, b, inv)
  OBVIOUS
<1>7. IsSlice(r) /\ r.mem = m /\ r.len = z.len
  BY <1>2, <1>5, <1>6
<1>8. Memory(r, FALSE)
  BY <1>4, <1>5, <1>7 DEF Memory
<1> QED  BY <1>6, <1>8

LEMMA KeepingIs ==
  ASSUME NEW z, NEW zero, Zeroed(z, zero), NEW y, Zeroed(y, zero)
  PROVE  Zeroed(Keeping(z, y.mem), zero) /\ Keeping(z, y.mem).len = z.len
<1> DEFINE n == Len(z.mem)  m == [k \in 1..n |-> IF k <= Len(y.mem) THEN y.mem[k] ELSE z.mem[k]]
<1>1. /\ n \in Nat /\ DOMAIN z.mem = 1..n /\ z.len \in 0..n /\ z = [len |-> z.len, mem |-> z.mem]
  BY SliceOf DEF Zeroed
<1>2. Len(y.mem) \in Nat /\ DOMAIN y.mem = 1..Len(y.mem)
  BY SliceOf DEF Zeroed
<1>3. Keeping(z, y.mem) = [len |-> z.len, mem |-> m]
  BY <1>1 DEF Keeping
<1>4. m = [k \in 1..n |-> m[k]] /\ \A k \in 1..n : m[k] = zero
  BY <1>1, <1>2 DEF Zeroed
<1> HIDE DEF n, m
<1>5. IsSlice([len |-> z.len, mem |-> m]) /\ DOMAIN m = 1..n
  BY <1>1, <1>4, SliceIs
<1> QED  BY <1>3, <1>4, <1>5 DEF Zeroed

\* An interim whose lists were all made for the batch, and which has seen n documents.
At(io, b, inv, n) ==
  /\ IsOpaque(io) /\ io.init = TRUE /\ Numbered(io, b, inv)
  /\ Lists(io, b, inv, All(b, inv, n))
  /\ FieldsZeroed(io, inv) /\ Memory(io.IncludeDocValues, FALSE)

LEMMA CountsFor ==
  ASSUME NEW b \in Batches, NEW inv, NEW r, r = Pids(b, inv), Len(r) \in Nat, DOMAIN r = 1..Len(r)
  PROVE  /\ ForTerms(b, inv) \in Seq(Nat) /\ ForLocs(b, inv) \in Seq(Nat)
         /\ Len(ForTerms(b, inv)) = Len(r)
         /\ Total(ForTerms(b, inv)) \in Nat /\ Total(ForLocs(b, inv)) \in Nat
<1> DEFINE n == Len(r)
           c(p) == NumTerms(b, NameOf(b, inv, p), TermOf(b, inv, p))
           l(p) == NumLocs(b, NameOf(b, inv, p), TermOf(b, inv, p))
<1>1. \A p : c(p) \in Nat /\ l(p) \in Nat
  BY CountsAre
<1>2. ForTerms(b, inv) = [p \in 1..n |-> c(p)] /\ ForLocs(b, inv) = [p \in 1..n |-> l(p)]
  BY DEF ForTerms, ForLocs
<1> HIDE DEF n, c, l
<1>3. n \in Nat
  BY DEF n
<1>4. /\ [p \in 1..n |-> c(p)] \in Seq(Nat) /\ Len([p \in 1..n |-> c(p)]) = n
      /\ [p \in 1..n |-> l(p)] \in Seq(Nat) /\ Len([p \in 1..n |-> l(p)]) = n
  BY <1>1, <1>3
<1>5. PICK f, g : f = ForTerms(b, inv) /\ g = ForLocs(b, inv)
  OBVIOUS
<1>6. f \in Seq(Nat) /\ g \in Seq(Nat) /\ Len(f) = n /\ Len(g) = n /\ n \in 0..n
  BY <1>2, <1>3, <1>4, <1>5
<1>7. Total(f) \in Nat /\ Total(g) \in Nat
  <2>1. Upto(f, n) = Total(f) /\ Upto(f, n) \in Nat
    BY <1>6, SumSteps
  <2>2. Upto(g, n) = Total(g) /\ Upto(g, n) \in Nat
    BY <1>6, SumSteps
  <2> QED  BY <2>1, <2>2
<1> QED  BY <1>5, <1>6, <1>7 DEF n

LEMMA EmptyList ==
  ASSUME NEW b \in Batches, NEW inv, NEW io, NEW p \in DOMAIN Pids(b, inv),
         io.FreqNorms[p].len = 0, io.Locs[p].len = 0, io.Postings.mem[p] = {}
  PROVE  ListOk(io, b, inv, p, 0)
<1>1. PICK name, t : name = NameOf(b, inv, p) /\ t = TermOf(b, inv, p)
  OBVIOUS
<1>2. Upto(TermsIn(b, name, t), 0) = 0 /\ Upto(LocsIn(b, name, t), 0) = 0
  BY CountsAre, SumSteps
<1>3. PICK es, ns : es = Entries(io, p) /\ ns = Numbers(es)
  OBVIOUS
<1>4. es = <<>>
  <2>1. es = [k \in 1..0 |-> io.freqNormsBacking.mem[io.FreqNorms[p].off + k]]
    BY <1>3 DEF Entries, Part
  <2> QED  BY <2>1
<1>5. ns = <<>>
  BY <1>3, <1>4 DEF Numbers
<1>6. ns \in Seq(Nat) /\ Len(ns) = 0
  BY <1>5
<1>7. Total(ns) = 0
  BY <1>6, SumSteps
<1>8. Cardinality({}) = 0
  BY FS_EmptySet
<1> QED  BY <1>1, <1>2, <1>3, <1>6, <1>7, <1>8 DEF ListOk

LEMMA ReallocHolds ==
  ASSUME NEW b \in Batches, NEW inv, inv = SortedNames(Names(b)),
         NEW io, IsOpaque(io), Emptied(io), NEW c, c = realloc(io, b, inv)
  PROVE  At(c, b, inv, 0)
<1>1. Len(inv) \in Nat /\ DOMAIN inv = 1..Len(inv)
  BY NamesAre
<1>2. PICK r : r = Pids(b, inv)
  OBVIOUS
<1>3. /\ Len(r) \in Nat /\ DOMAIN r = 1..Len(r)
      /\ \A k \in DOMAIN inv : \A t \in Terms(b, inv[k]) : \E p \in DOMAIN r : r[p] = <<k, t>>
  BY <1>1, <1>2, PidsAre
<1>4. IsOpaque(c) /\ Reallocated(c, io, b, inv)
  BY ReallocFields
<1>5. PICK C, L : C = ForTerms(b, inv) /\ L = ForLocs(b, inv)
  OBVIOUS
<1>6. /\ C \in Seq(Nat) /\ L \in Seq(Nat) /\ Len(C) = Len(r) /\ Total(C) \in Nat /\ Total(L) \in Nat
  BY <1>2, <1>3, <1>5, CountsFor
<1>7. Numbered(c, b, inv)
  <2>1. ASSUME NEW k \in DOMAIN inv, NEW t \in Terms(b, inv[k])
        PROVE  /\ c.Dicts[k][t] \in DOMAIN r /\ r[c.Dicts[k][t]] = <<k, t>>
    <3>1. c.Dicts[k][t] = CHOOSE p \in DOMAIN r : r[p] = <<k, t>>
      BY <1>2, <1>4 DEF Reallocated, DictsOf
    <3>2. \E p \in DOMAIN r : r[p] = <<k, t>>
      BY <1>3
    <3> QED  BY <3>1, <3>2
  <2> QED  BY <1>2, <2>1 DEF Numbered
<1>8. PICK pz, iz, tz, lz, fb, lb, zero : /\ pz = io.Postings /\ iz = io.IncludeDocValues
                                          /\ tz = io.FieldTFs /\ lz = io.FieldLens /\ zero = 0
                                          /\ fb = io.freqNormsBacking /\ lb = io.locsBacking
  OBVIOUS
<1>9. /\ Zeroed(pz, {}) /\ Zeroed(iz, FALSE) /\ Zeroed(tz, Nothing) /\ Zeroed(lz, zero)
      /\ Zeroed(fb, NoFreqNorm) /\ Zeroed(lb, NoLoc)
  BY <1>8 DEF Emptied
<1>10. Memory(c.IncludeDocValues, FALSE)
  <2>1. PICK y : y = Resized(iz, Len(inv), FALSE)
    OBVIOUS
  <2>2. Zeroed(y, FALSE) /\ y.len = Len(inv)
    BY <1>1, <1>9, <2>1, ResizedIs
  <2>3. Memory(Including(y, b, inv), FALSE)
    BY <1>1, <2>2, IncludingIs
  <2> QED  BY <1>4, <1>8, <2>1, <2>3 DEF Reallocated
<1>11. FieldsZeroed(c, inv)
  <2>1. Zeroed(Resized(tz, Len(inv), Nothing), Nothing) /\ Resized(tz, Len(inv), Nothing).len = Len(inv)
    BY <1>1, <1>9, ResizedIs
  <2>2. Zeroed(Resized(lz, Len(inv), zero), zero) /\ Resized(lz, Len(inv), zero).len = Len(inv)
    BY <1>1, <1>9, ResizedIs
  <2> QED  BY <1>4, <1>8, <2>1, <2>2 DEF Reallocated, FieldsZeroed
<1>12. Zeroed(c.Postings, {}) /\ c.Postings.len = Len(C)
  <2>1. PICK y, none : y = Resized(pz, Len(r), {}) /\ none = {}
    OBVIOUS
  <2>2. Zeroed(y, none) /\ y.len = Len(r)
    BY <1>3, <1>9, <2>1, ResizedIs
  <2>3. Zeroed(Keeping(y, pz.mem), none) /\ Keeping(y, pz.mem).len = y.len
    BY <1>9, <2>1, <2>2, KeepingIs
  <2> QED  BY <1>2, <1>4, <1>6, <1>8, <2>1, <2>2, <2>3 DEF Reallocated
<1>13. /\ Placing(c.FreqNorms, C, c.freqNormsBacking, NoFreqNorm)
       /\ \A p \in DOMAIN C : c.FreqNorms[p].len = 0
  <2>1. PICK y : y = Resized(fb, Total(C), NoFreqNorm)
    OBVIOUS
  <2>2. Zeroed(y, NoFreqNorm) /\ y.len = Total(C)
    BY <1>6, <1>9, <2>1, ResizedIs
  <2>3. Placing(Placed(C), C, y, NoFreqNorm) /\ \A p \in DOMAIN C : Placed(C)[p].len = 0
    BY <1>6, <2>2, PlacedIs
  <2> QED  BY <1>4, <1>5, <1>8, <2>1, <2>3 DEF Reallocated
<1>14. /\ Placing(c.Locs, L, c.locsBacking, NoLoc)
       /\ \A p \in DOMAIN L : c.Locs[p].len = 0
  <2>1. PICK y : y = Resized(lb, Total(L), NoLoc)
    OBVIOUS
  <2>2. Zeroed(y, NoLoc) /\ y.len = Total(L)
    BY <1>6, <1>9, <2>1, ResizedIs
  <2>3. Placing(Placed(L), L, y, NoLoc) /\ \A p \in DOMAIN L : Placed(L)[p].len = 0
    BY <1>6, <2>2, PlacedIs
  <2> QED  BY <1>4, <1>5, <1>8, <2>1, <2>3 DEF Reallocated
<1>15. ASSUME NEW p \in DOMAIN r PROVE ListOk(c, b, inv, p, 0)
  <2>1. p \in DOMAIN C /\ p \in DOMAIN L
    BY <1>2, <1>5 DEF ForTerms, ForLocs
  <2>2. c.FreqNorms[p].len = 0 /\ c.Locs[p].len = 0
    BY <1>13, <1>14, <2>1
  <2>3. c.Postings.mem[p] = {}
    <3>1. PICK y : y = c.Postings
      OBVIOUS
    <3>2. DOMAIN y.mem = 1..Len(y.mem) /\ y.len \in 0..Len(y.mem) /\ Len(y.mem) \in Nat
      BY <1>12, <3>1, SliceOf DEF Zeroed
    <3>3. p \in DOMAIN y.mem
      BY <1>3, <1>6, <1>12, <3>1, <3>2
    <3> QED  BY <1>12, <3>1, <3>3 DEF Zeroed
  <2> QED  BY <1>2, <2>2, <2>3, EmptyList
<1>16. Lists(c, b, inv, All(b, inv, 0))
  <2>1. PICK D : D = All(b, inv, 0)
    OBVIOUS
  <2>2. Len(b) \in Nat
    BY BatchIs
  <2>3. \A p \in DOMAIN r : D[p] = 0 /\ D[p] \in 0..Len(b)
    BY <1>2, <2>1, <2>2 DEF All
  <2>4. \A p \in DOMAIN r : D[p] \in 0..Len(b) /\ ListOk(c, b, inv, p, D[p])
    BY <1>15, <2>3
  <2>5. Memory(c.Postings, {})
    BY <1>12, ZeroedIsMemory
  <2> QED  BY <1>2, <1>5, <1>12, <1>13, <1>14, <2>1, <2>4, <2>5 DEF Lists
<1>17. c.init = TRUE
  BY <1>4 DEF Reallocated
<1> QED  BY <1>4, <1>7, <1>10, <1>11, <1>16, <1>17 DEF At

-----------------------------------------------------------------------------
(* A document, and the way back to the pool.                               *)

LEMMA ReadyToRead ==
  ASSUME NEW inv, Len(inv) \in Nat, NEW io, FieldsZeroed(io, inv), NEW doc
  PROVE  HasRead(io, doc, inv, 0)
<1>1. PICK tz, lz, zero : tz = io.FieldTFs /\ lz = io.FieldLens /\ zero = 0
  OBVIOUS
<1>2. Zeroed(tz, Nothing) /\ tz.len = Len(inv) /\ Zeroed(lz, zero) /\ lz.len = Len(inv)
  BY <1>1 DEF FieldsZeroed
<1>3. Memory(tz, Nothing)
  BY <1>2, ZeroedIsMemory
<1>4. Memory(lz, zero)
  BY <1>2, ZeroedIsMemory
<1>5. ASSUME NEW k \in 1..Len(inv) PROVE tz.mem[k] = Nothing
  <2>1. DOMAIN tz.mem = 1..Len(tz.mem) /\ tz.len \in 0..Len(tz.mem) /\ Len(tz.mem) \in Nat
    BY <1>2, SliceOf DEF Zeroed
  <2>2. k \in DOMAIN tz.mem
    BY <1>2, <2>1
  <2> QED  BY <1>2, <2>2 DEF Zeroed
<1> QED  BY <1>1, <1>2, <1>3, <1>4, <1>5 DEF HasRead, FieldMemory, Gathers

LEMMA DocumentHolds ==
  ASSUME NEW b \in Batches, NEW inv, inv = SortedNames(Names(b)), NEW n \in 0..(Len(b) - 1),
         NEW io, At(io, b, inv, n),
         NEW c, c = Commit(AddFields(io, b[n + 1], inv), n, inv)
  PROVE  At(c, b, inv, n + 1)
<1>1. PICK d, m : d = n + 1 /\ m = AddFields(io, b[d], inv)
  OBVIOUS
<1>2. d \in DOMAIN b
  BY <1>1, BatchIs
<1>3. Len(inv) \in Nat /\ DOMAIN inv = 1..Len(inv) /\ Knows(inv, b[d])
  BY <1>2, NamesAre
<1>4. /\ IsOpaque(io) /\ io.init = TRUE /\ Numbered(io, b, inv)
      /\ Lists(io, b, inv, All(b, inv, n))
      /\ FieldsZeroed(io, inv) /\ Memory(io.IncludeDocValues, FALSE)
  BY DEF At
<1>5. HasRead(io, b[d], inv, 0)
  BY <1>3, <1>4, ReadyToRead
<1>6. IsOpaque(m) /\ SameLists(m, io) /\ HasRead(m, b[d], inv, Len(b[d]))
  BY <1>1, <1>2, <1>3, <1>4, <1>5, AddFieldsHold
<1>7. Numbered(m, b, inv) /\ Lists(m, b, inv, All(b, inv, n))
  <2>1. Numbered(m, b, inv)
    BY <1>4, <1>6 DEF SameLists, Numbered
  <2>2. Lists(m, b, inv, All(b, inv, n))
    BY <1>4, <1>6 DEF SameLists, Lists, ListOk, Entries
  <2> QED  BY <2>1, <2>2
<1>8. Ready(m, b, inv, n)
  BY <1>1, <1>3, <1>6, <1>7 DEF Ready
<1>9. c = Commit(m, n, inv)
  BY <1>1
<1>10. /\ IsOpaque(c) /\ SameHead(c, m) /\ Lists(c, b, inv, All(b, inv, n + 1))
       /\ FieldsZeroed(c, inv)
  BY <1>6, <1>7, <1>8, <1>9, CommitHolds
<1>11. c.init = TRUE /\ c.Dicts = io.Dicts /\ c.IncludeDocValues = io.IncludeDocValues
  BY <1>4, <1>6, <1>10 DEF SameHead, SameLists
<1>12. Numbered(c, b, inv)
  BY <1>4, <1>11 DEF Numbered
<1> QED  BY <1>4, <1>10, <1>11, <1>12 DEF At

\* What Reset needs of the memory.
Usable(io) ==
  /\ IsOpaque(io)
  /\ Memory(io.Postings, {}) /\ Memory(io.IncludeDocValues, FALSE)
  /\ Memory(io.freqNormsBacking, NoFreqNorm) /\ Memory(io.locsBacking, NoLoc)
  /\ Zeroed(io.FieldTFs, Nothing) /\ Zeroed(io.FieldLens, 0)

LEMMA AtIsUsable ==
  ASSUME NEW b, NEW inv, NEW n, NEW io, At(io, b, inv, n)
  PROVE  Usable(io)
BY DEF At, Usable, Lists, Placing, FieldsZeroed

LEMMA EmptiedIsUsable ==
  ASSUME NEW io, IsOpaque(io), Emptied(io)
  PROVE  Usable(io)
<1>1. Memory(io.Postings, {}) /\ Memory(io.IncludeDocValues, FALSE)
  BY ZeroedIsMemory DEF Emptied
<1>2. Memory(io.freqNormsBacking, NoFreqNorm) /\ Memory(io.locsBacking, NoLoc)
  BY ZeroedIsMemory DEF Emptied
<1> QED  BY <1>1, <1>2 DEF Emptied, Usable

LEMMA ClearedAndCut ==
  ASSUME NEW z, NEW zero, Memory(z, zero)
  PROVE  Zeroed(Cut(Cleared(z, zero)), zero)
<1>1. PICK y : y = Cleared(z, zero)
  OBVIOUS
<1>2. Zeroed(y, zero)
  BY <1>1, ClearedIs
<1>3. Zeroed(Cut(y), zero)
  BY <1>2, CutIs
<1> QED  BY <1>1, <1>3

LEMMA ResetHolds ==
  ASSUME NEW io, Usable(io), NEW c, c = ResetOpaque(io)
  PROVE  IsOpaque(c) /\ c.init = FALSE /\ Emptied(c)
<1>1. DOMAIN io = OpaqueKeys
  BY DEF Usable, IsOpaque
<1>2. PICK pz, iz, tz, lz, fb, lb, zero : /\ pz = io.Postings /\ iz = io.IncludeDocValues
                                          /\ tz = io.FieldTFs /\ lz = io.FieldLens /\ zero = 0
                                          /\ fb = io.freqNormsBacking /\ lb = io.locsBacking
  OBVIOUS
<1>3. c = [io EXCEPT !.init = FALSE, !.Dicts = <<>>, !.IncludeDocValues = Cut(Cleared(iz, FALSE)),
                     !.Postings = Cut(Cleared(pz, {})),
                     !.FreqNorms = <<>>, !.freqNormsBacking = Cut(Cleared(fb, NoFreqNorm)),
                     !.Locs = <<>>, !.locsBacking = Cut(Cleared(lb, NoLoc)),
                     !.extraDocValues = <<>>, !.FieldTFs = Cut(tz), !.FieldLens = Cut(lz)]
  BY <1>1, <1>2 DEF ResetOpaque, OpaqueKeys
<1>4. IsOpaque(c)
  BY <1>1, <1>3 DEF IsOpaque
<1>5. /\ c.init = FALSE /\ c.IncludeDocValues = Cut(Cleared(iz, FALSE))
      /\ c.Postings = Cut(Cleared(pz, {}))
      /\ c.freqNormsBacking = Cut(Cleared(fb, NoFreqNorm))
      /\ c.locsBacking = Cut(Cleared(lb, NoLoc))
      /\ c.FieldTFs = Cut(tz) /\ c.FieldLens = Cut(lz)
  BY <1>1, <1>3 DEF OpaqueKeys
<1>6. /\ Memory(pz, {}) /\ Memory(iz, FALSE) /\ Memory(fb, NoFreqNorm) /\ Memory(lb, NoLoc)
      /\ Zeroed(tz, Nothing) /\ Zeroed(lz, zero)
  BY <1>2 DEF Usable
<1>7. Zeroed(c.IncludeDocValues, FALSE)
  BY <1>5, <1>6, ClearedAndCut
<1>8. Zeroed(c.Postings, {})
  <2>1. PICK none : none = {}
    OBVIOUS
  <2> QED  BY <1>5, <1>6, <2>1, ClearedAndCut
<1>9. Zeroed(c.freqNormsBacking, NoFreqNorm) /\ Zeroed(c.locsBacking, NoLoc)
  BY <1>5, <1>6, ClearedAndCut
<1>10. Zeroed(c.FieldTFs, Nothing)
  BY <1>5, <1>6, CutIs
<1>11. Zeroed(c.FieldLens, 0)
  BY <1>2, <1>5, <1>6, CutIs
<1> QED  BY <1>4, <1>5, <1>7, <1>8, <1>9, <1>10, <1>11 DEF Emptied

-----------------------------------------------------------------------------
(* The invariant.                                                          *)

IsInterim(i) == i = [FieldsMap |-> i.FieldsMap, FieldsInv |-> i.FieldsInv, opaque |-> i.opaque]

\* An interim that a build may start with.
Fresh(i) == /\ IsInterim(i) /\ i.FieldsMap = {}
            /\ IsOpaque(i.opaque) /\ i.opaque.init = FALSE /\ Emptied(i.opaque)

\* As long as documents come, the interim was made for the batch and has seen
\* those before the next, or it has seen none and is as the pool gave it.
Processing ==
  /\ results \in Batches /\ at \in 0..(Len(results) - 1)
  /\ s.FieldsInv = SortedNames(Names(results))
  /\ \/ At(s.opaque, results, s.FieldsInv, at)
     \/ at = 0 /\ s.opaque.init = FALSE /\ Emptied(s.opaque)

IInv ==
  /\ pool # Nothing => Fresh(pool)
  /\ pc # "idle" => IsInterim(s) /\ Usable(s.opaque)
  /\ pc = "process" => Processing

LEMMA NewIsFresh == Fresh(NewInterim)
<1>1. ASSUME NEW zero PROVE Zeroed(NoSlice, zero)
  <2>1. NoSlice = [len |-> NoSlice.len, mem |-> NoSlice.mem] /\ NoSlice.mem = <<>> /\ NoSlice.len = 0
    BY DEF NoSlice
  <2>2. <<>> \in Seq(Range(<<>>)) /\ Len(<<>>) = 0 /\ DOMAIN <<>> = {}
    OBVIOUS
  <2> QED  BY <2>1, <2>2 DEF Zeroed, IsSlice
<1>2. /\ IsInterim(NewInterim) /\ NewInterim.FieldsMap = {} /\ NewInterim.opaque = NewOpaque
  BY DEF IsInterim, NewInterim
<1>3. IsOpaque(NewOpaque)
  <2>1. DOMAIN NewOpaque = OpaqueKeys
    BY DEF NewOpaque, OpaqueKeys
  <2>2. NewOpaque = [x \in DOMAIN NewOpaque |-> NewOpaque[x]]
    BY DEF NewOpaque
  <2> QED  BY <2>1, <2>2 DEF IsOpaque
<1>4. /\ NewOpaque.init = FALSE /\ NewOpaque.Postings = NoSlice /\ NewOpaque.IncludeDocValues = NoSlice
      /\ NewOpaque.FieldTFs = NoSlice /\ NewOpaque.FieldLens = NoSlice
      /\ NewOpaque.freqNormsBacking = NoSlice /\ NewOpaque.locsBacking = NoSlice
  BY DEF NewOpaque
<1>5. Emptied(NewOpaque)
  BY <1>1, <1>4 DEF Emptied
<1> QED  BY <1>2, <1>3, <1>4, <1>5 DEF Fresh

LEMMA InitHolds == Init => IInv
BY DEF Init, IInv

LEMMA StartHolds ==
  ASSUME IInv, NEW b \in Batches, NEW from, from = pool \/ from = Nothing, Start(b, from)
  PROVE  IInv'
<1>1. PICK new : new = IF from = Nothing THEN NewInterim ELSE from
  OBVIOUS
<1>2. Fresh(new)
  BY <1>1, NewIsFresh DEF IInv
<1>3. PICK inv : inv = SortedNames(Names(b))
  OBVIOUS
<1>4. Names(b) \ new.FieldsMap = Names(b)
  BY <1>2 DEF Fresh
<1>5. /\ pool' = Nothing /\ results' = b /\ at' = 0
      /\ s' = [new EXCEPT !.FieldsInv = inv, !.FieldsMap = new.FieldsMap \cup Range(inv)]
      /\ pc' = IF b = <<>> THEN "fields" ELSE "process"
  <2>1. /\ pool' = Nothing /\ results' = b /\ at' = 0
        /\ s' = [new EXCEPT !.FieldsInv = SortedNames(Names(b) \ new.FieldsMap),
                            !.FieldsMap = @ \cup Range(SortedNames(Names(b) \ new.FieldsMap))]
        /\ pc' = IF b = <<>> THEN "fields" ELSE "process"
    BY <1>1 DEF Start
  <2>2. new = [FieldsMap |-> new.FieldsMap, FieldsInv |-> new.FieldsInv, opaque |-> new.opaque]
    BY <1>2 DEF Fresh, IsInterim
  <2> QED  BY <1>3, <1>4, <2>1, <2>2
<1>6. s' = [FieldsMap |-> new.FieldsMap \cup Range(inv), FieldsInv |-> inv, opaque |-> new.opaque]
  <2>1. new = [FieldsMap |-> new.FieldsMap, FieldsInv |-> new.FieldsInv, opaque |-> new.opaque]
    BY <1>2 DEF Fresh, IsInterim
  <2> QED  BY <1>5, <2>1
<1>7. IsInterim(s') /\ s'.FieldsInv = inv /\ s'.opaque = new.opaque
  BY <1>6 DEF IsInterim
<1>8. Usable(new.opaque)
  BY <1>2, EmptiedIsUsable DEF Fresh
<1>9. pc' = "process" => Processing'
  <2> SUFFICES ASSUME pc' = "process" PROVE Processing'
    OBVIOUS
  <2>1. b # <<>>
    BY <1>5
  <2>2. 0 \in 0..(Len(b) - 1)
    <3>1. Len(b) \in Nat /\ b = [d \in 1..Len(b) |-> b[d]]
      BY BatchIs
    <3>2. Len(b) # 0
      <4> SUFFICES ASSUME Len(b) = 0 PROVE FALSE
        OBVIOUS
      <4>1. PICK q : q = b
        OBVIOUS
      <4>2. q = [d \in 1..0 |-> q[d]]
        BY <3>1, <4>1
      <4>3. q = <<>>
        BY <4>2
      <4> QED  BY <2>1, <4>1, <4>3
    <3> QED  BY <3>1, <3>2
  <2> QED  BY <1>2, <1>3, <1>5, <1>7, <2>2 DEF Processing, Fresh
<1> QED  BY <1>5, <1>7, <1>8, <1>9 DEF IInv

LEMMA ProcessHolds == ASSUME IInv, ProcessDocument PROVE IInv'
<1>1. /\ pc = "process" /\ IsInterim(s) /\ Processing /\ pool' = pool /\ results' = results
      /\ pc' = IF at + 1 = Len(results) THEN "stored" ELSE pc
      /\ at' = IF at + 1 = Len(results) THEN 0 ELSE at + 1
  BY DEF IInv, ProcessDocument
<1>2. PICK b, inv, n : b = results /\ inv = s.FieldsInv /\ n = at
  OBVIOUS
<1>3. /\ b \in Batches /\ n \in 0..(Len(b) - 1) /\ inv = SortedNames(Names(b))
      /\ (At(s.opaque, b, inv, n) \/ (n = 0 /\ s.opaque.init = FALSE /\ Emptied(s.opaque)))
  BY <1>1, <1>2 DEF Processing
<1>4. PICK io : io = IF s.opaque.init THEN s.opaque ELSE realloc(s.opaque, b, inv)
  OBVIOUS
<1>5. At(io, b, inv, n)
  <2>1. CASE At(s.opaque, b, inv, n)
    <3>1. s.opaque.init = TRUE
      BY <2>1 DEF At
    <3> QED  BY <1>4, <2>1, <3>1
  <2>2. CASE n = 0 /\ s.opaque.init = FALSE /\ Emptied(s.opaque)
    <3>1. PICK o : o = s.opaque
      OBVIOUS
    <3>2. IsOpaque(o) /\ Emptied(o) /\ io = realloc(o, b, inv)
      BY <1>1, <1>4, <2>2, <3>1 DEF IInv, Usable
    <3>3. At(io, b, inv, 0)
      BY <1>3, <3>2, ReallocHolds
    <3> QED  BY <2>2, <3>3
  <2> QED  BY <1>3, <2>1, <2>2
<1>6. PICK c : c = Commit(AddFields(io, b[n + 1], inv), n, inv)
  OBVIOUS
<1>7. At(c, b, inv, n + 1)
  BY <1>3, <1>5, <1>6, DocumentHolds
<1>8. s' = [s EXCEPT !.opaque = c]
  BY <1>2, <1>4, <1>6 DEF ProcessDocument
<1>9. s' = [FieldsMap |-> s.FieldsMap, FieldsInv |-> s.FieldsInv, opaque |-> c]
  BY <1>1, <1>8 DEF IsInterim
<1>10. IsInterim(s') /\ s'.FieldsInv = inv /\ s'.opaque = c
  BY <1>2, <1>9 DEF IsInterim
<1>11. Usable(c)
  BY <1>7, AtIsUsable
<1>12. pc' = "process" => Processing'
  <2> SUFFICES ASSUME pc' = "process" PROVE Processing'
    OBVIOUS
  <2>1. n + 1 # Len(b) /\ at' = n + 1
    BY <1>1, <1>2
  <2>2. n + 1 \in 0..(Len(b) - 1)
    <3>1. Len(b) \in Nat
      BY <1>3, BatchIs
    <3> QED  BY <1>3, <2>1, <3>1
  <2>3. At(s'.opaque, results', s'.FieldsInv, at')
    BY <1>1, <1>2, <1>7, <1>10, <2>1
  <2> QED  BY <1>1, <1>2, <1>3, <1>10, <2>1, <2>2, <2>3 DEF Processing
<1> QED  BY <1>1, <1>10, <1>11, <1>12 DEF IInv

LEMMA WriteFieldHolds == ASSUME IInv, WriteField PROVE IInv'
<1>1. PICK o : o = s.opaque
  OBVIOUS
<1>2. PICK addrs : s' = [s EXCEPT !.opaque = [o EXCEPT !.fieldAddrs = addrs]]
  BY <1>1 DEF WriteField, IInv, IsInterim
<1>3. PICK c : c = [o EXCEPT !.fieldAddrs = addrs]
  OBVIOUS
<1>4. pc = "dicts" /\ pool' = pool /\ pc' \in {"fields", "dicts"} /\ IsInterim(s) /\ Usable(o)
  BY <1>1 DEF WriteField, IInv
<1>5. s' = [FieldsMap |-> s.FieldsMap, FieldsInv |-> s.FieldsInv, opaque |-> c]
  BY <1>2, <1>3, <1>4 DEF IsInterim
<1>6. IsInterim(s') /\ s'.opaque = c
  BY <1>5 DEF IsInterim
<1>7. Usable(c)
  <2>1. IsOpaque(o) /\ DOMAIN o = OpaqueKeys
    BY <1>4 DEF Usable, IsOpaque
  <2>2. IsOpaque(c)
    BY <1>3, <2>1 DEF IsOpaque
  <2>3. /\ c.Postings = o.Postings /\ c.IncludeDocValues = o.IncludeDocValues
        /\ c.freqNormsBacking = o.freqNormsBacking /\ c.locsBacking = o.locsBacking
        /\ c.FieldTFs = o.FieldTFs /\ c.FieldLens = o.FieldLens
    BY <1>3, <2>1 DEF OpaqueKeys
  <2> QED  BY <1>4, <2>2, <2>3 DEF Usable
<1> QED  BY <1>4, <1>6, <1>7 DEF IInv

LEMMA FinishHolds == ASSUME IInv, Finish PROVE IInv'
<1>1. pc = "fields" /\ pool' = reset(s) /\ pc' = "idle" /\ Usable(s.opaque)
  BY DEF Finish, IInv
<1>2. PICK c : c = ResetOpaque(s.opaque)
  OBVIOUS
<1>3. IsOpaque(c) /\ c.init = FALSE /\ Emptied(c)
  BY <1>1, <1>2, ResetHolds
<1>4. pool' = [FieldsMap |-> {}, FieldsInv |-> <<>>, opaque |-> c]
  BY <1>1, <1>2 DEF reset
<1>5. IsInterim(pool') /\ pool'.FieldsMap = {} /\ pool'.opaque = c
  BY <1>4 DEF IsInterim
<1>6. Fresh(pool')
  BY <1>3, <1>5 DEF Fresh
<1> QED  BY <1>1, <1>6 DEF IInv

LEMMA StepHolds == ASSUME IInv, [Next]_vars PROVE IInv'
<1>1. CASE \E b \in Batches : Start(b, pool) \/ Start(b, Nothing)
  BY <1>1, StartHolds
<1>2. CASE ProcessDocument
  BY <1>2, ProcessHolds
<1>3. CASE WriteStored
  BY <1>3 DEF WriteStored, IInv
<1>4. CASE Invalid
  BY <1>4 DEF Invalid, IInv
<1>5. CASE WriteField
  BY <1>5, WriteFieldHolds
<1>6. CASE Finish
  BY <1>6, FinishHolds
<1>7. CASE UNCHANGED vars
  BY <1>7 DEF vars, IInv, Processing
<1> QED  BY <1>1, <1>2, <1>3, <1>4, <1>5, <1>6, <1>7 DEF Next

(***************************************************************************)
(* The invariant: an interim in the pool is as Reset leaves it, what its   *)
(* slices have beyond their length zero.  While realloc has counted the    *)
(* batch at hand, no list of a term is longer than what was counted in the *)
(* documents already processed.                                            *)
(***************************************************************************)
THEOREM InterimHolds == Spec => []IInv
<1>1. Init => IInv
  BY InitHolds
<1>2. IInv /\ [Next]_vars => IInv'
  BY StepHolds
<1> QED  BY <1>1, <1>2, PTL DEF Spec

-----------------------------------------------------------------------------
(* What follows from it.                                                   *)

\* Lists of a backing array that keep to their places.
Disjoint(parts, backing) ==
  \A p, q \in DOMAIN parts : /\ parts[p].off + parts[p].len <= backing.len
                             /\ p < q => parts[p].off + parts[p].len <= parts[q].off

LEMMA PlacedDisjoint ==
  ASSUME NEW parts, NEW counts, NEW z, NEW zero, Placing(parts, counts, z, zero)
  PROVE  Disjoint(parts, z)
<1>1. DOMAIN parts = DOMAIN counts /\ \A p \in DOMAIN counts : parts[p].len <= counts[p]
  BY DEF Placing
<1>2. ASSUME NEW p \in DOMAIN counts, NEW q \in DOMAIN counts
      PROVE  /\ parts[p].off + parts[p].len <= z.len
             /\ p < q => parts[p].off + parts[p].len <= parts[q].off
  <2>1. PICK o, l, n, m, u : /\ o = parts[p].off /\ l = parts[p].len /\ n = counts[p]
                             /\ m = z.len /\ u = parts[q].off
    OBVIOUS
  <2>2. o \in Nat /\ l \in Nat /\ n \in Nat /\ m \in Nat /\ o + n <= m /\ (p < q => o + n <= u)
    <3>1. /\ parts[p].off \in Nat /\ parts[p].len \in Nat /\ counts[p] \in Nat /\ z.len \in Nat
          /\ parts[p].off + counts[p] <= z.len
          /\ \A r \in DOMAIN counts : p < r => parts[p].off + counts[p] <= parts[r].off
      BY PlacesApart
    <3> QED  BY <2>1, <3>1
  <2>3. u \in Nat
    <3>1. parts[q].off \in Nat
      BY PlacesApart
    <3> QED  BY <2>1, <3>1
  <2>4. l <= n
    BY <1>1, <2>1
  <2>5. o + l <= m /\ (p < q => o + l <= u)
    BY <2>2, <2>3, <2>4
  <2> QED  BY <2>1, <2>5
<1> QED  BY <1>1, <1>2 DEF Disjoint

LEMMA AtApart ==
  ASSUME NEW b \in Batches, NEW inv, NEW n, NEW io, At(io, b, inv, n)
  PROVE  /\ Disjoint(io.FreqNorms, io.freqNormsBacking) /\ Disjoint(io.Locs, io.locsBacking)
         /\ \A p \in DOMAIN io.FreqNorms :
              /\ Len(Entries(io, p)) = Cardinality(io.Postings.mem[p])
              /\ io.Locs[p].len = Total(Numbers(Entries(io, p)))
<1>1. PICK C, L, fp, fz, lp, lz : /\ C = ForTerms(b, inv) /\ L = ForLocs(b, inv)
                                  /\ fp = io.FreqNorms /\ fz = io.freqNormsBacking
                                  /\ lp = io.Locs /\ lz = io.locsBacking
  OBVIOUS
<1>2. /\ Placing(fp, C, fz, NoFreqNorm) /\ Placing(lp, L, lz, NoLoc)
      /\ \A p \in DOMAIN Pids(b, inv) : ListOk(io, b, inv, p, All(b, inv, n)[p])
  BY <1>1 DEF At, Lists
<1>3. Disjoint(fp, fz)
  BY <1>2, PlacedDisjoint
<1>4. Disjoint(lp, lz)
  BY <1>2, PlacedDisjoint
<1>5. DOMAIN fp = DOMAIN Pids(b, inv) /\ DOMAIN fp = DOMAIN C
  BY <1>1, <1>2 DEF Placing, ForTerms
<1>6. ASSUME NEW p \in DOMAIN fp
      PROVE  /\ Len(Entries(io, p)) = Cardinality(io.Postings.mem[p])
             /\ io.Locs[p].len = Total(Numbers(Entries(io, p)))
  <2>1. ListOk(io, b, inv, p, All(b, inv, n)[p])
    BY <1>2, <1>5
  <2>2. PICK l, es : l = fp[p].len /\ es = Entries(io, p)
    OBVIOUS
  <2>3. l \in Nat
    <3>1. p \in DOMAIN C
      BY <1>5
    <3>2. fp[p].len \in Nat
      BY <1>2, <3>1, PlacesApart
    <3> QED  BY <2>2, <3>2
  <2>4. es = [k \in 1..l |-> fz.mem[fp[p].off + k]]
    BY <1>1, <2>2 DEF Entries, Part
  <2>5. Len(es) = l
    <3>1. es = [k \in 1..l |-> es[k]]
      BY <2>4
    <3> QED  BY <2>3, <3>1, ListIs
  <2> QED  BY <1>1, <2>1, <2>2, <2>5 DEF ListOk
<1> QED  BY <1>1, <1>3, <1>4, <1>6

\* While the documents of a batch are read, the lists of two terms never share
\* memory, none leaves the part of the array that Reset clears, and each has an
\* entry for every posting and the locations its entries count: whatever terms
\* the fields of a document have, alone or together, realloc has counted enough
\* for the appends of processDocument.
THEOREM ListsStayApart == Spec => []ListsApart
<1>1. IInv => ListsApart
  <2> SUFFICES ASSUME IInv, pc = "process", s.opaque.init PROVE ListsApart
    BY DEF ListsApart
  <2>1. PICK b, inv, n, io : b = results /\ inv = s.FieldsInv /\ n = at /\ io = s.opaque
    OBVIOUS
  <2>2. b \in Batches /\ At(io, b, inv, n)
    BY <2>1 DEF IInv, Processing
  <2>3. /\ Disjoint(io.FreqNorms, io.freqNormsBacking) /\ Disjoint(io.Locs, io.locsBacking)
        /\ \A p \in DOMAIN io.FreqNorms :
             /\ Len(Entries(io, p)) = Cardinality(io.Postings.mem[p])
             /\ io.Locs[p].len = Total(Numbers(Entries(io, p)))
    BY <2>2, AtApart
  <2> QED  BY <2>1, <2>3 DEF ListsApart, Disjoint, Entries, Numbers
<1> QED  BY <1>1, InterimHolds, PTL

\* An interim in the pool holds nothing of the batches it was used for, as far
\* as its memory goes: what Reset clears, and cuts off, is all that was written
\* since the pool gave it out.
THEOREM PoolAlwaysClean == Spec => []PoolClean
<1>1. IInv => PoolClean
  <2> SUFFICES ASSUME IInv, pool # Nothing PROVE PoolClean
    BY DEF PoolClean
  <2>1. Emptied(pool.opaque)
    BY DEF IInv, Fresh
  <2>2. ASSUME NEW z, NEW zero, Zeroed(z, zero) PROVE Range(z.mem) \subseteq {zero}
    BY <2>2 DEF Zeroed, Range
  <2> QED  BY <2>1, <2>2 DEF PoolClean, Emptied
<1> QED  BY <1>1, InterimHolds, PTL
=============================================================================
