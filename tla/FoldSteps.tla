------------------------------ MODULE FoldSteps ------------------------------
(***************************************************************************)
(* What a fold, or a recursive function, computes step by step.            *)
(*                                                                         *)
(* The step is an operator, and the prover cannot instantiate a theorem    *)
(* that takes one.  It can instantiate a module: a proof about a fold has  *)
(* an instance of this one, with its own step for op, and p for what that  *)
(* step depends on besides the value so far and the next element.          *)
(***************************************************************************)
EXTENDS Integers, Sequences, FiniteSets, FiniteSetTheorems, WellFoundedInduction, TLAPS

CONSTANT op(_, _, _)

\* FoldLeft of SequencesExt, over the elements of seq at the places in S.
Highest(s) == CHOOSE x \in s : \A y \in s : x >= y
Left(p, base, seq, S) ==
  LET iter[s \in SUBSET S] == IF s = {} THEN base
                              ELSE LET x == Highest(s)
                                   IN  op(p, iter[s \ {x}], seq[x])
  IN  iter[S]

\* FoldSet of FiniteSetsExt.
Any(s) == CHOOSE x \in s : TRUE
Over(p, base, S) ==
  LET iter[s \in SUBSET S] == IF s = {} THEN base
                              ELSE LET x == Any(s)
                                   IN  op(p, iter[s \ {x}], x)
  IN  iter[S]

\* FlattenSeq of SequencesExt.
Flat(seqs) ==
  IF Len(seqs) = 0 THEN seqs ELSE
    LET flatten[i \in 1..Len(seqs)] == IF i = 1 THEN seqs[i] ELSE flatten[i - 1] \o seqs[i]
    IN  flatten[Len(seqs)]

\* A recursive function on 0..n.
Counted(p, base, n) ==
  LET f[k \in 0..n] == IF k = 0 THEN base ELSE op(p, f[k - 1], k)
  IN  f

-----------------------------------------------------------------------------
LEMMA LeastIs ==
  ASSUME NEW S \in SUBSET Nat, S # {}
  PROVE  \E x \in S : \A y \in S : x <= y
<1>1. PICK x \in S : \A y \in S : ~ (<<y, x>> \in OpToRel(<, Nat))
  BY NatLessThanWellFounded, WFMin
<1>2. \A k \in S : x <= k
  <2> SUFFICES ASSUME NEW k \in S, ~ (x <= k) PROVE FALSE
    OBVIOUS
  <2>1. <<k, x>> \in Nat \X Nat /\ k < x
    OBVIOUS
  <2> QED  BY <1>1, <2>1 DEF OpToRel
<1> QED  BY <1>2

\* Induction up to n, for the numbers with a property that makes a set.
LEMMA UpTo ==
  ASSUME NEW S, NEW n \in Nat, 0 \in S, \A k \in 1..n : k - 1 \in S => k \in S
  PROVE  \A k \in 0..n : k \in S
<1> DEFINE Bad == {k \in 0..n : k \notin S}
<1> SUFFICES ASSUME Bad # {} PROVE FALSE
  OBVIOUS
<1>1. Bad \in SUBSET Nat
  OBVIOUS
<1>2. PICK m \in Bad : \A k \in Bad : m <= k
  <2> HIDE DEF Bad
  <2> QED  BY <1>1, LeastIs
<1>3. m \in 1..n /\ m - 1 \in 0..n /\ m \notin S /\ ~ (m <= m - 1)
  OBVIOUS
<1>4. m - 1 \notin Bad
  <2> HIDE DEF Bad
  <2> QED  BY <1>2, <1>3
<1> QED  BY <1>3, <1>4

LEMMA HighestIs ==
  ASSUME NEW n \in Nat, NEW s, \A k \in s : k \in 1..n, s # {}
  PROVE  Highest(s) \in s /\ \A k \in s : Highest(s) >= k
<1> DEFINE T == {n - k : k \in s}
<1>1. T \in SUBSET Nat /\ T # {}
  OBVIOUS
<1>2. PICK y \in T : \A z \in T : y <= z
  <2> HIDE DEF T
  <2> QED  BY <1>1, LeastIs
<1>3. PICK x \in s : y = n - x
  OBVIOUS
<1>4. ASSUME NEW k \in s PROVE x >= k
  <2>1. n - k \in T /\ k \in Int /\ x \in Int
    OBVIOUS
  <2>2. y <= n - k
    <3> HIDE DEF T
    <3> QED  BY <1>2, <2>1
  <2> QED  BY <1>3, <2>1, <2>2
<1> QED  BY <1>4 DEF Highest

\* The recursion of FoldLeft has a solution for every length.
Folds(it, p, base, seq, n) ==
  it = [s \in SUBSET (1..n) |->
          IF s = {} THEN base ELSE LET x == Highest(s) IN op(p, it[s \ {x}], seq[x])]

LEMMA LeftExists ==
  ASSUME NEW p, NEW base, NEW seq, NEW n \in Nat
  PROVE  \E it : Folds(it, p, base, seq, n)
<1> DEFINE Solves(it, k) == Folds(it, p, base, seq, k)
           S == {k \in 0..n : \E it : Solves(it, k)}
<1>1. 0 \in S
  <2> DEFINE it == [s \in SUBSET (1..0) |-> base]
  <2>1. \A s \in SUBSET (1..0) : s = {}
    OBVIOUS
  <2>2. Solves(it, 0)
    BY <2>1 DEF Folds
  <2> HIDE DEF Solves
  <2> QED  BY <2>2
<1>2. ASSUME NEW k \in 1..n, k - 1 \in S PROVE k \in S
  <2>1. PICK g : Solves(g, k - 1)
    BY <1>2
  <2> DEFINE it == [s \in SUBSET (1..k) |-> IF k \in s THEN op(p, g[s \ {k}], seq[k]) ELSE g[s]]
             Value(s) == IF s = {} THEN base
                         ELSE LET x == Highest(s) IN op(p, it[s \ {x}], seq[x])
  <2>2. ASSUME NEW s \in SUBSET (1..k) PROVE it[s] = Value(s)
    <3>1. \A j \in 1..k : j # k => j \in 1..(k - 1)
      OBVIOUS
    <3>2. CASE k \in s
      <4>1. k \in Nat /\ \A j \in s : k >= j /\ j \in 1..k
        OBVIOUS
      <4>2. Highest(s) \in s /\ Highest(s) >= k
        <5>1. s # {} /\ \A j \in s : j \in 1..k
          BY <3>2, <4>1
        <5>2. Highest(s) \in s /\ \A j \in s : Highest(s) >= j
          BY <4>1, <5>1, HighestIs
        <5> QED  BY <3>2, <5>2
      <4>3. Highest(s) = k
        <5> DEFINE h == Highest(s)
        <5>1. h \in s /\ h >= k
          BY <4>2
        <5> HIDE DEF h
        <5>2. h \in 1..k /\ k >= h
          BY <4>1, <5>1
        <5>3. h = k
          BY <4>1, <5>1, <5>2
        <5> QED  BY <5>3 DEF h
      <4>4. s \ {k} \in SUBSET (1..k) /\ k \notin s \ {k}
        OBVIOUS
      <4>5. it[s \ {k}] = g[s \ {k}]
        BY <4>4
      <4>6. it[s] = op(p, g[s \ {k}], seq[k])
        BY <3>2
      <4> HIDE DEF it
      <4> QED  BY <3>2, <4>3, <4>5, <4>6
    <3>3. CASE k \notin s
      <4>1. s \in SUBSET (1..(k - 1))
        BY <3>1, <3>3
      <4>2. g[s] = IF s = {} THEN base
                   ELSE LET x == Highest(s) IN op(p, g[s \ {x}], seq[x])
        BY <2>1, <4>1 DEF Folds
      <4>3. \A x : s \ {x} \in SUBSET (1..k) /\ k \notin s \ {x}
        BY <3>3
      <4>4. \A x : it[s \ {x}] = g[s \ {x}]
        BY <4>3
      <4>5. it[s] = g[s]
        BY <3>3
      <4> HIDE DEF it
      <4> QED  BY <4>2, <4>4, <4>5
    <3> QED  BY <3>2, <3>3
  <2>3. it = [s \in SUBSET (1..k) |-> it[s]]
    OBVIOUS
  <2>4. Solves(it, k)
    <3> HIDE DEF it
    <3> QED  BY <2>2, <2>3 DEF Folds
  <2> HIDE DEF Solves
  <2> QED  BY <2>4
<1>3. n \in S
  <2> HIDE DEF S
  <2>1. n \in 0..n
    OBVIOUS
  <2> QED  BY <1>1, <1>2, <2>1, UpTo
<1> QED  BY <1>3

\* FoldLeft takes one element after the other.
LEMMA LeftSteps ==
  ASSUME NEW p, NEW base, NEW seq, NEW n \in Nat
  PROVE  \E w : /\ w[0] = base
                /\ \A k \in 1..n : w[k] = op(p, w[k - 1], seq[k])
                /\ Left(p, base, seq, 1..n) = w[n]
<1> DEFINE Solves(it) == Folds(it, p, base, seq, n)
           iter == CHOOSE it : Solves(it)
           w == [k \in 0..n |-> iter[1..k]]
<1>1. Solves(iter)
  BY LeftExists
<1>2. Left(p, base, seq, 1..n) = iter[1..n]
  BY Zenon DEF Left, Folds
<1> HIDE DEF iter
<1>3. w[0] = base
  <2>1. 1..0 = {} /\ {} \in SUBSET (1..n)
    OBVIOUS
  <2>2. iter[{}] = base
    BY <1>1, <2>1 DEF Folds
  <2> QED  BY <2>1, <2>2
<1>4. ASSUME NEW k \in 1..n PROVE w[k] = op(p, w[k - 1], seq[k])
  <2>1. 1..k \in SUBSET (1..n) /\ k \in 1..k /\ (\A j \in 1..k : j <= k /\ j \in 1..n)
        /\ (1..k) \ {k} = 1..(k - 1) /\ k - 1 \in 0..n /\ k \in 0..n
    OBVIOUS
  <2>2. Highest(1..k) \in 1..k /\ Highest(1..k) >= k
    BY <2>1, HighestIs
  <2>3. Highest(1..k) = k
    BY <2>1, <2>2
  <2>4. 1..k # {}
    BY <2>1
  <2>5. iter[1..k] = op(p, iter[(1..k) \ {k}], seq[k])
    BY <1>1, <2>1, <2>3, <2>4 DEF Folds
  <2>6. w[k] = iter[1..k] /\ w[k - 1] = iter[1..(k - 1)]
    BY <2>1
  <2> QED  BY <2>1, <2>5, <2>6
<1>5. w[n] = iter[1..n]
  OBVIOUS
<1> QED  BY <1>2, <1>3, <1>4, <1>5

\* A recursive function is what its definition says.
LEMMA CountedSteps ==
  ASSUME NEW p, NEW base, NEW n \in Nat
  PROVE  /\ Counted(p, base, n) = [k \in 0..n |-> Counted(p, base, n)[k]]
         /\ Counted(p, base, n)[0] = base
         /\ \A k \in 1..n : Counted(p, base, n)[k] = op(p, Counted(p, base, n)[k - 1], k)
<1> DEFINE Solves(f, m) == f = [k \in 0..m |-> IF k = 0 THEN base ELSE op(p, f[k - 1], k)]
           S == {m \in 0..n : \E f : Solves(f, m)}
<1>1. 0 \in S
  <2> DEFINE f == [k \in 0..0 |-> base]
  <2>1. \A k \in 0..0 : k = 0
    OBVIOUS
  <2>2. Solves(f, 0)
    BY <2>1
  <2> HIDE DEF Solves
  <2> QED  BY <2>2
<1>2. ASSUME NEW m \in 1..n, m - 1 \in S PROVE m \in S
  <2>1. PICK g : Solves(g, m - 1)
    BY <1>2
  <2> DEFINE f == [k \in 0..m |-> IF k = m THEN op(p, g[m - 1], m) ELSE g[k]]
  <2>2. ASSUME NEW k \in 0..m PROVE f[k] = IF k = 0 THEN base ELSE op(p, f[k - 1], k)
    <3>1. CASE k = m
      <4>1. k # 0 /\ k - 1 \in 0..m /\ k - 1 # m
        BY <3>1
      <4>2. f[k] = op(p, g[m - 1], m) /\ f[k - 1] = g[m - 1]
        BY <3>1, <4>1
      <4> HIDE DEF f
      <4> QED  BY <3>1, <4>1, <4>2
    <3>2. CASE k # m
      <4>1. k \in 0..(m - 1) /\ (k # 0 => k - 1 \in 0..m /\ k - 1 # m)
        BY <3>2
      <4>2. f[k] = g[k] /\ (k # 0 => f[k - 1] = g[k - 1])
        BY <3>2, <4>1
      <4>3. g[k] = IF k = 0 THEN base ELSE op(p, g[k - 1], k)
        BY <2>1, <4>1
      <4> HIDE DEF f
      <4> QED  BY <4>2, <4>3
    <3> QED  BY <3>1, <3>2
  <2>3. f = [k \in 0..m |-> f[k]]
    OBVIOUS
  <2>4. Solves(f, m)
    <3> HIDE DEF f
    <3> QED  BY <2>2, <2>3
  <2> HIDE DEF Solves
  <2> QED  BY <2>4
<1>3. n \in S
  <2> HIDE DEF S
  <2>1. n \in 0..n
    OBVIOUS
  <2> QED  BY <1>1, <1>2, <2>1, UpTo
<1> DEFINE c == CHOOSE f : Solves(f, n)
<1>4. Solves(c, n)
  BY <1>3
<1>5. Counted(p, base, n) = c
  BY DEF Counted
<1> HIDE DEF c
<1>6. c = [k \in 0..n |-> IF k = 0 THEN base ELSE op(p, c[k - 1], k)]
  BY <1>4
<1> HIDE DEF Solves
<1>7. \A k \in 0..n : c[k] = IF k = 0 THEN base ELSE op(p, c[k - 1], k)
  BY <1>6
<1>8. c = [k \in 0..n |-> c[k]]
  BY <1>6
<1>9. 0 \in 0..n /\ \A k \in 1..n : k \in 0..n /\ k # 0
  OBVIOUS
<1> QED  BY <1>5, <1>7, <1>8, <1>9
\* What is flattened is what is put together step by step.
LEMMA FlatSteps ==
  ASSUME NEW T, NEW n \in Nat, NEW seqs \in Seq(Seq(T)), Len(seqs) = n,
         NEW u, u[0] = <<>>, \A k \in 1..n : u[k] = u[k - 1] \o seqs[k]
  PROVE  Flat(seqs) = u[n]
<1> DEFINE Grows(g) == g = [i \in 1..n |-> IF i = 1 THEN seqs[i] ELSE g[i - 1] \o seqs[i]]
<1>1. \A k \in 1..n : seqs[k] \in Seq(T)
  OBVIOUS
<1>2. CASE n = 0
  <2>1. Flat(seqs) = seqs /\ seqs = <<>>
    BY <1>2 DEF Flat
  <2> QED  BY <1>2, <2>1
<1>3. CASE n # 0
  <2> DEFINE h == [i \in 1..n |-> u[i]]  flatten == CHOOSE g : Grows(g)
  <2>1. ASSUME NEW i \in 1..n PROVE h[i] = IF i = 1 THEN seqs[i] ELSE h[i - 1] \o seqs[i]
    <3>1. CASE i = 1
      <4>1. u[1] = <<>> \o seqs[1] /\ seqs[1] \in Seq(T)
        <5>1. 1 \in 1..n /\ 1 - 1 = 0
          BY <1>3
        <5> QED  BY <1>1, <5>1
      <4>2. <<>> \o seqs[1] = seqs[1]
        BY <4>1
      <4> QED  BY <3>1, <4>1, <4>2
    <3>2. CASE i # 1
      <4>1. i - 1 \in 1..n
        BY <3>2
      <4> QED  BY <3>2, <4>1
    <3> QED  BY <3>1, <3>2
  <2>2. Grows(h)
    <3>1. h = [i \in 1..n |-> h[i]]
      OBVIOUS
    <3> HIDE DEF h
    <3> QED  BY <2>1, <3>1
  <2>3. Grows(flatten)
    <3> HIDE DEF Grows
    <3> QED  BY <2>2
  <2>4. Flat(seqs) = flatten[n]
    BY <1>3 DEF Flat
  <2> HIDE DEF flatten, h
  <2> DEFINE S == {k \in 0..n : k = 0 \/ flatten[k] = u[k]}
  <2>5. 0 \in S
    OBVIOUS
  <2>6. ASSUME NEW k \in 1..n, k - 1 \in S PROVE k \in S
    <3>1. flatten[k] = IF k = 1 THEN seqs[k] ELSE flatten[k - 1] \o seqs[k]
      BY <2>3
    <3>2. u[k] = u[k - 1] \o seqs[k] /\ seqs[k] \in Seq(T)
      BY <1>1
    <3>3. CASE k = 1
      <4>0. 1 - 1 = 0
        OBVIOUS
      <4>1. u[1] = <<>> \o seqs[1] /\ flatten[1] = seqs[1] /\ seqs[1] \in Seq(T)
        BY <3>1, <3>2, <3>3, <4>0
      <4>2. <<>> \o seqs[1] = seqs[1]
        BY <4>1
      <4> QED  BY <3>3, <4>1, <4>2
    <3>4. CASE k # 1
      <4>1. k - 1 # 0 /\ flatten[k - 1] = u[k - 1]
        BY <2>6, <3>4
      <4>2. flatten[k] = u[k]
        BY <3>1, <3>2, <3>4, <4>1
      <4> QED  BY <4>2
    <3> QED  BY <3>3, <3>4
  <2>7. n \in S
    <3> HIDE DEF S
    <3>1. n \in 0..n
      OBVIOUS
    <3> QED  BY <2>5, <2>6, <3>1, UpTo
  <2> QED  BY <1>3, <2>4, <2>7
<1> QED  BY <1>2, <1>3

-----------------------------------------------------------------------------
\* Induction over the subsets of a finite set.
LEMMA Subsets ==
  ASSUME NEW S, IsFiniteSet(S), NEW F,
         \A T \in SUBSET S : (\A x \in T : T \ {x} \in F) => T \in F
  PROVE  S \in F
<1> DEFINE N == Cardinality(S)
           G == {n \in 0..N : \A T \in SUBSET S : Cardinality(T) = n => T \in F}
<1>1. N \in Nat /\ \A T \in SUBSET S : IsFiniteSet(T) /\ Cardinality(T) \in Nat
  BY FS_CardinalityType, FS_Subset
<1>2. 0 \in G
  <2>1. ASSUME NEW T \in SUBSET S, Cardinality(T) = 0 PROVE T \in F
    <3>1. T = {}
      BY <1>1, <2>1, FS_EmptySet
    <3> QED  BY <3>1
  <2> QED  BY <1>1, <2>1
<1>3. ASSUME NEW n \in 1..N, n - 1 \in G PROVE n \in G
  <2>1. ASSUME NEW T \in SUBSET S, Cardinality(T) = n PROVE T \in F
    <3>1. ASSUME NEW x \in T PROVE T \ {x} \in F
      <4>1. Cardinality(T \ {x}) = n - 1
        BY <1>1, <2>1, FS_RemoveElement
      <4> QED  BY <1>3, <4>1
    <3> QED  BY <3>1
  <2>2. n \in 0..N
    OBVIOUS
  <2> QED  BY <2>1, <2>2
<1>4. N \in G
  <2> HIDE DEF G
  <2> QED  BY <1>1, <1>2, <1>3, UpTo
<1> QED  BY <1>4

\* The recursion of FoldSet has a solution for the subsets of up to n elements.
Few(S, n) == {s \in SUBSET S : Cardinality(s) <= n}
Gathers(it, p, base, D) ==
  it = [s \in D |-> IF s = {} THEN base ELSE LET x == Any(s) IN op(p, it[s \ {x}], x)]

LEMMA OverExists ==
  ASSUME NEW p, NEW base, NEW S, IsFiniteSet(S)
  PROVE  \E it : Gathers(it, p, base, SUBSET S)
<1> DEFINE N == Cardinality(S)
           Solves(it, n) == Gathers(it, p, base, Few(S, n))
           G == {n \in 0..N : \E it : Solves(it, n)}
<1>1. N \in Nat /\ \A T \in SUBSET S : IsFiniteSet(T) /\ Cardinality(T) \in Nat /\ Cardinality(T) <= N
  BY FS_CardinalityType, FS_Subset
<1>2. \A s : s # {} => Any(s) \in s
  BY DEF Any
<1>3. ASSUME NEW s \in SUBSET S, s # {}
      PROVE  /\ s \ {Any(s)} \in SUBSET S /\ Cardinality(s) > 0
             /\ Cardinality(s \ {Any(s)}) = Cardinality(s) - 1
  <2>1. Any(s) \in s /\ IsFiniteSet(s)
    BY <1>1, <1>2, <1>3
  <2>2. Cardinality(s \ {Any(s)}) = Cardinality(s) - 1
    BY <2>1, FS_RemoveElement
  <2>3. Cardinality(s) # 0
    BY <1>3, <2>1, FS_EmptySet
  <2> QED  BY <1>1, <2>2, <2>3
<1>4. 0 \in G
  <2> DEFINE it == [s \in Few(S, 0) |-> base]
  <2>1. \A s \in Few(S, 0) : s = {}
    <3>1. ASSUME NEW s \in Few(S, 0) PROVE s = {}
      <4>1. s \in SUBSET S /\ Cardinality(s) <= 0
        BY DEF Few
      <4>2. IsFiniteSet(s) /\ Cardinality(s) = 0
        BY <1>1, <4>1
      <4> QED  BY <4>2, FS_EmptySet
    <3> QED  BY <3>1
  <2>2. Solves(it, 0)
    BY <2>1 DEF Gathers
  <2> HIDE DEF Solves
  <2> QED  BY <1>1, <2>2
<1>5. ASSUME NEW n \in 1..N, n - 1 \in G PROVE n \in G
  <2>1. PICK g : Solves(g, n - 1)
    BY <1>5
  <2> DEFINE Value(f, s) == IF s = {} THEN base ELSE LET x == Any(s) IN op(p, f[s \ {x}], x)
             it == [s \in Few(S, n) |-> IF Cardinality(s) = n THEN Value(g, s) ELSE g[s]]
  <2>2. ASSUME NEW s \in Few(S, n) PROVE it[s] = Value(it, s)
    <3>1. s \in SUBSET S /\ Cardinality(s) \in Nat /\ Cardinality(s) <= n
      BY <1>1 DEF Few
    <3> DEFINE r == s \ {Any(s)}
    <3>2. s # {} => r \in Few(S, n) /\ it[r] = g[r] /\ r \in Few(S, n - 1)
      <4>1. ASSUME s # {} PROVE r \in SUBSET S /\ Cardinality(r) = Cardinality(s) - 1
        BY <1>3, <3>1, <4>1
      <4> HIDE DEF r
      <4> QED  BY <3>1, <4>1 DEF Few
    <3>3. CASE Cardinality(s) = n
      <4>1. it[s] = Value(g, s)
        BY <3>3
      <4> HIDE DEF it
      <4> QED  BY <3>2, <4>1
    <3>4. CASE Cardinality(s) # n
      <4>1. s \in Few(S, n - 1)
        BY <3>1, <3>4 DEF Few
      <4>2. g[s] = Value(g, s)
        BY <2>1, <4>1 DEF Gathers
      <4>3. it[s] = g[s]
        BY <3>4
      <4> HIDE DEF it
      <4> QED  BY <3>2, <4>2, <4>3
    <3> QED  BY <3>3, <3>4
  <2>3. it = [s \in Few(S, n) |-> it[s]]
    OBVIOUS
  <2>4. Solves(it, n)
    <3> HIDE DEF it
    <3> QED  BY <2>2, <2>3 DEF Gathers
  <2> HIDE DEF Solves
  <2>5. n \in 0..N
    OBVIOUS
  <2> QED  BY <2>4, <2>5
<1>6. N \in G
  <2> HIDE DEF G
  <2> QED  BY <1>1, <1>4, <1>5, UpTo
<1>7. Few(S, N) = SUBSET S
  BY <1>1 DEF Few
<1> QED  BY <1>6, <1>7

\* FoldSet takes one element after the other.
Gathered(w, p, base, S) ==
  /\ w[{}] = base /\ Over(p, base, S) = w[S]
  /\ \A T \in SUBSET S : T # {} => \E x \in T : w[T] = op(p, w[T \ {x}], x)

LEMMA OverSteps ==
  ASSUME NEW p, NEW base, NEW S, IsFiniteSet(S)
  PROVE  \E w : Gathered(w, p, base, S)
<1> DEFINE Solves(it) == Gathers(it, p, base, SUBSET S)
           iter == CHOOSE it : Solves(it)
<1>1. Solves(iter)
  BY OverExists
<1>2. Over(p, base, S) = iter[S]
  BY Zenon DEF Over, Gathers
<1> HIDE DEF iter
<1>3. iter[{}] = base
  BY <1>1 DEF Gathers
<1>4. ASSUME NEW T \in SUBSET S, T # {} PROVE \E x \in T : iter[T] = op(p, iter[T \ {x}], x)
  <2>1. Any(T) \in T
    BY <1>4 DEF Any
  <2>2. iter[T] = op(p, iter[T \ {Any(T)}], Any(T))
    BY <1>1, <1>4 DEF Gathers
  <2> QED  BY <2>1, <2>2
<1> QED  BY <1>2, <1>3, <1>4 DEF Gathered
=============================================================================
