-------------------------- MODULE MergeDocs_proofs --------------------------
(***************************************************************************)
(* The merge numbers exactly the documents it keeps, in their order, and   *)
(* the document found under a new number is the one that was collected,    *)
(* for any number of segments and documents and any set of fields.         *)
(***************************************************************************)
EXTENDS MergeDocs, FiniteSetTheorems, SequenceTheorems, WellFoundedInduction,
        TLAPS

-----------------------------------------------------------------------------
(* Numbers and recursion.                                                  *)

LEMMA LeastExists ==
  ASSUME NEW S \in SUBSET Nat, S # {}
  PROVE  \E x \in S : \A y \in S : x <= y
<1>1. PICK x \in S : \A y \in S : ~ (<<y, x>> \in OpToRel(<, Nat))
  BY NatLessThanWellFounded, WFMin
<1>2. \A y \in S : x <= y
  <2> SUFFICES ASSUME NEW y \in S, ~ (x <= y) PROVE FALSE
    OBVIOUS
  <2>1. <<y, x>> \in Nat \X Nat /\ y < x
    OBVIOUS
  <2> QED  BY <1>1, <2>1 DEF OpToRel
<1> QED  BY <1>2

\* f is given for 0..N by its first value and a step.
Recursive(f, N, X, c, step) ==
  /\ f \in [0..N -> X]
  /\ f[0] = c
  /\ \A s \in 1..N : f[s] = step[s][f[s - 1]]

\* Such a function exists.  A shortest segment
\* on which none did would be one longer than a segment with one.
LEMMA RecursionExists ==
  ASSUME NEW N \in Nat, NEW X, NEW c \in X, NEW step \in [1..N -> [X -> X]]
  PROVE  \E f : Recursive(f, N, X, c, step)
<1> USE DEF Recursive
<1> DEFINE Upto(n, f) == Recursive(f, n, X, c, step)
           Without    == {n \in 0..N : \A f \in [0..n -> X] : ~ Upto(n, f)}
<1>1. SUFFICES ASSUME Without # {} PROVE FALSE
  <2>1. N \notin Without
    BY <1>1
  <2> QED  BY <2>1
<1>2. PICK m \in Without : \A n \in Without : m <= n
  <2>1. Without \in SUBSET Nat
    OBVIOUS
  <2> QED  BY <1>1, <2>1, LeastExists
<1>3. m \in 0..N
  OBVIOUS
<1>4. m # 0
  <2> SUFFICES ASSUME m = 0 PROVE FALSE
    OBVIOUS
  <2>1. Upto(0, [n \in 0..0 |-> c])
    OBVIOUS
  <2> QED  BY <2>1, <1>2
<1>5. PICK f \in [0..(m - 1) -> X] : Upto(m - 1, f)
  <2>1. m - 1 \in 0..N /\ ~ (m <= m - 1)
    BY <1>3, <1>4
  <2>2. m - 1 \notin Without
    <3> HIDE DEF Without
    <3> QED  BY <1>2, <2>1
  <2> QED  BY <2>1, <2>2
<1> DEFINE g == [n \in 0..m |-> IF n = m THEN step[m][f[m - 1]] ELSE f[n]]
<1>6. g \in [0..m -> X]
  <2>1. m \in 1..N /\ m - 1 \in 0..(m - 1) /\ f[m - 1] \in X
    BY <1>3, <1>4, <1>5
  <2>2. step[m][f[m - 1]] \in X
    BY <2>1
  <2>3. \A n \in 0..m : n # m => f[n] \in X
    BY <1>3, <1>4, <1>5
  <2> QED  BY <2>2, <2>3
<1>7. Upto(m, g)
  <2>1. g[0] = c
    BY <1>3, <1>4, <1>5
  <2>2. ASSUME NEW s \in 1..m PROVE g[s] = step[s][g[s - 1]]
    <3>1. s - 1 \in 0..m /\ s - 1 # m /\ g[s - 1] = f[s - 1]
      BY <1>3
    <3>2. s # m => f[s] = step[s][f[s - 1]]
      BY <1>3, <1>5
    <3>3. g[s] = IF s = m THEN step[m][f[m - 1]] ELSE f[s]
      BY <1>3
    <3> QED  BY <3>1, <3>2, <3>3
  <2> QED  BY <1>6, <2>1, <2>2
<1> QED  BY <1>2, <1>6, <1>7

\* A subset that misses a member is smaller.
LEMMA SmallerSet ==
  ASSUME NEW S, IsFiniteSet(S), NEW T, \A k \in T : k \in S,
         NEW x \in S, x \notin T
  PROVE  /\ IsFiniteSet(T) /\ Cardinality(T) \in Nat /\ Cardinality(S) \in Nat
         /\ Cardinality(T) < Cardinality(S)
<1>1. T \in SUBSET S
  OBVIOUS
<1>2. /\ IsFiniteSet(T) /\ Cardinality(T) <= Cardinality(S)
      /\ Cardinality(S) = Cardinality(T) => S = T
  BY <1>1, FS_Subset
<1>3. Cardinality(T) \in Nat /\ Cardinality(S) \in Nat
  BY <1>2, FS_CardinalityType
<1>4. S # T
  OBVIOUS
<1> QED  BY <1>2, <1>3, <1>4

-----------------------------------------------------------------------------
(* The ID of a field tells which field it is.                              *)

LEMMA FieldIDType ==
  ASSUME NEW F \in SUBSET Nat, IsFiniteSet(F), NEW f
  PROVE  IsFiniteSet({g \in F : g < f}) /\ FieldID(F, f) \in Nat
<1>1. {g \in F : g < f} \in SUBSET F
  OBVIOUS
<1>2. IsFiniteSet({g \in F : g < f})
  BY <1>1, FS_Subset
<1> QED  BY <1>2, FS_CardinalityType DEF FieldID

LEMMA FieldIDGrows ==
  ASSUME NEW F \in SUBSET Nat, IsFiniteSet(F), NEW f \in F, NEW g \in F, f < g
  PROVE  FieldID(F, f) < FieldID(F, g)
<1>1. f \in Nat /\ g \in Nat /\ \A h \in F : h \in Nat
  OBVIOUS
<1>2. /\ \A h \in {h \in F : h < f} : h \in {k \in F : k < g}
      /\ f \in {k \in F : k < g} /\ f \notin {h \in F : h < f}
  BY <1>1
<1>3. IsFiniteSet({k \in F : k < g})
  BY FieldIDType
<1> QED  BY <1>2, <1>3, SmallerSet DEF FieldID

LEMMA FieldOfID ==
  ASSUME NEW F \in SUBSET Nat, IsFiniteSet(F), NEW f \in F
  PROVE  FieldOf(F, FieldID(F, f)) = f
<1>1. ASSUME NEW g \in F, FieldID(F, g) = FieldID(F, f) PROVE g = f
  <2>1. f \in Nat /\ g \in Nat
    OBVIOUS
  <2>2. CASE f < g
    <3>1. FieldID(F, f) < FieldID(F, g) /\ FieldID(F, f) \in Nat
      BY <2>2, FieldIDGrows, FieldIDType
    <3> QED  BY <1>1, <3>1
  <2>3. CASE g < f
    <3>1. FieldID(F, g) < FieldID(F, f) /\ FieldID(F, f) \in Nat
      BY <2>3, FieldIDGrows, FieldIDType
    <3> QED  BY <1>1, <3>1
  <2> QED  BY <2>1, <2>2, <2>3
<1> QED  BY <1>1 DEF FieldOf

-----------------------------------------------------------------------------
(* How many documents are kept.                                            *)

Inputs == [Segs -> {s \in Segment : WellFormed(s)}]

\* The loop of computeNewDocCount: the documents kept of the first s segments.
UpTo(S) ==
  CHOOSE upTo : upTo = [s \in 0..NumSegs |->
    IF s = 0 THEN 0 ELSE upTo[s - 1] + S[s].numDocs - Cardinality(S[s].drops)]

LEMMA NewDocCountIs == NewDocCount = UpTo(segs)[NumSegs]
BY DEF NewDocCount, UpTo

\* The documents below n that a segment keeps.
Live(S, s, n) == {d \in 0..(n - 1) : d \notin S[s].drops}

LEMMA Sizes == NumSegs \in Nat /\ MaxDocs \in Nat /\ Segs = 1..NumSegs
BY MergeAssumption DEF Segs

LEMMA InputsAre ==
  ASSUME NEW S \in Inputs, NEW s \in Segs
  PROVE  S[s] \in Segment /\ WellFormed(S[s])
BY DEF Inputs

LEMMA NumDocsIs ==
  ASSUME NEW S \in Inputs, NEW s \in Segs
  PROVE  S[s].numDocs \in Nat /\ S[s].numDocs <= MaxDocs
<1>1. S[s].numDocs \in 0..MaxDocs
  BY InputsAre DEF Segment
<1> QED  BY <1>1, Sizes

LEMMA DropsAre ==
  ASSUME NEW S \in Inputs, NEW s \in Segs
  PROVE  S[s].drops \subseteq 0..(S[s].numDocs - 1)
BY InputsAre DEF WellFormed

LEMMA FieldsAre ==
  ASSUME NEW S \in Inputs, NEW s \in Segs
  PROVE  /\ S[s].fields \in SUBSET Fields /\ 0 \in S[s].fields
         /\ \A d \in DocNums : S[s].docs[d] \in SUBSET S[s].fields
<1>1. S[s].fields \in SUBSET Fields /\ 0 \in S[s].fields
  BY InputsAre DEF Segment
<1>2. ASSUME NEW d \in DocNums PROVE S[s].docs[d] \in SUBSET S[s].fields
  <2>1. S[s].docs[d] \subseteq IF d < S[s].numDocs THEN S[s].fields ELSE {0}
    BY InputsAre DEF WellFormed
  <2> QED  BY <1>1, <2>1
<1> QED  BY <1>1, <1>2

LEMMA LiveCount ==
  ASSUME NEW S \in Inputs, NEW s \in Segs, NEW n \in 0..S[s].numDocs
  PROVE  /\ IsFiniteSet(Live(S, s, n)) /\ Cardinality(Live(S, s, n)) \in Nat
         /\ Cardinality(Live(S, s, 0)) = 0
         /\ n = S[s].numDocs =>
              Cardinality(Live(S, s, n)) = n - Cardinality(S[s].drops)
         /\ Cardinality(S[s].drops) \in Nat
         /\ Cardinality(Live(S, s, n + 1)) =
              Cardinality(Live(S, s, n)) + IF n \in S[s].drops THEN 0 ELSE 1
<1>1. n \in Nat /\ S[s].numDocs \in Nat /\ S[s].drops \subseteq 0..(S[s].numDocs - 1)
  BY NumDocsIs, DropsAre
<1>2. IsFiniteSet(0..(n - 1)) /\ Cardinality(0..(n - 1)) = n
  <2>1. 0 \in Int /\ n - 1 \in Int
    BY <1>1
  <2>2. /\ IsFiniteSet(0..(n - 1))
        /\ Cardinality(0..(n - 1)) = IF 0 > n - 1 THEN 0 ELSE n - 1 - 0 + 1
    BY <2>1, FS_Interval
  <2> QED  BY <1>1, <2>2
<1>3. Live(S, s, n) \in SUBSET (0..(n - 1))
  BY DEF Live
<1>4. IsFiniteSet(Live(S, s, n)) /\ Cardinality(Live(S, s, n)) \in Nat
  BY <1>2, <1>3, FS_Subset, FS_CardinalityType
<1>5. Live(S, s, 0) = {}
  BY DEF Live
<1>6. ASSUME n = S[s].numDocs
      PROVE  /\ Cardinality(Live(S, s, n)) = n - Cardinality(S[s].drops)
             /\ Cardinality(S[s].drops) \in Nat
  <2>1. /\ Live(S, s, n) = (0..(n - 1)) \ S[s].drops
        /\ (0..(n - 1)) \cap S[s].drops = S[s].drops
    BY <1>1, <1>6 DEF Live
  <2>2. IsFiniteSet(S[s].drops) /\ Cardinality(S[s].drops) \in Nat
    BY <1>1, <1>2, <1>6, FS_Subset, FS_CardinalityType
  <2>3. Cardinality((0..(n - 1)) \ S[s].drops)
          = Cardinality(0..(n - 1)) - Cardinality((0..(n - 1)) \cap S[s].drops)
    BY <1>2, FS_Difference
  <2> QED  BY <1>2, <2>1, <2>2, <2>3
<1>7. Cardinality(S[s].drops) \in Nat
  <2>1. IsFiniteSet(0..(S[s].numDocs - 1))
    BY <1>1, FS_Interval
  <2> QED  BY <1>1, <2>1, FS_Subset, FS_CardinalityType
<1>8. Cardinality(Live(S, s, n + 1)) =
        Cardinality(Live(S, s, n)) + IF n \in S[s].drops THEN 0 ELSE 1
  <2>1. Live(S, s, n + 1) = IF n \in S[s].drops THEN Live(S, s, n)
                            ELSE Live(S, s, n) \cup {n}
    BY <1>1 DEF Live
  <2>2. n \notin Live(S, s, n)
    BY <1>1 DEF Live
  <2>3. Cardinality(Live(S, s, n) \cup {n}) = Cardinality(Live(S, s, n)) + 1
    BY <1>4, <2>2, FS_AddElement
  <2>4. CASE n \in S[s].drops
    BY <1>4, <2>1, <2>4
  <2>5. CASE n \notin S[s].drops
    BY <2>1, <2>3, <2>5
  <2> QED  BY <2>4, <2>5
<1> QED  BY <1>4, <1>5, <1>6, <1>7, <1>8, FS_EmptySet

\* A document that is kept is not among those kept before it, so there are
\* fewer of these than the segment keeps.
LEMMA LiveBelow ==
  ASSUME NEW S \in Inputs, NEW s \in Segs, NEW n \in 0..S[s].numDocs,
         n < S[s].numDocs, n \notin S[s].drops
  PROVE  Cardinality(Live(S, s, n)) < Cardinality(Live(S, s, S[s].numDocs))
<1>1. n \in Nat /\ S[s].numDocs \in 0..S[s].numDocs
  BY NumDocsIs, DropsAre
<1>2. /\ \A d \in Live(S, s, n) : d \in Live(S, s, S[s].numDocs)
      /\ n \in Live(S, s, S[s].numDocs) /\ n \notin Live(S, s, n)
  BY <1>1 DEF Live
<1>3. IsFiniteSet(Live(S, s, S[s].numDocs))
  BY <1>1, LiveCount
<1> QED  BY <1>2, <1>3, SmallerSet

LEMMA UpToIs ==
  ASSUME NEW S \in Inputs
  PROVE  /\ UpTo(S) \in [0..NumSegs -> Nat]
         /\ UpTo(S)[0] = 0
         /\ \A s \in Segs : UpTo(S)[s] =
              UpTo(S)[s - 1] + Cardinality(Live(S, s, S[s].numDocs))
<1> DEFINE live(s) == Cardinality(Live(S, s, S[s].numDocs))
           step    == [s \in 1..NumSegs |-> [n \in Nat |-> n + live(s)]]
<1>1. ASSUME NEW s \in Segs
      PROVE  live(s) \in Nat /\ live(s) = S[s].numDocs - Cardinality(S[s].drops)
             /\ S[s].numDocs \in Nat /\ Cardinality(S[s].drops) \in Nat
  <2>1. S[s].numDocs \in 0..S[s].numDocs /\ S[s].numDocs \in Nat
    BY NumDocsIs, DropsAre
  <2> QED  BY <2>1, LiveCount
<1> HIDE DEF live
<1>2. step \in [1..NumSegs -> [Nat -> Nat]]
  BY <1>1, Sizes
<1>3. PICK f \in [0..NumSegs -> Nat] :
        /\ f[0] = 0
        /\ \A s \in 1..NumSegs : f[s] = step[s][f[s - 1]]
  <2>1. 0 \in Nat /\ NumSegs \in Nat
    BY Sizes
  <2> HIDE DEF step
  <2>2. \E f : Recursive(f, NumSegs, Nat, 0, step)
    BY <1>2, <2>1, RecursionExists
  <2> QED  BY <2>2 DEF Recursive
<1>4. ASSUME NEW s \in Segs
      PROVE  f[s] = f[s - 1] + live(s) /\ f[s - 1] \in Nat
  <2>1. s \in 1..NumSegs /\ s - 1 \in 0..NumSegs
    BY Sizes
  <2> QED  BY <1>3, <2>1
<1>5. f = [s \in 0..NumSegs |->
       IF s = 0 THEN 0 ELSE f[s - 1] + S[s].numDocs - Cardinality(S[s].drops)]
  <2>1. ASSUME NEW s \in 0..NumSegs, s # 0
        PROVE  f[s] = f[s - 1] + S[s].numDocs - Cardinality(S[s].drops)
    <3>1. s \in Segs
      BY <2>1, Sizes
    <3> QED  BY <1>1, <1>4, <3>1
  <2> QED  BY <1>3, <2>1
<1>6. UpTo(S) = [s \in 0..NumSegs |->
       IF s = 0 THEN 0 ELSE UpTo(S)[s - 1] + S[s].numDocs - Cardinality(S[s].drops)]
  BY <1>5 DEF UpTo
<1> DEFINE Differ == {s \in 0..NumSegs : UpTo(S)[s] # f[s]}
<1>7. Differ = {}
  <2> SUFFICES ASSUME Differ # {} PROVE FALSE
    OBVIOUS
  <2>1. PICK m \in Differ : \A s \in Differ : m <= s
    <3>1. Differ \in SUBSET Nat
      OBVIOUS
    <3> HIDE DEF Differ
    <3> QED  BY <3>1, LeastExists
  <2>2. m \in 0..NumSegs /\ UpTo(S)[m] # f[m]
    OBVIOUS
  <2>3. m # 0
    BY <1>3, <1>6, <2>2
  <2>4. m \in Segs /\ m - 1 \in 0..NumSegs /\ ~ (m <= m - 1)
    BY <2>2, <2>3, Sizes
  <2>5. m - 1 \notin Differ
    <3> HIDE DEF Differ
    <3> QED  BY <2>1, <2>4
  <2>6. UpTo(S)[m] = UpTo(S)[m - 1] + S[m].numDocs - Cardinality(S[m].drops)
    BY <1>6, <2>2, <2>3
  <2>7. UpTo(S)[m - 1] = f[m - 1]
    BY <2>4, <2>5
  <2> QED  BY <1>1, <1>4, <2>2, <2>4, <2>6, <2>7
<1>8. UpTo(S) = f
  <2>1. \A s \in 0..NumSegs : UpTo(S)[s] = f[s]
    BY <1>7
  <2>2. UpTo(S) = [s \in 0..NumSegs |-> UpTo(S)[s]]
    BY <1>6
  <2> QED  BY <1>3, <2>1, <2>2
<1> QED  BY <1>3, <1>4, <1>8 DEF live

\* The count only grows from one segment to the next.
LEMMA UpToGrows ==
  ASSUME NEW S \in Inputs, NEW s \in 0..NumSegs
  PROVE  UpTo(S)[s] <= UpTo(S)[NumSegs]
<1> DEFINE Beyond == {k \in 0..NumSegs : ~ (UpTo(S)[NumSegs - k] <= UpTo(S)[NumSegs])}
<1>1. /\ \A k \in 0..NumSegs : UpTo(S)[k] \in Nat
      /\ \A k \in 1..NumSegs : UpTo(S)[k - 1] <= UpTo(S)[k]
  <2>1. \A k \in 0..NumSegs : UpTo(S)[k] \in Nat
    BY UpToIs
  <2>2. ASSUME NEW k \in 1..NumSegs PROVE UpTo(S)[k - 1] <= UpTo(S)[k]
    <3>1. k \in Segs /\ k - 1 \in 0..NumSegs /\ k \in 0..NumSegs
      BY Sizes
    <3>2. S[k].numDocs \in 0..S[k].numDocs
      BY <3>1, NumDocsIs
    <3>3. Cardinality(Live(S, k, S[k].numDocs)) \in Nat
      BY <3>1, <3>2, LiveCount
    <3>4. UpTo(S)[k] = UpTo(S)[k - 1] + Cardinality(Live(S, k, S[k].numDocs))
      BY <3>1, UpToIs
    <3> QED  BY <2>1, <3>1, <3>3, <3>4
  <2> QED  BY <2>1, <2>2
<1>2. Beyond = {}
  <2> SUFFICES ASSUME Beyond # {} PROVE FALSE
    OBVIOUS
  <2>1. PICK m \in Beyond : \A k \in Beyond : m <= k
    <3>1. Beyond \in SUBSET Nat
      OBVIOUS
    <3> HIDE DEF Beyond
    <3> QED  BY <3>1, LeastExists
  <2>2. m \in 0..NumSegs /\ ~ (UpTo(S)[NumSegs - m] <= UpTo(S)[NumSegs])
    OBVIOUS
  <2>3. NumSegs \in Nat
    BY Sizes
  <2>4. m # 0
    <3>1. UpTo(S)[NumSegs] \in Nat
      BY <1>1, <2>3
    <3> QED  BY <2>2, <2>3, <3>1
  <2>5. m - 1 \in 0..NumSegs /\ ~ (m <= m - 1) /\ NumSegs - m \in 0..NumSegs
        /\ NumSegs - (m - 1) \in 1..NumSegs
        /\ NumSegs - (m - 1) - 1 = NumSegs - m
    BY <2>2, <2>3, <2>4
  <2>6. m - 1 \notin Beyond
    <3> HIDE DEF Beyond
    <3> QED  BY <2>1, <2>5
  <2>7. UpTo(S)[NumSegs - (m - 1)] <= UpTo(S)[NumSegs]
    BY <2>5, <2>6
  <2>8. UpTo(S)[NumSegs - m] <= UpTo(S)[NumSegs - (m - 1)]
    BY <1>1, <2>5
  <2>9. /\ UpTo(S)[NumSegs - m] \in Nat /\ UpTo(S)[NumSegs] \in Nat
        /\ UpTo(S)[NumSegs - (m - 1)] \in Nat
    <3>1. NumSegs - (m - 1) \in 0..NumSegs /\ NumSegs \in 0..NumSegs
      BY <2>3, <2>5
    <3> QED  BY <1>1, <2>5, <3>1
  <2> QED  BY <2>2, <2>7, <2>8, <2>9
<1>3. NumSegs - s \in 0..NumSegs /\ NumSegs - (NumSegs - s) = s
  BY Sizes
<1> QED  BY <1>2, <1>3

-----------------------------------------------------------------------------
(* The invariant.                                                          *)

\* The segment keeps document d.
Keeps(s, d) == d < segs[s].numDocs /\ d \notin segs[s].drops

\* The merge has passed document d of segment s.
Passed(s, d) == s < segI \/ (s = segI /\ pc = "doc" /\ d < docNum)

MergedDocs == {MergedDoc(s, d) : s \in Segs, d \in DocNums}

MergeTypes ==
  /\ segs \in Inputs
  /\ pc \in {"open", "plan", "segment", "doc", "sections", "finish", "done"}
  /\ segI \in Nat /\ docNum \in Nat /\ newDocNum \in Nat
  /\ remap \in [Segs -> [DocNums -> Nat \cup {Dropped, Unset}]]
  /\ result = "none" <=> pc # "done"

\* The numbers given so far are 0..newDocNum - 1, to kept documents in order.
Numbering ==
  /\ \A s \in Segs, d \in DocNums :
       /\ remap[s][d] \in Nat => Keeps(s, d) /\ remap[s][d] < newDocNum
       /\ remap[s][d] = Dropped => d \in segs[s].drops
  /\ \A s, t \in Segs, d, e \in DocNums :
       /\ remap[s][d] \in Nat /\ remap[t][e] \in Nat
       /\ s < t \/ (s = t /\ d < e)
       => remap[s][d] < remap[t][e]
  /\ \A n \in 0..(newDocNum - 1) : \E s \in Segs, d \in DocNums : remap[s][d] = n

\* Exactly the documents that were passed have one, and as many as the count
\* of computeNewDocCount is at this place.
Progress ==
  /\ \A s \in Segs, d \in DocNums :
       /\ ~Passed(s, d) => remap[s][d] = Unset
       /\ Passed(s, d) /\ Keeps(s, d) => remap[s][d] \in Nat
  /\ pc \in {"open", "plan"} => segI = 1 /\ newDocNum = 0
  /\ pc = "segment" =>
       segI \in 1..(NumSegs + 1) /\ newDocNum = UpTo(segs)[segI - 1]
  /\ pc = "doc" =>
       /\ segI \in Segs /\ docNum \in 0..segs[segI].numDocs
       /\ newDocNum = UpTo(segs)[segI - 1] + Cardinality(Live(segs, segI, docNum))
  /\ pc \in {"sections", "finish"} =>
       /\ newDocNum = NewDocCount
       /\ NewDocCount > 0 => segI > NumSegs

\* What is written, and where the stored index says it is.
Written ==
  /\ out \in Seq(MergedDocs) /\ Len(out) = newDocNum
  /\ pc \in {"segment", "doc"} => offsets \in [1..NewDocCount -> Nat]
  /\ \A n \in 0..(newDocNum - 1) : offsets[n + 1] = n
  /\ \A s \in Segs, d \in DocNums :
       remap[s][d] \in Nat => out[remap[s][d] + 1] = MergedDoc(s, d)

\* A successful merge has numbered what it keeps.
Completed ==
  result = "ok" =>
    /\ newDocNum = NewDocCount
    /\ NewDocCount > 0 =>
         \A s \in Segs, d \in DocNums : Keeps(s, d) => remap[s][d] \in Nat

MergeInv ==
  /\ MergeTypes /\ Numbering /\ Written /\ Completed
  /\ pc # "done" => Progress

\* What the merge reads of the segments stays as it is.
LEMMA SegsFrame ==
  ASSUME segs' = segs
  PROVE  /\ NewDocCount' = NewDocCount /\ UpTo(segs)' = UpTo(segs)
         /\ MergedDocs' = MergedDocs
         /\ \A s \in Segs, d \in DocNums :
              Keeps(s, d)' = Keeps(s, d) /\ MergedDoc(s, d)' = MergedDoc(s, d)
<1>1. \A f : MergedInfo(f)' = MergedInfo(f)
  BY DEF MergedInfo
<1>2. \A f : IsDeleted(f)' = IsDeleted(f) /\ IsUnstored(f)' = IsUnstored(f)
  BY <1>1 DEF IsDeleted, IsUnstored
<1>3. NewFields' = NewFields
  BY <1>2 DEF NewFields, AllFields
<1>4. \A s, d : Collected(s, d)' = Collected(s, d)
  BY <1>2, <1>3 DEF Collected
<1>5. \A s, d : MergedDoc(s, d)' = MergedDoc(s, d)
  BY <1>3, <1>4 DEF MergedDoc
<1>6. MergedDocs' = MergedDocs
  BY <1>5 DEF MergedDocs
<1>7. NewDocCount' = NewDocCount /\ UpTo(segs)' = UpTo(segs)
  BY DEF NewDocCount, UpTo
<1> QED  BY <1>5, <1>6, <1>7 DEF Keeps

\* A segment that is copied has every document as the merge would write it.
LEMMA CopiedSame ==
  ASSUME segs \in Inputs, NEW s \in Segs, Copyable(s), NEW d \in DocNums
  PROVE  StoredDoc(s, d) = MergedDoc(s, d)
<1>1. \A f : ~IsDeleted(f) /\ ~IsUnstored(f)
  BY DEF Copyable, NoUpdates, IsDeleted, IsUnstored
<1>2. NewFields = segs[s].fields
  <2>1. 0 \in segs[s].fields
    BY FieldsAre
  <2>2. \A t \in Segs : segs[t].fields = segs[s].fields
    BY DEF Copyable, FieldsSame
  <2>3. AllFields = segs[s].fields
    BY <2>1, <2>2 DEF AllFields
  <2> QED  BY <1>1, <2>3 DEF NewFields
<1>3. Collected(s, d) = segs[s].docs[d]
  <2>1. segs[s].docs[d] \in SUBSET segs[s].fields
    BY FieldsAre
  <2> QED  BY <1>1, <1>2, <2>1 DEF Collected
<1> QED  BY <1>2, <1>3 DEF StoredDoc, MergedDoc

LEMMA InitInv == Init => MergeInv
<1> SUFFICES ASSUME Init PROVE MergeInv
  OBVIOUS
<1> USE DEF Init
<1>1. MergeTypes
  BY DEF MergeTypes, Inputs
<1>2. \A s \in Segs, d \in DocNums : remap[s][d] = Unset
  OBVIOUS
<1>3. Numbering
  BY <1>2, MergeAssumption DEF Numbering
<1>4. Written
  BY <1>2, MergeAssumption DEF Written
<1>5. Progress
  <2>1. \A s \in Segs, d \in DocNums : ~Passed(s, d)
    BY Sizes DEF Passed
  <2> QED  BY <1>2, <2>1 DEF Progress
<1> QED  BY <1>1, <1>3, <1>4, <1>5 DEF MergeInv, Completed

\* Numbers, documents and offsets stay the same.
LEMMA IdleStep ==
  ASSUME MergeInv, UNCHANGED <<segs, newDocNum, remap, offsets, out>>,
         pc' \in {"segment", "doc"} => pc \in {"segment", "doc"}
  PROVE  Numbering' /\ Written' /\ segs' \in Inputs
<1> USE DEF MergeInv
<1>1. segs' \in Inputs
  BY DEF MergeTypes
<1>2. Numbering'
  BY SegsFrame DEF Numbering
<1>3. Written'
  BY SegsFrame DEF Written
<1> QED  BY <1>1, <1>2, <1>3

\* The document a segment is at.
LEMMA AtDoc ==
  ASSUME MergeInv, pc = "doc", docNum < segs[segI].numDocs
  PROVE  /\ segI \in Segs /\ docNum \in DocNums /\ docNum \in Nat
         /\ docNum \in 0..segs[segI].numDocs
         /\ remap[segI][docNum] = Unset
<1>1. segI \in Segs /\ docNum \in 0..segs[segI].numDocs /\ docNum \in Nat
  BY DEF MergeInv, Progress, MergeTypes
<1>2. docNum \in DocNums
  BY <1>1, NumDocsIs, Sizes DEF DocNums, MergeInv, MergeTypes
<1>3. ~Passed(segI, docNum)
  BY <1>1, Sizes DEF Passed
<1> QED  BY <1>1, <1>2, <1>3 DEF MergeInv, Progress

LEMMA DropStep == MergeInv /\ DropDoc => MergeInv'
<1> SUFFICES ASSUME MergeInv, DropDoc PROVE MergeInv'
  OBVIOUS
<1> USE DEF DropDoc
<1>1. /\ segI \in Segs /\ docNum \in DocNums /\ docNum \in Nat
      /\ docNum \in 0..segs[segI].numDocs
      /\ remap[segI][docNum] = Unset
  BY AtDoc
<1>2. Unset \notin Nat /\ Dropped \notin Nat /\ Unset # Dropped
  BY MergeAssumption
<1>3. \A s \in Segs, d \in DocNums :
        remap'[s][d] = IF s = segI /\ d = docNum THEN Dropped ELSE remap[s][d]
  BY <1>1 DEF MergeInv, MergeTypes
<1>4. MergeTypes'
  BY <1>1 DEF MergeInv, MergeTypes
<1>5. Numbering'
  <2>1. \A s \in Segs, d \in DocNums : remap'[s][d] \in Nat <=> remap[s][d] \in Nat
    BY <1>1, <1>2, <1>3
  <2>2. \A s \in Segs, d \in DocNums : remap'[s][d] \in Nat => remap'[s][d] = remap[s][d]
    BY <1>2, <1>3
  <2>3. \A s \in Segs, d \in DocNums : remap'[s][d] = Dropped => d \in segs'[s].drops
    BY <1>3 DEF MergeInv, Numbering
  <2>4. \A n \in 0..(newDocNum' - 1) :
          \E s \in Segs, d \in DocNums : remap'[s][d] = n
    BY <1>1, <1>2, <1>3 DEF MergeInv, MergeTypes, Numbering
  <2>5. \A s \in Segs, d \in DocNums :
          remap'[s][d] \in Nat => Keeps(s, d)' /\ remap'[s][d] < newDocNum'
    BY <2>1, <2>2, SegsFrame DEF MergeInv, Numbering
  <2>6. \A s, t \in Segs, d, e \in DocNums :
          /\ remap'[s][d] \in Nat /\ remap'[t][e] \in Nat
          /\ s < t \/ (s = t /\ d < e)
          => remap'[s][d] < remap'[t][e]
    BY <2>1, <2>2 DEF MergeInv, Numbering
  <2> QED  BY <2>3, <2>4, <2>5, <2>6 DEF Numbering
<1>6. Written'
  BY <1>2, <1>3, SegsFrame DEF MergeInv, Written
<1>7. Progress'
  <2>1. ASSUME NEW s \in Segs, NEW d \in DocNums
        PROVE  Passed(s, d)' <=> Passed(s, d) \/ (s = segI /\ d = docNum)
    BY <1>1, Sizes DEF Passed, DocNums
  <2>2. ASSUME NEW s \in Segs, NEW d \in DocNums
        PROVE  /\ ~Passed(s, d)' => remap'[s][d] = Unset
               /\ Passed(s, d)' /\ Keeps(s, d)' => remap'[s][d] \in Nat
    BY <2>1, <1>3, SegsFrame DEF MergeInv, Progress, Keeps
  <2>3. Cardinality(Live(segs, segI, docNum + 1)) = Cardinality(Live(segs, segI, docNum))
    BY <1>1, LiveCount DEF MergeInv, MergeTypes
  <2>4. docNum + 1 \in 0..segs[segI].numDocs
    BY <1>1, NumDocsIs DEF MergeInv, MergeTypes
  <2> QED  BY <1>1, <2>2, <2>3, <2>4 DEF MergeInv, Progress
<1> QED  BY <1>4, <1>5, <1>6, <1>7 DEF MergeInv, Completed, MergeTypes

\* There is room for the number of a document that is kept.
LEMMA RoomForDoc ==
  ASSUME MergeInv, pc = "doc", docNum < segs[segI].numDocs,
         docNum \notin segs[segI].drops
  PROVE  newDocNum < NewDocCount /\ NewDocCount \in Nat
<1>1. /\ segI \in Segs /\ docNum \in 0..segs[segI].numDocs
      /\ segs \in Inputs /\ newDocNum \in Nat
      /\ newDocNum = UpTo(segs)[segI - 1] + Cardinality(Live(segs, segI, docNum))
  BY AtDoc DEF MergeInv, Progress, MergeTypes
<1>2. Cardinality(Live(segs, segI, docNum))
        < Cardinality(Live(segs, segI, segs[segI].numDocs))
  BY <1>1, LiveBelow
<1>3. segs[segI].numDocs \in 0..segs[segI].numDocs
  BY <1>1, NumDocsIs
<1>4. /\ Cardinality(Live(segs, segI, docNum)) \in Nat
      /\ Cardinality(Live(segs, segI, segs[segI].numDocs)) \in Nat
  BY <1>1, <1>3, LiveCount
<1>5. /\ segI \in 0..NumSegs /\ segI - 1 \in 0..NumSegs /\ NumSegs \in 0..NumSegs
      /\ UpTo(segs) \in [0..NumSegs -> Nat]
      /\ UpTo(segs)[segI] = UpTo(segs)[segI - 1]
           + Cardinality(Live(segs, segI, segs[segI].numDocs))
  BY <1>1, Sizes, UpToIs
<1>6. UpTo(segs)[segI] <= NewDocCount
  BY <1>1, <1>5, UpToGrows, NewDocCountIs
<1> HIDE DEF NewDocCount
<1>7. /\ UpTo(segs)[segI] \in Nat /\ UpTo(segs)[segI - 1] \in Nat
      /\ NewDocCount \in Nat
  BY <1>5, NewDocCountIs
<1> QED  BY <1>1, <1>2, <1>4, <1>5, <1>6, <1>7

LEMMA WriteStep == MergeInv /\ WriteDoc => MergeInv'
<1> SUFFICES ASSUME MergeInv, WriteDoc PROVE MergeInv'
  OBVIOUS
<1> USE DEF WriteDoc
<1>1. /\ segI \in Segs /\ docNum \in DocNums /\ docNum \in Nat
      /\ docNum \in 0..segs[segI].numDocs
      /\ remap[segI][docNum] = Unset
      /\ newDocNum \in Nat /\ newDocNum < NewDocCount /\ NewDocCount \in Nat
  BY AtDoc, RoomForDoc DEF MergeInv, MergeTypes
<1>2. Unset \notin Nat /\ Dropped \notin Nat /\ Unset # Dropped
  BY MergeAssumption
<1>3. \A s \in Segs, d \in DocNums :
        remap'[s][d] = IF s = segI /\ d = docNum THEN newDocNum ELSE remap[s][d]
  BY <1>1 DEF MergeInv, MergeTypes
<1>4. MergeTypes'
  BY <1>1 DEF MergeInv, MergeTypes
<1>5. ASSUME NEW s \in Segs, NEW d \in DocNums
      PROVE  Passed(s, d)' <=> Passed(s, d) \/ (s = segI /\ d = docNum)
  BY <1>1, Sizes DEF Passed, DocNums
\* The documents with a number were passed, so they come before this one.
<1>6. ASSUME NEW s \in Segs, NEW d \in DocNums, remap[s][d] \in Nat
      PROVE  /\ s < segI \/ (s = segI /\ d < docNum)
             /\ remap[s][d] < newDocNum
             /\ remap'[s][d] = remap[s][d]
  <2>1. Passed(s, d)
    BY <1>2, <1>6 DEF MergeInv, Progress
  <2> QED  BY <1>1, <1>2, <1>3, <1>6, <2>1 DEF Passed, MergeInv, Numbering
<1>7. Numbering'
  <2>1. ASSUME NEW s \in Segs, NEW d \in DocNums
        PROVE  /\ remap'[s][d] \in Nat =>
                    Keeps(s, d)' /\ remap'[s][d] < newDocNum'
               /\ remap'[s][d] = Dropped => d \in segs'[s].drops
    <3>1. CASE s = segI /\ d = docNum
      BY <1>1, <1>2, <1>3, <3>1, SegsFrame DEF Keeps
    <3>2. CASE ~(s = segI /\ d = docNum)
      BY <1>1, <1>3, <1>6, <3>2, SegsFrame DEF MergeInv, Numbering
    <3> QED  BY <3>1, <3>2
  <2>2. ASSUME NEW s \in Segs, NEW t \in Segs, NEW d \in DocNums, NEW e \in DocNums,
               remap'[s][d] \in Nat, remap'[t][e] \in Nat,
               s < t \/ (s = t /\ d < e)
        PROVE  remap'[s][d] < remap'[t][e]
    <3>1. s \in Nat /\ t \in Nat /\ d \in Nat /\ e \in Nat /\ segI \in Nat
      BY <1>1, Sizes DEF DocNums
    <3>2. CASE t = segI /\ e = docNum
      <4>1. remap[s][d] \in Nat
        BY <1>3, <2>2, <3>1, <3>2
      <4> QED  BY <1>3, <1>6, <3>2, <4>1
    <3>3. CASE ~(t = segI /\ e = docNum)
      <4>1. remap[t][e] \in Nat
        BY <1>3, <2>2, <3>3
      <4>2. t < segI \/ (t = segI /\ e < docNum)
        BY <1>6, <4>1
      <4>3. ~(s = segI /\ d = docNum)
        BY <1>1, <2>2, <3>1, <4>2
      <4> QED  BY <1>3, <2>2, <3>3, <4>3 DEF MergeInv, Numbering
    <3> QED  BY <3>2, <3>3
  <2>3. ASSUME NEW n \in 0..(newDocNum' - 1)
        PROVE  \E s \in Segs, d \in DocNums : remap'[s][d] = n
    <3>1. CASE n = newDocNum
      BY <1>1, <1>3, <3>1
    <3>2. CASE n # newDocNum
      <4>1. n \in 0..(newDocNum - 1) /\ n \in Nat
        BY <1>1, <3>2
      <4>2. PICK s \in Segs, d \in DocNums : remap[s][d] = n
        BY <4>1 DEF MergeInv, Numbering
      <4> QED  BY <1>6, <4>1, <4>2
    <3> QED  BY <3>1, <3>2
  <2> QED  BY <2>1, <2>2, <2>3 DEF Numbering
<1>8. Written'
  <2>1. out \in Seq(MergedDocs) /\ Len(out) = newDocNum
    BY DEF MergeInv, Written
  <2>2. MergedDoc(segI, docNum) \in MergedDocs
    BY <1>1 DEF MergedDocs
  <2>3. /\ out' \in Seq(MergedDocs) /\ Len(out') = newDocNum + 1
        /\ \A i \in 1..newDocNum : out'[i] = out[i]
        /\ out'[newDocNum + 1] = MergedDoc(segI, docNum)
    BY <2>1, <2>2, AppendProperties
  <2>4. offsets \in [1..NewDocCount -> Nat] /\ newDocNum + 1 \in 1..NewDocCount
    BY <1>1 DEF MergeInv, Written
  <2>5. offsets' \in [1..NewDocCount -> Nat]
    BY <1>1, <2>1, <2>4
  <2>6. ASSUME NEW n \in 0..(newDocNum' - 1) PROVE offsets'[n + 1] = n
    <3>1. CASE n = newDocNum
      BY <2>1, <2>4, <3>1
    <3>2. CASE n # newDocNum
      <4>1. n \in 0..(newDocNum - 1) /\ n + 1 # newDocNum + 1
        BY <1>1, <3>2
      <4>2. offsets'[n + 1] = offsets[n + 1]
        BY <1>1, <2>4, <4>1
      <4> QED  BY <4>1, <4>2 DEF MergeInv, Written
    <3> QED  BY <3>1, <3>2
  <2>7. ASSUME NEW s \in Segs, NEW d \in DocNums, remap'[s][d] \in Nat
        PROVE  out'[remap'[s][d] + 1] = MergedDoc(s, d)'
    <3>1. CASE s = segI /\ d = docNum
      BY <1>1, <1>3, <2>3, <3>1, SegsFrame
    <3>2. CASE ~(s = segI /\ d = docNum)
      <4>1. remap'[s][d] = remap[s][d] /\ remap[s][d] \in Nat /\ remap[s][d] < newDocNum
        BY <1>3, <1>6, <2>7, <3>2
      <4>2. out'[remap[s][d] + 1] = out[remap[s][d] + 1]
        BY <1>1, <2>3, <4>1
      <4> QED  BY <4>1, <4>2, SegsFrame DEF MergeInv, Written
    <3> QED  BY <3>1, <3>2
  <2> QED  BY <1>1, <2>3, <2>5, <2>6, <2>7, SegsFrame DEF Written
<1>9. Progress'
  <2>1. ASSUME NEW s \in Segs, NEW d \in DocNums
        PROVE  /\ ~Passed(s, d)' => remap'[s][d] = Unset
               /\ Passed(s, d)' /\ Keeps(s, d)' => remap'[s][d] \in Nat
    BY <1>1, <1>3, <1>5, SegsFrame DEF MergeInv, Progress
  <2>2. Cardinality(Live(segs, segI, docNum + 1)) = Cardinality(Live(segs, segI, docNum)) + 1
    BY <1>1, LiveCount DEF MergeInv, MergeTypes
  <2>3. docNum + 1 \in 0..segs[segI].numDocs
    BY <1>1, NumDocsIs DEF MergeInv, MergeTypes
  <2>4. newDocNum + 1 = UpTo(segs)[segI - 1] + Cardinality(Live(segs, segI, docNum + 1))
    <3>1. UpTo(segs)[segI - 1] \in Nat
      BY <1>1, Sizes, UpToIs DEF MergeInv, MergeTypes
    <3>2. Cardinality(Live(segs, segI, docNum)) \in Nat
      BY <1>1, LiveCount DEF MergeInv, MergeTypes
    <3>3. newDocNum = UpTo(segs)[segI - 1] + Cardinality(Live(segs, segI, docNum))
      BY DEF MergeInv, Progress
    <3> HIDE DEF WriteDoc
    <3> QED  BY <1>1, <2>2, <3>1, <3>2, <3>3, SMT
  <2> QED  BY <1>1, <2>1, <2>3, <2>4 DEF MergeInv, Progress
<1> QED  BY <1>4, <1>7, <1>8, <1>9 DEF MergeInv, Completed, MergeTypes

LEMMA CopyStep == MergeInv /\ CopySegment => MergeInv'
<1> SUFFICES ASSUME MergeInv, CopySegment PROVE MergeInv'
  OBVIOUS
<1> USE DEF CopySegment
<1> DEFINE n == segs[segI].numDocs
<1>1. /\ segI \in Segs /\ segs \in Inputs /\ newDocNum \in Nat
      /\ newDocNum = UpTo(segs)[segI - 1]
  BY Sizes DEF MergeInv, MergeTypes, Progress
<1>2. n \in Nat /\ n <= MaxDocs /\ segs[segI].drops = {}
  BY <1>1, NumDocsIs DEF Copyable
<1>3. Unset \notin Nat /\ Dropped \notin Nat /\ Unset # Dropped
  BY MergeAssumption
<1>4. \A s \in Segs, d \in DocNums :
        remap'[s][d] = IF s = segI THEN IF d < n THEN newDocNum + d ELSE Unset
                       ELSE remap[s][d]
  BY <1>1 DEF MergeInv, MergeTypes
<1>5. \A d \in DocNums : d \in Nat
  BY DEF DocNums
<1>6. MergeTypes'
  <2>1. remap' \in [Segs -> [DocNums -> Nat \cup {Dropped, Unset}]]
    BY <1>1, <1>2, <1>5 DEF MergeInv, MergeTypes
  <2> QED  BY <1>1, <1>2, <2>1, Sizes DEF MergeInv, MergeTypes
\* The copy adds what computeNewDocCount did for this segment.
<1>count. /\ newDocNum + n = UpTo(segs)[segI]
       /\ newDocNum + n <= NewDocCount /\ NewDocCount \in Nat
  <2>1. n \in 0..n
    BY <1>2
  <2>2. Cardinality(Live(segs, segI, n)) = n - Cardinality(segs[segI].drops)
    BY <1>1, <2>1, LiveCount
  <2>3. Cardinality(Live(segs, segI, n)) = n
    BY <1>2, <2>2, FS_EmptySet
  <2>4. /\ UpTo(segs)[segI] = UpTo(segs)[segI - 1] + n
        /\ segI \in 0..NumSegs /\ NumSegs \in 0..NumSegs
        /\ UpTo(segs)[NumSegs] \in Nat
    BY <1>1, <2>3, UpToIs, Sizes
  <2>5. UpTo(segs)[segI] <= UpTo(segs)[NumSegs]
    BY <1>1, <2>4, UpToGrows
  <2> QED  BY <1>1, <2>4, <2>5, NewDocCountIs
\* The documents with a number are of earlier segments.
<1>7. ASSUME NEW s \in Segs, NEW d \in DocNums, remap[s][d] \in Nat
      PROVE  s < segI /\ remap[s][d] < newDocNum /\ remap'[s][d] = remap[s][d]
  <2>1. Passed(s, d)
    BY <1>3, <1>7 DEF MergeInv, Progress
  <2> QED  BY <1>1, <1>4, <1>7, <2>1, Sizes DEF Passed, MergeInv, Numbering
\* A number is one from before, or that of a document of this segment.
<1>8. ASSUME NEW s \in Segs, NEW d \in DocNums, remap'[s][d] \in Nat
      PROVE  \/ s < segI /\ remap[s][d] \in Nat /\ remap'[s][d] = remap[s][d]
             \/ s = segI /\ d < n /\ remap'[s][d] = newDocNum + d
  BY <1>3, <1>4, <1>7, <1>8
<1>9. newDocNum' = newDocNum + n
  OBVIOUS
<1> HIDE DEF CopySegment
<1>10. segs' = segs
  BY DEF CopySegment
<1>11. Numbering'
  <2>1. ASSUME NEW s \in Segs, NEW d \in DocNums
        PROVE  /\ remap'[s][d] \in Nat =>
                    Keeps(s, d)' /\ remap'[s][d] < newDocNum'
               /\ remap'[s][d] = Dropped => d \in segs'[s].drops
    <3>1. ASSUME remap'[s][d] \in Nat
          PROVE  Keeps(s, d)' /\ remap'[s][d] < newDocNum'
      <4>1. CASE s = segI
        <5>1. d < n /\ remap'[s][d] = newDocNum + d
          BY <1>8, <3>1, <4>1, Sizes
        <5> QED  BY <1>1, <1>2, <1>5, <1>9, <1>10, <4>1, <5>1, SegsFrame DEF Keeps
      <4>2. CASE s # segI
        <5>1. remap[s][d] \in Nat /\ remap'[s][d] = remap[s][d]
          BY <1>8, <3>1, <4>2
        <5>2. Keeps(s, d) /\ remap[s][d] < newDocNum
          BY <5>1 DEF MergeInv, Numbering
        <5> QED  BY <1>1, <1>2, <1>9, <1>10, <5>1, <5>2, SegsFrame
      <4> QED  BY <4>1, <4>2
    <3>2. ASSUME remap'[s][d] = Dropped PROVE d \in segs'[s].drops
      <4>1. s # segI /\ remap[s][d] = Dropped
        BY <1>1, <1>2, <1>3, <1>4, <1>5, <3>2
      <4> QED  BY <1>10, <4>1 DEF MergeInv, Numbering
    <3> QED  BY <3>1, <3>2
  <2>2. ASSUME NEW s \in Segs, NEW t \in Segs, NEW d \in DocNums, NEW e \in DocNums,
               remap'[s][d] \in Nat, remap'[t][e] \in Nat,
               s < t \/ (s = t /\ d < e)
        PROVE  remap'[s][d] < remap'[t][e]
    <3>1. s \in Nat /\ t \in Nat /\ d \in Nat /\ e \in Nat /\ segI \in Nat
      BY <1>1, <1>5, Sizes
    <3>2. CASE t = segI /\ s = segI
      BY <1>1, <1>8, <2>2, <3>1, <3>2
    <3>3. CASE t = segI /\ s # segI
      <4>1. remap[s][d] \in Nat /\ remap'[s][d] = remap[s][d] /\ remap[s][d] < newDocNum
        BY <1>7, <1>8, <2>2, <3>3
      <4>2. remap'[t][e] = newDocNum + e
        BY <1>8, <2>2, <3>1, <3>3
      <4> QED  BY <1>1, <3>1, <4>1, <4>2
    <3>4. CASE t # segI
      <4>1. t < segI /\ remap[t][e] \in Nat /\ remap'[t][e] = remap[t][e]
        BY <1>8, <2>2, <3>4
      <4>2. s # segI
        BY <2>2, <3>1, <4>1
      <4>3. remap[s][d] \in Nat /\ remap'[s][d] = remap[s][d]
        BY <1>8, <2>2, <4>2
      <4> QED  BY <2>2, <4>1, <4>3 DEF MergeInv, Numbering
    <3> QED  BY <3>2, <3>3, <3>4
  <2>3. ASSUME NEW k \in 0..(newDocNum' - 1)
        PROVE  \E s \in Segs, d \in DocNums : remap'[s][d] = k
    <3>1. CASE k < newDocNum
      <4>1. k \in 0..(newDocNum - 1) /\ k \in Nat
        BY <1>1, <3>1
      <4>2. PICK s \in Segs, d \in DocNums : remap[s][d] = k
        BY <4>1 DEF MergeInv, Numbering
      <4> QED  BY <1>7, <4>1, <4>2
    <3>2. CASE ~(k < newDocNum)
      <4>1. /\ k - newDocNum \in Nat /\ k - newDocNum < n
            /\ newDocNum + (k - newDocNum) = k
        <5> HIDE DEF n
        <5>1. k \in 0..(newDocNum + n - 1)
          BY <1>1, <1>2, <1>9
        <5> QED  BY <1>1, <1>2, <3>2, <5>1
      <4>2. k - newDocNum \in DocNums
        BY <1>2, <4>1, Sizes DEF DocNums
      <4>3. remap'[segI][k - newDocNum] = k
        BY <1>1, <1>4, <4>1, <4>2
      <4> QED  BY <1>1, <4>2, <4>3
    <3> QED  BY <3>1, <3>2
  <2> QED  BY <2>1, <2>2, <2>3 DEF Numbering
<1>12. Written'
  <2> DEFINE copied == [i \in 1..n |-> StoredDoc(segI, i - 1)]
  <2>1. out \in Seq(MergedDocs) /\ Len(out) = newDocNum
    BY DEF MergeInv, Written
  <2>2. ASSUME NEW i \in 1..n
        PROVE  i - 1 \in DocNums /\ StoredDoc(segI, i - 1) = MergedDoc(segI, i - 1)
               /\ StoredDoc(segI, i - 1) \in MergedDocs
    <3>1. i - 1 \in DocNums
      BY <1>2, Sizes DEF DocNums
    <3>2. Copyable(segI)
      BY DEF CopySegment
    <3>3. StoredDoc(segI, i - 1) = MergedDoc(segI, i - 1)
      BY <1>1, <3>1, <3>2, CopiedSame
    <3> QED  BY <1>1, <3>1, <3>3 DEF MergedDocs
  <2>3. copied \in Seq(MergedDocs) /\ Len(copied) = n
    <3>1. copied \in [1..n -> MergedDocs]
      BY <2>2
    <3>2. DOMAIN copied = 1..n
      OBVIOUS
    <3> HIDE DEF copied, n
    <3> QED  BY <1>2, <3>1, <3>2, SeqDef, LenProperties
  <2>4. out' = out \o copied
    BY DEF CopySegment
  <2>5. \A i \in 1..n : copied[i] = StoredDoc(segI, i - 1)
    OBVIOUS
  <2> HIDE DEF copied
  <2>6. /\ out' \in Seq(MergedDocs) /\ Len(out') = newDocNum + n
        /\ \A i \in 1..(newDocNum + n) :
             out'[i] = IF i <= newDocNum THEN out[i] ELSE copied[i - newDocNum]
    <3> HIDE DEF n
    <3> QED  BY <2>1, <2>3, <2>4, ConcatProperties
  <2>7. /\ offsets \in [1..NewDocCount -> Nat]
        /\ offsets' = [m \in DOMAIN offsets |->
                         IF m - 1 \in newDocNum..(newDocNum + n - 1)
                         THEN Len(out) + m - 1 - newDocNum ELSE offsets[m]]
    BY DEF MergeInv, Written, CopySegment
  <2>8. ASSUME NEW m \in 1..NewDocCount
        PROVE  /\ offsets'[m] \in Nat
               /\ m - 1 < newDocNum' => offsets'[m] = m - 1
    <3>1. offsets'[m] = IF m - 1 \in newDocNum..(newDocNum + n - 1)
                        THEN newDocNum + m - 1 - newDocNum ELSE offsets[m]
      BY <2>1, <2>7
    <3>2. m \in Nat /\ m - 1 \in Nat /\ offsets[m] \in Nat
      BY <2>7
    <3>3. CASE m - 1 \in newDocNum..(newDocNum + n - 1)
      BY <1>1, <3>1, <3>2, <3>3
    <3>4. CASE m - 1 \notin newDocNum..(newDocNum + n - 1)
      <4>1. m - 1 < newDocNum' => m - 1 \in 0..(newDocNum - 1)
        BY <1>1, <1>2, <1>9, <3>2, <3>4
      <4>2. m - 1 \in 0..(newDocNum - 1) => offsets[(m - 1) + 1] = m - 1
        BY DEF MergeInv, Written
      <4> QED  BY <3>1, <3>2, <3>4, <4>1, <4>2
    <3> QED  BY <3>3, <3>4
  <2>9. offsets' \in [1..NewDocCount -> Nat]
    BY <2>7, <2>8
  <2>10. ASSUME NEW k \in 0..(newDocNum' - 1) PROVE offsets'[k + 1] = k
    <3> HIDE DEF n
    <3>1. k \in Nat /\ k < newDocNum + n
      BY <1>1, <1>2, <1>9
    <3> DEFINE m == k + 1
    <3>2. m \in 1..NewDocCount /\ m - 1 = k
      BY <1>1, <1>2, <1>count, <3>1
    <3> HIDE DEF m
    <3>3. offsets'[m] = k
      BY <1>9, <2>8, <3>1, <3>2
    <3> QED  BY <3>3 DEF m
  <2>11. ASSUME NEW s \in Segs, NEW d \in DocNums, remap'[s][d] \in Nat
         PROVE  out'[remap'[s][d] + 1] = MergedDoc(s, d)'
    <3>1. CASE s = segI
      <4> HIDE DEF n
      <4>1. d < n /\ remap'[s][d] = newDocNum + d /\ d \in Nat
        BY <1>5, <1>8, <2>11, <3>1, Sizes
      <4> DEFINE i == d + 1
      <4>2. i \in 1..n /\ i - 1 = d /\ newDocNum + d + 1 = newDocNum + i
        BY <1>1, <1>2, <4>1
      <4> HIDE DEF i
      <4>3. /\ newDocNum + i \in 1..(newDocNum + n)
            /\ ~(newDocNum + i <= newDocNum)
            /\ newDocNum + i - newDocNum = i
        BY <1>1, <1>2, <4>2
      <4>4. out'[newDocNum + i] = copied[i]
        <5> DEFINE j == newDocNum + i
        <5>1. j \in 1..(newDocNum + n) /\ ~(j <= newDocNum) /\ j - newDocNum = i
          BY <1>1, <1>2, <4>2, <4>3
        <5> HIDE DEF j
        <5>2. out'[j] = copied[i]
          BY <2>6, <5>1
        <5> QED  BY <5>2 DEF j
      <4>5. copied[i] = MergedDoc(segI, d)
        BY <2>2, <2>5, <4>2
      <4> QED  BY <1>10, <3>1, <4>1, <4>2, <4>4, <4>5, SegsFrame
    <3>2. CASE s # segI
      <4>1. remap'[s][d] = remap[s][d] /\ remap[s][d] \in Nat /\ remap[s][d] < newDocNum
        BY <1>7, <1>8, <2>11, <3>2
      <4>2. out'[remap[s][d] + 1] = out[remap[s][d] + 1]
        BY <1>1, <1>2, <2>6, <4>1
      <4> QED  BY <1>10, <4>1, <4>2, SegsFrame DEF MergeInv, Written
    <3> QED  BY <3>1, <3>2
  <2> QED  BY <1>9, <1>10, <2>6, <2>9, <2>10, <2>11, SegsFrame DEF Written
<1>13. Progress'
  <2>1. segI' = segI + 1 /\ pc = "segment" /\ pc' = pc
    BY DEF CopySegment
  <2>2. ASSUME NEW s \in Segs, NEW d \in DocNums
        PROVE  /\ ~Passed(s, d)' => remap'[s][d] = Unset
               /\ Passed(s, d)' /\ Keeps(s, d)' => remap'[s][d] \in Nat
    <3>1. /\ Passed(s, d)' <=> s < segI \/ s = segI
          /\ Passed(s, d) <=> s < segI
      BY <1>1, <2>1, Sizes DEF Passed
    <3>2. CASE s = segI
      <4>1. /\ Passed(s, d)'
            /\ remap'[s][d] = IF d < n THEN newDocNum + d ELSE Unset
            /\ Keeps(s, d)' => d < n
        BY <1>4, <1>10, <3>1, <3>2, SegsFrame DEF Keeps
      <4>2. d < n => remap'[s][d] \in Nat
        <5> HIDE DEF n
        <5> QED  BY <1>1, <1>5, <4>1
      <4> QED  BY <4>1, <4>2
    <3>3. CASE s # segI
      <4>1. /\ ~Passed(s, d) => remap[s][d] = Unset
            /\ Passed(s, d) /\ Keeps(s, d) => remap[s][d] \in Nat
        BY <2>1 DEF MergeInv, Progress
      <4>2. remap'[s][d] = remap[s][d] /\ Keeps(s, d)' = Keeps(s, d)
        BY <1>4, <1>10, <3>3, SegsFrame
      <4>3. Passed(s, d)' <=> Passed(s, d)
        BY <3>1, <3>3
      <4> QED  BY <4>1, <4>2, <4>3
    <3> QED  BY <3>2, <3>3
  <2>3. newDocNum' = UpTo(segs)[segI' - 1] /\ segI' \in 1..(NumSegs + 1)
    BY <1>1, <1>9, <1>count, <2>1, Sizes
  <2> QED  BY <1>10, <2>1, <2>2, <2>3, SegsFrame DEF Progress
<1> QED  BY <1>6, <1>11, <1>12, <1>13 DEF MergeInv, Completed, MergeTypes, CopySegment

\* The other steps give no numbers: a segment is entered and left, the merge
\* goes on to the sections, ends or is given up.
LEMMA PlanStep == MergeInv /\ Plan => MergeInv'
<1> SUFFICES ASSUME MergeInv, Plan PROVE MergeInv'
  OBVIOUS
<1> USE DEF Plan
<1>1. UNCHANGED <<segs, segI, docNum, newDocNum, remap, out, result>>
  OBVIOUS
<1>2. segI = 1 /\ newDocNum = 0 /\ pc = "plan" /\ pc' \in {"segment", "finish"}
  BY DEF MergeInv, Progress
<1>3. MergeTypes' /\ Completed'
  BY <1>1, <1>2 DEF MergeInv, MergeTypes, Completed
<1>4. Numbering'
  BY <1>1, SegsFrame DEF MergeInv, Numbering
<1>5. Written'
  BY <1>1, <1>2, SegsFrame DEF MergeInv, Written
<1>6. Progress'
  <2>1. ASSUME NEW s \in Segs, NEW d \in DocNums
        PROVE  Passed(s, d)' <=> Passed(s, d)
    BY <1>1, <1>2 DEF Passed
  <2>2. \A s \in Segs, d \in DocNums :
          /\ ~Passed(s, d)' => remap'[s][d] = Unset
          /\ Passed(s, d)' /\ Keeps(s, d)' => remap'[s][d] \in Nat
    BY <1>1, <1>2, <2>1, SegsFrame DEF MergeInv, Progress
  <2>3. UpTo(segs)[0] = 0 /\ NewDocCount \in Nat
    BY UpToIs, Sizes, NewDocCountIs DEF MergeInv, MergeTypes
  <2>4. pc' = "finish" => NewDocCount = 0
    BY <2>3
  <2>5. pc' = "segment" =>
          segI' \in 1..(NumSegs + 1) /\ newDocNum' = UpTo(segs)'[segI' - 1]
    BY <1>1, <1>2, <2>3, Sizes, SegsFrame
  <2> QED  BY <1>1, <1>2, <2>2, <2>3, <2>4, <2>5, SegsFrame DEF Progress
<1> QED  BY <1>3, <1>4, <1>5, <1>6 DEF MergeInv

LEMMA EnterStep == MergeInv /\ EnterSegment => MergeInv'
<1> SUFFICES ASSUME MergeInv, EnterSegment PROVE MergeInv'
  OBVIOUS
<1> USE DEF EnterSegment
<1>1. /\ segI \in Segs /\ segs \in Inputs /\ newDocNum = UpTo(segs)[segI - 1]
      /\ pc = "segment" /\ pc' = "doc" /\ docNum' = 0
      /\ UNCHANGED <<segs, segI, newDocNum, remap, offsets, out, result>>
  BY Sizes DEF MergeInv, MergeTypes, Progress
<1>2. MergeTypes' /\ Completed'
  BY <1>1 DEF MergeInv, MergeTypes, Completed
<1>3. Numbering' /\ Written'
  BY <1>1, IdleStep
<1>4. \A s \in Segs, d \in DocNums : Passed(s, d)' <=> Passed(s, d)
  BY <1>1 DEF Passed, DocNums
<1>5. Cardinality(Live(segs, segI, 0)) = 0 /\ 0 \in 0..segs[segI].numDocs
  <2>1. 0 \in 0..segs[segI].numDocs
    BY <1>1, NumDocsIs
  <2> QED  BY <1>1, <2>1, LiveCount
<1>6. newDocNum = UpTo(segs)[segI - 1] + Cardinality(Live(segs, segI, 0))
  BY <1>1, <1>5 DEF MergeInv, MergeTypes
<1>7. Progress'
  BY <1>1, <1>4, <1>5, <1>6, SegsFrame DEF MergeInv, Progress
<1> QED  BY <1>2, <1>3, <1>7 DEF MergeInv

LEMMA LeaveStep == MergeInv /\ LeaveSegment => MergeInv'
<1> SUFFICES ASSUME MergeInv, LeaveSegment PROVE MergeInv'
  OBVIOUS
<1> USE DEF LeaveSegment
<1>1. /\ segI \in Segs /\ segs \in Inputs /\ segI' = segI + 1
      /\ newDocNum = UpTo(segs)[segI - 1] + Cardinality(Live(segs, segI, docNum))
      /\ pc = "doc" /\ pc' = "segment" /\ docNum = segs[segI].numDocs
      /\ UNCHANGED <<segs, docNum, newDocNum, remap, offsets, out, result>>
  BY DEF MergeInv, MergeTypes, Progress
<1>2. MergeTypes' /\ Completed'
  BY <1>1, Sizes DEF MergeInv, MergeTypes, Completed
<1>3. Numbering' /\ Written'
  BY <1>1, IdleStep
<1>4. newDocNum' = UpTo(segs)'[segI' - 1] /\ segI' \in 1..(NumSegs + 1)
  <2>1. newDocNum = UpTo(segs)[segI]
    BY <1>1, UpToIs
  <2>2. segI' - 1 = segI /\ segI' \in 1..(NumSegs + 1)
    BY <1>1, Sizes
  <2> QED  BY <1>1, <2>1, <2>2, SegsFrame
<1>5. ASSUME NEW s \in Segs, NEW d \in DocNums
      PROVE  /\ ~Passed(s, d)' => remap'[s][d] = Unset
             /\ Passed(s, d)' /\ Keeps(s, d)' => remap'[s][d] \in Nat
  <2>1. /\ Passed(s, d)' <=> s < segI \/ s = segI
        /\ Passed(s, d) <=> s < segI \/ (s = segI /\ d < docNum)
    BY <1>1, Sizes DEF Passed
  <2>2. Keeps(s, d) /\ s = segI => d < docNum
    BY <1>1 DEF Keeps
  <2> QED  BY <1>1, <2>1, <2>2, SegsFrame DEF MergeInv, Progress
<1>6. Progress'
  BY <1>1, <1>4, <1>5 DEF Progress
<1> QED  BY <1>2, <1>3, <1>6 DEF MergeInv

LEMMA IndexStep == MergeInv /\ WriteStoredIndex => MergeInv'
<1> SUFFICES ASSUME MergeInv, WriteStoredIndex PROVE MergeInv'
  OBVIOUS
<1> USE DEF WriteStoredIndex
<1>1. /\ UNCHANGED <<segs, segI, docNum, newDocNum, remap, offsets, out, result>>
      /\ pc = "segment" /\ pc' = "sections" /\ segI = NumSegs + 1
      /\ newDocNum = UpTo(segs)[segI - 1]
  BY Sizes DEF storedVars, MergeInv, MergeTypes, Progress
<1>2. MergeTypes' /\ Completed'
  BY <1>1 DEF MergeInv, MergeTypes, Completed
<1>3. Numbering' /\ Written'
  BY <1>1, IdleStep
<1>4. newDocNum' = NewDocCount' /\ segI' > NumSegs
  BY <1>1, Sizes, NewDocCountIs, SegsFrame
<1>5. \A s \in Segs, d \in DocNums : Passed(s, d)' <=> Passed(s, d)
  BY <1>1 DEF Passed
<1>6. Progress'
  BY <1>1, <1>4, <1>5, SegsFrame DEF MergeInv, Progress
<1> QED  BY <1>2, <1>3, <1>6 DEF MergeInv

LEMMA SectionStep ==
  ASSUME MergeInv, NEW x \in Sections, MergeSection(x)
  PROVE  MergeInv'
<1>1. /\ UNCHANGED <<segs, segI, docNum, newDocNum, remap, offsets, out, result>>
      /\ pc = "sections" /\ pc' \in {"sections", "finish"}
  BY DEF MergeSection, storedVars
<1>2. MergeTypes' /\ Completed'
  BY <1>1 DEF MergeInv, MergeTypes, Completed
<1>3. Numbering' /\ Written'
  BY <1>1, IdleStep
<1>4. \A s \in Segs, d \in DocNums : Passed(s, d)' <=> Passed(s, d)
  BY <1>1 DEF Passed
<1>5. Progress'
  BY <1>1, <1>4, SegsFrame DEF MergeInv, Progress
<1> QED  BY <1>2, <1>3, <1>5 DEF MergeInv

\* The end keeps what is written; a merge that was given up is not a success.
LEMMA EndStep ==
  ASSUME MergeInv, Finish \/ Fail \/ SeeClosed
  PROVE  MergeInv'
<1>1. /\ UNCHANGED <<segs, segI, docNum, newDocNum, remap, offsets, out>>
      /\ pc # "done" /\ pc' = "done" /\ result' # "none"
      /\ result' = "ok" => pc = "finish"
  BY DEF Finish, Fail, SeeClosed, Abort, storedVars
<1>2. MergeTypes'
  BY <1>1 DEF MergeInv, MergeTypes
<1>3. Numbering' /\ Written'
  BY <1>1, IdleStep
<1>4. ASSUME pc = "finish", NewDocCount > 0, NEW s \in Segs, NEW d \in DocNums, Keeps(s, d)
      PROVE  remap[s][d] \in Nat
  <2>1. segI > NumSegs
    BY <1>4 DEF MergeInv, Progress
  <2>2. Passed(s, d)
    BY <2>1, Sizes DEF Passed, MergeInv, MergeTypes
  <2> QED  BY <1>1, <1>4, <2>2 DEF MergeInv, Progress
<1>5. pc = "finish" => newDocNum = NewDocCount
  BY DEF MergeInv, Progress
<1>6. Completed'
  BY <1>1, <1>4, <1>5, SegsFrame DEF Completed
<1> QED  BY <1>1, <1>2, <1>3, <1>6 DEF MergeInv

LEMMA NextInv == MergeInv /\ [Next]_vars => MergeInv'
<1> SUFFICES ASSUME MergeInv, [Next]_vars PROVE MergeInv'
  OBVIOUS
<1>1. ASSUME UNCHANGED <<segs, pc, segI, docNum, newDocNum, remap, offsets, out, result>>
      PROVE  MergeInv'
  <2>1. Numbering' /\ Written' /\ MergeTypes' /\ Completed'
    BY <1>1, IdleStep, SegsFrame DEF MergeInv, MergeTypes, Completed
  <2>2. \A s \in Segs, d \in DocNums : Passed(s, d)' <=> Passed(s, d)
    BY <1>1 DEF Passed
  <2>3. pc # "done" => Progress'
    BY <1>1, <2>2, SegsFrame DEF MergeInv, Progress
  <2> QED  BY <1>1, <2>1, <2>3 DEF MergeInv
<1>2. CASE OpenFile
  <2>1. /\ UNCHANGED <<segs, segI, docNum, newDocNum, remap, offsets, out, result>>
        /\ pc = "open" /\ pc' = "plan"
    BY <1>2 DEF OpenFile, storedVars
  <2>2. Numbering' /\ Written' /\ MergeTypes' /\ Completed'
    BY <2>1, IdleStep, SegsFrame DEF MergeInv, MergeTypes, Completed
  <2>3. \A s \in Segs, d \in DocNums : Passed(s, d)' <=> Passed(s, d)
    BY <2>1 DEF Passed
  <2>4. Progress'
    BY <2>1, <2>3, SegsFrame DEF MergeInv, Progress
  <2> QED  BY <2>2, <2>4 DEF MergeInv
<1>3. CASE CloseMerge
  BY <1>1, <1>3 DEF CloseMerge, storedVars
<1>4. CASE UNCHANGED vars
  BY <1>1, <1>4 DEF vars, storedVars
<1>5. CASE Finish \/ SeeClosed \/ Fail
  BY <1>5, EndStep
<1>6. CASE \E x \in Sections : MergeSection(x)
  BY <1>6, SectionStep
<1> QED
  BY <1>2, <1>3, <1>4, <1>5, <1>6, PlanStep, CopyStep, EnterStep, DropStep,
     WriteStep, LeaveStep, IndexStep DEF Next, Step

THEOREM MergeInvAlways == Spec => []MergeInv
BY InitInv, NextInv, PTL DEF Spec

-----------------------------------------------------------------------------
(* What follows from it.                                                   *)

LEMMA NumberedAre ==
  ASSUME NEW p \in Numbered
  PROVE  /\ p[1] \in Segs /\ p[2] \in DocNums /\ p = <<p[1], p[2]>>
         /\ remap[p[1]][p[2]] \in Nat
BY DEF Numbered

LEMMA NumbersExact == MergeInv => RemapExact
<1> SUFFICES ASSUME MergeInv PROVE RemapExact
  OBVIOUS
<1> USE DEF MergeInv, Numbering
<1>1. ASSUME NEW s \in Segs, NEW d \in DocNums
      PROVE  /\ remap[s][d] \in Nat => d < segs[s].numDocs /\ d \notin segs[s].drops
             /\ remap[s][d] = Dropped => d \in segs[s].drops
  BY DEF Keeps
<1>2. ASSUME NEW p \in Numbered, NEW q \in Numbered, Earlier(p, q)
      PROVE  remap[p[1]][p[2]] < remap[q[1]][q[2]]
  BY <1>2, NumberedAre DEF Earlier
<1>3. ASSUME NEW p \in Numbered PROVE remap[p[1]][p[2]] \in 0..(newDocNum - 1)
  <2>1. remap[p[1]][p[2]] \in Nat /\ remap[p[1]][p[2]] < newDocNum
    BY NumberedAre
  <2> QED  BY <2>1 DEF MergeTypes
<1>4. ASSUME NEW n \in 0..(newDocNum - 1)
      PROVE  \E p \in Numbered : remap[p[1]][p[2]] = n
  <2>1. PICK s \in Segs, d \in DocNums : remap[s][d] = n
    OBVIOUS
  <2>2. n \in Nat
    BY DEF MergeTypes
  <2>3. <<s, d>> \in Numbered
    BY <2>1, <2>2 DEF Numbered
  <2> QED  BY <2>1, <2>3
<1>5. {remap[p[1]][p[2]] : p \in Numbered} = 0..(newDocNum - 1)
  BY <1>3, <1>4
<1> QED  BY <1>1, <1>2, <1>5 DEF RemapExact

\* The new document numbers are those of the kept documents, in order and
\* without a gap, whether a segment was copied or visited (merge.go:424-445).
THEOREM RemapAlways == Spec => []RemapExact
BY MergeInvAlways, NumbersExact, PTL

\* Merge returns no error only when every kept document has its number, and
\* there are as many as computeNewDocCount announced (merge.go:138, 196-205).
THEOREM CompleteAlways == Spec => []ResultComplete
<1>1. MergeInv => ResultComplete
  <2> SUFFICES ASSUME MergeInv, result = "ok"
               PROVE  /\ newDocNum = NewDocCount
                      /\ NewDocCount > 0 =>
                           \A s \in Segs : \A d \in 0..(segs[s].numDocs - 1) :
                             d \notin segs[s].drops => <<s, d>> \in Numbered
    BY DEF ResultComplete
  <2>1. newDocNum = NewDocCount
    BY DEF MergeInv, Completed
  <2>2. ASSUME NewDocCount > 0, NEW s \in Segs, NEW d \in 0..(segs[s].numDocs - 1),
               d \notin segs[s].drops
        PROVE  <<s, d>> \in Numbered
    <3>1. segs[s].numDocs \in Nat /\ segs[s].numDocs <= MaxDocs
      BY NumDocsIs DEF MergeInv, MergeTypes
    <3>2. d \in DocNums /\ d < segs[s].numDocs
      BY <3>1, Sizes DEF DocNums
    <3>3. remap[s][d] \in Nat
      BY <2>2, <3>2 DEF MergeInv, Completed, Keeps
    <3> QED  BY <3>2, <3>3 DEF Numbered
  <2> QED  BY <2>1, <2>2
<1> QED  BY <1>1, MergeInvAlways, PTL

-----------------------------------------------------------------------------
(* The stored documents.                                                   *)

\* What the merge means to write of a document is what is found under its
\* number: the right document, and every value under its own field.
StoredAsCollected ==
  \A p \in Numbered :
    Visited(remap[p[1]][p[2]]) =
      {<<f, <<p[1], p[2], f>>>> : f \in Collected(p[1], p[2])}

LEMMA NewFieldsAre ==
  ASSUME segs \in Inputs
  PROVE  /\ AllFields \in SUBSET Fields /\ NewFields \in SUBSET AllFields
         /\ NewFields \in SUBSET Nat /\ IsFiniteSet(NewFields)
<1>1. AllFields \in SUBSET Fields
  <2>1. \A s \in Segs : segs[s].fields \in SUBSET Fields
    BY FieldsAre
  <2> QED  BY <2>1, MergeAssumption DEF AllFields
<1>2. NewFields \in SUBSET AllFields
  BY DEF NewFields
<1>3. Fields \in SUBSET Nat /\ IsFiniteSet(Fields)
  BY MergeAssumption
<1>4. NewFields \in SUBSET Fields
  BY <1>1, <1>2
<1> QED  BY <1>1, <1>2, <1>3, <1>4, FS_Subset

LEMMA DocumentsFound == MergeInv => StoredAsCollected
<1> SUFFICES ASSUME MergeInv, NEW p \in Numbered
             PROVE  Visited(remap[p[1]][p[2]]) =
                      {<<f, <<p[1], p[2], f>>>> : f \in Collected(p[1], p[2])}
  BY DEF StoredAsCollected
<1> DEFINE s == p[1]
           d == p[2]
           n == remap[s][d]
<1>1. s \in Segs /\ d \in DocNums /\ n \in Nat /\ n < newDocNum /\ segs \in Inputs
  BY NumberedAre DEF MergeInv, MergeTypes, Numbering
<1>2. offsets[n + 1] = n /\ out[n + 1] = MergedDoc(s, d)
  <2>1. n \in 0..(newDocNum - 1)
    BY <1>1 DEF MergeInv, MergeTypes
  <2> QED  BY <1>1, <2>1 DEF MergeInv, Written
<1>3. Collected(s, d) \in SUBSET NewFields
  <2>1. \A f \in Collected(s, d) : f \in Nat
    <3>1. segs[s].docs[d] \in SUBSET segs[s].fields /\ segs[s].fields \in SUBSET Fields
      BY <1>1, FieldsAre
    <3> QED  BY <3>1, MergeAssumption DEF Collected
  <2> QED  BY <2>1 DEF Collected
<1>4. \A f \in Collected(s, d) : FieldOf(NewFields, FieldID(NewFields, f)) = f
  BY <1>1, <1>3, NewFieldsAre, FieldOfID
<1> HIDE DEF s, d, n
<1>5. Visited(n) = {<<FieldOf(NewFields, q[1]), q[2]>> : q \in MergedDoc(s, d)}
  BY <1>2 DEF Visited
<1>6. {<<FieldOf(NewFields, q[1]), q[2]>> : q \in MergedDoc(s, d)}
        = {<<f, <<s, d, f>>>> : f \in Collected(s, d)}
  <2> DEFINE at(f) == <<FieldID(NewFields, f), <<s, d, f>>>>
  <2>1. MergedDoc(s, d) = {at(f) : f \in Collected(s, d)}
    BY DEF MergedDoc
  <2>2. ASSUME NEW f \in Collected(s, d)
        PROVE  <<FieldOf(NewFields, at(f)[1]), at(f)[2]>> = <<f, <<s, d, f>>>>
    BY <1>4
  <2> HIDE DEF at
  <2> QED  BY <2>1, <2>2
<1> QED  BY <1>5, <1>6 DEF s, d, n

\* The document found under a new number holds exactly what the visitor of the
\* merge collected of the old one, each value under the ID its field has in
\* the new segment, be it copied or written (merge.go:454-594).
THEOREM StoredAlways == Spec => []StoredAsCollected
BY MergeInvAlways, DocumentsFound, PTL

\* Only the deletion of a field cuts a document short.
LEMMA NothingDeleted ==
  ASSUME MergeInv, NewFields = AllFields
  PROVE  StoredPreserved
<1> SUFFICES ASSUME NEW p \in Numbered
             PROVE  Visited(remap[p[1]][p[2]]) =
                      {<<f, <<p[1], p[2], f>>>> : f \in
                         {g \in segs[p[1]].docs[p[2]] : ~IsDeleted(g) /\ ~IsUnstored(g)}}
  BY DEF StoredPreserved
<1>1. p[1] \in Segs /\ p[2] \in DocNums /\ segs \in Inputs
  BY NumberedAre DEF MergeInv, MergeTypes
<1>2. \A f \in segs[p[1]].docs[p[2]] : f \in NewFields
  <2>1. segs[p[1]].docs[p[2]] \in SUBSET segs[p[1]].fields
    BY <1>1, FieldsAre
  <2>2. \A f \in segs[p[1]].fields : f \in AllFields
    BY <1>1 DEF AllFields
  <2> QED  BY <2>1, <2>2
<1>3. \A f \in segs[p[1]].docs[p[2]] : ~IsDeleted(f)
  BY <1>2 DEF NewFields
<1>4. Collected(p[1], p[2]) =
        {g \in segs[p[1]].docs[p[2]] : ~IsDeleted(g) /\ ~IsUnstored(g)}
  BY <1>2, <1>3 DEF Collected
<1> QED  BY <1>4, DocumentsFound DEF StoredAsCollected

\* As long as no field of the merged segments was deleted, every document of
\* the new segment has the stored values of the old one, but for the fields
\* that are no longer stored (merge.go:36-38).
THEOREM PreservedAlways == Spec => [](NewFields = AllFields => StoredPreserved)
BY MergeInvAlways, NothingDeleted, PTL
=============================================================================
