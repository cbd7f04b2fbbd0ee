--------------------------- MODULE Sections_proofs ---------------------------
(***************************************************************************)
(* What the sections of the fields keep to, for any segments, batches and  *)
(* plans.                                                                  *)
(*                                                                         *)
(* First the merge of the text of a field: the enumerator under it, which  *)
(* implements the ordered join for any number of iterators and any keys,   *)
(* the two coders it fills term after term, and the dictionary it writes.  *)
(*                                                                         *)
(* Then the lists that are handed back, the vectors that are found, the    *)
(* indexes a merge opens, the thesauri that are built, and those that are  *)
(* merged out of them, which say what the documents do, for any order of   *)
(* the builds.                                                             *)
(*                                                                         *)
(* Between two builds the opaque holds nothing of a batch (NoneLeft), so   *)
(* that a thesaurus is a function of its own batch (ThesaurusOf), and a    *)
(* truthful one.  In the merge, what has been collected is what the        *)
(* surviving documents of the entries passed say (Collects), and the       *)
(* numbers given to synonyms lead back to them.                            *)
(***************************************************************************)
EXTENDS Sections, FiniteSetTheorems, WellFoundedInduction, SequenceTheorems, TLAPS

-----------------------------------------------------------------------------
(* Numbers.                                                                *)

LEMMA LowestIs ==
  ASSUME NEW S \in SUBSET Nat, S # {}
  PROVE  Lowest(S) \in S /\ \A k \in S : Lowest(S) <= k
<1>1. PICK x \in S : \A y \in S : ~ (<<y, x>> \in OpToRel(<, Nat))
  BY NatLessThanWellFounded, WFMin
<1>2. \A k \in S : x <= k
  <2> SUFFICES ASSUME NEW k \in S, ~ (x <= k) PROVE FALSE
    OBVIOUS
  <2>1. <<k, x>> \in Nat \X Nat /\ k < x
    OBVIOUS
  <2> QED  BY <1>1, <2>1 DEF OpToRel
<1> QED  BY <1>1, <1>2 DEF Lowest

\* A subset that misses a member is smaller.
LEMMA SmallerSet ==
  ASSUME NEW S, IsFiniteSet(S), NEW T, \A k \in T : k \in S,
         NEW x \in S, x \notin T
  PROVE  /\ IsFiniteSet(T) /\ Cardinality(T) \in Nat /\ Cardinality(S) \in Nat
         /\ Cardinality(T) < Cardinality(S)
<1>1. T \in SUBSET S
  OBVIOUS
<1>2. /\ IsFiniteSet(T) /\ Cardinality(T) <= Cardinality(S)
      /\ Cardinality(S) = Cardinality(T) => S = T
  BY <1>1, FS_Subset
<1>3. Cardinality(T) \in Nat /\ Cardinality(S) \in Nat
  BY <1>2, FS_CardinalityType
<1>4. S # T
  OBVIOUS
<1> QED  BY <1>2, <1>3, <1>4

\* The members of a set below one of them: how many come before it.
Below(S, i) == {j \in S : j < i}

LEMMA BelowFinite ==
  ASSUME NEW S \in SUBSET Nat, IsFiniteSet(S), NEW i
  PROVE  IsFiniteSet(Below(S, i)) /\ Cardinality(Below(S, i)) \in Nat
<1>1. Below(S, i) \in SUBSET S
  BY DEF Below
<1>2. IsFiniteSet(Below(S, i))
  BY <1>1, FS_Subset
<1> QED  BY <1>2, FS_CardinalityType

\* A member comes before another exactly if fewer come before it.
LEMMA BelowGrows ==
  ASSUME NEW S \in SUBSET Nat, IsFiniteSet(S), NEW i \in S, NEW j \in S, i < j
  PROVE  Cardinality(Below(S, i)) < Cardinality(Below(S, j))
<1>1. i \in Nat /\ j \in Nat
  OBVIOUS
<1>2. /\ \A k \in Below(S, i) : k \in Below(S, j)
      /\ i \in Below(S, j) /\ i \notin Below(S, i)
  BY <1>1 DEF Below
<1>3. IsFiniteSet(Below(S, j))
  BY BelowFinite
<1> QED  BY <1>2, <1>3, SmallerSet

\* A finite set of numbers has a greatest member.
LEMMA GreatestExists ==
  ASSUME NEW S \in SUBSET Nat, IsFiniteSet(S), S # {}
  PROVE  \E i \in S : \A j \in S : j <= i
<1> DEFINE Above(i) == {j \in S : i < j}
           Counts   == {Cardinality(Above(i)) : i \in S}
<1>1. ASSUME NEW i \in S
      PROVE  IsFiniteSet(Above(i)) /\ Cardinality(Above(i)) \in Nat
  <2>1. Above(i) \in SUBSET S
    OBVIOUS
  <2>2. IsFiniteSet(Above(i))
    BY <2>1, FS_Subset
  <2> QED  BY <2>2, FS_CardinalityType
<1>2. Counts \in SUBSET Nat /\ Counts # {}
  BY <1>1
<1>3. PICK i \in S : \A j \in S : Cardinality(Above(i)) <= Cardinality(Above(j))
  <2>1. Lowest(Counts) \in Counts /\ \A c \in Counts : Lowest(Counts) <= c
    BY <1>2, LowestIs
  <2> QED  BY <2>1
<1>4. \A j \in S : j <= i
  <2> SUFFICES ASSUME NEW j \in S, ~ (j <= i) PROVE FALSE
    OBVIOUS
  <2>1. /\ \A k \in Above(j) : k \in Above(i)
        /\ j \in Above(i) /\ j \notin Above(j)
    OBVIOUS
  <2>2. Cardinality(Above(j)) < Cardinality(Above(i))
    <3> HIDE DEF Above
    <3> QED  BY <1>1, <2>1, SmallerSet
  <2>3. Cardinality(Above(i)) <= Cardinality(Above(j))
    BY <1>3
  <2>4. Cardinality(Above(i)) \in Nat /\ Cardinality(Above(j)) \in Nat
    BY <1>1
  <2> HIDE DEF Above
  <2> QED  BY <2>2, <2>3, <2>4
<1> QED  BY <1>4

\* Before n members of a set with more than n there is one that n precede.
LEMMA RankExists ==
  ASSUME NEW S \in SUBSET Nat, IsFiniteSet(S), NEW n \in Nat, n < Cardinality(S)
  PROVE  \E i \in S : Cardinality(Below(S, i)) = n
<1> DEFINE High == {i \in S : n <= Cardinality(Below(S, i))}
<1>1. Cardinality(S) \in Nat /\ S # {}
  BY FS_EmptySet, FS_CardinalityType
<1>2. PICK g \in S : \A j \in S : j <= g
  BY <1>1, GreatestExists
<1>3. g \in High
  <2>1. Below(S, g) = S \ {g}
    <3>1. ASSUME NEW k \in S PROVE k < g <=> k # g
      BY <1>2
    <3> QED  BY <3>1 DEF Below
  <2>2. Cardinality(S \ {g}) = Cardinality(S) - 1
    BY FS_RemoveElement
  <2>3. n <= Cardinality(Below(S, g))
    BY <1>1, <2>1, <2>2
  <2> QED  BY <2>3
<1>4. PICK i \in High : \A k \in High : i <= k
  <2>1. High \in SUBSET Nat /\ High # {}
    BY <1>3
  <2> QED  BY <2>1, LowestIs
<1>5. i \in S /\ n <= Cardinality(Below(S, i)) /\ Cardinality(Below(S, i)) \in Nat
  BY <1>4, BelowFinite
<1>6. Cardinality(Below(S, i)) = n
  <2> SUFFICES ASSUME Cardinality(Below(S, i)) # n PROVE FALSE
    OBVIOUS
  <2>1. IsFiniteSet(Below(S, i)) /\ Below(S, i) \in SUBSET Nat
    BY BelowFinite DEF Below
  <2>2. Below(S, i) # {}
    BY <1>5, <2>1, FS_EmptySet
  <2>3. PICK m \in Below(S, i) : \A j \in Below(S, i) : j <= m
    BY <2>1, <2>2, GreatestExists
  <2>4. m \in S /\ m \in Nat /\ m < i
    BY <2>3 DEF Below
  <2>5. Below(S, m) = Below(S, i) \ {m}
    <3>1. ASSUME NEW k \in S PROVE k < m <=> (k < i /\ k # m)
      <4>1. k \in Nat /\ i \in Nat
        BY <1>5
      <4>2. k < i => k <= m
        BY <2>3 DEF Below
      <4> QED  BY <2>4, <4>1, <4>2
    <3> QED  BY <3>1 DEF Below
  <2>6. Cardinality(Below(S, m)) = Cardinality(Below(S, i)) - 1
    <3>1. IsFiniteSet(Below(S, i)) /\ m \in Below(S, i)
      BY <2>1, <2>3
    <3>2. Cardinality(Below(S, i) \ {m}) = Cardinality(Below(S, i)) - 1
      BY <3>1, FS_RemoveElement
    <3> QED  BY <2>5, <3>2
  <2>7. m \in High
    BY <1>5, <2>4, <2>6
  <2> HIDE DEF High
  <2> QED  BY <1>4, <1>5, <2>4, <2>7
<1> QED  BY <1>5, <1>6

-----------------------------------------------------------------------------
(* The entries of a key, in the order of the iterators.                    *)

\* What After returns: the least of those that are not among the first n, and
\* with it there are n + 1.
LEMMA AfterIs ==
  ASSUME NEW S \in SUBSET Nat, IsFiniteSet(S), NEW n \in Nat, n < Cardinality(S)
  PROVE  /\ After(S, n) \in S /\ After(S, n) \notin FirstOf(S, n)
         /\ FirstOf(S, n + 1) = FirstOf(S, n) \cup {After(S, n)}
         /\ \A j \in S \ FirstOf(S, n) : After(S, n) <= j
<1> DEFINE rank(i) == Cardinality(Below(S, i))
<1>1. ASSUME NEW m
      PROVE  FirstOf(S, m) = {i \in S : rank(i) < m}
  BY DEF FirstOf, Below
<1>2. \A i \in S : rank(i) \in Nat
  BY BelowFinite
<1>3. PICK c \in S : rank(c) = n
  BY RankExists
<1>4. ASSUME NEW i \in S, NEW j \in S, i < j
      PROVE  rank(i) < rank(j)
  BY <1>4, BelowGrows
<1> HIDE DEF rank
<1>5. \A i \in S : rank(i) = n => i = c
  <2> SUFFICES ASSUME NEW i \in S, rank(i) = n, i # c PROVE FALSE
    OBVIOUS
  <2>1. i \in Nat /\ c \in Nat
    OBVIOUS
  <2>2. CASE i < c
    BY <1>3, <1>4, <2>2
  <2>3. CASE c < i
    BY <1>3, <1>4, <2>3
  <2> QED  BY <2>1, <2>2, <2>3
<1>6. After(S, n) = c
  <2>1. c \in FirstOf(S, n + 1) /\ c \notin FirstOf(S, n)
    BY <1>1, <1>3
  <2>2. ASSUME NEW i \in FirstOf(S, n + 1), i \notin FirstOf(S, n)
        PROVE  i = c
    <3>1. i \in S /\ rank(i) < n + 1 /\ ~ (rank(i) < n)
      BY <1>1, <2>2
    <3> QED  BY <1>2, <1>5, <3>1
  <2> QED  BY <2>1, <2>2 DEF After
<1>7. FirstOf(S, n + 1) = FirstOf(S, n) \cup {c}
  <2>1. \A i \in S : rank(i) < n + 1 <=> (rank(i) < n \/ i = c)
    BY <1>2, <1>3, <1>5
  <2> QED  BY <1>1, <2>1
<1>8. ASSUME NEW j \in S \ FirstOf(S, n), ~ (c <= j)
      PROVE  FALSE
  <2>1. j < c
    BY <1>8
  <2> QED  BY <1>1, <1>2, <1>3, <1>4, <2>1
<1>9. c \notin FirstOf(S, n)
  BY <1>1, <1>3
<1> QED  BY <1>6, <1>7, <1>8, <1>9

\* The first ones are all there is once they are as many.
LEMMA FirstOfAll ==
  ASSUME NEW S \in SUBSET Nat, IsFiniteSet(S), NEW n \in Nat, n >= Cardinality(S)
  PROVE  FirstOf(S, n) = S
<1>1. ASSUME NEW i \in S
      PROVE  Cardinality(Below(S, i)) < n
  <2>1. i \in Nat /\ i \notin Below(S, i) /\ \A k \in Below(S, i) : k \in S
    BY DEF Below
  <2>2. /\ Cardinality(Below(S, i)) < Cardinality(S)
        /\ Cardinality(Below(S, i)) \in Nat /\ Cardinality(S) \in Nat
    BY <2>1, SmallerSet
  <2> QED  BY <2>2
<1> QED  BY <1>1 DEF FirstOf, Below

\* None comes before the first.
LEMMA FirstOfNone ==
  ASSUME NEW S \in SUBSET Nat, IsFiniteSet(S)
  PROVE  FirstOf(S, 0) = {}
<1> SUFFICES ASSUME NEW i \in FirstOf(S, 0) PROVE FALSE
  OBVIOUS
<1>1. i \in S /\ Cardinality(Below(S, i)) < 0
  BY DEF FirstOf, Below
<1>2. Cardinality(Below(S, i)) \in Nat
  BY BelowFinite
<1> QED  BY <1>1, <1>2

-----------------------------------------------------------------------------
(* The inductive invariant: while there is an entry, lowK is the least key  *)
(* of all iterators and lowIdxs are those that stand at it.                 *)

AtLeast(r, k, S, n) ==
  /\ k \in Nat /\ n \in Nat /\ n < Cardinality(S)
  /\ S = {i \in Itrs : k \in r[i]}
  /\ \A i \in Itrs : \A l \in r[i] : k <= l

EInv ==
  /\ dicts \in [Itrs -> SUBSET Keys] /\ rest \in [Itrs -> SUBSET Keys]
  /\ currKs = [i \in Itrs |-> ItrCurrent(dicts[i], rest[i])]
  /\ err = "none" => AtLeast(rest, lowK, lowIdxs, lowCurr)

LeftOf(r, k, S, n) ==
  {p \in Keys \X Itrs : p[1] \in r[p[2]]} \ {<<k, i>> : i \in FirstOf(S, n)}

\* The entry that is current is the least of those not passed.
LEMMA ShownIsLeast ==
  ASSUME NEW r \in [Itrs -> SUBSET Keys], NEW k, NEW S, NEW n, AtLeast(r, k, S, n)
  PROVE  /\ Join!Shows(LeftOf(r, k, S, n), <<k, After(S, n)>>)
         /\ <<k, After(S, n)>> \in LeftOf(r, k, S, n)
         /\ S \in SUBSET Nat /\ S \in SUBSET Itrs /\ IsFiniteSet(S)
<1> DEFINE c == After(S, n)  L == LeftOf(r, k, S, n)
<1>1. S \in SUBSET Itrs
  BY DEF AtLeast
<1>2. IsFiniteSet(S) /\ S \in SUBSET Nat
  BY <1>1, FS_Subset, EnumeratorAssumption DEF EnumeratorAssumption
<1>3. /\ c \in S /\ c \notin FirstOf(S, n)
      /\ \A j \in S \ FirstOf(S, n) : c <= j
  BY <1>2, AfterIs DEF AtLeast
<1> HIDE DEF c
<1>4. k \in r[c] /\ c \in Itrs /\ k \in Keys
  BY <1>1, <1>3 DEF AtLeast
<1>5. <<k, c>> \in L
  BY <1>3, <1>4 DEF LeftOf
<1>6. ASSUME NEW b \in L, b # <<k, c>>
      PROVE  Join!Precedes(<<k, c>>, b)
  <2>1. PICK l \in Keys, j \in Itrs : b = <<l, j>>
    BY <1>6 DEF LeftOf
  <2>2. l \in r[j] /\ ~ (l = k /\ j \in FirstOf(S, n))
    BY <1>6, <2>1 DEF LeftOf
  <2>3. l \in Nat /\ j \in Nat /\ k \in Nat /\ c \in Nat /\ k <= l
    BY <1>4, <2>2, EnumeratorAssumption DEF EnumeratorAssumption, AtLeast
  <2>4. k = l => j \in S \ FirstOf(S, n) /\ j # c
    BY <1>6, <2>1, <2>2 DEF AtLeast
  <2>5. k < l \/ (k = l /\ c < j)
    BY <1>3, <2>3, <2>4
  <2> QED  BY <2>1, <2>5 DEF Join!Precedes
<1>7. Join!Shows(L, <<k, c>>)
  <2> HIDE DEF L
  <2> QED  BY <1>5, <1>6 DEF Join!Shows, Join!Least
<1> QED  BY <1>1, <1>2, <1>5, <1>7 DEF c

\* The entries left when the current one is passed.
LEMMA OneLess ==
  ASSUME NEW r, NEW k, NEW S \in SUBSET Nat, IsFiniteSet(S),
         NEW n \in Nat, n < Cardinality(S)
  PROVE  LeftOf(r, k, S, n + 1) = LeftOf(r, k, S, n) \ {<<k, After(S, n)>>}
<1>1. FirstOf(S, n + 1) = FirstOf(S, n) \cup {After(S, n)}
  BY AfterIs
<1> QED  BY <1>1 DEF LeftOf

\* updateMatches finds the least key and the iterators that stand at it.
LEMMA MatchesFound ==
  ASSUME NEW r \in [Itrs -> SUBSET Keys], NEW ks, NEW skip \in BOOLEAN,
         \A i \in Itrs : r[i] # {} => ks[i] = Lowest(r[i]) /\ ~(skip /\ ks[i] = 0),
         \A i \in Itrs : r[i] = {} => ks[i] = NoKey \/ (skip /\ ks[i] = 0)
  PROVE  LET m == Matches(ks, skip)
         IN  /\ m.idxs = {} => \A i \in Itrs : r[i] = {}
             /\ m.idxs # {} => AtLeast(r, m.key, m.idxs, 0)
<1> DEFINE S == Eligible(ks, skip)
           V == {ks[i] : i \in S}
           k == LowKey(ks, S)
           T == {i \in S : ks[i] = k}
<1>1. Matches(ks, skip).key = k /\ Matches(ks, skip).idxs = T
  BY DEF Matches
<1>2. ASSUME NEW i \in Itrs, r[i] # {}
      PROVE  /\ ks[i] \in r[i] /\ ks[i] \in Nat /\ \A l \in r[i] : l \in Nat /\ ks[i] <= l
  <2>1. r[i] \in SUBSET Nat
    BY EnumeratorAssumption DEF EnumeratorAssumption
  <2> QED  BY <1>2, <2>1, LowestIs
<1>3. S = {i \in Itrs : r[i] # {}}
  <2>1. NoKey \notin Nat
    BY EnumeratorAssumption DEF EnumeratorAssumption
  <2>2. ASSUME NEW i \in Itrs
        PROVE  (ks[i] # NoKey /\ ~(skip /\ ks[i] = 0)) <=> r[i] # {}
    BY <1>2, <2>1
  <2> QED  BY <2>2 DEF Eligible
<1>4. CASE S = {}
  BY <1>1, <1>3, <1>4
<1>5. CASE S # {}
  <2>1. V \in SUBSET Nat /\ V # {}
    BY <1>2, <1>3, <1>5
  <2>2. k \in V /\ \A v \in V : k <= v
    BY <1>5, <2>1, LowestIs DEF LowKey
  <2> HIDE DEF k, S
  <2>3. \A i \in S : k <= ks[i]
    BY <2>2
  <2>4. k \in Nat /\ T # {}
    BY <2>1, <2>2
  <2>5. \A i \in Itrs : \A l \in r[i] : k <= l
    <3> SUFFICES ASSUME NEW i \in Itrs, NEW l \in r[i] PROVE k <= l
      OBVIOUS
    <3>1. ks[i] \in Nat /\ l \in Nat /\ ks[i] <= l
      BY <1>2
    <3>2. k <= ks[i]
      BY <1>3, <2>3
    <3> QED  BY <2>4, <3>1, <3>2
  <2>6. T = {i \in Itrs : k \in r[i]}
    <3>1. ASSUME NEW i \in Itrs, k \in r[i]
          PROVE  i \in T
      <4>1. i \in S /\ ks[i] \in Nat /\ ks[i] <= k
        BY <1>2, <1>3, <3>1
      <4> QED  BY <2>3, <2>4, <4>1
    <3>2. ASSUME NEW i \in T
          PROVE  i \in Itrs /\ k \in r[i]
      BY <1>2, <1>3
    <3> QED  BY <3>1, <3>2
  <2>7. 0 < Cardinality(T)
    <3>1. T \in SUBSET Itrs /\ IsFiniteSet(Itrs)
      BY <1>3, EnumeratorAssumption DEF EnumeratorAssumption
    <3>2. IsFiniteSet(T)
      BY <3>1, FS_Subset
    <3>3. Cardinality(T) \in Nat /\ Cardinality(T) # 0
      BY <2>4, <3>2, FS_CardinalityType, FS_EmptySet
    <3> QED  BY <3>3
  <2> HIDE DEF T
  <2> QED  BY <1>1, <2>4, <2>5, <2>6, <2>7 DEF AtLeast
<1> QED  BY <1>4, <1>5

-----------------------------------------------------------------------------
(* The steps.                                                              *)

\* An enumerator made anew, or moved to another key, stands at the least entry
\* of those its iterators have not passed, or there is none.
LEMMA StandsAtLeast ==
  ASSUME EInv', lowCurr' = 0, NEW skip \in BOOLEAN,
         lowK' = Matches(currKs', skip).key,
         lowIdxs' = Matches(currKs', skip).idxs,
         err' = IF lowIdxs' = {} THEN "done" ELSE "none",
         lowIdxs' = {} => \A i \in Itrs : rest'[i] = {}
  PROVE  Join!Shows(unpassed', current')
<1>1. CASE lowIdxs' = {}
  <2>1. unpassed' = {}
    BY <1>1 DEF unpassed
  <2>2. current' = NoKey
    BY <1>1 DEF current
  <2> QED  BY <2>1, <2>2 DEF Join!Shows
<1>2. CASE lowIdxs' # {}
  <2>1. AtLeast(rest', lowK', lowIdxs', lowCurr') /\ rest' \in [Itrs -> SUBSET Keys]
    BY <1>2 DEF EInv
  <2>2. /\ unpassed' = LeftOf(rest', lowK', lowIdxs', lowCurr')
        /\ current' = <<lowK', After(lowIdxs', lowCurr')>>
    BY <1>2 DEF unpassed, current, LeftOf, CurrentIdx
  <2> QED  BY <2>1, <2>2, ShownIsLeast
<1> QED  BY <1>1, <1>2

\* Where Next begins: the current entry is the least of those not passed, and
\* with it lowIdxs are all passed if lowCurr is the last of them.
LEMMA Here ==
  ASSUME EInv, err = "none"
  PROVE  /\ current = <<lowK, After(lowIdxs, lowCurr)>> /\ current # NoKey
         /\ unpassed = LeftOf(rest, lowK, lowIdxs, lowCurr)
         /\ lowIdxs \in SUBSET Nat /\ IsFiniteSet(lowIdxs)
         /\ lowCurr \in Nat /\ Cardinality(lowIdxs) \in Nat
         /\ unpassed \ {current} = LeftOf(rest, lowK, lowIdxs, lowCurr + 1)
         /\ lowCurr + 1 >= Cardinality(lowIdxs) =>
              unpassed \ {current} =
                {p \in Keys \X Itrs : p[1] \in rest[p[2]] \ {lowK}}
<1> DEFINE L == LeftOf(rest, lowK, lowIdxs, lowCurr)
           c == After(lowIdxs, lowCurr)
<1>1. AtLeast(rest, lowK, lowIdxs, lowCurr) /\ rest \in [Itrs -> SUBSET Keys]
  BY DEF EInv
<1>2. current = <<lowK, c>> /\ unpassed = L
  BY DEF current, unpassed, LeftOf, CurrentIdx
<1>3. <<lowK, c>> \in L /\ lowIdxs \in SUBSET Nat /\ IsFiniteSet(lowIdxs)
  BY <1>1, ShownIsLeast
<1>4. <<lowK, c>> # NoKey
  BY <1>3, EnumeratorAssumption DEF EnumeratorAssumption, LeftOf
<1>5. lowCurr \in Nat /\ lowCurr < Cardinality(lowIdxs)
  BY <1>1 DEF AtLeast
<1>6. Cardinality(lowIdxs) \in Nat
  BY <1>3, FS_CardinalityType
<1>7. LeftOf(rest, lowK, lowIdxs, lowCurr + 1) = L \ {<<lowK, c>>}
  BY <1>3, <1>5, OneLess
<1>8. ASSUME lowCurr + 1 >= Cardinality(lowIdxs)
      PROVE  LeftOf(rest, lowK, lowIdxs, lowCurr + 1)
               = {p \in Keys \X Itrs : p[1] \in rest[p[2]] \ {lowK}}
  <2>1. FirstOf(lowIdxs, lowCurr + 1) = lowIdxs
    BY <1>3, <1>5, <1>8, FirstOfAll
  <2>2. \A i \in Itrs : lowK \in rest[i] <=> i \in lowIdxs
    BY <1>1 DEF AtLeast
  <2> QED  BY <2>1, <2>2 DEF LeftOf
<1> HIDE DEF L, c
<1> QED  BY <1>2, <1>3, <1>4, <1>5, <1>6, <1>7, <1>8 DEF L, c

LEMMA StepSameKey ==
  ASSUME EInv, NextSameKey
  PROVE  EInv' /\ Join!Advance
<1>1. AtLeast(rest', lowK', lowIdxs', lowCurr')
  <2>1. lowCurr \in Nat /\ Cardinality(lowIdxs) \in Nat
    BY Here DEF NextSameKey
  <2> QED  BY <2>1 DEF EInv, AtLeast, NextSameKey
<1>2. EInv'
  BY <1>1 DEF EInv, NextSameKey
<1>3. rest' \in [Itrs -> SUBSET Keys]
  BY <1>2 DEF EInv
<1>4. /\ unpassed' = LeftOf(rest', lowK', lowIdxs', lowCurr')
      /\ current' = <<lowK', After(lowIdxs', lowCurr')>>
  BY DEF unpassed, current, LeftOf, CurrentIdx, NextSameKey
<1>5. Join!Shows(unpassed', current')
  BY <1>1, <1>3, <1>4, ShownIsLeast
<1>6. unpassed' = unpassed \ {current} /\ current # NoKey
  BY <1>4, Here DEF NextSameKey
<1> QED  BY <1>2, <1>5, <1>6 DEF Join!Advance

\* What Move does to the iterators at lowK.
LEMMA Moved ==
  ASSUME EInv, err = "none", UNCHANGED dicts,
         NEW S \in SUBSET lowIdxs, Move(S)
  PROVE  /\ rest' \in [Itrs -> SUBSET Keys]
         /\ dicts' \in [Itrs -> SUBSET Keys]
         /\ currKs' = [i \in Itrs |-> ItrCurrent(dicts'[i], rest'[i])]
         /\ \A i \in Itrs : rest'[i] \ {lowK} = rest[i] \ {lowK}
         /\ S = lowIdxs => \A i \in Itrs : rest'[i] = rest[i] \ {lowK}
<1>1. rest' = [i \in Itrs |-> IF i \in S THEN rest[i] \ {lowK} ELSE rest[i]]
  BY DEF Move
<1>2. rest' \in [Itrs -> SUBSET Keys] /\ dicts' \in [Itrs -> SUBSET Keys]
  BY <1>1 DEF EInv
<1>3. currKs' = [i \in Itrs |-> ItrCurrent(dicts'[i], rest'[i])]
  <2>1. \A i \in Itrs : i \notin S => currKs[i] = ItrCurrent(dicts[i], rest'[i])
    BY <1>1 DEF EInv
  <2> QED  BY <2>1 DEF Move
<1>4. \A i \in Itrs : rest'[i] \ {lowK} = rest[i] \ {lowK}
  BY <1>1
<1>5. ASSUME S = lowIdxs, NEW i \in Itrs
      PROVE  rest'[i] = rest[i] \ {lowK}
  <2>1. i \notin lowIdxs => lowK \notin rest[i]
    BY DEF EInv, AtLeast
  <2> QED  BY <1>1, <1>5, <2>1
<1> QED  BY <1>2, <1>3, <1>4, <1>5

LEMMA StepKey ==
  ASSUME EInv, NextKey
  PROVE  EInv' /\ Join!Advance
<1>1. err = "none" /\ lowCurr + 1 >= Cardinality(lowIdxs) /\ UNCHANGED dicts /\ Move(lowIdxs)
  BY DEF NextKey
<1>2. /\ rest' \in [Itrs -> SUBSET Keys] /\ dicts' \in [Itrs -> SUBSET Keys]
      /\ currKs' = [i \in Itrs |-> ItrCurrent(dicts'[i], rest'[i])]
      /\ \A i \in Itrs : rest'[i] = rest[i] \ {lowK}
  BY <1>1, Moved
<1>3. ASSUME NEW i \in Itrs
      PROVE  /\ rest'[i] # {} => currKs'[i] = Lowest(rest'[i]) /\ currKs'[i] # 0
             /\ rest'[i] = {} => currKs'[i] = NoKey \/ currKs'[i] = 0
  <2>1. currKs'[i] = ItrCurrent(dicts'[i], rest'[i])
    BY <1>2
  <2>2. 0 \notin rest'[i]
    <3>1. lowK \in Nat /\ \A l \in rest[i] : lowK <= l
      BY <1>1 DEF EInv, AtLeast
    <3> QED  BY <1>2, <3>1
  <2>3. rest'[i] # {} => Lowest(rest'[i]) \in rest'[i]
    <3>1. rest'[i] \in SUBSET Nat
      BY <1>2, EnumeratorAssumption DEF EnumeratorAssumption
    <3> QED  BY <3>1, LowestIs
  <2> QED  BY <2>1, <2>2, <2>3 DEF ItrCurrent
<1>4. /\ lowK' = Matches(currKs', TRUE).key /\ lowIdxs' = Matches(currKs', TRUE).idxs
      /\ lowCurr' = 0 /\ err' = IF lowIdxs' = {} THEN "done" ELSE "none"
  BY DEF NextKey
<1>5. /\ lowIdxs' = {} => \A i \in Itrs : rest'[i] = {}
      /\ lowIdxs' # {} => AtLeast(rest', lowK', lowIdxs', 0)
  BY <1>2, <1>3, <1>4, MatchesFound
<1>6. EInv'
  BY <1>2, <1>4, <1>5 DEF EInv
<1>7. Join!Shows(unpassed', current')
  BY <1>4, <1>5, <1>6, StandsAtLeast
<1>8. unpassed' = unpassed \ {current} /\ current # NoKey
  <2>1. IsFiniteSet(lowIdxs') /\ lowIdxs' \in SUBSET Nat
    <3>1. lowIdxs' \in SUBSET Itrs
      BY <1>4 DEF Matches, Eligible
    <3> QED  BY <3>1, FS_Subset, EnumeratorAssumption DEF EnumeratorAssumption
  <2>2. FirstOf(lowIdxs', lowCurr') = {}
    BY <1>4, <2>1, FirstOfNone
  <2>3. unpassed' = {p \in Keys \X Itrs : p[1] \in rest[p[2]] \ {lowK}}
    BY <1>2, <2>2 DEF unpassed
  <2> QED  BY <1>1, <2>3, Here
<1> QED  BY <1>6, <1>7, <1>8 DEF Join!Advance

LEMMA StepFails ==
  ASSUME EInv, NextFails
  PROVE  EInv' /\ Join!Break
<1>1. err = "none" /\ lowCurr + 1 >= Cardinality(lowIdxs) /\ UNCHANGED <<dicts, lowK, lowIdxs>>
      /\ lowCurr' = lowCurr + 1 /\ err' = "error"
  BY DEF NextFails
<1>2. PICK S \in SUBSET lowIdxs : Move(S)
  BY DEF NextFails
<1>3. /\ rest' \in [Itrs -> SUBSET Keys] /\ dicts' \in [Itrs -> SUBSET Keys]
      /\ currKs' = [i \in Itrs |-> ItrCurrent(dicts'[i], rest'[i])]
      /\ \A i \in Itrs : rest'[i] \ {lowK} = rest[i] \ {lowK}
  BY <1>1, <1>2, Moved
<1>4. EInv'
  BY <1>1, <1>3 DEF EInv
<1>5. current # NoKey /\ current' = NoKey
  BY <1>1, Here DEF current
<1>6. unpassed' = unpassed \ {current}
  <2>1. FirstOf(lowIdxs', lowCurr') = lowIdxs
    BY <1>1, Here, FirstOfAll
  <2>2. \A i \in Itrs : lowK \in rest'[i] => i \in lowIdxs
    <3>1. \A i \in Itrs : rest'[i] \subseteq rest[i]
      BY <1>2 DEF Move
    <3> QED  BY <1>1, <3>1 DEF EInv, AtLeast
  <2>3. unpassed' = {p \in Keys \X Itrs : p[1] \in rest'[p[2]] \ {lowK}}
    BY <1>1, <2>1, <2>2 DEF unpassed
  <2>4. unpassed' = {p \in Keys \X Itrs : p[1] \in rest[p[2]] \ {lowK}}
    BY <1>3, <2>3
  <2> QED  BY <1>1, <2>4, Here
<1> QED  BY <1>4, <1>5, <1>6 DEF Join!Break

LEMMA StepNew ==
  ASSUME EInv, err # "none", NEW ds \in [Itrs -> SUBSET Keys], NewEnumerator(ds)
  PROVE  EInv' /\ Join!Restart
<1>1. /\ dicts' = ds /\ rest' = ds /\ currKs' = FirstKeys(ds)
      /\ lowK' = Matches(currKs', FALSE).key /\ lowIdxs' = Matches(currKs', FALSE).idxs
      /\ lowCurr' = 0 /\ err' = IF lowIdxs' = {} THEN "done" ELSE "none"
  BY DEF NewEnumerator
<1>2. ASSUME NEW i \in Itrs
      PROVE  /\ ds[i] # {} => currKs'[i] = Lowest(ds[i])
             /\ ds[i] = {} => currKs'[i] = NoKey
  BY <1>1 DEF FirstKeys, ItrCurrent
<1>3. /\ lowIdxs' = {} => \A i \in Itrs : rest'[i] = {}
      /\ lowIdxs' # {} => AtLeast(rest', lowK', lowIdxs', 0)
  BY <1>1, <1>2, MatchesFound
<1>4. EInv'
  BY <1>1, <1>3 DEF EInv, FirstKeys
<1>5. Join!Shows(unpassed', current')
  BY <1>1, <1>3, <1>4, StandsAtLeast
<1>6. current = NoKey
  BY DEF current
<1>7. unpassed' \in SUBSET (Keys \X Itrs)
  BY DEF unpassed
<1> QED  BY <1>4, <1>5, <1>6, <1>7 DEF Join!Restart

\* The enumerator implements the ordered join (ImplementsJoin): every call of
\* Next passes the entry Current returned, which was the least, or ends the join
\* with an error; a new enumerator begins a new join.
THEOREM EnumeratorJoins == EnumeratorSpec => ImplementsJoin
<1>1. NoEnumerator => EInv /\ Join!JoinInit
  <2> SUFFICES ASSUME NoEnumerator PROVE EInv /\ Join!JoinInit
    OBVIOUS
  <2>1. EInv
    BY DEF NoEnumerator, EInv, FirstKeys
  <2>2. unpassed = {} /\ current = NoKey
    BY DEF NoEnumerator, unpassed, current
  <2> QED  BY <2>1, <2>2 DEF Join!JoinInit, Join!Shows
<1>2. EInv /\ [EnumeratorNext]_itrVars => EInv' /\ [Join!JoinNext]_(Join!joinVars)
  <2> SUFFICES ASSUME EInv, [EnumeratorNext]_itrVars
               PROVE  EInv' /\ [Join!JoinNext]_(Join!joinVars)
    OBVIOUS
  <2>1. CASE NextSameKey
    BY <2>1, StepSameKey DEF Join!JoinNext
  <2>2. CASE NextKey
    BY <2>2, StepKey DEF Join!JoinNext
  <2>3. CASE NextFails
    BY <2>3, StepFails DEF Join!JoinNext
  <2>4. ASSUME err # "none", NEW ds \in [Itrs -> SUBSET Keys], NewEnumerator(ds)
        PROVE  EInv' /\ [Join!JoinNext]_(Join!joinVars)
    BY <2>4, StepNew DEF Join!JoinNext
  <2>5. CASE UNCHANGED itrVars
    <3>1. EInv'
      BY <2>5 DEF itrVars, EInv
    <3>2. unpassed' = unpassed /\ current' = current
      BY <2>5 DEF itrVars, unpassed, current, CurrentIdx
    <3> QED  BY <3>1, <3>2 DEF Join!joinVars
  <2> QED  BY <2>1, <2>2, <2>3, <2>4, <2>5 DEF EnumeratorNext, Next
<1> QED  BY <1>1, <1>2, PTL DEF EnumeratorSpec, ImplementsJoin, Join!JoinSpec

-----------------------------------------------------------------------------
(* The terms the iterators of the two merges go through.                   *)

IsOpaque(o) ==
  o = [FieldIDtoThesaurusID |-> o.FieldIDtoThesaurusID, Synonyms |-> o.Synonyms,
       len |-> o.len, thesaurusAddrs |-> o.thesaurusAddrs]

ThesaurusIn(x) == x = Nothing \/ DOMAIN x.fst \subseteq Keys

FieldToThesaurus(b) ==
  [id \in {FieldID(BatchFields(b), f) : f \in BatchFields(b)} |->
     Rank(FieldsIn(b), CHOOSE f \in BatchFields(b) : FieldID(BatchFields(b), f) = id)]

LEMMA ReallocIs ==
  ASSUME NEW o, IsOpaque(o), NEW b
  PROVE  IsOpaque(realloc(o, b)) /\ realloc(o, b).FieldIDtoThesaurusID = FieldToThesaurus(b)
<1> DEFINE n == Cardinality(Members(TermsIn(b)))
           x == FieldToThesaurus(b)
           y == [k \in 1..(IF Len(o.Synonyms) > n THEN Len(o.Synonyms) ELSE n) |->
                   IF k <= Len(o.Synonyms) THEN o.Synonyms[k] ELSE {}]
<1>1. realloc(o, b) = [o EXCEPT !.FieldIDtoThesaurusID = x, !.Synonyms = y, !.len = n]
  BY DEF realloc, FieldToThesaurus, IsOpaque
<1> HIDE DEF x, y, n
<1>2. realloc(o, b) = [FieldIDtoThesaurusID |-> x, Synonyms |-> y,
                       len |-> n, thesaurusAddrs |-> o.thesaurusAddrs]
  BY <1>1 DEF IsOpaque
<1> QED  BY <1>2 DEF IsOpaque, x

LEMMA ProcessIs ==
  ASSUME NEW o, IsOpaque(o), NEW b
  PROVE  /\ IsOpaque(process(o, b))
         /\ process(o, b).FieldIDtoThesaurusID = o.FieldIDtoThesaurusID
<1> DEFINE y == [k \in DOMAIN o.Synonyms |->
        o.Synonyms[k] \cup UNION {
          {<<Rank(SynonymsIn(b), <<b[e].field, s>>), b[e].doc>> : s \in Members(b[e].syns)} :
            e \in {x \in DOMAIN b : Rank(TermsIn(b), TermsIn(b)[x]) + 1 = k}}]
<1>1. process(o, b) = [o EXCEPT !.Synonyms = y]
  BY DEF process, IsOpaque
<1> HIDE DEF y
<1>2. process(o, b) = [FieldIDtoThesaurusID |-> o.FieldIDtoThesaurusID, Synonyms |-> y,
                       len |-> o.len, thesaurusAddrs |-> o.thesaurusAddrs]
  BY <1>1 DEF IsOpaque
<1> QED  BY <1>2 DEF IsOpaque

\* A thesaurus that is written has terms of the batch.
LEMMA WrittenKeys ==
  ASSUME NEW o, IsOpaque(o), NEW b, o.FieldIDtoThesaurusID = FieldToThesaurus(b),
         \A k \in DOMAIN b : b[k].term \in Keys
  PROVE  /\ IsOpaque(writeThesauri(o, b))
         /\ \A f \in BatchFields(b) :
              ThesaurusIn(AddrForField(writeThesauri(o, b), FieldID(BatchFields(b), f)))
<1> DEFINE list(f, t) == o.Synonyms[Rank(TermsIn(b), <<f, t>>) + 1]
           terms(f) == {u \in {p[2] : p \in {q \in Members(TermsIn(b)) : q[1] = f}} :
                          list(f, u) # {}}
           thesaurus(f) == [fst |-> [t \in terms(f) |-> list(f, t)],
                            synTermMap |-> SynonymIDtoTerm(b, f)]
           ids == {Rank(FieldsIn(b), f) : f \in BatchFields(b)}
           y == [id \in ids \cup DOMAIN o.thesaurusAddrs |->
                   IF id \in ids
                   THEN thesaurus(CHOOSE f \in BatchFields(b) : Rank(FieldsIn(b), f) = id)
                   ELSE o.thesaurusAddrs[id]]
<1>1. writeThesauri(o, b) = [o EXCEPT !.thesaurusAddrs = y]
  BY DEF writeThesauri, IsOpaque
<1>2. ASSUME NEW f PROVE terms(f) \subseteq Keys
  BY DEF Members, TermsIn
<1>3. ASSUME NEW f PROVE ThesaurusIn(thesaurus(f))
  <2> DEFINE S == terms(f)
  <2>1. DOMAIN thesaurus(f).fst = S
    OBVIOUS
  <2> HIDE DEF S, thesaurus
  <2> QED  BY <1>2, <2>1 DEF ThesaurusIn, S
<1>4. ASSUME NEW id \in ids PROVE id \in DOMAIN y /\ ThesaurusIn(y[id])
  <2> HIDE DEF thesaurus, ids
  <2> QED  BY <1>3, <1>4
<1>5. ASSUME NEW f \in BatchFields(b)
      PROVE  /\ FieldID(BatchFields(b), f) \in DOMAIN FieldToThesaurus(b)
             /\ FieldToThesaurus(b)[FieldID(BatchFields(b), f)] \in ids
  BY DEF FieldToThesaurus
<1> HIDE DEF y, ids
<1> DEFINE w == writeThesauri(o, b)
<1>6. w = [FieldIDtoThesaurusID |-> o.FieldIDtoThesaurusID, Synonyms |-> o.Synonyms,
           len |-> o.len, thesaurusAddrs |-> y]
  BY <1>1 DEF IsOpaque
<1> HIDE DEF w
<1>7. IsOpaque(w) /\ w.FieldIDtoThesaurusID = FieldToThesaurus(b) /\ w.thesaurusAddrs = y
  BY <1>6 DEF IsOpaque
<1>8. ASSUME NEW f \in BatchFields(b)
      PROVE  ThesaurusIn(AddrForField(w, FieldID(BatchFields(b), f)))
  BY <1>4, <1>5, <1>7 DEF AddrForField, ThesaurusIn
<1> QED  BY <1>7, <1>8 DEF w

\* The enumerator is through when a merge makes another, and what its iterators
\* go through are keys.
JoinInv ==
  /\ EInv
  /\ section = "text" => plan \in Plans /\ (pc = "field" => err = "done")
  /\ section = "synonyms" =>
       /\ IsOpaque(so)
       /\ \A i \in Itrs : batches[i] \in SynBatches[i]
       /\ \A i \in Itrs : thesauri[i] = Nothing \/
            \A f \in DOMAIN thesauri[i] : ThesaurusIn(thesauri[i][f])
       /\ synPc \in {"build", "field"} => err = "done"

LEMMA InitJoinInv == SectionsInit => JoinInv /\ Join!JoinInit
<1> SUFFICES ASSUME SectionsInit PROVE JoinInv /\ Join!JoinInit
  OBVIOUS
<1>1. EInv /\ err = "done"
  BY DEF SectionsInit, NoEnumerator, EInv, FirstKeys
<1>2. Join!JoinInit
  <2>1. unpassed = {} /\ current = NoKey
    BY DEF SectionsInit, NoEnumerator, unpassed, current
  <2> QED  BY <2>1 DEF Join!JoinInit, Join!Shows
<1>3. section = "text" => plan \in Plans
  BY DEF SectionsInit, TermInputs
<1>4. section = "synonyms" => \A i \in Itrs : batches[i] \in SynBatches[i]
  BY DEF SectionsInit, SynonymInputs
<1>5. IsOpaque(so) /\ \A i \in Itrs : thesauri[i] = Nothing
  BY DEF SectionsInit, SynonymsStart, NewOpaque, IsOpaque
<1> QED  BY <1>1, <1>2, <1>3, <1>4, <1>5 DEF JoinInv

\* A call of Next is a step of the join.
LEMMA NextJoins ==
  ASSUME EInv, Next
  PROVE  EInv' /\ Join!JoinNext /\ (err' = "error" \/ err' \in {"none", "done"})
<1>1. CASE NextSameKey
  BY <1>1, StepSameKey DEF Join!JoinNext, NextSameKey
<1>2. CASE NextKey
  BY <1>2, StepKey DEF Join!JoinNext, NextKey
<1>3. CASE NextFails
  BY <1>3, StepFails DEF Join!JoinNext, NextFails
<1> QED  BY <1>1, <1>2, <1>3 DEF Next

LEMMA EnumeratorStays ==
  ASSUME EInv, UNCHANGED itrVars
  PROVE  EInv' /\ UNCHANGED Join!joinVars /\ err' = err
<1>1. EInv' /\ err' = err
  BY DEF itrVars, EInv
<1>2. unpassed' = unpassed /\ current' = current
  BY DEF itrVars, unpassed, current, CurrentIdx
<1> QED  BY <1>1, <1>2 DEF Join!joinVars

LEMMA TextJoins ==
  ASSUME JoinInv, Text
  PROVE  JoinInv' /\ [Join!JoinNext]_(Join!joinVars)
<1>1. section = "text" /\ section' = "text" /\ plan \in Plans /\ EInv
      /\ (pc = "field" => err = "done")
  BY DEF Text, JoinInv
<1> SUFFICES EInv' /\ plan' = plan /\ (pc' = "field" => err' = "done")
             /\ [Join!JoinNext]_(Join!joinVars)
  BY <1>1 DEF JoinInv
<1>2. CASE StartField
  <2>1. PICK ds \in [Itrs -> SUBSET plan.terms] : NewEnumerator(ds)
    BY <1>2 DEF StartField
  <2>2. ds \in [Itrs -> SUBSET Keys]
    BY <1>1, MergeTermsAssumption
  <2>3. err # "none" /\ pc' = "entry" /\ plan' = plan
    BY <1>1, <1>2 DEF StartField, fixed
  <2> QED  BY <1>1, <2>1, <2>2, <2>3, StepNew DEF Join!JoinNext
<1>3. CASE FinishPrevTerm
  <2>1. UNCHANGED <<itrVars, plan>> /\ pc' = "begin"
    BY <1>3 DEF FinishPrevTerm, fixed
  <2> QED  BY <1>1, <2>1, EnumeratorStays
<1>4. CASE BeginPostings
  <2>1. UNCHANGED <<itrVars, plan>> /\ pc' \in {"failed", "postings"}
    BY <1>4 DEF BeginPostings, fixed
  <2> QED  BY <1>1, <2>1, EnumeratorStays
<1>5. CASE AddPosting
  <2>1. UNCHANGED <<itrVars, plan, pc>> /\ pc = "postings"
    BY <1>5 DEF AddPosting, fixed
  <2> QED  BY <1>1, <2>1, EnumeratorStays
<1>6. CASE EndPostings
  <2>1. Next /\ plan' = plan /\ pc' \in {"failed", "entry"}
    BY <1>6 DEF EndPostings, fixed
  <2> QED  BY <1>1, <2>1, NextJoins
<1>7. CASE FinishField
  <2>1. UNCHANGED <<itrVars, plan>> /\ err = "done"
    BY <1>7 DEF FinishField, fixed
  <2> QED  BY <1>1, <2>1, EnumeratorStays
<1> QED  BY <1>2, <1>3, <1>4, <1>5, <1>6, <1>7 DEF Text, MergeNext

LEMMA SynonymsJoin ==
  ASSUME JoinInv, SynonymSection
  PROVE  JoinInv' /\ [Join!JoinNext]_(Join!joinVars)
<1> DEFINE ThesauriIn == \A i \in Itrs : thesauri[i] = Nothing \/
                           \A f \in DOMAIN thesauri[i] : ThesaurusIn(thesauri[i][f])
<1>1. /\ section = "synonyms" /\ section' = "synonyms" /\ EInv
      /\ IsOpaque(so) /\ (\A i \in Itrs : batches[i] \in SynBatches[i]) /\ ThesauriIn
      /\ synPc \in {"build", "field"} => err = "done"
  BY DEF SynonymSection, JoinInv
<1> SUFFICES /\ EInv' /\ [Join!JoinNext]_(Join!joinVars)
             /\ batches' = batches
             /\ IsOpaque(so)' /\ ThesauriIn'
             /\ synPc' \in {"build", "field"} => err' = "done"
  BY <1>1 DEF JoinInv
<1>2. ASSUME UNCHANGED <<batches, so, thesauri>>
      PROVE  batches' = batches /\ IsOpaque(so)' /\ ThesauriIn'
  BY <1>1, <1>2
<1> HIDE DEF ThesauriIn
<1>3. CASE BuildSegment
  <2>1. UNCHANGED <<itrVars, batches>> /\ synPc = "build"
    BY <1>3 DEF BuildSegment
  <2> DEFINE O(b) == IF b = <<>> THEN so ELSE writeThesauri(process(realloc(so, b), b), b)
  <2>2. PICK i \in Itrs :
          /\ thesauri' = [thesauri EXCEPT ![i] =
               [f \in BatchFields(batches[i]) |->
                  AddrForField(O(batches[i]), FieldID(BatchFields(batches[i]), f))]]
          /\ so' = ResetOpaque(O(batches[i]))
    BY <1>3 DEF BuildSegment
  <2> DEFINE b == batches[i]
             o == O(b)
  <2>3. IsOpaque(o) /\ \A f \in BatchFields(b) : ThesaurusIn(AddrForField(o, FieldID(BatchFields(b), f)))
    <3>1. CASE b = <<>>
      <4>1. BatchFields(b) = {}
        BY <3>1 DEF BatchFields, Members, FieldsIn
      <4> QED  BY <1>1, <3>1, <4>1
    <3>2. CASE b # <<>>
      <4>1. \A k \in DOMAIN b : b[k].term \in Keys
        <5> DEFINE Entry == [doc : Docs(i), field : Nat, term : Keys, syns : Seq(Nat)]
        <5>1. b \in Seq(Entry)
          BY <1>1, SynonymsAssumption
        <5>2. \A e \in Entry : e.term \in Keys
          OBVIOUS
        <5> HIDE DEF Entry
        <5> QED  BY <5>1, <5>2
      <4> DEFINE o1 == realloc(so, b)  o2 == process(o1, b)
      <4>2. IsOpaque(o1) /\ o1.FieldIDtoThesaurusID = FieldToThesaurus(b)
        BY <1>1, ReallocIs
      <4> HIDE DEF o1
      <4>3. IsOpaque(o2) /\ o2.FieldIDtoThesaurusID = FieldToThesaurus(b)
        BY <4>2, ProcessIs
      <4> HIDE DEF o2
      <4>4. o = writeThesauri(o2, b)
        BY <3>2 DEF o1, o2
      <4> HIDE DEF o, b
      <4> QED  BY <4>1, <4>3, <4>4, WrittenKeys
    <3> QED  BY <3>1, <3>2
  <2>4. IsOpaque(so)'
    <3> DEFINE y == [k \in DOMAIN o.Synonyms |-> IF k <= o.len THEN {} ELSE o.Synonyms[k]]
    <3> HIDE DEF o
    <3>1. so' = [o EXCEPT !.FieldIDtoThesaurusID = Nothing, !.Synonyms = y, !.len = 0]
      BY <2>2, <2>3 DEF ResetOpaque, IsOpaque, o
    <3> HIDE DEF y
    <3>2. so' = [FieldIDtoThesaurusID |-> Nothing, Synonyms |-> y,
                 len |-> 0, thesaurusAddrs |-> o.thesaurusAddrs]
      BY <2>3, <3>1 DEF IsOpaque
    <3> QED  BY <3>2 DEF IsOpaque
  <2>5. ThesauriIn'
    <3> DEFINE x == [f \in BatchFields(b) |-> AddrForField(o, FieldID(BatchFields(b), f))]
    <3>1. thesauri' = [thesauri EXCEPT ![i] = x]
      BY <2>2
    <3>2. \A f \in DOMAIN x : ThesaurusIn(x[f])
      <4> HIDE DEF o, b
      <4> QED  BY <2>3
    <3> HIDE DEF x
    <3>3. ASSUME NEW j \in Itrs
          PROVE  thesauri'[j] = Nothing \/ \A f \in DOMAIN thesauri'[j] : ThesaurusIn(thesauri'[j][f])
      BY <1>1, <3>1, <3>2 DEF ThesauriIn
    <3> QED  BY <3>3 DEF ThesauriIn
  <2>6. EInv' /\ UNCHANGED Join!joinVars /\ err' = err
    BY <1>1, <2>1, EnumeratorStays
  <2> QED  BY <1>1, <2>1, <2>4, <2>5, <2>6
<1>4. CASE SynonymsClosed
  <2>1. UNCHANGED <<itrVars, batches, so, thesauri>> /\ synPc' = "closed"
    BY <1>4 DEF SynonymsClosed
  <2> QED  BY <1>1, <1>2, <2>1, EnumeratorStays
<1>5. CASE StartThesaurus
  <2>1. UNCHANGED <<batches, so, thesauri>> /\ err = "done"
    BY <1>1, <1>5 DEF StartThesaurus
  <2> DEFINE thes(f) == [i \in Itrs |-> Thesaurus(i, f)]
             ds(f) == [i \in Itrs |-> IF thes(f)[i] = Nothing THEN {} ELSE DOMAIN thes(f)[i].fst]
  <2>2. ASSUME NEW f PROVE ds(f) \in [Itrs -> SUBSET Keys]
    <3>1. ASSUME NEW i \in Itrs, Thesaurus(i, f) # Nothing
          PROVE  DOMAIN Thesaurus(i, f).fst \subseteq Keys
      BY <1>1, <3>1 DEF Thesaurus, ThesauriIn, ThesaurusIn
    <3> QED  BY <3>1
  <2> DEFINE f == Lowest(NewSynFields \ DOMAIN merged)
  <2>3. UNCHANGED itrVars \/ (NewEnumerator(ds(f)) /\ synPc' = "entry")
    BY <1>5 DEF StartThesaurus
  <2>4. CASE UNCHANGED itrVars
    BY <1>1, <1>2, <2>1, <2>4, EnumeratorStays
  <2>5. CASE NewEnumerator(ds(f)) /\ synPc' = "entry"
    <3> DEFINE e == ds(f)
    <3>1. e \in [Itrs -> SUBSET Keys] /\ NewEnumerator(e)
      BY <2>2, <2>5
    <3> HIDE DEF e
    <3> QED  BY <1>1, <1>2, <2>1, <2>5, <3>1, StepNew DEF Join!JoinNext
  <2> QED  BY <2>3, <2>4, <2>5
<1>6. CASE BeginSynonyms
  <2>1. UNCHANGED <<itrVars, batches, so, thesauri>> /\ synPc' \in {"failed", "codes"}
    BY <1>6 DEF BeginSynonyms
  <2> QED  BY <1>1, <1>2, <2>1, EnumeratorStays
<1>7. CASE AddSynonym
  <2>1. UNCHANGED <<itrVars, batches, so, thesauri>> /\ synPc' \in {"failed", "codes"}
    BY <1>7 DEF AddSynonym
  <2> QED  BY <1>1, <1>2, <2>1, EnumeratorStays
<1>8. CASE EndSynonyms
  <2>1. Next /\ UNCHANGED <<batches, so, thesauri>> /\ synPc' \in {"failed", "entry"}
    BY <1>8 DEF EndSynonyms
  <2> QED  BY <1>1, <1>2, <2>1, NextJoins
<1>9. CASE FinishThesaurus
  <2>1. UNCHANGED <<itrVars, batches, so, thesauri>> /\ err = "done"
    BY <1>9 DEF FinishThesaurus
  <2> QED  BY <1>1, <1>2, <2>1, EnumeratorStays
<1> QED
  BY <1>3, <1>4, <1>5, <1>6, <1>7, <1>8, <1>9 DEF SynonymSection, SynonymsNext

LEMMA JoinStep ==
  ASSUME JoinInv, [SectionsNext]_sectionVars
  PROVE  JoinInv' /\ [Join!JoinNext]_(Join!joinVars)
<1>1. CASE Text
  BY <1>1, TextJoins
<1>2. CASE SynonymSection
  BY <1>2, SynonymsJoin
<1>3. ASSUME UNCHANGED <<section, itrVars>>, section = "text" => UNCHANGED <<plan, pc>>,
             section = "synonyms" => UNCHANGED <<batches, so, thesauri, synPc>>
      PROVE  JoinInv' /\ [Join!JoinNext]_(Join!joinVars)
  <2>1. EInv' /\ UNCHANGED Join!joinVars /\ err' = err
    BY <1>3, EnumeratorStays DEF JoinInv
  <2> QED  BY <1>3, <2>1 DEF JoinInv
<1>4. CASE UNCHANGED sectionVars
  BY <1>3, <1>4 DEF sectionVars, mergeVars, fixed, synVars
<1>5. CASE VectorIndexes
  BY <1>3, <1>5 DEF VectorIndexes
<1>6. CASE Searches
  BY <1>3, <1>6 DEF Searches, mergeVars
<1>7. CASE LookUps
  BY <1>3, <1>7 DEF LookUps, mergeVars
<1> QED  BY <1>1, <1>2, <1>4, <1>5, <1>6, <1>7 DEF SectionsNext

\* In the merges of text and of synonyms the enumerator goes through the entries
\* of the segments as its comment promises (ImplementsJoin, enumerator.go:23-27):
\* neither makes another one before the last is through or goes on after it
\* failed, and what a thesaurus of a segment holds is keys.
THEOREM SectionsJoin == SectionsSpec => ImplementsJoin
BY InitJoinInv, JoinStep, PTL DEF SectionsSpec, ImplementsJoin, Join!JoinSpec

-----------------------------------------------------------------------------
(* What a coder holds.                                                     *)

InChunk(D, size, k)    == {m \in D : m \div size = k}
BelowChunk(D, size, k) == {m \in D : m \div size < k}

\* Those that share the chunk of n and come before it.
Sooner(D, size, n) == {m \in D : m < n /\ m \div size = n \div size}

\* The place of the entry of n behind all that comes before it.
Place(D, size, n) ==
  Cardinality(BelowChunk(D, size, n \div size)) + Cardinality(Sooner(D, size, n)) + 1

IsCoder(c) ==
  c = [chunkSize |-> c.chunkSize, total |-> c.total, cap |-> c.cap,
       chunkLens |-> c.chunkLens, currChunk |-> c.currChunk, chunkBuf |-> c.chunkBuf,
       final |-> c.final, sound |-> c.sound]

Entries(e) == {e[n] : n \in DOMAIN e}

\* A coder for at most N documents.
CoderTypes(c, N, e) ==
  /\ IsCoder(c) /\ c.sound = TRUE
  /\ c.chunkSize \in Nat \ {0} /\ c.total = NumChunks(c.chunkSize, N - 1)
  /\ c.cap \in Nat /\ c.total <= c.cap
  /\ c.chunkLens \in [0..(c.cap - 1) -> Nat]
  /\ \A k \in 0..(c.cap - 1) : k >= c.total => c.chunkLens[k] = 0
  /\ c.chunkBuf \in Seq(Entries(e)) /\ c.final \in Seq(Entries(e))

\* The entries e of the documents D have been added: those of the chunks that
\* are through are in final, those of the current chunk in chunkBuf.
Filled(c, N, D, e) ==
  /\ CoderTypes(c, N, e)
  /\ D \subseteq DOMAIN e /\ D \subseteq 0..(N - 1)
  /\ c.currChunk \in Nat /\ c.currChunk < c.total
  /\ \A n \in D : n \div c.chunkSize <= c.currChunk
  /\ \A k \in 0..(c.total - 1) :
       c.chunkLens[k] = IF k < c.currChunk THEN Cardinality(InChunk(D, c.chunkSize, k)) ELSE 0
  /\ Len(c.final) = Cardinality(BelowChunk(D, c.chunkSize, c.currChunk))
  /\ Len(c.chunkBuf) = Cardinality(InChunk(D, c.chunkSize, c.currChunk))
  /\ \A n \in D :
       IF n \div c.chunkSize < c.currChunk
       THEN c.final[Place(D, c.chunkSize, n)] = e[n]
       ELSE c.chunkBuf[Cardinality(Sooner(D, c.chunkSize, n)) + 1] = e[n]

\* And the current chunk is that of the last document.
Coded(c, N, D, e) ==
  /\ Filled(c, N, D, e)
  /\ c.currChunk = 0 \/ \E n \in D : n \div c.chunkSize = c.currChunk

LEMMA ChunkSets ==
  ASSUME NEW N \in Nat, NEW D \in SUBSET (0..(N - 1)), NEW size \in Nat \ {0}
  PROVE  /\ IsFiniteSet(D) /\ \A n \in D : n \in Nat /\ n \div size \in Nat
         /\ \A k : IsFiniteSet(InChunk(D, size, k)) /\ Cardinality(InChunk(D, size, k)) \in Nat
         /\ \A k : IsFiniteSet(BelowChunk(D, size, k))
                   /\ Cardinality(BelowChunk(D, size, k)) \in Nat
<1>1. IsFiniteSet(D)
  <2>1. IsFiniteSet(0..(N - 1))
    BY FS_Interval
  <2> QED  BY <2>1, FS_Subset
<1>2. ASSUME NEW k
      PROVE  /\ IsFiniteSet(InChunk(D, size, k)) /\ IsFiniteSet(BelowChunk(D, size, k))
  <2>1. InChunk(D, size, k) \in SUBSET D /\ BelowChunk(D, size, k) \in SUBSET D
    BY DEF InChunk, BelowChunk
  <2> QED  BY <1>1, <2>1, FS_Subset
<1>3. ASSUME NEW n \in D PROVE n \in Nat /\ n \div size \in Nat
  OBVIOUS
<1> QED  BY <1>1, <1>2, <1>3, FS_CardinalityType

\* The chunks below the next one are those below this one and this one.
LEMMA ChunkAfter ==
  ASSUME NEW N \in Nat, NEW D \in SUBSET (0..(N - 1)), NEW size \in Nat \ {0}, NEW k \in Nat
  PROVE  Cardinality(BelowChunk(D, size, k + 1))
           = Cardinality(BelowChunk(D, size, k)) + Cardinality(InChunk(D, size, k))
<1> DEFINE b == BelowChunk(D, size, k)  i == InChunk(D, size, k)
           a == BelowChunk(D, size, k + 1)
<1>1. /\ IsFiniteSet(b) /\ IsFiniteSet(i)
      /\ Cardinality(b) \in Nat /\ Cardinality(i) \in Nat
  BY ChunkSets
<1>2. a = b \cup i /\ b \cap i = {}
  <2>1. ASSUME NEW m \in D
        PROVE  /\ m \div size < k + 1 <=> m \div size < k \/ m \div size = k
               /\ ~(m \div size < k /\ m \div size = k)
    <3>1. m \div size \in Nat
      BY ChunkSets
    <3> QED  BY <3>1
  <2> QED  BY <2>1 DEF BelowChunk, InChunk
<1>3. Cardinality(a) = Cardinality(b) + Cardinality(i) - Cardinality({})
  BY <1>1, <1>2, FS_Union
<1> HIDE DEF a, b, i
<1>4. Cardinality(a) = Cardinality(b) + Cardinality(i)
  BY <1>1, <1>3, FS_EmptySet
<1> QED  BY <1>4 DEF a, b, i

LEMMA SoonerIs ==
  ASSUME NEW N \in Nat, NEW D \in SUBSET (0..(N - 1)), NEW size \in Nat \ {0}, NEW n \in D
  PROVE  /\ Cardinality(Sooner(D, size, n)) \in Nat
         /\ Cardinality(Sooner(D, size, n)) < Cardinality(InChunk(D, size, n \div size))
<1>1. /\ IsFiniteSet(InChunk(D, size, n \div size)) /\ n \in InChunk(D, size, n \div size)
      /\ \A m \in Sooner(D, size, n) : m \in InChunk(D, size, n \div size)
      /\ n \notin Sooner(D, size, n)
  <2>1. IsFiniteSet(InChunk(D, size, n \div size))
    BY ChunkSets
  <2>2. n \in Nat
    OBVIOUS
  <2> QED  BY <2>1, <2>2 DEF InChunk, Sooner
<1> QED  BY <1>1, SmallerSet

\* Close puts the entries of the last chunk behind the others.
Closed(c, N, D, e) ==
  /\ CoderTypes(c, N, e)
  /\ D \subseteq DOMAIN e /\ D \subseteq 0..(N - 1)
  /\ \A k \in 0..(c.total - 1) : c.chunkLens[k] = Cardinality(InChunk(D, c.chunkSize, k))
  /\ Len(c.final) = Cardinality(D)
  /\ \A n \in D : c.final[Place(D, c.chunkSize, n)] = e[n]

SameShape(c, d) == d.chunkSize = c.chunkSize /\ d.total = c.total /\ d.cap = c.cap

LEMMA CloseIs ==
  ASSUME NEW c, NEW N \in Nat \ {0}, NEW D, NEW e, Filled(c, N, D, e)
  PROVE  Closed(Close(c), N, D, e) /\ SameShape(c, Close(c))
<1> DEFINE size == c.chunkSize  k == c.currChunk
           lens == [c.chunkLens EXCEPT ![k] = Len(c.chunkBuf)]
           fin == c.final \o c.chunkBuf
           x == Close(c)
<1>1. /\ IsCoder(c) /\ c.sound = TRUE /\ size \in Nat \ {0} /\ c.total = NumChunks(size, N - 1)
      /\ c.cap \in Nat /\ c.total <= c.cap /\ c.chunkLens \in [0..(c.cap - 1) -> Nat]
      /\ \A j \in 0..(c.cap - 1) : j >= c.total => c.chunkLens[j] = 0
      /\ c.chunkBuf \in Seq(Entries(e)) /\ c.final \in Seq(Entries(e))
      /\ D \subseteq DOMAIN e /\ D \in SUBSET (0..(N - 1))
      /\ k \in Nat /\ k < c.total
      /\ \A n \in D : n \div size <= k
  BY DEF Filled, CoderTypes
<1>2. x = [chunkSize |-> size, total |-> c.total, cap |-> c.cap, chunkLens |-> lens,
           currChunk |-> c.cap, chunkBuf |-> c.chunkBuf, final |-> fin, sound |-> TRUE]
  <2>1. x = [c EXCEPT !.chunkLens = lens, !.final = fin, !.currChunk = c.cap]
    BY <1>1 DEF Close, IsCoder
  <2> HIDE DEF x, lens, fin
  <2> QED  BY <1>1, <2>1 DEF IsCoder
<1>3. c.total \in Nat
  BY <1>1 DEF NumChunks
<1>4. /\ lens \in [0..(c.cap - 1) -> Nat]
      /\ \A j \in 0..(c.cap - 1) : lens[j] = IF j = k THEN Len(c.chunkBuf) ELSE c.chunkLens[j]
  BY <1>1, <1>3, LenProperties
<1>5. fin \in Seq(Entries(e)) /\ Len(fin) = Len(c.final) + Len(c.chunkBuf)
  BY <1>1, ConcatProperties
<1>6. ASSUME NEW j \in 0..(c.total - 1) PROVE lens[j] = Cardinality(InChunk(D, size, j))
  <2>1. j \in 0..(c.cap - 1) /\ j \in Nat
    BY <1>1, <1>3
  <2>2. CASE j = k
    BY <1>4, <2>1, <2>2 DEF Filled
  <2>3. CASE j < k
    BY <1>4, <2>1, <2>3 DEF Filled
  <2>4. CASE k < j
    <3>1. InChunk(D, size, j) = {}
      <4> SUFFICES ASSUME NEW n \in D, n \div size = j PROVE FALSE
        BY DEF InChunk
      <4> QED  BY <1>1, <2>1, <2>4
    <3>2. lens[j] = 0
      BY <1>4, <2>1, <2>4 DEF Filled
    <3> QED  BY <3>1, <3>2, FS_EmptySet
  <2> QED  BY <1>1, <2>1, <2>2, <2>3, <2>4
<1>7. Len(fin) = Cardinality(D)
  <2>1. BelowChunk(D, size, k + 1) = D
    <3>1. ASSUME NEW n \in D PROVE n \div size < k + 1
      BY <1>1, ChunkSets
    <3> QED  BY <3>1 DEF BelowChunk
  <2>2. Cardinality(BelowChunk(D, size, k + 1))
          = Cardinality(BelowChunk(D, size, k)) + Cardinality(InChunk(D, size, k))
    BY <1>1, ChunkAfter
  <2> QED  BY <1>5, <2>1, <2>2 DEF Filled
<1>8. ASSUME NEW n \in D PROVE fin[Place(D, size, n)] = e[n]
  <2> DEFINE b == Cardinality(BelowChunk(D, size, n \div size))
             s == Cardinality(Sooner(D, size, n))
             i == Cardinality(InChunk(D, size, n \div size))
             lf == Len(c.final)  lb == Len(c.chunkBuf)
  <2>1. b \in Nat /\ s \in Nat /\ i \in Nat /\ s < i /\ n \div size \in Nat
        /\ lf \in Nat /\ lb \in Nat
    BY <1>1, ChunkSets, SoonerIs, LenProperties
  <2>2. Place(D, size, n) = b + s + 1
    BY DEF Place
  <2>3. CASE n \div size < k
    <3>1. b + i <= lf
      <4>1. Cardinality(BelowChunk(D, size, n \div size + 1)) = b + i
        BY <1>1, <2>1, ChunkAfter
      <4>2. BelowChunk(D, size, n \div size + 1) \in SUBSET BelowChunk(D, size, k)
        <5>1. ASSUME NEW m \in D, m \div size < n \div size + 1 PROVE m \div size < k
          <6>1. m \div size \in Nat
            BY <1>1, ChunkSets
          <6> HIDE DEF k, size
          <6> QED  BY <1>1, <2>1, <2>3, <5>1, <6>1
        <5> QED  BY <5>1 DEF BelowChunk
      <4>3. Cardinality(BelowChunk(D, size, n \div size + 1))
              <= Cardinality(BelowChunk(D, size, k))
        BY <1>1, <4>2, ChunkSets, FS_Subset
      <4> QED  BY <4>1, <4>3 DEF Filled
    <3> HIDE DEF b, s, i, lf, lb
    <3>2. b + s + 1 \in 1..(lf + lb) /\ b + s + 1 <= lf
      BY <2>1, <3>1
    <3>3. fin[b + s + 1] = c.final[b + s + 1]
      BY <1>1, <3>2, ConcatProperties DEF lf, lb
    <3> QED  BY <2>2, <2>3, <3>3 DEF Filled
  <2>4. CASE n \div size = k
    <3>1. lf = b /\ lb = i
      BY <2>4 DEF Filled
    <3> DEFINE at == b + s + 1
    <3> HIDE DEF b, s, i, lf, lb
    <3>2. at \in 1..(lf + lb) /\ ~(at <= lf) /\ at - lf = s + 1
      BY <2>1, <3>1
    <3>3. fin[at] = c.chunkBuf[s + 1]
      <4> HIDE DEF at
      <4> QED  BY <1>1, <3>2, ConcatProperties DEF lf, lb
    <3>4. c.chunkBuf[s + 1] = e[n]
      BY <1>1, <2>1, <2>4 DEF Filled, s
    <3>5. Place(D, size, n) = at
      BY <2>2
    <3> HIDE DEF at, fin, size
    <3> QED  BY <3>3, <3>4, <3>5
  <2>5. n \div size < k \/ n \div size = k
    <3>1. n \div size \in Nat /\ k \in Nat /\ n \div size <= k
      BY <1>1, <2>1
    <3> HIDE DEF k, size, b, s, i, lf, lb
    <3> QED  BY <3>1
  <2> QED  BY <2>3, <2>4, <2>5
<1> HIDE DEF x, lens, fin
<1>9. /\ IsCoder(x) /\ x.sound = TRUE /\ x.chunkSize = size /\ x.total = c.total /\ x.cap = c.cap
      /\ x.chunkLens = lens /\ x.chunkBuf = c.chunkBuf /\ x.final = fin
  BY <1>2 DEF IsCoder
<1>10. CoderTypes(x, N, e)
  <2>1. \A j \in 0..(c.cap - 1) : j >= c.total => lens[j] = 0
    BY <1>1, <1>3, <1>4
  <2> QED  BY <1>1, <1>4, <1>5, <1>9, <2>1 DEF CoderTypes
<1>11. Closed(x, N, D, e)
  BY <1>1, <1>6, <1>7, <1>8, <1>9, <1>10 DEF Closed
<1> QED  BY <1>9, <1>11 DEF SameShape, x

\* What a coder gives away of its parts.
LEMMA FilledParts ==
  ASSUME NEW c, NEW N \in Nat \ {0}, NEW D, NEW e, Filled(c, N, D, e)
  PROVE  /\ IsCoder(c) /\ c.sound = TRUE /\ c.chunkSize \in Nat \ {0}
         /\ c.total = NumChunks(c.chunkSize, N - 1) /\ c.total \in Nat \ {0}
         /\ c.cap \in Nat /\ c.total <= c.cap /\ c.chunkLens \in [0..(c.cap - 1) -> Nat]
         /\ \A k \in 0..(c.cap - 1) : k >= c.total => c.chunkLens[k] = 0
         /\ c.chunkBuf \in Seq(Entries(e)) /\ c.final \in Seq(Entries(e))
         /\ D \subseteq DOMAIN e /\ D \in SUBSET (0..(N - 1))
         /\ c.currChunk \in Nat /\ c.currChunk < c.total
<1>1. c.chunkSize \in Nat \ {0} /\ c.total = NumChunks(c.chunkSize, N - 1)
  BY DEF Filled, CoderTypes
<1>2. c.total \in Nat \ {0}
  BY <1>1 DEF NumChunks
<1> QED  BY <1>1, <1>2 DEF Filled, CoderTypes

LEMMA ChunkOf ==
  ASSUME NEW N \in Nat \ {0}, NEW size \in Nat \ {0}, NEW n \in 0..(N - 1)
  PROVE  /\ n \div size \in Nat /\ n \div size < NumChunks(size, N - 1)
         /\ \A m \in Nat : m < n => m \div size <= n \div size
<1>1. n \in Nat /\ n <= N - 1
  OBVIOUS
<1>2. n \div size <= (N - 1) \div size
  BY <1>1
<1>3. ASSUME NEW m \in Nat, m < n PROVE m \div size <= n \div size
  BY <1>1, <1>3
<1> QED  BY <1>1, <1>2, <1>3 DEF NumChunks

\* With a document of a later chunk the entries so far leave the buffer.
LEMMA EnterIs ==
  ASSUME NEW c, NEW N \in Nat \ {0}, NEW D, NEW e, Coded(c, N, D, e),
         NEW n \in 0..(N - 1), \A m \in D : m < n
  PROVE  /\ Filled(Enter(c, n), N, D, e) /\ SameShape(c, Enter(c, n))
         /\ Enter(c, n).currChunk = n \div c.chunkSize
<1> DEFINE size == c.chunkSize  k == n \div size
           z == Close(c)
           x == [z EXCEPT !.chunkBuf = <<>>, !.currChunk = k]
<1>1. /\ Filled(c, N, D, e) /\ IsCoder(c) /\ size \in Nat \ {0} /\ c.currChunk \in Nat
      /\ D \in SUBSET (0..(N - 1)) /\ c.total = NumChunks(size, N - 1)
  BY FilledParts DEF Coded
<1>2. k \in Nat /\ k < c.total /\ \A m \in D : m \div size <= k
  <2>1. k \in Nat /\ k < NumChunks(size, N - 1) /\ \A m \in Nat : m < n => m \div size <= k
    BY <1>1, ChunkOf
  <2>2. \A m \in D : m \in Nat /\ m < n
    BY <1>1
  <2> HIDE DEF k
  <2> QED  BY <1>1, <2>1, <2>2
<1>3. CASE k = c.currChunk
  <2>1. Enter(c, n) = c
    BY <1>3 DEF Enter
  <2> QED  BY <1>1, <1>3, <2>1 DEF SameShape
<1>4. CASE k # c.currChunk
  <2>1. c.currChunk < k
    <3>1. c.currChunk <= k
      <4>1. CASE c.currChunk = 0
        BY <1>2, <4>1
      <4>2. CASE \E m \in D : m \div size = c.currChunk
        BY <1>2, <4>2
      <4> QED  BY <4>1, <4>2 DEF Coded
    <3> HIDE DEF k
    <3> QED  BY <1>1, <1>2, <1>4, <3>1
  <2>2. Closed(z, N, D, e) /\ SameShape(c, z)
    BY <1>1, CloseIs
  <2>3. IsCoder(z)
    BY <2>2 DEF Closed, CoderTypes
  <2>4. x = [z EXCEPT !.chunkBuf = <<>>, !.currChunk = k]
    OBVIOUS
  <2> HIDE DEF x, z, k
  <2>5. x = [chunkSize |-> z.chunkSize, total |-> z.total, cap |-> z.cap,
             chunkLens |-> z.chunkLens, currChunk |-> k, chunkBuf |-> <<>>,
             final |-> z.final, sound |-> z.sound]
    BY <2>3, <2>4 DEF IsCoder
  <2>6. /\ IsCoder(x) /\ x.chunkSize = size /\ x.total = c.total /\ x.cap = c.cap
        /\ x.chunkLens = z.chunkLens /\ x.currChunk = k /\ x.chunkBuf = <<>>
        /\ x.final = z.final /\ x.sound = z.sound
        /\ z.chunkSize = size /\ z.total = c.total /\ z.cap = c.cap
    BY <2>2, <2>5 DEF IsCoder, SameShape
  <2> HIDE DEF size
  <2>7. CoderTypes(x, N, e)
    <3>1. <<>> \in Seq(Entries(e))
      OBVIOUS
    <3> QED  BY <2>2, <2>6, <3>1 DEF Closed, CoderTypes
  <2>8. \A m \in D : m \div size \in Nat /\ m \div size < k
    <3>1. ASSUME NEW m \in D PROVE m \div size \in Nat /\ m \div size < k
      <4>1. m \div size \in Nat
        BY <1>1, ChunkSets
      <4>2. m \div size <= c.currChunk
        BY <1>1 DEF Filled, size
      <4> QED  BY <1>1, <1>2, <2>1, <4>1, <4>2
    <3> QED  BY <3>1
  <2>9. BelowChunk(D, size, k) = D /\ InChunk(D, size, k) = {}
    BY <1>2, <2>8 DEF BelowChunk, InChunk
  <2>10. Len(x.final) = Cardinality(BelowChunk(D, size, k))
        /\ Len(x.chunkBuf) = Cardinality(InChunk(D, size, k))
    BY <2>2, <2>6, <2>9, FS_EmptySet DEF Closed
  <2>11. ASSUME NEW j \in 0..(x.total - 1)
         PROVE  x.chunkLens[j] = IF j < k THEN Cardinality(InChunk(D, size, j)) ELSE 0
    <3>1. x.chunkLens[j] = Cardinality(InChunk(D, size, j))
      BY <2>2, <2>6 DEF Closed
    <3>2. CASE ~ (j < k)
      <4>1. InChunk(D, size, j) = {}
        <5> SUFFICES ASSUME NEW m \in D, m \div size = j PROVE FALSE
          BY DEF InChunk
        <5> QED  BY <2>8, <3>2
      <4> QED  BY <3>1, <3>2, <4>1, FS_EmptySet
    <3> QED  BY <3>1, <3>2
  <2>12. \A m \in D : x.final[Place(D, size, m)] = e[m]
    BY <2>2, <2>6 DEF Closed
  <2>13. D \subseteq DOMAIN e
    BY <2>2 DEF Closed
  <2>14. Filled(x, N, D, e)
    <3>1. \A m \in D : m \div size <= k
      BY <1>2 DEF size
    <3> QED  BY <1>1, <1>2, <2>6, <2>7, <2>8, <2>10, <2>11, <2>12, <2>13, <3>1 DEF Filled
  <2>15. Enter(c, n) = x
    BY <1>4 DEF Enter, x, z, k, size
  <2> QED  BY <2>6, <2>14, <2>15 DEF SameShape, k, size
<1> QED  BY <1>3, <1>4

\* An entry goes behind the others of its chunk.
LEMMA AddIs ==
  ASSUME NEW c, NEW N \in Nat \ {0}, NEW D, NEW e, Coded(c, N, D, e),
         NEW n \in 0..(N - 1), n \in DOMAIN e, \A m \in D : m < n
  PROVE  Coded(Add(c, n, e[n]), N, D \cup {n}, e) /\ SameShape(c, Add(c, n, e[n]))
<1> DEFINE y == Enter(c, n)
           buf == Append(y.chunkBuf, e[n])
           x == Add(c, n, e[n])
           D2 == D \cup {n}
           size == c.chunkSize  k == n \div size
<1>1. Filled(y, N, D, e) /\ SameShape(c, y) /\ y.currChunk = k
  BY EnterIs
<1> HIDE DEF y
<1>2. /\ IsCoder(y) /\ size \in Nat \ {0} /\ y.chunkSize = size
      /\ D \in SUBSET (0..(N - 1)) /\ D2 \in SUBSET (0..(N - 1)) /\ D2 \subseteq DOMAIN e
      /\ y.chunkBuf \in Seq(Entries(e)) /\ y.total \in Nat \ {0} /\ y.cap \in Nat
      /\ y.total <= y.cap /\ y.currChunk < y.total
  BY <1>1, FilledParts DEF SameShape
<1>3. e[n] \in Entries(e)
  BY DEF Entries
<1>4. /\ buf \in Seq(Entries(e)) /\ Len(buf) = Len(y.chunkBuf) + 1
      /\ \A i \in 1..Len(y.chunkBuf) : buf[i] = y.chunkBuf[i]
      /\ buf[Len(y.chunkBuf) + 1] = e[n]
  BY <1>2, <1>3, AppendProperties
<1>5. x = [chunkSize |-> size, total |-> y.total, cap |-> y.cap, chunkLens |-> y.chunkLens,
           currChunk |-> y.currChunk, chunkBuf |-> buf, final |-> y.final, sound |-> y.sound]
  <2>1. x = [y EXCEPT !.chunkBuf = buf]
    BY <1>2 DEF Add, IsCoder, y
  <2> HIDE DEF x, buf
  <2> QED  BY <1>2, <2>1 DEF IsCoder
<1> HIDE DEF x, buf
<1>6. /\ IsCoder(x) /\ x.chunkSize = size /\ x.total = y.total /\ x.cap = y.cap
      /\ x.chunkLens = y.chunkLens /\ x.currChunk = y.currChunk /\ x.chunkBuf = buf
      /\ x.final = y.final /\ x.sound = y.sound
  BY <1>5 DEF IsCoder
<1>7. CoderTypes(x, N, e)
  BY <1>1, <1>2, <1>4, <1>6 DEF Filled, CoderTypes
<1>8. n \in Nat /\ n \notin D /\ k \in Nat /\ \A m \in D : m \in Nat /\ m # n /\ ~ (n < m)
  <2>1. k \in Nat /\ n \in Nat
    BY <1>2, ChunkOf
  <2>2. ASSUME NEW m \in D PROVE m \in Nat /\ m # n /\ ~ (n < m)
    <3>1. m \in Nat /\ m < n
      BY <1>2
    <3> QED  BY <2>1, <3>1
  <2> QED  BY <2>1, <2>2
<1>9. \A m \in D : m \div size \in Nat /\ m \div size <= k
  <2>1. \A m \in D : m \div size \in Nat
    BY <1>2, ChunkSets
  <2> QED  BY <1>1, <1>2, <2>1 DEF Filled
<1>10. ASSUME NEW j \in Nat, j <= k
       PROVE  BelowChunk(D2, size, j) = BelowChunk(D, size, j)
  <2>1. ~ (n \div size < j)
    <3> HIDE DEF size
    <3> QED  BY <1>8, <1>10
  <2> QED  BY <2>1 DEF BelowChunk
<1>11. ASSUME NEW j, j # k
       PROVE  InChunk(D2, size, j) = InChunk(D, size, j)
  BY <1>11 DEF InChunk
<1>12. ASSUME NEW m \in D
       PROVE  /\ Sooner(D2, size, m) = Sooner(D, size, m)
              /\ Place(D2, size, m) = Place(D, size, m)
  <2>1. Sooner(D2, size, m) = Sooner(D, size, m)
    BY <1>8 DEF Sooner
  <2>2. BelowChunk(D2, size, m \div size) = BelowChunk(D, size, m \div size)
    BY <1>9, <1>10
  <2> QED  BY <2>1, <2>2 DEF Place
<1>13. Sooner(D2, size, n) = InChunk(D, size, k)
  <2>1. \A m \in D : m < n
    OBVIOUS
  <2>2. ~ (n < n)
    BY <1>8
  <2> QED  BY <2>1, <2>2 DEF Sooner, InChunk
<1>14. InChunk(D2, size, k) = InChunk(D, size, k) \cup {n} /\ n \notin InChunk(D, size, k)
  BY <1>8 DEF InChunk
<1>15. /\ IsFiniteSet(InChunk(D, size, k)) /\ Cardinality(InChunk(D, size, k)) \in Nat
  BY <1>2, ChunkSets
<1>16. Cardinality(InChunk(D2, size, k)) = Cardinality(InChunk(D, size, k)) + 1
  BY <1>14, <1>15, FS_AddElement
<1>17. Len(y.chunkBuf) = Cardinality(InChunk(D, size, k))
       /\ Len(y.final) = Cardinality(BelowChunk(D, size, k))
  BY <1>1, <1>2 DEF Filled
<1>18. Len(x.chunkBuf) = Cardinality(InChunk(D2, size, k))
       /\ Len(x.final) = Cardinality(BelowChunk(D2, size, k))
  <2>1. Len(x.chunkBuf) = Cardinality(InChunk(D2, size, k))
    BY <1>4, <1>6, <1>16, <1>17
  <2>2. BelowChunk(D2, size, k) = BelowChunk(D, size, k)
    <3>1. k <= k
      BY <1>8
    <3> QED  BY <1>8, <1>10, <3>1
  <2> QED  BY <1>6, <1>17, <2>1, <2>2
<1>19. ASSUME NEW j \in 0..(x.total - 1)
       PROVE  x.chunkLens[j] = IF j < k THEN Cardinality(InChunk(D2, size, j)) ELSE 0
  <2>1. x.chunkLens[j] = IF j < k THEN Cardinality(InChunk(D, size, j)) ELSE 0
    BY <1>1, <1>2, <1>6 DEF Filled
  <2>2. j < k => j # k
    BY <1>8
  <2> QED  BY <1>11, <2>1, <2>2
<1>20. ASSUME NEW m \in D2
       PROVE  IF m \div size < k
              THEN x.final[Place(D2, size, m)] = e[m]
              ELSE x.chunkBuf[Cardinality(Sooner(D2, size, m)) + 1] = e[m]
  <2>1. CASE m = n
    <3>1. ~ (k < k)
      BY <1>8
    <3>2. buf[Cardinality(Sooner(D2, size, n)) + 1] = e[n]
      BY <1>4, <1>13, <1>17
    <3> QED  BY <1>6, <2>1, <3>1, <3>2
  <2>2. CASE m \in D /\ m \div size < k
    BY <1>1, <1>2, <1>6, <1>12, <2>2 DEF Filled
  <2>3. CASE m \in D /\ ~ (m \div size < k)
    <3>1. y.chunkBuf[Cardinality(Sooner(D, size, m)) + 1] = e[m]
      BY <1>1, <1>2, <2>3 DEF Filled
    <3>2. Cardinality(Sooner(D, size, m)) + 1 \in 1..Len(y.chunkBuf)
      <4>1. m \div size = k
        <5>1. m \div size \in Nat /\ m \div size <= k
          BY <1>9, <2>3
        <5> HIDE DEF k, size
        <5> QED  BY <1>8, <2>3, <5>1
      <4>2. /\ Cardinality(Sooner(D, size, m)) \in Nat
            /\ Cardinality(Sooner(D, size, m)) < Cardinality(InChunk(D, size, m \div size))
        BY <1>2, <2>3, SoonerIs
      <4>3. Cardinality(Sooner(D, size, m)) < Len(y.chunkBuf) /\ Len(y.chunkBuf) \in Nat
        BY <1>15, <1>17, <4>1, <4>2
      <4> HIDE DEF size
      <4> QED  BY <4>2, <4>3
    <3>3. buf[Cardinality(Sooner(D, size, m)) + 1] = e[m]
      BY <1>4, <3>1, <3>2
    <3> QED  BY <1>6, <1>12, <2>3, <3>3
  <2> QED  BY <2>1, <2>2, <2>3
<1>21. \A m \in D2 : m \div size <= k
  <2>1. k <= k
    BY <1>8
  <2> QED  BY <1>9, <2>1
<1>22. Filled(x, N, D2, e)
  <2>1. x.currChunk = k /\ x.chunkSize = size /\ D2 \subseteq 0..(N - 1)
        /\ x.currChunk \in Nat /\ x.currChunk < x.total
    BY <1>1, <1>2, <1>6, <1>8
  <2> HIDE DEF k, size, D2
  <2> QED  BY <1>2, <1>7, <1>18, <1>19, <1>20, <1>21, <2>1 DEF Filled, k
<1>23. x.currChunk = 0 \/ \E m \in D2 : m \div x.chunkSize = x.currChunk
  BY <1>1, <1>6
<1> QED  BY <1>1, <1>6, <1>22, <1>23 DEF Coded, SameShape, x

\* A coder that has nothing of a term.
Clean(c, N) ==
  /\ c = [chunkSize |-> c.chunkSize, total |-> c.total, cap |-> c.cap,
          chunkLens |-> [k \in 0..(c.cap - 1) |-> 0],
          currChunk |-> 0, chunkBuf |-> <<>>, final |-> <<>>, sound |-> TRUE]
  /\ c.chunkSize \in Nat \ {0} /\ c.total = NumChunks(c.chunkSize, N - 1)
  /\ c.cap \in Nat /\ c.total <= c.cap

LEMMA NoChunk ==
  ASSUME NEW size, NEW k
  PROVE  InChunk({}, size, k) = {} /\ BelowChunk({}, size, k) = {}
BY DEF InChunk, BelowChunk

LEMMA CleanIs ==
  ASSUME NEW c, NEW N \in Nat \ {0}, NEW e, Clean(c, N)
  PROVE  Coded(c, N, {}, e)
<1>1. /\ c.currChunk = 0 /\ c.chunkBuf = <<>> /\ c.final = <<>> /\ c.sound = TRUE
      /\ c.chunkLens = [k \in 0..(c.cap - 1) |-> 0]
  BY DEF Clean
<1>2. c.total \in Nat \ {0}
  BY DEF Clean, NumChunks
<1>3. <<>> \in Seq(Entries(e)) /\ Len(<<>>) = 0
  OBVIOUS
<1>4. IsCoder(c)
  BY <1>1 DEF Clean, IsCoder
<1>5. CoderTypes(c, N, e)
  BY <1>1, <1>3, <1>4 DEF Clean, CoderTypes
<1>6. \A k \in 0..(c.total - 1) : k \in 0..(c.cap - 1)
  BY <1>2 DEF Clean
<1>7. Filled(c, N, {}, e)
  <2>1. c.currChunk \in Nat /\ c.currChunk < c.total
    BY <1>1, <1>2
  <2>2. /\ Len(c.final) = Cardinality(BelowChunk({}, c.chunkSize, c.currChunk))
        /\ Len(c.chunkBuf) = Cardinality(InChunk({}, c.chunkSize, c.currChunk))
    BY <1>1, <1>3, NoChunk, FS_EmptySet
  <2>3. ASSUME NEW k \in 0..(c.total - 1)
        PROVE  c.chunkLens[k] =
                 IF k < c.currChunk THEN Cardinality(InChunk({}, c.chunkSize, k)) ELSE 0
    BY <1>1, <1>6
  <2> QED  BY <1>5, <2>1, <2>2, <2>3 DEF Filled
<1> QED  BY <1>1, <1>7 DEF Coded

LEMMA CodedIsClean ==
  ASSUME NEW c, NEW N \in Nat \ {0}, NEW e, Coded(c, N, {}, e)
  PROVE  Clean(c, N)
<1>1. Filled(c, N, {}, e) /\ c.currChunk = 0
  BY DEF Coded
<1>2. /\ IsCoder(c) /\ c.sound = TRUE /\ c.chunkSize \in Nat \ {0}
      /\ c.total = NumChunks(c.chunkSize, N - 1) /\ c.total \in Nat \ {0}
      /\ c.cap \in Nat /\ c.total <= c.cap /\ c.chunkLens \in [0..(c.cap - 1) -> Nat]
      /\ \A k \in 0..(c.cap - 1) : k >= c.total => c.chunkLens[k] = 0
      /\ c.chunkBuf \in Seq(Entries(e)) /\ c.final \in Seq(Entries(e))
  BY <1>1, FilledParts
<1>3. c.chunkBuf = <<>> /\ c.final = <<>>
  <2>1. Len(c.chunkBuf) = 0 /\ Len(c.final) = 0
    BY <1>1, NoChunk, FS_EmptySet DEF Filled
  <2> QED  BY <1>2, <2>1, EmptySeq
<1>4. ASSUME NEW k \in 0..(c.cap - 1) PROVE c.chunkLens[k] = 0
  <2>1. CASE k < c.total
    <3>1. k \in 0..(c.total - 1) /\ ~ (k < 0)
      BY <1>2, <2>1
    <3> QED  BY <1>1, <3>1 DEF Filled
  <2>2. CASE ~ (k < c.total)
    <3>1. k >= c.total
      BY <1>2, <2>2
    <3> QED  BY <1>2, <3>1
  <2> QED  BY <2>1, <2>2
<1>5. c.chunkLens = [k \in 0..(c.cap - 1) |-> 0]
  BY <1>2, <1>4
<1> QED  BY <1>1, <1>2, <1>3, <1>5 DEF Clean, IsCoder

\* Reset gives up a term, whether its lengths have become offsets or not.
LEMMA ResetIs ==
  ASSUME NEW c, NEW N \in Nat \ {0}, NEW D, NEW e, Closed(c, N, D, e), NEW x \in {c, AfterWrite(c)}
  PROVE  Clean(Reset(x), N) /\ SameShape(c, Reset(x))
<1>1. /\ IsCoder(c) /\ c.sound = TRUE /\ c.chunkSize \in Nat \ {0} /\ c.cap \in Nat
      /\ c.total = NumChunks(c.chunkSize, N - 1) /\ c.total <= c.cap
      /\ c.chunkLens \in [0..(c.cap - 1) -> Nat]
      /\ \A k \in 0..(c.cap - 1) : k >= c.total => c.chunkLens[k] = 0
  BY DEF Closed, CoderTypes
<1>2. c.total \in Nat
  BY <1>1 DEF NumChunks
<1>3. PICK lens :
        /\ x = [chunkSize |-> c.chunkSize, total |-> c.total, cap |-> c.cap, chunkLens |-> lens,
                currChunk |-> c.currChunk, chunkBuf |-> c.chunkBuf, final |-> c.final,
                sound |-> TRUE]
        /\ DOMAIN lens = 0..(c.cap - 1)
        /\ \A k \in 0..(c.cap - 1) : ~ (k < c.total) => lens[k] = 0
  <2>1. \A k \in 0..(c.cap - 1) : ~ (k < c.total) => c.chunkLens[k] = 0
    BY <1>1, <1>2
  <2>2. CASE x = c
    <3>1. DOMAIN c.chunkLens = 0..(c.cap - 1)
      BY <1>1
    <3> QED  BY <1>1, <2>1, <2>2, <3>1 DEF IsCoder
  <2>3. CASE x = AfterWrite(c) /\ x # c
    <3> DEFINE l == [i \in DOMAIN c.chunkLens |->
                       IF i < c.total THEN Written(c).offsets[i] ELSE c.chunkLens[i]]
    <3>1. x = [c EXCEPT !.chunkLens = l]
      BY <1>1, <2>3 DEF AfterWrite, IsCoder
    <3>2. DOMAIN l = 0..(c.cap - 1) /\ \A k \in 0..(c.cap - 1) : ~ (k < c.total) => l[k] = 0
      BY <1>1, <2>1
    <3> HIDE DEF l
    <3>3. x = [chunkSize |-> c.chunkSize, total |-> c.total, cap |-> c.cap, chunkLens |-> l,
                currChunk |-> c.currChunk, chunkBuf |-> c.chunkBuf, final |-> c.final,
                sound |-> TRUE]
      BY <1>1, <3>1 DEF IsCoder
    <3> QED  BY <3>2, <3>3
  <2> QED  BY <2>2, <2>3
<1> DEFINE r == [i \in DOMAIN x.chunkLens |-> IF i < x.total THEN 0 ELSE x.chunkLens[i]]
           y == Reset(x)
<1>4. y = [x EXCEPT !.final = <<>>, !.chunkBuf = <<>>, !.currChunk = 0, !.chunkLens = r]
  BY <1>3 DEF Reset
<1>5. r = [k \in 0..(c.cap - 1) |-> 0]
  BY <1>3
<1> HIDE DEF y, r
<1>6. y = [chunkSize |-> c.chunkSize, total |-> c.total, cap |-> c.cap, chunkLens |-> r,
           currChunk |-> 0, chunkBuf |-> <<>>, final |-> <<>>, sound |-> TRUE]
  BY <1>3, <1>4
<1>7. y.chunkSize = c.chunkSize /\ y.total = c.total /\ y.cap = c.cap
  BY <1>6
<1> QED  BY <1>1, <1>5, <1>6, <1>7 DEF Clean, SameShape, y

LEMMA SetChunkSizeIs ==
  ASSUME NEW c, NEW N \in Nat \ {0}, Clean(c, N), NEW size \in Nat \ {0}
  PROVE  /\ Clean(SetChunkSize(c, size, N - 1), N)
         /\ SetChunkSize(c, size, N - 1).chunkSize = size
<1> DEFINE t == NumChunks(size, N - 1)
           x == SetChunkSize(c, size, N - 1)
           zeros == [k \in 0..(c.cap - 1) |-> 0]
           more == [k \in 0..(t - 1) |-> 0]
<1>1. /\ c.chunkLens = zeros /\ c.currChunk = 0 /\ c.chunkBuf = <<>> /\ c.final = <<>>
      /\ c.sound = TRUE /\ c.cap \in Nat /\ IsCoder(c)
  BY DEF Clean, IsCoder
<1>2. t \in Nat
  BY DEF NumChunks
<1>3. CASE c.cap < t
  <2>1. x = [c EXCEPT !.chunkSize = size, !.total = t, !.cap = t, !.chunkLens = more]
    BY <1>3 DEF SetChunkSize
  <2> HIDE DEF x, t, zeros, more
  <2>2. x = [chunkSize |-> size, total |-> t, cap |-> t, chunkLens |-> more,
             currChunk |-> 0, chunkBuf |-> <<>>, final |-> <<>>, sound |-> TRUE]
    BY <1>1, <2>1 DEF IsCoder
  <2>3. x.chunkSize = size /\ x.total = t /\ x.cap = t /\ t <= t
    BY <1>2, <2>2
  <2> QED  BY <1>2, <2>2, <2>3 DEF Clean, x, t, more
<1>4. CASE ~ (c.cap < t)
  <2>1. x = [c EXCEPT !.chunkSize = size, !.total = t]
    BY <1>4 DEF SetChunkSize
  <2> HIDE DEF x, t, zeros
  <2>2. x = [chunkSize |-> size, total |-> t, cap |-> c.cap, chunkLens |-> zeros,
             currChunk |-> 0, chunkBuf |-> <<>>, final |-> <<>>, sound |-> TRUE]
    BY <1>1, <2>1 DEF IsCoder
  <2>3. x.chunkSize = size /\ x.total = t /\ x.cap = c.cap /\ t <= c.cap
    BY <1>1, <1>2, <1>4, <2>2
  <2> QED  BY <1>1, <2>2, <2>3 DEF Clean, x, t, zeros
<1> QED  BY <1>3, <1>4

\* A coder that has the size already keeps what it has.
LEMMA SameChunkSize ==
  ASSUME NEW c, NEW N \in Nat \ {0}, NEW D, NEW e, Coded(c, N, D, e)
  PROVE  SetChunkSize(c, c.chunkSize, N - 1) = c
<1>1. /\ IsCoder(c) /\ c.total = NumChunks(c.chunkSize, N - 1) /\ ~ (c.cap < c.total)
  <2>1. Filled(c, N, D, e)
    BY DEF Coded
  <2>2. c.cap \in Nat /\ c.total \in Nat \ {0} /\ c.total <= c.cap
    BY <2>1, FilledParts
  <2>3. ~ (c.cap < c.total)
    BY <2>2
  <2> QED  BY <2>1, <2>3, FilledParts
<1>2. SetChunkSize(c, c.chunkSize, N - 1) = [c EXCEPT !.chunkSize = c.chunkSize, !.total = c.total]
  BY <1>1 DEF SetChunkSize
<1> QED  BY <1>1, <1>2 DEF IsCoder

-----------------------------------------------------------------------------
(* What is read of what a coder wrote.                                     *)

EndOffsets(lengths, total) ==
  CHOOSE end : end = [i \in 0..(total - 1) |->
    lengths[i] + (IF i = 0 THEN 0 ELSE end[i - 1])]

LEMMA ModifiedIs ==
  ASSUME NEW lengths, NEW total
  PROVE  modifyLengthsToEndOffsets(lengths, total) = EndOffsets(lengths, total)
BY DEF modifyLengthsToEndOffsets, EndOffsets

\* The offsets are the sums of the lengths: a chunk whose offset differed from
\* the sum, the first of them, would follow one whose offset does not.
LEMMA OffsetsAre ==
  ASSUME NEW total \in Nat, NEW lengths, NEW f \in [0..(total - 1) -> Nat],
         \A i \in 0..(total - 1) : f[i] = lengths[i] + (IF i = 0 THEN 0 ELSE f[i - 1])
  PROVE  EndOffsets(lengths, total) = f
<1> DEFINE end == EndOffsets(lengths, total)
<1>1. end = [i \in 0..(total - 1) |-> lengths[i] + (IF i = 0 THEN 0 ELSE end[i - 1])]
  <2>1. f = [i \in 0..(total - 1) |-> lengths[i] + (IF i = 0 THEN 0 ELSE f[i - 1])]
    OBVIOUS
  <2> QED  BY <2>1 DEF EndOffsets
<1> HIDE DEF end
<1> DEFINE Differ == {i \in 0..(total - 1) : end[i] # f[i]}
<1>2. Differ = {}
  <2> SUFFICES ASSUME Differ # {} PROVE FALSE
    OBVIOUS
  <2>1. Differ \in SUBSET Nat
    OBVIOUS
  <2>2. PICK m \in Differ : \A i \in Differ : m <= i
    <3> HIDE DEF Differ
    <3>1. Lowest(Differ) \in Differ /\ \A i \in Differ : Lowest(Differ) <= i
      BY <2>1, LowestIs
    <3> QED  BY <3>1
  <2>3. m \in 0..(total - 1) /\ end[m] # f[m] /\ m \in Nat
    OBVIOUS
  <2>4. end[m] = lengths[m] + (IF m = 0 THEN 0 ELSE end[m - 1])
        /\ f[m] = lengths[m] + (IF m = 0 THEN 0 ELSE f[m - 1])
    BY <1>1, <2>3
  <2>5. m # 0
    BY <2>3, <2>4
  <2>6. m - 1 \in 0..(total - 1) /\ ~ (m <= m - 1)
    BY <2>3, <2>5
  <2>7. end[m - 1] = f[m - 1]
    <3>1. m - 1 \notin Differ
      <4> HIDE DEF Differ
      <4> QED  BY <2>2, <2>6
    <3> QED  BY <2>6, <3>1
  <2> QED  BY <2>3, <2>4, <2>5, <2>7
<1>3. \A i \in 0..(total - 1) : end[i] = f[i]
  BY <1>2
<1> QED  BY <1>1, <1>3 DEF end

\* The chunk of a document is there, and has its entry where those that come
\* before it put it.
LEMMA WrittenReads ==
  ASSUME NEW c, NEW N \in Nat \ {0}, NEW D, NEW e, Closed(c, N, D, e), NEW n \in D
  PROVE  /\ HasChunk(Written(c), n \div c.chunkSize)
         /\ Cardinality(Sooner(D, c.chunkSize, n)) \in Nat
         /\ Cardinality(Sooner(D, c.chunkSize, n)) < Len(Chunk(Written(c), n \div c.chunkSize))
         /\ Chunk(Written(c), n \div c.chunkSize)
              [Cardinality(Sooner(D, c.chunkSize, n)) + 1] = e[n]
<1> DEFINE size == c.chunkSize  k == n \div size
           end(j) == Cardinality(BelowChunk(D, size, j + 1))
           f == [i \in 0..(c.total - 1) |-> end(i)]
           w == Written(c)
<1>1. /\ size \in Nat \ {0} /\ c.total = NumChunks(size, N - 1) /\ c.total \in Nat
      /\ D \in SUBSET (0..(N - 1)) /\ c.final \in Seq(Entries(e)) /\ Len(c.final) = Cardinality(D)
  <2>1. size \in Nat \ {0} /\ c.total = NumChunks(size, N - 1)
    BY DEF Closed, CoderTypes
  <2>2. c.total \in Nat
    BY <2>1 DEF NumChunks
  <2> QED  BY <2>1, <2>2 DEF Closed, CoderTypes
<1>2. n \in 0..(N - 1) /\ k \in Nat /\ k < c.total /\ k \in 0..(c.total - 1)
  <2>1. n \in 0..(N - 1)
    BY <1>1
  <2>2. k \in Nat /\ k < c.total
    BY <1>1, <2>1, ChunkOf
  <2> HIDE DEF k
  <2> QED  BY <1>1, <2>1, <2>2
<1>3. ASSUME NEW j \in Nat
      PROVE  /\ Cardinality(BelowChunk(D, size, j)) \in Nat /\ end(j) \in Nat
             /\ end(j) = Cardinality(BelowChunk(D, size, j)) + Cardinality(InChunk(D, size, j))
             /\ Cardinality(InChunk(D, size, j)) \in Nat
             /\ end(j) <= Cardinality(D)
  <2>1. IsFiniteSet(D) /\ BelowChunk(D, size, j + 1) \in SUBSET D
    BY <1>1, ChunkSets DEF BelowChunk
  <2>2. end(j) <= Cardinality(D)
    BY <2>1, FS_Subset
  <2> QED  BY <1>1, <2>2, ChunkSets, ChunkAfter
<1>4. BelowChunk(D, size, 0) = {}
  <2> SUFFICES ASSUME NEW m \in D, m \div size < 0 PROVE FALSE
    BY DEF BelowChunk
  <2>1. m \div size \in Nat
    BY <1>1, ChunkSets
  <2> QED  BY <2>1
<1>5. ASSUME NEW i \in 0..(c.total - 1)
      PROVE  f[i] = c.chunkLens[i] + (IF i = 0 THEN 0 ELSE f[i - 1])
  <2>1. c.chunkLens[i] = Cardinality(InChunk(D, size, i))
    BY DEF Closed
  <2>2. i \in Nat /\ f[i] = end(i)
    BY <1>1
  <2>3. CASE i = 0
    <3>1. Cardinality(BelowChunk(D, size, i)) = 0
      BY <1>4, <2>3, FS_EmptySet
    <3> HIDE DEF end, f, size
    <3> QED  BY <1>3, <2>1, <2>2, <2>3, <3>1
  <2>4. CASE i # 0
    <3>1. i - 1 \in 0..(c.total - 1) /\ (i - 1) + 1 = i
      BY <1>1, <2>2, <2>4
    <3>2. f[i - 1] = Cardinality(BelowChunk(D, size, i))
      BY <3>1
    <3> HIDE DEF end, f, size
    <3> QED  BY <1>3, <2>1, <2>2, <2>4, <3>2
  <2> QED  BY <2>3, <2>4
<1>6. EndOffsets(c.chunkLens, c.total) = f
  <2>1. f \in [0..(c.total - 1) -> Nat]
    BY <1>3
  <2> HIDE DEF f
  <2> QED  BY <1>1, <1>5, <2>1, OffsetsAre
<1>7. c.final # <<>>
  <2>1. IsFiniteSet(D) /\ D # {}
    BY <1>1, ChunkSets
  <2>2. Cardinality(D) # 0
    BY <2>1, FS_EmptySet
  <2> QED  BY <1>1, <2>2
<1>8. w = [offsets |-> f, data |-> c.final]
  BY <1>6, <1>7, ModifiedIs DEF Written
<1> HIDE DEF w, f
<1>9. w # NotEncoded
  BY <1>7, <1>8 DEF NotEncoded
<1>10. DOMAIN f = 0..(c.total - 1) /\ f[k] = end(k)
  BY <1>2 DEF f
<1>11. HasChunk(w, k)
  <2>1. k \in DOMAIN w.offsets /\ w.offsets[k] = end(k) /\ w.data = c.final
    BY <1>2, <1>8, <1>10
  <2>2. end(k) <= Len(c.final)
    BY <1>1, <1>2, <1>3
  <2> QED  BY <2>1, <2>2 DEF HasChunk
<1> DEFINE start == Cardinality(BelowChunk(D, size, k))
           s == Cardinality(Sooner(D, size, n))
           i == Cardinality(InChunk(D, size, k))
<1>12. start \in Nat /\ i \in Nat /\ end(k) = start + i /\ end(k) <= Len(c.final)
  BY <1>1, <1>2, <1>3
<1>13. Chunk(w, k) = SubSeq(c.final, start + 1, end(k))
  <2>1. (IF k > 0 THEN w.offsets[k - 1] ELSE 0) = start
    <3>1. CASE k > 0
      <4>1. k - 1 \in 0..(c.total - 1) /\ (k - 1) + 1 = k
        <5> HIDE DEF k
        <5> QED  BY <1>1, <1>2, <3>1
      <4>2. f[k - 1] = start
        BY <4>1 DEF f
      <4> QED  BY <1>8, <3>1, <4>2
    <3>2. CASE ~ (k > 0)
      <4>1. k = 0
        <5> HIDE DEF k
        <5> QED  BY <1>2, <3>2
      <4> QED  BY <1>4, <3>2, <4>1, FS_EmptySet
    <3> QED  BY <3>1, <3>2
  <2>2. w.data = c.final /\ w.offsets[k] = end(k)
    BY <1>8, <1>10
  <2> HIDE DEF start, end, k
  <2> QED  BY <1>9, <2>1, <2>2 DEF Chunk
<1>14. s \in Nat /\ s < i
  BY <1>1, SoonerIs
<1>15. c.final[Place(D, size, n)] = e[n] /\ Place(D, size, n) = start + s + 1
  BY DEF Closed, Place
<1> DEFINE last1 == end(k)
<1> HIDE DEF start, s, i, last1
<1>16. /\ start + 1 \in 1..(Len(c.final) + 1) /\ last1 \in (start + 1 - 1)..Len(c.final)
       /\ s + 1 \in 1..(last1 - (start + 1) + 1) /\ (start + 1) + (s + 1) - 1 = start + s + 1
       /\ last1 - (start + 1) + 1 = i
  <2>1. start \in Nat /\ i \in Nat /\ last1 = start + i /\ last1 <= Len(c.final)
    BY <1>12 DEF last1
  <2>2. Len(c.final) \in Nat
    BY <1>1, LenProperties
  <2> QED  BY <1>14, <2>1, <2>2
<1>17. /\ Len(SubSeq(c.final, start + 1, last1)) = i
       /\ SubSeq(c.final, start + 1, last1)[s + 1] = c.final[start + s + 1]
  BY <1>1, <1>16, SubSeqProperties
<1>18. s < Len(Chunk(w, k)) /\ Chunk(w, k)[s + 1] = e[n]
  BY <1>13, <1>14, <1>15, <1>17 DEF last1
<1> QED  BY <1>11, <1>14, <1>18 DEF w, s

-----------------------------------------------------------------------------
(* What the merge has of a term.                                           *)

Posting(ls, p) == ls[p[1]][p[2]]
Numbers(S)     == {NewNum(p) : p \in S}
Located(ls, S) == {p \in S : Posting(ls, p).at # NoField}
Source(n)      == CHOOSE p \in Survivors : NewNum(p) = n

TfOf(ls, p) ==
  [freq |-> Posting(ls, p).freq, norm |-> IF Posting(ls, p).freq > 0 THEN p ELSE Nothing,
   hasLocs |-> Posting(ls, p).at # NoField]
LocOf(ls, p) == [src |-> p, field |-> NewFieldID(p[1], Posting(ls, p).at)]

TfEntries(ls)  == [n \in Numbers(Kept(ls)) |-> TfOf(ls, Source(n))]
LocEntries(ls) == [n \in Numbers(Located(ls, Kept(ls))) |-> LocOf(ls, Source(n))]

SizeOf(ls) == getChunkSize(plan.mode, Cardinality(Kept(ls)), NewDocCount)

\* Of a term whose lists are ls the postings S have been collected: r, t, l and
\* la are newRoaring, the two coders and what is known of the last posting.
Collected(ls, S, r, t, l, la) ==
  /\ r = Numbers(S)
  /\ Coded(t, NewDocCount, Numbers(S), TfEntries(ls))
  /\ Coded(l, NewDocCount, Numbers(Located(ls, S)), LocEntries(ls))
  /\ S # {} => t.chunkSize = SizeOf(ls) /\ l.chunkSize = SizeOf(ls)
  /\ la.freq = 1 => \E p \in S :
       /\ la = [doc |-> NewNum(p), freq |-> 1, norm |-> p]
       /\ Posting(ls, p).freq = 1

HasCollected(S) == Collected(lists, S, roar, tf, loc, last)

NoLists == [i \in Itrs |-> Nothing]

ListsIn(ls) == \A i \in Itrs : ls[i] = Nothing \/ ls[i] \in PostingsLists(i)

ListsOf(ls, idxs) == ListsIn(ls) /\ \A i \in Itrs : ls[i] # Nothing <=> i \in idxs

Sized == tf.chunkSize = SizeOf(lists) /\ loc.chunkSize = SizeOf(lists)

\* Those of the iterators Current has returned for the key before.
Passed == {p \in Kept(lists) : p[1] \in FirstOf(lowIdxs, lowCurr)}

\* And those of this iterator the loop has come to.
Reached == {p \in Kept(lists) : p[1] = CurrentIdx /\ p[2] \notin todo}

\* The terms that have a posting to keep: those in the dictionary, and the last.
AliveWith(term) == alive = fst \cup (IF Kept(lists) = {} THEN {} ELSE {term})

TextTypes ==
  /\ plan \in Plans /\ NewDocCount # 0
  /\ pc \in {"field", "begin", "entry", "postings", "failed"}

AtField == err = "done" /\ lists = NoLists /\ HasCollected({}) /\ fst = alive

AtBegin ==
  /\ err = "none" /\ lowCurr = 0
  /\ lists = NoLists /\ HasCollected({}) /\ fst = alive

\* Another iterator has the term too.
AtSameTerm ==
  /\ ListsOf(lists, lowIdxs) /\ HasCollected(Passed) /\ Sized
  /\ Bytes(prevTerm) = lowK /\ AliveWith(lowK)

\* The term is through, or there has been none: then the empty one may be next.
AtNextTerm ==
  /\ err \in {"none", "done"}
  /\ ListsIn(lists)
  /\ HasCollected(Kept(lists)) /\ AliveWith(Bytes(prevTerm))
  /\ err = "none" /\ Bytes(prevTerm) = lowK => prevTerm = NoKey /\ lists = NoLists

\* Of the current list the documents of todo have not been reached.
AtPostings ==
  /\ err = "none" /\ ListsOf(lists, lowIdxs) /\ Sized /\ AliveWith(lowK)
  /\ todo \subseteq Surviving(lists[CurrentIdx], CurrentIdx)
  /\ \A d \in Surviving(lists[CurrentIdx], CurrentIdx) \ todo, e \in todo : d < e
  /\ HasCollected(Passed \cup Reached)

\* What the posting of a document that is left should be read as.
WantedDoc(ls, p) ==
  [doc   |-> NewNum(p),
   freq  |-> Posting(ls, p).freq,
   norm  |-> IF Posting(ls, p).freq > 0 THEN p ELSE Nothing,
   locOf |-> IF Posting(ls, p).at = NoField THEN Nothing ELSE p,
   at    |-> Posting(ls, p).at]

\* What is read of document n in a list with chunks.
EntryOf(v, n) ==
  [doc   |-> n,
   freq  |-> FreqEntry(v, n).freq,
   norm  |-> FreqEntry(v, n).norm,
   locOf |-> IF FreqEntry(v, n).hasLocs THEN LocEntry(v, n).src ELSE Nothing,
   at    |-> IF FreqEntry(v, n).hasLocs THEN FieldOf(LocEntry(v, n).field) ELSE NoField]

ReadableAs(v, ls) == ChunksThere(v) /\ Decoded(v) = {WantedDoc(ls, p) : p \in Kept(ls)}

\* The value written last leads to the postings of its lists.
LastReadable == written # Nothing => ReadableAs(written.value, written.lists)

TextInv ==
  /\ TextTypes /\ LastReadable
  /\ pc = "field" => AtField
  /\ pc = "begin" => AtBegin
  /\ pc = "entry" => IF err = "none" /\ lowCurr > 0 THEN AtSameTerm ELSE AtNextTerm
  /\ pc = "postings" => AtPostings
  /\ pc = "failed" => err = "error" /\ tf.sound /\ loc.sound

-----------------------------------------------------------------------------
(* The new numbers of the documents that are left.                         *)

Earlier(p, q) == p[1] < q[1] \/ (p[1] = q[1] /\ p[2] < q[2])

LEMMA DocsAre ==
  ASSUME NEW i \in Itrs
  PROVE  i \in Nat /\ Docs(i) \in SUBSET Nat /\ IsFiniteSet(Docs(i))
<1>1. NumDocs[i] \in Nat
  BY MergeInputAssumption
<1>2. IsFiniteSet(0..(NumDocs[i] - 1))
  BY <1>1, FS_Interval
<1> QED  BY <1>1, <1>2, EnumeratorAssumption DEF Docs

LEMMA SurvivorIs ==
  ASSUME NEW p \in Survivors
  PROVE  /\ p = <<p[1], p[2]>> /\ p[1] \in Itrs /\ p[1] \in Nat
         /\ p[2] \in Docs(p[1]) /\ p[2] \in Nat /\ p[2] \notin drops[p[1]]
<1>1. PICK i \in Itrs : p \in {i} \X Docs(i)
  BY DEF Survivors, AllDocs
<1> QED  BY <1>1, DocsAre DEF Survivors

LEMMA SurvivorsFinite == IsFiniteSet(Survivors) /\ NewDocCount \in Nat
<1> DEFINE Of(i) == {i} \X Docs(i)
           S == {Of(i) : i \in Itrs}
           f == [i \in Itrs |-> Of(i)]
<1>1. IsFiniteSet(S)
  <2>1. f \in Surjection(Itrs, S)
    BY DEF Surjection
  <2> QED  BY <2>1, EnumeratorAssumption, FS_Surjection
<1>2. \A T \in S : IsFiniteSet(T)
  <2>1. ASSUME NEW i \in Itrs PROVE IsFiniteSet(Of(i))
    BY DocsAre, FS_Singleton, FS_Product
  <2> QED  BY <2>1
<1>3. IsFiniteSet(AllDocs)
  <2>1. AllDocs = UNION S
    BY DEF AllDocs
  <2> HIDE DEF S
  <2> QED  BY <1>1, <1>2, <2>1, FS_UNION
<1>4. Survivors \in SUBSET AllDocs
  BY DEF Survivors
<1>5. IsFiniteSet(Survivors)
  BY <1>3, <1>4, FS_Subset
<1> QED  BY <1>5, FS_CardinalityType DEF NewDocCount

LEMMA NumberIs ==
  ASSUME NEW p \in Survivors
  PROVE  NewNum(p) \in Nat /\ NewNum(p) \in 0..(NewDocCount - 1)
<1> DEFINE S == {q \in Survivors : q[1] < p[1] \/ (q[1] = p[1] /\ q[2] < p[2])}
<1>1. \A q \in S : q \in Survivors
  OBVIOUS
<1>2. p \notin S
  BY SurvivorIs
<1>3. NewNum(p) = Cardinality(S)
  BY DEF NewNum
<1> HIDE DEF S
<1>4. Cardinality(S) \in Nat /\ NewDocCount \in Nat /\ Cardinality(S) < NewDocCount
  BY <1>1, <1>2, SurvivorsFinite, SmallerSet DEF NewDocCount
<1> QED  BY <1>3, <1>4

LEMMA NumbersGrow ==
  ASSUME NEW p \in Survivors, NEW q \in Survivors, Earlier(p, q)
  PROVE  NewNum(p) < NewNum(q)
<1> DEFINE S(x) == {y \in Survivors : y[1] < x[1] \/ (y[1] = x[1] /\ y[2] < x[2])}
<1>1. /\ p[1] \in Nat /\ p[2] \in Nat /\ q[1] \in Nat /\ q[2] \in Nat
      /\ \A y \in Survivors : y[1] \in Nat /\ y[2] \in Nat
  BY SurvivorIs
<1>2. (\A y \in S(p) : y \in S(q)) /\ p \in S(q) /\ p \notin S(p)
  BY <1>1 DEF Earlier
<1>3. S(q) \in SUBSET Survivors
  OBVIOUS
<1>4. NewNum(p) = Cardinality(S(p)) /\ NewNum(q) = Cardinality(S(q))
  BY DEF NewNum
<1> HIDE DEF S
<1>5. IsFiniteSet(S(q))
  BY <1>3, SurvivorsFinite, FS_Subset
<1> QED  BY <1>2, <1>4, <1>5, SmallerSet

\* A new number is that of one document.
LEMMA SourceIs ==
  ASSUME NEW p \in Survivors
  PROVE  /\ Source(NewNum(p)) = p
         /\ \A q \in Survivors : NewNum(q) = NewNum(p) => q = p
<1>1. ASSUME NEW q \in Survivors, NewNum(q) = NewNum(p) PROVE q = p
  <2>1. NewNum(p) \in Nat
    BY NumberIs
  <2>2. ~ Earlier(p, q)
    BY <1>1, <2>1, NumbersGrow
  <2>3. ~ Earlier(q, p)
    BY <1>1, <2>1, NumbersGrow
  <2>4. p = <<p[1], p[2]>> /\ q = <<q[1], q[2]>>
        /\ p[1] \in Nat /\ p[2] \in Nat /\ q[1] \in Nat /\ q[2] \in Nat
    BY SurvivorIs
  <2>5. p[1] = q[1] /\ p[2] = q[2]
    BY <2>2, <2>3, <2>4 DEF Earlier
  <2> QED  BY <2>4, <2>5
<1> QED  BY <1>1 DEF Source

LEMMA KeptSurvive ==
  ASSUME NEW ls, NEW p \in Kept(ls)
  PROVE  p \in Survivors
BY DEF Kept

\* There are as many numbers as documents.
LEMMA NumbersCount ==
  ASSUME NEW S \in SUBSET Survivors
  PROVE  IsFiniteSet(S) /\ IsFiniteSet(Numbers(S)) /\ Cardinality(Numbers(S)) = Cardinality(S)
<1>1. IsFiniteSet(S)
  BY SurvivorsFinite, FS_Subset
<1> DEFINE f == [p \in S |-> NewNum(p)]  T == Numbers(S)
<1>2. f \in Surjection(S, T)
  BY DEF Surjection, Numbers
<1>3. f \in Injection(S, T)
  <2>1. f \in [S -> T]
    BY DEF Numbers
  <2>2. ASSUME NEW p \in S, NEW q \in S, f[p] = f[q] PROVE p = q
    BY <2>2, SourceIs
  <2> HIDE DEF f, T
  <2> QED  BY <2>1, <2>2 DEF Injection, IsInjective
<1> HIDE DEF f, T
<1>4. IsFiniteSet(T) /\ Cardinality(T) = Cardinality(S)
  BY <1>1, <1>2, <1>3, FS_Surjection
<1> QED  BY <1>1, <1>4 DEF T

-----------------------------------------------------------------------------
(* Postings, fields and chunk sizes.                                       *)

LEMMA ListIs ==
  ASSUME NEW i \in Itrs, NEW f \in PostingsLists(i)
  PROVE  f # Nothing /\ f \in [Docs(i) -> Postings(i) \cup {Nothing}]
<1>1. Postings(i) \cup {Nothing} \subseteq [freq : Freqs, at : {NoField} \cup LocFields] \cup {Nothing}
  BY DEF Postings
<1>2. f \in [Docs(i) -> Postings(i) \cup {Nothing}]
  BY DEF PostingsLists
<1>3. f \in [Docs(i) -> [freq : Freqs, at : {NoField} \cup LocFields] \cup {Nothing}]
  BY <1>1, <1>2
<1> QED  BY <1>2, <1>3, MergeTermsAssumption

LEMMA KeptIs ==
  ASSUME NEW ls, NEW p
  PROVE  p \in Kept(ls) <=>
           p \in Survivors /\ ls[p[1]] # Nothing /\ Posting(ls, p) # Nothing
BY DEF Kept, Posting

LEMMA PostingIs ==
  ASSUME NEW ls, ListsIn(ls), NEW p \in Kept(ls)
  PROVE  /\ Posting(ls, p).freq \in Nat
         /\ Posting(ls, p).at \in {NoField} \cup (LocFields \cap plan.fields[p[1]])
         /\ Posting(ls, p).freq = 0 => Posting(ls, p).at = NoField
<1>1. p[1] \in Itrs /\ p[2] \in Docs(p[1]) /\ ls[p[1]] # Nothing /\ Posting(ls, p) # Nothing
  BY KeptSurvive, KeptIs, SurvivorIs
<1>2. ls[p[1]] \in [Docs(p[1]) -> Postings(p[1]) \cup {Nothing}]
  BY <1>1, ListIs DEF ListsIn
<1>3. Posting(ls, p) \in Postings(p[1])
  BY <1>1, <1>2 DEF Posting
<1> QED  BY <1>3, MergeTermsAssumption DEF Postings

\* The postings of an iterator that are kept are those the drops leave.
LEMMA SurvivingIs ==
  ASSUME NEW ls, NEW i \in Itrs, ls[i] # Nothing
  PROVE  \A d : d \in Surviving(ls[i], i) <=> <<i, d>> \in Kept(ls)
<1> SUFFICES ASSUME NEW d
             PROVE  d \in Surviving(ls[i], i) <=> <<i, d>> \in Kept(ls)
  OBVIOUS
<1> DEFINE p == <<i, d>>
<1>1. p[1] = i /\ p[2] = d
  OBVIOUS
<1>2. p \in Survivors <=> d \in Docs(i) /\ d \notin drops[i]
  <2>1. ASSUME d \in Docs(i), d \notin drops[i] PROVE p \in Survivors
    <3>1. p \in AllDocs
      BY <2>1 DEF AllDocs
    <3> QED  BY <1>1, <2>1, <3>1 DEF Survivors
  <2> HIDE DEF p
  <2>2. ASSUME p \in Survivors PROVE d \in Docs(i) /\ d \notin drops[i]
    BY <1>1, <2>2, SurvivorIs
  <2> QED  BY <2>1, <2>2
<1> HIDE DEF p
<1>3. p \in Kept(ls) <=> p \in Survivors /\ ls[i][d] # Nothing
  BY <1>1, KeptIs DEF Posting
<1> QED  BY <1>2, <1>3 DEF Surviving, p

LEMMA FieldOfID ==
  ASSUME plan \in Plans, NEW f \in plan.newFields
  PROVE  FieldOf(FieldID(plan.newFields, f)) = f
<1> DEFINE F == plan.newFields  id == FieldID(F, f)
<1>1. F \in SUBSET Nat /\ IsFiniteSet(F)
  BY MergeTermsAssumption
<1> HIDE DEF F
<1>2. ASSUME NEW g \in F PROVE FieldID(F, g) = Cardinality(Below(F, g)) /\ FieldID(F, g) \in Nat
  BY <1>1, BelowFinite DEF FieldID, Below
<1>3. f \in F
  BY DEF F
<1>4. ASSUME NEW g \in F, FieldID(F, g) = id PROVE g = f
  <2>1. g \in Nat /\ f \in Nat
    BY <1>1, <1>3
  <2>2. Cardinality(Below(F, g)) = Cardinality(Below(F, f)) /\ Cardinality(Below(F, f)) \in Nat
    BY <1>2, <1>3, <1>4
  <2>3. ~ (g < f)
    <3>1. g < f => Cardinality(Below(F, g)) < Cardinality(Below(F, f))
      BY <1>1, <1>3, BelowGrows
    <3> QED  BY <2>2, <3>1
  <2>4. ~ (f < g)
    <3>1. f < g => Cardinality(Below(F, f)) < Cardinality(Below(F, g))
      BY <1>1, <1>3, BelowGrows
    <3> QED  BY <2>2, <3>1
  <2> QED  BY <2>1, <2>3, <2>4
<1> QED  BY <1>3, <1>4 DEF FieldOf, F

\* Copied or translated, the ID of a location leads back to its field.
LEMMA LocationField ==
  ASSUME plan \in Plans, NEW i \in Itrs, NEW f \in LocFields \cap plan.fields[i]
  PROVE  FieldOf(NewFieldID(i, f)) = f
<1>1. f \in plan.newFields
  BY MergeTermsAssumption
<1>2. CASE ~ Copying
  BY <1>1, <1>2, FieldOfID DEF NewFieldID
<1>3. CASE Copying
  <2>1. plan.newFields = UNION {plan.fields[j] : j \in Itrs}
        /\ \A j \in Itrs : plan.fields[j] = plan.fields[i]
    BY <1>3, MergeTermsAssumption DEF Copying
  <2>2. plan.newFields = plan.fields[i]
    BY <2>1
  <2> QED  BY <1>1, <1>3, <2>2, FieldOfID DEF NewFieldID
<1> QED  BY <1>2, <1>3

LEMMA SizeIs ==
  ASSUME plan \in Plans, NewDocCount # 0, NEW ls
  PROVE  SizeOf(ls) \in Nat \ {0}
<1> DEFINE k == Cardinality(Kept(ls))  n == NewDocCount
<1>1. n \in Nat \ {0} /\ k \in Nat /\ k <= n
  <2>1. Kept(ls) \in SUBSET Survivors
    BY DEF Kept
  <2>2. IsFiniteSet(Kept(ls)) /\ k <= n
    BY <2>1, SurvivorsFinite, FS_Subset DEF NewDocCount
  <2> QED  BY <2>2, SurvivorsFinite, FS_CardinalityType
<1>2. Unit \in Nat \ {0, 1}
  BY UnitAssumption
<1>3. plan.mode \in {"legacy", "1025", "1026"}
  BY MergeTermsAssumption
<1> HIDE DEF k, n
<1>4. n \div ((k \div Unit) + 1) \in Nat \ {0}
  <2>1. (k \div Unit) + 1 \in Nat \ {0} /\ (k \div Unit) + 1 <= n
    BY <1>1, <1>2
  <2> DEFINE m == (k \div Unit) + 1
  <2> HIDE DEF m
  <2>2. m \in Nat \ {0} /\ m <= n
    BY <2>1 DEF m
  <2>3. n \div m \in Nat /\ n \div m > 0
    BY <1>1, <2>2
  <2> QED  BY <2>3 DEF m
<1> QED  BY <1>1, <1>2, <1>3, <1>4 DEF SizeOf, getChunkSize, k, n

-----------------------------------------------------------------------------
(* What a reader finds of a term that has been collected.                  *)

LEMMA ReadableIs == LastReadable => TermReadable
BY DEF LastReadable, TermReadable, ReadableAs, WantedDoc, Posting

LEMMA EntryFields ==
  ASSUME NEW ls, NEW p
  PROVE  /\ TfOf(ls, p).freq = Posting(ls, p).freq
         /\ TfOf(ls, p).norm = IF Posting(ls, p).freq > 0 THEN p ELSE Nothing
         /\ TfOf(ls, p).hasLocs <=> Posting(ls, p).at # NoField
         /\ LocOf(ls, p).src = p
         /\ LocOf(ls, p).field = NewFieldID(p[1], Posting(ls, p).at)
BY DEF TfOf, LocOf

InChunks(r, t, l) ==
  [oneHit |-> FALSE, docs |-> r, tf |-> Written(Close(t)), loc |-> Written(Close(l))]

LEMMA ChunksRead ==
  ASSUME plan \in Plans, NewDocCount # 0, NEW ls, ListsIn(ls), NEW r, NEW t, NEW l, NEW la,
         Collected(ls, Kept(ls), r, t, l, la), r # {}
  PROVE  ReadableAs(InChunks(r, t, l), ls)
<1> DEFINE v == InChunks(r, t, l)
           S == Kept(ls)  D == Numbers(S)
           L == Numbers(Located(ls, S))
           size == SizeOf(ls)  N == NewDocCount
           ct == Close(t)  cl == Close(l)
<1>1. /\ v.oneHit = FALSE /\ v.docs = r /\ v.tf = Written(ct) /\ v.loc = Written(cl)
  BY DEF InChunks
<1> HIDE DEF v
<1>2. N \in Nat \ {0} /\ size \in Nat \ {0} /\ S \in SUBSET Survivors
  BY SurvivorsFinite, SizeIs, KeptSurvive
<1>3. r = D /\ S # {}
  BY DEF Collected, Numbers
<1>4. /\ Closed(ct, N, D, TfEntries(ls)) /\ ct.chunkSize = size
      /\ Closed(cl, N, L, LocEntries(ls)) /\ cl.chunkSize = size
  <2>1. /\ Filled(t, N, D, TfEntries(ls)) /\ t.chunkSize = size
        /\ Filled(l, N, L, LocEntries(ls)) /\ l.chunkSize = size
    BY <1>3 DEF Collected, Coded
  <2> QED  BY <1>2, <2>1, CloseIs DEF SameShape
<1>5. ReadChunkSize(r) = size
  <2>1. Cardinality(r) = Cardinality(S)
    BY <1>2, <1>3, NumbersCount
  <2> QED  BY <2>1 DEF ReadChunkSize, SizeOf
<1>6. ASSUME NEW n PROVE Before(r, n) = Sooner(D, size, n)
  BY <1>3, <1>5 DEF Before, Sooner
<1>7. ASSUME NEW p \in S
      PROVE  /\ NewNum(p) \in D /\ TfEntries(ls)[NewNum(p)] = TfOf(ls, p)
             /\ p \in Located(ls, S) =>
                  NewNum(p) \in L /\ LocEntries(ls)[NewNum(p)] = LocOf(ls, p)
  <2>1. Source(NewNum(p)) = p
    BY <1>2, SourceIs
  <2> QED  BY <2>1 DEF Numbers, TfEntries, LocEntries
<1>8. ASSUME NEW p \in S
      PROVE  /\ HasChunk(v.tf, NewNum(p) \div size)
             /\ Cardinality(Before(r, NewNum(p))) < Len(Chunk(v.tf, NewNum(p) \div size))
             /\ FreqEntry(v, NewNum(p)) = TfOf(ls, p)
  <2> DEFINE n == NewNum(p)
  <2>1. n \in D /\ TfEntries(ls)[n] = TfOf(ls, p)
    BY <1>7
  <2> HIDE DEF n, D, ct, N
  <2>2. /\ HasChunk(v.tf, n \div size)
        /\ Cardinality(Sooner(D, size, n)) < Len(Chunk(v.tf, n \div size))
        /\ Chunk(v.tf, n \div size)[Cardinality(Sooner(D, size, n)) + 1] = TfEntries(ls)[n]
    BY <1>1, <1>2, <1>4, <2>1, WrittenReads
  <2>3. FreqEntry(v, n) = Chunk(v.tf, n \div size)[Cardinality(Sooner(D, size, n)) + 1]
    BY <1>1, <1>5, <1>6 DEF FreqEntry
  <2> QED  BY <1>6, <2>1, <2>2, <2>3 DEF n
<1>9. ASSUME NEW m \in D PROVE FreqEntry(v, m).hasLocs <=> m \in L
  <2>1. PICK p \in S : m = NewNum(p)
    BY DEF Numbers
  <2>2. FreqEntry(v, m).hasLocs <=> p \in Located(ls, S)
    <3>1. FreqEntry(v, m) = TfOf(ls, p)
      BY <1>8, <2>1
    <3>2. FreqEntry(v, m).hasLocs <=> Posting(ls, p).at # NoField
      BY <3>1, EntryFields
    <3> QED  BY <3>2 DEF Located
  <2>3. m \in L => p \in Located(ls, S)
    <3> SUFFICES ASSUME NEW q \in Located(ls, S), NewNum(q) = NewNum(p) PROVE q = p
      BY <2>1 DEF Numbers
    <3>1. p \in Survivors /\ q \in Survivors
      BY <1>2 DEF Located
    <3> QED  BY <3>1, SourceIs
  <2> QED  BY <1>7, <2>1, <2>2, <2>3
<1>10. ASSUME NEW n
       PROVE  {m \in Before(r, n) : FreqEntry(v, m).hasLocs} = Sooner(L, size, n)
  <2>1. L \in SUBSET D
    BY DEF Located, Numbers
  <2> HIDE DEF L, D
  <2> QED  BY <1>6, <1>9, <2>1 DEF Sooner
<1>11. {n \in r : FreqEntry(v, n).hasLocs} = L
  <2>1. L \in SUBSET D
    BY DEF Located, Numbers
  <2> HIDE DEF L, D
  <2> QED  BY <1>3, <1>9, <2>1
<1>12. ASSUME NEW p \in Located(ls, S)
       PROVE  /\ HasChunk(v.loc, NewNum(p) \div size)
              /\ Cardinality(L \cap Before(r, NewNum(p))) < Len(Chunk(v.loc, NewNum(p) \div size))
              /\ LocEntry(v, NewNum(p)) = LocOf(ls, p)
  <2> DEFINE n == NewNum(p)
  <2>1. n \in L /\ LocEntries(ls)[n] = LocOf(ls, p)
    BY <1>7 DEF Located
  <2>2. L \cap Before(r, n) = Sooner(L, size, n)
    <3>1. L \in SUBSET D
      BY DEF Located, Numbers
    <3> HIDE DEF L, D
    <3> QED  BY <1>6, <3>1 DEF Sooner
  <2> HIDE DEF n, L, cl, N
  <2>3. /\ HasChunk(v.loc, n \div size)
        /\ Cardinality(Sooner(L, size, n)) < Len(Chunk(v.loc, n \div size))
        /\ Chunk(v.loc, n \div size)[Cardinality(Sooner(L, size, n)) + 1] = LocEntries(ls)[n]
    BY <1>1, <1>2, <1>4, <2>1, WrittenReads
  <2>4. LocEntry(v, n) = Chunk(v.loc, n \div size)[Cardinality(Sooner(L, size, n)) + 1]
    BY <1>1, <1>5, <1>10 DEF LocEntry
  <2> QED  BY <2>1, <2>2, <2>3, <2>4 DEF n
<1>13. ChunksThere(v)
  <2>1. Found(v.tf, r, r)
    <3> SUFFICES ASSUME NEW p \in S
                 PROVE  /\ HasChunk(v.tf, NewNum(p) \div size)
                        /\ Cardinality(r \cap Before(r, NewNum(p)))
                             < Len(Chunk(v.tf, NewNum(p) \div size))
      BY <1>3, <1>5 DEF Found, Numbers
    <3>1. r \cap Before(r, NewNum(p)) = Before(r, NewNum(p))
      BY DEF Before
    <3> QED  BY <1>8, <3>1
  <2>2. Found(v.loc, r, L)
    <3> SUFFICES ASSUME NEW p \in Located(ls, S)
                 PROVE  /\ HasChunk(v.loc, NewNum(p) \div size)
                        /\ Cardinality(L \cap Before(r, NewNum(p)))
                             < Len(Chunk(v.loc, NewNum(p) \div size))
      BY <1>5 DEF Found, Numbers
    <3> QED  BY <1>12
  <2> QED  BY <1>1, <1>11, <2>1, <2>2 DEF ChunksThere
<1>14. ASSUME NEW p \in S PROVE EntryOf(v, NewNum(p)) = WantedDoc(ls, p)
  <2> DEFINE n == NewNum(p)  x == Posting(ls, p)
  <2>1. /\ FreqEntry(v, n).freq = x.freq
        /\ FreqEntry(v, n).norm = IF x.freq > 0 THEN p ELSE Nothing
        /\ FreqEntry(v, n).hasLocs <=> x.at # NoField
    <3>1. FreqEntry(v, n) = TfOf(ls, p)
      BY <1>8
    <3> HIDE DEF n
    <3> QED  BY <3>1, EntryFields
  <2>2. CASE x.at = NoField
    BY <2>1, <2>2 DEF EntryOf, WantedDoc
  <2>3. CASE x.at # NoField
    <3>1. LocEntry(v, n).src = p /\ LocEntry(v, n).field = NewFieldID(p[1], x.at)
      <4>1. p \in Located(ls, S)
        BY <2>3 DEF Located
      <4>2. LocEntry(v, n) = LocOf(ls, p)
        BY <1>12, <4>1
      <4> HIDE DEF n
      <4> QED  BY <4>2, EntryFields
    <3>2. FieldOf(NewFieldID(p[1], x.at)) = x.at
      <4>1. x.at \in LocFields \cap plan.fields[p[1]] /\ p[1] \in Itrs
        BY <1>2, <2>3, PostingIs, SurvivorIs
      <4> QED  BY <4>1, LocationField
    <3> QED  BY <2>1, <2>3, <3>1, <3>2 DEF EntryOf, WantedDoc
  <2> QED  BY <2>2, <2>3
<1>15. Decoded(v) = {EntryOf(v, n) : n \in r}
  BY <1>1 DEF Decoded, EntryOf
<1>16. {EntryOf(v, n) : n \in r} = {WantedDoc(ls, p) : p \in S}
  <2>1. r = {NewNum(p) : p \in S}
    BY <1>3 DEF Numbers
  <2> HIDE DEF S
  <2> QED  BY <1>14, <2>1
<1> QED  BY <1>13, <1>15, <1>16 DEF ReadableAs, v

\* The only posting of a term, without a location, is in the value itself.
LEMMA OneHitRead ==
  ASSUME NewDocCount # 0, NEW ls, NEW r, NEW t, NEW l, NEW la,
         Collected(ls, Kept(ls), r, t, l, la), r = {la.doc}, Close(l).final = <<>>, la.freq = 1
  PROVE  ReadableAs([oneHit |-> TRUE, doc |-> la.doc, norm |-> la.norm], ls)
<1> DEFINE v == [oneHit |-> TRUE, doc |-> la.doc, norm |-> la.norm]
           S == Kept(ls)  L == Located(ls, S)
<1>1. PICK p \in S : /\ la = [doc |-> NewNum(p), freq |-> 1, norm |-> p]
                     /\ Posting(ls, p).freq = 1
  BY DEF Collected
<1>2. S \in SUBSET Survivors /\ L \in SUBSET Survivors
  BY KeptSurvive DEF Located
<1>3. S = {p}
  <2>1. ASSUME NEW q \in S PROVE q = p
    <3>1. NewNum(q) \in r
      BY DEF Collected, Numbers
    <3>2. NewNum(q) = NewNum(p)
      BY <1>1, <3>1
    <3> QED  BY <1>2, <3>2, SourceIs
  <2> QED  BY <2>1
<1>4. L = {}
  <2>1. Filled(l, NewDocCount, Numbers(L), LocEntries(ls)) /\ NewDocCount \in Nat \ {0}
    BY SurvivorsFinite DEF Collected, Coded
  <2>2. Len(Close(l).final) = Cardinality(Numbers(L))
    BY <2>1, CloseIs DEF Closed
  <2>3. Cardinality(Numbers(L)) = 0 /\ IsFiniteSet(Numbers(L))
    BY <1>2, <2>2, NumbersCount
  <2>4. Numbers(L) = {}
    BY <2>3, FS_EmptySet
  <2> QED  BY <2>4 DEF Numbers
<1>5. Posting(ls, p).at = NoField
  <2> HIDE DEF S
  <2> QED  BY <1>1, <1>4 DEF Located
<1>6. WantedDoc(ls, p) = [doc |-> NewNum(p), freq |-> 1, norm |-> p, locOf |-> Nothing, at |-> NoField]
  BY <1>1, <1>5 DEF WantedDoc
<1>7. /\ v.oneHit = TRUE /\ v.doc = NewNum(p) /\ v.norm = p
  BY <1>1
<1> HIDE DEF v
<1>8. Decoded(v) = {WantedDoc(ls, p)}
  BY <1>6, <1>7 DEF Decoded
<1>9. ChunksThere(v)
  BY <1>7 DEF ChunksThere
<1>10. {WantedDoc(ls, q) : q \in S} = {WantedDoc(ls, p)}
  BY <1>3
<1> QED  BY <1>8, <1>9, <1>10 DEF ReadableAs, v

LEMMA ValueRead ==
  ASSUME plan \in Plans, NewDocCount # 0, ListsIn(lists), HasCollected(Kept(lists)), roar # {}
  PROVE  ReadableAs(Value, lists)
<1>1. CASE use1HitEncoding
  <2>1. Value = [oneHit |-> TRUE, doc |-> last.doc, norm |-> last.norm]
    BY <1>1 DEF Value
  <2> QED  BY <1>1, <2>1, OneHitRead DEF HasCollected, use1HitEncoding
<1>2. CASE ~ use1HitEncoding
  <2>1. Value = InChunks(roar, tf, loc)
    BY <1>2 DEF Value, InChunks
  <2> QED  BY <2>1, ChunksRead DEF HasCollected
<1> QED  BY <1>1, <1>2

LEMMA FinishedIs ==
  ASSUME NEW c, NEW N \in Nat \ {0}, NEW D, NEW e, Coded(c, N, D, e)
  PROVE  Clean(Finished(c), N)
<1>1. Closed(Close(c), N, D, e)
  BY CloseIs DEF Coded
<1> QED  BY <1>1, ResetIs DEF Finished

\* Nothing of a term is there: it may be any.
LEMMA NothingCollected ==
  ASSUME NewDocCount # 0, NEW ls, NEW t, NEW l, NEW la,
         Clean(t, NewDocCount), Clean(l, NewDocCount), la.freq = 0
  PROVE  Collected(ls, {}, {}, t, l, la)
<1>1. Numbers({}) = {} /\ Located(ls, {}) = {}
  BY DEF Numbers, Located
<1>2. NewDocCount \in Nat \ {0}
  BY SurvivorsFinite
<1>3. Coded(t, NewDocCount, {}, TfEntries(ls)) /\ Coded(l, NewDocCount, {}, LocEntries(ls))
  BY <1>2, CleanIs
<1> QED  BY <1>1, <1>3 DEF Collected

LEMMA CollectedNothing ==
  ASSUME NewDocCount # 0, NEW ls, NEW r, NEW t, NEW l, NEW la, Collected(ls, {}, r, t, l, la)
  PROVE  r = {} /\ Clean(t, NewDocCount) /\ Clean(l, NewDocCount)
<1>1. Numbers({}) = {} /\ Located(ls, {}) = {}
  BY DEF Numbers, Located
<1>2. NewDocCount \in Nat \ {0}
  BY SurvivorsFinite
<1> QED  BY <1>1, <1>2, CodedIsClean DEF Collected

LEMMA FinishTermIs ==
  ASSUME plan \in Plans, NewDocCount # 0, ListsIn(lists), HasCollected(Kept(lists)),
         NEW term, AliveWith(Bytes(term)), finishTerm(term)
  PROVE  /\ Collected(lists', {}, roar', tf', loc', last') /\ lists' = NoLists /\ fst' = alive
         /\ written' = written \/ ReadableAs(written'.value, written'.lists)
<1>1. NewDocCount \in Nat \ {0}
  BY SurvivorsFinite
<1>2. Clean(tf', NewDocCount) /\ Clean(loc', NewDocCount)
  BY <1>1, FinishedIs DEF finishTerm, HasCollected, Collected
<1>3. last'.freq = 0 /\ roar' = {} /\ lists' = NoLists
  BY DEF finishTerm, NoLists
<1>4. Collected(lists', {}, roar', tf', loc', last')
  BY <1>2, <1>3, NothingCollected
<1>5. roar = {} <=> Kept(lists) = {}
  BY DEF HasCollected, Collected, Numbers
<1>6. CASE roar = {}
  <2>1. fst' = fst /\ written' = written
    BY <1>6 DEF finishTerm
  <2> QED  BY <1>3, <1>4, <1>5, <1>6, <2>1 DEF AliveWith
<1>7. CASE roar # {}
  <2>1. fst' = fst \cup {Bytes(term)} /\ written' = [value |-> Value, lists |-> lists]
    BY <1>7 DEF finishTerm
  <2>2. fst' = alive
    BY <1>5, <1>7, <2>1 DEF AliveWith
  <2>3. ReadableAs(written'.value, written'.lists)
    BY <1>7, <2>1, ValueRead
  <2> QED  BY <1>3, <1>4, <2>2, <2>3
<1> QED  BY <1>6, <1>7

-----------------------------------------------------------------------------
(* The plan and the drops stay, and all that hangs on them alone.          *)

LEMMA NumbersStay ==
  ASSUME UNCHANGED fixed
  PROVE  /\ Survivors' = Survivors /\ NewDocCount' = NewDocCount
         /\ \A p : NewNum(p)' = NewNum(p)
         /\ \A S : Numbers(S)' = Numbers(S)
         /\ \A n : Source(n)' = Source(n)
         /\ \A ls : Kept(ls)' = Kept(ls)
         /\ \A list, i : Surviving(list, i)' = Surviving(list, i)
<1>1. drops' = drops
  BY DEF fixed
<1>2. Survivors' = Survivors
  BY <1>1 DEF Survivors
<1>3. NewDocCount' = NewDocCount
  BY <1>2 DEF NewDocCount
<1>4. ASSUME NEW p PROVE NewNum(p)' = NewNum(p)
  BY <1>2 DEF NewNum
<1>5. ASSUME NEW S PROVE Numbers(S)' = Numbers(S)
  BY <1>4 DEF Numbers
<1>6. ASSUME NEW n PROVE Source(n)' = Source(n)
  BY <1>2, <1>4 DEF Source
<1>7. ASSUME NEW ls PROVE Kept(ls)' = Kept(ls)
  BY <1>2 DEF Kept
<1>8. ASSUME NEW list, NEW i PROVE Surviving(list, i)' = Surviving(list, i)
  BY <1>1 DEF Surviving
<1> QED  BY <1>2, <1>3, <1>4, <1>5, <1>6, <1>7, <1>8

LEMMA PlanStays ==
  ASSUME UNCHANGED fixed
  PROVE  /\ \A i, f : NewFieldID(i, f)' = NewFieldID(i, f)
         /\ \A id : FieldOf(id)' = FieldOf(id)
         /\ \A ls : SizeOf(ls)' = SizeOf(ls) /\ (ListsIn(ls)' <=> ListsIn(ls))
         /\ \A S : ReadChunkSize(S)' = ReadChunkSize(S)
<1>1. plan' = plan
  BY DEF fixed
<1>2. Copying' <=> Copying
  BY <1>1 DEF Copying
<1>3. ASSUME NEW i, NEW f PROVE NewFieldID(i, f)' = NewFieldID(i, f)
  BY <1>1, <1>2 DEF NewFieldID
<1>4. ASSUME NEW id PROVE FieldOf(id)' = FieldOf(id)
  BY <1>1 DEF FieldOf
<1>5. ASSUME NEW ls PROVE SizeOf(ls)' = SizeOf(ls)
  BY <1>1, NumbersStay DEF SizeOf
<1>6. ASSUME NEW ls PROVE ListsIn(ls)' <=> ListsIn(ls)
  <2>1. ASSUME NEW i PROVE PostingsLists(i)' = PostingsLists(i)
    <3>1. Postings(i)' = Postings(i)
      BY <1>1 DEF Postings
    <3> QED  BY <3>1 DEF PostingsLists
  <2> QED  BY <2>1 DEF ListsIn
<1>7. ASSUME NEW S PROVE ReadChunkSize(S)' = ReadChunkSize(S)
  BY <1>1, NumbersStay DEF ReadChunkSize
<1> QED  BY <1>3, <1>4, <1>5, <1>6, <1>7

LEMMA CollectedStays ==
  ASSUME UNCHANGED fixed, NEW ls, NEW S, NEW r, NEW t, NEW l, NEW la
  PROVE  Collected(ls, S, r, t, l, la)' <=> Collected(ls, S, r, t, l, la)
<1>1. TfEntries(ls)' = TfEntries(ls)
  BY NumbersStay DEF TfEntries, TfOf
<1>2. LocEntries(ls)' = LocEntries(ls)
  <2>1. ASSUME NEW p PROVE LocOf(ls, p)' = LocOf(ls, p)
    BY PlanStays DEF LocOf
  <2> QED  BY <2>1, NumbersStay DEF LocEntries
<1> QED  BY <1>1, <1>2, NumbersStay, PlanStays DEF Collected

LEMMA ReadableStays ==
  ASSUME UNCHANGED fixed, NEW v, NEW ls
  PROVE  ReadableAs(v, ls)' <=> ReadableAs(v, ls)
<1>1. ASSUME NEW S, NEW n PROVE Before(S, n)' = Before(S, n)
  BY PlanStays DEF Before
<1>2. ASSUME NEW n PROVE FreqEntry(v, n)' = FreqEntry(v, n)
  BY <1>1, PlanStays DEF FreqEntry
<1>3. ASSUME NEW n PROVE LocEntry(v, n)' = LocEntry(v, n)
  <2>1. {m \in Before(v.docs, n) : FreqEntry(v, m).hasLocs}'
          = {m \in Before(v.docs, n) : FreqEntry(v, m).hasLocs}
    BY <1>1, <1>2
  <2> QED  BY <2>1, PlanStays DEF LocEntry
<1>4. Decoded(v)' = Decoded(v)
  <2>1. ASSUME NEW n PROVE EntryOf(v, n)' = EntryOf(v, n)
    BY <1>2, <1>3, PlanStays DEF EntryOf
  <2>2. Decoded(v) =
          IF v.oneHit
          THEN {[doc |-> v.doc, freq |-> 1, norm |-> v.norm, locOf |-> Nothing, at |-> NoField]}
          ELSE {EntryOf(v, n) : n \in v.docs}
    BY DEF Decoded, EntryOf
  <2>3. Decoded(v)' =
          IF v.oneHit
          THEN {[doc |-> v.doc, freq |-> 1, norm |-> v.norm, locOf |-> Nothing, at |-> NoField]}
          ELSE {EntryOf(v, n)' : n \in v.docs}
    BY DEF Decoded, EntryOf
  <2> QED  BY <2>1, <2>2, <2>3
<1>5. ASSUME NEW coder, NEW docs, NEW located
      PROVE  Found(coder, docs, located)' <=> Found(coder, docs, located)
  BY <1>1, PlanStays DEF Found
<1>6. ChunksThere(v)' <=> ChunksThere(v)
  <2>1. {n \in v.docs : FreqEntry(v, n).hasLocs}' = {n \in v.docs : FreqEntry(v, n).hasLocs}
    BY <1>2
  <2> QED  BY <1>5, <2>1 DEF ChunksThere
<1>7. ASSUME NEW p PROVE WantedDoc(ls, p)' = WantedDoc(ls, p)
  BY NumbersStay DEF WantedDoc
<1> QED  BY <1>4, <1>6, <1>7, NumbersStay DEF ReadableAs

-----------------------------------------------------------------------------
(* The steps of the merge of a field.                                      *)

LEMMA TypesStay ==
  ASSUME TextTypes, UNCHANGED fixed,
         pc' \in {"field", "begin", "entry", "postings", "failed"}
  PROVE  TextTypes'
BY NumbersStay DEF TextTypes, fixed

LEMMA LastStays ==
  ASSUME LastReadable, UNCHANGED fixed,
         written' = written \/ written' = Nothing \/ ReadableAs(written'.value, written'.lists)
  PROVE  LastReadable'
BY ReadableStays DEF LastReadable

LEMMA NoListsAre == Kept(NoLists) = {} /\ ListsIn(NoLists)
<1>1. \A i \in Itrs : NoLists[i] = Nothing
  BY DEF NoLists
<1>2. ASSUME NEW p \in Kept(NoLists) PROVE FALSE
  BY <1>1, KeptIs, KeptSurvive, SurvivorIs
<1> QED  BY <1>1, <1>2 DEF ListsIn

\* The entry of an enumerator that is not through.
LEMMA OnEntry ==
  ASSUME EInv, err = "none"
  PROVE  /\ lowK \in Nat /\ lowCurr \in Nat /\ lowIdxs \in SUBSET Itrs
         /\ IsFiniteSet(lowIdxs) /\ lowIdxs \in SUBSET Nat
         /\ CurrentIdx \in lowIdxs /\ CurrentIdx \notin FirstOf(lowIdxs, lowCurr)
         /\ FirstOf(lowIdxs, lowCurr + 1) = FirstOf(lowIdxs, lowCurr) \cup {CurrentIdx}
         /\ \A j \in FirstOf(lowIdxs, lowCurr) : j \in lowIdxs /\ j < CurrentIdx
<1>1. /\ lowK \in Nat /\ lowCurr \in Nat /\ lowCurr < Cardinality(lowIdxs)
      /\ lowIdxs \in SUBSET Itrs
  BY DEF EInv, AtLeast
<1>2. IsFiniteSet(lowIdxs) /\ lowIdxs \in SUBSET Nat
  BY <1>1, FS_Subset, EnumeratorAssumption
<1> DEFINE c == CurrentIdx
<1>3. /\ c \in lowIdxs /\ c \notin FirstOf(lowIdxs, lowCurr)
      /\ FirstOf(lowIdxs, lowCurr + 1) = FirstOf(lowIdxs, lowCurr) \cup {c}
  BY <1>1, <1>2, AfterIs DEF CurrentIdx
<1> HIDE DEF c
<1>4. ASSUME NEW j \in FirstOf(lowIdxs, lowCurr) PROVE j \in lowIdxs /\ j < c
  <2>1. j \in lowIdxs /\ Cardinality(Below(lowIdxs, j)) < lowCurr
    BY DEF FirstOf, Below
  <2>2. ~ (Cardinality(Below(lowIdxs, c)) < lowCurr)
    BY <1>3 DEF FirstOf, Below
  <2>3. Cardinality(Below(lowIdxs, c)) \in Nat /\ Cardinality(Below(lowIdxs, j)) \in Nat
    BY <1>2, BelowFinite
  <2>4. c < j => Cardinality(Below(lowIdxs, c)) < Cardinality(Below(lowIdxs, j))
    BY <1>2, <1>3, <2>1, BelowGrows
  <2>5. ~ (c < j) /\ c # j
    BY <1>1, <1>3, <2>1, <2>2, <2>3, <2>4
  <2>6. c \in Nat /\ j \in Nat
    BY <1>2, <1>3, <2>1
  <2> QED  BY <2>1, <2>5, <2>6
<1> QED  BY <1>1, <1>2, <1>3, <1>4 DEF c

LEMMA TextStartField ==
  ASSUME TextInv, StartField
  PROVE  TextInv'
<1>1. /\ TextTypes /\ LastReadable /\ err = "done" /\ lists = NoLists
      /\ Collected(NoLists, {}, roar, tf, loc, last)
  BY DEF StartField, TextInv, AtField, HasCollected
<1>2. UNCHANGED fixed /\ tf' = tf /\ loc' = loc /\ lists' = NoLists /\ written' = Nothing
      /\ fst' = {} /\ alive' = {} /\ roar' = {} /\ last'.freq = 0 /\ prevTerm' = NoKey
      /\ pc' = "entry"
  BY <1>1 DEF StartField, coders
<1>3. err' \in {"none", "done"} /\ ~ (lowCurr' > 0)
  BY DEF StartField, NewEnumerator
<1>4. TextTypes' /\ LastReadable'
  BY <1>1, <1>2, TypesStay, LastStays
<1>5. Collected(NoLists, {}, {}, tf', loc', last')
  BY <1>1, <1>2, CollectedNothing, NothingCollected DEF TextTypes
<1>6. Kept(lists)' = {} /\ ListsIn(lists)'
  BY <1>2, NumbersStay, PlanStays, NoListsAre
<1>7. HasCollected(Kept(lists))'
  BY <1>2, <1>5, <1>6, CollectedStays DEF HasCollected
<1>8. AliveWith(Bytes(prevTerm))'
  BY <1>2, <1>6 DEF AliveWith
<1>9. AtNextTerm'
  BY <1>2, <1>3, <1>6, <1>7, <1>8 DEF AtNextTerm, NoLists
<1> QED  BY <1>2, <1>3, <1>4, <1>9 DEF TextInv

LEMMA TextFinish ==
  ASSUME EInv, TextInv, FinishPrevTerm \/ FinishField
  PROVE  TextInv'
<1>1. /\ pc = "entry" /\ UNCHANGED <<itrVars, fixed, alive>> /\ finishTerm(prevTerm)
      /\ (pc' = "begin" /\ err = "none") \/ (pc' = "field" /\ err = "done")
      /\ err = "none" => Bytes(prevTerm) # lowK
  <2>1. CASE FinishPrevTerm
    BY <2>1 DEF FinishPrevTerm, TermChanged
  <2>2. CASE FinishField
    BY <2>2 DEF FinishField
  <2> QED  BY <2>1, <2>2
<1>2. AtNextTerm /\ TextTypes /\ LastReadable /\ (err = "none" => lowCurr = 0)
  <2>1. err = "none" => lowCurr \in Nat
    BY OnEntry
  <2> QED  BY <1>1, <2>1 DEF TextInv, AtSameTerm
<1>3. /\ Collected(lists', {}, roar', tf', loc', last') /\ lists' = NoLists /\ fst' = alive
      /\ written' = written \/ ReadableAs(written'.value, written'.lists)
  BY <1>1, <1>2, FinishTermIs DEF AtNextTerm, TextTypes
<1>4. err' = err /\ lowCurr' = lowCurr /\ alive' = alive
  BY <1>1 DEF itrVars
<1>5. TextTypes' /\ LastReadable'
  BY <1>1, <1>2, <1>3, TypesStay, LastStays
<1>6. HasCollected({})'
  BY <1>1, <1>3, CollectedStays DEF HasCollected
<1>7. pc' = "begin" => AtBegin'
  BY <1>1, <1>2, <1>3, <1>4, <1>6 DEF AtBegin, NoLists
<1>8. pc' = "field" => AtField'
  BY <1>1, <1>3, <1>4, <1>6 DEF AtField, NoLists
<1> QED  BY <1>1, <1>5, <1>7, <1>8 DEF TextInv

\* The postings of an iterator are up: what the coders are left with and the
\* chunk size they get.
LEMMA TextBegin ==
  ASSUME EInv, TextInv, BeginPostings
  PROVE  TextInv'
<1> DEFINE N == NewDocCount  c == CurrentIdx
           sized == pc = "begin" \/ prevTerm = NoKey
           size == SizeOf(lists')
<1>1. /\ UNCHANGED <<itrVars, fixed, prevTerm, roar, fst>> /\ TextTypes /\ LastReadable
      /\ err = "none" /\ written' = Nothing /\ last'.freq = 0
      /\ pc = "begin" \/ (pc = "entry" /\ Bytes(prevTerm) = lowK)
      /\ todo' = Surviving(lists'[c], c)
      /\ alive' = IF Kept(lists') = {} THEN alive ELSE alive \cup {lowK}
  BY DEF BeginPostings, TermChanged, TextInv, AtBegin
<1>2. err' = err /\ lowK' = lowK /\ lowIdxs' = lowIdxs /\ lowCurr' = lowCurr /\ c' = c
  BY <1>1 DEF itrVars, CurrentIdx
<1>3. N \in Nat \ {0} /\ plan \in Plans /\ N # 0
  BY <1>1, SurvivorsFinite DEF TextTypes
<1>4. size \in Nat \ {0} /\ size > 0 /\ ~ (size = 0)
  BY <1>3, SizeIs
<1>5. size = getChunkSize(plan.mode, Cardinality(Kept(lists')), N)
  BY DEF SizeOf
<1>6. /\ sized => tf' = SetChunkSize(tf, size, N - 1) /\ loc' = SetChunkSize(loc, size, N - 1)
      /\ ~ sized => tf' = tf /\ loc' = loc
      /\ pc' = "postings"
  <2> HIDE DEF size
  <2>1. CASE sized
    BY <1>4, <1>5, <2>1 DEF BeginPostings
  <2>2. CASE ~ sized
    BY <1>4, <1>5, <2>2 DEF BeginPostings, coders
  <2> QED  BY <2>1, <2>2
<1>7. /\ lowCurr \in Nat /\ lowIdxs \in SUBSET Itrs /\ c \in lowIdxs /\ IsFiniteSet(lowIdxs)
      /\ lowIdxs \in SUBSET Nat
  BY <1>1, OnEntry
<1> DEFINE S == {p \in Kept(lists') : p[1] \in FirstOf(lowIdxs, lowCurr)}
<1>8. SUFFICES /\ ListsOf(lists', lowIdxs)
               /\ tf'.chunkSize = size /\ loc'.chunkSize = size
               /\ alive' = fst \cup (IF Kept(lists') = {} THEN {} ELSE {lowK})
               /\ Collected(lists', S, roar, tf', loc', last')
  <2> HIDE DEF c
  <2>1. TextTypes' /\ LastReadable'
    BY <1>1, <1>6, TypesStay, LastStays
  <2>2. Sized'
    BY <1>1, <1>8, PlanStays DEF Sized
  <2>3. ListsOf(lists, lowIdxs)'
    BY <1>1, <1>2, <1>8, PlanStays DEF ListsOf
  <2>4. AliveWith(lowK)'
    BY <1>1, <1>2, <1>8, NumbersStay DEF AliveWith
  <2>5. Surviving(lists[c], c)' = todo'
    BY <1>1, <1>2, NumbersStay
  <2>6. Passed' = S
    BY <1>1, <1>2, NumbersStay DEF Passed
  <2>7. Reached' = {}
    <3>1. lists'[c] # Nothing /\ c \in Itrs
      BY <1>7, <1>8 DEF ListsOf
    <3>2. ASSUME NEW p \in Kept(lists'), p[1] = c PROVE p[2] \in todo'
      <4>1. p = <<c, p[2]>>
        BY <3>2, KeptSurvive, SurvivorIs
      <4> QED  BY <1>1, <3>1, <4>1, SurvivingIs
    <3>3. Kept(lists)' = Kept(lists')
      BY <1>1, NumbersStay
    <3>4. c' = c
      BY <1>2
    <3> QED  BY <3>2, <3>3, <3>4 DEF Reached, c
  <2>8. HasCollected(Passed \cup Reached)'
    <3>1. Passed' \cup Reached' = S
      BY <2>6, <2>7
    <3> HIDE DEF S
    <3> QED  BY <1>1, <1>8, <3>1, CollectedStays DEF HasCollected
  <2>9. AtPostings'
    BY <1>1, <1>2, <2>2, <2>3, <2>4, <2>5, <2>8 DEF AtPostings, c
  <2> QED  BY <1>6, <2>1, <2>9 DEF TextInv
<1>9. CASE lowCurr = 0
  <2>1. lists = NoLists /\ HasCollected({}) /\ fst = alive /\ sized
    <3>1. CASE pc = "begin"
      BY <3>1 DEF TextInv, AtBegin
    <3>2. CASE pc = "entry"
      <4>1. AtNextTerm
        BY <1>9, <3>2 DEF TextInv
      <4>2. prevTerm = NoKey /\ lists = NoLists
        BY <1>1, <3>2, <4>1 DEF AtNextTerm
      <4> QED  BY <4>1, <4>2, NoListsAre DEF AtNextTerm, AliveWith
    <3> QED  BY <1>1, <3>1, <3>2
  <2>2. roar = {} /\ Clean(tf, N) /\ Clean(loc, N)
    BY <1>3, <2>1, CollectedNothing DEF HasCollected
  <2>3. /\ Clean(tf', N) /\ Clean(loc', N) /\ tf'.chunkSize = size /\ loc'.chunkSize = size
    <3> HIDE DEF size
    <3> QED  BY <1>3, <1>4, <1>6, <2>1, <2>2, SetChunkSizeIs
  <2>4. ListsOf(lists', lowIdxs)
    <3>1. ASSUME NEW i \in Itrs
          PROVE  IF i \in lowIdxs THEN lists'[i] \in PostingsLists(i) ELSE lists'[i] = Nothing
      BY <1>9 DEF BeginPostings
    <3>2. ASSUME NEW i \in Itrs
          PROVE  /\ lists'[i] = Nothing \/ lists'[i] \in PostingsLists(i)
                 /\ lists'[i] # Nothing <=> i \in lowIdxs
      BY <3>1, ListIs
    <3> QED  BY <3>2 DEF ListsOf, ListsIn
  <2>5. S = {}
    BY <1>7, <1>9, FirstOfNone
  <2>6. Collected(lists', S, roar, tf', loc', last')
    <3> HIDE DEF S
    <3> QED  BY <1>1, <1>3, <2>2, <2>3, <2>5, NothingCollected
  <2> QED  BY <1>1, <2>1, <2>3, <2>4, <2>6
<1>10. CASE lowCurr # 0
  <2>1. AtSameTerm /\ lists' = lists
    <3>1. lowCurr > 0
      BY <1>7, <1>10
    <3>2. pc # "begin"
      BY <1>10 DEF TextInv, AtBegin
    <3> QED  BY <1>1, <1>10, <3>1, <3>2 DEF TextInv, BeginPostings
  <2>2. tf.chunkSize = size /\ loc.chunkSize = size
    BY <2>1 DEF AtSameTerm, Sized
  <2>3. tf' = tf /\ loc' = loc
    <3>1. SetChunkSize(tf, tf.chunkSize, N - 1) = tf
          /\ SetChunkSize(loc, loc.chunkSize, N - 1) = loc
      BY <1>3, <2>1, SameChunkSize DEF AtSameTerm, HasCollected, Collected
    <3> HIDE DEF size, N
    <3> QED  BY <1>6, <2>2, <3>1
  <2>4. S = Passed
    BY <2>1 DEF Passed
  <2>5. Collected(lists', S, roar, tf', loc', last')
    <3>1. Collected(lists, Passed, roar, tf, loc, last)
      BY <2>1 DEF AtSameTerm, HasCollected
    <3> HIDE DEF S
    <3>2. last'.freq # 1 /\ lists' = lists /\ tf' = tf /\ loc' = loc /\ S = Passed
      BY <1>1, <2>1, <2>3, <2>4
    <3>3. Collected(lists, Passed, roar, tf, loc, last')
      BY <3>1, <3>2 DEF Collected
    <3> QED  BY <3>2, <3>3
  <2> QED  BY <1>1, <2>1, <2>2, <2>3, <2>5 DEF AtSameTerm, AliveWith
<1> QED  BY <1>9, <1>10

\* A posting more: its number is above all that the coders have.
LEMMA TextAdd ==
  ASSUME EInv, TextInv, AddPosting
  PROVE  TextInv'
<1> DEFINE N == NewDocCount  i == CurrentIdx  d == Lowest(todo)  p == <<i, d>>
           x == Posting(lists, p)  n == NewNum(p)
           S == Passed \cup Reached  S2 == S \cup {p}
           e == TfEntries(lists)  f == LocEntries(lists)
<1>1. /\ AtPostings /\ TextTypes /\ LastReadable /\ pc = "postings" /\ todo # {}
      /\ UNCHANGED <<itrVars, fixed, dictVars, lists, pc, prevTerm>>
  BY DEF AddPosting, TextInv
<1>2. /\ UNCHANGED <<fst, written, alive, lists>> /\ err' = err /\ lowK' = lowK
      /\ lowIdxs' = lowIdxs /\ lowCurr' = lowCurr /\ i' = i
  BY <1>1 DEF itrVars, dictVars, CurrentIdx
<1>3. /\ i \in lowIdxs /\ i \in Itrs /\ \A j \in FirstOf(lowIdxs, lowCurr) : j < i
  BY <1>1, OnEntry DEF AtPostings
<1>4. ListsIn(lists) /\ lists[i] # Nothing
  BY <1>1, <1>3 DEF AtPostings, ListsOf
<1>5. /\ d \in todo /\ d \in Surviving(lists[i], i) /\ \A k \in todo : d <= k
      /\ \A k \in Surviving(lists[i], i) : k \in Nat
  <2>1. Surviving(lists[i], i) \in SUBSET Nat
    BY <1>3, DocsAre DEF Surviving
  <2>2. todo \in SUBSET Nat
    BY <1>1, <2>1 DEF AtPostings
  <2>3. d \in todo /\ \A k \in todo : d <= k
    BY <1>1, <2>2, LowestIs
  <2> QED  BY <1>1, <2>1, <2>3 DEF AtPostings
<1>6. p \in Kept(lists) /\ p \in Survivors /\ p[1] = i /\ p[2] = d
  <2> HIDE DEF d, i
  <2> QED  BY <1>3, <1>4, <1>5, SurvivingIs, KeptSurvive
<1>7. x = lists[i][d]
  BY <1>6 DEF Posting
<1> HIDE DEF d
<1>8. /\ S \in SUBSET Kept(lists) /\ S \in SUBSET Survivors
      /\ \A q \in S : Earlier(q, p)
  <2>1. S \in SUBSET Kept(lists)
    BY DEF Passed, Reached
  <2>2. ASSUME NEW q \in S PROVE Earlier(q, p)
    <3>1. CASE q \in Passed
      BY <1>3, <1>6, <3>1 DEF Passed, Earlier
    <3>2. CASE q \in Reached
      <4>1. q \in Kept(lists) /\ q[1] = i /\ q[2] \notin todo
        BY <3>2 DEF Reached
      <4>2. q = <<i, q[2]>>
        BY <4>1, KeptSurvive, SurvivorIs
      <4>3. q[2] \in Surviving(lists[i], i)
        BY <1>3, <1>4, <4>1, <4>2, SurvivingIs
      <4>4. q[2] < d
        BY <1>1, <1>5, <4>1, <4>3 DEF AtPostings
      <4> QED  BY <1>6, <4>1, <4>4 DEF Earlier
    <3> QED  BY <3>1, <3>2
  <2> QED  BY <2>1, <2>2, KeptSurvive
<1>9. Collected(lists, S, roar, tf, loc, last) /\ tf.chunkSize = SizeOf(lists)
      /\ loc.chunkSize = SizeOf(lists)
  BY <1>1 DEF AtPostings, HasCollected, Sized
<1>10. /\ roar' = roar \cup {n} /\ todo' = todo \ {d}
       /\ tf' = Add(tf, n, TfOf(lists, p))
       /\ loc' = IF x.at = NoField THEN loc ELSE Add(loc, n, LocOf(lists, p))
       /\ last' = [doc |-> n, freq |-> x.freq, norm |-> IF x.freq > 0 THEN p ELSE Nothing]
  <2> HIDE DEF x, n
  <2>1. TfOf(lists, p) = [freq |-> x.freq, norm |-> IF x.freq > 0 THEN p ELSE Nothing,
                          hasLocs |-> x.at # NoField]
    BY DEF TfOf, x
  <2>2. LocOf(lists, p) = [src |-> p, field |-> NewFieldID(i, x.at)]
    BY <1>6 DEF LocOf, x
  <2> QED  BY <1>7, <2>1, <2>2 DEF AddPosting, d, n
<1> HIDE DEF p
<1>11. /\ N \in Nat \ {0} /\ n \in 0..(N - 1) /\ n \in DOMAIN e /\ e[n] = TfOf(lists, p)
       /\ \A m \in Numbers(S) : m < n
  <2>1. N \in Nat \ {0}
    BY <1>1, SurvivorsFinite DEF TextTypes
  <2>2. n \in DOMAIN e /\ e[n] = TfOf(lists, p)
    BY <1>6, SourceIs DEF TfEntries, Numbers
  <2>3. \A m \in Numbers(S) : m < n
    BY <1>6, <1>8, NumbersGrow DEF Numbers
  <2> QED  BY <1>6, <2>1, <2>2, <2>3, NumberIs
<1>12. Numbers(S2) = Numbers(S) \cup {n}
  BY DEF Numbers
<1>13. Coded(tf', N, Numbers(S2), e) /\ tf'.chunkSize = SizeOf(lists)
  <2> HIDE DEF S, S2, N, n, e
  <2>1. Coded(tf, N, Numbers(S), e)
    BY <1>9 DEF Collected, N, e
  <2>2. tf' = Add(tf, n, e[n])
    BY <1>10, <1>11
  <2>3. Coded(tf', N, Numbers(S) \cup {n}, e) /\ SameShape(tf, tf')
    BY <1>11, <2>1, <2>2, AddIs
  <2> QED  BY <1>9, <1>12, <2>3 DEF SameShape
<1>14. Coded(loc', N, Numbers(Located(lists, S2)), f) /\ loc'.chunkSize = SizeOf(lists)
  <2> DEFINE L == Located(lists, S)
  <2>1. Coded(loc, N, Numbers(L), f)
    BY <1>9 DEF Collected
  <2>2. CASE x.at = NoField
    <3>1. Located(lists, S2) = L
      BY <2>2 DEF Located
    <3> QED  BY <1>9, <1>10, <2>1, <2>2, <3>1
  <2>3. CASE x.at # NoField
    <3>1. Numbers(Located(lists, S2)) = Numbers(L) \cup {n}
      BY <2>3 DEF Located, Numbers
    <3>2. n \in DOMAIN f /\ f[n] = LocOf(lists, p)
      <4>1. p \in Located(lists, Kept(lists))
        BY <1>6, <2>3 DEF Located
      <4> QED  BY <1>6, <4>1, SourceIs DEF LocEntries, Numbers
    <3>3. \A m \in Numbers(L) : m < n
      <4>1. \A m \in Numbers(L) : m \in Numbers(S)
        BY DEF Located, Numbers
      <4> QED  BY <1>11, <4>1
    <3>4. loc' = Add(loc, n, f[n])
      BY <1>10, <2>3, <3>2
    <3> HIDE DEF S, S2, N, n, f, L
    <3>5. Coded(loc', N, Numbers(L) \cup {n}, f) /\ SameShape(loc, loc')
      BY <1>11, <2>1, <3>2, <3>3, <3>4, AddIs
    <3> QED  BY <1>9, <3>1, <3>5 DEF SameShape
  <2> QED  BY <2>2, <2>3
<1>15. ASSUME last'.freq = 1
       PROVE  /\ p \in S2 /\ last' = [doc |-> NewNum(p), freq |-> 1, norm |-> p]
              /\ Posting(lists, p).freq = 1
  <2>1. x.freq = 1
    BY <1>10, <1>15
  <2> QED  BY <1>10, <2>1
<1>16. Collected(lists, S2, roar', tf', loc', last')
  <2>1. roar' = Numbers(S2)
    BY <1>9, <1>10, <1>12 DEF Collected
  <2> HIDE DEF S2, p
  <2> QED  BY <1>13, <1>14, <1>15, <2>1 DEF Collected
<1>17. (Passed \cup Reached)' = S2
  <2>1. Passed' = Passed
    BY <1>1, <1>2, NumbersStay DEF Passed
  <2>2. Reached' = Reached \cup {p}
    <3>1. Kept(lists)' = Kept(lists)
      BY <1>1, <1>2, NumbersStay
    <3>2. Reached' = {q \in Kept(lists) : q[1] = i /\ q[2] \notin todo'}
      BY <1>2, <3>1 DEF Reached
    <3>3. ASSUME NEW q \in Kept(lists), q[1] = i
          PROVE  q[2] = d <=> q = p
      <4>1. q = <<i, q[2]>>
        BY <3>3, KeptSurvive, SurvivorIs
      <4> QED  BY <4>1 DEF p
    <3> QED  BY <1>6, <1>10, <3>2, <3>3 DEF Reached
  <2> QED  BY <2>1, <2>2
<1>18. HasCollected(Passed \cup Reached)'
  <2> HIDE DEF S2
  <2> QED  BY <1>1, <1>2, <1>16, <1>17, CollectedStays DEF HasCollected
<1>19. AtPostings'
  <2>1. Sized' /\ ListsOf(lists, lowIdxs)' /\ AliveWith(lowK)'
    BY <1>1, <1>2, <1>13, <1>14, NumbersStay, PlanStays
    DEF AtPostings, Sized, ListsOf, AliveWith
  <2>2. Surviving(lists[i], i)' = Surviving(lists[i], i)
    BY <1>1, <1>2, NumbersStay
  <2>3. todo' \subseteq Surviving(lists[i], i)
    BY <1>1, <1>10 DEF AtPostings
  <2>4. ASSUME NEW k \in Surviving(lists[i], i) \ todo', NEW m \in todo' PROVE k < m
    <3>1. m \in todo /\ m # d /\ m \in Nat /\ d \in Nat /\ d <= m
      BY <1>1, <1>5, <1>10 DEF AtPostings
    <3>2. CASE k = d
      BY <3>1, <3>2
    <3>3. CASE k # d
      BY <1>1, <1>10, <3>1, <3>3 DEF AtPostings
    <3> QED  BY <3>2, <3>3
  <2> HIDE DEF i
  <2>5. \A k \in (Surviving(lists[i], i) \ todo)', m \in todo' : k < m
    BY <2>2, <2>4
  <2> QED  BY <1>1, <1>2, <1>18, <2>1, <2>2, <2>3, <2>5 DEF AtPostings, i
<1>20. TextTypes' /\ LastReadable'
  BY <1>1, <1>2, TypesStay, LastStays
<1> QED  BY <1>1, <1>19, <1>20 DEF TextInv

\* The next key is another one: the iterators that stood at this one have
\* passed it, and no other has it.
LEMMA NextKeyDiffers ==
  ASSUME EInv, NextKey, err' = "none"
  PROVE  lowK' # lowK
<1>1. PICK j \in Itrs : lowK' \in rest'[j]
  <2>1. EInv'
    BY StepKey
  <2>2. /\ lowIdxs' = {j \in Itrs : lowK' \in rest'[j]}
        /\ lowCurr' \in Nat /\ lowCurr' < Cardinality(lowIdxs')
    BY <2>1 DEF EInv, AtLeast
  <2>3. lowIdxs' # {}
    <3> SUFFICES ASSUME lowIdxs' = {} PROVE FALSE
      OBVIOUS
    <3>1. Cardinality(lowIdxs') = 0
      BY FS_EmptySet
    <3> QED  BY <2>2, <3>1
  <2> QED  BY <2>2, <2>3
<1>2. lowIdxs = {i \in Itrs : lowK \in rest[i]}
  BY DEF NextKey, EInv, AtLeast
<1>3. rest'[j] = IF j \in lowIdxs THEN rest[j] \ {lowK} ELSE rest[j]
  BY DEF NextKey, Move
<1> QED  BY <1>1, <1>2, <1>3

LEMMA TextEnd ==
  ASSUME EInv, TextInv, EndPostings
  PROVE  TextInv'
<1>1. /\ AtPostings /\ TextTypes /\ LastReadable /\ pc = "postings" /\ todo = {} /\ Next
      /\ UNCHANGED <<fixed, coders, dictVars, lists, todo, roar, last>>
      /\ prevTerm' = IF lowK = 0 /\ prevTerm = NoKey THEN NoKey ELSE lowK
      /\ pc' = IF err' = "error" THEN "failed" ELSE "entry"
  BY DEF EndPostings, TextInv
<1>2. /\ UNCHANGED <<tf, loc, fst, written, alive, lists, roar, last>>
  BY <1>1 DEF coders, dictVars
<1>3. /\ lowCurr \in Nat /\ lowK \in Nat /\ lowIdxs \in SUBSET Nat /\ IsFiniteSet(lowIdxs)
      /\ FirstOf(lowIdxs, lowCurr + 1) = FirstOf(lowIdxs, lowCurr) \cup {CurrentIdx}
  BY <1>1, OnEntry DEF AtPostings
<1>4. TextTypes' /\ LastReadable'
  BY <1>1, <1>2, TypesStay, LastStays
<1>5. Bytes(prevTerm') = lowK
  BY <1>1, <1>3, EnumeratorAssumption DEF Bytes
<1> DEFINE S == Passed \cup Reached
<1>6. S = {p \in Kept(lists) : p[1] \in FirstOf(lowIdxs, lowCurr + 1)}
  BY <1>1, <1>3 DEF Passed, Reached
<1>7. Collected(lists, S, roar, tf, loc, last) /\ Sized /\ ListsOf(lists, lowIdxs)
      /\ AliveWith(lowK)
  BY <1>1 DEF AtPostings, HasCollected
<1> HIDE DEF S
<1>8. /\ Sized' /\ (ListsIn(lists)' <=> ListsIn(lists)) /\ Kept(lists)' = Kept(lists)
      /\ (HasCollected(S)' <=> Collected(lists, S', roar, tf, loc, last))
  BY <1>1, <1>2, <1>7, NumbersStay, PlanStays, CollectedStays DEF Sized, HasCollected
<1>9. CASE NextSameKey
  <2>1. /\ err = "none" /\ err' = "none" /\ lowCurr' = lowCurr + 1 /\ lowK' = lowK
        /\ lowIdxs' = lowIdxs
    BY <1>9 DEF NextSameKey
  <2>2. pc' = "entry" /\ lowCurr' > 0
    BY <1>1, <1>3, <2>1
  <2>3. Passed' = S
    BY <1>2, <1>6, <1>8, <2>1 DEF Passed
  <2>4. HasCollected(Passed)'
    BY <1>1, <1>2, <1>7, <2>3, CollectedStays DEF HasCollected
  <2>5. ListsOf(lists, lowIdxs)' /\ AliveWith(lowK)'
    BY <1>2, <1>7, <1>8, <2>1 DEF ListsOf, AliveWith
  <2>6. AtSameTerm'
    BY <1>5, <1>8, <2>1, <2>4, <2>5 DEF AtSameTerm, Bytes
  <2> QED  BY <1>4, <2>1, <2>2, <2>6 DEF TextInv
<1>10. CASE NextKey
  <2>1. /\ err' \in {"none", "done"} /\ lowCurr' = 0 /\ lowCurr + 1 >= Cardinality(lowIdxs)
    BY <1>10 DEF NextKey
  <2>2. pc' = "entry" /\ ~ (lowCurr' > 0)
    BY <1>1, <2>1
  <2>3. Kept(lists) = S
    <3>1. FirstOf(lowIdxs, lowCurr + 1) = lowIdxs
      BY <1>3, <2>1, FirstOfAll
    <3>2. \A p \in Kept(lists) : p[1] \in lowIdxs
      BY <1>7, KeptIs, KeptSurvive, SurvivorIs DEF ListsOf
    <3> QED  BY <1>6, <3>1, <3>2
  <2>4. HasCollected(Kept(lists))'
    BY <1>1, <1>2, <1>7, <1>8, <2>3, CollectedStays DEF HasCollected
  <2>5. ListsIn(lists)' /\ AliveWith(Bytes(prevTerm))'
    BY <1>2, <1>5, <1>7, <1>8 DEF ListsOf, AliveWith, Bytes
  <2>6. err' = "none" => Bytes(prevTerm') # lowK'
    BY <1>5, <1>10, NextKeyDiffers
  <2>7. AtNextTerm'
    BY <2>1, <2>4, <2>5, <2>6 DEF AtNextTerm, Bytes
  <2> QED  BY <1>4, <2>2, <2>7 DEF TextInv
<1>11. CASE NextFails
  <2>1. err' = "error" /\ pc' = "failed"
    BY <1>1, <1>11 DEF NextFails
  <2>2. tf'.sound /\ loc'.sound
    BY <1>2, <1>7 DEF Collected, Coded, Filled, CoderTypes
  <2> QED  BY <1>4, <2>1, <2>2 DEF TextInv
<1> QED  BY <1>1, <1>9, <1>10, <1>11 DEF Next

LEMMA NewCoderIs ==
  ASSUME NEW N \in Nat \ {0}
  PROVE  Clean(newChunkedIntCoder(Unit, N - 1), N)
<1> DEFINE c == newChunkedIntCoder(Unit, N - 1)
           t == NumChunks(Unit, N - 1)
           zeros == [i \in 0..(t - 1) |-> 0]
<1>1. Unit \in Nat \ {0} /\ t \in Nat
  BY UnitAssumption DEF NumChunks
<1>2. c = [chunkSize |-> Unit, total |-> t, cap |-> t, chunkLens |-> zeros,
           currChunk |-> 0, chunkBuf |-> <<>>, final |-> <<>>, sound |-> TRUE]
  BY DEF newChunkedIntCoder
<1> HIDE DEF c, t, zeros
<1>3. c.chunkSize = Unit /\ c.total = t /\ c.cap = t /\ t <= t
  BY <1>1, <1>2
<1>4. c = [chunkSize |-> c.chunkSize, total |-> c.total, cap |-> c.cap, chunkLens |-> zeros,
           currChunk |-> 0, chunkBuf |-> <<>>, final |-> <<>>, sound |-> TRUE]
  BY <1>2, <1>3
<1>5. zeros = [k \in 0..(c.cap - 1) |-> 0]
  BY <1>3 DEF zeros
<1>6. Clean(c, N)
  BY <1>1, <1>3, <1>4, <1>5 DEF Clean, t
<1> QED  BY <1>6 DEF c

\* In the other sections no text is merged.
NoText ==
  /\ pc = "field" /\ fst = alive /\ written = Nothing
  /\ tf.sound /\ loc.sound

MergeInv ==
  /\ JoinInv
  /\ section = "text" => TextInv
  /\ section # "text" => NoText

LEMMA InitMergeInv == SectionsInit => MergeInv
<1> SUFFICES ASSUME SectionsInit PROVE MergeInv
  OBVIOUS
<1>1. JoinInv
  BY InitJoinInv
<1>2. /\ tf = newChunkedIntCoder(Unit, NewDocCount - 1) /\ loc = tf /\ pc = "field"
      /\ fst = {} /\ alive = {} /\ written = Nothing /\ lists = NoLists /\ roar = {}
      /\ last.freq = 0 /\ err = "done"
  BY DEF SectionsInit, MergeStart, NoEnumerator, NoLists
<1>3. NoText
  BY <1>2 DEF NoText, newChunkedIntCoder
<1>4. ASSUME section = "text" PROVE TextInv
  <2>1. plan \in Plans /\ NewDocCount \in Nat \ {0}
    BY <1>4, SurvivorsFinite DEF SectionsInit, TermInputs, SomeDrops
  <2>2. Clean(tf, NewDocCount) /\ Clean(loc, NewDocCount)
    BY <1>2, <2>1, NewCoderIs
  <2>3. HasCollected({})
    BY <1>2, <2>1, <2>2, NothingCollected DEF HasCollected
  <2> QED  BY <1>2, <2>1, <2>3 DEF TextInv, TextTypes, LastReadable, AtField
<1> QED  BY <1>1, <1>3, <1>4 DEF MergeInv

LEMMA UnchangedText ==
  ASSUME TextInv, UNCHANGED <<itrVars, mergeVars>>
  PROVE  TextInv'
<1>1. /\ UNCHANGED <<fixed, lists, todo, pc, prevTerm, roar, last, tf, loc, fst, written, alive>>
      /\ UNCHANGED <<lowK, lowIdxs, lowCurr, err>>
  BY DEF mergeVars, itrVars, coders, dictVars
<1>2. TextTypes' /\ LastReadable'
  BY <1>1, TypesStay, LastStays DEF TextInv, TextTypes
<1>3. ASSUME NEW S PROVE HasCollected(S)' <=> Collected(lists, S', roar, tf, loc, last)
  BY <1>1, CollectedStays DEF HasCollected
<1>4. /\ Kept(lists)' = Kept(lists) /\ (ListsIn(lists)' <=> ListsIn(lists))
      /\ (Sized' <=> Sized) /\ CurrentIdx' = CurrentIdx
  BY <1>1, NumbersStay, PlanStays DEF Sized, CurrentIdx
<1>5. Passed' = Passed /\ Reached' = Reached
  BY <1>1, <1>4 DEF Passed, Reached
<1>6. ASSUME NEW term PROVE AliveWith(term)' <=> AliveWith(term)
  BY <1>1, <1>4 DEF AliveWith
<1>7. /\ HasCollected({})' <=> HasCollected({})
      /\ HasCollected(Passed)' <=> HasCollected(Passed)
      /\ HasCollected(Kept(lists))' <=> HasCollected(Kept(lists))
      /\ HasCollected(Passed \cup Reached)' <=> HasCollected(Passed \cup Reached)
  BY <1>1, <1>4, <1>5, CollectedStays DEF HasCollected
<1>8. AtField => AtField'
  BY <1>1, <1>7 DEF AtField, NoLists
<1>9. AtBegin => AtBegin'
  BY <1>1, <1>7 DEF AtBegin, NoLists
<1>10. AtSameTerm => AtSameTerm'
  BY <1>1, <1>4, <1>6, <1>7 DEF AtSameTerm, ListsOf, Bytes, AliveWith
<1>11. AtNextTerm => AtNextTerm'
  BY <1>1, <1>4, <1>6, <1>7 DEF AtNextTerm, NoLists, Bytes, AliveWith
<1>12. AtPostings => AtPostings'
  <2>1. Surviving(lists[CurrentIdx], CurrentIdx)' = Surviving(lists[CurrentIdx], CurrentIdx)
    BY <1>1, <1>4, NumbersStay
  <2> QED  BY <1>1, <1>4, <1>6, <1>7, <2>1 DEF AtPostings, ListsOf, AliveWith
<1> QED  BY <1>1, <1>2, <1>8, <1>9, <1>10, <1>11, <1>12 DEF TextInv

LEMMA MergeStep == MergeInv /\ [SectionsNext]_sectionVars => MergeInv'
<1> SUFFICES ASSUME MergeInv, [SectionsNext]_sectionVars PROVE MergeInv'
  OBVIOUS
<1>1. JoinInv' /\ EInv
  BY JoinStep DEF MergeInv, JoinInv
<1>2. CASE Text
  <2>1. section = "text" /\ section' = "text" /\ TextInv /\ MergeNext
    BY <1>2 DEF Text, MergeInv
  <2>2. TextInv'
    BY <1>1, <2>1, TextStartField, TextFinish, TextBegin, TextAdd, TextEnd DEF MergeNext
  <2> QED  BY <1>1, <2>1, <2>2 DEF MergeInv
<1>3. ASSUME section' = section, section # "text",
             UNCHANGED <<pc, fst, alive, written, tf, loc>>
      PROVE  MergeInv'
  BY <1>1, <1>3 DEF MergeInv, NoText
<1>4. CASE SynonymSection
  BY <1>3, <1>4 DEF SynonymSection, coders, dictVars
<1>5. CASE VectorIndexes
  BY <1>3, <1>5 DEF VectorIndexes, coders, dictVars
<1>6. CASE Searches
  BY <1>3, <1>6 DEF Searches, mergeVars, coders, dictVars
<1>7. CASE LookUps
  BY <1>3, <1>7 DEF LookUps, mergeVars, coders, dictVars
<1>8. CASE UNCHANGED sectionVars
  <2>1. section' = section /\ UNCHANGED <<itrVars, mergeVars>>
    BY <1>8 DEF sectionVars, mergeVars
  <2>2. UNCHANGED <<pc, fst, alive, written, tf, loc>>
    BY <2>1 DEF mergeVars, coders, dictVars
  <2> QED  BY <1>1, <1>3, <2>1, <2>2, UnchangedText DEF MergeInv
<1> QED  BY <1>2, <1>4, <1>5, <1>6, <1>7, <1>8 DEF SectionsNext

LEMMA MergeInvAlways == SectionsSpec => []MergeInv
BY InitMergeInv, MergeStep, PTL DEF SectionsSpec

LEMMA MergeInvMeans == MergeInv => TermReadable /\ DictionaryExact /\ MergeSound
<1> SUFFICES ASSUME MergeInv PROVE TermReadable /\ DictionaryExact /\ MergeSound
  OBVIOUS
<1>1. CASE section # "text"
  BY <1>1 DEF MergeInv, NoText, TermReadable, DictionaryExact, MergeSound
<1>2. CASE section = "text"
  <2>1. TextInv
    BY <1>2 DEF MergeInv
  <2>2. TermReadable
    BY <2>1, ReadableIs DEF TextInv
  <2>3. DictionaryExact
    BY <2>1 DEF TextInv, AtField, DictionaryExact
  <2>4. tf.sound /\ loc.sound
    <3>1. ASSUME NEW S, HasCollected(S) PROVE tf.sound /\ loc.sound
      BY <3>1 DEF HasCollected, Collected, Coded, Filled, CoderTypes
    <3> QED
      BY <2>1, <3>1 DEF TextInv, TextTypes, AtField, AtBegin, AtSameTerm, AtNextTerm, AtPostings
  <2>5. pc = "failed" => err = "error"
    BY <2>1 DEF TextInv
  <2> QED  BY <2>2, <2>3, <2>4, <2>5 DEF MergeSound
<1> QED  BY <1>1, <1>2

\* A reader that takes apart what finishTerm wrote finds the postings the drops
\* leave of the term (TermReadable; section_inverted_text_index.go:176-346,
\* merge.go:207-374, intcoder.go), for any segments, plans, frequencies and
\* locations, and whatever the two coders went through before.
THEOREM TermAlwaysReadable == SectionsSpec => []TermReadable
BY MergeInvAlways, MergeInvMeans, PTL

\* The dictionary of a field has a term exactly if a posting of it is left
\* (DictionaryExact), the empty term too, which prevTerm does not tell from nil.
THEOREM DictionaryAlwaysExact == SectionsSpec => []DictionaryExact
BY MergeInvAlways, MergeInvMeans, PTL

\* Neither coder is closed twice or written beyond its chunks, and no chunk size
\* is zero: a merge fails only with its dictionaries (MergeSound; intcoder.go:
\* 57-181, chunk.go).
THEOREM MergeAlwaysSound == SectionsSpec => []MergeSound
BY MergeInvAlways, MergeInvMeans, PTL

-----------------------------------------------------------------------------
(* The indexes of the vector merge.                                        *)

\* A sequence, of whatever.
IsSeq(s) == \E n \in Nat : DOMAIN s = 1..n /\ s = [k \in 1..n |-> s[k]]

LEMMA EmptyIs == IsSeq(<<>>) /\ DOMAIN <<>> = {}
BY DEF IsSeq

LEMMA AppendIs ==
  ASSUME NEW s, IsSeq(s), NEW e
  PROVE  /\ IsSeq(Append(s, e)) /\ Len(s) \in Nat
         /\ DOMAIN s = 1..Len(s) /\ DOMAIN Append(s, e) = 1..(Len(s) + 1)
         /\ \A k \in DOMAIN s : Append(s, e)[k] = s[k]
         /\ Append(s, e)[Len(s) + 1] = e
<1> DEFINE S == {s[k] : k \in DOMAIN s} \cup {e}
<1>1. PICK n \in Nat : DOMAIN s = 1..n /\ s = [k \in 1..n |-> s[k]]
  BY DEF IsSeq
<1>2. s \in [1..n -> S]
  BY <1>1
<1>3. s \in Seq(S) /\ e \in S
  BY <1>2, SeqDef
<1> HIDE DEF S
<1>4. /\ Append(s, e) \in Seq(S) /\ Len(Append(s, e)) = Len(s) + 1
      /\ \A k \in 1..Len(s) : Append(s, e)[k] = s[k]
      /\ Append(s, e)[Len(s) + 1] = e
  BY <1>3, AppendProperties
<1>5. Len(s) \in Nat /\ DOMAIN s = 1..Len(s) /\ DOMAIN Append(s, e) = 1..Len(Append(s, e))
      /\ Append(s, e) \in [1..Len(Append(s, e)) -> S]
  BY <1>3, <1>4, LenProperties
<1>6. IsSeq(Append(s, e))
  <2> DEFINE t == Append(s, e)
  <2>1. Len(s) + 1 \in Nat /\ t \in [1..(Len(s) + 1) -> S]
    BY <1>4, <1>5
  <2> HIDE DEF t
  <2>2. IsSeq(t)
    BY <2>1 DEF IsSeq
  <2> QED  BY <2>2 DEF t
<1> QED  BY <1>4, <1>5, <1>6

-----------------------------------------------------------------------------
(* The indexes of the vector merge.                                        *)

\* What has become of an index the merge has looked at.
Opened(x) == IF x.vecIds = {} THEN "nil" ELSE "open"

IndexRecord(x) == x = [seg |-> x.seg, vecIds |-> x.vecIds, index |-> x.index]

\* An index is open from ReadIndex to the end of the field, if the segment has
\* vectors left, and closed or never opened after it.
IndexInv ==
  /\ IsSeq(indexes) /\ \A k \in DOMAIN indexes : IndexRecord(indexes[k])
  /\ faissIndex = "open" => vecPc = "create"
  /\ vecPc \in {"build", "gather"} => \A k \in DOMAIN indexes : indexes[k].index = "nil"
  /\ vecPc = "read" =>
       /\ vecSeg \in Nat \ {0}
       /\ \A k \in DOMAIN indexes :
            indexes[k].index = IF k < vecSeg THEN Opened(indexes[k]) ELSE "nil"
  /\ vecPc = "recons" =>
       \A k \in DOMAIN indexes : indexes[k].index = Opened(indexes[k])
  /\ vecPc \in {"create", "field", "failed", "closed"} =>
       \A k \in DOMAIN indexes : indexes[k].index \in {"nil", "closed"}
  /\ vecPc \in {"build", "gather", "read", "recons", "create", "field", "failed", "closed"}

LEMMA StaysFreed == IndexInv => IndexesFreed
BY DEF IndexInv, IndexesFreed, Opened

LEMMA InitIndexInv == SectionsInit => IndexInv
<1> SUFFICES ASSUME SectionsInit PROVE IndexInv
  OBVIOUS
<1>1. indexes = <<>> /\ faissIndex = "nil" /\ vecPc = "build"
  BY DEF SectionsInit, VectorsStart
<1>2. IsSeq(indexes) /\ DOMAIN indexes = {}
  BY <1>1, EmptyIs
<1> QED  BY <1>1, <1>2 DEF IndexInv

\* freeReconstructedIndexes closes what is open.
LEMMA FreedIs ==
  ASSUME IsSeq(indexes), \A k \in DOMAIN indexes : IndexRecord(indexes[k]),
         \A k \in DOMAIN indexes : indexes[k].index \in {"nil", "open"}
  PROVE  /\ IsSeq(Freed(indexes)) /\ DOMAIN Freed(indexes) = DOMAIN indexes
         /\ \A k \in DOMAIN indexes :
              /\ IndexRecord(Freed(indexes)[k])
              /\ Freed(indexes)[k].index \in {"nil", "closed"}
<1>1. DOMAIN Freed(indexes) = DOMAIN indexes /\ IsSeq(Freed(indexes))
  BY DEF Freed, IsSeq
<1>2. ASSUME NEW k \in DOMAIN indexes
      PROVE  /\ IndexRecord(Freed(indexes)[k])
             /\ Freed(indexes)[k].index \in {"nil", "closed"}
  <2>1. Freed(indexes)[k] =
          [indexes[k] EXCEPT !.index = IF indexes[k].index = "nil" THEN indexes[k].index
             ELSE IF indexes[k].index = "open" THEN "closed" ELSE "misused"]
    BY DEF Freed
  <2>2. Freed(indexes)[k] =
          [seg |-> indexes[k].seg, vecIds |-> indexes[k].vecIds,
           index |-> IF indexes[k].index = "nil" THEN "nil" ELSE "closed"]
    BY <2>1 DEF IndexRecord
  <2> QED  BY <2>2 DEF IndexRecord
<1> QED  BY <1>1, <1>2

\* An element of indexes is changed in place.
LEMMA IndexSet ==
  ASSUME IsSeq(indexes), \A k \in DOMAIN indexes : IndexRecord(indexes[k]),
         NEW i \in DOMAIN indexes, NEW x,
         indexes' = [indexes EXCEPT ![i].index = x]
  PROVE  /\ IsSeq(indexes') /\ DOMAIN indexes' = DOMAIN indexes
         /\ \A k \in DOMAIN indexes : k # i => indexes'[k] = indexes[k]
         /\ indexes'[i] = [seg |-> indexes[i].seg, vecIds |-> indexes[i].vecIds, index |-> x]
<1>1. /\ indexes' = [k \in DOMAIN indexes |->
                       IF k = i THEN [indexes[i] EXCEPT !.index = x] ELSE indexes[k]]
      /\ DOMAIN indexes' = DOMAIN indexes
  BY DEF IsSeq
<1>2. IsSeq(indexes')
  BY <1>1 DEF IsSeq
<1>3. indexes'[i] = [indexes[i] EXCEPT !.index = x]
  BY <1>1
<1>4. indexes'[i] = [seg |-> indexes[i].seg, vecIds |-> indexes[i].vecIds, index |-> x]
  BY <1>3 DEF IndexRecord
<1> QED  BY <1>1, <1>2, <1>4

LEMMA ReadStep == IndexInv /\ ReadIndex => IndexInv'
<1> SUFFICES ASSUME IndexInv, ReadIndex PROVE IndexInv'
  OBVIOUS
<1> USE DEF IndexInv
<1>1. /\ vecPc = "read" /\ vecSeg \in DOMAIN indexes /\ vecSeg \in Nat
      /\ vecSeg' = vecSeg + 1 /\ UNCHANGED faissIndex /\ faissIndex # "open"
  BY DEF ReadIndex
<1>2. ASSUME NEW k \in DOMAIN indexes
      PROVE  k \in Nat /\ indexes[k].index \in {"nil", "open"}
  BY <1>1 DEF IsSeq, Opened
<1>3. ASSUME NEW pc1 \in {"closed", "failed"}, GiveUp(pc1) PROVE IndexInv'
  <2>1. indexes' = Freed(indexes) /\ vecPc' = pc1
    BY <1>3 DEF GiveUp
  <2>2. /\ IsSeq(indexes')
        /\ \A k \in DOMAIN indexes' : IndexRecord(indexes'[k])
        /\ \A k \in DOMAIN indexes' : indexes'[k].index \in {"nil", "closed"}
    BY <1>2, <2>1, FreedIs
  <2> QED  BY <1>1, <2>1, <2>2
<1>4. ASSUME indexes[vecSeg].vecIds # {},
             indexes' = [indexes EXCEPT ![vecSeg].index = "open"], UNCHANGED vecPc
      PROVE  IndexInv'
  <2>1. /\ IsSeq(indexes') /\ DOMAIN indexes' = DOMAIN indexes
        /\ \A k \in DOMAIN indexes : k # vecSeg => indexes'[k] = indexes[k]
        /\ indexes'[vecSeg] = [seg |-> indexes[vecSeg].seg,
                               vecIds |-> indexes[vecSeg].vecIds, index |-> "open"]
    BY <1>1, <1>4, IndexSet
  <2>2. ASSUME NEW k \in DOMAIN indexes
        PROVE  /\ IndexRecord(indexes'[k])
               /\ indexes'[k].index = IF k < vecSeg' THEN Opened(indexes'[k]) ELSE "nil"
    <3>1. CASE k = vecSeg
      BY <1>1, <1>2, <1>4, <2>1, <3>1 DEF IndexRecord, Opened
    <3>2. CASE k # vecSeg
      BY <1>1, <1>2, <2>1, <3>2
    <3> QED  BY <3>1, <3>2
  <2> QED  BY <1>1, <1>4, <2>1, <2>2
<1>5. ASSUME indexes[vecSeg].vecIds = {}, UNCHANGED <<indexes, vecPc>>
      PROVE  IndexInv'
  <2>1. ASSUME NEW k \in DOMAIN indexes
        PROVE  indexes'[k].index = IF k < vecSeg' THEN Opened(indexes'[k]) ELSE "nil"
    BY <1>1, <1>2, <1>5 DEF Opened
  <2> QED  BY <1>1, <1>5, <2>1
<1> QED  BY <1>3, <1>4, <1>5 DEF ReadIndex

LEMMA VectorsStep == IndexInv /\ VectorsNext => IndexInv'
<1> SUFFICES ASSUME IndexInv, VectorsNext PROVE IndexInv'
  OBVIOUS
<1> USE DEF IndexInv
<1>1. CASE BuildVectors
  <2>1. UNCHANGED <<indexes, faissIndex>> /\ vecPc = "build" /\ vecPc' \in {"build", "field"}
    BY <1>1 DEF BuildVectors, mergeVecVars
  <2> QED  BY <2>1
<1>2. CASE StartVecField
  <2>1. indexes' = <<>> /\ vecPc' = "gather" /\ UNCHANGED faissIndex /\ vecPc = "field"
    BY <1>2 DEF StartVecField
  <2>2. IsSeq(indexes') /\ DOMAIN indexes' = {}
    BY <2>1, EmptyIs
  <2> QED  BY <2>1, <2>2
<1>3. CASE GatherVectors
  <2>1. vecPc = "gather" /\ UNCHANGED <<vecPc, faissIndex>>
    BY <1>3 DEF GatherVectors
  <2>2. CASE UNCHANGED indexes
    BY <2>1, <2>2
  <2>3. ASSUME NEW ids,
               indexes' = Append(indexes, [seg |-> vecSeg, vecIds |-> ids, index |-> "nil"])
        PROVE  IndexInv'
    <3> DEFINE x == [seg |-> vecSeg, vecIds |-> ids, index |-> "nil"]
    <3>1. IndexRecord(x) /\ x.index = "nil"
      BY DEF IndexRecord
    <3> HIDE DEF x
    <3>2. indexes' = Append(indexes, x)
      BY <2>3 DEF x
    <3>3. ASSUME NEW k \in DOMAIN indexes'
          PROVE  IndexRecord(indexes'[k]) /\ indexes'[k].index = "nil"
      <4>1. k \in DOMAIN indexes \/ k = Len(indexes) + 1
        BY <3>2, AppendIs
      <4> QED  BY <2>1, <3>1, <3>2, <4>1, AppendIs
    <3> QED  BY <2>1, <3>2, <3>3, AppendIs
  <2> QED  BY <1>3, <2>2, <2>3 DEF GatherVectors
<1>4. CASE FlushSectionMetadata
  <2>1. /\ vecPc = "gather" /\ vecPc' \in {"read", "failed"} /\ vecSeg' = 1
        /\ UNCHANGED <<indexes, faissIndex>>
    BY <1>4 DEF FlushSectionMetadata
  <2>2. \A k \in DOMAIN indexes : ~(k < 1)
    BY DEF IsSeq
  <2> QED  BY <2>1, <2>2
<1>5. CASE ReadIndex
  BY <1>5, ReadStep
<1>6. CASE EndRead
  <2>1. /\ vecPc = "read" /\ vecSeg \notin DOMAIN indexes /\ vecSeg \in Nat \ {0}
        /\ vecPc' = IF \E k \in DOMAIN indexes : indexes[k].index = "open"
                    THEN "recons" ELSE "field"
        /\ UNCHANGED <<indexes, faissIndex>>
    BY <1>6 DEF EndRead
  <2>2. \A k \in DOMAIN indexes : k < vecSeg
    BY <2>1 DEF IsSeq
  <2>3. \A k \in DOMAIN indexes : indexes[k].index = Opened(indexes[k])
    BY <2>1, <2>2
  <2> QED  BY <2>1, <2>3 DEF Opened
<1>7. CASE Reconstruct
  <2>1. /\ vecPc = "recons" /\ vecSeg \in DOMAIN indexes
        /\ UNCHANGED faissIndex /\ faissIndex # "open"
        /\ \A k \in DOMAIN indexes : indexes[k].index \in {"nil", "open"}
    BY <1>7 DEF Reconstruct, Opened
  <2>2. ASSUME NEW pc1 \in {"closed", "failed"}, GiveUp(pc1) PROVE IndexInv'
    <3>1. indexes' = Freed(indexes) /\ vecPc' = pc1
      BY <2>2 DEF GiveUp
    <3>2. /\ IsSeq(indexes')
          /\ \A k \in DOMAIN indexes' : IndexRecord(indexes'[k])
          /\ \A k \in DOMAIN indexes' : indexes'[k].index \in {"nil", "closed"}
      BY <2>1, <3>1, FreedIs
    <3> QED  BY <2>1, <3>1, <3>2
  <2>3. ASSUME UNCHANGED vecPc,
               indexes' = IF indexes[vecSeg].vecIds # {} /\ indexes[vecSeg].index # "open"
                          THEN [indexes EXCEPT ![vecSeg].index = "misused"] ELSE indexes
        PROVE  IndexInv'
    <3>1. indexes' = indexes
      BY <2>1, <2>3 DEF Opened
    <3> QED  BY <2>1, <2>3, <3>1
  <2> QED  BY <1>7, <2>2, <2>3 DEF Reconstruct
<1>8. CASE CreateIndex
  <2>1. /\ vecPc = "recons" /\ vecPc' \in {"failed", "create"} /\ indexes' = Freed(indexes)
        /\ vecPc' = "failed" => UNCHANGED faissIndex
        /\ \A k \in DOMAIN indexes : indexes[k].index \in {"nil", "open"}
    BY <1>8 DEF CreateIndex, Opened
  <2>2. /\ IsSeq(indexes')
        /\ \A k \in DOMAIN indexes' : IndexRecord(indexes'[k])
        /\ \A k \in DOMAIN indexes' : indexes'[k].index \in {"nil", "closed"}
    BY <2>1, FreedIs
  <2> QED  BY <2>1, <2>2
<1>9. CASE WriteIndex
  <2>1. /\ vecPc = "create" /\ vecPc' \in {"failed", "field"} /\ faissIndex' = "closed"
        /\ UNCHANGED indexes
    BY <1>9 DEF WriteIndex
  <2> QED  BY <2>1
<1>10. CASE VectorsClosed
  <2>1. vecPc = "gather" /\ vecPc' = "closed" /\ UNCHANGED <<indexes, faissIndex>>
    BY <1>10 DEF VectorsClosed, mergeVecVars
  <2> QED  BY <2>1
<1> QED
  BY <1>1, <1>2, <1>3, <1>4, <1>5, <1>6, <1>7, <1>8, <1>9, <1>10 DEF VectorsNext

\* Whichever way the merge of a field ends, early or late, each index it opened
\* is closed once and none is used unopened (section_faiss_vector_index.go).
THEOREM IndexesAlwaysFreed == SectionsSpec => []IndexesFreed
<1>1. IndexInv /\ [SectionsNext]_sectionVars => IndexInv'
  <2> SUFFICES ASSUME IndexInv, [SectionsNext]_sectionVars PROVE IndexInv'
    OBVIOUS
  <2>1. CASE UNCHANGED vecVars
    <3>1. UNCHANGED <<indexes, vecPc, vecSeg, faissIndex>>
      BY <2>1 DEF vecVars, mergeVecVars
    <3> QED  BY <3>1 DEF IndexInv
  <2>2. CASE VectorsNext
    BY <2>2, VectorsStep
  <2> QED
    BY <2>1, <2>2 DEF SectionsNext, sectionVars, Text, SynonymSection, VectorIndexes,
       Searches, LookUps
<1> QED  BY <1>1, InitIndexInv, StaysFreed, PTL DEF SectionsSpec

-----------------------------------------------------------------------------
(* The dictionary.                                                         *)

\* The values of an entry.
LEMMA ValueIs ==
  ASSUME NEW v \in DictValues
  PROVE  /\ v.docs \in SUBSET DictDocs /\ IsFiniteSet(v.docs)
         /\ v.oneHit => \E x : v.docs = {x}
         /\ v.docs # {} /\ v.oneHit \in BOOLEAN
<1>1. v.docs \in SUBSET DictDocs /\ v.docs # {} /\ v.oneHit \in BOOLEAN
      /\ (v.oneHit => Cardinality(v.docs) = 1)
  BY DictionaryAssumption
<1>2. IsFiniteSet(v.docs)
  BY <1>1, FS_Subset, DictionaryAssumption
<1>3. v.oneHit => \E x : v.docs = {x}
  BY <1>1, <1>2, FS_Singleton
<1> QED  BY <1>1, <1>2, <1>3

\* A list that stands for the documents D with those of E left out.
Stands(p, D, E) ==
  /\ Count(p) = Cardinality(D \ E)
  /\ Actual(p) = D \ E
  /\ OrInto(p, {}) = D

\* The members of D that are left count as the list counts them.
LEMMA CountLeft ==
  ASSUME NEW D, IsFiniteSet(D), NEW E
  PROVE  Cardinality(D \ E) = Cardinality(D) - Cardinality(D \cap E)
BY FS_Difference

\* A list of its own.
ListOf(q, E, h) == [shared |-> FALSE, postings |-> q, except |-> E, docNum1Hit |-> h]

\* What read makes of an empty list.
LEMMA ReadIs ==
  ASSUME NEW q, NEW E, NEW v, NEW r,
         r = ListOf(q, E, NoList)
  PROVE  /\ \A x : v.oneHit /\ v.docs = {x} =>
              read(r, v) = ListOf(q, E, x)
         /\ ~v.oneHit => read(r, v) = ListOf(v.docs, E, NoList)
<1>1. ASSUME NEW x, v.oneHit, v.docs = {x}
      PROVE  read(r, v) = ListOf(q, E, x)
  <2>1. (CHOOSE y \in {x} : TRUE) = x
    OBVIOUS
  <2>2. read(r, v) = [r EXCEPT !.docNum1Hit = x]
    BY <1>1, <2>1 DEF read
  <2> QED  BY <2>2 DEF ListOf
<1>2. ASSUME ~v.oneHit
      PROVE  read(r, v) = ListOf(v.docs, E, NoList)
  <2>1. read(r, v) = [r EXCEPT !.postings = v.docs]
    BY <1>2 DEF read
  <2> QED  BY <2>1 DEF ListOf
<1> QED  BY <1>1, <1>2

\* Whatever list is handed back, postingsList leaves nothing of it.
LEMMA ListStands ==
  ASSUME NEW d, d \in Dicts \cup {NoList},
         NEW t, NEW E \in SUBSET DictDocs, NEW rv
  PROVE  Stands(postingsList(d, t, E, rv), IF d = NoList THEN {} ELSE DocsOf(d, t), E)
<1> DEFINE p == postingsList(d, t, E, rv)
<1>1. NoList \notin DictDocs /\ NoList \notin SUBSET DictDocs
  BY DictionaryAssumption
<1>2. CASE d # NoList /\ t \in DOMAIN d
  <2>1. d[t] \in DictValues /\ DocsOf(d, t) = d[t].docs
    BY <1>2 DEF DocsOf, Dicts
  <2>2. PICK q \in {NoList, {}} :
          postingsListInit(rv, E) = ListOf(q, E, NoList)
    <3>1. CASE rv = NoList \/ rv = emptyPostingsList
      BY <3>1 DEF postingsListInit, ZeroList, ListOf
    <3>2. CASE ~(rv = NoList \/ rv = emptyPostingsList)
      BY <3>2 DEF postingsListInit, ZeroList, ListOf
    <3> QED  BY <3>1, <3>2
  <2>3. p = read(postingsListInit(rv, E), d[t])
    BY <1>2 DEF postingsList
  <2>4. CASE d[t].oneHit
    <3>1. PICK x : d[t].docs = {x}
      BY <2>1, <2>4, ValueIs
    <3>2. x \in DictDocs /\ x # NoList
      BY <1>1, <2>1, <3>1, ValueIs
    <3>3. read(postingsListInit(rv, E), d[t])
            = ListOf(q, E, x)
      <4> DEFINE r == postingsListInit(rv, E)
      <4>1. r = ListOf(q, E, NoList)
        BY <2>2
      <4> HIDE DEF r
      <4>2. read(r, d[t]) = ListOf(q, E, x)
        BY <2>4, <3>1, <4>1, ReadIs
      <4> QED  BY <4>2 DEF r
    <3>4. IsFiniteSet({x}) /\ Cardinality({x}) = 1
      BY FS_Singleton
    <3>5. Cardinality({x} \ E) = 1 - Cardinality({x} \cap E)
      BY <3>4, CountLeft
    <3> HIDE DEF p
    <3>6. Stands(p, {x}, E)
      BY <2>3, <3>2, <3>3, <3>5 DEF Stands, Count, Actual, OrInto, ListOf
    <3> QED  BY <1>2, <2>1, <3>1, <3>6 DEF p
  <2>5. CASE ~d[t].oneHit
    <3> DEFINE D == d[t].docs
    <3>1. D \in SUBSET DictDocs /\ IsFiniteSet(D) /\ D # NoList
      BY <1>1, <2>1, ValueIs
    <3>2. read(postingsListInit(rv, E), d[t])
            = ListOf(D, E, NoList)
      <4> DEFINE r == postingsListInit(rv, E)
      <4>1. r = ListOf(q, E, NoList)
        BY <2>2
      <4> HIDE DEF r
      <4>2. read(r, d[t]) = ListOf(D, E, NoList)
        BY <2>5, <4>1, ReadIs
      <4> QED  BY <4>2 DEF r
    <3>3. Cardinality(D \ E) = Cardinality(D) - Cardinality(D \cap E)
      BY <3>1, CountLeft
    <3> HIDE DEF p, D
    <3>4. Stands(p, D, E)
      BY <2>3, <3>1, <3>2, <3>3 DEF Stands, Count, Actual, OrInto, Bitmap, ListOf
    <3> QED  BY <1>2, <2>1, <3>4 DEF p, D
  <2> QED  BY <2>4, <2>5
<1>3. CASE ~(d # NoList /\ t \in DOMAIN d)
  <2>1. (IF d = NoList THEN {} ELSE DocsOf(d, t)) = {}
    BY <1>3 DEF DocsOf
  <2>2. p.docNum1Hit = NoList /\ p.postings \in {NoList, {}}
    <3>1. p = IF rv = NoList \/ rv = emptyPostingsList THEN emptyPostingsList
              ELSE postingsListInit(rv, E)
      BY <1>3 DEF postingsList
    <3>2. CASE rv = NoList \/ rv = emptyPostingsList
      BY <3>1, <3>2 DEF emptyPostingsList, ZeroList
    <3>3. CASE ~(rv = NoList \/ rv = emptyPostingsList)
      BY <3>1, <3>3 DEF postingsListInit, ZeroList
    <3> QED  BY <3>2, <3>3
  <2> HIDE DEF p
  <2>3. Bitmap(p) = {}
    BY <2>2 DEF Bitmap
  <2>4. Cardinality({}) = 0 /\ {} \cap p.except = {} /\ {} \ E = {}
    BY FS_EmptySet
  <2>5. Stands(p, {}, E)
    BY <2>2, <2>3, <2>4 DEF Stands, Count, Actual, OrInto
  <2> QED  BY <2>1, <2>5 DEF p
<1> QED  BY <1>2, <1>3

\* The list the caller has stands for what it asked for, and the documents of
\* the IDs have been found.
LookupInv ==
  /\ dict \in Dicts
  /\ pl # NoList => Stands(pl, asked.docs, asked.except)
  /\ found.docs = UNION {DocsOf(dict, t) : t \in found.ids}

LEMMA InitLookupInv == SectionsInit => LookupInv
<1> SUFFICES ASSUME SectionsInit PROVE LookupInv
  OBVIOUS
<1>1. pl = NoList /\ found = [ids |-> {}, docs |-> {}]
      /\ (dict \in Dicts \/ dict = <<>>)
  BY DEF SectionsInit, DictionaryStart, DictionaryInputs, NoDictionary
<1>2. <<>> \in Dicts
  <2>1. <<>> \in [{} -> DictValues] /\ {} \in SUBSET Terms
    OBVIOUS
  <2> QED  BY <2>1 DEF Dicts
<1> QED  BY <1>1, <1>2 DEF LookupInv

\* No ID above MaxKey is in the dictionary.
LEMMA MaxKeyIs ==
  ASSUME NEW d \in Dicts, DOMAIN d # {}, NEW t \in Terms, ~(t <= MaxKey(d))
  PROVE  t \notin DOMAIN d
<1>1. DOMAIN d \in SUBSET Nat /\ IsFiniteSet(DOMAIN d)
  <2>1. DOMAIN d \subseteq Terms
    BY DEF Dicts
  <2> QED  BY <2>1, FS_Subset, DictionaryAssumption
<1>2. \A u \in DOMAIN d : u <= MaxKey(d)
  BY <1>1, GreatestExists DEF MaxKey
<1> QED  BY <1>2

LEMMA DocNumbersStep == LookupInv /\ DocNumbers => LookupInv'
<1> SUFFICES ASSUME LookupInv, DocNumbers PROVE LookupInv'
  OBVIOUS
<1> DEFINE P1(a) == IF a <= MaxKey(dict) THEN postingsList(dict, a, {}, emptyPostingsList)
                    ELSE emptyPostingsList
           R1(a) == IF a <= MaxKey(dict) THEN OrInto(P1(a), {}) ELSE {}
           P2(a, b) == postingsList(dict, b, {}, P1(a))
           R2(a, b) == IF b <= MaxKey(dict) THEN OrInto(P2(a, b), R1(a)) ELSE R1(a)
<1>1. PICK a \in Terms, b \in Terms : found' = [ids |-> {a, b}, docs |-> R2(a, b)]
  BY DEF DocNumbers
<1>2. DOMAIN dict # {} /\ UNCHANGED <<dict, pl, asked>> /\ dict \in Dicts /\ dict # NoList
  BY DictionaryAssumption DEF DocNumbers, LookupInv
<1>3. ASSUME NEW t \in Terms, NEW rv
      PROVE  OrInto(postingsList(dict, t, {}, rv), {}) = DocsOf(dict, t)
  BY <1>2, ListStands DEF Stands
<1>4. ASSUME NEW t \in Terms, ~(t <= MaxKey(dict))
      PROVE  DocsOf(dict, t) = {}
  BY <1>2, <1>4, MaxKeyIs DEF DocsOf
<1>5. R1(a) = DocsOf(dict, a)
  BY <1>3, <1>4
<1>6. R2(a, b) = DocsOf(dict, a) \cup DocsOf(dict, b)
  <2>1. CASE b <= MaxKey(dict)
    <3>1. R2(a, b) = R1(a) \cup OrInto(P2(a, b), {})
      BY <2>1 DEF OrInto
    <3>2. OrInto(P2(a, b), {}) = DocsOf(dict, b)
      BY <1>3
    <3> QED  BY <1>5, <3>1, <3>2
  <2>2. CASE ~(b <= MaxKey(dict))
    BY <1>4, <1>5, <2>2
  <2> QED  BY <2>1, <2>2
<1> HIDE DEF R2
<1>7. found'.ids = {a, b} /\ found'.docs = DocsOf(dict, a) \cup DocsOf(dict, b)
  BY <1>1, <1>6
<1>8. found'.docs = UNION {DocsOf(dict, t) : t \in found'.ids}
  BY <1>7
<1> QED  BY <1>2, <1>8 DEF LookupInv, Stands, DocsOf

\* Whichever list, empty, shared or of another encoding, is handed back to be
\* used again, PostingsList counts and yields the documents of the term it was
\* asked for, without those left out, and DocNumbers finds those of the IDs it
\* was given (dict.go:59-110, posting.go:128-268, segment.go:656).
THEOREM LookupAlwaysExact == SectionsSpec => []LookupExact
<1>1. LookupInv /\ [SectionsNext]_sectionVars => LookupInv'
  <2> SUFFICES ASSUME LookupInv, [SectionsNext]_sectionVars PROVE LookupInv'
    OBVIOUS
  <2>1. ASSUME UNCHANGED <<dict, pl, asked, found>> PROVE LookupInv'
    BY <2>1 DEF LookupInv, DocsOf, Stands
  <2>2. CASE LookUp
    <3>1. PICK d \in {dict, NoList}, t \in Terms, except \in SUBSET DictDocs, rv \in {pl, NoList} :
            /\ pl' = postingsList(d, t, except, rv)
            /\ asked' = [docs |-> IF d = NoList THEN {} ELSE DocsOf(d, t), except |-> except]
            /\ UNCHANGED <<dict, found>>
      BY <2>2 DEF LookUp
    <3>2. d \in Dicts \cup {NoList}
      BY <3>1 DEF LookupInv
    <3>3. Stands(pl', IF d = NoList THEN {} ELSE DocsOf(d, t), except)
      BY <3>1, <3>2, ListStands
    <3>4. Stands(pl, asked.docs, asked.except)'
      BY <3>1, <3>3 DEF Stands
    <3> QED  BY <3>1, <3>4 DEF LookupInv, DocsOf
  <2>3. CASE DocNumbers
    BY <2>3, DocNumbersStep
  <2>4. CASE UNCHANGED dictionaryVars
    BY <2>1, <2>4 DEF dictionaryVars
  <2>5. CASE StartIterator
    BY <2>1, <2>5 DEF StartIterator
  <2>6. CASE NextEntry
    BY <2>1, <2>6 DEF NextEntry
  <2> QED
    BY <2>2, <2>3, <2>4, <2>5, <2>6 DEF SectionsNext, sectionVars, Text, SynonymSection,
       VectorIndexes, Searches, LookUps, DictionaryNext
<1>2. LookupInv => LookupExact
  BY DEF LookupInv, LookupExact, Stands
<1> QED  BY <1>1, <1>2, InitLookupInv, PTL DEF SectionsSpec

-----------------------------------------------------------------------------
(* The search of vectors.                                                  *)

\* What SearchInputs chooses.
SearchTypes ==
  /\ query.k \in Nat \ {0} /\ query.eligible \in SUBSET SearchDocs
  /\ query.eligible \cap query.except = {} /\ query.filter \in BOOLEAN
  /\ query.filter = FALSE => query.eligible = SearchDocs \ query.except
  /\ \/ \A v \in Vectors : ivf[v] = 0
     \/ \A v \in Vectors : ivf[v] \in 1..Clusters
  /\ built \in SUBSET SearchDocs
  /\ query.made \in BOOLEAN /\ (query.made => built = query.except)

LEMMA SearchInputTypes == SearchInputs => SearchTypes
<1> SUFFICES ASSUME SearchInputs PROVE SearchTypes
  OBVIOUS
<1>1. PICK k \in Ks, except \in SUBSET SearchDocs :
        query \in [k : {k}, except : {except}, made : BOOLEAN, filter : {FALSE},
                   eligible : {SearchDocs \ except}]
                    \cup [k : {k}, except : {except}, made : BOOLEAN, filter : {TRUE},
                          eligible : SUBSET (SearchDocs \ except)]
  BY DEF SearchInputs
<1>2. /\ query.k = k /\ query.except = except /\ query.filter \in BOOLEAN
      /\ query.made \in BOOLEAN
      /\ query.eligible \in SUBSET (SearchDocs \ except)
      /\ query.filter = FALSE => query.eligible = SearchDocs \ except
  BY <1>1
<1>3. k \in Nat \ {0}
  BY VectorSearchAssumption
<1>4. \/ \A v \in Vectors : ivf[v] = 0
      \/ \A v \in Vectors : ivf[v] \in 1..Clusters
  BY DEF SearchInputs
<1>5. built \in SUBSET SearchDocs /\ (query.made => built = query.except)
  BY <1>2 DEF SearchInputs
<1> QED  BY <1>2, <1>3, <1>4, <1>5 DEF SearchTypes

LEMMA VectorSets ==
  ASSUME NEW S \in SUBSET Vectors
  PROVE  IsFiniteSet(S) /\ Cardinality(S) \in Nat
BY FS_Subset, FS_CardinalityType, VectorSearchAssumption DEF Vectors

LEMMA SplitVectors ==
  ASSUME NEW S \in SUBSET Vectors, NEW T
  PROVE  /\ Cardinality(S) = Cardinality(S \cap T) + Cardinality(S \ T)
         /\ Cardinality(S \cap T) \in Nat /\ Cardinality(S \ T) \in Nat
<1> DEFINE c == Cardinality(S)  i == Cardinality(S \cap T)  r == Cardinality(S \ T)
<1>1. c \in Nat /\ IsFiniteSet(S)
  BY VectorSets
<1>2. i \in Nat
  <2>1. S \cap T \in SUBSET Vectors
    OBVIOUS
  <2> QED  BY <2>1, VectorSets
<1>3. r \in Nat
  <2>1. S \ T \in SUBSET Vectors
    OBVIOUS
  <2> QED  BY <2>1, VectorSets
<1>4. r = c - i
  BY <1>1, FS_Difference
<1> HIDE DEF c, i, r
<1>5. c = i + r
  BY <1>1, <1>2, <1>3, <1>4
<1> QED  BY <1>2, <1>3, <1>5 DEF c, i, r

LEMMA MappedIs ==
  /\ Mapped \in SUBSET Vectors /\ Asked \in SUBSET Vectors
  /\ VectorsOf(built) \in SUBSET Vectors
  /\ \A v \in Vectors : v \notin Mapped => v \in VectorsOf(built)
BY VectorSearchAssumption DEF Mapped, Asked, VectorsOf, Vectors

\* The index may look at the vectors of S.  If those of them that have a document
\* are asked for, and there are enough of them or none is left out, the search
\* misses what has no document only.
LEMMA Suffices ==
  ASSUME SearchTypes, NEW S \in SUBSET Vectors, NEW R \in Nearest(S),
         S \cap Mapped \subseteq Asked,
         Cardinality(S) >= query.k \/ Asked \cap Mapped \subseteq S
  PROVE  /\ R \cap Mapped \subseteq Asked
         /\ Cardinality(R \cap Mapped) <= query.k
         /\ Cardinality(R \cap Mapped) + Cardinality(VectorsOf(built)) >=
              IF Cardinality(Asked) < query.k THEN Cardinality(Asked) ELSE query.k
<1> DEFINE H == R \cap Mapped
           B == VectorsOf(built)
           cH == Cardinality(H)
           cB == Cardinality(B)
           cR == Cardinality(R)
           cS == Cardinality(S)
           cA == Cardinality(Asked)
           k  == query.k
<1>1. /\ R \in SUBSET S /\ cR = IF cS < k THEN cS ELSE k
      /\ k \in Nat
  BY DEF Nearest, SearchTypes
<1>2. /\ R \in SUBSET Vectors /\ H \in SUBSET Vectors /\ B \in SUBSET Vectors
      /\ R \ Mapped \in SUBSET B /\ Asked \ Mapped \in SUBSET B
      /\ Asked \in SUBSET Vectors
  BY <1>1, MappedIs
<1>3. /\ IsFiniteSet(R) /\ cR \in Nat /\ IsFiniteSet(S) /\ cS \in Nat
      /\ IsFiniteSet(B) /\ cB \in Nat /\ cH \in Nat
      /\ IsFiniteSet(Asked) /\ cA \in Nat
  BY <1>2, VectorSets
<1>4. cR = cH + Cardinality(R \ Mapped) /\ Cardinality(R \ Mapped) \in Nat
  BY <1>2, SplitVectors
<1>5. Cardinality(R \ Mapped) <= cB
  BY <1>2, <1>3, FS_Subset
<1>6. cA <= Cardinality(Asked \cap Mapped) + cB /\ Cardinality(Asked \cap Mapped) \in Nat
  <2>1. cA = Cardinality(Asked \cap Mapped) + Cardinality(Asked \ Mapped)
        /\ Cardinality(Asked \cap Mapped) \in Nat /\ Cardinality(Asked \ Mapped) \in Nat
    BY <1>2, SplitVectors
  <2>2. Cardinality(Asked \ Mapped) <= cB
    BY <1>2, <1>3, FS_Subset
  <2> HIDE DEF cA, cB
  <2> QED  BY <1>3, <2>1, <2>2
<1>7. ASSUME Asked \cap Mapped \subseteq S, cS < k
      PROVE  Cardinality(Asked \cap Mapped) <= cH
  <2>1. R = S
    BY <1>1, <1>3, <1>7, FS_Subset
  <2>2. Asked \cap Mapped \in SUBSET H
    BY <1>7, <2>1
  <2>3. IsFiniteSet(H)
    BY <1>2, VectorSets
  <2> QED  BY <2>2, <2>3, FS_Subset
<1>8. H \subseteq Asked
  BY <1>1
<1> DEFINE c  == Cardinality(R \ Mapped)
           cM == Cardinality(Asked \cap Mapped)
<1>9. /\ cH \in Nat /\ cB \in Nat /\ cR \in Nat /\ cS \in Nat /\ cA \in Nat /\ k \in Nat
      /\ c \in Nat /\ cM \in Nat
      /\ cR = IF cS < k THEN cS ELSE k
      /\ cR = cH + c /\ c <= cB /\ cA <= cM + cB
      /\ cS >= k \/ cM <= cH
  BY <1>1, <1>3, <1>4, <1>5, <1>6, <1>7
<1> HIDE DEF cH, cB, cR, cS, cA, k, c, cM
<1>10. cH <= k /\ cH + cB >= IF cA < k THEN cA ELSE k
  BY <1>9
<1> QED  BY <1>8, <1>10 DEF cH, cB, cA, k

\* A list that HitsComplete allows.
Complete(H) ==
  /\ H \subseteq Asked
  /\ Cardinality(H) <= query.k
  /\ \/ Cardinality(H) + Cardinality(Foreign) >=
          IF Cardinality(Asked) < query.k THEN Cardinality(Asked) ELSE query.k
     \/ IsIVFIndex /\ (query.filter => query.eligible = SearchDocs)

\* What misses no more than the vectors without a document is complete, unless
\* there are none to miss.
LEMMA EnoughComplete ==
  ASSUME NEW H, H \subseteq Asked, Cardinality(H) <= query.k,
         Cardinality(H) + Cardinality(VectorsOf(built)) >=
           IF Cardinality(Asked) < query.k THEN Cardinality(Asked) ELSE query.k,
         query.filter \/ ~query.made
  PROVE  Complete(H)
BY DEF Complete, Foreign

\* No more than k come back, from wherever.
LEMMA NoneForeign ==
  ASSUME SearchTypes, NEW S \in SUBSET Vectors, NEW R \in Nearest(S),
         S \cap Mapped \subseteq Asked
  PROVE  R \cap Mapped \subseteq Asked /\ Cardinality(R \cap Mapped) <= query.k
<1> DEFINE cH == Cardinality(R \cap Mapped)  cR == Cardinality(R)  cS == Cardinality(S)
           k == query.k
<1>1. R \in SUBSET S /\ cR = (IF cS < k THEN cS ELSE k) /\ k \in Nat
  BY DEF Nearest, SearchTypes
<1>2. cR \in Nat /\ cH \in Nat /\ cS \in Nat /\ cH <= cR
  <2>1. R \in SUBSET Vectors /\ R \cap Mapped \in SUBSET R /\ R \cap Mapped \in SUBSET Vectors
    BY <1>1
  <2> QED  BY <2>1, VectorSets, FS_Subset
<1> HIDE DEF cH, cR, cS, k
<1>3. cH <= k
  BY <1>1, <1>2
<1> QED  BY <1>1, <1>3 DEF cH, k

\* A search that no filter narrows.
LEMMA UnfilteredComplete ==
  ASSUME SearchTypes, query.eligible = SearchDocs \ query.except,
         query.filter => query.eligible = SearchDocs,
         NEW R \in Unfiltered
  PROVE  Complete(R \cap Mapped)
<1> DEFINE S == {v \in Vectors \ VectorIDsToExclude : IsIVFIndex => ivf[v] <= nprobe}
<1>1. S \in SUBSET Vectors /\ R \in Nearest(S)
  BY DEF Unfiltered
<1>2. S \cap Mapped \subseteq Asked
  <2> SUFFICES ASSUME NEW v \in S, v \in Mapped PROVE v \in Asked
    OBVIOUS
  <2>1. v \in Vectors /\ VectorDoc[v] \in SearchDocs /\ VectorDoc[v] \notin query.except
    <3>1. v \in Vectors /\ v \notin VectorIDsToExclude /\ VectorDoc[v] \in SearchDocs
      BY DEF Mapped, VectorsOf
    <3> QED  BY <3>1 DEF VectorIDsToExclude, LeftOut, VectorsOf
  <2> QED  BY <2>1 DEF Asked, VectorsOf
<1>3. CASE IsIVFIndex
  BY <1>1, <1>2, <1>3, NoneForeign DEF Complete
<1>4. CASE ~IsIVFIndex /\ ~(query.made /\ ~query.filter)
  <2>1. Asked \cap Mapped \subseteq S
    BY <1>4 DEF Asked, VectorsOf, VectorIDsToExclude, LeftOut
  <2> HIDE DEF S
  <2> QED  BY <1>1, <1>2, <1>4, <2>1, Suffices, EnoughComplete DEF SearchTypes
<1>5. CASE ~IsIVFIndex /\ query.made /\ ~query.filter
  <2>1. built = query.except
    BY <1>5 DEF SearchTypes
  <2>2. S = Asked /\ Mapped = Asked
    <3>1. Asked = {v \in Vectors : VectorDoc[v] \in SearchDocs \ query.except}
      BY DEF Asked, VectorsOf
    <3>2. \A v \in Vectors : VectorDoc[v] \in SearchDocs
      BY VectorSearchAssumption DEF Vectors
    <3>3. VectorIDsToExclude = {v \in Vectors : VectorDoc[v] \in query.except}
      BY <1>5 DEF VectorIDsToExclude, LeftOut, VectorsOf
    <3>4. Mapped = Asked
      BY <2>1, <3>1 DEF Mapped, VectorsOf
    <3>5. S = Asked
      BY <1>5, <3>1, <3>2, <3>3
    <3> QED  BY <3>4, <3>5
  <2>3. R \in SUBSET Asked /\ Asked \in SUBSET Vectors
        /\ Cardinality(R) = IF Cardinality(Asked) < query.k THEN Cardinality(Asked) ELSE query.k
    BY <1>1, <2>2 DEF Nearest
  <2>4. R \cap Mapped = R /\ Cardinality(R) \in Nat /\ Cardinality(Asked) \in Nat
        /\ query.k \in Nat
    <3>1. R \in SUBSET Vectors
      BY <2>3
    <3> QED  BY <2>2, <2>3, <3>1, VectorSets DEF SearchTypes
  <2>5. Foreign = {} /\ Cardinality(Foreign) = 0
    BY <1>5, FS_EmptySet DEF Foreign
  <2> PICK r \in Nat : r = Cardinality(R)
    BY <2>4
  <2> PICK a \in Nat : a = Cardinality(Asked)
    BY <2>4
  <2>6. r <= query.k /\ r + 0 >= IF a < query.k THEN a ELSE query.k
    BY <2>3, <2>4
  <2> QED  BY <2>3, <2>4, <2>5, <2>6 DEF Complete
<1> QED  BY <1>3, <1>4, <1>5

LEMMA IncludedIs ==
  /\ VectorIDsToInclude = Asked \cap Mapped
  /\ VectorIDsToInclude \in SUBSET Vectors
BY DEF VectorIDsToInclude, Asked, VectorsOf, Mapped

\* Either selector has the eligible vectors, and no other that has a document.
LEMMA SelectedIs ==
  /\ Selected \in SUBSET Vectors
  /\ Selected \cap Mapped = VectorIDsToInclude
<1> DEFINE T == Vectors \ {v \in Mapped : VectorDoc[v] \notin query.eligible}
<1>1. Mapped \in SUBSET Vectors
  BY DEF Mapped, VectorsOf
<1>2. T \in SUBSET Vectors /\ T \cap Mapped = VectorIDsToInclude
  BY <1>1 DEF VectorIDsToInclude
<1>3. Selected = T \/ Selected = VectorIDsToInclude
  BY DEF Selected
<1>4. VectorIDsToInclude \in SUBSET Vectors /\ VectorIDsToInclude \cap Mapped = VectorIDsToInclude
  BY IncludedIs
<1> HIDE DEF T
<1> QED  BY <1>2, <1>3, <1>4

\* The clusters that are probed hold k eligible vectors, or all of them.
LEMMA ProbedEnough ==
  ASSUME SearchTypes, IsIVFIndex,
         NEW S, S = {v \in Selected : ivf[v] \in FirstCentroids(MinEligibleCentroids)}
  PROVE  Cardinality(S) >= query.k \/ VectorIDsToInclude \subseteq S
<1> DEFINE enough == {n \in 1..Cardinality(ClosestCentroids) : CountsIn(n) >= query.k /\ n >= nprobe}
           V == VectorIDsToInclude
<1>1. V \in SUBSET Vectors /\ V \subseteq Selected /\ Selected \in SUBSET Vectors
      /\ S \in SUBSET Vectors
  BY IncludedIs, SelectedIs
<1>2. CASE enough # {}
  <2>1. enough \in SUBSET Nat
    OBVIOUS
  <2>2. MinEligibleCentroids \in enough
    <3>1. MinEligibleCentroids = Lowest(enough)
      BY <1>2 DEF MinEligibleCentroids, Lowest
    <3> HIDE DEF enough
    <3> QED  BY <1>2, <2>1, <3>1, LowestIs
  <2> DEFINE n == MinEligibleCentroids
             W == {v \in V : ivf[v] \in FirstCentroids(n)}
  <2>3. Cardinality(W) >= query.k
    BY <2>2 DEF CountsIn
  <2>4. W \in SUBSET S
    BY <1>1
  <2>5. Cardinality(W) <= Cardinality(S)
    BY <1>1, <2>4, VectorSets, FS_Subset
  <2>6. Cardinality(W) \in Nat /\ Cardinality(S) \in Nat /\ query.k \in Nat
    <3>1. W \in SUBSET Vectors
      BY <1>1
    <3> QED  BY <1>1, <3>1, VectorSets DEF SearchTypes
  <2> HIDE DEF W
  <2>7. Cardinality(S) >= query.k
    BY <2>3, <2>5, <2>6
  <2> QED  BY <2>7
<1>3. CASE enough = {}
  <2>1. ClosestCentroids \in SUBSET Nat /\ IsFiniteSet(ClosestCentroids)
    <3>1. ClosestCentroids \in SUBSET (1..Clusters) /\ Clusters \in Nat
      BY VectorSearchAssumption DEF ClosestCentroids
    <3>2. IsFiniteSet(1..Clusters)
      BY <3>1, FS_Interval
    <3>3. IsFiniteSet(ClosestCentroids)
      BY <3>1, <3>2, FS_Subset
    <3>4. ClosestCentroids \in SUBSET Nat
      BY <3>1
    <3> QED  BY <3>3, <3>4
  <2>2. FirstCentroids(Cardinality(ClosestCentroids)) = ClosestCentroids
    <3>1. Cardinality(ClosestCentroids) \in Nat
      BY <2>1, FS_CardinalityType
    <3>2. FirstOf(ClosestCentroids, Cardinality(ClosestCentroids)) = ClosestCentroids
      BY <2>1, <3>1, FirstOfAll
    <3>3. FirstCentroids(Cardinality(ClosestCentroids))
            = FirstOf(ClosestCentroids, Cardinality(ClosestCentroids))
      BY DEF FirstOf, FirstCentroids
    <3> QED  BY <3>2, <3>3
  <2>3. MinEligibleCentroids = Cardinality(ClosestCentroids)
    BY <1>3 DEF MinEligibleCentroids
  <2>4. ASSUME NEW v \in V PROVE ivf[v] \in ClosestCentroids
    <3>1. v \in Vectors /\ ivf[v] \in 1..Clusters
      BY <1>1 DEF SearchTypes, IsIVFIndex
    <3> DEFINE W == {u \in V : ivf[u] = ivf[v]}
    <3>2. W \in SUBSET Vectors /\ W # {}
      BY <1>1
    <3>3. Cardinality(W) \in Nat /\ Cardinality(W) # 0
      <4> HIDE DEF W
      <4> QED  BY <3>2, VectorSets, FS_EmptySet
    <3>4. ClusterVectorCount(ivf[v]) = Cardinality(W)
      BY DEF ClusterVectorCount
    <3> HIDE DEF W
    <3> QED  BY <3>1, <3>3, <3>4 DEF ClosestCentroids
  <2>5. V \subseteq S
    BY <1>1, <2>2, <2>3, <2>4
  <2> QED  BY <2>5
<1> QED  BY <1>2, <1>3

LEMMA FilteredComplete ==
  ASSUME SearchTypes, query.filter, NEW R \in Filtered
  PROVE  Complete(R \cap Mapped)
<1> DEFINE V == VectorIDsToInclude
           S == {v \in Selected : ivf[v] \in FirstCentroids(MinEligibleCentroids)}
<1>1. query.k \in Nat /\ {} \in SUBSET Vectors /\ V = Asked \cap Mapped /\ V \in SUBSET Vectors
  BY IncludedIs DEF SearchTypes
<1>2. CASE V = {} /\ R = {}
  <2>1. Asked \in SUBSET VectorsOf(built) /\ VectorsOf(built) \in SUBSET Vectors
        /\ Asked \in SUBSET Vectors
    BY <1>1, <1>2, MappedIs
  <2>2. Cardinality(Asked) \in Nat /\ Cardinality(VectorsOf(built)) \in Nat
        /\ Cardinality(Asked) <= Cardinality(VectorsOf(built))
    BY <2>1, VectorSets, FS_Subset
  <2>3. Cardinality(R \cap Mapped) = 0 /\ R \cap Mapped = {}
    BY <1>2, FS_EmptySet
  <2>4. Cardinality(R \cap Mapped) + Cardinality(VectorsOf(built)) >=
          IF Cardinality(Asked) < query.k THEN Cardinality(Asked) ELSE query.k
    BY <1>1, <2>2, <2>3
  <2>5. R \cap Mapped \subseteq Asked /\ Cardinality(R \cap Mapped) <= query.k
    BY <1>1, <2>3
  <2> QED  BY <2>4, <2>5, EnoughComplete
<1>3. CASE query.eligible = {} /\ R = {}
  <2>1. V = {}
    BY <1>3 DEF VectorIDsToInclude
  <2> QED  BY <1>2, <1>3, <2>1
<1>4. CASE Cardinality(query.eligible) = Cardinality(SearchDocs) /\ R \in Unfiltered
  <2>1. query.eligible = SearchDocs
    BY <1>4, FS_Subset, VectorSearchAssumption DEF SearchTypes
  <2>2. query.eligible = SearchDocs \ query.except
    BY <2>1 DEF SearchTypes
  <2> QED  BY <1>4, <2>1, <2>2, UnfilteredComplete
<1>5. CASE R \in Nearest(V)
  <2>1. V \cap Mapped \subseteq Asked /\ Asked \cap Mapped \subseteq V
    BY <1>1
  <2> QED  BY <1>1, <1>5, <2>1, Suffices, EnoughComplete
<1>6. CASE IsIVFIndex /\ R \in Nearest(S)
  <2>1. S \in SUBSET Vectors /\ S \cap Mapped \subseteq Asked
    BY <1>1, SelectedIs
  <2>2. Cardinality(S) >= query.k \/ V \subseteq S
    BY <1>6, ProbedEnough
  <2> HIDE DEF S
  <2> QED  BY <1>1, <1>6, <2>1, <2>2, Suffices, EnoughComplete
<1> HIDE DEF V, S
<1> QED
  BY <1>2, <1>3, <1>4, <1>5, <1>6 DEF Filtered, V, S

\* What comes back for a query, filtered or not, of an index with clusters or
\* without: eligible vectors only, at most k, and fewer only for the documents
\* that were deleted when the cache entry was made, if another query made it, or
\* for the clusters that an unfiltered search passes over
\* (faiss_vector_posting.go).
THEOREM HitsAlwaysComplete == SectionsSpec => []HitsComplete
<1> DEFINE SearchInv == HitsComplete /\ (section = "search" => SearchTypes)
<1>1. SectionsInit => SearchInv
  BY SearchInputTypes DEF SectionsInit, SearchStart, HitsComplete
<1>2. SearchInv /\ [SectionsNext]_sectionVars => SearchInv'
  <2> SUFFICES ASSUME SearchInv, [SectionsNext]_sectionVars PROVE SearchInv'
    OBVIOUS
  <2>1. CASE UNCHANGED <<section, searchVars>>
    <3>1. UNCHANGED <<section, query, ivf, nprobe, built, hits>>
      BY <2>1 DEF searchVars
    <3> QED  BY <3>1 DEF HitsComplete, SearchTypes, IsIVFIndex, Asked, Foreign, VectorsOf,
                         Vectors
  <2>2. CASE Searches
    <3>1. /\ SearchTypes /\ UNCHANGED <<section, query, ivf, nprobe, built>>
          /\ \E R \in IF query.filter THEN Filtered ELSE Unfiltered : hits' = R \cap Mapped
      BY <2>2 DEF Searches, Search, AddIDsToPostingsList
    <3>2. PICK R \in IF query.filter THEN Filtered ELSE Unfiltered : hits' = R \cap Mapped
      BY <3>1
    <3>3. Complete(hits')
      <4>1. CASE query.filter
        BY <3>1, <3>2, <4>1, FilteredComplete
      <4>2. CASE ~query.filter
        <5>1. query.eligible = SearchDocs \ query.except
          BY <3>1, <4>2 DEF SearchTypes
        <5> QED  BY <3>1, <3>2, <4>2, <5>1, UnfilteredComplete
      <4> QED  BY <4>1, <4>2
    <3>4. HitsComplete'
      BY <3>1, <3>3 DEF Complete, HitsComplete, IsIVFIndex, Asked, Foreign, VectorsOf,
                        Vectors
    <3>5. SearchTypes'
      BY <3>1 DEF SearchTypes, Vectors
    <3> QED  BY <3>4, <3>5
  <2> QED
    BY <2>1, <2>2 DEF SectionsNext, sectionVars, Text, SynonymSection, VectorIndexes, LookUps
<1>3. SearchInv => HitsComplete
  OBVIOUS
<1> QED  BY <1>1, <1>2, <1>3, PTL DEF SectionsSpec
-----------------------------------------------------------------------------
(* What the vector sections hold.                                          *)

VecBatch(i) == vecBatches[i] \in Seq([doc : Docs(i), field : Nat, vecs : Nat])

SectionOf(i, f) ==
  [docs |-> [id \in IDs(i, f) |-> DocOf(id)], index |-> [id \in IDs(i, f) |-> id]]

\* The opaque is as new before every build, and a field with vectors has no
\* section only if the error of writing it was dropped.
Built ==
  /\ vo = NewVecOpaque
  /\ DOMAIN sections \subseteq Itrs /\ (vecPc # "build" => DOMAIN sections = Itrs)
  /\ \A i \in DOMAIN sections :
       /\ DOMAIN sections[i] \subseteq SegFields(i)
       /\ \A f \in DOMAIN sections[i] : IDs(i, f) # {} /\ sections[i][f] = SectionOf(i, f)
       /\ \A f \in SegFields(i) \ DOMAIN sections[i] : IDs(i, f) = {} \/ persistErr

\* The segments that have a section of the field to be merged.
Having(f)    == {i \in Itrs : f \in DOMAIN sections[i] /\ f \notin updatedFields}
Live(i, f)   == {id \in IDs(i, f) : DocOf(id) \notin drops[i]}
LiveIn(I, f) == UNION {Live(i, f) : i \in I}
NewNums(S)   == [id \in S |-> NewNum(<<id[1], DocOf(id)>>)]

\* indexes is for the segments I.
GatheredOf(I) ==
  /\ {indexes[k].seg : k \in DOMAIN indexes} = I
  /\ \A k \in DOMAIN indexes : indexes[k].vecIds = Live(indexes[k].seg, vecField)

\* The map of the field is in the file, and its index to come.
Flushed ==
  IF SurvivingIDs(vecField) = {} THEN vecField \notin DOMAIN fieldAddrs
  ELSE /\ vecField \in DOMAIN fieldAddrs
       /\ fieldAddrs[vecField] = [docs |-> NewNums(SurvivingIDs(vecField)), index |-> Nothing]

\* The floats of the vectors S have been reconstructed.
Reconstructed(S) ==
  /\ IsSeq(vecData)
  /\ \A k \in DOMAIN vecData : \A id \in DOMAIN vecData[k] : vecData[k][id] = id
  /\ UNION {DOMAIN vecData[k] : k \in DOMAIN vecData} = S

Done(F) == \A f \in F : Holds(fieldAddrs, f, NewNums(SurvivingIDs(f)))

\* Fields are taken in order, and those before this one are done.
InOrder ==
  /\ vecFields \subseteq NewVecFields /\ DOMAIN fieldAddrs \subseteq vecFields
  /\ \A f \in vecFields, g \in NewVecFields \ vecFields : f < g
  /\ vecPc = "build" => vecFields = {}
  /\ vecPc = "field" => Done(vecFields)
  /\ vecPc \in {"gather", "read", "recons", "create"} =>
       vecField \in vecFields /\ Done(vecFields \ {vecField})

AtGather ==
  LET I == {i \in Having(vecField) : i < vecSeg} IN
  /\ vecSeg \in Nat /\ vecSeg <= Cardinality(Itrs)
  /\ vecField \notin DOMAIN fieldAddrs
  /\ GatheredOf(I) /\ vecToDocID = NewNums(LiveIn(I, vecField))

AtRead == GatheredOf(Having(vecField)) /\ Flushed /\ vecData = <<>>

AtRecons ==
  /\ GatheredOf(Having(vecField)) /\ Flushed /\ SurvivingIDs(vecField) # {}
  /\ vecSeg \in Nat \ {0}
  /\ Reconstructed(UNION {indexes[k].vecIds : k \in {l \in DOMAIN indexes : l < vecSeg}})

AtCreate ==
  Flushed /\ SurvivingIDs(vecField) # {} /\ Reconstructed(SurvivingIDs(vecField))

VecInv ==
  /\ \A i \in Itrs : VecBatch(i)
  /\ Built /\ InOrder
  /\ vecPc = "gather" => AtGather
  /\ vecPc = "read"   => AtRead
  /\ vecPc = "recons" => AtRecons
  /\ vecPc = "create" => AtCreate

-----------------------------------------------------------------------------
(* The builder of the vector sections.                                     *)

LEMMA FieldIDTells ==
  ASSUME NEW F \in SUBSET Nat, IsFiniteSet(F), NEW f \in F, NEW g \in F,
         FieldID(F, f) = FieldID(F, g)
  PROVE  f = g
<1>1. /\ Cardinality(Below(F, f)) = Cardinality(Below(F, g))
      /\ Cardinality(Below(F, f)) \in Nat /\ Cardinality(Below(F, g)) \in Nat
      /\ f \in Nat /\ g \in Nat
  <2>1. FieldID(F, f) = Cardinality(Below(F, f)) /\ FieldID(F, g) = Cardinality(Below(F, g))
    BY DEF FieldID, Below
  <2> QED  BY <2>1, BelowFinite
<1>2. CASE f < g
  <2>1. Cardinality(Below(F, f)) < Cardinality(Below(F, g))
    BY <1>2, BelowGrows
  <2> QED  BY <1>1, <2>1
<1>3. CASE g < f
  <2>1. Cardinality(Below(F, g)) < Cardinality(Below(F, f))
    BY <1>3, BelowGrows
  <2> QED  BY <1>1, <2>1
<1> QED  BY <1>2, <1>3

LEMMA BatchIs ==
  ASSUME NEW i, VecBatch(i)
  PROVE  /\ SegFields(i) \in SUBSET Nat /\ IsFiniteSet(SegFields(i))
         /\ \A f : \A id \in IDs(i, f) :
              f \in SegFields(i) /\ id[1] = i
              /\ id[2] \in DOMAIN vecBatches[i] /\ vecBatches[i][id[2]].field = f
<1> DEFINE b == vecBatches[i]
           of == [k \in DOMAIN b |-> b[k].field]
<1>1. /\ IsFiniteSet(DOMAIN b)
      /\ \A k \in DOMAIN b : b[k] \in [doc : Docs(i), field : Nat, vecs : Nat]
  <2>1. Len(b) \in Nat /\ DOMAIN b = 1..Len(b)
        /\ b \in [1..Len(b) -> [doc : Docs(i), field : Nat, vecs : Nat]]
    BY LenProperties DEF VecBatch
  <2>2. IsFiniteSet(1..Len(b))
    BY <2>1, FS_Interval
  <2> HIDE DEF b
  <2> QED  BY <2>1, <2>2
<1>2. of \in Surjection(DOMAIN b, SegFields(i))
  BY DEF Surjection, SegFields
<1>3. IsFiniteSet(SegFields(i))
  <2> HIDE DEF of
  <2> QED  BY <1>1, <1>2, FS_Surjection
<1>4. SegFields(i) \in SUBSET Nat
  BY <1>1 DEF SegFields
<1>5. ASSUME NEW f, NEW id \in IDs(i, f)
      PROVE  f \in SegFields(i) /\ id[1] = i
             /\ id[2] \in DOMAIN b /\ b[id[2]].field = f
  <2>1. PICK k \in {e \in DOMAIN b : b[e].field = f} :
          id \in {<<i, k, n>> : n \in 1..b[k].vecs}
    BY <1>5 DEF IDs
  <2>2. PICK n \in 1..b[k].vecs : id = <<i, k, n>>
    BY <2>1
  <2> QED  BY <2>1, <2>2 DEF SegFields
<1> QED  BY <1>3, <1>4, <1>5

VecOpaque(o) == o = [vecIDMap |-> o.vecIDMap, vecFieldMap |-> o.vecFieldMap,
                     fieldAddrs |-> o.fieldAddrs]

\* The vectors of each field are under its ID, with their documents.
LEMMA ProcessedIs ==
  ASSUME NEW i, VecBatch(i)
  PROVE  LET o == processVectors(NewVecOpaque, i) IN
         /\ VecOpaque(o) /\ o.fieldAddrs = <<>>
         /\ \A f \in SegFields(i) :
              /\ FieldID(SegFields(i), f) \in DOMAIN o.vecFieldMap <=> IDs(i, f) # {}
              /\ IDs(i, f) # {} => o.vecFieldMap[FieldID(SegFields(i), f)] = IDs(i, f)
              /\ \A id \in IDs(i, f) : o.vecIDMap[id] = DocOf(id)
<1> DEFINE G   == SegFields(i)
           F   == {f \in G : IDs(i, f) # {}}
           all == UNION {IDs(i, f) : f \in F}
           ofID(n) == {id \in all : FieldID(G, vecBatches[i][id[2]].field) = n}
           docs == [id \in all |-> vecBatches[i][id[2]].doc]
           ids  == [n \in {FieldID(G, f) : f \in F} |-> ofID(n)]
           o    == processVectors(NewVecOpaque, i)
<1>1. CASE F = {}
  <2>1. o = NewVecOpaque
    BY <1>1 DEF processVectors
  <2>2. VecOpaque(o) /\ o.fieldAddrs = <<>> /\ DOMAIN o.vecFieldMap = {}
    BY <2>1 DEF NewVecOpaque, VecOpaque
  <2>3. \A f \in G : IDs(i, f) = {}
    BY <1>1
  <2> HIDE DEF o, G
  <2> QED  BY <2>2, <2>3 DEF o, G
<1>2. CASE F # {}
  <2>1. o = [vecIDMap |-> docs, vecFieldMap |-> ids, fieldAddrs |-> <<>>]
    BY <1>2 DEF processVectors
  <2> HIDE DEF o, docs, ids
  <2>2. VecOpaque(o) /\ o.fieldAddrs = <<>> /\ o.vecIDMap = docs /\ o.vecFieldMap = ids
    BY <2>1 DEF VecOpaque
  <2>3. G \in SUBSET Nat /\ IsFiniteSet(G)
    BY BatchIs
  <2>4. ASSUME NEW f \in G
        PROVE  /\ FieldID(G, f) \in DOMAIN ids <=> IDs(i, f) # {}
               /\ IDs(i, f) # {} => ids[FieldID(G, f)] = IDs(i, f)
               /\ \A id \in IDs(i, f) : docs[id] = DocOf(id)
    <3>1. DOMAIN ids = {FieldID(G, g) : g \in F}
      BY DEF ids
    <3>2. FieldID(G, f) \in DOMAIN ids <=> f \in F
      <4> HIDE DEF G
      <4>1. ASSUME NEW g \in F, FieldID(G, f) = FieldID(G, g) PROVE f = g
        BY <2>3, <4>1, FieldIDTells
      <4> QED  BY <3>1, <4>1
    <3>3. ASSUME f \in F PROVE ids[FieldID(G, f)] = IDs(i, f)
      <4>1. ids[FieldID(G, f)] = ofID(FieldID(G, f))
        BY <3>3 DEF ids
      <4>2. ASSUME NEW id \in all, FieldID(G, vecBatches[i][id[2]].field) = FieldID(G, f)
            PROVE  id \in IDs(i, f)
        <5>1. PICK g \in F : id \in IDs(i, g)
          OBVIOUS
        <5>2. vecBatches[i][id[2]].field = g
          BY <5>1, BatchIs
        <5>3. g = f
          <6> HIDE DEF G
          <6> QED  BY <2>3, <4>2, <5>2, FieldIDTells
        <5> QED  BY <5>1, <5>3
      <4>3. ASSUME NEW id \in IDs(i, f)
            PROVE  id \in all /\ FieldID(G, vecBatches[i][id[2]].field) = FieldID(G, f)
        <5>1. vecBatches[i][id[2]].field = f
          BY BatchIs
        <5> QED  BY <3>3, <5>1
      <4> HIDE DEF all, G
      <4> QED  BY <4>1, <4>2, <4>3
    <3>4. ASSUME NEW id \in IDs(i, f) PROVE docs[id] = DocOf(id)
      <4>1. id \in all /\ id[1] = i
        BY BatchIs
      <4> HIDE DEF all
      <4> QED  BY <4>1 DEF docs, DocOf
    <3> QED  BY <3>2, <3>3, <3>4
  <2> HIDE DEF G
  <2>5. \A f \in G :
          /\ FieldID(G, f) \in DOMAIN o.vecFieldMap <=> IDs(i, f) # {}
          /\ IDs(i, f) # {} => o.vecFieldMap[FieldID(G, f)] = IDs(i, f)
          /\ \A id \in IDs(i, f) : o.vecIDMap[id] = DocOf(id)
    BY <2>2, <2>4
  <2> QED  BY <2>2, <2>5 DEF o, G
<1> QED  BY <1>1, <1>2

\* A field written has its section; the others have none.
LEMMA WrittenIs ==
  ASSUME NEW i, VecBatch(i),
         NEW done \in SUBSET DOMAIN processVectors(NewVecOpaque, i).vecFieldMap
  PROVE  LET w == writeVectorIndexes(processVectors(NewVecOpaque, i), done)
             p == VecAddrForField(w, SegFields(i))
         IN  /\ DOMAIN p \subseteq SegFields(i)
             /\ \A f \in DOMAIN p : IDs(i, f) # {} /\ p[f] = SectionOf(i, f)
             /\ done = DOMAIN processVectors(NewVecOpaque, i).vecFieldMap =>
                  \A f \in SegFields(i) \ DOMAIN p : IDs(i, f) = {}
<1> DEFINE o == processVectors(NewVecOpaque, i)
           G == SegFields(i)
           at(n) == [docs  |-> [id \in o.vecFieldMap[n] |-> o.vecIDMap[id]],
                     index |-> [id \in o.vecFieldMap[n] |-> id]]
           addrs == [n \in done \cup DOMAIN o.fieldAddrs |->
                       IF n \in done THEN at(n) ELSE o.fieldAddrs[n]]
           w == writeVectorIndexes(o, done)
           p == VecAddrForField(w, G)
<1>1. /\ VecOpaque(o) /\ o.fieldAddrs = <<>>
      /\ \A f \in G :
           /\ FieldID(G, f) \in DOMAIN o.vecFieldMap <=> IDs(i, f) # {}
           /\ IDs(i, f) # {} => o.vecFieldMap[FieldID(G, f)] = IDs(i, f)
           /\ \A id \in IDs(i, f) : o.vecIDMap[id] = DocOf(id)
  BY ProcessedIs
<1> HIDE DEF o, G
<1>2. w.fieldAddrs = addrs
  <2>1. w = [o EXCEPT !.fieldAddrs = addrs]
    BY DEF writeVectorIndexes
  <2> HIDE DEF addrs, w
  <2> QED  BY <1>1, <2>1 DEF VecOpaque
<1>3. DOMAIN addrs = done /\ \A n \in done : addrs[n] = at(n)
  BY <1>1
<1> HIDE DEF addrs, w, at
<1>4. /\ DOMAIN p = {g \in G : FieldID(G, g) \in done}
      /\ \A f \in DOMAIN p : p[f] = at(FieldID(G, f))
  BY <1>2, <1>3 DEF VecAddrForField
<1> HIDE DEF p
<1>5. ASSUME NEW f \in DOMAIN p PROVE IDs(i, f) # {} /\ p[f] = SectionOf(i, f)
  <2>1. f \in G /\ FieldID(G, f) \in DOMAIN o.vecFieldMap /\ p[f] = at(FieldID(G, f))
    BY <1>4 DEF o
  <2>2. IDs(i, f) # {} /\ o.vecFieldMap[FieldID(G, f)] = IDs(i, f)
    BY <1>1, <2>1
  <2>3. \A id \in IDs(i, f) : o.vecIDMap[id] = DocOf(id)
    BY <1>1, <2>1
  <2> QED  BY <2>1, <2>2, <2>3 DEF at, SectionOf
<1>6. done = DOMAIN o.vecFieldMap => \A f \in G \ DOMAIN p : IDs(i, f) = {}
  BY <1>1, <1>4
<1>7. DOMAIN p \subseteq G
  BY <1>4
<1> QED  BY <1>5, <1>6, <1>7 DEF p, w, o, G

-----------------------------------------------------------------------------
(* The merge of the vector sections.                                       *)

\* What the merge reads stays.
LEMMA VecFrame ==
  ASSUME UNCHANGED buildVecVars
  PROVE  /\ \A i : VecBatch(i)' <=> VecBatch(i)
         /\ NewVecFields' = NewVecFields
         /\ \A f : Having(f)' = Having(f) /\ SurvivingIDs(f)' = SurvivingIDs(f)
         /\ \A i, f : Live(i, f)' = Live(i, f)
         /\ \A S : NewNums(S)' = NewNums(S)
<1>1. UNCHANGED <<drops, vecBatches, updatedFields, sections>>
  BY DEF buildVecVars
<1>2. \A i : VecBatch(i)' <=> VecBatch(i)
  BY <1>1 DEF VecBatch
<1>3. /\ \A i : SegFields(i)' = SegFields(i)
      /\ \A i, f : IDs(i, f)' = IDs(i, f)
      /\ \A id : DocOf(id)' = DocOf(id)
  BY <1>1 DEF SegFields, IDs, DocOf
<1>4. NewVecFields' = NewVecFields
  BY <1>3 DEF NewVecFields
<1>5. \A f : Having(f)' = Having(f) /\ SurvivingIDs(f)' = SurvivingIDs(f)
  BY <1>1, <1>3 DEF Having, SurvivingIDs
<1>6. \A i, f : Live(i, f)' = Live(i, f)
  BY <1>1, <1>3 DEF Live
<1>7. \A p : NewNum(p)' = NewNum(p)
  BY <1>1 DEF NewNum, Survivors, AllDocs, Docs
<1>8. \A S : NewNums(S)' = NewNums(S)
  BY <1>3, <1>7 DEF NewNums
<1> QED  BY <1>2, <1>4, <1>5, <1>6, <1>8

LEMMA BuiltFrame ==
  ASSUME Built, UNCHANGED buildVecVars, vecPc # "build"
  PROVE  Built'
<1>1. UNCHANGED <<vecBatches, vo, sections, persistErr>>
  BY DEF buildVecVars
<1>2. /\ \A i : SegFields(i)' = SegFields(i)
      /\ \A i, f : IDs(i, f)' = IDs(i, f) /\ SectionOf(i, f)' = SectionOf(i, f)
  BY <1>1 DEF SegFields, IDs, DocOf, SectionOf
<1> QED  BY <1>1, <1>2 DEF Built

\* The vectors that survive are those left in the segments with a section.
LEMMA LeftAreSurviving ==
  ASSUME \A i \in Itrs : VecBatch(i), NEW f
  PROVE  LiveIn(Having(f), f) = SurvivingIDs(f)
<1>1. CASE f \in updatedFields
  BY <1>1 DEF LiveIn, Having, SurvivingIDs
<1>2. CASE f \notin updatedFields
  <2>1. \A i \in Itrs : \A id \in IDs(i, f) : id[1] = i
    BY BatchIs
  <2>2. ASSUME NEW id \in LiveIn(Having(f), f) PROVE id \in SurvivingIDs(f)
    <3>1. PICK i \in Having(f) : id \in Live(i, f)
      BY <2>2 DEF LiveIn
    <3>2. i \in Itrs /\ f \in DOMAIN sections[i] /\ id \in IDs(i, f) /\ DocOf(id) \notin drops[i]
      BY <3>1 DEF Having, Live
    <3> QED  BY <1>2, <2>1, <3>2 DEF SurvivingIDs
  <2>3. ASSUME NEW id \in SurvivingIDs(f) PROVE id \in LiveIn(Having(f), f)
    <3>1. PICK i \in Itrs : f \in DOMAIN sections[i] /\ id \in IDs(i, f)
                            /\ DocOf(id) \notin drops[id[1]]
      BY <1>2, <2>3 DEF SurvivingIDs
    <3>2. i \in Having(f) /\ id \in Live(i, f)
      BY <1>2, <2>1, <3>1 DEF Having, Live
    <3> QED  BY <3>2 DEF LiveIn
  <2> QED  BY <2>2, <2>3
<1> QED  BY <1>1, <1>2

\* A field that is done has what it should as long as its address stays.
LEMMA DoneFrame ==
  ASSUME NEW F, NEW F2 \in SUBSET F, Done(F), UNCHANGED buildVecVars,
         \A f \in F2 : /\ f \in DOMAIN fieldAddrs' <=> f \in DOMAIN fieldAddrs
                       /\ f \in DOMAIN fieldAddrs => fieldAddrs'[f] = fieldAddrs[f]
  PROVE  \A f \in F2 : Holds(fieldAddrs', f, NewNums(SurvivingIDs(f))')
<1> SUFFICES ASSUME NEW f \in F2 PROVE Holds(fieldAddrs', f, NewNums(SurvivingIDs(f))')
  OBVIOUS
<1>1. NewNums(SurvivingIDs(f))' = NewNums(SurvivingIDs(f))
  <2>1. SurvivingIDs(f)' = SurvivingIDs(f)
    BY VecFrame
  <2>2. NewNums(SurvivingIDs(f)') = NewNums(SurvivingIDs(f))
    BY <2>1
  <2> QED  BY VecFrame, <2>1, <2>2
<1>2. Holds(fieldAddrs, f, NewNums(SurvivingIDs(f)))
  BY DEF Done
<1> QED  BY <1>1, <1>2 DEF Holds

LEMMA BuildStep == VecInv /\ BuildVectors => VecInv'
<1> SUFFICES ASSUME VecInv, BuildVectors PROVE VecInv'
  OBVIOUS
<1>1. PICK i \in Itrs \ DOMAIN sections :
        \E done \in SUBSET DOMAIN processVectors(vo, i).vecFieldMap :
          LET w == writeVectorIndexes(processVectors(vo, i), done) IN
          /\ sections' = [j \in DOMAIN sections \cup {i} |->
               IF j = i THEN VecAddrForField(w, SegFields(i)) ELSE sections[j]]
          /\ vo' = ResetVectors(w)
          /\ persistErr' = (persistErr \/ done # DOMAIN processVectors(vo, i).vecFieldMap)
  BY DEF BuildVectors
<1>a. PICK done \in SUBSET DOMAIN processVectors(vo, i).vecFieldMap :
        LET w == writeVectorIndexes(processVectors(vo, i), done) IN
        /\ sections' = [j \in DOMAIN sections \cup {i} |->
             IF j = i THEN VecAddrForField(w, SegFields(i)) ELSE sections[j]]
        /\ vo' = ResetVectors(w)
        /\ persistErr' = (persistErr \/ done # DOMAIN processVectors(vo, i).vecFieldMap)
  BY <1>1
<1>2. /\ vecPc = "build" /\ vecPc' = IF DOMAIN sections' = Itrs THEN "field" ELSE "build"
      /\ UNCHANGED <<drops, vecBatches, updatedFields, vecFields, fieldAddrs>>
  BY DEF BuildVectors, mergeVecVars
<1>3. vo = NewVecOpaque /\ DOMAIN sections \subseteq Itrs /\ vecFields = {}
      /\ DOMAIN fieldAddrs \subseteq vecFields /\ \A j \in Itrs : VecBatch(j)
  BY <1>2 DEF VecInv, Built, InOrder
<1> DEFINE p == VecAddrForField(writeVectorIndexes(processVectors(vo, i), done), SegFields(i))
<1>4. /\ DOMAIN p \subseteq SegFields(i)
      /\ \A f \in DOMAIN p : IDs(i, f) # {} /\ p[f] = SectionOf(i, f)
      /\ \A f \in SegFields(i) \ DOMAIN p : IDs(i, f) = {} \/ persistErr'
  BY <1>a, <1>3, WrittenIs
<1>5. sections' = [j \in DOMAIN sections \cup {i} |-> IF j = i THEN p ELSE sections[j]]
  BY <1>a
<1> HIDE DEF p
<1>6. /\ \A j : SegFields(j)' = SegFields(j)
      /\ \A j, f : IDs(j, f)' = IDs(j, f) /\ SectionOf(j, f)' = SectionOf(j, f)
  BY <1>2 DEF SegFields, IDs, DocOf, SectionOf
<1>7. persistErr => persistErr'
  BY <1>a
<1>8. ASSUME NEW j \in DOMAIN sections'
      PROVE  /\ DOMAIN sections'[j] \subseteq SegFields(j)
             /\ \A f \in DOMAIN sections'[j] :
                  IDs(j, f) # {} /\ sections'[j][f] = SectionOf(j, f)
             /\ \A f \in SegFields(j) \ DOMAIN sections'[j] : IDs(j, f) = {} \/ persistErr'
  <2>1. CASE j = i
    BY <1>4, <1>5, <2>1
  <2>2. CASE j # i
    <3>1. j \in DOMAIN sections /\ sections'[j] = sections[j]
      BY <1>5, <2>2
    <3> QED  BY <1>7, <3>1 DEF VecInv, Built
  <2> QED  BY <2>1, <2>2
<1>9. vo' = NewVecOpaque /\ DOMAIN sections' \subseteq Itrs
      /\ (vecPc' # "build" => DOMAIN sections' = Itrs)
  <2>1. vo' = NewVecOpaque
    BY <1>a DEF ResetVectors
  <2>2. DOMAIN sections' = DOMAIN sections \cup {i}
    BY <1>5
  <2> QED  BY <1>2, <1>3, <2>1, <2>2
<1>10. Built'
  <2>1. NewVecOpaque' = NewVecOpaque
    BY DEF NewVecOpaque
  <2> QED  BY <1>6, <1>8, <1>9, <2>1 DEF Built
<1>11. InOrder'
  BY <1>2, <1>3 DEF InOrder, Done
<1>12. \A j \in Itrs : VecBatch(j)'
  BY <1>2, <1>3 DEF VecBatch
<1> QED  BY <1>2, <1>10, <1>11, <1>12 DEF VecInv

\* A step of the merge of a field keeps what does not depend on where it is.
LEMMA VecInvFrom ==
  ASSUME VecInv, vecPc # "build", UNCHANGED buildVecVars, InOrder',
         vecPc' = "gather" => AtGather', vecPc' = "read" => AtRead',
         vecPc' = "recons" => AtRecons', vecPc' = "create" => AtCreate'
  PROVE  VecInv'
<1>1. Built'
  BY BuiltFrame DEF VecInv
<1>2. \A i \in Itrs : VecBatch(i)'
  BY VecFrame DEF VecInv
<1> QED  BY <1>1, <1>2 DEF VecInv

\* The order of the fields, as long as the field stays the same.
LEMMA OrderStays ==
  ASSUME VecInv, vecPc \in {"gather", "read", "recons", "create"}, vecPc' # "build",
         UNCHANGED <<buildVecVars, vecFields>>,
         DOMAIN fieldAddrs' \subseteq DOMAIN fieldAddrs \cup {vecField},
         \A f \in vecFields \ {vecField} :
           /\ f \in DOMAIN fieldAddrs' <=> f \in DOMAIN fieldAddrs
           /\ f \in DOMAIN fieldAddrs => fieldAddrs'[f] = fieldAddrs[f],
         vecPc' = "field" =>
           Holds(fieldAddrs', vecField, NewNums(SurvivingIDs(vecField)))
  PROVE  InOrder' /\ vecField' = vecField /\ vecField \in vecFields
<1>1. vecField' = vecField /\ vecField \in vecFields /\ NewVecFields' = NewVecFields
  BY VecFrame DEF vecField, VecInv, InOrder
<1>2. \A f \in vecFields \ {vecField} : Holds(fieldAddrs', f, NewNums(SurvivingIDs(f))')
  BY DoneFrame DEF VecInv, InOrder
<1>3. vecPc' = "field" =>
        Holds(fieldAddrs', vecField, NewNums(SurvivingIDs(vecField))')
  <2>1. PICK f : f = vecField
    OBVIOUS
  <2>2. SurvivingIDs(f)' = SurvivingIDs(f)
    BY VecFrame
  <2>3. NewNums(SurvivingIDs(f))' = NewNums(SurvivingIDs(f))
    BY VecFrame, <2>2
  <2> QED  BY <1>1, <2>1, <2>3
<1>4. Done(vecFields \ {vecField})' /\ (vecPc' = "field" => Done(vecFields)')
  BY <1>1, <1>2, <1>3 DEF Done, Holds
<1> QED  BY <1>1, <1>4 DEF VecInv, InOrder

LEMMA StartVecStep == VecInv /\ StartVecField => VecInv'
<1> SUFFICES ASSUME VecInv, StartVecField PROVE VecInv'
  OBVIOUS
<1> DEFINE F == NewVecFields \ vecFields
           f == Lowest(F)
<1>1. /\ vecPc = "field" /\ vecPc' = "gather" /\ NewVecFields # vecFields
      /\ vecFields' = vecFields \cup {f} /\ indexes' = <<>> /\ vecToDocID' = <<>>
      /\ vecSeg' = Lowest(Itrs) /\ UNCHANGED <<buildVecVars, fieldAddrs>>
  BY DEF StartVecField
<1>2. F \in SUBSET Nat /\ F # {} /\ vecFields \in SUBSET Nat
  <2>1. NewVecFields \in SUBSET Nat
    BY BatchIs DEF NewVecFields, VecInv
  <2> QED  BY <1>1, <2>1 DEF VecInv, InOrder
<1>3. f \in F /\ (\A g \in F : f <= g)
  BY <1>2, LowestIs
<1>4. \A g \in vecFields : g < f
  BY <1>3 DEF VecInv, InOrder
<1> HIDE DEF f, F
<1>5. f \in Nat /\ vecField' = f
  <2>1. f \in vecFields' /\ \A g \in vecFields' : g <= f
    BY <1>1, <1>2, <1>3, <1>4
  <2>2. ASSUME NEW g \in vecFields', \A h \in vecFields' : h <= g PROVE g = f
    BY <1>1, <1>2, <1>3, <2>1, <2>2
  <2> QED  BY <1>2, <1>3, <2>1, <2>2 DEF vecField
<1>6. f \in NewVecFields /\ f \notin vecFields
  BY <1>3 DEF F
<1>7. vecSeg' = 0 /\ Cardinality(Itrs) \in Nat
  <2>1. Itrs # {}
    BY <1>6 DEF NewVecFields
  <2>2. Cardinality(Itrs) \in Nat /\ Itrs = 0..(Cardinality(Itrs) - 1)
    BY EnumeratorAssumption, FS_CardinalityType, VectorSectionAssumption
  <2>3. 0 \in Itrs
    BY <2>1, <2>2
  <2>4. Lowest(Itrs) \in Itrs /\ Lowest(Itrs) <= 0
    BY <2>1, <2>3, LowestIs, EnumeratorAssumption
  <2>5. Itrs \subseteq Nat
    BY EnumeratorAssumption
  <2> QED  BY <1>1, <2>2, <2>4, <2>5
<1>8. InOrder'
  <2>1. NewVecFields' = NewVecFields
    BY <1>1, VecFrame
  <2>2. \A g \in vecFields : Holds(fieldAddrs', g, NewNums(SurvivingIDs(g))')
    BY <1>1, DoneFrame DEF VecInv, InOrder
  <2>3. vecFields' \ {vecField'} = vecFields
    BY <1>1, <1>5, <1>6
  <2>4. Done(vecFields \ {vecField})'
    BY <2>2, <2>3 DEF Done, Holds
  <2>5. \A g \in vecFields', h \in NewVecFields \ vecFields' : g < h
    <3> SUFFICES ASSUME NEW g \in vecFields', NEW h \in NewVecFields \ vecFields'
                 PROVE  g < h
      OBVIOUS
    <3>1. h \in F /\ h # f /\ h \in Nat
      BY <1>1, <1>2 DEF F
    <3>2. f < h
      BY <1>3, <1>5, <3>1
    <3>3. CASE g = f
      BY <3>2, <3>3
    <3>4. CASE g \in vecFields
      BY <1>2, <1>4, <1>5, <3>1, <3>2, <3>4
    <3> QED  BY <1>1, <3>3, <3>4
  <2> QED  BY <1>1, <1>5, <1>6, <2>1, <2>4, <2>5 DEF VecInv, InOrder
<1>9. AtGather'
  <2>1. vecField' \notin DOMAIN fieldAddrs'
    BY <1>1, <1>5, <1>6 DEF VecInv, InOrder
  <2>2. {i \in Having(vecField) : i < vecSeg}' = {}
    <3>1. Having(vecField)' \subseteq Itrs
      BY DEF Having
    <3>2. \A i \in Itrs : ~(i < 0)
      BY EnumeratorAssumption
    <3> QED  BY <1>7, <3>1, <3>2
  <2>3. DOMAIN indexes' = {}
    BY <1>1, EmptyIs
  <2>4. GatheredOf({})'
    BY <2>3 DEF GatheredOf
  <2>5. LiveIn({}, vecField)' = {}
    BY DEF LiveIn
  <2>6. NewNums({})' = <<>>
    BY DEF NewNums
  <2>7. vecToDocID' = NewNums(LiveIn({}, vecField))'
    BY <1>1, <2>5, <2>6 DEF NewNums
  <2> QED  BY <1>7, <2>1, <2>2, <2>4, <2>7 DEF AtGather
<1> QED  BY <1>1, <1>8, <1>9, VecInvFrom

LEMMA GatherStep == VecInv /\ IndexInv /\ GatherVectors => VecInv'
<1> SUFFICES ASSUME VecInv, IndexInv, GatherVectors PROVE VecInv'
  OBVIOUS
<1> DEFINE I   == {i \in Having(vecField) : i < vecSeg}
           sec == sections[vecSeg][vecField]
           live == {id \in DOMAIN sec.docs : sec.docs[id] \notin drops[vecSeg]}
           x   == [seg |-> vecSeg, vecIds |-> live, index |-> "nil"]
<1>1. /\ vecPc = "gather" /\ vecPc' = "gather" /\ vecSeg \in Itrs /\ vecSeg' = vecSeg + 1
      /\ UNCHANGED <<buildVecVars, vecFields, fieldAddrs>>
      /\ IF vecField \notin DOMAIN sections[vecSeg] \/ vecField \in updatedFields
         THEN UNCHANGED <<indexes, vecToDocID>>
         ELSE /\ indexes' = Append(indexes, x)
              /\ vecToDocID' = [id \in DOMAIN vecToDocID \cup live |->
                   IF id \in live THEN NewNum(<<vecSeg, sec.docs[id]>>) ELSE vecToDocID[id]]
  BY DEF GatherVectors
<1>2. /\ AtGather /\ DOMAIN sections = Itrs
      /\ \A i \in Itrs : \A f \in DOMAIN sections[i] : sections[i][f] = SectionOf(i, f)
      /\ \A i \in Itrs : VecBatch(i)
  BY <1>1 DEF VecInv, Built
<1>3. InOrder' /\ vecField' = vecField
  BY <1>1, OrderStays
<1>4. vecSeg \in Nat /\ vecSeg' \in Nat /\ vecSeg' <= Cardinality(Itrs)
      /\ \A i \in Itrs : i < vecSeg + 1 <=> i < vecSeg \/ i = vecSeg
  <2>1. Cardinality(Itrs) \in Nat /\ vecSeg \in 0..(Cardinality(Itrs) - 1) /\ Itrs \subseteq Nat
    BY <1>1, EnumeratorAssumption, FS_CardinalityType, VectorSectionAssumption
  <2> QED  BY <1>1, <2>1
<1>5. GatheredOf(I) /\ vecToDocID = NewNums(LiveIn(I, vecField))
  BY <1>2 DEF AtGather
<1>j. PICK J : J = {i \in Having(vecField) : i < vecSeg + 1}
  OBVIOUS
<1>6. GatheredOf(J)' /\ vecToDocID' = NewNums(LiveIn(J, vecField))
  <2>1. PICK f : f = vecField /\ f = vecField'
    BY <1>3
  <2>2. \A i : Live(i, f)' = Live(i, f)
    BY <1>1, VecFrame
  <2>3. CASE vecField \notin DOMAIN sections[vecSeg] \/ vecField \in updatedFields
    <3>1. J = I
      BY <1>4, <1>j, <2>3 DEF Having
    <3> HIDE DEF I
    <3> QED  BY <1>1, <1>5, <2>1, <2>2, <2>3, <3>1 DEF GatheredOf
  <2>4. CASE ~(vecField \notin DOMAIN sections[vecSeg] \/ vecField \in updatedFields)
    <3>1. /\ indexes' = Append(indexes, x)
          /\ vecToDocID' = [id \in DOMAIN vecToDocID \cup live |->
               IF id \in live THEN NewNum(<<vecSeg, sec.docs[id]>>) ELSE vecToDocID[id]]
      BY <1>1, <2>4
    <3>2. J = I \cup {vecSeg}
      BY <1>1, <1>4, <1>j, <2>4 DEF Having
    <3>3. sec = SectionOf(vecSeg, vecField)
      BY <1>1, <1>2, <2>4
    <3>4. live = Live(vecSeg, vecField)
          /\ \A id \in live : id[1] = vecSeg /\ sec.docs[id] = DocOf(id)
      BY <1>1, <1>2, <3>3, BatchIs DEF Live, SectionOf
    <3>5. x.seg = vecSeg /\ x.vecIds = Live(vecSeg, vecField)
      BY <3>4
    <3> HIDE DEF I, sec, live, x
    <3>6. /\ DOMAIN indexes = 1..Len(indexes) /\ Len(indexes) \in Nat
          /\ DOMAIN indexes' = 1..(Len(indexes) + 1)
          /\ \A k \in DOMAIN indexes : indexes'[k] = indexes[k]
          /\ indexes'[Len(indexes) + 1] = x
      BY <3>1, AppendIs DEF IndexInv
    <3>7. GatheredOf(J)'
      <4>1. DOMAIN indexes' = DOMAIN indexes \cup {Len(indexes) + 1}
        BY <3>6
      <4>2. {indexes'[k].seg : k \in DOMAIN indexes'}
              = {indexes[k].seg : k \in DOMAIN indexes} \cup {vecSeg}
        BY <3>5, <3>6, <4>1
      <4>3. \A k \in DOMAIN indexes' : indexes'[k].vecIds = Live(indexes'[k].seg, f)
        BY <1>5, <2>1, <3>5, <3>6, <4>1 DEF GatheredOf
      <4>4. {indexes[k].seg : k \in DOMAIN indexes} \cup {vecSeg} = J
        BY <1>5, <3>2 DEF GatheredOf
      <4> QED  BY <2>1, <2>2, <4>2, <4>3, <4>4 DEF GatheredOf
    <3>8. vecToDocID' = NewNums(LiveIn(J, vecField))
      <4>1. LiveIn(J, vecField) = LiveIn(I, vecField) \cup live
        BY <3>2, <3>4 DEF LiveIn
      <4>2. DOMAIN vecToDocID = LiveIn(I, vecField)
            /\ \A id \in LiveIn(I, vecField) :
                 vecToDocID[id] = NewNum(<<id[1], DocOf(id)>>)
        BY <1>5 DEF NewNums
      <4> QED  BY <3>1, <3>4, <4>1, <4>2 DEF NewNums
    <3> QED  BY <3>7, <3>8
  <2> QED  BY <2>3, <2>4
<1>7. AtGather'
  <2>1. PICK f : f = vecField /\ f = vecField'
    BY <1>3
  <2>2. Having(f)' = Having(f) /\ (\A i : Live(i, f)' = Live(i, f))
        /\ (\A S : NewNums(S)' = NewNums(S))
    BY <1>1, VecFrame
  <2>3. {i \in Having(vecField) : i < vecSeg}' = J
    BY <1>1, <1>j, <2>1, <2>2
  <2>4. LiveIn(J, f)' = LiveIn(J, f)
    BY <2>2 DEF LiveIn
  <2>5. NewNums(LiveIn(J, f))' = NewNums(LiveIn(J, f))
    BY <2>2, <2>4
  <2>6. vecToDocID' = NewNums(LiveIn(J, vecField))'
    BY <1>6, <2>1, <2>5
  <2>7. GatheredOf({i \in Having(vecField) : i < vecSeg})'
    BY <1>6, <2>3 DEF GatheredOf
  <2>8. (vecToDocID = NewNums(LiveIn({i \in Having(vecField) : i < vecSeg}, vecField)))'
    BY <2>3, <2>6 DEF LiveIn
  <2> QED  BY <1>1, <1>2, <1>3, <1>4, <2>7, <2>8 DEF AtGather
<1> QED  BY <1>1, <1>3, <1>7, VecInvFrom

\* indexes are those of the segments that have the field: the vectors they are
\* for are the ones that survive.
LEMMA GatheredAll ==
  ASSUME VecInv, GatheredOf(Having(vecField))
  PROVE  UNION {indexes[k].vecIds : k \in DOMAIN indexes} = SurvivingIDs(vecField)
<1>1. LiveIn(Having(vecField), vecField) = SurvivingIDs(vecField)
  BY LeftAreSurviving DEF VecInv
<1> QED  BY <1>1 DEF GatheredOf, LiveIn

\* What was gathered stays while only the indexes are opened, used and freed.
LEMMA GatheredStays ==
  ASSUME UNCHANGED buildVecVars, vecField' = vecField, GatheredOf(Having(vecField)),
         DOMAIN indexes' = DOMAIN indexes,
         \A k \in DOMAIN indexes : /\ indexes'[k].seg = indexes[k].seg
                                   /\ indexes'[k].vecIds = indexes[k].vecIds
  PROVE  GatheredOf(Having(vecField))'
<1>1. PICK f : f = vecField /\ f = vecField'
  OBVIOUS
<1>2. Having(f)' = Having(f) /\ (\A i : Live(i, f)' = Live(i, f))
  BY VecFrame
<1>j. PICK J : J = Having(f) /\ J = Having(f)'
  BY <1>2
<1>3. GatheredOf(J)'
  <2>1. \A k \in DOMAIN indexes' : indexes'[k].vecIds = Live(indexes'[k].seg, f)
    BY <1>1 DEF GatheredOf
  <2>2. {indexes'[k].seg : k \in DOMAIN indexes'} = J
    BY <1>1, <1>j DEF GatheredOf
  <2> QED  BY <1>1, <1>2, <2>1, <2>2 DEF GatheredOf
<1> QED  BY <1>1, <1>j, <1>3 DEF GatheredOf

LEMMA FlushedStays ==
  ASSUME UNCHANGED <<buildVecVars, fieldAddrs>>, vecField' = vecField
  PROVE  /\ SurvivingIDs(vecField)' = SurvivingIDs(vecField)
         /\ Flushed => Flushed'
<1>1. PICK f : f = vecField /\ f = vecField'
  OBVIOUS
<1>2. PICK S : S = SurvivingIDs(f) /\ S = SurvivingIDs(f)'
  BY VecFrame
<1>3. NewNums(S)' = NewNums(S)
  BY VecFrame
<1>4. SurvivingIDs(vecField)' = S /\ SurvivingIDs(vecField) = S
  BY <1>1, <1>2
<1>5. NewNums(SurvivingIDs(vecField))' = NewNums(SurvivingIDs(vecField))
  BY <1>3, <1>4 DEF NewNums
<1> QED  BY <1>4, <1>5 DEF Flushed

LEMMA FlushStep == VecInv /\ IndexInv /\ FlushSectionMetadata => VecInv'
<1> SUFFICES ASSUME VecInv, IndexInv, FlushSectionMetadata PROVE VecInv'
  OBVIOUS
<1>s. PICK S : S = SurvivingIDs(vecField)
  OBVIOUS
<1>e. PICK flushed : flushed = [docs |-> NewNums(S), index |-> Nothing]
  OBVIOUS
<1>0. CASE vecPc' = "failed"
  <2>1. vecPc = "gather" /\ UNCHANGED <<buildVecVars, vecFields, fieldAddrs>>
    BY <1>0 DEF FlushSectionMetadata
  <2>2. InOrder' /\ vecField' = vecField
    BY <1>0, <2>1, OrderStays
  <2> QED  BY <1>0, <2>1, <2>2, VecInvFrom
<1> SUFFICES ASSUME vecPc' # "failed" PROVE VecInv'
  BY <1>0
<1>1. /\ vecPc = "gather" /\ vecPc' = "read" /\ vecSeg \notin Itrs /\ vecData' = <<>>
      /\ UNCHANGED <<buildVecVars, vecFields, indexes>>
      /\ fieldAddrs' =
           IF indexes = <<>> \/ DOMAIN vecToDocID = {} THEN fieldAddrs
           ELSE [f \in DOMAIN fieldAddrs \cup {vecField} |->
                   IF f = vecField THEN [docs |-> vecToDocID, index |-> Nothing]
                   ELSE fieldAddrs[f]]
  BY DEF FlushSectionMetadata
<1>2. AtGather
  BY <1>1 DEF VecInv
<1>3. {i \in Having(vecField) : i < vecSeg} = Having(vecField)
  <2>1. Cardinality(Itrs) \in Nat /\ Itrs = 0..(Cardinality(Itrs) - 1)
    BY EnumeratorAssumption, FS_CardinalityType, VectorSectionAssumption
  <2>2. vecSeg \in Nat /\ vecSeg <= Cardinality(Itrs)
    BY <1>2 DEF AtGather
  <2>3. vecSeg = Cardinality(Itrs)
    BY <1>1, <2>1, <2>2
  <2>4. \A i \in Itrs : i < vecSeg
    BY <2>1, <2>3
  <2> QED  BY <2>4 DEF Having
<1>4. GatheredOf(Having(vecField)) /\ vecToDocID = NewNums(S)
  <2>1. LiveIn(Having(vecField), vecField) = S
    BY <1>s, LeftAreSurviving DEF VecInv
  <2> QED  BY <1>2, <1>3, <2>1 DEF AtGather
<1>5. DOMAIN vecToDocID = S /\ (indexes = <<>> => S = {})
  <2>1. DOMAIN vecToDocID = S
    BY <1>4 DEF NewNums
  <2>2. ASSUME indexes = <<>> PROVE S = {}
    <3>1. DOMAIN indexes = {}
      BY <2>2, EmptyIs
    <3> QED  BY <1>s, <1>4, <3>1, GatheredAll
  <2> QED  BY <2>1, <2>2
<1>6. fieldAddrs' = IF S = {} THEN fieldAddrs
                    ELSE [f \in DOMAIN fieldAddrs \cup {vecField} |->
                            IF f = vecField THEN flushed ELSE fieldAddrs[f]]
  BY <1>e, <1>1, <1>4, <1>5
<1>7. /\ DOMAIN fieldAddrs' = DOMAIN fieldAddrs \cup (IF S = {} THEN {} ELSE {vecField})
      /\ \A f \in DOMAIN fieldAddrs : f # vecField => fieldAddrs'[f] = fieldAddrs[f]
      /\ S # {} => fieldAddrs'[vecField] = flushed
  <2>1. CASE S = {}
    BY <1>6, <2>1
  <2>2. CASE S # {}
    BY <1>6, <2>2
  <2> QED  BY <2>1, <2>2
<1>8. \A f \in vecFields \ {vecField} :
        /\ f \in DOMAIN fieldAddrs' <=> f \in DOMAIN fieldAddrs
        /\ f \in DOMAIN fieldAddrs => fieldAddrs'[f] = fieldAddrs[f]
  BY <1>7
<1>9. InOrder' /\ vecField' = vecField
  BY <1>1, <1>7, <1>8, OrderStays
<1>10. GatheredOf(Having(vecField))'
  BY <1>1, <1>4, <1>9, GatheredStays
<1>11. Flushed'
  <2>1. PICK f : f = vecField /\ f = vecField'
    BY <1>9
  <2>2. S = SurvivingIDs(f)' /\ NewNums(S)' = NewNums(S)
    BY <1>s, <1>1, <2>1, VecFrame
  <2>3. S = SurvivingIDs(vecField)'
    BY <2>1, <2>2 DEF SurvivingIDs
  <2>4. flushed = [docs |-> NewNums(SurvivingIDs(vecField))', index |-> Nothing]
    BY <1>e, <2>2, <2>3 DEF NewNums
  <2>5. vecField \notin DOMAIN fieldAddrs
    BY <1>2 DEF AtGather
  <2> QED  BY <1>7, <1>9, <2>3, <2>4, <2>5 DEF Flushed
<1> QED  BY <1>1, <1>9, <1>10, <1>11, VecInvFrom DEF AtRead

LEMMA ReadVecStep == VecInv /\ IndexInv /\ ReadIndex => VecInv'
<1> SUFFICES ASSUME VecInv, IndexInv, ReadIndex PROVE VecInv'
  OBVIOUS
<1>1. /\ vecPc = "read" /\ vecSeg \in DOMAIN indexes
      /\ UNCHANGED <<buildVecVars, vecFields, vecData, fieldAddrs>>
      /\ \/ GiveUp("closed") \/ GiveUp("failed")
         \/ indexes' = [indexes EXCEPT ![vecSeg].index = "open"] /\ vecPc' = vecPc
         \/ UNCHANGED <<indexes, vecPc>>
  BY DEF ReadIndex
<1>2. AtRead /\ IsSeq(indexes) /\ \A k \in DOMAIN indexes : IndexRecord(indexes[k])
  BY <1>1 DEF VecInv, IndexInv
<1>3. vecPc' \in {"read", "closed", "failed"}
  BY <1>1 DEF GiveUp
<1>4. InOrder' /\ vecField' = vecField
  BY <1>1, <1>3, OrderStays
<1>5. ASSUME vecPc' = "read" PROVE AtRead'
  <2>1. /\ DOMAIN indexes' = DOMAIN indexes
        /\ \A k \in DOMAIN indexes : /\ indexes'[k].seg = indexes[k].seg
                                     /\ indexes'[k].vecIds = indexes[k].vecIds
    <3>1. CASE UNCHANGED indexes
      BY <3>1
    <3>2. CASE indexes' = [indexes EXCEPT ![vecSeg].index = "open"]
      <4>1. /\ DOMAIN indexes' = DOMAIN indexes
            /\ \A k \in DOMAIN indexes : k # vecSeg => indexes'[k] = indexes[k]
            /\ indexes'[vecSeg] = [seg |-> indexes[vecSeg].seg,
                                   vecIds |-> indexes[vecSeg].vecIds, index |-> "open"]
        BY <1>1, <1>2, <3>2, IndexSet
      <4> QED  BY <4>1
    <3> QED  BY <1>1, <1>5, <3>1, <3>2 DEF GiveUp
  <2>2. GatheredOf(Having(vecField))'
    BY <1>1, <1>2, <1>4, <2>1, GatheredStays DEF AtRead
  <2>3. Flushed'
    BY <1>1, <1>2, <1>4, FlushedStays DEF AtRead
  <2> QED  BY <1>1, <1>2, <2>2, <2>3 DEF AtRead
<1> QED  BY <1>1, <1>3, <1>4, <1>5, VecInvFrom

LEMMA EndReadStep == VecInv /\ IndexInv /\ EndRead => VecInv'
<1> SUFFICES ASSUME VecInv, IndexInv, EndRead PROVE VecInv'
  OBVIOUS
<1>1. /\ vecPc = "read" /\ vecSeg \notin DOMAIN indexes /\ vecSeg' = 1
      /\ vecPc' = IF \E k \in DOMAIN indexes : indexes[k].index = "open"
                  THEN "recons" ELSE "field"
      /\ UNCHANGED <<buildVecVars, vecFields, indexes, vecData, fieldAddrs>>
  BY DEF EndRead
<1>2. AtRead
  BY <1>1 DEF VecInv
<1>3. \A k \in DOMAIN indexes : indexes[k].index = Opened(indexes[k])
  <2>1. vecSeg \in Nat \ {0} /\ IsSeq(indexes)
        /\ \A k \in DOMAIN indexes :
             indexes[k].index = IF k < vecSeg THEN Opened(indexes[k]) ELSE "nil"
    BY <1>1 DEF IndexInv
  <2>2. \A k \in DOMAIN indexes : k < vecSeg
    BY <1>1, <2>1 DEF IsSeq
  <2> QED  BY <2>1, <2>2
<1>4. UNION {indexes[k].vecIds : k \in DOMAIN indexes} = SurvivingIDs(vecField)
  BY <1>2, GatheredAll DEF AtRead
<1>5. (\E k \in DOMAIN indexes : indexes[k].index = "open") <=> SurvivingIDs(vecField) # {}
  BY <1>3, <1>4 DEF Opened
<1>6. vecPc' = "field" => Holds(fieldAddrs', vecField, NewNums(SurvivingIDs(vecField)))
  BY <1>1, <1>2, <1>5 DEF AtRead, Flushed, Holds, NewNums
<1>7. InOrder' /\ vecField' = vecField
  BY <1>1, <1>6, OrderStays
<1>8. ASSUME vecPc' = "recons" PROVE AtRecons'
  <2>1. GatheredOf(Having(vecField))'
    BY <1>1, <1>2, <1>7, GatheredStays DEF AtRead
  <2>2. Flushed' /\ SurvivingIDs(vecField)' # {}
    BY <1>1, <1>2, <1>5, <1>7, <1>8, FlushedStays DEF AtRead
  <2>3. {l \in DOMAIN indexes' : l < 1} = {}
    BY <1>1 DEF IndexInv, IsSeq
  <2>4. Reconstructed({})'
    <3>1. IsSeq(vecData') /\ DOMAIN vecData' = {}
      BY <1>1, <1>2, EmptyIs DEF AtRead
    <3> QED  BY <3>1 DEF Reconstructed, IsSeq
  <2>5. UNION {indexes[k].vecIds : k \in {l \in DOMAIN indexes : l < vecSeg}}' = {}
    BY <1>1, <2>3
  <2> QED  BY <1>1, <2>1, <2>2, <2>4, <2>5 DEF AtRecons, Reconstructed
<1> QED  BY <1>1, <1>7, <1>8, VecInvFrom

\* The floats of an index are those of its vectors.
LEMMA FloatsAre ==
  ASSUME VecInv, vecPc # "build", GatheredOf(Having(vecField)), NEW k \in DOMAIN indexes
  PROVE  [id \in indexes[k].vecIds |-> sections[indexes[k].seg][vecField].index[id]]
           = [id \in indexes[k].vecIds |-> id]
<1> DEFINE i == indexes[k].seg
<1>1. i \in Having(vecField) /\ indexes[k].vecIds = Live(i, vecField)
  BY DEF GatheredOf
<1>2. i \in DOMAIN sections /\ vecField \in DOMAIN sections[i]
  BY <1>1 DEF Having, VecInv, Built
<1>3. sections[i][vecField] = SectionOf(i, vecField)
  BY <1>2 DEF VecInv, Built
<1>4. \A id \in indexes[k].vecIds : sections[i][vecField].index[id] = id
  BY <1>1, <1>3 DEF Live, SectionOf
<1> QED  BY <1>4

LEMMA ReconstructStep == VecInv /\ IndexInv /\ Reconstruct => VecInv'
<1> SUFFICES ASSUME VecInv, IndexInv, Reconstruct PROVE VecInv'
  OBVIOUS
<1>x. PICK x : x = indexes[vecSeg]
  OBVIOUS
<1> DEFINE floats == [id \in x.vecIds |-> sections[x.seg][vecField].index[id]]
<1>1. /\ vecPc = "recons" /\ vecSeg \in DOMAIN indexes /\ vecSeg' = vecSeg + 1
      /\ UNCHANGED <<buildVecVars, vecFields, fieldAddrs>>
      /\ \/ GiveUp("closed") \/ GiveUp("failed")
         \/ /\ vecData' = IF x.vecIds = {} THEN vecData ELSE Append(vecData, floats)
            /\ indexes' = IF x.vecIds # {} /\ x.index # "open"
                          THEN [indexes EXCEPT ![vecSeg].index = "misused"] ELSE indexes
            /\ UNCHANGED vecPc
  BY <1>x DEF Reconstruct
<1>2. AtRecons /\ x.index = Opened(x) /\ IsSeq(indexes)
  BY <1>x, <1>1 DEF VecInv, IndexInv
<1>3. vecPc' \in {"recons", "closed", "failed"}
  BY <1>1 DEF GiveUp
<1>4. InOrder' /\ vecField' = vecField
  BY <1>1, <1>3, OrderStays
<1>5. ASSUME vecPc' = "recons" PROVE AtRecons'
  <2>1. vecData' = IF x.vecIds = {} THEN vecData ELSE Append(vecData, floats)
    BY <1>1, <1>5 DEF GiveUp
  <2>2. indexes' = indexes
    BY <1>1, <1>2, <1>5 DEF GiveUp, Opened
  <2>3. GatheredOf(Having(vecField))' /\ Flushed' /\ SurvivingIDs(vecField)' # {}
    BY <1>1, <1>2, <1>4, <2>2, GatheredStays, FlushedStays DEF AtRecons
  <2>4. vecSeg \in Nat \ {0} /\ vecSeg' \in Nat \ {0}
    BY <1>1, <1>2 DEF AtRecons
  <2>s. PICK S : S = UNION {indexes[k].vecIds : k \in {l \in DOMAIN indexes : l < vecSeg}}
    OBVIOUS
  <2>5. Reconstructed(S)
    BY <1>2, <2>s DEF AtRecons
  <2>6. {l \in DOMAIN indexes : l < vecSeg + 1} = {l \in DOMAIN indexes : l < vecSeg} \cup {vecSeg}
    BY <1>1, <1>2, <2>4 DEF IsSeq
  <2>7. UNION {indexes[k].vecIds : k \in {l \in DOMAIN indexes : l < vecSeg + 1}} = S \cup x.vecIds
    BY <1>x, <2>s, <2>6
  <2>8. Reconstructed(S \cup x.vecIds)'
    <3>1. CASE x.vecIds = {}
      BY <2>1, <2>2, <2>5, <3>1 DEF Reconstructed
    <3>2. CASE x.vecIds # {}
      <4>1. floats = [id \in x.vecIds |-> id]
        BY <1>x, <1>1, <1>2, FloatsAre DEF AtRecons
      <4>2. PICK e, ids : e = floats /\ ids = x.vecIds
        OBVIOUS
      <4> HIDE DEF floats
      <4>3. DOMAIN e = ids /\ (\A id \in ids : e[id] = id)
        BY <4>1, <4>2
      <4>4. vecData' = Append(vecData, e) /\ IsSeq(vecData)
        BY <2>1, <2>5, <3>2, <4>2 DEF Reconstructed
      <4>5. /\ IsSeq(vecData') /\ DOMAIN vecData' = DOMAIN vecData \cup {Len(vecData) + 1}
            /\ \A k \in DOMAIN vecData : vecData'[k] = vecData[k]
            /\ vecData'[Len(vecData) + 1] = e
        BY <4>4, AppendIs
      <4>6. \A k \in DOMAIN vecData' : \A id \in DOMAIN vecData'[k] : vecData'[k][id] = id
        BY <2>5, <4>3, <4>5 DEF Reconstructed
      <4>7. UNION {DOMAIN vecData'[k] : k \in DOMAIN vecData'} = S \cup ids
        BY <2>5, <4>3, <4>5 DEF Reconstructed
      <4> QED  BY <4>2, <4>5, <4>6, <4>7 DEF Reconstructed
    <3> QED  BY <3>1, <3>2
  <2> QED  BY <1>1, <2>2, <2>3, <2>4, <2>7, <2>8 DEF AtRecons, Reconstructed
<1> QED  BY <1>1, <1>3, <1>4, <1>5, VecInvFrom

LEMMA CreateStep == VecInv /\ IndexInv /\ CreateIndex => VecInv'
<1> SUFFICES ASSUME VecInv, IndexInv, CreateIndex PROVE VecInv'
  OBVIOUS
<1>1. /\ vecPc = "recons" /\ vecSeg \notin DOMAIN indexes /\ vecPc' \in {"failed", "create"}
      /\ UNCHANGED <<buildVecVars, vecFields, vecData, fieldAddrs>>
  BY DEF CreateIndex
<1>2. AtRecons /\ IsSeq(indexes)
  BY <1>1 DEF VecInv, IndexInv
<1>3. InOrder' /\ vecField' = vecField
  BY <1>1, OrderStays
<1>4. Reconstructed(SurvivingIDs(vecField))
  <2>1. {l \in DOMAIN indexes : l < vecSeg} = DOMAIN indexes
    BY <1>1, <1>2 DEF AtRecons, IsSeq
  <2>2. UNION {indexes[k].vecIds : k \in DOMAIN indexes} = SurvivingIDs(vecField)
    BY <1>2, GatheredAll DEF AtRecons
  <2> QED  BY <1>2, <2>1, <2>2 DEF AtRecons
<1>5. AtCreate'
  <2>1. Flushed' /\ SurvivingIDs(vecField)' = SurvivingIDs(vecField)
        /\ SurvivingIDs(vecField) # {}
    BY <1>1, <1>2, <1>3, FlushedStays DEF AtRecons
  <2>2. Reconstructed(SurvivingIDs(vecField))'
    BY <1>1, <1>4, <2>1 DEF Reconstructed
  <2> QED  BY <2>1, <2>2 DEF AtCreate
<1> QED  BY <1>1, <1>3, <1>5, VecInvFrom

LEMMA WriteStep == VecInv /\ IndexInv /\ WriteIndex => VecInv'
<1> SUFFICES ASSUME VecInv, IndexInv, WriteIndex PROVE VecInv'
  OBVIOUS
<1> DEFINE all == UNION {DOMAIN vecData[k] : k \in DOMAIN vecData}
           floats == [id \in all |->
                        vecData[CHOOSE k \in DOMAIN vecData : id \in DOMAIN vecData[k]][id]]
<1>1. /\ vecPc = "create" /\ UNCHANGED <<buildVecVars, vecFields>>
      /\ \/ vecPc' = "failed" /\ UNCHANGED fieldAddrs
         \/ vecPc' = "field" /\ fieldAddrs' = [fieldAddrs EXCEPT ![vecField].index = floats]
  BY DEF WriteIndex
<1>s. PICK S : S = SurvivingIDs(vecField)
  OBVIOUS
<1>2. Flushed /\ S # {} /\ Reconstructed(S)
  BY <1>s, <1>1 DEF VecInv, AtCreate
<1>3. floats = [id \in S |-> id]
  <2>1. all = S
    BY <1>2 DEF Reconstructed
  <2>2. ASSUME NEW id \in S
        PROVE  vecData[CHOOSE k \in DOMAIN vecData : id \in DOMAIN vecData[k]][id] = id
    <3>1. \E k \in DOMAIN vecData : id \in DOMAIN vecData[k]
      BY <2>1
    <3>2. PICK k : k = CHOOSE l \in DOMAIN vecData : id \in DOMAIN vecData[l]
      OBVIOUS
    <3>3. k \in DOMAIN vecData /\ id \in DOMAIN vecData[k]
      BY <3>1, <3>2
    <3> QED  BY <1>2, <3>2, <3>3 DEF Reconstructed
  <2> QED  BY <2>1, <2>2
<1> HIDE DEF floats
<1>4. /\ vecField \in DOMAIN fieldAddrs
      /\ fieldAddrs[vecField] = [docs |-> NewNums(S), index |-> Nothing]
  BY <1>s, <1>2 DEF Flushed
<1>5. ASSUME fieldAddrs' = [fieldAddrs EXCEPT ![vecField].index = floats]
      PROVE  /\ DOMAIN fieldAddrs' = DOMAIN fieldAddrs
             /\ \A f \in DOMAIN fieldAddrs : f # vecField => fieldAddrs'[f] = fieldAddrs[f]
             /\ fieldAddrs'[vecField] = [docs |-> NewNums(S), index |-> [id \in S |-> id]]
  <2>1. /\ DOMAIN fieldAddrs' = DOMAIN fieldAddrs
        /\ \A f \in DOMAIN fieldAddrs : f # vecField => fieldAddrs'[f] = fieldAddrs[f]
        /\ fieldAddrs'[vecField] = [fieldAddrs[vecField] EXCEPT !.index = floats]
    BY <1>4, <1>5
  <2>2. PICK d : d = NewNums(S)
    OBVIOUS
  <2>3. fieldAddrs'[vecField] = [docs |-> d, index |-> floats]
    BY <1>4, <2>1, <2>2
  <2> QED  BY <1>3, <2>1, <2>2, <2>3
<1>6. \A f \in vecFields \ {vecField} :
        /\ f \in DOMAIN fieldAddrs' <=> f \in DOMAIN fieldAddrs
        /\ f \in DOMAIN fieldAddrs => fieldAddrs'[f] = fieldAddrs[f]
  BY <1>1, <1>5
<1>7. vecPc' = "field" => Holds(fieldAddrs', vecField, NewNums(S))
  <2>1. DOMAIN NewNums(S) = S
    BY DEF NewNums
  <2>2. PICK d : d = NewNums(S)
    OBVIOUS
  <2> QED  BY <1>1, <1>2, <1>4, <1>5, <2>1, <2>2 DEF Holds
<1>8. InOrder'
  BY <1>s, <1>1, <1>5, <1>6, <1>7, OrderStays
<1> QED  BY <1>1, <1>8, VecInvFrom

LEMMA VecStep == VecInv /\ IndexInv /\ VectorsNext => VecInv'
<1>1. ASSUME VecInv, VectorsClosed PROVE VecInv'
  <2>1. /\ vecPc = "gather" /\ vecPc' = "closed"
        /\ UNCHANGED <<buildVecVars, vecFields, fieldAddrs>>
    BY <1>1 DEF VectorsClosed, mergeVecVars
  <2>2. InOrder'
    BY <1>1, <2>1, OrderStays
  <2> QED  BY <1>1, <2>1, <2>2, VecInvFrom
<1> QED
  BY <1>1, BuildStep, StartVecStep, GatherStep, FlushStep, ReadVecStep, EndReadStep,
     ReconstructStep, CreateStep, WriteStep DEF VectorsNext

\* Only the section of the vectors gets beyond the start; in the others drops
\* stays too, but VecInv does not speak of it before a merge has begun.
SectionInv ==
  /\ IndexInv /\ VecInv
  /\ vecPc # "build" => section = "vectors"

LEMMA InitVecInv == SectionsInit => SectionInv
<1> SUFFICES ASSUME SectionsInit PROVE SectionInv
  OBVIOUS
<1>1. /\ vo = NewVecOpaque /\ sections = <<>> /\ vecPc = "build"
      /\ vecFields = {} /\ fieldAddrs = <<>>
  BY DEF SectionsInit, VectorsStart
<1>2. \A i \in Itrs : VecBatch(i)
  <2>1. CASE VectorInputs
    BY <2>1, VectorSectionAssumption DEF VectorInputs, VecBatch
  <2>2. CASE NoVectors
    BY <2>2 DEF NoVectors, VecBatch
  <2> QED  BY <2>1, <2>2 DEF SectionsInit
<1>3. DOMAIN sections = {} /\ DOMAIN fieldAddrs = {}
  BY <1>1
<1>4. Built
  BY <1>1, <1>3 DEF Built
<1>5. InOrder
  BY <1>1, <1>3 DEF InOrder
<1> QED  BY <1>1, <1>2, <1>4, <1>5, InitIndexInv DEF SectionInv, VecInv

\* The steps of the other sections, and none.
LEMMA OtherSections ==
  ASSUME VecInv, UNCHANGED vecVars, vecPc = "build" \/ UNCHANGED drops
  PROVE  VecInv'
<1>1. UNCHANGED <<vecBatches, updatedFields, vo, sections, vecPc, vecFields, vecSeg, indexes,
                  vecToDocID, vecData, faissIndex, fieldAddrs, persistErr>>
  BY DEF vecVars, mergeVecVars
<1>2. CASE vecPc = "build"
  <2>1. /\ \A i : SegFields(i)' = SegFields(i)
        /\ \A i, f : IDs(i, f)' = IDs(i, f) /\ SectionOf(i, f)' = SectionOf(i, f)
        /\ \A i : VecBatch(i)' <=> VecBatch(i)
    BY <1>1 DEF SegFields, IDs, DocOf, SectionOf, VecBatch
  <2>2. Built'
    BY <1>1, <2>1 DEF VecInv, Built, NewVecOpaque
  <2>3. InOrder'
    BY <1>1, <1>2 DEF VecInv, InOrder
  <2> QED  BY <1>1, <1>2, <2>1, <2>2, <2>3 DEF VecInv
<1>3. CASE vecPc # "build"
  <2>1. UNCHANGED buildVecVars
    BY <1>1, <1>3 DEF buildVecVars
  <2>2. vecField' = vecField
    BY <1>1 DEF vecField
  <2>3. Built' /\ \A i \in Itrs : VecBatch(i)'
    BY <1>3, <2>1, BuiltFrame, VecFrame DEF VecInv
  <2>4. PICK f : f = vecField /\ f = vecField'
    BY <2>2
  <2>5. /\ NewVecFields' = NewVecFields
        /\ Having(f)' = Having(f) /\ (\A i : Live(i, f)' = Live(i, f))
        /\ (\A S : NewNums(S)' = NewNums(S))
    BY <2>1, VecFrame
  <2>6. \A F : Done(F) => Done(F)'
    <3>1. ASSUME NEW F, Done(F) PROVE Done(F)'
      <4>1. \A g \in F : Holds(fieldAddrs', g, NewNums(SurvivingIDs(g))')
        BY <1>1, <2>1, <3>1, DoneFrame
      <4> QED  BY <4>1 DEF Done, Holds
    <3> QED  BY <3>1
  <2>7. InOrder'
    <3>1. vecPc = "field" => Done(vecFields)'
      <4>1. PICK F : F = vecFields /\ F = vecFields'
        BY <1>1
      <4>2. vecPc = "field" => Done(F)'
        BY <2>6, <4>1 DEF VecInv, InOrder
      <4> QED  BY <4>1, <4>2 DEF Done
    <3>2. vecPc \in {"gather", "read", "recons", "create"} => Done(vecFields \ {vecField})'
      <4>1. PICK F : F = vecFields \ {vecField} /\ F = vecFields' \ {vecField'}
        BY <1>1, <2>2
      <4>2. vecPc \in {"gather", "read", "recons", "create"} => Done(F)'
        BY <2>6, <4>1 DEF VecInv, InOrder
      <4> QED  BY <4>1, <4>2 DEF Done
    <3> QED  BY <1>1, <1>3, <2>2, <2>5, <3>1, <3>2 DEF VecInv, InOrder
  <2>8. vecPc = "gather" => AtGather'
    <3> SUFFICES ASSUME AtGather PROVE AtGather'
      BY DEF VecInv
    <3>1. PICK J : J = {i \in Having(f) : i < vecSeg} /\ J = {i \in Having(f)' : i < vecSeg'}
      BY <1>1, <2>5
    <3>2. GatheredOf(J)'
      BY <1>1, <2>4, <2>5, <3>1 DEF AtGather, GatheredOf
    <3>3. vecToDocID' = NewNums(LiveIn(J, f))'
      <4>1. LiveIn(J, f)' = LiveIn(J, f)
        BY <2>5 DEF LiveIn
      <4>2. NewNums(LiveIn(J, f))' = NewNums(LiveIn(J, f))
        BY <2>5, <4>1
      <4> QED  BY <1>1, <2>4, <3>1, <4>2 DEF AtGather
    <3>4. {i \in Having(vecField) : i < vecSeg}' = J
      BY <2>4, <3>1
    <3>5. GatheredOf({i \in Having(vecField) : i < vecSeg})'
      BY <3>2, <3>4 DEF GatheredOf
    <3>6. (vecToDocID = NewNums(LiveIn({i \in Having(vecField) : i < vecSeg}, vecField)))'
      BY <2>4, <3>3, <3>4 DEF LiveIn
    <3> QED  BY <1>1, <2>2, <3>5, <3>6 DEF AtGather
  <2>9. /\ GatheredOf(Having(vecField)) => GatheredOf(Having(vecField))'
        /\ (Flushed => Flushed') /\ SurvivingIDs(vecField)' = SurvivingIDs(vecField)
    BY <1>1, <2>1, <2>2, GatheredStays, FlushedStays
  <2>10. vecPc = "read" => AtRead'
    BY <1>1, <2>9 DEF VecInv, AtRead
  <2>11. vecPc = "recons" => AtRecons'
    BY <1>1, <2>9 DEF VecInv, AtRecons, Reconstructed
  <2>12. vecPc = "create" => AtCreate'
    BY <1>1, <2>9 DEF VecInv, AtCreate, Reconstructed
  <2> QED  BY <1>1, <2>3, <2>7, <2>8, <2>10, <2>11, <2>12 DEF VecInv
<1> QED  BY <1>2, <1>3

\* Whatever the opaque was used for before and wherever a build or a merge was
\* broken off, a section has the vectors of its batch, or of the documents that
\* survive, in its map and its index alike, and a field without any has no
\* section (section_faiss_vector_index.go:49-240, 281-418, 483-662).
THEOREM VectorsAlwaysExact == SectionsSpec => []VectorSectionExact
<1>1. SectionInv /\ [SectionsNext]_sectionVars => SectionInv'
  <2> SUFFICES ASSUME SectionInv, [SectionsNext]_sectionVars PROVE SectionInv'
    OBVIOUS
  <2>1. UNCHANGED section
    BY DEF SectionsNext, sectionVars, Text, SynonymSection, VectorIndexes, Searches, LookUps
  <2>2. CASE VectorIndexes
    <3>1. section = "vectors" /\ VectorsNext
      BY <2>2 DEF VectorIndexes
    <3> QED  BY <2>1, <3>1, VectorsStep, VecStep DEF SectionInv
  <2>3. CASE ~VectorIndexes
    <3>1. UNCHANGED vecVars
      BY <2>3 DEF SectionsNext, sectionVars, Text, SynonymSection, Searches, LookUps
    <3>2. UNCHANGED <<indexes, vecPc, vecSeg, faissIndex>>
      BY <3>1 DEF vecVars, mergeVecVars
    <3>3. vecPc = "build" \/ UNCHANGED drops
      <4>1. CASE section = "vectors"
        <5>1. UNCHANGED mergeVars
          BY <2>3, <4>1 DEF SectionsNext, sectionVars, Text, SynonymSection, Searches, LookUps
        <5> QED  BY <5>1 DEF mergeVars, fixed
      <4> QED  BY <4>1 DEF SectionInv
    <3>4. IndexInv'
      BY <3>2 DEF SectionInv, IndexInv
    <3>5. VecInv'
      BY <3>1, <3>3, OtherSections DEF SectionInv
    <3> QED  BY <2>1, <3>2, <3>4, <3>5 DEF SectionInv
  <2> QED  BY <2>2, <2>3
<1>2. SectionInv => VectorSectionExact
  <2> SUFFICES ASSUME VecInv PROVE VectorSectionExact
    BY DEF SectionInv
  <2>1. ASSUME NEW i \in DOMAIN sections, NEW f \in SegFields(i)
        PROVE  \/ Holds(sections[i], f, [id \in IDs(i, f) |-> DocOf(id)])
               \/ persistErr /\ f \notin DOMAIN sections[i]
    <3>1. CASE f \in DOMAIN sections[i]
      <4>1. IDs(i, f) # {} /\ sections[i][f] = SectionOf(i, f)
        BY <3>1 DEF VecInv, Built
      <4> QED  BY <3>1, <4>1 DEF Holds, SectionOf
    <3>2. CASE f \notin DOMAIN sections[i]
      <4>1. IDs(i, f) = {} \/ persistErr
        BY <3>2 DEF VecInv, Built
      <4> QED  BY <3>2, <4>1 DEF Holds
    <3> QED  BY <3>1, <3>2
  <2>2. vecPc = "field" => Done(vecFields)
    BY DEF VecInv, InOrder
  <2> QED  BY <2>1, <2>2 DEF VectorSectionExact, Done, NewNums
<1> QED  BY <1>1, <1>2, InitVecInv, PTL DEF SectionsSpec

-----------------------------------------------------------------------------
(* Sequences and the order in which their members appear first.            *)

SeenBefore(seq, n) == {seq[k] : k \in 1..(n - 1)}

LEMMA CountTo ==
  ASSUME NEW n \in Nat
  PROVE  IsFiniteSet(1..n) /\ Cardinality(1..n) = n
<1>1. IsFiniteSet(1..n) /\ Cardinality(1..n) = (IF 1 > n THEN 0 ELSE n - 1 + 1)
  BY FS_Interval
<1> QED  BY <1>1

LEMMA SeenBeforeGrows ==
  ASSUME NEW seq, NEW m \in Nat, NEW n \in Nat, m < n
  PROVE  /\ \A w \in SeenBefore(seq, m) : w \in SeenBefore(seq, n)
         /\ m # 0 => seq[m] \in SeenBefore(seq, n)
<1>1. \A k \in 1..(m - 1) : k \in 1..(n - 1)
  OBVIOUS
<1>2. m # 0 => m \in 1..(n - 1)
  OBVIOUS
<1> QED  BY <1>1, <1>2 DEF SeenBefore

LEMMA SeenBeforeIs ==
  ASSUME NEW T, NEW seq \in Seq(T), NEW n \in 1..(Len(seq) + 1)
  PROVE  /\ IsFiniteSet(SeenBefore(seq, n)) /\ Cardinality(SeenBefore(seq, n)) \in Nat
         /\ Cardinality(SeenBefore(seq, n)) <= n - 1
<1>1. n \in Nat /\ n - 1 \in Nat
  OBVIOUS
<1>2. IsFiniteSet(1..(n - 1)) /\ Cardinality(1..(n - 1)) = n - 1
  BY <1>1, CountTo
<1> DEFINE f == [k \in 1..(n - 1) |-> seq[k]]
<1>3. f \in Surjection(1..(n - 1), SeenBefore(seq, n))
  BY DEF Surjection, SeenBefore
<1>4. IsFiniteSet(SeenBefore(seq, n)) /\ Cardinality(SeenBefore(seq, n)) <= Cardinality(1..(n - 1))
  BY <1>2, <1>3, FS_Surjection
<1> QED  BY <1>2, <1>4, FS_CardinalityType

FirstAt(seq, x) == Lowest({k \in DOMAIN seq : seq[k] = x})

LEMMA FirstAtIs ==
  ASSUME NEW T, NEW seq \in Seq(T), NEW x \in Members(seq)
  PROVE  /\ FirstAt(seq, x) \in 1..Len(seq) /\ seq[FirstAt(seq, x)] = x
         /\ x \notin SeenBefore(seq, FirstAt(seq, x))
         /\ Rank(seq, x) = Cardinality(SeenBefore(seq, FirstAt(seq, x)))
<1> DEFINE S == {k \in DOMAIN seq : seq[k] = x}
           n == FirstAt(seq, x)
<1>1. S \in SUBSET Nat /\ S # {} /\ DOMAIN seq = 1..Len(seq) /\ Len(seq) \in Nat
  BY DEF Members
<1>2. n = Lowest(S)
  BY DEF FirstAt
<1>3. Rank(seq, x) = Cardinality(SeenBefore(seq, n))
  BY DEF Rank, FirstAt, SeenBefore
<1> HIDE DEF n
<1>4. n \in S /\ \A k \in S : n <= k
  <2> HIDE DEF S
  <2> QED  BY <1>1, <1>2, LowestIs
<1>5. n \in 1..Len(seq) /\ seq[n] = x
  BY <1>1, <1>4
<1>6. ASSUME NEW k \in 1..(n - 1) PROVE seq[k] # x
  <2>1. k \in 1..Len(seq) /\ ~ (n <= k)
    BY <1>1, <1>5
  <2> QED  BY <1>1, <1>4, <2>1
<1>7. x \notin SeenBefore(seq, n)
  BY <1>6 DEF SeenBefore
<1> QED  BY <1>3, <1>5, <1>7 DEF n

\* Every member has a number of its own, below the number of the members.
LEMMA RankIs ==
  ASSUME NEW T, NEW seq \in Seq(T), NEW x \in Members(seq)
  PROVE  /\ Rank(seq, x) \in Nat /\ Rank(seq, x) < Cardinality(Members(seq))
         /\ Cardinality(Members(seq)) \in Nat
         /\ \A y \in Members(seq) : Rank(seq, y) = Rank(seq, x) => y = x
<1> DEFINE n(y) == FirstAt(seq, y)
<1>1. ASSUME NEW y \in Members(seq)
      PROVE  /\ n(y) \in 1..Len(seq) /\ n(y) \in Nat /\ seq[n(y)] = y
             /\ y \notin SeenBefore(seq, n(y)) /\ Rank(seq, y) = Cardinality(SeenBefore(seq, n(y)))
             /\ IsFiniteSet(SeenBefore(seq, n(y))) /\ Rank(seq, y) \in Nat
  <2>1. /\ n(y) \in 1..Len(seq) /\ seq[n(y)] = y /\ y \notin SeenBefore(seq, n(y))
        /\ Rank(seq, y) = Cardinality(SeenBefore(seq, n(y)))
    BY <1>1, FirstAtIs
  <2> HIDE DEF n
  <2>2. n(y) \in Nat /\ n(y) \in 1..(Len(seq) + 1)
    BY <2>1
  <2> QED  BY <2>1, <2>2, SeenBeforeIs
<1> HIDE DEF n
<1>2. ASSUME NEW y \in Members(seq), NEW z \in Members(seq), n(y) < n(z)
      PROVE  Rank(seq, y) < Rank(seq, z)
  <2>1. n(y) \in Nat /\ n(y) # 0 /\ n(z) \in Nat /\ seq[n(y)] = y
    BY <1>1
  <2>2. (\A w \in SeenBefore(seq, n(y)) : w \in SeenBefore(seq, n(z)))
        /\ y \in SeenBefore(seq, n(z))
    BY <1>2, <2>1, SeenBeforeGrows
  <2> QED  BY <1>1, <2>2, SmallerSet
<1>3. ASSUME NEW y \in Members(seq), Rank(seq, y) = Rank(seq, x) PROVE y = x
  <2>1. ~ (n(y) < n(x)) /\ ~ (n(x) < n(y))
    BY <1>1, <1>2, <1>3
  <2> QED  BY <1>1, <2>1
<1>4. Rank(seq, x) < Cardinality(Members(seq)) /\ Cardinality(Members(seq)) \in Nat
  <2> DEFINE l == Len(seq) + 1
  <2>1. l \in 1..(Len(seq) + 1) /\ DOMAIN seq = 1..(l - 1)
    OBVIOUS
  <2>2. Members(seq) = SeenBefore(seq, l)
    BY <2>1 DEF Members, SeenBefore
  <2>3. IsFiniteSet(Members(seq)) /\ Cardinality(Members(seq)) \in Nat
    <3> HIDE DEF l
    <3> QED  BY <2>1, <2>2, SeenBeforeIs
  <2>4. \A w \in SeenBefore(seq, n(x)) : w \in Members(seq)
    <3>1. n(x) \in Nat /\ l \in Nat /\ n(x) < l
      BY <1>1
    <3> HIDE DEF l
    <3> QED  BY <2>2, <3>1, SeenBeforeGrows
  <2> QED  BY <1>1, <2>3, <2>4, SmallerSet
<1> QED  BY <1>1, <1>3, <1>4

\* In a sequence without repetition it is the place, counted from 0.
LEMMA RankOf ==
  ASSUME NEW T, NEW seq \in Seq(T),
         \A k, l \in DOMAIN seq : seq[k] = seq[l] => k = l,
         NEW n \in 1..Len(seq)
  PROVE  Rank(seq, seq[n]) = n - 1
<1> DEFINE x == seq[n]
<1>1. x \in Members(seq)
  BY DEF Members
<1> HIDE DEF x
<1>2. FirstAt(seq, x) \in 1..Len(seq) /\ seq[FirstAt(seq, x)] = x
      /\ Rank(seq, x) = Cardinality(SeenBefore(seq, FirstAt(seq, x)))
  BY <1>1, FirstAtIs
<1>3. FirstAt(seq, x) = n
  BY <1>2 DEF x
<1> DEFINE f == [k \in 1..(n - 1) |-> seq[k]]
<1>4. n - 1 \in Nat /\ IsFiniteSet(1..(n - 1)) /\ Cardinality(1..(n - 1)) = n - 1
  <2>1. n - 1 \in Nat
    OBVIOUS
  <2> QED  BY <2>1, CountTo
<1>5. f \in Bijection(1..(n - 1), SeenBefore(seq, n))
  BY DEF Bijection, Injection, Surjection, IsInjective, SeenBefore
<1> HIDE DEF f
<1>6. Cardinality(1..(n - 1)) = Cardinality(SeenBefore(seq, n))
  BY <1>4, <1>5, FS_Bijection DEF ExistsBijection
<1> QED  BY <1>2, <1>3, <1>4, <1>6 DEF x

LEMMA MembersJoin ==
  ASSUME NEW T, NEW s \in Seq(T), NEW t \in Seq(T)
  PROVE  Members(s \o t) = Members(s) \cup Members(t)
<1>1. /\ Len(s) \in Nat /\ Len(t) \in Nat /\ DOMAIN s = 1..Len(s) /\ DOMAIN t = 1..Len(t)
      /\ DOMAIN (s \o t) = 1..(Len(s) + Len(t))
  OBVIOUS
<1>2. \A k \in 1..Len(s) : (s \o t)[k] = s[k]
  OBVIOUS
<1>3. \A k \in 1..Len(t) : (s \o t)[Len(s) + k] = t[k]
  OBVIOUS
<1>4. ASSUME NEW k \in 1..(Len(s) + Len(t)), ~ (k \in 1..Len(s))
      PROVE  k - Len(s) \in 1..Len(t) /\ (s \o t)[k] = t[k - Len(s)]
  BY <1>1, <1>4
<1>5. ASSUME NEW k \in 1..Len(t) PROVE Len(s) + k \in 1..(Len(s) + Len(t))
  BY <1>1
<1>6. \A k \in 1..Len(s) : k \in 1..(Len(s) + Len(t))
  BY <1>1
<1> DEFINE u == s \o t
<1> HIDE DEF u
<1>7. DOMAIN u = 1..(Len(s) + Len(t)) /\ (\A k \in 1..Len(s) : u[k] = s[k])
      /\ (\A k \in 1..Len(t) : u[Len(s) + k] = t[k])
      /\ \A k \in 1..(Len(s) + Len(t)) : k \in 1..Len(s) \/
            (k - Len(s) \in 1..Len(t) /\ u[k] = t[k - Len(s)])
  BY <1>1, <1>2, <1>3, <1>4 DEF u
<1>8. Members(u) = Members(s) \cup Members(t)
  BY <1>1, <1>5, <1>6, <1>7 DEF Members
<1> QED  BY <1>8 DEF u

\* What is flattened has the members of its parts.
LEMMA FlattenIs ==
  ASSUME NEW T, NEW seqs \in Seq(Seq(T))
  PROVE  /\ Seqs!FlattenSeq(seqs) \in Seq(T)
         /\ Members(Seqs!FlattenSeq(seqs)) = UNION {Members(seqs[k]) : k \in DOMAIN seqs}
<1> DEFINE L == Len(seqs)
           Grows(g, n) == g = [i \in 1..n |-> IF i = 1 THEN seqs[i] ELSE g[i - 1] \o seqs[i]]
           Bad == {n \in 1..L : ~ \E g : Grows(g, n)}
<1>1. L \in Nat /\ DOMAIN seqs = 1..L /\ \A i \in 1..L : seqs[i] \in Seq(T)
  OBVIOUS
<1>2. Bad = {}
  <2> SUFFICES ASSUME Bad # {} PROVE FALSE
    OBVIOUS
  <2>1. Bad \in SUBSET Nat
    <3> HIDE DEF Grows
    <3> QED  OBVIOUS
  <2>2. PICK m \in Bad : \A n \in Bad : m <= n
    <3> HIDE DEF Bad
    <3>1. Lowest(Bad) \in Bad /\ \A n \in Bad : Lowest(Bad) <= n
      BY <2>1, LowestIs
    <3> QED  BY <3>1
  <2>3. m \in 1..L /\ ~ \E g : Grows(g, m)
    OBVIOUS
  <2>4. m # 1
    <3> SUFFICES ASSUME m = 1 PROVE FALSE
      OBVIOUS
    <3>1. Grows([i \in 1..1 |-> seqs[1]], 1)
      OBVIOUS
    <3> QED  BY <2>3, <3>1
  <2>5. m - 1 \in 1..L /\ ~ (m <= m - 1)
    BY <1>1, <2>3, <2>4
  <2>6. PICK g : Grows(g, m - 1)
    <3>1. m - 1 \notin Bad
      <4> HIDE DEF Bad
      <4> QED  BY <2>2, <2>5
    <3> QED  BY <2>5, <3>1
  <2> DEFINE h == [i \in 1..m |-> IF i = m THEN g[m - 1] \o seqs[m] ELSE g[i]]
  <2>7. ASSUME NEW i \in 1..m PROVE h[i] = IF i = 1 THEN seqs[i] ELSE h[i - 1] \o seqs[i]
    <3>1. CASE i = m
      <4>1. i # 1 /\ i - 1 \in 1..m /\ i - 1 # m
        BY <2>3, <2>4, <2>5, <3>1
      <4>2. h[i] = g[m - 1] \o seqs[m] /\ h[i - 1] = g[i - 1]
        BY <3>1, <4>1
      <4> QED  BY <3>1, <4>1, <4>2
    <3>2. CASE i # m
      <4>1. i \in 1..(m - 1) /\ (i # 1 => i - 1 \in 1..(m - 1))
        BY <2>3, <3>2
      <4>2. g[i] = IF i = 1 THEN seqs[i] ELSE g[i - 1] \o seqs[i]
        BY <2>6, <4>1
      <4>3. h[i] = g[i] /\ (i # 1 => h[i - 1] = g[i - 1])
        BY <2>3, <3>2, <4>1
      <4> QED  BY <4>2, <4>3
    <3> HIDE DEF h
    <3> QED  BY <3>1, <3>2
  <2>8. Grows(h, m)
    <3>1. h = [i \in 1..m |-> h[i]]
      OBVIOUS
    <3> HIDE DEF h
    <3> QED  BY <2>7, <3>1
  <2> QED  BY <2>3, <2>8
<1>3. CASE L = 0
  <2>1. Seqs!FlattenSeq(seqs) = seqs /\ seqs = <<>>
    BY <1>1, <1>3 DEF Seqs!FlattenSeq
  <2> QED  BY <2>1 DEF Members
<1>4. CASE L # 0
  <2> DEFINE flatten == CHOOSE g : Grows(g, L)
  <2>1. Grows(flatten, L)
    <3>1. L \in 1..L
      BY <1>1, <1>4
    <3> QED  BY <1>2, <3>1
  <2>2. Seqs!FlattenSeq(seqs) = flatten[L]
    BY <1>4 DEF Seqs!FlattenSeq
  <2> HIDE DEF flatten
  <2> DEFINE Has(n) == UNION {Members(seqs[k]) : k \in 1..n}
             Wrong == {n \in 1..L : ~ (flatten[n] \in Seq(T) /\ Members(flatten[n]) = Has(n))}
  <2>3. Wrong = {}
    <3> SUFFICES ASSUME Wrong # {} PROVE FALSE
      OBVIOUS
    <3>1. Wrong \in SUBSET Nat
      OBVIOUS
    <3>2. PICK m \in Wrong : \A n \in Wrong : m <= n
      <4> HIDE DEF Wrong
      <4>1. Lowest(Wrong) \in Wrong /\ \A n \in Wrong : Lowest(Wrong) <= n
        BY <3>1, LowestIs
      <4> QED  BY <4>1
    <3>3. m \in 1..L /\ ~ (flatten[m] \in Seq(T) /\ Members(flatten[m]) = Has(m))
      OBVIOUS
    <3>4. flatten[m] = IF m = 1 THEN seqs[m] ELSE flatten[m - 1] \o seqs[m]
      BY <2>1, <3>3
    <3>5. CASE m = 1
      <4>1. flatten[m] \in Seq(T) /\ Has(m) = Members(seqs[1])
        BY <1>1, <3>3, <3>4, <3>5
      <4> QED  BY <3>3, <3>4, <3>5, <4>1
    <3>6. CASE m # 1
      <4>1. m - 1 \in 1..L /\ ~ (m <= m - 1)
        BY <1>1, <3>3, <3>6
      <4>2. flatten[m - 1] \in Seq(T) /\ Members(flatten[m - 1]) = Has(m - 1)
        <5>1. m - 1 \notin Wrong
          <6> HIDE DEF Wrong
          <6> QED  BY <3>2, <4>1
        <5> QED  BY <4>1, <5>1
      <4>3. flatten[m] = flatten[m - 1] \o seqs[m] /\ seqs[m] \in Seq(T)
        BY <1>1, <3>3, <3>4, <3>6
      <4>4. Members(flatten[m]) = Members(flatten[m - 1]) \cup Members(seqs[m])
        BY <4>2, <4>3, MembersJoin
      <4>5. Has(m) = Has(m - 1) \cup Members(seqs[m])
        <5>1. 1..m = (1..(m - 1)) \cup {m}
          BY <1>1, <3>3, <3>6
        <5> QED  BY <5>1
      <4>6. flatten[m] \in Seq(T)
        <5> DEFINE a == flatten[m - 1]  c == seqs[m]
        <5> HIDE DEF a, c
        <5>1. a \in Seq(T) /\ c \in Seq(T) => a \o c \in Seq(T)
          OBVIOUS
        <5> QED  BY <4>2, <4>3, <5>1 DEF a, c
      <4> HIDE DEF Has
      <4> QED  BY <3>3, <4>2, <4>4, <4>5, <4>6
    <3> QED  BY <3>5, <3>6
  <2>4. L \in 1..L /\ L \notin Wrong
    <3> HIDE DEF Wrong, L
    <3> QED  BY <1>1, <1>4, <2>3
  <2>5. flatten[L] \in Seq(T) /\ Members(flatten[L]) = Has(L)
    BY <2>4
  <2> QED  BY <1>1, <2>2, <2>5
<1> QED  BY <1>3, <1>4

-----------------------------------------------------------------------------
(* The thesauri a segment is built with.                                   *)

\* Nil is neither a map nor a thesaurus.
NothingApart ==
  /\ \A S, x : Nothing # [k \in S |-> x[k]]
  /\ \A x, y : Nothing # [fst |-> x, synTermMap |-> y]

SynBatch(i) == Seq([doc : Docs(i), field : Nat, term : Keys, syns : Seq(Nat)])

\* What a batch says is written for a field, with nothing left from another.
SynonymList(b, f, t) ==
  UNION {{<<Rank(SynonymsIn(b), <<b[e].field, s>>), b[e].doc>> : s \in Members(b[e].syns)} :
           e \in {x \in DOMAIN b : TermsIn(b)[x] = <<f, t>>}}
TermsOf(b, f) ==
  {u \in {p[2] : p \in {q \in Members(TermsIn(b)) : q[1] = f}} : SynonymList(b, f, u) # {}}
ThesaurusOf(b, f) ==
  [fst |-> [t \in TermsOf(b, f) |-> SynonymList(b, f, t)], synTermMap |-> SynonymIDtoTerm(b, f)]

\* The lists of an opaque that is not at work are empty.
NoneLeft(o) == IsOpaque(o) /\ o.Synonyms \in Seq({{}})

LEMMA ThesaurusBatchIs ==
  ASSUME NEW i \in Itrs, NEW b \in SynBatch(i)
  PROVE  /\ Len(b) \in Nat /\ DOMAIN b = 1..Len(b)
         /\ \A e \in DOMAIN b : /\ b[e].doc \in Docs(i) /\ b[e].field \in Nat
                                /\ b[e].term \in Keys /\ b[e].syns \in Seq(Nat)
         /\ TermsIn(b) \in Seq(Nat \X Keys) /\ DOMAIN TermsIn(b) = DOMAIN b
         /\ \A e \in DOMAIN b : TermsIn(b)[e] = <<b[e].field, b[e].term>>
                                /\ TermsIn(b)[e] \in Members(TermsIn(b))
         /\ FieldsIn(b) \in Seq(Nat) /\ Members(FieldsIn(b)) = BatchFields(b)
         /\ BatchFields(b) = {b[e].field : e \in DOMAIN b}
         /\ BatchFields(b) \in SUBSET Nat /\ IsFiniteSet(BatchFields(b))
<1> DEFINE R == [doc : Docs(i), field : Nat, term : Keys, syns : Seq(Nat)]
<1>1. Len(b) \in Nat /\ DOMAIN b = 1..Len(b) /\ \A e \in DOMAIN b : b[e] \in R
  <2>1. b \in Seq(R)
    BY DEF SynBatch
  <2> HIDE DEF R
  <2> QED  BY <2>1
<1>2. \A e \in DOMAIN b : /\ b[e].doc \in Docs(i) /\ b[e].field \in Nat
                          /\ b[e].term \in Keys /\ b[e].syns \in Seq(Nat)
  BY <1>1
<1> HIDE DEF R
<1>3. TermsIn(b) \in Seq(Nat \X Keys) /\ DOMAIN TermsIn(b) = DOMAIN b
      /\ \A e \in DOMAIN b : TermsIn(b)[e] = <<b[e].field, b[e].term>>
  <2> DEFINE s == [e \in 1..Len(b) |-> <<b[e].field, b[e].term>>]
  <2>1. \A e \in 1..Len(b) : <<b[e].field, b[e].term>> \in Nat \X Keys
    BY <1>1, <1>2
  <2>2. s \in Seq(Nat \X Keys)
    BY <1>1, <2>1
  <2> QED  BY <1>1, <2>2 DEF TermsIn
<1>4. FieldsIn(b) \in Seq(Nat)
  <2> DEFINE s == [e \in 1..Len(b) |-> b[e].field]
  <2>1. \A e \in 1..Len(b) : b[e].field \in Nat
    BY <1>1, <1>2
  <2>2. s \in Seq(Nat)
    BY <1>1, <2>1
  <2> QED  BY <1>1, <2>2 DEF FieldsIn
<1>5. Members(FieldsIn(b)) = BatchFields(b) /\ BatchFields(b) = {b[e].field : e \in DOMAIN b}
  BY DEF BatchFields, Members, FieldsIn
<1>6. BatchFields(b) \in SUBSET Nat
  BY <1>2, <1>5
<1>7. IsFiniteSet(BatchFields(b))
  <2> DEFINE g == [e \in 1..Len(b) |-> b[e].field]
  <2>1. g \in Surjection(1..Len(b), BatchFields(b))
    BY <1>1, <1>5 DEF Surjection
  <2> HIDE DEF g
  <2> QED  BY <1>1, <2>1, CountTo, FS_Surjection
<1>8. \A e \in DOMAIN b : TermsIn(b)[e] \in Members(TermsIn(b))
  BY <1>3 DEF Members
<1> QED  BY <1>1, <1>2, <1>3, <1>4, <1>5, <1>6, <1>7, <1>8

LEMMA ReallocGives ==
  ASSUME NEW i \in Itrs, NEW b \in SynBatch(i), NEW o, NoneLeft(o)
  PROVE  LET n == Cardinality(Members(TermsIn(b)))
             r == realloc(o, b)
         IN /\ NoneLeft(r) /\ r.len = n
            /\ n \in Nat => Len(r.Synonyms) \in Nat /\ n <= Len(r.Synonyms)
            /\ r.FieldIDtoThesaurusID = FieldToThesaurus(b)
            /\ r.thesaurusAddrs = o.thesaurusAddrs
<1> DEFINE n == Cardinality(Members(TermsIn(b)))
           x == FieldToThesaurus(b)
           m == IF Len(o.Synonyms) > n THEN Len(o.Synonyms) ELSE n
           y == [k \in 1..m |-> IF k <= Len(o.Synonyms) THEN o.Synonyms[k] ELSE {}]
           r == realloc(o, b)
<1>1. r = [o EXCEPT !.FieldIDtoThesaurusID = x, !.Synonyms = y, !.len = n]
  BY DEF realloc, FieldToThesaurus, NoneLeft, IsOpaque
<1>2. n \in Nat
  <2>1. CASE Members(TermsIn(b)) = {}
    BY <2>1, FS_EmptySet
  <2>2. ASSUME NEW p \in Members(TermsIn(b)) PROVE n \in Nat
    <3>1. TermsIn(b) \in Seq(Nat \X Keys)
      BY ThesaurusBatchIs
    <3> QED  BY <3>1, RankIs
  <2> QED  BY <2>1, <2>2
<1>3. Len(o.Synonyms) \in Nat /\ \A k \in 1..Len(o.Synonyms) : o.Synonyms[k] = {}
  BY DEF NoneLeft
<1> HIDE DEF n, x, r
<1>4. m \in Nat /\ n <= m
  BY <1>2, <1>3
<1>5. y \in Seq({{}}) /\ Len(y) = m
  <2>1. \A k \in 1..m : y[k] = {}
    BY <1>3, <1>4
  <2> HIDE DEF m
  <2>2. y = [k \in 1..m |-> y[k]]
    OBVIOUS
  <2> HIDE DEF y
  <2> QED  BY <1>4, <2>1, <2>2
<1> HIDE DEF y, m
<1>6. r = [FieldIDtoThesaurusID |-> x, Synonyms |-> y,
           len |-> n, thesaurusAddrs |-> o.thesaurusAddrs]
  BY <1>1 DEF NoneLeft, IsOpaque
<1>7. /\ IsOpaque(r) /\ r.Synonyms = y /\ r.len = n /\ r.FieldIDtoThesaurusID = x
      /\ r.thesaurusAddrs = o.thesaurusAddrs
  BY <1>6 DEF IsOpaque
<1>8. NoneLeft(r)
  BY <1>5, <1>7 DEF NoneLeft
<1> QED  BY <1>4, <1>5, <1>7, <1>8 DEF n, x, r

LEMMA ProcessGives ==
  ASSUME NEW i \in Itrs, NEW b \in SynBatch(i), NEW o, NoneLeft(o),
         o.len = Cardinality(Members(TermsIn(b))),
         o.len \in Nat => Len(o.Synonyms) \in Nat /\ o.len <= Len(o.Synonyms)
  PROVE  LET r == process(o, b)
         IN /\ IsOpaque(r) /\ r.len = o.len /\ r.thesaurusAddrs = o.thesaurusAddrs
            /\ r.FieldIDtoThesaurusID = o.FieldIDtoThesaurusID
            /\ DOMAIN r.Synonyms = 1..Len(o.Synonyms) /\ Len(o.Synonyms) \in Nat
            /\ \A k \in 1..Len(o.Synonyms) : k > o.len => r.Synonyms[k] = {}
            /\ \A f, t : <<f, t>> \in Members(TermsIn(b)) =>
                 r.Synonyms[Rank(TermsIn(b), <<f, t>>) + 1] = SynonymList(b, f, t)
<1> DEFINE Codes1(e) ==
             {<<Rank(SynonymsIn(b), <<b[e].field, s>>), b[e].doc>> : s \in Members(b[e].syns)}
           At(k) == {x \in DOMAIN b : Rank(TermsIn(b), TermsIn(b)[x]) + 1 = k}
           y == [k \in DOMAIN o.Synonyms |-> o.Synonyms[k] \cup UNION {Codes1(e) : e \in At(k)}]
           r == process(o, b)
<1>1. r = [o EXCEPT !.Synonyms = y]
  BY DEF process, NoneLeft, IsOpaque
<1>2. Len(o.Synonyms) \in Nat /\ DOMAIN o.Synonyms = 1..Len(o.Synonyms)
      /\ \A k \in 1..Len(o.Synonyms) : o.Synonyms[k] = {}
  BY DEF NoneLeft
<1>3. ASSUME NEW k \in 1..Len(o.Synonyms) PROVE y[k] = UNION {Codes1(e) : e \in At(k)}
  <2> DEFINE C(e) == Codes1(e)  A == At(k)
  <2>1. y[k] = o.Synonyms[k] \cup UNION {C(e) : e \in A}
    BY <1>2
  <2> HIDE DEF C, A, y
  <2>2. y[k] = UNION {C(e) : e \in A}
    BY <1>2, <2>1
  <2> QED  BY <2>2 DEF C, A
<1>4. DOMAIN y = 1..Len(o.Synonyms)
  BY <1>2
<1> HIDE DEF y, r
<1>5. r = [FieldIDtoThesaurusID |-> o.FieldIDtoThesaurusID, Synonyms |-> y,
           len |-> o.len, thesaurusAddrs |-> o.thesaurusAddrs]
  BY <1>1 DEF NoneLeft, IsOpaque
<1>6. /\ IsOpaque(r) /\ r.Synonyms = y /\ r.len = o.len
      /\ r.FieldIDtoThesaurusID = o.FieldIDtoThesaurusID
      /\ r.thesaurusAddrs = o.thesaurusAddrs
  BY <1>5 DEF IsOpaque
<1>7. /\ TermsIn(b) \in Seq(Nat \X Keys) /\ DOMAIN TermsIn(b) = DOMAIN b
      /\ \A e \in DOMAIN b : TermsIn(b)[e] \in Members(TermsIn(b))
  BY ThesaurusBatchIs
<1>8. ASSUME NEW p \in Members(TermsIn(b))
      PROVE  /\ Rank(TermsIn(b), p) \in Nat /\ Rank(TermsIn(b), p) < o.len /\ o.len \in Nat
             /\ \A q \in Members(TermsIn(b)) : Rank(TermsIn(b), q) = Rank(TermsIn(b), p) => q = p
  BY <1>7, RankIs
<1>9. ASSUME NEW k \in 1..Len(o.Synonyms), k > o.len PROVE y[k] = {}
  <2>1. ASSUME NEW e \in At(k) PROVE FALSE
    <3>1. e \in DOMAIN b /\ Rank(TermsIn(b), TermsIn(b)[e]) + 1 = k
      OBVIOUS
    <3>2. Rank(TermsIn(b), TermsIn(b)[e]) \in Nat /\ Rank(TermsIn(b), TermsIn(b)[e]) < o.len
          /\ o.len \in Nat
      BY <1>7, <1>8, <3>1
    <3> QED  BY <1>9, <3>1, <3>2
  <2> DEFINE C(e) == Codes1(e)  A == At(k)
  <2>2. A = {} /\ y[k] = UNION {C(e) : e \in A}
    BY <1>3, <2>1
  <2> HIDE DEF C, A
  <2> QED  BY <2>2
<1>10. ASSUME NEW f, NEW t, <<f, t>> \in Members(TermsIn(b))
       PROVE  y[Rank(TermsIn(b), <<f, t>>) + 1] = SynonymList(b, f, t)
  <2> DEFINE k == Rank(TermsIn(b), <<f, t>>) + 1
             C(e) == Codes1(e)
             A == At(k)
             B == {x \in DOMAIN b : TermsIn(b)[x] = <<f, t>>}
  <2>1. /\ Rank(TermsIn(b), <<f, t>>) \in Nat /\ Rank(TermsIn(b), <<f, t>>) < o.len
        /\ o.len \in Nat /\ o.len <= Len(o.Synonyms)
    BY <1>8, <1>10
  <2>2. k \in 1..Len(o.Synonyms)
    BY <1>2, <2>1
  <2>3. ASSUME NEW e \in DOMAIN b
        PROVE  Rank(TermsIn(b), TermsIn(b)[e]) + 1 = k <=> TermsIn(b)[e] = <<f, t>>
    <3>1. Rank(TermsIn(b), TermsIn(b)[e]) \in Nat
      BY <1>7, <1>8
    <3>2. Rank(TermsIn(b), TermsIn(b)[e]) + 1 = k
            <=> Rank(TermsIn(b), TermsIn(b)[e]) = Rank(TermsIn(b), <<f, t>>)
      BY <2>1, <3>1
    <3> HIDE DEF k
    <3> QED  BY <1>7, <1>8, <1>10, <3>2
  <2>4. A = B
    BY <2>3
  <2>5. y[k] = UNION {C(e) : e \in A}
    BY <1>3, <2>2
  <2>6. SynonymList(b, f, t) = UNION {C(e) : e \in B}
    BY DEF SynonymList
  <2> HIDE DEF k, A, B, C
  <2>7. y[k] = SynonymList(b, f, t)
    BY <2>4, <2>5, <2>6
  <2> QED  BY <2>7 DEF k
<1> QED  BY <1>2, <1>4, <1>6, <1>9, <1>10 DEF r

LEMMA IDsTell ==
  ASSUME NEW F \in SUBSET Nat, IsFiniteSet(F), NEW f \in F, NEW g \in F,
         FieldID(F, f) = FieldID(F, g)
  PROVE  f = g
<1>1. Cardinality(Below(F, f)) = Cardinality(Below(F, g))
  BY DEF FieldID, Below
<1>2. Cardinality(Below(F, f)) \in Nat /\ f \in Nat /\ g \in Nat
  BY BelowFinite
<1>3. ~ (f < g) /\ ~ (g < f)
  BY <1>1, <1>2, BelowGrows
<1> QED  BY <1>2, <1>3

LEMMA WriteGives ==
  ASSUME NothingApart, NEW i \in Itrs, NEW b \in SynBatch(i), NEW o, IsOpaque(o),
         o.FieldIDtoThesaurusID = FieldToThesaurus(b),
         \A f, t : <<f, t>> \in Members(TermsIn(b)) =>
           o.Synonyms[Rank(TermsIn(b), <<f, t>>) + 1] = SynonymList(b, f, t)
  PROVE  LET r == writeThesauri(o, b)
         IN /\ IsOpaque(r) /\ r.Synonyms = o.Synonyms /\ r.len = o.len
            /\ \A f \in BatchFields(b) :
                 AddrForField(r, FieldID(BatchFields(b), f)) = ThesaurusOf(b, f)
<1> DEFINE list(f, t) == o.Synonyms[Rank(TermsIn(b), <<f, t>>) + 1]
           all(f) == {p[2] : p \in {q \in Members(TermsIn(b)) : q[1] = f}}
           terms(f) == {u \in all(f) : list(f, u) # {}}
           thesaurus(f) == [fst |-> [t \in terms(f) |-> list(f, t)],
                            synTermMap |-> SynonymIDtoTerm(b, f)]
           F == BatchFields(b)
           rank(f) == Rank(FieldsIn(b), f)
           ids == {rank(f) : f \in F}
           y == [id \in ids \cup DOMAIN o.thesaurusAddrs |->
                   IF id \in ids THEN thesaurus(CHOOSE f \in F : rank(f) = id)
                   ELSE o.thesaurusAddrs[id]]
           r == writeThesauri(o, b)
<1>1. r = [o EXCEPT !.thesaurusAddrs = y]
  BY DEF writeThesauri, IsOpaque
<1>2. ASSUME NEW f PROVE thesaurus(f) = ThesaurusOf(b, f)
  <2>1. ASSUME NEW t \in all(f) PROVE list(f, t) = SynonymList(b, f, t)
    <3>1. PICK q \in Members(TermsIn(b)) : q[1] = f /\ t = q[2]
      OBVIOUS
    <3>2. q \in Nat \X Keys
      <4>1. TermsIn(b) \in Seq(Nat \X Keys) /\ q \in Members(TermsIn(b))
        BY ThesaurusBatchIs
      <4> QED  BY <4>1 DEF Members
    <3>3. q = <<f, t>>
      BY <3>1, <3>2
    <3> QED  BY <3>1, <3>3
  <2>2. TermsOf(b, f) = {u \in all(f) : SynonymList(b, f, u) # {}}
    BY DEF TermsOf
  <2> HIDE DEF all, list
  <2>3. terms(f) = TermsOf(b, f)
    BY <2>1, <2>2
  <2>4. \A t \in terms(f) : list(f, t) = SynonymList(b, f, t)
    BY <2>1
  <2> DEFINE T == terms(f)
  <2>5. [t \in T |-> list(f, t)] = [t \in TermsOf(b, f) |-> SynonymList(b, f, t)]
    <3> HIDE DEF T
    <3> QED  BY <2>3, <2>4 DEF T
  <2>6. thesaurus(f) = [fst |-> [t \in T |-> list(f, t)], synTermMap |-> SynonymIDtoTerm(b, f)]
    OBVIOUS
  <2> HIDE DEF T, thesaurus
  <2> QED  BY <2>5, <2>6 DEF ThesaurusOf
<1>3. F \in SUBSET Nat /\ IsFiniteSet(F) /\ FieldsIn(b) \in Seq(Nat) /\ Members(FieldsIn(b)) = F
  BY ThesaurusBatchIs
<1>4. ASSUME NEW f \in F, NEW g \in F, rank(g) = rank(f) PROVE g = f
  <2>1. f \in Members(FieldsIn(b)) /\ g \in Members(FieldsIn(b))
    BY <1>3
  <2> QED  BY <1>3, <1>4, <2>1, RankIs
<1>5. ASSUME NEW f \in F PROVE y[rank(f)] = ThesaurusOf(b, f)
  <2> HIDE DEF thesaurus, rank, F
  <2>1. rank(f) \in ids
    OBVIOUS
  <2>2. (CHOOSE g \in F : rank(g) = rank(f)) = f
    BY <1>4
  <2>3. y[rank(f)] = thesaurus(f)
    <3> HIDE DEF ids
    <3> QED  BY <2>1, <2>2
  <2> QED  BY <1>2, <2>3
<1>6. ASSUME NEW f \in F
      PROVE  /\ FieldID(F, f) \in DOMAIN FieldToThesaurus(b)
             /\ FieldToThesaurus(b)[FieldID(F, f)] = rank(f)
  <2> DEFINE id(g) == FieldID(BatchFields(b), g)
             S == {id(g) : g \in BatchFields(b)}
  <2>1. FieldToThesaurus(b) = [x \in S |->
            Rank(FieldsIn(b), CHOOSE g \in BatchFields(b) : id(g) = x)]
    BY DEF FieldToThesaurus
  <2>2. \A g \in BatchFields(b) : id(g) = id(f) => g = f
    BY <1>3, <1>6, IDsTell
  <2> HIDE DEF id
  <2>3. id(f) \in S
    OBVIOUS
  <2>4. (CHOOSE g \in BatchFields(b) : id(g) = id(f)) = f
    BY <1>6, <2>2
  <2> HIDE DEF S
  <2>5. id(f) \in DOMAIN FieldToThesaurus(b) /\ FieldToThesaurus(b)[id(f)] = Rank(FieldsIn(b), f)
    BY <2>1, <2>3, <2>4
  <2> QED  BY <2>5 DEF id
<1>7. FieldToThesaurus(b) # Nothing
  BY DEF FieldToThesaurus, NothingApart
<1> HIDE DEF y, r
<1>8. r = [FieldIDtoThesaurusID |-> o.FieldIDtoThesaurusID, Synonyms |-> o.Synonyms,
           len |-> o.len, thesaurusAddrs |-> y]
  BY <1>1 DEF IsOpaque
<1>9. /\ IsOpaque(r) /\ r.Synonyms = o.Synonyms /\ r.len = o.len
      /\ r.FieldIDtoThesaurusID = FieldToThesaurus(b) /\ r.thesaurusAddrs = y
  BY <1>8 DEF IsOpaque
<1>10. ASSUME NEW f \in BatchFields(b)
       PROVE  AddrForField(r, FieldID(BatchFields(b), f)) = ThesaurusOf(b, f)
  <2> HIDE DEF rank
  <2> QED  BY <1>5, <1>6, <1>7, <1>9 DEF AddrForField
<1> QED  BY <1>9, <1>10 DEF r

LEMMA ResetGives ==
  ASSUME NEW o, IsOpaque(o), NEW n \in Nat, DOMAIN o.Synonyms = 1..n,
         \A k \in 1..n : ~ (k <= o.len) => o.Synonyms[k] = {}
  PROVE  NoneLeft(ResetOpaque(o))
<1> DEFINE y == [k \in DOMAIN o.Synonyms |-> IF k <= o.len THEN {} ELSE o.Synonyms[k]]
           r == ResetOpaque(o)
<1>1. r = [o EXCEPT !.FieldIDtoThesaurusID = Nothing, !.Synonyms = y, !.len = 0]
  BY DEF ResetOpaque, IsOpaque
<1>2. y \in Seq({{}})
  <2>1. y = [k \in 1..n |-> y[k]] /\ \A k \in 1..n : y[k] = {}
    OBVIOUS
  <2> HIDE DEF y
  <2> QED  BY <2>1
<1> HIDE DEF y, r
<1>3. r = [FieldIDtoThesaurusID |-> Nothing, Synonyms |-> y,
           len |-> 0, thesaurusAddrs |-> o.thesaurusAddrs]
  BY <1>1 DEF IsOpaque
<1>4. IsOpaque(r) /\ r.Synonyms = y
  BY <1>3 DEF IsOpaque
<1> QED  BY <1>2, <1>4 DEF NoneLeft, r

\* The opaque that builds a segment, whatever it was used for before.
BuiltOpaque(o, b) == IF b = <<>> THEN o ELSE writeThesauri(process(realloc(o, b), b), b)

LEMMA BuiltIs ==
  ASSUME NothingApart, NEW i \in Itrs, NEW b \in SynBatch(i), NEW o, NoneLeft(o)
  PROVE  /\ NoneLeft(ResetOpaque(BuiltOpaque(o, b)))
         /\ \A f \in BatchFields(b) :
              AddrForField(BuiltOpaque(o, b), FieldID(BatchFields(b), f)) = ThesaurusOf(b, f)
<1>1. CASE b = <<>>
  <2>1. BatchFields(b) = {}
    BY <1>1 DEF BatchFields, Members, FieldsIn
  <2>2. /\ IsOpaque(o) /\ Len(o.Synonyms) \in Nat /\ DOMAIN o.Synonyms = 1..Len(o.Synonyms)
        /\ \A k \in 1..Len(o.Synonyms) : o.Synonyms[k] = {}
    BY DEF NoneLeft
  <2>3. NoneLeft(ResetOpaque(o))
    BY <2>2, ResetGives
  <2> QED  BY <1>1, <2>1, <2>3 DEF BuiltOpaque
<1>2. CASE b # <<>>
  <2> DEFINE n == Cardinality(Members(TermsIn(b)))
             o1 == realloc(o, b)
             o2 == process(o1, b)
             o3 == writeThesauri(o2, b)
  <2>1. /\ NoneLeft(o1) /\ o1.len = n
        /\ n \in Nat => Len(o1.Synonyms) \in Nat /\ n <= Len(o1.Synonyms)
        /\ o1.FieldIDtoThesaurusID = FieldToThesaurus(b)
    BY ReallocGives
  <2> HIDE DEF o1
  <2>2. /\ IsOpaque(o2) /\ o2.len = o1.len
        /\ o2.FieldIDtoThesaurusID = o1.FieldIDtoThesaurusID
        /\ DOMAIN o2.Synonyms = 1..Len(o1.Synonyms) /\ Len(o1.Synonyms) \in Nat
        /\ \A k \in 1..Len(o1.Synonyms) : k > o1.len => o2.Synonyms[k] = {}
        /\ \A f, t : <<f, t>> \in Members(TermsIn(b)) =>
             o2.Synonyms[Rank(TermsIn(b), <<f, t>>) + 1] = SynonymList(b, f, t)
    BY <2>1, ProcessGives
  <2> HIDE DEF o2
  <2>3. /\ IsOpaque(o3) /\ o3.Synonyms = o2.Synonyms /\ o3.len = o2.len
        /\ \A f \in BatchFields(b) :
             AddrForField(o3, FieldID(BatchFields(b), f)) = ThesaurusOf(b, f)
    BY <2>1, <2>2, WriteGives
  <2>4. BuiltOpaque(o, b) = o3
    BY <1>2 DEF BuiltOpaque, o1, o2
  <2> HIDE DEF o3
  <2>5. n \in Nat
    <3>1. CASE Members(TermsIn(b)) = {}
      BY <3>1, FS_EmptySet
    <3>2. ASSUME NEW p \in Members(TermsIn(b)) PROVE n \in Nat
      <4>1. TermsIn(b) \in Seq(Nat \X Keys)
        BY ThesaurusBatchIs
      <4> QED  BY <4>1, RankIs
    <3> QED  BY <3>1, <3>2
  <2> HIDE DEF n
  <2>6. NoneLeft(ResetOpaque(o3))
    <3>1. \A k \in 1..Len(o1.Synonyms) : ~ (k <= o3.len) => o3.Synonyms[k] = {}
      BY <2>1, <2>2, <2>3, <2>5
    <3> QED  BY <2>2, <2>3, <3>1, ResetGives
  <2> QED  BY <2>3, <2>4, <2>6
<1> QED  BY <1>1, <1>2

-----------------------------------------------------------------------------
(* What a thesaurus that was built says.                                   *)

\* No term and no synonym is the empty string.
Worded(b) == \A e \in DOMAIN b : b[e].term # 0 /\ b[e].syns \in Seq(Nat \ {0})

SaidIn(b, f, t) ==
  UNION {Members(b[k].syns) \X {b[k].doc} :
    k \in {n \in DOMAIN b : b[n].field = f /\ b[n].term = t}}

Meant(codes, x) == {<<x.synTermMap[c[1]], c[2]>> : c \in codes}

\* Thesaurus x of a segment loads, and says what the batch does.
Truthful(x, i, b, f) ==
  /\ Loads(x) /\ x # Nothing
  /\ \A t \in DOMAIN x.fst : /\ t \in Keys /\ t # 0
                             /\ \A c \in x.fst[t] : /\ c \in Nat \X Docs(i)
                                                    /\ c[1] \in DOMAIN x.synTermMap
  /\ \A id \in DOMAIN x.synTermMap : x.synTermMap[id] \in Nat \ {0}
  /\ \A t : IF t \in DOMAIN x.fst THEN Meant(x.fst[t], x) = SaidIn(b, f, t)
            ELSE SaidIn(b, f, t) = {}

LEMMA SynonymsAre ==
  ASSUME NEW i \in Itrs, NEW b \in SynBatch(i), Worded(b)
  PROVE  /\ SynonymsIn(b) \in Seq(Nat \X (Nat \ {0}))
         /\ \A e \in DOMAIN b : \A s \in Members(b[e].syns) :
              <<b[e].field, s>> \in Members(SynonymsIn(b))
<1> DEFINE T == Nat \X (Nat \ {0})
           part(k) == [n \in DOMAIN b[k].syns |-> <<b[k].field, b[k].syns[n]>>]
           parts == [k \in DOMAIN b |-> part(k)]
<1>1. /\ Len(b) \in Nat /\ DOMAIN b = 1..Len(b)
      /\ \A e \in DOMAIN b : b[e].field \in Nat /\ b[e].syns \in Seq(Nat \ {0})
  BY ThesaurusBatchIs DEF Worded
<1>2. ASSUME NEW k \in DOMAIN b
      PROVE  part(k) \in Seq(T) /\ \A s \in Members(b[k].syns) : <<b[k].field, s>> \in Members(part(k))
  <2> DEFINE q == b[k].syns  g == b[k].field  u == [n \in 1..Len(q) |-> <<g, q[n]>>]
  <2>1. q \in Seq(Nat \ {0}) /\ g \in Nat
    BY <1>1
  <2>2. part(k) = [n \in DOMAIN q |-> <<g, q[n]>>]
    OBVIOUS
  <2> HIDE DEF q, g, part
  <2>3. Len(q) \in Nat /\ DOMAIN q = 1..Len(q) /\ \A n \in 1..Len(q) : q[n] \in Nat \ {0}
    BY <2>1
  <2>4. \A n \in 1..Len(q) : <<g, q[n]>> \in T
    BY <2>1, <2>3
  <2> HIDE DEF T
  <2>5. u \in Seq(T)
    BY <2>3, <2>4
  <2>6. \A s \in Members(q) : <<g, s>> \in Members(u)
    BY <2>3 DEF Members
  <2>7. part(k) = u
    BY <2>2, <2>3
  <2> HIDE DEF u
  <2> QED  BY <2>5, <2>6, <2>7 DEF q, g
<1> HIDE DEF part, T
<1>3. parts \in Seq(Seq(T)) /\ DOMAIN parts = DOMAIN b /\ \A k \in DOMAIN b : parts[k] = part(k)
  <2> DEFINE w == [k \in 1..Len(b) |-> part(k)]
  <2>1. w \in Seq(Seq(T))
    BY <1>1, <1>2
  <2> QED  BY <1>1, <2>1
<1>4. SynonymsIn(b) = Seqs!FlattenSeq(parts)
  BY DEF SynonymsIn, part
<1> HIDE DEF parts
<1>5. SynonymsIn(b) \in Seq(T)
      /\ Members(SynonymsIn(b)) = UNION {Members(parts[k]) : k \in DOMAIN parts}
  BY <1>3, <1>4, FlattenIs
<1>6. \A e \in DOMAIN b : \A s \in Members(b[e].syns) : <<b[e].field, s>> \in Members(SynonymsIn(b))
  BY <1>2, <1>3, <1>5
<1> QED  BY <1>5, <1>6 DEF T

\* The ID of a synonym of the field leads back to it.
LEMMA IDsAre ==
  ASSUME NEW i \in Itrs, NEW b \in SynBatch(i), Worded(b), NEW f
  PROVE  LET m == SynonymIDtoTerm(b, f)
         IN /\ IsFiniteSet(DOMAIN m) /\ DOMAIN m \in SUBSET Nat
            /\ \A id \in DOMAIN m : m[id] \in Nat \ {0}
            /\ \A s : <<f, s>> \in Members(SynonymsIn(b)) =>
                 /\ Rank(SynonymsIn(b), <<f, s>>) \in DOMAIN m
                 /\ m[Rank(SynonymsIn(b), <<f, s>>)] = s
<1> DEFINE M == Members(SynonymsIn(b))
           rank(p) == Rank(SynonymsIn(b), p)
           ids == {rank(p) : p \in {q \in M : q[1] = f}}
           m == SynonymIDtoTerm(b, f)
           N == Cardinality(M)
<1>1. SynonymsIn(b) \in Seq(Nat \X (Nat \ {0}))
  BY SynonymsAre
<1>2. ASSUME NEW p \in M
      PROVE  /\ rank(p) \in Nat /\ rank(p) < N /\ N \in Nat
             /\ \A q \in M : rank(q) = rank(p) => q = p
             /\ p \in Nat \X (Nat \ {0})
  <2>1. p \in Nat \X (Nat \ {0})
    BY <1>1 DEF Members
  <2> QED  BY <1>1, <2>1, RankIs
<1>3. m = [id \in ids |-> (CHOOSE p \in M : rank(p) = id)[2]]
  BY DEF SynonymIDtoTerm
<1> HIDE DEF M, rank, m, N
<1>4. ASSUME NEW p \in M, p[1] = f PROVE rank(p) \in DOMAIN m /\ m[rank(p)] = p[2]
  <2>1. rank(p) \in ids
    BY <1>4
  <2>2. (CHOOSE q \in M : rank(q) = rank(p)) = p
    BY <1>2
  <2> HIDE DEF ids
  <2> QED  BY <1>3, <2>1, <2>2
<1>5. ASSUME NEW id \in DOMAIN m PROVE m[id] \in Nat \ {0} /\ id \in 0..(N - 1) /\ id \in Nat
  <2>1. PICK p \in M : p[1] = f /\ id = rank(p)
    BY <1>3
  <2>2. m[id] = p[2]
    BY <1>4, <2>1
  <2>3. p[2] \in Nat \ {0} /\ rank(p) \in 0..(N - 1) /\ rank(p) \in Nat
    BY <1>2
  <2> QED  BY <2>1, <2>2, <2>3
<1>6. IsFiniteSet(DOMAIN m)
  <2>1. CASE DOMAIN m = {}
    BY <2>1, FS_EmptySet
  <2>2. CASE DOMAIN m # {}
    <3>1. PICK p \in M : TRUE
      BY <1>3, <2>2
    <3>2. N - 1 \in Int
      BY <1>2
    <3>3. IsFiniteSet(0..(N - 1))
      BY <3>2, FS_Interval
    <3>4. DOMAIN m \in SUBSET (0..(N - 1))
      BY <1>5
    <3> QED  BY <3>3, <3>4, FS_Subset
  <2> QED  BY <2>1, <2>2
<1>7. ASSUME NEW s, <<f, s>> \in M
      PROVE  rank(<<f, s>>) \in DOMAIN m /\ m[rank(<<f, s>>)] = s
  <2> DEFINE p == <<f, s>>
  <2>1. p \in M /\ p[1] = f /\ p[2] = s
    BY <1>7
  <2> HIDE DEF p
  <2>2. rank(p) \in DOMAIN m /\ m[rank(p)] = s
    BY <1>4, <2>1
  <2> QED  BY <2>2 DEF p
<1> QED  BY <1>5, <1>6, <1>7 DEF m, M, rank

\* A code of a list stands for what some document says.
LEMMA CodeOf ==
  ASSUME NEW i \in Itrs, NEW b \in SynBatch(i), NEW f, NEW t
  PROVE  /\ SynonymList(b, f, t) =
              {<<Rank(SynonymsIn(b), <<f, h[1]>>), h[2]>> : h \in SaidIn(b, f, t)}
         /\ \A h \in SaidIn(b, f, t) : \E e \in DOMAIN b :
              /\ b[e].field = f /\ b[e].term = t
              /\ h = <<h[1], h[2]>> /\ h[1] \in Members(b[e].syns) /\ h[2] = b[e].doc
<1> DEFINE R(s) == Rank(SynonymsIn(b), <<f, s>>)
           E == {e \in DOMAIN b : b[e].field = f /\ b[e].term = t}
<1>1. {x \in DOMAIN b : TermsIn(b)[x] = <<f, t>>} = E
  <2>1. \A x \in DOMAIN b : TermsIn(b)[x] = <<b[x].field, b[x].term>>
    BY ThesaurusBatchIs
  <2> QED  BY <2>1
<1>2. SynonymList(b, f, t) = UNION {{<<R(s), b[e].doc>> : s \in Members(b[e].syns)} : e \in E}
  <2>1. SynonymList(b, f, t) = UNION {{<<Rank(SynonymsIn(b), <<b[e].field, s>>), b[e].doc>> :
                                    s \in Members(b[e].syns)} : e \in E}
    BY <1>1 DEF SynonymList
  <2> DEFINE A(e) == {<<Rank(SynonymsIn(b), <<b[e].field, s>>), b[e].doc>> :
                        s \in Members(b[e].syns)}
             B(e) == {<<R(s), b[e].doc>> : s \in Members(b[e].syns)}
  <2>2. ASSUME NEW e \in E PROVE A(e) = B(e)
    <3>1. b[e].field = f
      OBVIOUS
    <3> HIDE DEF E
    <3> QED  BY <3>1
  <2>3. SynonymList(b, f, t) = UNION {A(e) : e \in E}
    BY <2>1
  <2> HIDE DEF A, B, E
  <2>4. SynonymList(b, f, t) = UNION {B(e) : e \in E}
    BY <2>2, <2>3
  <2> QED  BY <2>4 DEF B
<1>3. SaidIn(b, f, t) = UNION {Members(b[e].syns) \X {b[e].doc} : e \in E}
  BY DEF SaidIn
<1> HIDE DEF R
<1>4. ASSUME NEW h \in SaidIn(b, f, t)
      PROVE  \E e \in E : h = <<h[1], h[2]>> /\ h[1] \in Members(b[e].syns) /\ h[2] = b[e].doc
  <2>1. PICK e \in E : h \in Members(b[e].syns) \X {b[e].doc}
    BY <1>3
  <2> QED  BY <2>1
<1>5. ASSUME NEW e \in E, NEW s \in Members(b[e].syns)
      PROVE  <<s, b[e].doc>> \in SaidIn(b, f, t)
  BY <1>3
<1>6. SynonymList(b, f, t) \subseteq {<<R(h[1]), h[2]>> : h \in SaidIn(b, f, t)}
  <2> SUFFICES ASSUME NEW c \in SynonymList(b, f, t)
               PROVE  \E h \in SaidIn(b, f, t) : c = <<R(h[1]), h[2]>>
    OBVIOUS
  <2>1. PICK e \in E : \E s \in Members(b[e].syns) : c = <<R(s), b[e].doc>>
    BY <1>2
  <2>2. PICK s \in Members(b[e].syns) : c = <<R(s), b[e].doc>>
    BY <2>1
  <2> DEFINE h == <<s, b[e].doc>>
  <2>3. h \in SaidIn(b, f, t) /\ h[1] = s /\ h[2] = b[e].doc
    BY <1>5
  <2> HIDE DEF h
  <2> QED  BY <2>2, <2>3
<1>7. {<<R(h[1]), h[2]>> : h \in SaidIn(b, f, t)} \subseteq SynonymList(b, f, t)
  <2> SUFFICES ASSUME NEW h \in SaidIn(b, f, t) PROVE <<R(h[1]), h[2]>> \in SynonymList(b, f, t)
    OBVIOUS
  <2>1. PICK e \in E : h = <<h[1], h[2]>> /\ h[1] \in Members(b[e].syns) /\ h[2] = b[e].doc
    BY <1>4
  <2> QED  BY <1>2, <2>1
<1>8. SynonymList(b, f, t) = {<<R(h[1]), h[2]>> : h \in SaidIn(b, f, t)}
  BY <1>6, <1>7
<1> QED  BY <1>4, <1>8 DEF R

LEMMA BuiltTruthful ==
  ASSUME NothingApart, NEW i \in Itrs, NEW b \in SynBatch(i), Worded(b), NEW f
  PROVE  Truthful(ThesaurusOf(b, f), i, b, f)
<1> DEFINE x == ThesaurusOf(b, f)  m == SynonymIDtoTerm(b, f)
           R(s) == Rank(SynonymsIn(b), <<f, s>>)
<1>1. x # Nothing
  BY DEF ThesaurusOf, NothingApart
<1>2. /\ DOMAIN x.fst = TermsOf(b, f) /\ x.synTermMap = m
      /\ \A t \in TermsOf(b, f) : x.fst[t] = SynonymList(b, f, t)
  <2> DEFINE g == [t \in TermsOf(b, f) |-> SynonymList(b, f, t)]
  <2>1. x = [fst |-> g, synTermMap |-> m]
    BY DEF ThesaurusOf
  <2>2. x.fst = g /\ x.synTermMap = m
    <3> HIDE DEF g, m, x
    <3> QED  BY <2>1
  <2> HIDE DEF x
  <2> QED  BY <2>2
<1>3. /\ IsFiniteSet(DOMAIN m) /\ DOMAIN m \in SUBSET Nat
      /\ \A id \in DOMAIN m : m[id] \in Nat \ {0}
      /\ \A s : <<f, s>> \in Members(SynonymsIn(b)) => R(s) \in DOMAIN m /\ m[R(s)] = s
  BY IDsAre
<1> HIDE DEF x, m
<1>4. Loads(x)
  <2>1. NumSyns(x) # 0
    <3>1. DOMAIN m # {} => Cardinality(DOMAIN m) # 0
      BY <1>3, FS_EmptySet
    <3>2. NumSyns(x) = IF DOMAIN m = {} THEN -1 ELSE Cardinality(DOMAIN m)
      BY <1>2 DEF NumSyns
    <3>3. -1 # 0
      OBVIOUS
    <3> QED  BY <3>1, <3>2, <3>3
  <2> QED  BY <1>2, <1>3, <2>1 DEF Loads
<1>5. ASSUME NEW t
      PROVE  /\ SynonymList(b, f, t) = {<<R(h[1]), h[2]>> : h \in SaidIn(b, f, t)}
             /\ \A h \in SaidIn(b, f, t) :
                  /\ R(h[1]) \in DOMAIN m /\ m[R(h[1])] = h[1] /\ h = <<h[1], h[2]>>
                  /\ h[2] \in Docs(i) /\ t \in Keys /\ t # 0
                  /\ t \in {p[2] : p \in {q \in Members(TermsIn(b)) : q[1] = f}}
  <2>1. ASSUME NEW h \in SaidIn(b, f, t)
        PROVE  /\ R(h[1]) \in DOMAIN m /\ m[R(h[1])] = h[1] /\ h = <<h[1], h[2]>>
               /\ h[2] \in Docs(i) /\ t \in Keys /\ t # 0
               /\ t \in {p[2] : p \in {q \in Members(TermsIn(b)) : q[1] = f}}
    <3>1. PICK e \in DOMAIN b :
            /\ b[e].field = f /\ b[e].term = t
            /\ h = <<h[1], h[2]>> /\ h[1] \in Members(b[e].syns) /\ h[2] = b[e].doc
      BY CodeOf
    <3>2. <<f, h[1]>> \in Members(SynonymsIn(b))
      <4>1. <<b[e].field, h[1]>> \in Members(SynonymsIn(b))
        BY <3>1, SynonymsAre
      <4> QED  BY <3>1, <4>1
    <3>3. b[e].doc \in Docs(i) /\ b[e].term \in Keys /\ <<b[e].field, b[e].term>> \in Members(TermsIn(b))
      BY <3>1, ThesaurusBatchIs
    <3>4. <<f, t>> \in Members(TermsIn(b)) /\ t # 0
      BY <3>1, <3>3 DEF Worded
    <3> HIDE DEF R
    <3>5. R(h[1]) \in DOMAIN m /\ m[R(h[1])] = h[1]
      BY <1>3, <3>2
    <3>6. t \in {p[2] : p \in {q \in Members(TermsIn(b)) : q[1] = f}}
      BY <3>4
    <3> QED  BY <3>1, <3>3, <3>4, <3>5, <3>6
  <2> QED  BY <2>1, CodeOf
<1> HIDE DEF R
<1>6. ASSUME NEW t PROVE t \in TermsOf(b, f) <=> SaidIn(b, f, t) # {}
  <2>1. SynonymList(b, f, t) # {} <=> SaidIn(b, f, t) # {}
    <3> DEFINE L == SynonymList(b, f, t)  S == SaidIn(b, f, t)
    <3>1. L = {<<R(h[1]), h[2]>> : h \in S}
      BY <1>5
    <3> HIDE DEF L, S
    <3>2. L # {} <=> S # {}
      BY <3>1
    <3> QED  BY <3>2 DEF L, S
  <2> QED  BY <1>5, <2>1 DEF TermsOf
<1>7. ASSUME NEW t \in TermsOf(b, f), NEW c \in SynonymList(b, f, t)
      PROVE  t \in Keys /\ t # 0 /\ c \in Nat \X Docs(i) /\ c[1] \in DOMAIN m
  <2>1. PICK h \in SaidIn(b, f, t) : c = <<R(h[1]), h[2]>>
    BY <1>5
  <2>2. R(h[1]) \in DOMAIN m /\ R(h[1]) \in Nat /\ h[2] \in Docs(i) /\ t \in Keys /\ t # 0
    BY <1>3, <1>5
  <2> QED  BY <2>1, <2>2
<1>8. ASSUME NEW t \in TermsOf(b, f) PROVE t \in Keys /\ t # 0
  <2>1. SaidIn(b, f, t) # {}
    BY <1>6
  <2> QED  BY <1>5, <2>1
<1>9. ASSUME NEW t \in TermsOf(b, f) PROVE Meant(SynonymList(b, f, t), x) = SaidIn(b, f, t)
  <2> DEFINE L == SynonymList(b, f, t)  S == SaidIn(b, f, t)
  <2>1. L = {<<R(h[1]), h[2]>> : h \in S}
        /\ \A h \in S : m[R(h[1])] = h[1] /\ h = <<h[1], h[2]>>
    BY <1>5
  <2>2. Meant(L, x) = {<<m[c[1]], c[2]>> : c \in L}
    BY <1>2 DEF Meant
  <2> HIDE DEF L, S
  <2>3. Meant(L, x) \subseteq S
    <3> SUFFICES ASSUME NEW c \in L PROVE <<m[c[1]], c[2]>> \in S
      BY <2>2
    <3>1. PICK h \in S : c = <<R(h[1]), h[2]>>
      BY <2>1
    <3>2. m[c[1]] = h[1] /\ c[2] = h[2] /\ h = <<h[1], h[2]>>
      BY <2>1, <3>1
    <3> QED  BY <3>2
  <2>4. S \subseteq Meant(L, x)
    <3> SUFFICES ASSUME NEW h \in S PROVE \E c \in L : h = <<m[c[1]], c[2]>>
      BY <2>2
    <3> DEFINE c == <<R(h[1]), h[2]>>
    <3>1. c \in L /\ c[1] = R(h[1]) /\ c[2] = h[2]
      BY <2>1
    <3> HIDE DEF c
    <3> QED  BY <2>1, <3>1
  <2> QED  BY <2>3, <2>4 DEF L, S
<1> QED
  <2>1. \A t \in DOMAIN x.fst : /\ t \in Keys /\ t # 0
                                /\ \A c \in x.fst[t] : c \in Nat \X Docs(i) /\ c[1] \in DOMAIN x.synTermMap
    BY <1>2, <1>7, <1>8
  <2>2. ASSUME NEW t
        PROVE  IF t \in DOMAIN x.fst THEN Meant(x.fst[t], x) = SaidIn(b, f, t)
               ELSE SaidIn(b, f, t) = {}
    BY <1>2, <1>6, <1>9
  <2> QED  BY <1>1, <1>2, <1>3, <1>4, <2>1, <2>2 DEF Truthful, x

\* How one that is truthful is read, some documents left out.
LEMMA TruthfulReads ==
  ASSUME NEW i, NEW b, NEW f, NEW x, Truthful(x, i, b, f), NEW t, NEW except
  PROVE  /\ Readable(x)
         /\ FoundIn(x, t, except) = {h \in SaidIn(b, f, t) : h[2] \notin except}
<1>1. Readable(x)
  BY DEF Readable, Truthful, Fails
<1>2. CASE t \in DOMAIN x.fst
  <2> DEFINE m == x.synTermMap  L == x.fst[t]  S == SaidIn(b, f, t)
  <2>1. S = {<<m[c[1]], c[2]>> : c \in L}
    BY <1>2 DEF Truthful, Meant
  <2>2. FoundIn(x, t, except) = {<<m[c[1]], c[2]>> : c \in {d \in L : d[2] \notin except}}
    BY <1>2 DEF FoundIn, Hits, Codes, Truthful
  <2> HIDE DEF m, L, S
  <2>3. \A c \in L : <<m[c[1]], c[2]>>[2] = c[2]
    OBVIOUS
  <2>4. FoundIn(x, t, except) = {h \in S : h[2] \notin except}
    BY <2>1, <2>2, <2>3
  <2> QED  BY <1>1, <2>4 DEF S
<1>3. CASE t \notin DOMAIN x.fst
  <2>1. SaidIn(b, f, t) = {}
    BY <1>3 DEF Truthful
  <2>2. FoundIn(x, t, except) = {}
    BY <1>3 DEF FoundIn, Hits, Codes
  <2> QED  BY <1>1, <2>1, <2>2
<1> QED  BY <1>2, <1>3

-----------------------------------------------------------------------------
(* What the merge of a thesaurus has collected.  P gives what the survivors *)
(* of each segment say of each term, u are the entries not passed.          *)

Heard(P, u, t) == UNION {P[j][t] : j \in {k \in Itrs : <<t, k>> \notin u}}

Distinct(syns) ==
  /\ syns \in Seq(Nat \ {0})
  /\ \A k, l \in DOMAIN syns : syns[k] = syns[l] => k = l

CodesIn(codes, syns) == \A c \in codes : c[1] \in 0..(Len(syns) - 1)
MeantBy(codes, syns) == {<<syns[c[1] + 1], c[2]>> : c \in codes}
Gathered(fst1, syns, t) == IF t \in DOMAIN fst1 THEN MeantBy(fst1[t], syns) ELSE {}

\* The dictionary has what was heard of all terms but the one that is open.
KeepsHeard(P, fst1, syns, u, open) ==
  /\ DOMAIN fst1 \subseteq Keys /\ open \notin DOMAIN fst1
  /\ \A t \in DOMAIN fst1 : CodesIn(fst1[t], syns) /\ \A j \in Itrs : <<t, j>> \notin u
  /\ \A t \in Keys : t # open => Gathered(fst1, syns, t) = Heard(P, u, t)

\* The codes are what was heard of the open term, and more of the current one.
Collects(P, fst1, syns, u, open, codes, more) ==
  /\ Distinct(syns) /\ KeepsHeard(P, fst1, syns, u, open) /\ CodesIn(codes, syns)
  /\ IF open = NoKey THEN codes = {} /\ more = {}
     ELSE open \in Keys /\ MeantBy(codes, syns) = Heard(P, u, open) \cup more

\* finishTerm.
FinishedWith(fst1, codes, term) ==
  IF codes = {} THEN fst1
  ELSE [t \in DOMAIN fst1 \cup {term} |-> IF t = term THEN codes ELSE fst1[t]]

LEMMA FinishCollected ==
  ASSUME NEW P, NEW fst1, NEW syns, NEW u, NEW open, NEW codes,
         Collects(P, fst1, syns, u, open, codes, {}),
         \A j \in Itrs : <<open, j>> \notin u
  PROVE  Collects(P, FinishedWith(fst1, codes, open), syns, u, NoKey, {}, {})
<1> DEFINE g == FinishedWith(fst1, codes, open)
<1>1. NoKey \notin Keys
  BY EnumeratorAssumption
<1>2. CASE open = NoKey
  BY <1>2 DEF Collects, FinishedWith
<1>3. CASE open # NoKey
  <2>1. /\ open \in Keys /\ MeantBy(codes, syns) = Heard(P, u, open)
        /\ Distinct(syns) /\ KeepsHeard(P, fst1, syns, u, open) /\ CodesIn(codes, syns)
    BY <1>3 DEF Collects
  <2>2. /\ DOMAIN g = IF codes = {} THEN DOMAIN fst1 ELSE DOMAIN fst1 \cup {open}
        /\ \A t \in DOMAIN fst1 : g[t] = fst1[t]
        /\ codes # {} => g[open] = codes
    BY <2>1 DEF FinishedWith, KeepsHeard
  <2> HIDE DEF g
  <2>3. ASSUME NEW t \in Keys PROVE Gathered(g, syns, t) = Heard(P, u, t)
    <3>1. CASE t # open
      <4>1. t \in DOMAIN g <=> t \in DOMAIN fst1
        BY <2>2, <3>1
      <4>2. Gathered(g, syns, t) = Gathered(fst1, syns, t)
        BY <2>2, <4>1 DEF Gathered
      <4> QED  BY <2>1, <3>1, <4>2 DEF KeepsHeard
    <3>2. CASE t = open /\ codes # {}
      BY <2>1, <2>2, <3>2 DEF Gathered
    <3>3. CASE t = open /\ codes = {}
      <4>1. Gathered(g, syns, t) = {}
        BY <2>1, <2>2, <3>3 DEF Gathered, KeepsHeard
      <4>2. MeantBy(codes, syns) = {}
        BY <3>3 DEF MeantBy
      <4> QED  BY <2>1, <3>3, <4>1, <4>2
    <3> QED  BY <3>1, <3>2, <3>3
  <2>4. ASSUME NEW t \in DOMAIN g
        PROVE  CodesIn(g[t], syns) /\ (\A j \in Itrs : <<t, j>> \notin u) /\ t \in Keys
    <3>1. CASE t \in DOMAIN fst1
      BY <2>1, <2>2, <3>1 DEF KeepsHeard
    <3>2. CASE t \notin DOMAIN fst1
      <4>1. t = open /\ g[t] = codes
        BY <2>2, <3>2
      <4> QED  BY <2>1, <4>1
    <3> QED  BY <3>1, <3>2
  <2>5. KeepsHeard(P, g, syns, u, NoKey)
    BY <1>1, <2>3, <2>4 DEF KeepsHeard
  <2> QED  BY <2>1, <2>5 DEF Collects, CodesIn, g
<1> QED  BY <1>2, <1>3

LEMMA OpenCollected ==
  ASSUME NEW P, NEW fst1, NEW syns, NEW u, NEW k \in Keys, NEW j \in Itrs, <<k, j>> \in u,
         Collects(P, fst1, syns, u, NoKey, {}, {})
  PROVE  Collects(P, fst1, syns, u, k, {}, {})
<1>1. /\ Distinct(syns) /\ DOMAIN fst1 \subseteq Keys
      /\ \A t \in DOMAIN fst1 : CodesIn(fst1[t], syns) /\ \A l \in Itrs : <<t, l>> \notin u
      /\ \A t \in Keys : t # NoKey => Gathered(fst1, syns, t) = Heard(P, u, t)
  BY DEF Collects, KeepsHeard
<1>2. NoKey \notin Keys
  BY EnumeratorAssumption
<1>3. k \notin DOMAIN fst1
  BY <1>1
<1>4. Heard(P, u, k) = {}
  BY <1>1, <1>2, <1>3 DEF Gathered
<1>5. MeantBy({}, syns) = Heard(P, u, k) \cup {}
  BY <1>4 DEF MeantBy
<1>6. KeepsHeard(P, fst1, syns, u, k)
  BY <1>1, <1>2, <1>3 DEF KeepsHeard
<1> QED  BY <1>1, <1>2, <1>5, <1>6 DEF Collects, CodesIn

\* A synonym that has an ID keeps it, and another gets the next.
LEMMA SynonymIs ==
  ASSUME NEW syns, Distinct(syns), NEW s \in Nat \ {0}, NEW new,
         \/ s \in Members(syns) /\ new = syns
         \/ s \notin Members(syns) /\ new = Append(syns, s)
  PROVE  /\ Distinct(new) /\ Len(syns) \in Nat /\ Len(new) \in Nat /\ Len(syns) <= Len(new)
         /\ \A n \in 1..Len(syns) : new[n] = syns[n]
         /\ Rank(new, s) \in 0..(Len(new) - 1) /\ new[Rank(new, s) + 1] = s
<1>1. syns \in Seq(Nat \ {0}) /\ Len(syns) \in Nat /\ DOMAIN syns = 1..Len(syns)
  BY DEF Distinct
<1>2. /\ Distinct(new) /\ Len(new) \in Nat /\ Len(syns) <= Len(new)
      /\ \A n \in 1..Len(syns) : new[n] = syns[n]
      /\ \E n \in 1..Len(new) : new[n] = s
  <2>1. CASE s \in Members(syns)
    BY <1>1, <2>1 DEF Members
  <2>2. CASE s \notin Members(syns)
    <3>1. new = Append(syns, s)
      BY <2>2
    <3>2. /\ new \in Seq(Nat \ {0}) /\ Len(new) = Len(syns) + 1
          /\ \A n \in 1..Len(syns) : new[n] = syns[n]
          /\ new[Len(syns) + 1] = s
      <4> DEFINE w == Append(syns, s)
      <4>1. /\ w \in Seq(Nat \ {0}) /\ Len(w) = Len(syns) + 1
            /\ \A n \in 1..Len(syns) : w[n] = syns[n]
            /\ w[Len(syns) + 1] = s
        BY <1>1
      <4>2. new = w
        BY <3>1
      <4> HIDE DEF w
      <4> QED  BY <4>1, <4>2
    <3>3. \A n \in 1..Len(syns) : new[n] # s
      BY <1>1, <2>2, <3>2 DEF Members
    <3>4. DOMAIN new = 1..(Len(syns) + 1)
      BY <3>2
    <3>5. ASSUME NEW k \in DOMAIN new, NEW l \in DOMAIN new, new[k] = new[l] PROVE k = l
      <4>1. CASE k \in 1..Len(syns) /\ l \in 1..Len(syns)
        <5>1. syns[k] = syns[l]
          BY <3>2, <3>5, <4>1
        <5> QED  BY <1>1, <4>1, <5>1 DEF Distinct
      <4>2. CASE ~ (k \in 1..Len(syns))
        <5>1. k = Len(syns) + 1
          BY <1>1, <3>4, <4>2
        <5>2. ~ (l \in 1..Len(syns))
          BY <3>2, <3>3, <3>5, <5>1
        <5> QED  BY <1>1, <3>4, <5>1, <5>2
      <4>3. CASE ~ (l \in 1..Len(syns))
        <5>1. l = Len(syns) + 1
          BY <1>1, <3>4, <4>3
        <5>2. ~ (k \in 1..Len(syns))
          BY <3>2, <3>3, <3>5, <5>1
        <5> QED  BY <1>1, <3>4, <5>1, <5>2
      <4> QED  BY <4>1, <4>2, <4>3
    <3>6. Distinct(new)
      BY <3>2, <3>5 DEF Distinct
    <3>7. Len(new) \in Nat /\ Len(syns) <= Len(new) /\ Len(syns) + 1 \in 1..Len(new)
      BY <1>1, <3>2
    <3> QED  BY <3>2, <3>6, <3>7
  <2> QED  BY <2>1, <2>2
<1>3. PICK n \in 1..Len(new) : new[n] = s
  BY <1>2
<1>4. Rank(new, s) = n - 1
  <2>1. new \in Seq(Nat \ {0}) /\ \A k, l \in DOMAIN new : new[k] = new[l] => k = l
    BY <1>2 DEF Distinct
  <2>2. Rank(new, new[n]) = n - 1
    BY <2>1, RankOf
  <2> QED  BY <1>3, <2>2
<1>5. n - 1 \in 0..(Len(new) - 1) /\ (n - 1) + 1 = n
  BY <1>2
<1>6. Rank(new, s) \in 0..(Len(new) - 1) /\ new[Rank(new, s) + 1] = s
  BY <1>3, <1>4, <1>5
<1>7. /\ Distinct(new) /\ Len(syns) \in Nat /\ Len(new) \in Nat /\ Len(syns) <= Len(new)
      /\ \A k \in 1..Len(syns) : new[k] = syns[k]
  BY <1>1, <1>2
<1> QED  BY <1>6, <1>7

LEMMA AddCollected ==
  ASSUME NEW P, NEW fst1, NEW syns, NEW u, NEW k \in Keys, NEW codes, NEW more,
         Collects(P, fst1, syns, u, k, codes, more),
         NEW s \in Nat \ {0}, NEW num, NEW new,
         \/ s \in Members(syns) /\ new = syns
         \/ s \notin Members(syns) /\ new = Append(syns, s)
  PROVE  Collects(P, fst1, new, u, k, codes \cup {<<Rank(new, s), num>>}, more \cup {<<s, num>>})
<1> DEFINE c1 == <<Rank(new, s), num>>
<1>1. /\ Distinct(syns) /\ KeepsHeard(P, fst1, syns, u, k) /\ CodesIn(codes, syns)
      /\ k # NoKey /\ MeantBy(codes, syns) = Heard(P, u, k) \cup more
  <2>1. k # NoKey
    BY EnumeratorAssumption
  <2> QED  BY <2>1 DEF Collects
<1>2. /\ Distinct(new) /\ Len(syns) \in Nat /\ Len(new) \in Nat /\ Len(syns) <= Len(new)
      /\ \A n \in 1..Len(syns) : new[n] = syns[n]
      /\ Rank(new, s) \in 0..(Len(new) - 1) /\ new[Rank(new, s) + 1] = s
  BY <1>1, SynonymIs
<1>3. ASSUME NEW cs, CodesIn(cs, syns)
      PROVE  CodesIn(cs, new) /\ MeantBy(cs, new) = MeantBy(cs, syns)
  <2>1. ASSUME NEW c \in cs PROVE c[1] \in 0..(Len(new) - 1) /\ new[c[1] + 1] = syns[c[1] + 1]
    <3>1. c[1] \in 0..(Len(syns) - 1)
      BY <1>3 DEF CodesIn
    <3>2. c[1] \in 0..(Len(new) - 1) /\ c[1] + 1 \in 1..Len(syns)
      BY <1>2, <3>1
    <3> QED  BY <1>2, <3>2
  <2> QED  BY <2>1 DEF CodesIn, MeantBy
<1>4. KeepsHeard(P, fst1, new, u, k)
  <2>1. ASSUME NEW t PROVE Gathered(fst1, new, t) = Gathered(fst1, syns, t)
    <3>1. t \in DOMAIN fst1 => CodesIn(fst1[t], syns)
      BY <1>1 DEF KeepsHeard
    <3> QED  BY <1>3, <3>1 DEF Gathered
  <2> QED  BY <1>1, <1>3, <2>1 DEF KeepsHeard
<1>5. CodesIn(codes \cup {c1}, new)
  <2>1. c1[1] \in 0..(Len(new) - 1)
    BY <1>2
  <2>2. CodesIn(codes, new)
    BY <1>1, <1>3
  <2> HIDE DEF c1
  <2> QED  BY <2>1, <2>2 DEF CodesIn
<1>6. MeantBy(codes \cup {c1}, new) = Heard(P, u, k) \cup more \cup {<<s, num>>}
  <2>1. new[c1[1] + 1] = s /\ c1[2] = num
    BY <1>2
  <2>2. MeantBy(codes, new) = Heard(P, u, k) \cup more
    BY <1>1, <1>3
  <2> HIDE DEF c1
  <2>3. MeantBy(codes \cup {c1}, new) = MeantBy(codes, new) \cup {<<s, num>>}
    BY <2>1 DEF MeantBy
  <2> QED  BY <2>2, <2>3
<1> QED  BY <1>1, <1>2, <1>4, <1>5, <1>6 DEF Collects

LEMMA PassCollected ==
  ASSUME NEW P, NEW fst1, NEW syns, NEW u, NEW k \in Keys, NEW j \in Itrs, NEW codes,
         <<k, j>> \in u, Collects(P, fst1, syns, u, k, codes, P[j][k])
  PROVE  Collects(P, fst1, syns, u \ {<<k, j>>}, k, codes, {})
<1> DEFINE v == u \ {<<k, j>>}
<1>1. k # NoKey
  BY EnumeratorAssumption
<1>2. {l \in Itrs : <<k, l>> \notin v} = {l \in Itrs : <<k, l>> \notin u} \cup {j}
  OBVIOUS
<1>3. ASSUME NEW t, t # k PROVE {l \in Itrs : <<t, l>> \notin v} = {l \in Itrs : <<t, l>> \notin u}
  BY <1>3
<1> HIDE DEF v
<1>4. Heard(P, v, k) = Heard(P, u, k) \cup P[j][k]
  BY <1>2 DEF Heard
<1>5. ASSUME NEW t, t # k PROVE Heard(P, v, t) = Heard(P, u, t)
  BY <1>3, <1>5 DEF Heard
<1>6. KeepsHeard(P, fst1, syns, v, k)
  <2>1. KeepsHeard(P, fst1, syns, u, k)
    BY DEF Collects
  <2>2. \A p : p \notin u => p \notin v
    BY DEF v
  <2> QED  BY <1>5, <2>1, <2>2 DEF KeepsHeard
<1> QED  BY <1>1, <1>4, <1>6 DEF Collects, v

NewThesaurus(fst1, syns) ==
  [fst |-> fst1, synTermMap |-> [id \in 0..(Len(syns) - 1) |-> syns[id + 1]]]

\* What goes to the file once all entries are passed.
LEMMA MergedReads ==
  ASSUME NothingApart, NEW P, NEW fst1, NEW syns,
         Collects(P, fst1, syns, {}, NoKey, {}, {}), NEW t \in Keys
  PROVE  /\ Readable(NewThesaurus(fst1, syns))
         /\ FoundIn(NewThesaurus(fst1, syns), t, {}) = UNION {P[j][t] : j \in Itrs}
<1> DEFINE m == [id \in 0..(Len(syns) - 1) |-> syns[id + 1]]
           x == [fst |-> fst1, synTermMap |-> m]
<1>1. x # Nothing
  BY DEF NothingApart
<1>2. x.fst = fst1 /\ x.synTermMap = m
  OBVIOUS
<1>3. syns \in Seq(Nat \ {0}) /\ Len(syns) \in Nat
  BY DEF Collects, Distinct
<1>4. DOMAIN m = 0..(Len(syns) - 1) /\ \A id \in 0..(Len(syns) - 1) : m[id] = syns[id + 1]
  OBVIOUS
<1>5. ASSUME NEW id \in DOMAIN m PROVE m[id] # 0
  <2>1. id + 1 \in 1..Len(syns)
    BY <1>3
  <2> QED  BY <1>3, <2>1
<1> HIDE DEF m, x
<1>6. NumSyns(x) # 0
  <2>1. IsFiniteSet(DOMAIN m)
    <3>1. Len(syns) - 1 \in Int
      BY <1>3
    <3> QED  BY <1>4, <3>1, FS_Interval
  <2>2. DOMAIN m # {} => Cardinality(DOMAIN m) # 0
    BY <2>1, FS_EmptySet
  <2>3. NumSyns(x) = IF DOMAIN m = {} THEN -1 ELSE Cardinality(DOMAIN m)
    BY <1>2 DEF NumSyns
  <2>4. -1 # 0
    OBVIOUS
  <2> QED  BY <2>2, <2>3, <2>4
<1>7. \A r \in DOMAIN fst1 : CodesIn(fst1[r], syns)
  BY DEF Collects, KeepsHeard
<1>8. Readable(x)
  BY <1>2, <1>4, <1>5, <1>6, <1>7 DEF Readable, Loads, Fails, CodesIn
<1>9. FoundIn(x, t, {}) = Gathered(fst1, syns, t)
  <2>1. CASE t \in DOMAIN fst1
    <3>1. FoundIn(x, t, {}) = {<<m[c[1]], c[2]>> : c \in fst1[t]}
      BY <1>1, <1>2, <2>1 DEF FoundIn, Hits, Codes
    <3>2. \A c \in fst1[t] : m[c[1]] = syns[c[1] + 1]
      BY <1>4, <1>7, <2>1 DEF CodesIn
    <3> QED  BY <2>1, <3>1, <3>2 DEF Gathered, MeantBy
  <2>2. CASE t \notin DOMAIN fst1
    BY <1>1, <1>2, <2>2 DEF FoundIn, Hits, Codes, Gathered
  <2> QED  BY <2>1, <2>2
<1>10. Gathered(fst1, syns, t) = Heard(P, {}, t)
  <2>1. t # NoKey
    BY EnumeratorAssumption
  <2> QED  BY <2>1 DEF Collects, KeepsHeard
<1>11. Heard(P, {}, t) = UNION {P[j][t] : j \in Itrs}
  <2>1. {k \in Itrs : <<t, k>> \notin {}} = Itrs
    OBVIOUS
  <2> QED  BY <2>1 DEF Heard
<1> QED  BY <1>8, <1>9, <1>10, <1>11 DEF x, m, NewThesaurus

-----------------------------------------------------------------------------
(* The builds of the segments.                                             *)

NoEmptyStrings == \A i \in Itrs : \A b \in SynBatches[i] : Worded(b)

BatchesGiven == \A i \in Itrs : batches[i] \in SynBatches[i]

BuiltInv ==
  /\ NoneLeft(so)
  /\ thesauri = [i \in Itrs |-> thesauri[i]]
  /\ \A i \in Itrs : thesauri[i] # Nothing =>
       thesauri[i] = [f \in BatchFields(batches[i]) |-> ThesaurusOf(batches[i], f)]
  /\ synPc # "build" => \A i \in Itrs : thesauri[i] # Nothing

\* What a segment says of the terms of a field.
Tells(i, f) ==
  IF Thesaurus(i, f) = Nothing THEN \A t : SaidIn(batches[i], f, t) = {}
  ELSE Truthful(Thesaurus(i, f), i, batches[i], f)

LEMMA BatchGiven ==
  ASSUME NoEmptyStrings, BatchesGiven, NEW i \in Itrs
  PROVE  batches[i] \in SynBatch(i) /\ Worded(batches[i])
BY SynonymsAssumption DEF NoEmptyStrings, BatchesGiven, SynBatch

LEMMA SegmentTells ==
  ASSUME NothingApart, NoEmptyStrings, BatchesGiven, BuiltInv, NEW i \in Itrs,
         thesauri[i] # Nothing, NEW f
  PROVE  Tells(i, f) /\ (f \in BatchFields(batches[i]) => Thesaurus(i, f) # Nothing)
<1> DEFINE b == batches[i]
<1>1. b \in SynBatch(i) /\ Worded(b)
  BY BatchGiven
<1>2. thesauri[i] = [g \in BatchFields(b) |-> ThesaurusOf(b, g)]
  BY DEF BuiltInv
<1> HIDE DEF b
<1>3. CASE f \in BatchFields(b)
  <2>1. Thesaurus(i, f) = ThesaurusOf(b, f)
    <3>1. f \in DOMAIN thesauri[i] /\ thesauri[i][f] = ThesaurusOf(b, f)
      BY <1>2, <1>3
    <3> QED  BY <3>1 DEF Thesaurus
  <2>2. Truthful(Thesaurus(i, f), i, b, f)
    BY <1>1, <2>1, BuiltTruthful
  <2>3. Thesaurus(i, f) # Nothing
    BY <2>2 DEF Truthful
  <2> QED  BY <2>2, <2>3 DEF Tells, b
<1>4. CASE f \notin BatchFields(b)
  <2>1. Thesaurus(i, f) = Nothing
    BY <1>2, <1>4 DEF Thesaurus
  <2>2. \A e \in DOMAIN b : b[e].field # f
    BY <1>4 DEF BatchFields, Members, FieldsIn
  <2>3. \A t : SaidIn(b, f, t) = {}
    BY <2>2 DEF SaidIn
  <2> QED  BY <1>4, <2>1, <2>3 DEF Tells, b
<1> QED  BY <1>3, <1>4

LEMMA BuildThesauriStep ==
  ASSUME NothingApart, NoEmptyStrings, BatchesGiven, BuiltInv, BuildSegment
  PROVE  BuiltInv' /\ synPc' \in {"build", "field"} /\ merged' = merged
<1>1. batches' = batches /\ merged' = merged
      /\ synPc' = IF \E i \in Itrs : thesauri'[i] = Nothing THEN "build" ELSE "field"
  BY DEF BuildSegment, mergeSynVars
<1>2. PICK i \in Itrs :
        /\ thesauri' = [thesauri EXCEPT ![i] =
             [f \in BatchFields(batches[i]) |->
                AddrForField(BuiltOpaque(so, batches[i]), FieldID(BatchFields(batches[i]), f))]]
        /\ so' = ResetOpaque(BuiltOpaque(so, batches[i]))
  BY DEF BuildSegment, BuiltOpaque
<1> DEFINE b == batches[i]
           x == [f \in BatchFields(b) |-> AddrForField(BuiltOpaque(so, b), FieldID(BatchFields(b), f))]
           y == [f \in BatchFields(b) |-> ThesaurusOf(b, f)]
<1>3. b \in SynBatch(i)
  BY BatchGiven
<1>4. NoneLeft(so)
  BY DEF BuiltInv
<1>5. NoneLeft(ResetOpaque(BuiltOpaque(so, b)))
      /\ \A f \in BatchFields(b) :
           AddrForField(BuiltOpaque(so, b), FieldID(BatchFields(b), f)) = ThesaurusOf(b, f)
  <2> HIDE DEF b
  <2> QED  BY <1>3, <1>4, BuiltIs
<1>6. x = y
  <2> HIDE DEF b
  <2> QED  BY <1>5
<1>7. thesauri' = [thesauri EXCEPT ![i] = x]
  BY <1>2
<1>8. NoneLeft(so)'
  <2>1. so' = ResetOpaque(BuiltOpaque(so, b))
    BY <1>2
  <2> HIDE DEF b
  <2> QED  BY <1>5, <2>1
<1> HIDE DEF x
<1>9. thesauri' = [j \in Itrs |-> IF j = i THEN y ELSE thesauri[j]]
  BY <1>6, <1>7 DEF BuiltInv
<1>10. thesauri' = [j \in Itrs |-> thesauri'[j]]
  BY <1>9
<1>11. ASSUME NEW j \in Itrs, thesauri'[j] # Nothing
       PROVE  thesauri'[j] = [f \in BatchFields(batches'[j]) |-> ThesaurusOf(batches'[j], f)]
  <2>1. CASE j = i
    <3>1. thesauri'[j] = y
      BY <1>9, <2>1
    <3> QED  BY <1>1, <2>1, <3>1
  <2>2. CASE j # i
    <3>1. thesauri'[j] = thesauri[j]
      BY <1>9, <2>2
    <3> QED  BY <1>1, <1>11, <3>1 DEF BuiltInv
  <2> QED  BY <2>1, <2>2
<1>12. synPc' # "build" => \A j \in Itrs : thesauri'[j] # Nothing
  BY <1>1
<1>13. BuiltInv'
  BY <1>8, <1>10, <1>11, <1>12 DEF BuiltInv
<1> QED  BY <1>1, <1>13

-----------------------------------------------------------------------------
(* The merge of the thesauri of a field.                                   *)

PartOf(i, f, t) ==
  {<<h[1], NewNum(<<i, h[2]>>)>> : h \in {g \in SaidIn(batches[i], f, t) : g[2] \notin drops[i]}}

Parts == [i \in Itrs |-> [t \in Keys |-> PartOf(i, thesField, t)]]

SynEntries ==
  {p \in Keys \X Itrs : /\ Thesaurus(p[2], thesField) # Nothing
                        /\ p[1] \in DOMAIN Thesaurus(p[2], thesField).fst}

CurrentCodes == Codes(Thesaurus(CurrentIdx, thesField), lowK, drops[CurrentIdx])

\* What the codes that the loop has reached stand for.
Added ==
  {<<Thesaurus(CurrentIdx, thesField).synTermMap[c[1]], NewNum(<<CurrentIdx, c[2]>>)>> :
     c \in CurrentCodes \ synTodo}

AtSynEntry ==
  /\ err \in {"none", "done"} /\ (err = "done" => unpassed = {})
  /\ unpassed \subseteq SynEntries
  /\ synPrev # NoKey => \A p \in unpassed : synPrev <= p[1]
  /\ Collects(Parts, newFst, synTerms, unpassed, synPrev, synRoaring, {})

AtSynCodes ==
  /\ err = "none"
  /\ unpassed \subseteq SynEntries
  /\ synTodo \subseteq CurrentCodes
  /\ Collects(Parts, newFst, synTerms, unpassed, lowK, synRoaring, Added)

MergedExactly ==
  \A f \in DOMAIN merged : \A t \in Keys :
    Readable(merged[f]) /\ FoundIn(merged[f], t, {}) = SaidBySurvivors(f, t)

LEMMA SaidIsParts ==
  ASSUME NEW f, NEW t
  PROVE  SaidBySurvivors(f, t) = UNION {PartOf(i, f, t) : i \in Itrs}
<1> DEFINE S(i) == {g \in SaidIn(batches[i], f, t) : g[2] \notin drops[i]}
           X == UNION {{<<h[1], i, h[2]>> : h \in S(i)} : i \in Itrs}
<1>1. ASSUME NEW i \in Itrs PROVE {g \in Said(i, f, t) : g[2] \notin drops[i]} = S(i)
  BY DEF Said, SaidIn
<1>2. SaidBySurvivors(f, t) = {<<x[1], NewNum(<<x[2], x[3]>>)>> : x \in X}
  BY DEF SaidBySurvivors, Said, SaidIn
<1>3. \A i \in Itrs : PartOf(i, f, t) = {<<h[1], NewNum(<<i, h[2]>>)>> : h \in S(i)}
  BY DEF PartOf
<1> HIDE DEF S
<1>4. SaidBySurvivors(f, t) \subseteq UNION {PartOf(i, f, t) : i \in Itrs}
  <2> SUFFICES ASSUME NEW x \in X
               PROVE  \E i \in Itrs : <<x[1], NewNum(<<x[2], x[3]>>)>> \in PartOf(i, f, t)
    BY <1>2
  <2>1. PICK i \in Itrs : \E h \in S(i) : x = <<h[1], i, h[2]>>
    OBVIOUS
  <2>2. PICK h \in S(i) : x = <<h[1], i, h[2]>>
    BY <2>1
  <2>3. x[1] = h[1] /\ x[2] = i /\ x[3] = h[2]
    BY <2>2
  <2> HIDE DEF X
  <2> QED  BY <1>3, <2>3
<1>5. ASSUME NEW i \in Itrs, NEW h \in S(i)
      PROVE  <<h[1], NewNum(<<i, h[2]>>)>> \in SaidBySurvivors(f, t)
  <2> DEFINE x == <<h[1], i, h[2]>>
  <2>1. x \in X /\ x[1] = h[1] /\ x[2] = i /\ x[3] = h[2]
    OBVIOUS
  <2> HIDE DEF x, X
  <2> QED  BY <1>2, <2>1
<1>6. UNION {PartOf(i, f, t) : i \in Itrs} \subseteq SaidBySurvivors(f, t)
  <2> SUFFICES ASSUME NEW i \in Itrs, NEW y \in PartOf(i, f, t)
               PROVE  y \in SaidBySurvivors(f, t)
    OBVIOUS
  <2>1. PICK h \in S(i) : y = <<h[1], NewNum(<<i, h[2]>>)>>
    BY <1>3
  <2> QED  BY <1>5, <2>1
<1> QED  BY <1>4, <1>6

\* The part of a segment is what its codes stand for.
LEMMA PartRead ==
  ASSUME NEW i \in Itrs, NEW f, Tells(i, f), NEW t
  PROVE  PartOf(i, f, t) =
           {<<Thesaurus(i, f).synTermMap[c[1]], NewNum(<<i, c[2]>>)>> :
              c \in Codes(Thesaurus(i, f), t, drops[i])}
<1> DEFINE x == Thesaurus(i, f)  m == x.synTermMap  C == Codes(x, t, drops[i])
           H == {h \in SaidIn(batches[i], f, t) : h[2] \notin drops[i]}
<1>1. PartOf(i, f, t) = {<<h[1], NewNum(<<i, h[2]>>)>> : h \in H}
  BY DEF PartOf
<1>2. H = {<<m[c[1]], c[2]>> : c \in C}
  <2>1. CASE x = Nothing
    <3>1. H = {}
      BY <2>1 DEF Tells
    <3>2. C = {}
      BY <2>1 DEF Codes
    <3> HIDE DEF C, H, m
    <3> QED  BY <3>1, <3>2
  <2>2. CASE x # Nothing
    <3>1. Truthful(x, i, batches[i], f)
      BY <2>2 DEF Tells
    <3>2. FoundIn(x, t, drops[i]) = H
      BY <3>1, TruthfulReads
    <3>3. FoundIn(x, t, drops[i]) = {<<m[c[1]], c[2]>> : c \in C}
      BY <2>2 DEF FoundIn, Hits
    <3> QED  BY <3>2, <3>3
  <2> QED  BY <2>1, <2>2
<1> HIDE DEF H, C, m
<1>3. PartOf(i, f, t) = {<<m[c[1]], NewNum(<<i, c[2]>>)>> : c \in C}
  <2> DEFINE Q(c) == <<m[c[1]], c[2]>>  N(n) == NewNum(<<i, n>>)
  <2>1. \A c : Q(c)[1] = m[c[1]] /\ Q(c)[2] = c[2]
    OBVIOUS
  <2>2. H = {Q(c) : c \in C}
    BY <1>2
  <2>3. PartOf(i, f, t) = {<<h[1], N(h[2])>> : h \in H}
    BY <1>1
  <2> HIDE DEF Q, N
  <2>4. {<<h[1], N(h[2])>> : h \in H} = {<<m[c[1]], N(c[2])>> : c \in C}
    BY <2>1, <2>2
  <2> QED  BY <2>3, <2>4 DEF N
<1> QED  BY <1>3 DEF m, C

LEMMA SaidStays ==
  ASSUME drops' = drops, batches' = batches
  PROVE  /\ \A p : NewNum(p)' = NewNum(p)
         /\ \A i, f, t : PartOf(i, f, t)' = PartOf(i, f, t)
         /\ \A f, t : SaidBySurvivors(f, t)' = SaidBySurvivors(f, t)
<1>1. Survivors' = Survivors
  BY DEF Survivors
<1>2. ASSUME NEW p PROVE NewNum(p)' = NewNum(p)
  BY <1>1 DEF NewNum
<1>3. ASSUME NEW i, NEW f, NEW t PROVE PartOf(i, f, t)' = PartOf(i, f, t)
  BY <1>2 DEF PartOf
<1>4. ASSUME NEW i, NEW f, NEW t PROVE Said(i, f, t)' = Said(i, f, t)
  BY DEF Said
<1>5. ASSUME NEW f, NEW t PROVE SaidBySurvivors(f, t)' = SaidBySurvivors(f, t)
  BY <1>2, <1>4 DEF SaidBySurvivors
<1> QED  BY <1>2, <1>3, <1>5

LEMMA MergedStays ==
  ASSUME MergedExactly, drops' = drops, batches' = batches, merged' = merged
  PROVE  MergedExactly'
BY SaidStays DEF MergedExactly

\* The current entry is one of those left, and the least of them by its term.
LEMMA EntryHere ==
  ASSUME EInv, err = "none"
  PROVE  /\ current = <<lowK, CurrentIdx>> /\ current \in unpassed
         /\ lowK \in Keys /\ lowK \in Nat /\ CurrentIdx \in Itrs
         /\ \A p \in unpassed : lowK <= p[1] /\ p = <<p[1], p[2]>>
<1> DEFINE c == After(lowIdxs, lowCurr)  L == LeftOf(rest, lowK, lowIdxs, lowCurr)
<1>1. AtLeast(rest, lowK, lowIdxs, lowCurr) /\ rest \in [Itrs -> SUBSET Keys]
  BY DEF EInv
<1>2. <<lowK, c>> \in L
  BY <1>1, ShownIsLeast
<1>3. current = <<lowK, c>> /\ unpassed = L /\ c = CurrentIdx
  BY Here DEF CurrentIdx
<1> HIDE DEF c
<1>4. lowK \in Keys /\ c \in Itrs /\ lowK \in Nat
  BY <1>1, <1>2 DEF LeftOf, AtLeast
<1>5. ASSUME NEW p \in L PROVE lowK <= p[1] /\ p = <<p[1], p[2]>>
  BY <1>1 DEF LeftOf, AtLeast
<1> HIDE DEF L
<1> QED  BY <1>2, <1>3, <1>4, <1>5

\* Next passes the current entry, and is done when none is left.
LEMMA EntryPassed ==
  ASSUME EInv, Next, err' # "error"
  PROVE  /\ unpassed' = unpassed \ {current}
         /\ err' \in {"none", "done"} /\ (err' = "done" => unpassed' = {})
<1>1. err' \in {"none", "done"} /\ (NextSameKey \/ NextKey)
  BY DEF Next, NextSameKey, NextKey, NextFails
<1>2. Join!Advance
  BY <1>1, StepSameKey, StepKey
<1>3. unpassed' = unpassed \ {current} /\ Join!Shows(unpassed', current')
  BY <1>2 DEF Join!Advance
<1>4. ASSUME err' = "done" PROVE unpassed' = {}
  <2>1. current' = NoKey
    BY <1>4 DEF current
  <2>2. NoKey \notin unpassed'
    BY EnumeratorAssumption DEF unpassed
  <2> QED  BY <1>3, <2>1, <2>2 DEF Join!Shows, Join!Least
<1> QED  BY <1>1, <1>3, <1>4

\* A new enumerator has everything before it.
LEMMA EntriesNew ==
  ASSUME EInv, err # "none", NEW ds \in [Itrs -> SUBSET Keys], NewEnumerator(ds)
  PROVE  /\ unpassed' = {p \in Keys \X Itrs : p[1] \in ds[p[2]]}
         /\ err' \in {"none", "done"} /\ (err' = "done" => unpassed' = {})
<1>1. /\ rest' = ds /\ lowCurr' = 0 /\ err' \in {"none", "done"}
      /\ lowIdxs' = Matches(currKs', FALSE).idxs
  BY DEF NewEnumerator
<1>2. lowIdxs' \in SUBSET Itrs
  BY <1>1 DEF Matches, Eligible
<1>3. lowIdxs' \in SUBSET Nat /\ IsFiniteSet(lowIdxs')
  BY <1>2, EnumeratorAssumption, FS_Subset
<1>4. FirstOf(lowIdxs', 0) = {}
  BY <1>3, FirstOfNone
<1>5. unpassed' = {p \in Keys \X Itrs : p[1] \in ds[p[2]]}
  BY <1>1, <1>4 DEF unpassed
<1>6. ASSUME err' = "done" PROVE unpassed' = {}
  <2>1. current' = NoKey
    BY <1>6 DEF current
  <2>2. NoKey \notin unpassed'
    BY <1>5, EnumeratorAssumption
  <2>3. Join!Shows(unpassed', current')
    BY StepNew DEF Join!Restart
  <2> QED  BY <2>1, <2>2, <2>3 DEF Join!Shows, Join!Least
<1> QED  BY <1>1, <1>5, <1>6

AllTell == \A i \in Itrs : \A f : Tells(i, f)

LEMMA SynStart ==
  ASSUME AllTell, EInv, err = "done", MergedExactly, StartThesaurus
  PROVE  MergedExactly' /\ (synPc' = "field" \/ (synPc' = "entry" /\ AtSynEntry'))
<1> DEFINE f == Lowest(NewSynFields \ DOMAIN merged)
           ds == [i \in Itrs |-> IF Thesaurus(i, f) = Nothing THEN {} ELSE DOMAIN Thesaurus(i, f).fst]
<1>1. ASSUME NEW i \in Itrs
      PROVE  /\ Thesaurus(i, f) # Nothing => Loads(Thesaurus(i, f))
             /\ ds[i] \in SUBSET Keys
             /\ \A t : t \notin ds[i] => PartOf(i, f, t) = {}
  <2>1. Tells(i, f)
    BY DEF AllTell
  <2> HIDE DEF f
  <2>2. CASE Thesaurus(i, f) = Nothing
    BY <2>1, <2>2 DEF Tells, PartOf
  <2>3. CASE Thesaurus(i, f) # Nothing
    <3>1. Truthful(Thesaurus(i, f), i, batches[i], f)
      BY <2>1, <2>3 DEF Tells
    <3>2. ds[i] = DOMAIN Thesaurus(i, f).fst
      BY <2>3
    <3> HIDE DEF ds
    <3> QED  BY <3>1, <3>2 DEF Truthful, PartOf
  <2> QED  BY <2>2, <2>3
<1>2. synPc = "field" /\ drops' = drops /\ batches' = batches /\ thesauri' = thesauri
  BY DEF StartThesaurus
<1>3. \/ /\ \A i \in Itrs : ds[i] = {}
         /\ merged' = [g \in DOMAIN merged \cup {f} |-> IF g = f THEN Nothing ELSE merged[g]]
         /\ synPc' = synPc
      \/ /\ NewEnumerator(ds)
         /\ thesField' = f /\ synPc' = "entry" /\ merged' = merged
         /\ synRoaring' = {} /\ synPrev' = NoKey /\ synTerms' = <<>> /\ newFst' = <<>>
  <2> DEFINE thes == [i \in Itrs |-> Thesaurus(i, f)]
             es == [i \in Itrs |-> IF thes[i] = Nothing THEN {} ELSE DOMAIN thes[i].fst]
  <2>1. es = ds
    OBVIOUS
  <2>2. \A i \in Itrs : ~ (thes[i] # Nothing /\ ~Loads(thes[i]))
    BY <1>1
  <2>3. \/ /\ \A i \in Itrs : es[i] = {}
           /\ merged' = [g \in DOMAIN merged \cup {f} |-> IF g = f THEN Nothing ELSE merged[g]]
           /\ synPc' = synPc
        \/ /\ NewEnumerator(es)
           /\ thesField' = f /\ synPc' = "entry" /\ merged' = merged
           /\ synRoaring' = {} /\ synPrev' = NoKey /\ synTerms' = <<>> /\ newFst' = <<>>
    BY <2>2 DEF StartThesaurus
  <2> QED  BY <2>1, <2>3
<1>4. PICK g : g = f
  OBVIOUS
<1>5. PICK es : es = ds
  OBVIOUS
<1>6. /\ \A i \in Itrs : es[i] \in SUBSET Keys /\ \A t : t \notin es[i] => PartOf(i, g, t) = {}
      /\ es = [i \in Itrs |-> IF Thesaurus(i, g) = Nothing THEN {} ELSE DOMAIN Thesaurus(i, g).fst]
  BY <1>1, <1>4, <1>5
<1>7. \/ /\ \A i \in Itrs : es[i] = {}
         /\ merged' = [h \in DOMAIN merged \cup {g} |-> IF h = g THEN Nothing ELSE merged[h]]
         /\ synPc' = synPc
      \/ /\ NewEnumerator(es)
         /\ thesField' = g /\ synPc' = "entry" /\ merged' = merged
         /\ synRoaring' = {} /\ synPrev' = NoKey /\ synTerms' = <<>> /\ newFst' = <<>>
  BY <1>3, <1>4, <1>5
<1> HIDE DEF f, ds
<1>8. CASE /\ \A i \in Itrs : es[i] = {}
           /\ merged' = [h \in DOMAIN merged \cup {g} |-> IF h = g THEN Nothing ELSE merged[h]]
           /\ synPc' = synPc
  <2>1. ASSUME NEW t PROVE SaidBySurvivors(g, t)' = {}
    <3>1. \A i \in Itrs : PartOf(i, g, t) = {}
      BY <1>6, <1>8
    <3>2. SaidBySurvivors(g, t) = {}
      BY <3>1, SaidIsParts
    <3> QED  BY <1>2, <3>2, SaidStays
  <2>2. ASSUME NEW h \in DOMAIN merged', NEW t \in Keys
        PROVE  Readable(merged'[h]) /\ FoundIn(merged'[h], t, {}) = SaidBySurvivors(h, t)'
    <3>1. CASE h = g
      <4>1. merged'[h] = Nothing
        BY <1>8, <3>1
      <4>2. Readable(merged'[h]) /\ FoundIn(merged'[h], t, {}) = {}
        BY <4>1 DEF Readable, FoundIn
      <4> QED  BY <2>1, <3>1, <4>2
    <3>2. CASE h # g
      <4>1. h \in DOMAIN merged /\ merged'[h] = merged[h]
        BY <1>8, <3>2
      <4>2. SaidBySurvivors(h, t)' = SaidBySurvivors(h, t)
        BY <1>2, SaidStays
      <4> QED  BY <4>1, <4>2 DEF MergedExactly
    <3> QED  BY <3>1, <3>2
  <2>3. MergedExactly'
    BY <2>2 DEF MergedExactly
  <2> QED  BY <1>2, <1>8, <2>3
<1>9. CASE /\ NewEnumerator(es)
           /\ thesField' = g /\ synPc' = "entry" /\ merged' = merged
           /\ synRoaring' = {} /\ synPrev' = NoKey /\ synTerms' = <<>> /\ newFst' = <<>>
  <2>1. es \in [Itrs -> SUBSET Keys]
    BY <1>6
  <2>2. /\ unpassed' = {p \in Keys \X Itrs : p[1] \in es[p[2]]}
        /\ err' \in {"none", "done"} /\ (err' = "done" => unpassed' = {})
    BY <1>9, <2>1, EntriesNew
  <2>3. unpassed' \subseteq SynEntries'
    <3>1. ASSUME NEW p \in Keys \X Itrs, p[1] \in es[p[2]] PROVE p \in SynEntries'
      <4>1. p[2] \in Itrs /\ Thesaurus(p[2], g) # Nothing /\ p[1] \in DOMAIN Thesaurus(p[2], g).fst
        BY <1>6, <3>1
      <4>2. Thesaurus(p[2], thesField)' = Thesaurus(p[2], g)
        BY <1>2, <1>9 DEF Thesaurus
      <4> QED  BY <4>1, <4>2 DEF SynEntries
    <3> QED  BY <2>2, <3>1
  <2>4. Parts' = [i \in Itrs |-> [t \in Keys |-> PartOf(i, g, t)]]
    <3>1. Survivors' = Survivors
      BY <1>2 DEF Survivors
    <3> QED  BY <1>2, <1>9, <3>1 DEF Parts, PartOf, NewNum
  <2>5. PICK P, u : P = Parts' /\ u = unpassed'
    OBVIOUS
  <2>6. ASSUME NEW t \in Keys PROVE Heard(P, u, t) = {}
    <3>1. ASSUME NEW j \in Itrs, <<t, j>> \notin u PROVE P[j][t] = {}
      <4>1. t \notin es[j]
        BY <2>2, <2>5, <3>1
      <4>2. PartOf(j, g, t) = {}
        BY <1>6, <4>1
      <4> QED  BY <2>4, <2>5, <4>2
    <3> QED  BY <3>1 DEF Heard
  <2>7. Collects(P, <<>>, <<>>, u, NoKey, {}, {})
    <3>1. DOMAIN <<>> = {} /\ <<>> \in Seq(Nat \ {0})
      OBVIOUS
    <3>2. Distinct(<<>>) /\ CodesIn({}, <<>>)
      BY <3>1 DEF Distinct, CodesIn
    <3>3. KeepsHeard(P, <<>>, <<>>, u, NoKey)
      BY <2>6, <3>1 DEF KeepsHeard, Gathered
    <3> QED  BY <3>2, <3>3 DEF Collects
  <2>8. AtSynEntry'
    BY <1>9, <2>2, <2>3, <2>5, <2>7 DEF AtSynEntry
  <2>9. MergedExactly'
    BY <1>2, <1>9, MergedStays
  <2> QED  BY <1>9, <2>8, <2>9
<1> QED  BY <1>7, <1>8, <1>9

\* What the merge reads stays while it is at a field.
SynFixed == UNCHANGED <<drops, batches, thesauri, thesField>>

LEMMA SynStays ==
  ASSUME SynFixed
  PROVE  /\ Parts' = Parts /\ SynEntries' = SynEntries
         /\ (UNCHANGED itrVars => CurrentIdx' = CurrentIdx /\ CurrentCodes' = CurrentCodes)
<1>1. Survivors' = Survivors
  BY DEF Survivors, SynFixed
<1>2. Parts' = Parts
  BY <1>1 DEF Parts, PartOf, NewNum, SynFixed
<1>3. SynEntries' = SynEntries
  BY DEF SynEntries, Thesaurus, SynFixed
<1>4. ASSUME UNCHANGED itrVars PROVE CurrentIdx' = CurrentIdx /\ CurrentCodes' = CurrentCodes
  <2>1. CurrentIdx' = CurrentIdx
    BY <1>4 DEF CurrentIdx, itrVars
  <2> QED  BY <1>4, <2>1 DEF CurrentCodes, Thesaurus, itrVars, SynFixed
<1> QED  BY <1>2, <1>3, <1>4

\* The codes of the current entry and what they stand for.
LEMMA CurrentRead ==
  ASSUME AllTell, EInv, err = "none", unpassed \subseteq SynEntries
  PROVE  /\ Truthful(Thesaurus(CurrentIdx, thesField), CurrentIdx, batches[CurrentIdx], thesField)
         /\ lowK \in DOMAIN Thesaurus(CurrentIdx, thesField).fst /\ lowK # 0
         /\ ~ Fails(Thesaurus(CurrentIdx, thesField), CurrentCodes)
         /\ \A c \in CurrentCodes :
              /\ c \in Nat \X Nat /\ c[2] \notin drops[CurrentIdx]
              /\ c[1] \in DOMAIN Thesaurus(CurrentIdx, thesField).synTermMap
              /\ Thesaurus(CurrentIdx, thesField).synTermMap[c[1]] \in Nat \ {0}
         /\ Parts[CurrentIdx][lowK] =
              {<<Thesaurus(CurrentIdx, thesField).synTermMap[c[1]], NewNum(<<CurrentIdx, c[2]>>)>> :
                 c \in CurrentCodes}
<1> DEFINE i == CurrentIdx  x == Thesaurus(CurrentIdx, thesField)
<1>1. current = <<lowK, i>> /\ current \in unpassed /\ lowK \in Keys /\ i \in Itrs
  BY EntryHere
<1>2. x # Nothing /\ lowK \in DOMAIN x.fst
  <2>1. <<lowK, i>> \in SynEntries
    BY <1>1
  <2> QED  BY <2>1 DEF SynEntries
<1>3. Tells(i, thesField)
  BY <1>1 DEF AllTell
<1>4. Truthful(x, i, batches[i], thesField)
  BY <1>2, <1>3 DEF Tells
<1>5. CurrentCodes = {c \in x.fst[lowK] : c[2] \notin drops[i]}
  BY <1>2 DEF CurrentCodes, Codes
<1>6. Docs(i) \in SUBSET Nat
  BY <1>1, DocsAre
<1>7. Parts[i][lowK] = PartOf(i, thesField, lowK)
  BY <1>1 DEF Parts
<1>8. PartOf(i, thesField, lowK) = {<<x.synTermMap[c[1]], NewNum(<<i, c[2]>>)>> : c \in CurrentCodes}
  BY <1>1, <1>3, PartRead DEF CurrentCodes
<1> HIDE DEF i, x
<1>9. ASSUME NEW c \in CurrentCodes
      PROVE  /\ c \in Nat \X Nat /\ c[2] \notin drops[i] /\ c[1] \in DOMAIN x.synTermMap
             /\ x.synTermMap[c[1]] \in Nat \ {0}
  <2>1. c \in x.fst[lowK] /\ c[2] \notin drops[i]
    BY <1>5
  <2>2. c \in Nat \X Docs(i) /\ c[1] \in DOMAIN x.synTermMap
    BY <1>2, <1>4, <2>1 DEF Truthful
  <2>3. x.synTermMap[c[1]] \in Nat \ {0}
    BY <1>4, <2>2 DEF Truthful
  <2>4. c \in Nat \X Nat
    BY <1>6, <2>2
  <2> QED  BY <2>1, <2>2, <2>3, <2>4
<1>10. lowK # 0
  BY <1>2, <1>4 DEF Truthful
<1>11. ~ Fails(x, CurrentCodes)
  BY <1>9 DEF Fails
<1> QED  BY <1>2, <1>4, <1>7, <1>8, <1>9, <1>10, <1>11 DEF i, x

LEMMA SynBegin ==
  ASSUME AllTell, EInv, AtSynEntry, BeginSynonyms
  PROVE  AtSynCodes' /\ synPc' = "codes"
<1>1. /\ err = "none" /\ UNCHANGED itrVars /\ SynFixed /\ synTerms' = synTerms
      /\ synTodo' = CurrentCodes
      /\ synPc' = IF Fails(Thesaurus(CurrentIdx, thesField), synTodo') THEN "failed" ELSE "codes"
      /\ IF synPrev # NoKey /\ synPrev # lowK THEN FinishSynTerm(synPrev)
         ELSE UNCHANGED <<newFst, synRoaring>>
  BY DEF BeginSynonyms, SynFixed, CurrentCodes
<1>2. /\ unpassed \subseteq SynEntries
      /\ synPrev # NoKey => \A p \in unpassed : synPrev <= p[1]
      /\ Collects(Parts, newFst, synTerms, unpassed, synPrev, synRoaring, {})
  BY DEF AtSynEntry
<1>3. /\ current = <<lowK, CurrentIdx>> /\ current \in unpassed
      /\ lowK \in Keys /\ lowK \in Nat /\ CurrentIdx \in Itrs
      /\ \A p \in unpassed : lowK <= p[1] /\ p = <<p[1], p[2]>>
  BY <1>1, EntryHere
<1>4. Collects(Parts, newFst', synTerms, unpassed, lowK, synRoaring', {})
  <2>1. CASE synPrev = lowK
    BY <1>1, <1>2, <2>1
  <2>2. CASE synPrev # lowK
    <3>1. Collects(Parts, newFst', synTerms, unpassed, NoKey, {}, {}) /\ synRoaring' = {}
      <4>1. CASE synPrev = NoKey
        <5>1. synRoaring = {}
          BY <1>2, <4>1 DEF Collects
        <5> QED  BY <1>1, <1>2, <4>1, <5>1
      <4>2. CASE synPrev # NoKey
        <5>1. newFst' = FinishedWith(newFst, synRoaring, synPrev) /\ synRoaring' = {}
          BY <1>1, <2>2, <4>2 DEF FinishSynTerm, FinishedWith
        <5>2. synPrev \in Keys
          BY <1>2, <4>2 DEF Collects
        <5>3. synPrev \in Nat
          BY <5>2, EnumeratorAssumption
        <5>4. synPrev <= lowK
          <6>1. synPrev <= current[1]
            BY <1>2, <1>3, <4>2
          <6> QED  BY <1>3, <6>1
        <5>5. ASSUME NEW j \in Itrs PROVE <<synPrev, j>> \notin unpassed
          <6>1. ~ (lowK <= synPrev)
            BY <1>3, <2>2, <5>3, <5>4
          <6> QED  BY <1>3, <6>1
        <5> QED  BY <1>2, <5>1, <5>5, FinishCollected
      <4> QED  BY <4>1, <4>2
    <3>2. <<lowK, CurrentIdx>> \in unpassed
      BY <1>3
    <3> QED  BY <1>3, <3>1, <3>2, OpenCollected
  <2> QED  BY <2>1, <2>2
<1>5. /\ Parts' = Parts /\ SynEntries' = SynEntries /\ CurrentCodes' = CurrentCodes
      /\ unpassed' = unpassed /\ lowK' = lowK /\ err' = err
  BY <1>1, SynStays, EnumeratorStays DEF Join!joinVars, itrVars
<1>6. Added' = {}
  <2>1. CurrentCodes' \ synTodo' = {}
    BY <1>1, <1>5
  <2> QED  BY <2>1 DEF Added
<1>7. synPc' = "codes"
  BY <1>1, <1>2, CurrentRead
<1> QED  BY <1>1, <1>2, <1>4, <1>5, <1>6, <1>7 DEF AtSynCodes

\* A set of codes has a least one.
LEMMA LeastCode ==
  ASSUME NEW S \in SUBSET (Nat \X Nat), S # {}
  PROVE  \E c \in S : \A e \in S \ {c} : c[1] < e[1] \/ (c[1] = e[1] /\ c[2] < e[2])
<1> DEFINE A == {c[1] : c \in S}  a == Lowest(A)
           B == {c[2] : c \in {d \in S : d[1] = a}}  b == Lowest(B)
<1>1. \A c \in S : c[1] \in Nat /\ c[2] \in Nat /\ c = <<c[1], c[2]>>
  OBVIOUS
<1>2. a \in A /\ \A k \in A : a <= k
  <2>1. A \in SUBSET Nat /\ A # {}
    BY <1>1
  <2> HIDE DEF A
  <2> QED  BY <2>1, LowestIs
<1> HIDE DEF a
<1>3. b \in B /\ \A k \in B : b <= k
  <2>1. B \in SUBSET Nat /\ B # {}
    BY <1>1, <1>2
  <2> HIDE DEF B
  <2> QED  BY <2>1, LowestIs
<1> HIDE DEF b
<1>4. PICK c \in S : c[1] = a /\ c[2] = b
  BY <1>3
<1>5. ASSUME NEW e \in S \ {c} PROVE c[1] < e[1] \/ (c[1] = e[1] /\ c[2] < e[2])
  <2>1. c[1] <= e[1] /\ (e[1] = a => c[2] <= e[2])
    BY <1>2, <1>3, <1>4
  <2>2. c[1] # e[1] \/ c[2] # e[2]
    BY <1>1
  <2>3. c[1] \in Nat /\ c[2] \in Nat /\ e[1] \in Nat /\ e[2] \in Nat
    BY <1>1
  <2> QED  BY <1>4, <2>1, <2>2, <2>3
<1> QED  BY <1>5

LEMMA SynAdd ==
  ASSUME AllTell, EInv, AtSynCodes, AddSynonym
  PROVE  AtSynCodes' /\ synPc' = synPc
<1> DEFINE x == Thesaurus(CurrentIdx, thesField)
<1>1. /\ UNCHANGED itrVars /\ SynFixed /\ newFst' = newFst /\ synTodo # {}
  BY DEF AddSynonym, SynFixed
<1>2. /\ err = "none" /\ unpassed \subseteq SynEntries /\ synTodo \subseteq CurrentCodes
      /\ Collects(Parts, newFst, synTerms, unpassed, lowK, synRoaring, Added)
  BY DEF AtSynCodes
<1>3. \A c \in CurrentCodes : /\ c \in Nat \X Nat /\ c[2] \notin drops[CurrentIdx]
                              /\ x.synTermMap[c[1]] \in Nat \ {0}
  BY <1>2, CurrentRead
<1>4. synTodo \in SUBSET (Nat \X Nat)
  BY <1>2, <1>3
<1>5. PICK c \in synTodo :
        /\ synTodo' = synTodo \ {c}
        /\ IF c[2] \in drops[CurrentIdx]
           THEN synPc' = "failed" /\ UNCHANGED <<synTerms, synRoaring>>
           ELSE /\ synTerms' = IF x.synTermMap[c[1]] \in Members(synTerms) THEN synTerms
                               ELSE Append(synTerms, x.synTermMap[c[1]])
                /\ synRoaring' = synRoaring \cup
                     {<<Rank(synTerms', x.synTermMap[c[1]]), NewNum(<<CurrentIdx, c[2]>>)>>}
                /\ UNCHANGED synPc
  <2> DEFINE c == CHOOSE c \in synTodo : \A e \in synTodo \ {c} :
                    c[1] < e[1] \/ (c[1] = e[1] /\ c[2] < e[2])
  <2>1. c \in synTodo
    BY <1>1, <1>4, LeastCode
  <2>2. /\ synTodo' = synTodo \ {c}
        /\ IF c[2] \in drops[CurrentIdx]
           THEN synPc' = "failed" /\ UNCHANGED <<synTerms, synRoaring>>
           ELSE /\ synTerms' = IF x.synTermMap[c[1]] \in Members(synTerms) THEN synTerms
                               ELSE Append(synTerms, x.synTermMap[c[1]])
                /\ synRoaring' = synRoaring \cup
                     {<<Rank(synTerms', x.synTermMap[c[1]]), NewNum(<<CurrentIdx, c[2]>>)>>}
                /\ UNCHANGED synPc
    BY DEF AddSynonym
  <2> HIDE DEF c
  <2> QED  BY <2>1, <2>2
<1> DEFINE s == x.synTermMap[c[1]]  num == NewNum(<<CurrentIdx, c[2]>>)
<1>6. c \in CurrentCodes /\ c[2] \notin drops[CurrentIdx] /\ s \in Nat \ {0}
  BY <1>2, <1>3
<1>7. /\ \/ s \in Members(synTerms) /\ synTerms' = synTerms
         \/ s \notin Members(synTerms) /\ synTerms' = Append(synTerms, s)
      /\ synRoaring' = synRoaring \cup {<<Rank(synTerms', s), num>>}
      /\ synPc' = synPc
  BY <1>5, <1>6
<1>8. lowK \in Keys
  BY <1>2, EntryHere
<1>9. Added' = Added \cup {<<s, num>>}
  <2>1. CurrentIdx' = CurrentIdx /\ CurrentCodes' = CurrentCodes
    BY <1>1, SynStays
  <2>2. (CurrentCodes \ synTodo') = (CurrentCodes \ synTodo) \cup {c}
    BY <1>5, <1>6
  <2>3. Survivors' = Survivors
    BY <1>1 DEF Survivors, SynFixed
  <2> DEFINE Q(d) == <<x.synTermMap[d[1]], NewNum(<<CurrentIdx, d[2]>>)>>
  <2>4. Added = {Q(d) : d \in CurrentCodes \ synTodo}
    BY DEF Added
  <2>5. Added' = {Q(d) : d \in CurrentCodes \ synTodo'}
    BY <1>1, <2>1, <2>3 DEF Added, Thesaurus, NewNum, SynFixed
  <2>6. Q(c) = <<s, num>>
    OBVIOUS
  <2> HIDE DEF Q
  <2> QED  BY <2>2, <2>4, <2>5, <2>6
<1> HIDE DEF s, num
<1>10. Collects(Parts, newFst, synTerms', unpassed, lowK,
                synRoaring \cup {<<Rank(synTerms', s), num>>}, Added \cup {<<s, num>>})
  BY <1>2, <1>6, <1>7, <1>8, AddCollected
<1>11. /\ Parts' = Parts /\ SynEntries' = SynEntries /\ CurrentCodes' = CurrentCodes
       /\ unpassed' = unpassed /\ lowK' = lowK /\ err' = err
  BY <1>1, SynStays, EnumeratorStays DEF Join!joinVars, itrVars
<1> QED  BY <1>1, <1>2, <1>5, <1>7, <1>9, <1>10, <1>11 DEF AtSynCodes

LEMMA SynEnd ==
  ASSUME AllTell, EInv, AtSynCodes, EndSynonyms
  PROVE  (synPc' = "failed" /\ err' = "error") \/ (synPc' = "entry" /\ AtSynEntry')
<1>1. /\ synTodo = {} /\ Next /\ SynFixed /\ UNCHANGED <<synRoaring, synTerms, newFst>>
      /\ synPrev' = IF lowK = 0 /\ synPrev = NoKey THEN NoKey ELSE lowK
      /\ synPc' = IF err' = "error" THEN "failed" ELSE "entry"
  BY DEF EndSynonyms, SynFixed
<1>2. /\ err = "none" /\ unpassed \subseteq SynEntries
      /\ Collects(Parts, newFst, synTerms, unpassed, lowK, synRoaring, Added)
  BY DEF AtSynCodes
<1>3. /\ current = <<lowK, CurrentIdx>> /\ current \in unpassed
      /\ lowK \in Keys /\ CurrentIdx \in Itrs /\ \A p \in unpassed : lowK <= p[1]
  BY <1>2, EntryHere
<1>4. synPrev' = lowK
  BY <1>1, <1>2, CurrentRead
<1>5. Added = Parts[CurrentIdx][lowK]
  <2>1. CurrentCodes \ synTodo = CurrentCodes
    BY <1>1
  <2> QED  BY <1>2, <2>1, CurrentRead DEF Added
<1>6. Collects(Parts, newFst, synTerms, unpassed \ {current}, lowK, synRoaring, {})
  BY <1>2, <1>3, <1>5, PassCollected
<1>7. CASE err' # "error"
  <2>1. /\ unpassed' = unpassed \ {current}
        /\ err' \in {"none", "done"} /\ (err' = "done" => unpassed' = {})
    BY <1>1, <1>7, EntryPassed
  <2>2. Parts' = Parts /\ SynEntries' = SynEntries
    BY <1>1, SynStays
  <2>3. \A p \in unpassed' : lowK <= p[1]
    BY <1>3, <2>1
  <2>4. AtSynEntry'
    BY <1>1, <1>2, <1>4, <1>6, <2>1, <2>2, <2>3 DEF AtSynEntry
  <2> QED  BY <1>1, <1>7, <2>4
<1> QED  BY <1>1, <1>7

LEMMA SynFinish ==
  ASSUME NothingApart, AtSynEntry, MergedExactly, FinishThesaurus
  PROVE  MergedExactly' /\ synPc' = "field"
<1>1. /\ err = "done" /\ SynFixed /\ synPc' = "field"
      /\ IF synPrev # NoKey THEN FinishSynTerm(synPrev) ELSE UNCHANGED <<newFst, synRoaring>>
      /\ merged' = [g \in DOMAIN merged \cup {thesField} |->
           IF g = thesField
           THEN [fst |-> newFst', synTermMap |-> [id \in 0..(Len(synTerms) - 1) |-> synTerms[id + 1]]]
           ELSE merged[g]]
  BY DEF FinishThesaurus, SynFixed
<1>2. unpassed = {} /\ Collects(Parts, newFst, synTerms, unpassed, synPrev, synRoaring, {})
  BY <1>1 DEF AtSynEntry
<1>3. Collects(Parts, newFst', synTerms, {}, NoKey, {}, {})
  <2>1. CASE synPrev = NoKey
    <3>1. synRoaring = {} /\ newFst' = newFst
      BY <1>1, <1>2, <2>1 DEF Collects
    <3> QED  BY <1>2, <2>1, <3>1
  <2>2. CASE synPrev # NoKey
    <3>1. newFst' = FinishedWith(newFst, synRoaring, synPrev)
      BY <1>1, <2>2 DEF FinishSynTerm, FinishedWith
    <3>2. \A j \in Itrs : <<synPrev, j>> \notin unpassed
      BY <1>2
    <3>3. Collects(Parts, newFst', synTerms, unpassed, NoKey, {}, {})
      BY <1>2, <3>1, <3>2, FinishCollected
    <3> QED  BY <1>2, <3>3
  <2> QED  BY <2>1, <2>2
<1> DEFINE x == [fst |-> newFst', synTermMap |-> [id \in 0..(Len(synTerms) - 1) |-> synTerms[id + 1]]]
<1>4. ASSUME NEW t \in Keys
      PROVE  Readable(x) /\ FoundIn(x, t, {}) = UNION {Parts[j][t] : j \in Itrs}
  <2>1. PICK P, nf, sy : P = Parts /\ nf = newFst' /\ sy = synTerms
    OBVIOUS
  <2>2. Collects(P, nf, sy, {}, NoKey, {}, {})
    BY <1>3, <2>1
  <2>3. /\ Readable(NewThesaurus(nf, sy))
        /\ FoundIn(NewThesaurus(nf, sy), t, {}) = UNION {P[j][t] : j \in Itrs}
    BY <2>2, MergedReads
  <2>4. NewThesaurus(nf, sy) = x
    BY <2>1 DEF NewThesaurus
  <2> HIDE DEF x
  <2> QED  BY <2>1, <2>3, <2>4
<1>5. PICK g : g = thesField
  OBVIOUS
<1>6. merged' = [h \in DOMAIN merged \cup {g} |-> IF h = g THEN x ELSE merged[h]]
  BY <1>1, <1>5
<1> HIDE DEF x
<1>7. ASSUME NEW h \in DOMAIN merged', NEW t \in Keys
      PROVE  Readable(merged'[h]) /\ FoundIn(merged'[h], t, {}) = SaidBySurvivors(h, t)'
  <2>1. SaidBySurvivors(h, t)' = SaidBySurvivors(h, t)
    BY <1>1, SaidStays DEF SynFixed
  <2>2. CASE h = g
    <3>1. merged'[h] = x
      BY <1>6, <2>2
    <3>2. \A j \in Itrs : Parts[j][t] = PartOf(j, g, t)
      BY <1>5 DEF Parts
    <3>3. SaidBySurvivors(h, t) = UNION {Parts[j][t] : j \in Itrs}
      BY <2>2, <3>2, SaidIsParts
    <3> QED  BY <1>4, <2>1, <3>1, <3>3
  <2>3. CASE h # g
    <3>1. h \in DOMAIN merged /\ merged'[h] = merged[h]
      BY <1>6, <2>3
    <3> QED  BY <2>1, <3>1 DEF MergedExactly
  <2> QED  BY <2>2, <2>3
<1> QED  BY <1>1, <1>7 DEF MergedExactly

-----------------------------------------------------------------------------
(* Whatever the opaque was used for before, thesauri say what the documents *)
(* do.                                                                     *)

NoThesauri == synPc = "build" /\ merged = <<>> /\ \A i \in Itrs : thesauri[i] = Nothing

SynInv ==
  /\ JoinInv
  /\ section = "synonyms" =>
       /\ BatchesGiven /\ BuiltInv /\ MergedExactly
       /\ synPc = "entry" => AtSynEntry
       /\ synPc = "codes" => AtSynCodes
       /\ synPc = "failed" => err = "error"
  /\ section # "synonyms" => NoThesauri

LEMMA InitSynInv == SectionsInit => SynInv
<1> SUFFICES ASSUME SectionsInit PROVE SynInv
  OBVIOUS
<1>1. JoinInv
  BY InitJoinInv
<1>2. /\ synPc = "build" /\ merged = <<>> /\ thesauri = [i \in Itrs |-> Nothing]
      /\ so = [FieldIDtoThesaurusID |-> Nothing, Synonyms |-> <<>>, len |-> 0,
               thesaurusAddrs |-> <<>>]
  BY DEF SectionsInit, SynonymsStart, NewOpaque
<1>3. NoneLeft(so)
  <2>1. <<>> \in Seq({{}})
    OBVIOUS
  <2> QED  BY <1>2, <2>1 DEF NoneLeft, IsOpaque
<1>4. BuiltInv /\ NoThesauri
  BY <1>2, <1>3 DEF BuiltInv, NoThesauri
<1>5. MergedExactly
  <2>1. DOMAIN merged = {}
    BY <1>2
  <2> QED  BY <2>1 DEF MergedExactly
<1>6. section = "synonyms" => BatchesGiven
  BY DEF SectionsInit, SynonymInputs, BatchesGiven
<1> QED  BY <1>1, <1>2, <1>4, <1>5, <1>6 DEF SynInv

LEMMA UnchangedSynonyms ==
  ASSUME BatchesGiven, BuiltInv, MergedExactly, UNCHANGED <<itrVars, drops, synVars>>
  PROVE  /\ BatchesGiven' /\ BuiltInv' /\ MergedExactly'
         /\ AtSynEntry => AtSynEntry'
         /\ AtSynCodes => AtSynCodes'
         /\ synPc' = synPc /\ err' = err
<1>1. /\ UNCHANGED <<batches, so, thesauri, synPc, thesField, synRoaring, synTodo, synPrev,
                     synTerms, newFst, merged>>
      /\ drops' = drops /\ SynFixed /\ err' = err /\ lowK' = lowK /\ UNCHANGED itrVars
  BY DEF synVars, SynFixed, itrVars
<1>2. BatchesGiven' /\ BuiltInv'
  BY <1>1 DEF BatchesGiven, BuiltInv, NoneLeft, IsOpaque
<1>3. MergedExactly'
  BY <1>1, MergedStays
<1>4. /\ Parts' = Parts /\ SynEntries' = SynEntries
      /\ CurrentIdx' = CurrentIdx /\ CurrentCodes' = CurrentCodes
  BY <1>1, SynStays
<1>5. unpassed' = unpassed
  BY <1>1 DEF unpassed, itrVars
<1>6. Survivors' = Survivors
  BY <1>1 DEF Survivors
<1>7. Added' = Added
  BY <1>1, <1>4, <1>6 DEF Added, Thesaurus, NewNum
<1>8. AtSynEntry => AtSynEntry'
  BY <1>1, <1>4, <1>5 DEF AtSynEntry
<1>9. AtSynCodes => AtSynCodes'
  BY <1>1, <1>4, <1>5, <1>7 DEF AtSynCodes
<1> QED  BY <1>1, <1>2, <1>3, <1>8, <1>9

LEMMA SynStep ==
  ASSUME NothingApart, NoEmptyStrings, SynInv, [SectionsNext]_sectionVars
  PROVE  SynInv'
<1>1. JoinInv' /\ EInv
  BY JoinStep DEF SynInv, JoinInv
<1>2. CASE SynonymSection
  <2>1. /\ section = "synonyms" /\ section' = "synonyms" /\ SynonymsNext
        /\ BatchesGiven /\ BuiltInv /\ MergedExactly
        /\ synPc \in {"build", "field"} => err = "done"
    BY <1>2 DEF SynonymSection, SynInv, JoinInv
  <2>2. AllTell \/ synPc = "build"
    BY <2>1, SegmentTells DEF AllTell, BuiltInv
  <2>3. BatchesGiven' /\ drops' = drops /\ batches' = batches
    BY <2>1 DEF SynonymsNext, BatchesGiven, BuildSegment, SynonymsClosed, StartThesaurus,
                BeginSynonyms, AddSynonym, EndSynonyms, FinishThesaurus
  <2>4. ASSUME UNCHANGED <<so, thesauri>>, synPc # "build" PROVE BuiltInv'
    BY <2>1, <2>3, <2>4 DEF BuiltInv, NoneLeft, IsOpaque
  <2>5. ASSUME merged' = merged PROVE MergedExactly'
    BY <2>1, <2>3, <2>5, MergedStays
  <2> SUFFICES /\ BuiltInv' /\ MergedExactly'
               /\ synPc' = "entry" => AtSynEntry'
               /\ synPc' = "codes" => AtSynCodes'
               /\ synPc' = "failed" => err' = "error"
    BY <1>1, <2>1, <2>3 DEF SynInv
  <2>6. CASE BuildSegment
    BY <2>1, <2>5, <2>6, BuildThesauriStep
  <2>7. CASE SynonymsClosed
    <3>1. UNCHANGED <<so, thesauri, merged>> /\ synPc # "build" /\ synPc' = "closed"
      BY <2>7 DEF SynonymsClosed, mergeSynVars
    <3> QED  BY <2>4, <2>5, <3>1
  <2>8. CASE StartThesaurus
    <3>1. UNCHANGED <<so, thesauri>> /\ synPc = "field"
      BY <2>8 DEF StartThesaurus
    <3>2. MergedExactly' /\ (synPc' = "field" \/ (synPc' = "entry" /\ AtSynEntry'))
      BY <1>1, <2>1, <2>2, <2>8, <3>1, SynStart
    <3> QED  BY <2>4, <3>1, <3>2
  <2>9. CASE BeginSynonyms
    <3>1. UNCHANGED <<so, thesauri, merged>> /\ synPc = "entry"
      BY <2>9 DEF BeginSynonyms
    <3>2. AtSynEntry
      BY <2>1, <3>1 DEF SynInv
    <3>3. AtSynCodes' /\ synPc' = "codes"
      BY <1>1, <2>2, <2>9, <3>1, <3>2, SynBegin
    <3> QED  BY <2>4, <2>5, <3>1, <3>3
  <2>10. CASE AddSynonym
    <3>1. UNCHANGED <<so, thesauri, merged>> /\ synPc = "codes"
      BY <2>10 DEF AddSynonym
    <3>2. AtSynCodes
      BY <2>1, <3>1 DEF SynInv
    <3>3. AtSynCodes' /\ synPc' = "codes"
      BY <1>1, <2>2, <2>10, <3>1, <3>2, SynAdd
    <3> QED  BY <2>4, <2>5, <3>1, <3>3
  <2>11. CASE EndSynonyms
    <3>1. UNCHANGED <<so, thesauri, merged>> /\ synPc = "codes"
      BY <2>11 DEF EndSynonyms
    <3>2. AtSynCodes
      BY <2>1, <3>1 DEF SynInv
    <3>3. (synPc' = "failed" /\ err' = "error") \/ (synPc' = "entry" /\ AtSynEntry')
      BY <1>1, <2>2, <2>11, <3>1, <3>2, SynEnd
    <3> QED  BY <2>4, <2>5, <3>1, <3>3
  <2>12. CASE FinishThesaurus
    <3>1. UNCHANGED <<so, thesauri>> /\ synPc = "entry"
      BY <2>12 DEF FinishThesaurus
    <3>2. AtSynEntry
      BY <2>1, <3>1 DEF SynInv
    <3>3. MergedExactly' /\ synPc' = "field"
      BY <2>1, <2>12, <3>2, SynFinish
    <3> QED  BY <2>4, <3>1, <3>3
  <2> QED
    BY <2>1, <2>6, <2>7, <2>8, <2>9, <2>10, <2>11, <2>12 DEF SynonymsNext
<1>3. ASSUME section' = section, section # "synonyms", UNCHANGED synVars
      PROVE  SynInv'
  BY <1>1, <1>3 DEF SynInv, NoThesauri, synVars
<1>4. CASE Text
  BY <1>3, <1>4 DEF Text
<1>5. CASE VectorIndexes
  BY <1>3, <1>5 DEF VectorIndexes
<1>6. CASE Searches
  BY <1>3, <1>6 DEF Searches
<1>7. CASE LookUps
  BY <1>3, <1>7 DEF LookUps
<1>8. CASE UNCHANGED sectionVars
  <2>1. section' = section /\ UNCHANGED <<itrVars, drops, synVars>> /\ UNCHANGED synVars
    BY <1>8 DEF sectionVars, mergeVars, fixed
  <2>2. CASE section # "synonyms"
    BY <1>3, <2>1, <2>2
  <2>3. CASE section = "synonyms"
    BY <1>1, <2>1, <2>3, UnchangedSynonyms DEF SynInv
  <2> QED  BY <2>2, <2>3
<1> QED  BY <1>2, <1>4, <1>5, <1>6, <1>7, <1>8 DEF SectionsNext

LEMMA SynInvMeans ==
  ASSUME NothingApart, NoEmptyStrings, SynInv
  PROVE  ThesaurusExact
<1>1. CASE section # "synonyms"
  <2>1. synPc = "build" /\ merged = <<>> /\ \A i \in Itrs : thesauri[i] = Nothing
    BY <1>1 DEF SynInv, NoThesauri
  <2>2. DOMAIN merged = {}
    BY <2>1
  <2> QED  BY <2>1, <2>2 DEF ThesaurusExact
<1>2. CASE section = "synonyms"
  <2>1. BatchesGiven /\ BuiltInv /\ MergedExactly /\ (synPc = "failed" => err = "error")
    BY <1>2 DEF SynInv
  <2>2. ASSUME NEW i \in Itrs, thesauri[i] # Nothing, NEW f \in BatchFields(batches[i]),
               NEW term \in Keys, NEW except
        PROVE  /\ Readable(Thesaurus(i, f))
               /\ FoundIn(Thesaurus(i, f), term, except) = {h \in Said(i, f, term) : h[2] \notin except}
    <3>1. Truthful(Thesaurus(i, f), i, batches[i], f)
      BY <2>1, <2>2, SegmentTells DEF Tells
    <3>2. Said(i, f, term) = SaidIn(batches[i], f, term)
      BY DEF Said, SaidIn
    <3> QED  BY <3>1, <3>2, TruthfulReads
  <2> QED  BY <2>1, <2>2 DEF ThesaurusExact, MergedExactly
<1> QED  BY <1>1, <1>2

\* Thesauri are exact (ThesaurusExact; section_synonym_index.go, synonym_cache.go,
\* synonym_posting.go): one that was built says of every term what its documents
\* do, whatever the opaque of the builder was used for before, and the merged one
\* what the documents say that survive, for any batches, fields, drops and order
\* of the builds.  The terms and the synonyms are not empty: with an empty synonym
\* a thesaurus does not load, and the merge does not finish an empty term.
THEOREM ThesaurusAlwaysExact ==
  ASSUME NothingApart, NoEmptyStrings
  PROVE  SectionsSpec => []ThesaurusExact
<1>1. SynInv /\ [SectionsNext]_sectionVars => SynInv'
  BY SynStep
<1>2. SynInv => ThesaurusExact
  BY SynInvMeans
<1> QED  BY InitSynInv, <1>1, <1>2, PTL DEF SectionsSpec
==============================================================================
