----------------------------- MODULE Enumerator -----------------------------
(***************************************************************************)
(* The enumerator over several dictionary iterators (enumerator.go).       *)
(*                                                                         *)
(* Keys are numbers in the order of bytes.Compare and 0 is the empty key.  *)
(* lowIdxs is filled in the order of the iterators, so the list is given   *)
(* by its members.  The value of an entry is a function of key and         *)
(* iterator and never 0, as no dictionary entry is.                        *)
(***************************************************************************)
EXTENDS Integers, FiniteSets

CONSTANTS
  Itrs,   \* indexes of the iterators
  Keys,   \* keys the dictionaries may hold
  NoKey   \* nil

ASSUME EnumeratorAssumption ==
  /\ Itrs \subseteq Nat /\ IsFiniteSet(Itrs)
  /\ Keys \subseteq Nat /\ IsFiniteSet(Keys)
  /\ NoKey \notin Nat /\ NoKey \notin Keys \X Itrs

VARIABLES
  dicts,    \* the keys of each dictionary; they do not change
  rest,     \* the keys each iterator has not passed
  currKs,   \* currKs
  lowK,     \* lowK
  lowIdxs,  \* lowIdxs
  lowCurr,  \* lowCurr
  err       \* what the last call returned: "none", "done" or "error"

itrVars == <<dicts, rest, currKs, lowK, lowIdxs, lowCurr, err>>

TypeOK ==
  /\ dicts \in [Itrs -> SUBSET Keys]
  /\ rest \in [Itrs -> SUBSET Keys]
  /\ currKs \in [Itrs -> Keys \cup {0, NoKey}]
  /\ lowK \in Keys \cup {0, NoKey}
  /\ lowIdxs \subseteq Itrs
  /\ lowCurr \in 0..Cardinality(lowIdxs)
  /\ err \in {"none", "done", "error"}

Lowest(S) == CHOOSE k \in S : \A l \in S : k <= l

\* Current of a vellum iterator: an exhausted one is back at the root of its
\* automaton, and shows the empty key again if the dictionary has it.
ItrCurrent(dict, left) ==
  IF left # {} THEN Lowest(left) ELSE IF 0 \in dict THEN 0 ELSE NoKey

\* updateMatches, for the given currKs.
Eligible(ks, skipEmptyKey) ==
  {i \in Itrs : ks[i] # NoKey /\ ~(skipEmptyKey /\ ks[i] = 0)}
LowKey(ks, S) == IF S = {} THEN NoKey ELSE Lowest({ks[i] : i \in S})

Matches(ks, skipEmptyKey) ==
  LET S == Eligible(ks, skipEmptyKey)
  IN  [key |-> LowKey(ks, S), idxs |-> {i \in S : ks[i] = LowKey(ks, S)}]

FirstKeys(ds) == [i \in Itrs |-> ItrCurrent(ds[i], ds[i])]

\* Before the first enumerator is made, and once one is through.
NoEnumerator ==
  /\ dicts = [i \in Itrs |-> {}] /\ rest = dicts
  /\ currKs = FirstKeys(dicts)
  /\ lowK = NoKey /\ lowIdxs = {} /\ lowCurr = 0
  /\ err = "done"

\* newEnumerator, over iterators that stand at their first key.
NewEnumerator(ds) ==
  /\ dicts' = ds /\ rest' = ds
  /\ currKs' = FirstKeys(ds)
  /\ lowK' = Matches(currKs', FALSE).key
  /\ lowIdxs' = Matches(currKs', FALSE).idxs
  /\ lowCurr' = 0
  /\ err' = IF lowIdxs' = {} THEN "done" ELSE "none"

\* Next, to another iterator that has the same key.
NextSameKey ==
  /\ err = "none"
  /\ lowCurr + 1 < Cardinality(lowIdxs)
  /\ lowCurr' = lowCurr + 1
  /\ UNCHANGED <<dicts, rest, currKs, lowK, lowIdxs, err>>

\* The iterators of S move on, and currKs follows them.
Move(S) ==
  /\ rest' = [i \in Itrs |-> IF i \in S THEN rest[i] \ {lowK} ELSE rest[i]]
  /\ currKs' = [i \in Itrs |->
       IF i \in S THEN ItrCurrent(dicts[i], rest'[i]) ELSE currKs[i]]

\* Mutant of NextKey: leaves a key with its last iterator still to come.
MutNextKeyEarly ==
  /\ err = "none"
  /\ lowCurr + 2 >= Cardinality(lowIdxs)
  /\ Move(lowIdxs)
  /\ lowK' = Matches(currKs', TRUE).key
  /\ lowIdxs' = Matches(currKs', TRUE).idxs
  /\ lowCurr' = 0
  /\ err' = IF lowIdxs' = {} THEN "done" ELSE "none"
  /\ UNCHANGED dicts

\* Next, to the next key.
NextKey ==
  /\ err = "none"
  /\ lowCurr + 1 >= Cardinality(lowIdxs)
  /\ Move(lowIdxs)
  /\ lowK' = Matches(currKs', TRUE).key
  /\ lowIdxs' = Matches(currKs', TRUE).idxs
  /\ lowCurr' = 0
  /\ err' = IF lowIdxs' = {} THEN "done" ELSE "none"
  /\ UNCHANGED dicts

\* Next when an iterator fails: those before it have moved, and nothing tells
\* but the error.
NextFails ==
  /\ err = "none"
  /\ lowCurr + 1 >= Cardinality(lowIdxs)
  /\ \E i \in lowIdxs : Move({j \in lowIdxs : j < i})
  /\ lowCurr' = lowCurr + 1
  /\ err' = "error"
  /\ UNCHANGED <<dicts, lowK, lowIdxs>>

\* enumerator.Next.
Next == NextSameKey \/ NextKey \/ NextFails

-----------------------------------------------------------------------------
\* The first n members of a set of indexes, and the one after them.
FirstOf(S, n) == {i \in S : Cardinality({j \in S : j < i}) < n}
After(S, n)   == CHOOSE i \in FirstOf(S, n + 1) : i \notin FirstOf(S, n)

\* Current's iterator.
CurrentIdx == After(lowIdxs, lowCurr)

\* A merge that has no enumerator, or one that is through, makes another.
EnumeratorNext ==
  \/ Next
  \/ err # "none" /\ \E ds \in [Itrs -> SUBSET Keys] : NewEnumerator(ds)

EnumeratorSpec == NoEnumerator /\ [][EnumeratorNext]_itrVars

\* The entries that have not been passed, and the one Current returns.
unpassed == {p \in Keys \X Itrs : p[1] \in rest[p[2]]}
              \ {<<lowK, i>> : i \in FirstOf(lowIdxs, lowCurr)}
current  == IF err = "none" THEN <<lowK, CurrentIdx>> ELSE NoKey

\* The enumerator implements the ordered join its comment promises (enumerator.
\* go:23-27): sorted by key, then iterator index, nothing left out or repeated,
\* and no entry once it is through.
Join == INSTANCE SortedJoin WITH
          Sources <- Itrs, Nobody <- NoKey, left <- unpassed, shown <- current

ImplementsJoin == Join!JoinSpec
=============================================================================
