----------------------------- MODULE Dictionary -----------------------------
(***************************************************************************)
(* Looking terms up in the dictionary of a field (dict.go): the postings   *)
(* list the caller hands back to be used again (posting.go), the iterator  *)
(* over the dictionary with the list it keeps for its counts, and the      *)
(* documents of a set of IDs (DocNumbers, segment.go).                     *)
(*                                                                         *)
(* Terms are numbers in their order.  An entry of the dictionary leads to  *)
(* its documents or, in the 1-hit encoding, is one; offsets and chunks are *)
(* those of the modules MergeTerms and PostingsIterator.                   *)
(***************************************************************************)
EXTENDS Integers, FiniteSets

CONSTANTS
  Terms,      \* bound: terms that are looked up
  DictValues, \* bound: values of an entry: oneHit, and docs
  DictDocs,   \* bound: documents a caller may leave out
  NoList      \* nil, of a list or a dictionary

\* What a dictionary may hold.
Dicts == UNION {[S -> DictValues] : S \in SUBSET Terms}

ASSUME DictionaryAssumption ==
  /\ Terms \subseteq Nat /\ IsFiniteSet(Terms)
  /\ IsFiniteSet(DictDocs)
  /\ \A d \in Dicts \cup DictDocs \cup SUBSET DictDocs : d # NoList
  /\ \A v \in DictValues :
       /\ v.oneHit \in BOOLEAN /\ v.docs \subseteq DictDocs
       /\ v.docs # {} /\ (v.oneHit => Cardinality(v.docs) = 1)

VARIABLES
  dict,    \* the dictionary
  pl,      \* the list the caller has, or NoList
  asked,   \* what it was asked for: the documents, and those left out
  itrLeft, \* the terms the dictionary iterator has not passed
  itrTmp,  \* tmp of the iterator
  entry,   \* the entry it returned: its term and count
  found    \* what DocNumbers returned, and the IDs it was given

dictionaryVars == <<dict, pl, asked, itrLeft, itrTmp, entry, found>>

DocsOf(d, t) == IF t \in DOMAIN d THEN d[t].docs ELSE {}

-----------------------------------------------------------------------------
\* A PostingsList without contents; emptyPostingsList is one that all share.
\* docNum1Hit counts if it is not NoList: normBits1Hit is not 0 then.
ZeroList == [shared |-> FALSE, postings |-> NoList, except |-> {}, docNum1Hit |-> NoList]
emptyPostingsList == [ZeroList EXCEPT !.shared = TRUE]

\* Mutant of postingsListInit: the bitmap is cleared and the rest is kept.
MutInitKeeps1Hit(rv, except) ==
  IF rv = NoList \/ rv = emptyPostingsList THEN [ZeroList EXCEPT !.except = except]
  ELSE [rv EXCEPT !.except = except,
                  !.postings = IF rv.postings = NoList THEN NoList ELSE {}]

\* postingsListInit: the bitmap is kept for its memory.
postingsListInit(rv, except) ==
  IF rv = NoList \/ rv = emptyPostingsList THEN [ZeroList EXCEPT !.except = except]
  ELSE [ZeroList EXCEPT !.except = except,
                        !.postings = IF rv.postings = NoList THEN NoList ELSE {}]

\* read touches the part of its encoding only.
read(rv, value) ==
  IF value.oneHit THEN [rv EXCEPT !.docNum1Hit = CHOOSE d \in value.docs : TRUE]
  ELSE [rv EXCEPT !.postings = value.docs]

\* postingsList, in a dictionary or, with NoList, in a field that has none.
postingsList(d, term, except, rv) ==
  IF d # NoList /\ term \in DOMAIN d THEN read(postingsListInit(rv, except), d[term])
  ELSE IF rv = NoList \/ rv = emptyPostingsList THEN emptyPostingsList
  ELSE postingsListInit(rv, except)

Bitmap(p) == IF p.postings = NoList THEN {} ELSE p.postings

Count(p) ==
  IF p.docNum1Hit # NoList THEN 1 - Cardinality({p.docNum1Hit} \cap p.except)
  ELSE Cardinality(Bitmap(p)) - Cardinality(Bitmap(p) \cap p.except)

\* OrInto takes no notice of except.
OrInto(p, receiver) ==
  receiver \cup IF p.docNum1Hit # NoList THEN {p.docNum1Hit} ELSE Bitmap(p)

\* The documents an iterator over the list starts with.
Actual(p) ==
  (IF p.docNum1Hit # NoList THEN {p.docNum1Hit} ELSE Bitmap(p)) \ p.except

-----------------------------------------------------------------------------
DictionaryStart ==
  /\ pl = NoList /\ asked = [docs |-> {}, except |-> {}]
  /\ itrLeft = {} /\ itrTmp = ZeroList /\ entry = NoList
  /\ found = [ids |-> {}, docs |-> {}]

DictionaryInputs == dict \in Dicts

NoDictionary == dict = <<>>

\* PostingsList, with the list of the last call or without one; the field may
\* have no dictionary.
LookUp ==
  \E d \in {dict, NoList}, t \in Terms, except \in SUBSET DictDocs, rv \in {pl, NoList} :
    /\ pl' = postingsList(d, t, except, rv)
    /\ asked' = [docs |-> IF d = NoList THEN {} ELSE DocsOf(d, t), except |-> except]
    /\ UNCHANGED <<dict, itrLeft, itrTmp, entry, found>>

\* AutomatonIterator, over any part of the dictionary.
StartIterator ==
  /\ itrLeft' \in SUBSET DOMAIN dict
  /\ itrTmp' = ZeroList /\ entry' = NoList
  /\ UNCHANGED <<dict, pl, asked, found>>

\* DictionaryIterator.Next.
NextEntry ==
  /\ itrLeft # {}
  /\ LET t == CHOOSE t \in itrLeft : \A u \in itrLeft : t <= u IN
     /\ itrTmp' = read(itrTmp, dict[t])
     /\ entry' = [term |-> t, count |-> Count(itrTmp')]
     /\ itrLeft' = itrLeft \ {t}
  /\ UNCHANGED <<dict, pl, asked, found>>

\* The highest ID of the dictionary.
MaxKey(d) == CHOOSE t \in DOMAIN d : \A u \in DOMAIN d : u <= t

\* DocNumbers of the dictionary of _id, for two IDs in any order: the list of
\* one is handed back for the next, and an ID above the highest is passed over.
DocNumbers ==
  /\ DOMAIN dict # {}
  /\ \E a, b \in Terms :
       LET p1 == IF a <= MaxKey(dict) THEN postingsList(dict, a, {}, emptyPostingsList)
                 ELSE emptyPostingsList
           r1 == IF a <= MaxKey(dict) THEN OrInto(p1, {}) ELSE {}
           p2 == postingsList(dict, b, {}, p1)
           r2 == IF b <= MaxKey(dict) THEN OrInto(p2, r1) ELSE r1
       IN found' = [ids |-> {a, b}, docs |-> r2]
  /\ UNCHANGED <<dict, pl, asked, itrLeft, itrTmp, entry>>

DictionaryNext == LookUp \/ StartIterator \/ NextEntry \/ DocNumbers

-----------------------------------------------------------------------------
\* Whichever list, of whatever encoding, a caller hands back: the list of a
\* term counts and yields the documents of that term that are not left out,
\* and the IDs lead to their documents, known or not.
LookupExact ==
  /\ pl # NoList =>
       /\ Count(pl) = Cardinality(asked.docs \ asked.except)
       /\ Actual(pl) = asked.docs \ asked.except
       /\ OrInto(pl, {}) = asked.docs
  /\ found.docs = UNION {DocsOf(dict, t) : t \in found.ids}

\* "Count returns the number of items on this postings list", and the entry of a
\* dictionary iterator has that count.
EntryCounts == entry # NoList => entry.count = Cardinality(dict[entry.term].docs)
=============================================================================
