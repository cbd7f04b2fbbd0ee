----------------------------- MODULE MCSections -----------------------------
(* Instances of Sections for TLC. *)
EXTENDS Sections

\* Two documents in the first segment and one in the second.
TwoAndOne == [i \in Itrs |-> IF i = 0 THEN 2 ELSE 1]

\* Documents of a batch, given by their fields; the document's number is added.
Numbered(doc, d, With(_, _)) == [k \in 1..Len(doc) |-> With(doc[k], d)]

BatchesOf(docs, With(_, _)) ==
  [i \in Itrs |->
     IF i = 0 THEN {Numbered(x, 0, With) \o Numbered(y, 1, With) : x \in docs, y \in docs}
     ELSE {Numbered(x, 0, With) : x \in docs}]

-----------------------------------------------------------------------------
Fields(first, second, new, updated) ==
  [fields |-> [i \in Itrs |-> IF i = 0 THEN first ELSE second],
   newFields |-> new, updated |-> updated]

\* The same fields; a field the first segment does not have; a deleted field.
\* The locations are in field 2, whose ID differs.  Three terms where the chunk
\* size depends on the term.
AllPlans ==
  {[mode |-> m, terms |-> IF m = "1026" /\ ~f.updated THEN {0, 1, 2} ELSE {0, 1}, fields |-> f.fields, newFields |-> f.newFields,
    updated |-> f.updated] :
     m \in {"legacy", "1025", "1026"},
     f \in {Fields({0, 1, 2}, {0, 1, 2}, {0, 1, 2}, FALSE),
            Fields({0, 2}, {0, 1, 2}, {0, 1, 2}, FALSE),
            Fields({0, 1, 2}, {0, 1, 2}, {0, 2}, TRUE)}}

\* One plan, for the runs that are about another section.
OnePlan == {[mode |-> "1026", terms |-> {}, fields |-> [i \in Itrs |-> {0}],
             newFields |-> {0}, updated |-> FALSE]}

-----------------------------------------------------------------------------
Pair(f, t, s) == [field |-> f, term |-> t, syns |-> s]
PairOf(p, d)  == [doc |-> d, field |-> p.field, term |-> p.term, syns |-> p.syns]

\* No synonyms; one; two terms of one field; another field; two fields in either
\* order of their names; a term without synonyms.
SynonymDocs(low, high) ==
  {<<>>,
   <<Pair(0, low, <<1>>)>>,
   <<Pair(0, high, <<2, 1>>), Pair(0, low, <<1>>)>>,
   <<Pair(1, low, <<1>>)>>,
   <<Pair(1, high, <<2>>), Pair(0, low, <<2, 1>>)>>,
   <<Pair(0, low, <<>>)>>}

AllSynBatches   == BatchesOf(SynonymDocs(1, 2), PairOf)
EmptySynBatches == BatchesOf(SynonymDocs(0, 1), PairOf)

-----------------------------------------------------------------------------
Vec(f, n)   == [field |-> f, vecs |-> n]
VecOf(x, d) == [doc |-> d, field |-> x.field, vecs |-> x.vecs]

\* No field; a vector in one; several vectors and fields; a field that has
\* vectors in other documents only.
VectorDocs ==
  {<<>>,
   <<Vec(0, 1)>>,
   <<Vec(0, 2), Vec(1, 1)>>,
   <<Vec(1, 1)>>,
   <<Vec(1, 0)>>,
   <<Vec(0, 0), Vec(1, 2)>>}

AllVecBatches == BatchesOf(VectorDocs, VecOf)
NoBatches     == [i \in Itrs |-> {<<>>}]

-----------------------------------------------------------------------------
\* Four vectors, two of them of one document; a document has none.
FourVectors == [v \in 1..4 |-> IF v = 4 THEN 2 ELSE IF v = 3 THEN 1 ELSE v - 1]

\* Entries of one and of two documents, in the encodings they may have.
ManyValues ==
  {[oneHit |-> FALSE, docs |-> {0, 1}], [oneHit |-> FALSE, docs |-> {1}],
   [oneHit |-> TRUE, docs |-> {0}], [oneHit |-> TRUE, docs |-> {1}]}
=============================================================================
