----------------------------- MODULE MergeInput -----------------------------
(***************************************************************************)
(* What mergeToWriter hands to every section that is merged: the segments, *)
(* the documents to drop and, from mergeStoredAndRemap, the new document   *)
(* numbers (module MergeDocs shows that they are these).  The iterators of *)
(* the enumerator are those of the segments and are numbered like them; a  *)
(* segment without the field has an iterator that is through.              *)
(***************************************************************************)
EXTENDS Enumerator

CONSTANTS
  NumDocs,  \* bound: documents of each segment
  Nothing   \* nil

ASSUME MergeInputAssumption == NumDocs \in [Itrs -> Nat]

VARIABLE drops    \* the documents to drop of each segment

Docs(i) == 0..(NumDocs[i] - 1)

\* Documents are <<segment, document>>.
AllDocs     == UNION {{i} \X Docs(i) : i \in Itrs}
Survivors   == {p \in AllDocs : p[2] \notin drops[p[1]]}
NewDocCount == Cardinality(Survivors)
NewNum(p)   == Cardinality({q \in Survivors : q[1] < p[1] \/ (q[1] = p[1] /\ q[2] < p[2])})

\* The ID of a field in a segment with the fields F: fieldsMap less one, in 16
\* bits, and fieldsMap gives 0 for a field that is not there.
FieldID(F, f) ==
  IF f \in F THEN Cardinality({g \in F : g < f}) ELSE (0 - 1) % (2^16)

\* Sections are merged if a document is left.
SomeDrops ==
  /\ drops \in {f \in [Itrs -> UNION {SUBSET Docs(i) : i \in Itrs}] :
                  \A i \in Itrs : f[i] \subseteq Docs(i)}
  /\ NewDocCount > 0
=============================================================================
