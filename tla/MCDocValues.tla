---------------------------- MODULE MCDocValues ----------------------------
(* Instances of DocValues for TLC. *)
EXTENDS DocValues

ThreeAndTwo == <<3, 2>>
OneOrTwo    == [d \in 0..2 |-> 1 + (d % 2)]

Info(index, store, docValues) ==
  [index |-> index, store |-> store, docValues |-> docValues]

\* Field 1 has a term in every document, and doc values; the mapping of field 0
\* may have changed before the segment was opened.
Batch(i, dv, info) ==
  {[has      |-> [f \in Fields |-> IF f = 0 THEN S ELSE Docs(i)],
    included |-> IF dv THEN Fields ELSE {1},
    updated  |-> [f \in Fields |-> IF f = 0 THEN info ELSE NoInfo]] : S \in SUBSET Docs(i)}

\* The second segment may know that doc values, or the index, were removed.
OneKnows ==
  <<Batch(1, TRUE, NoInfo) \cup Batch(1, FALSE, NoInfo),
    Batch(2, TRUE, NoInfo) \cup Batch(2, FALSE, NoInfo)
      \cup Batch(2, TRUE, Info(FALSE, FALSE, TRUE)) \cup Batch(2, TRUE, Info(TRUE, FALSE, FALSE))>>

OneOrBoth == {<<0>>, <<0, 1>>}
=============================================================================
