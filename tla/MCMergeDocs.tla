---------------------------- MODULE MCMergeDocs ----------------------------
(* Instances of MergeDocs for TLC. *)
EXTENDS MergeDocs

Info(deleted, store, docValues) ==
  [deleted |-> deleted, store |-> store, docValues |-> docValues]

\* A field whose stored part was removed, and one that was deleted.
StoreOnly   == {Info(FALSE, TRUE, FALSE)}
DeletedOnly == {Info(TRUE, TRUE, TRUE)}
None        == {}

\* Bound: the first and the last segment have three documents together.
ShortInit == Init /\ segs[1].numDocs + segs[NumSegs].numDocs <= 3
ShortSpec == ShortInit /\ [][Next]_vars /\ WF_vars(Step)
=============================================================================
