--------------------------- MODULE MCVisitCtxPool ---------------------------
(* Instances of VisitCtxPool for TLC. *)
EXTENDS VisitCtxPool, TLC

Symmetry == Permutations(Users) \cup Permutations(Ctxs) \cup Permutations(Docs)
=============================================================================
