SPECIFICATION Spec
CONSTANTS
  Users = {u1, u2}
  Docs = {d1, d2}
  Ctxs = {c1, c2, c3}
  Kinds = {"visit", "stopAtId", "docID", "merge"}
  Nothing = Nothing
  MaxCopies = 2
SYMMETRY Symmetry
INVARIANTS
  Exclusive
  ReadsOwnDoc
CHECK_DEADLOCK FALSE
