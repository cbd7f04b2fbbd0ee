SPECIFICATION Spec
CONSTANTS
  Users = {u1, u2}
  Docs = {d1, d2}
  Ctxs = {c1, c2, c3}
  Kinds = {"visit", "stopAtId"}
  Nothing = Nothing
  MaxCopies = 2
SYMMETRY Symmetry
INVARIANT NoTwoCallsShare
CHECK_DEADLOCK FALSE
