SPECIFICATION Spec
CONSTANTS
  Users = {u1, u2}
  Fields = {f1}
  Docs = {d1, d2}
  Excepts = {{}, {d1}}
  Entries = {e1}
  NoEntry = NoEntry
  NoMap = NoMap
  NoHandle = NoHandle
  Precision = 5
  MaxSample = 2
INVARIANT MapOfTheSection
CHECK_DEADLOCK FALSE
