SPECIFICATION Spec
CONSTANTS
  NumSegs = 1
  MaxDocs = 1
  Fields = {0, 1, 2}
  Sections = {text, synonym}
  Updatable = {1, 2}
  Infos <- DeletedOnly
  NoInfo = NoInfo
  Dropped = Dropped
  Unset = Unset
INVARIANT StoredPreserved
CHECK_DEADLOCK FALSE
