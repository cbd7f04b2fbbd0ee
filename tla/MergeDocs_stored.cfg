SPECIFICATION ShortSpec
CONSTANTS
  NumSegs = 2
  MaxDocs = 2
  Fields = {0, 1, 2}
  Sections = {text, synonym}
  Updatable = {2}
  Infos <- StoreOnly
  NoInfo = NoInfo
  Dropped = Dropped
  Unset = Unset
INVARIANTS
  RemapExact
  ResultComplete
  StoredPreserved
PROPERTIES
  MergeReturns
  StopsWhenClosed
CHECK_DEADLOCK FALSE
