SPECIFICATION SegFairSpec
CONSTANTS
  Users = {u1, u2}
  Fields = {f1}
  Docs = {d1}
  Excepts = {{}, {d1}}
  Entries = {e1, e2}
  NoEntry = NoEntry
  NoMap = NoMap
  NoHandle = NoHandle
  Precision = 5
  MaxSample = 1
INVARIANTS
  QueriesReadMappedFile
  SegRefsAreHolders
  NothingServedAfterUnmap
  IndexOpenWhileHeld
  RefsAreHolders
  NoIndexLeak
  OneMonitor
  NoDeletedHit
  FilteredHasMap
PROPERTIES
  ObeysCacheContract
  ReleasedInTheEnd
  ImplementsLease
  ColdIndexClosed
  EvictedWhenCold
  MonitorEnds
CHECK_DEADLOCK FALSE
