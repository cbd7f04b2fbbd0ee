SPECIFICATION Spec
CONSTANTS
  MaxDoc = 5
  ChunkSize = 3
  None = None
INVARIANTS
  TypeOK
  AdvanceExact
  OwnEntry
