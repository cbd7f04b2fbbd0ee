SPECIFICATION Spec
CONSTANTS
  Batches <- AllBatches
  ChunkMode = "1026"
  Unit = 2
  NoChunk = NoChunk
  Nothing = Nothing
INVARIANTS
  PostingsExact
  ValuesExact
  ListsApart
  PoolClean
