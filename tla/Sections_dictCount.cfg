SPECIFICATION SectionsSpec
CONSTANTS
  Itrs = {0, 1}
  Keys = {0, 1, 2}
  NoKey = NoKey
  Unit = 2
  NumDocs <- TwoAndOne
  Nothing = Nothing
  Plans <- OnePlan
  Freqs = {0, 1}
  LocFields = {2}
  SynBatches <- NoBatches
  VecBatches <- NoBatches
  NoIndex = {{}, {0}}
  SearchDocs = {0, 1, 2, 3}
  VectorDoc <- FourVectors
  Ks = {1}
  NProbes = {1}
  Clusters = 1
  NoHits = NoHits
  Terms = {0, 1}
  DictValues <- ManyValues
  DictDocs = {0, 1}
  NoList = NoList
INVARIANT EntryCounts
CHECK_DEADLOCK FALSE
