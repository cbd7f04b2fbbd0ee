SPECIFICATION SectionsSpec
CONSTANTS
  Itrs = {0, 1}
  Keys = {0, 1, 2}
  NoKey = NoKey
  Unit = 2
  NumDocs <- TwoAndOne
  Nothing = Nothing
  Plans <- AllPlans
  Freqs = {0, 1}
  LocFields = {2}
  SynBatches <- AllSynBatches
  VecBatches <- AllVecBatches
  NoIndex = {{}, {0}}
  SearchDocs = {0, 1, 2, 3}
  VectorDoc <- FourVectors
  Ks = {1, 2, 3}
  NProbes = {1, 2}
  Clusters = 2
  NoHits = NoHits
  Terms = {0, 1}
  DictValues <- ManyValues
  DictDocs = {0, 1}
  NoList = NoList
INVARIANTS
  TermReadable
  DictionaryExact
  MergeSound
  ThesaurusExact
  VectorSectionExact
  IndexesFreed
  HitsComplete
  LookupExact
PROPERTIES
  ImplementsJoin
CHECK_DEADLOCK FALSE
