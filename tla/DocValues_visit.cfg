SPECIFICATION Spec
CONSTANTS
  Unit = 2
  NoChunk = NoChunk
  NumDocs <- ThreeAndTwo
  Fields = {0, 1}
  NumTerms <- OneOrTwo
  Batches <- OneKnows
  Requests <- OneOrBoth
  NoInfo = NoInfo
  NoReader = NoReader
  New = New
INVARIANTS
  VisitExact
  MergedExact
