CONSTANTS
  Nodes = {n1, n2, n3}
  Front = front
  NULL = null
  Readers = {r1}
  MaxDocs = 3
  MaxPool = 3
SPECIFICATION FairSpec
INVARIANTS
  TypeOK
  ListIntact
  NodesAccounted
  NodeNumExact
  ReaderOnList
  OnlyFirstYieldedAgain
PROPERTIES
  IterationComplete
  PostingStays
  IterationEnds
CONSTRAINT NotOverlapped
