CONSTANTS
  Tokens = {1, 2}
  Stories = {"both", "one"}
  Keywords <- MCKeywords
  Life = 1
  PoolSize = 1
  NULL = null
  MaxDocs = 2
  MaxTime = 2
SPECIFICATION FairSpec
INVARIANTS
  TypeOK
  TotalExact
PROPERTIES
  MarkedExpired
  StoriesListed
  ImplementsStoryIndex
  ExpiredErased
  ExpiredDeleted
