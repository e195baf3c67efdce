CONSTANTS
  Tokens = {1, 2}
  Stories = {"both", "one"}
  Keywords <- MCKeywords
  Life = 1
  PoolSize = 1
  NULL = null
  MaxDocs = 2
  MaxTime = 4
SPECIFICATION Spec
PROPERTIES
  ResidesForLifeTime
