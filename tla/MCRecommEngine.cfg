CONSTANTS
  Tokens = {1, 2}
  Stories = {"a1", "a2", "b"}
  Keywords <- MCKeywords
  Hash <- MCHash
  Signature <- MCSignature
  PoolSize = 1
  Users <- MCUsers
  Urls = {11}
  TopNs <- MCTopNs
  RatioNum = 2
  RatioDen = 3
  MaxDocReturns = {1, 2}
  MaxDocs = 2
  NULL = null
SPECIFICATION Spec
INVARIANTS
  TypeOK
  RecommendedMatches
  NoneTwice
  NoneMissed
  StoresAgree
