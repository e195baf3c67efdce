CONSTANTS
  Threads = {t1}
  Ids = {1, 2}
  Configs <- MCConfigs
  Garbage = {3}
  NULL = null
  Unreadable = unreadable
SPECIFICATION FairSpec
INVARIANTS
  TypeOK
  SelectsFromOneConfig
PROPERTIES
  AnswersChangeBySwapOnly
  ConfigTakesEffect
