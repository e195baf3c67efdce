SPECIFICATION FairSpec
CONSTANTS
  Threads = {t1, t2}
  Ops = {"get", "put", "increment", "multi"}
  is_open_slave = TRUE
  Batch = 1
  NULL = NULL
INVARIANTS TypeOK OwnReply HandedOutClean
PROPERTIES OnlySetToRedisRaces CallsReturn
CONSTRAINT NotRaced
