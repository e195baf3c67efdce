CONSTANTS
  Life = 1
  Interval = 1
  DocPool = 1
  LogBuffer = 2
  Local <- MCLocal
  MaxReqs = 3
  MaxCrashes = 2
  MaxTime = 3
SPECIFICATION FairSpec
INVARIANTS
  TypeOK
  YoungRecordsKept
  NoReplayOfOwnLog
  RebuildsWhatFits
PROPERTIES
  ReplayEnds
