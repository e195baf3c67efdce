CONSTANTS
  Life = 1
  Interval = 1
  DocPool = 1
  LogBuffer = 2
  Local <- MCLocal
  MaxReqs = 3
  MaxCrashes = 1
  MaxTime = 4
SPECIFICATION Spec
INVARIANTS
  RebuildsDocs
