CONSTANTS
  Producers = {p1, p2}
  Consumers = {c1, c2}
  Capacity = 2
  DefaultTimeout = 1
  Timeouts <- Mixed
  MaxPuts = 4
  MaxTime = 2
SPECIFICATION Spec
INVARIANTS
  BlocksOnlyIfFull
SYMMETRY Symmetry
