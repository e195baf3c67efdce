CONSTANTS
  Nodes = {n1, n2}
  Front = front
  NULL = null
  Readers = {r1}
  MaxDocs = 3
  MaxPool = 3
SPECIFICATION Spec
INVARIANT EmptyListHasNoNodes
SYMMETRY Symmetry
