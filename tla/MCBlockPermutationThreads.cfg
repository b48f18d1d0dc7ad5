SPECIFICATION Spec
CONSTANTS
  NumThreads = 3
  NumBuckets = 2
  BlockSize = 2
  MCSize = 11
  Layouts <- MCAllLayouts
INVARIANTS
  ExclusiveAccess
  OnePlace
