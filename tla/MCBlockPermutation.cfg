SPECIFICATION FairSpec
CONSTANTS
  NumThreads = 2
  NumBuckets = 3
  BlockSize = 4
  MCSize = 15
  Layouts <- MCRunLayouts
INVARIANTS
  TypeOK
  ExclusiveAccess
  OnePlace
  Settled
  Overflow
  Permuted
PROPERTIES
  AllThreadsDone
