SPECIFICATION Spec
CONSTANTS
  BaseCaseSize = 2
  LogMaxBuckets = 3
  EqualBucketsThreshold = 2
  OversamplingPercent = 20
  BaseCaseMultiplier = 2
  Calls <- MCCalls
INVARIANTS
  SortedAtEnd
PROPERTIES
  SequentialTerminates
  PartitionsDivide
