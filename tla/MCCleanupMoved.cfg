SPECIFICATION Spec
CONSTANTS
  BlockSize = 3
  SingleLevel = 100
  BaseCaseSize = 1
  Trivial = FALSE
  MCBuckets = 4
  MCSize = 11
  Steps <- ThreeThreadSteps
INVARIANT
  BucketComplete
