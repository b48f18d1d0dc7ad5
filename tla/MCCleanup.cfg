SPECIFICATION Spec
CONSTANTS
  BlockSize = 3
  SingleLevel = 100
  BaseCaseSize = 1
  Trivial = TRUE
  MCBuckets = 4
  MCSize = 11
  Steps <- MCSteps
INVARIANTS
  AssumptionsHold
  NoSharedElement
  BucketComplete
