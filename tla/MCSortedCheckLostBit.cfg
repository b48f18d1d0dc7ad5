SPECIFICATION Spec
CONSTANTS
  NumThreads = 3
  Sizes <- MCSizes
INVARIANTS
  RecognisesSorted
