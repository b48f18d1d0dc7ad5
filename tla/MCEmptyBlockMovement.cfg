SPECIFICATION Spec
CONSTANTS
  NumThreads = 4
  NumBuckets = 3
  BlockSize = 1
  MCSize = 9
  Inputs <- AllInputs
INVARIANTS
  TypeOK
  DisjointMoves
  EstablishesLayout
