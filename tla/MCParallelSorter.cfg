SPECIFICATION Spec
CONSTANTS
  NumThreads = 3
  Lives <- MCLives
  First <- MCFirst
INVARIANTS
  NoConflict
  CallsInStep
  CurrentStep
PROPERTIES
  AllThreadsEnd
