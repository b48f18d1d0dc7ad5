SPECIFICATION FairSpec
CONSTANTS
  Threads <- MCThreads
  Size <- MCSize
  BaseCase <- MCBaseCase
  SingleLevel <- MCSingleLevel
  InitialQueues <- MCInitialQueues
INVARIANTS
  TypeOK
  CountsIdle
  GlobalIsServed
  NoWorkAfterExit
  NoOverlap
PROPERTIES
  ImplementsTaskPool
  AllThreadsReturn
