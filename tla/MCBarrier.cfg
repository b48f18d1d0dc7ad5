SPECIFICATION FairSpec
CONSTANTS
  Threads <- MCThreads
  Episodes <- MCEpisodes
  Singles <- MCSingles
INVARIANTS
  TypeOK
  BarrierInv
  NoLostWakeup
PROPERTIES
  ImplementsBarrier
  EveryCallReturns
