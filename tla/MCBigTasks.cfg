SPECIFICATION Spec
CONSTANTS
  Size = 8
  NumThreads = 4
  BaseCaseSize = 2
  SingleLevel = 4
  SubSingleLevel = 4
  BucketCounts = {2}
INVARIANTS
  TeamsAgree
  NoConflict
  EverythingOnce
PROPERTIES
  AllReachSmallTasks
