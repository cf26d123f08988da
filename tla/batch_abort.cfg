SPECIFICATION FairSpec
CONSTANTS
  N = 3
  Concurrency = 2
CHECK_DEADLOCK FALSE
INVARIANTS OneCode CleanupCompleted HealthyMeansAudited
PROPERTIES EachTableOnce BatchResolves
