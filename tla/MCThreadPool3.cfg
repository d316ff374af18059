\* Pools of up to four threads under weak fairness of every thread; creation of
\* threads may fail.  A failure leaves join() waiting for a thread that does not
\* exist, which the model shows as a deadlock.
SPECIFICATION FairSpec
CONSTANTS
  MaxThreads = 4
  SpawnMayFail = TRUE
INVARIANTS
  TypeOK
  RunningCount
  TokenCount
  AtRest
  JobOutlivesWorkers
PROPERTIES
  ImplementsForkJoin
  RegionThrowsItsOwn
  CallsReturn
CHECK_DEADLOCK FALSE
