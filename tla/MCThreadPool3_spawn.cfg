\* A thread that cannot be created leaves its count in n_threads_running.
SPECIFICATION FairSpec
CONSTANTS
  MaxThreads = 2
  SpawnMayFail = TRUE
PROPERTIES
  EveryCallReturns
CHECK_DEADLOCK FALSE
