SPECIFICATION LoopSpec
CONSTANTS
  MaxThreads = 3
  SpawnMayFail = TRUE
  DynamicRows = {2}
  StaticRows = {3}
  Chunks = {1}
  MaxLength = 1
  MaxDynamic = 1
  MaxIterations = 2
  Resizes = {1}
  MayThrow = TRUE
  MayRaise = FALSE
INVARIANTS TypeOK RunningCount
PROPERTIES ImplementsForkJoin EveryCallReturns LoopReturns ImplementsOrderedLoop
CHECK_DEADLOCK FALSE
