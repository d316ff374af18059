SPECIFICATION LoopsSpec
CONSTANTS
  MaxThreads = 3
  MaxIterations = 3
  Resizes = {1, 3}
  MayThrow = TRUE
  MayRaise = FALSE
  PoolSize = 3
  DynamicRows = {0, 2}
  StaticRows = {5}
  Chunks = {1, 6}
  MaxLength = 3
  MaxDynamic = 1
INVARIANTS LoopsTypeOK ContextIsPrivate UserExceptionIsThrown RowsAtMostOnce LoopsAreComplete BarrierSeparates AbortStopsLoop
PROPERTIES AbortCancels ImplementsOrderedLoop LoopsReturn
CHECK_DEADLOCK FALSE
