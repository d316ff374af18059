SPECIFICATION Spec
CONSTANTS
  PoolSize = 2
  DynamicRows = {3}
  StaticRows = {5}
  Chunks = {1}
  MaxLength = 2
  MaxDynamic = 2
INVARIANT LoopsAreComplete
CHECK_DEADLOCK FALSE
