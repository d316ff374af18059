SPECIFICATION Spec
CONSTANTS
  MaxThreads = 3
  SpawnMayFail = FALSE
  GrowAfterShrink = TRUE
PROPERTY ImplementsForkJoin
