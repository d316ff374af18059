\* An exception of an earlier region leaves a growing resize().
SPECIFICATION Spec
CONSTANTS
  MaxThreads = 2
  SpawnMayFail = FALSE
PROPERTIES
  ResizeThrowsNothingOld
