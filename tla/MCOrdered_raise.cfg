SPECIFICATION Spec
CONSTANTS
  MaxThreads = 2
  MaxIterations = 3
  Resizes = {3}
  MayThrow = TRUE
  MayRaise = TRUE
PROPERTY ImplementsOrderedLoop
CHECK_DEADLOCK FALSE
