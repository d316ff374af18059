SPECIFICATION PrimitiveSpec
CONSTANTS
  Waiters = {w1, w2, w3}
  SpinCount = 1
  MaxSignal = 3
  MaxTokens = 3
  Threads = {t1, t2, t3}
INVARIANTS CountIsQueue StateIsExact NobodySleepsInVain
PROPERTIES ImplementsSemaphore TokensAreTaken ImplementsReadWriteLock WritersGetIn
CHECK_DEADLOCK FALSE
