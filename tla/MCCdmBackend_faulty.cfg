CONSTANTS
  Threads = {t1, t2, t3}
  NoThread = NoThread
  FactoryMayFail = TRUE
SPECIFICATION Spec
INVARIANTS
  RunningIffMediaKeys
  RefusedOnlyAfterDeadline
PROPERTIES
  WakesASleeper
  ImplementsGate
