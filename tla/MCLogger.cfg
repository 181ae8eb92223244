CONSTANTS
  t1 = t1
  t2 = t2
  t3 = t3
  l1 = l1
  l2 = l2
  Threads = {t1, t2, t3}
  LoggerOf <- MCLoggerOf
  NoThread = NoThread
  Level = 2
  Severities = {1, 3}
  MaxMessages = 3
  MaxTexts = 1
SPECIFICATION Spec
INVARIANTS
  OwnLine
  LevelHolds
  NothingStays
CHECK_DEADLOCK FALSE
