CONSTANTS
  Threads = {t1, t2}
  NoThread = NoThread
  FactoryMayFail = FALSE
SPECIFICATION FairSpec
INVARIANTS
  SettledAgreement
PROPERTIES
  CallsReturn
  NotificationsDelivered
