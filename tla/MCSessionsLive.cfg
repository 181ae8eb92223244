\* A RUNNING Rialto and fair scheduling: two threads with a session of their own,
\* or two threads asleep in one session while a third calls.
CONSTANTS
  Threads = {t1, t2}
  Sessions = {s1}
  Handles = {h1, h2}
  Keys = {k1}
  None = None
  Playready = TRUE
  MayGoInactive = FALSE
  ClosesFirst = FALSE
  MaxKeySessions = 1
  MaxUnasked = 1
  Waiters = {w1, w2, w3}
  MaxChallenges = 5
SPECIFICATION LiveSpec
INVARIANTS
  SleepersAreDueAnswers
  NeverGoesBack
PROPERTIES
  EveryCallReturns
  SessionsAreFreed
