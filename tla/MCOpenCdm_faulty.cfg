\* Rialto may leave RUNNING, the application may destruct what it has not closed.
CONSTANTS
  Threads = {t1, t2}
  Sessions = {s1, s2}
  Handles = {h1, h2}
  Keys = {k1}
  None = None
  Playready = FALSE
  MayGoInactive = TRUE
  ClosesFirst = FALSE
  MaxKeySessions = 2
  MaxUnasked = 1
SPECIFICATION Spec
SYMMETRY Symmetry
INVARIANTS
  EventsReachObjects
  ClosedIsSilent
  InitializedListens
  OwnChallenge
  GivenIsInitialized
