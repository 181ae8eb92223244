\* An application that closes every session before it destructs it.
CONSTANTS
  Threads = {t1}
  Sessions = {s1}
  Handles = {h1}
  Keys = {k1}
  None = None
  Playready = FALSE
  MayGoInactive = FALSE
  ClosesFirst = TRUE
  MaxKeySessions = 1
  MaxUnasked = 1
SPECIFICATION Spec
INVARIANTS
  MksIsDestructed
