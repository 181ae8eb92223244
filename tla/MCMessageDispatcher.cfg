CONSTANTS
  Clients = {c1, c2, c3}
  Messages = {m1, m2}
  None = None
SPECIFICATION Spec
INVARIANTS
  OnlyClientsAreCalled
PROPERTIES
  NobodyIsPassedOver
