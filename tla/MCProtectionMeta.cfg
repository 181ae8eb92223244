CONSTANTS
  KeyIds = {k1, k2}
  EmptyKey = EmptyKey
  NoKey = NoKey
  IvSizes = {8, 16}
  SessionIds = {7}
  Invalid = Invalid
  NoMeta = NoMeta
  Absent = Absent
  Mistyped = Mistyped
SPECIFICATION Spec
INVARIANTS
  ServerCanDecrypt
  PatternSurvives
  FormsAgree
PROPERTIES
  NoEmptyKeyOnceSelected
