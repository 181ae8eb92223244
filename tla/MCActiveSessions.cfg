CONSTANTS
  Sessions = {s1, s2, s3}
  Handles = {h1, h2, h3, h4}
  Null = Null
SPECIFICATION Spec
INVARIANTS
  CountsHandles
PROPERTIES
  ImplementsSharedOwnership
