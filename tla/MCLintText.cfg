\* Each part of cpplint.py that reads C++ text; it ends with the text.
CONSTANTS
  Lines <- FlatLines
  MaxBlocks = 1
  MaxConditionals = 1
  MaxParens = 1
  LineChoices <- FunctionLines
  VerboseLevels = {0, 1}
  NormalTrigger = 1
  TestTrigger = 2
  MaxLines = 5
  Alphabets <- TheAlphabets
  MaxTokens = 6
  BlockTokens = {"x", "/*"}
  MaxLength = 5
  Sources <- TheSources
  Spelling <- TheSpelling
  Checkout <- TheCheckout
  OnDisk <- TheDisk
SPECIFICATION LintTextSpec
INVARIANTS
  IncludesAreJudged
  EndsAreFound
  CodeIsCleansed
  StringsAreKept
PROPERTIES
  ImplementsBraceNesting
CHECK_DEADLOCK FALSE
