\* Each script and each part of cpplint.py that is about files.  They end.
CONSTANTS
  MaxRuns = 3
  LogHeaders = {"h1", "h2"}
  LogDetails = {"d1", "d2"}
  MaxLogLines = 4
  Suites = {"ocdm", "second"}
  KnownErrors = {"Leak_DefinitelyLost", "InvalidRead"}
  OtherErrors = {"InvalidFree"}
  MaxErrors = 2
  Percentages = {70, 85, 100}
  LintDirs = {"top", "lib", "tests"}
  LintFiles <- TheFiles
  Path <- ThePath
  LintCategories = {"build", "runtime"}
  Found <- TheFound
  ConfigChoices <- TheConfigs
  CommandFilters <- TheCommandFilters
  VerboseLevel = 2
  ValidExtensions <- TheValidExtensions
  PathNames <- TheNames
  Tree <- TheTree
  Extension <- TheExtension
  DefaultExtensions = {"cpp"}
  OptionSets <- TheOptionSets
  Arguments <- TheArguments
  FileCategories = {"utf8", "comment", "nolint", "guard", "braces", "body"}
  CCategories = {"braces"}
  FileChoices <- TheFileChoices
  DirectoryNames <- TheDirectoryNames
  MaxDepth = 3
  Spaces = {a, b}
  NoSpace = NoSpace
  Guards <- TheGuards
SPECIFICATION ScriptsSpec
SYMMETRY Symmetry
INVARIANTS
  SuccessIsComplete
  ReportsOnlyPassedTests
  CleanReportIsOfOneRun
  ReportsAreExact
  ConfigurationsAreObeyed
  SelectsWhatWasAsked
  SuppressionIsExact
  NamesAndGuardsAreJudged
CHECK_DEADLOCK FALSE
