-------------------------------- MODULE Scripts --------------------------------
(***************************************************************************)
(* The scripts, and what cpplint.py does about files.  They meet only in   *)
(* files that the models take as inputs, so that a behaviour is one of     *)
(* them at work: part says which.  The variables of the others stay as     *)
(* they are initially, or Idle if their initial states are many.           *)
(***************************************************************************)
EXTENDS UnitTestBuild

CONSTANTS
  LogHeaders, LogDetails, MaxLogLines,                           \* of ClangFormatReport
  Suites, KnownErrors, OtherErrors, MaxErrors,                   \* of ValgrindReport
  Percentages,                                                   \* of CoverageComparison
  LintDirs, LintFiles, Path, LintCategories, Found, ConfigChoices, CommandFilters,
  VerboseLevel, ValidExtensions,                                 \* of LintRun
  PathNames, Tree, Extension, DefaultExtensions, OptionSets, Arguments,  \* of FileSelection
  FileCategories, CCategories, FileChoices,                      \* of LintFile
  DirectoryNames, MaxDepth,                                      \* of FilePaths
  Spaces, NoSpace, Guards                                        \* of HeaderGuard

VARIABLES
  part,
  log, logRead, errorList, xml, outcome,                         \* ClangFormatReport
  errorFiles, done, suite, errorsRead, results, hasFailed, rows, \* ValgrindReport
  statistics, stats, step, output,                               \* CoverageComparison
  configs, index, runPhase, level, line, cfgFilters, keepLooking, filters, filtersBackup,
  settings, errorCount, junitErrors, junitFailures, runExit,     \* LintRun
  args, given, recursive, excludes, extensions, filenames, selecting,  \* FileSelection
  file, header, lines, lineix, filePhase, suppressions, globals, told, hidden, files,  \* LintFile
  path, basename, gits, svns, repository, noFormat, pathPhase, dir, root, name, badNames,  \* FilePaths
  exempt, possible, ifndef, define, endif, slashes, guardErrors, guardPhase, opening, last,
  spaces, habits                                                 \* HeaderGuard

Idle == "idle"

Log == INSTANCE ClangFormatReport WITH
  Headers <- LogHeaders, Details <- LogDetails, MaxLines <- MaxLogLines, read <- logRead

Table == INSTANCE ValgrindReport WITH
  Known <- KnownErrors, Others <- OtherErrors, files <- errorFiles, read <- errorsRead

Stats == INSTANCE CoverageComparison WITH files <- statistics

Lint == INSTANCE LintRun WITH
  Dirs <- LintDirs, Files <- LintFiles, Categories <- LintCategories, Extensions <- ValidExtensions,
  current <- index, phase <- runPhase, exit <- runExit

Selection == INSTANCE FileSelection WITH Names <- PathNames, opts <- args, phase <- selecting

LintedFile == INSTANCE LintFile WITH Categories <- FileCategories, phase <- filePhase

Paths == INSTANCE FilePaths WITH
  Names <- DirectoryNames, file <- basename, exempt <- noFormat, phase <- pathPhase, current <- dir,
  errors <- badNames

Guard == INSTANCE HeaderGuard WITH errors <- guardErrors, phase <- guardPhase

ASSUME InstancesAssumption ==
  /\ Log!LinesAssumption /\ Table!KindsAssumption /\ Stats!PercentagesAssumption
  /\ Lint!FilesAssumption /\ Selection!TreeAssumption
  /\ LintedFile!TextsAssumption /\ LintedFile!CategoriesAssumption
  /\ Paths!DepthAssumption /\ Paths!NamesAssumption /\ Guard!SpacesAssumption

LogIdle == log = Idle /\ logRead = Idle /\ errorList = Idle /\ xml = Idle /\ outcome = Idle

TableIdle ==
  /\ errorFiles = Idle /\ done = Idle /\ suite = Idle /\ errorsRead = Idle
  /\ results = Idle /\ hasFailed = Idle /\ rows = Idle

StatsIdle == statistics = Idle /\ stats = Idle /\ step = Idle /\ output = Idle

LintIdle ==
  /\ configs = Idle /\ index = Idle /\ runPhase = Idle /\ level = Idle /\ line = Idle
  /\ cfgFilters = Idle /\ keepLooking = Idle /\ filters = Idle /\ filtersBackup = Idle
  /\ settings = Idle /\ errorCount = Idle /\ junitErrors = Idle /\ junitFailures = Idle
  /\ runExit = Idle

SelectionIdle ==
  /\ args = Idle /\ given = Idle /\ recursive = Idle /\ excludes = Idle /\ extensions = Idle
  /\ filenames = Idle /\ selecting = Idle

PathsIdle ==
  /\ path = Idle /\ basename = Idle /\ gits = Idle /\ svns = Idle /\ repository = Idle
  /\ noFormat = Idle /\ pathPhase = Idle /\ dir = Idle /\ root = Idle /\ name = Idle /\ badNames = Idle

-------------------------------------------------------------------------------
ScriptsInit ==
  /\ part \in {"build", "log", "table", "stats", "lint", "selection", "file", "path", "guard"}
  /\ Init
  /\ IF part = "log" THEN Log!Init ELSE LogIdle
  /\ IF part = "table" THEN Table!Init ELSE TableIdle
  /\ IF part = "stats" THEN Stats!Init ELSE StatsIdle
  /\ IF part = "lint" THEN Lint!Init ELSE LintIdle
  /\ IF part = "selection" THEN Selection!Init ELSE SelectionIdle
  /\ LintedFile!Init
  /\ IF part = "path" THEN Paths!Init ELSE PathsIdle
  /\ Guard!Init

logVars == <<log, logRead, errorList, xml, outcome>>
tableVars == <<errorFiles, done, suite, errorsRead, results, hasFailed, rows>>
statsVars == <<statistics, stats, step, output>>
lintVars == <<configs, index, runPhase, level, line, cfgFilters, keepLooking, filters, filtersBackup,
              settings, errorCount, junitErrors, junitFailures, runExit>>
selectionVars == <<args, given, recursive, excludes, extensions, filenames, selecting>>
fileVars == <<file, header, lines, lineix, filePhase, suppressions, globals, told, hidden, files>>
pathVars == <<path, basename, gits, svns, repository, noFormat, pathPhase, dir, root, name, badNames>>
guardVars == <<exempt, possible, ifndef, define, endif, slashes, guardErrors, guardPhase, opening, last,
               spaces, habits>>

BuildNext ==
  /\ part = "build" /\ Next
  /\ UNCHANGED <<part, logVars, tableVars, statsVars, lintVars, selectionVars, fileVars, pathVars, guardVars>>
LogNext ==
  /\ part = "log" /\ Log!Next
  /\ UNCHANGED <<part, buildVars, tableVars, statsVars, lintVars, selectionVars, fileVars, pathVars, guardVars>>
TableNext ==
  /\ part = "table" /\ Table!Next
  /\ UNCHANGED <<part, buildVars, logVars, statsVars, lintVars, selectionVars, fileVars, pathVars, guardVars>>
StatsNext ==
  /\ part = "stats" /\ Stats!Next
  /\ UNCHANGED <<part, buildVars, logVars, tableVars, lintVars, selectionVars, fileVars, pathVars, guardVars>>
LintNext ==
  /\ part = "lint" /\ Lint!Next
  /\ UNCHANGED <<part, buildVars, logVars, tableVars, statsVars, selectionVars, fileVars, pathVars, guardVars>>
SelectionNext ==
  /\ part = "selection" /\ Selection!Next
  /\ UNCHANGED <<part, buildVars, logVars, tableVars, statsVars, lintVars, fileVars, pathVars, guardVars>>
FileNext ==
  /\ part = "file" /\ LintedFile!Next
  /\ UNCHANGED <<part, buildVars, logVars, tableVars, statsVars, lintVars, selectionVars, pathVars, guardVars>>
PathNext ==
  /\ part = "path" /\ Paths!Next
  /\ UNCHANGED <<part, buildVars, logVars, tableVars, statsVars, lintVars, selectionVars, fileVars, guardVars>>
GuardNext ==
  /\ part = "guard" /\ Guard!Next
  /\ UNCHANGED <<part, buildVars, logVars, tableVars, statsVars, lintVars, selectionVars, fileVars, pathVars>>

ScriptsNext ==
  \/ BuildNext \/ LogNext \/ TableNext \/ StatsNext \/ LintNext \/ SelectionNext \/ FileNext
  \/ PathNext \/ GuardNext

scriptsVars ==
  <<part, buildVars, logVars, tableVars, statsVars, lintVars, selectionVars, fileVars, pathVars, guardVars>>

ScriptsSpec == ScriptsInit /\ [][ScriptsNext]_scriptsVars

-------------------------------------------------------------------------------
(* Each of these is about one part, whose types it includes.                  *)

(* The report scripts: every line of the log of clang-format is in its       *)
(* report, and a run that fails leaves no report of an earlier log; each      *)
(* error of valgrind's is counted once, for its suite; the verdicts on        *)
(* coverage are those of the two files.                                       *)
ReportsAreExact ==
  /\ part = "log" => Log!TypeOK /\ Log!EveryLineReported /\ Log!NoStaleReport
  /\ part = "table" => Table!TypeOK /\ Table!TableIsExact
  /\ part = "stats" => Stats!VerdictsAreTrue

(* "Can't compare coverage stats - Could not open statistics file": a file    *)
(* that could not be read is not compared.                                    *)
NothingIsCompared == part = "stats" => Stats!NothingIsCompared

(* ProcessConfigOverrides and ProcessFile: of the filters in the              *)
(* configurations of a file's directories those nearest to it decide, no file *)
(* leaves its own to the next, what a configuration excludes is not linted;   *)
(* and exit status, counter and JUnit report agree.                           *)
ConfigurationsAreObeyed ==
  part = "lint" =>
    /\ Lint!TypeOK
    /\ Lint!NearestFilterWins /\ Lint!FiltersAreRestored /\ Lint!ExcludedIsSkipped
    /\ Lint!ReportAgrees

(* ParseArguments: what is linted does not depend on the order of options,    *)
(* and an excluded directory takes no other with it.                          *)
SelectsWhatWasAsked == part = "selection" => Selection!SelectsWhatWasAsked

(* ProcessFileData: exactly the errors that a NOLINT comment of this file     *)
(* names are suppressed.                                                      *)
SuppressionIsExact == part = "file" => LintedFile!TypeOK /\ LintedFile!SuppressionIsExact

(* CheckFilenameFormat and CheckForHeaderGuard, which are about the name of a *)
(* file in its repository: where the repository is checked out to does not    *)
(* matter; headers in the house style are accepted, and none that is guarded  *)
(* by another macro is.                                                       *)
NamesAndGuardsAreJudged ==
  /\ part = "path" => Paths!OnlyTheCheckoutCounts
  /\ part = "guard" => Guard!HouseStylePasses /\ Guard!WrongGuardIsReported
===============================================================================
