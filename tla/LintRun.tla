-------------------------------- MODULE LintRun --------------------------------
(***************************************************************************)
(* A run of cpplint.py over a list of files: for each file the CPPLINT.cfg *)
(* files of its directory and of the directories above it, then the errors *)
(* found in it, filtered and counted; at the end the JUnit report and the  *)
(* exit status.  Filters and settings live in the module, not in the file. *)
(***************************************************************************)
EXTENDS Integers, Sequences, FiniteSets, SequencesExt

CONSTANTS
  Dirs,           \* the directories
  Files,          \* the sorted list of files, each one once
  Path,           \* Path[f]: the directories of f, its own first, the top one last
  Categories,     \* categories of errors
  Found,          \* Found[f]: the errors in f, each a category and a confidence
  ConfigChoices,  \* what a CPPLINT.cfg may be: entries, or Unreadable
  CommandFilters, \* the default filters and those of the command line
  VerboseLevel,   \* --verbose
  Extensions      \* Extensions[v]: the files that setting extensions to v lets pass

FileSet == Range(Files)
Filter == [plus : BOOLEAN, covers : SUBSET Categories, valid : BOOLEAN]
Settings == {"linelength", "extensions", "includeorder"}  \* root and headers like extensions
Default == "default"
Unreadable == [readable |-> FALSE, entries |-> <<>>]
Entry == [name : {"set noparent", "filter", "exclude_files", "misspelled"} \cup Settings,
          filters : Seq(Filter), excludes : SUBSET (FileSet \cup Dirs), value : STRING]

(* Assumed of the constants. *)
FilesAssumption ==
  /\ Files \in Seq(FileSet) /\ Path \in [FileSet -> Seq(Dirs) \ {<<>>}]
  /\ Found \in [FileSet -> Seq([category : Categories, confidence : 1 .. 5])]
  /\ ConfigChoices \subseteq [readable : BOOLEAN, entries : Seq(Entry)]
  /\ \A config \in ConfigChoices : ~config.readable => config = Unreadable
  /\ CommandFilters \in Seq(Filter) /\ VerboseLevel \in 0 .. 5

VARIABLES
  configs,         \* the CPPLINT.cfg of each directory, without entries if there is none
  current,         \* index of the file that is processed
  phase,           \* where ProcessFile is
  level, line,     \* the directory and the entry that ProcessConfigOverrides is at, or the error
  cfgFilters, keepLooking,
  filters,         \* _cpplint_state.filters
  filtersBackup,   \* _cpplint_state._filters_backup
  settings,        \* _line_length, _valid_extensions and _include_order
  errorCount, junitErrors, junitFailures,
  exit             \* "running", 0, 1 or "crashed", with the JUnit report

runVars == <<configs, current, phase, level, line, cfgFilters, keepLooking, filters,
             filtersBackup, settings, errorCount, junitErrors, junitFailures, exit>>

configVars == <<level, line, cfgFilters, keepLooking>>
reportVars == <<errorCount, junitErrors, junitFailures>>

NoReport == [failures |-> 0, errors |-> 0, cases |-> {}]

TypeOK ==
  /\ current \in 1 .. Len(Files) + 1
  /\ phase \in {"start", "config", "filters", "open", "lint", "end"}
  /\ phase = "config" => level \in 1 .. Len(Path[Files[current]])
  /\ line \in Nat /\ keepLooking \in BOOLEAN
  /\ \A i \in DOMAIN cfgFilters : cfgFilters[i] \in Seq(Filter)
  /\ filters \in Seq(Filter) /\ filtersBackup \in Seq(Filter)
  /\ errorCount \in Nat /\ junitErrors \in Nat
  /\ junitFailures \in Seq([file : FileSet, category : Categories])
  /\ exit.status \in {"running", "success", "failure", "crashed"}

Init ==
  /\ configs \in [Dirs -> ConfigChoices]
  /\ current = 1 /\ phase = "start"
  /\ level = 1 /\ line = 1 /\ cfgFilters = <<>> /\ keepLooking = TRUE
  /\ filters = CommandFilters /\ filtersBackup = CommandFilters
  /\ settings = [s \in Settings |-> Default]
  /\ errorCount = 0 /\ junitErrors = 0 /\ junitFailures = <<>>
  /\ exit = [status |-> "running", report |-> NoReport]

-------------------------------------------------------------------------------
(* A mistake for a run that must fail: the nearest filters are added first,   *)
(* not last.                                                                  *)
FirstRead(all) == 1

-------------------------------------------------------------------------------
file == Files[current]
Running == exit.status = "running" /\ current <= Len(Files)
Crashed == [status |-> "crashed", report |-> NoReport]

(* _SetVerboseLevel, _BackupFilters, and the start of ProcessConfigOverrides. *)
Begin ==
  /\ Running /\ phase = "start"
  /\ filtersBackup' = filters
  /\ phase' = "config" /\ level' = 1 /\ line' = 1 /\ cfgFilters' = <<>> /\ keepLooking' = TRUE
  /\ UNCHANGED <<configs, current, filters, settings, reportVars, exit>>

AtEntry == /\ Running /\ phase = "config" /\ level <= Len(Path[file])
           /\ line <= Len(configs[Path[file][level]].entries)
entry == configs[Path[file][level]].entries[line]

(* exclude_files is matched against the component of the path below the       *)
(* directory of the configuration.                                            *)
Component(g) == IF level = 1 THEN g ELSE Path[g][level - 1]

Restore == phase' = "end" /\ filters' = filtersBackup

NoParent ==
  /\ AtEntry /\ entry.name = "set noparent"
  /\ keepLooking' = FALSE /\ line' = line + 1
  /\ UNCHANGED <<configs, current, phase, level, cfgFilters, filters, filtersBackup, settings,
                 reportVars, exit>>

AddFilter ==
  /\ AtEntry /\ entry.name = "filter"
  /\ cfgFilters' = Append(cfgFilters, entry.filters) /\ line' = line + 1
  /\ UNCHANGED <<configs, current, phase, level, keepLooking, filters, filtersBackup, settings,
                 reportVars, exit>>

Exclude ==
  /\ AtEntry /\ entry.name = "exclude_files"
  /\ \/ /\ Component(file) \in entry.excludes
        /\ Restore
        /\ UNCHANGED line
     \/ /\ Component(file) \notin entry.excludes
        /\ line' = line + 1
        /\ UNCHANGED <<phase, filters>>
  /\ UNCHANGED <<configs, current, level, cfgFilters, keepLooking, filtersBackup, settings,
                 reportVars, exit>>

(* Each setting is a variable of the module that every entry overwrites;      *)
(* includeorder=default changes nothing, another but standardcfirst prints    *)
(* the usage and exits, and a length that is no number is told.               *)
Assign(s) ==
  /\ AtEntry /\ entry.name = s /\ line' = line + 1
  /\ \/ /\ s = "linelength" /\ entry.value = "invalid"
        /\ junitErrors' = junitErrors + 1 /\ UNCHANGED <<settings, exit>>
     \/ /\ s = "includeorder" /\ entry.value = Default
        /\ UNCHANGED <<junitErrors, settings, exit>>
     \/ /\ s = "includeorder" /\ entry.value \notin {Default, "standardcfirst"}
        /\ exit' = Crashed /\ UNCHANGED <<junitErrors, settings>>
     \/ /\ s = "linelength" => entry.value # "invalid"
        /\ s = "includeorder" => entry.value = "standardcfirst"
        /\ settings' = [settings EXCEPT ![s] = entry.value] /\ UNCHANGED <<junitErrors, exit>>
  /\ UNCHANGED <<configs, current, phase, level, cfgFilters, keepLooking, filters, filtersBackup,
                 errorCount, junitFailures>>

Misspelled ==
  /\ AtEntry /\ entry.name = "misspelled"
  /\ junitErrors' = junitErrors + 1 /\ line' = line + 1
  /\ UNCHANGED <<configs, current, phase, level, cfgFilters, keepLooking, filters, filtersBackup,
                 settings, errorCount, junitFailures, exit>>

KeepsLooking == keepLooking /\ level < Len(Path[file])

(* The end of a configuration, one that cannot be read, and the top directory.*)
NextDirectory ==
  /\ Running /\ phase = "config" /\ level <= Len(Path[file])
  /\ LET config == configs[Path[file][level]]
     IN  \/ /\ ~config.readable
            /\ phase' = "filters" /\ keepLooking' = FALSE /\ junitErrors' = junitErrors + 1
         \/ /\ config.readable /\ line > Len(config.entries)
            /\ phase' = IF KeepsLooking THEN "config" ELSE "filters"
            /\ UNCHANGED <<keepLooking, junitErrors>>
  /\ level' = level + 1 /\ line' = 1
  /\ UNCHANGED <<configs, current, cfgFilters, filters, filtersBackup, settings, errorCount,
                 junitFailures, exit>>

Priority(all) == Len(all)

(* _AddFilters, the filters of the top directory first; a filter without +    *)
(* or - raises.                                                               *)
ApplyFilters ==
  /\ Running /\ phase = "filters" /\ cfgFilters # <<>>
  /\ cfgFilters' = RemoveAt(cfgFilters, Priority(cfgFilters))
  /\ filters' = filters \o cfgFilters[Priority(cfgFilters)]
  /\ exit' = IF \A i \in DOMAIN filters' : filters'[i].valid THEN exit
             ELSE Crashed
  /\ UNCHANGED <<configs, current, phase, level, line, keepLooking, filtersBackup, settings, reportVars>>

FiltersApplied ==
  /\ Running /\ phase = "filters" /\ cfgFilters = <<>>
  /\ phase' = "open"
  /\ UNCHANGED <<configs, current, configVars, filters, filtersBackup, settings, reportVars, exit>>

(* The file cannot be opened; its extension is not a valid one; or it is      *)
(* linted.                                                                    *)
CannotOpen ==
  /\ Running /\ phase = "open"
  /\ junitErrors' = junitErrors + 1 /\ Restore
  /\ UNCHANGED <<configs, current, configVars, filtersBackup, settings, errorCount,
                 junitFailures, exit>>

Valid(g) == g \in Extensions[settings["extensions"]]

Ignore ==
  /\ Running /\ phase = "open" /\ ~Valid(file)
  /\ junitErrors' = junitErrors + 1 /\ Restore
  /\ UNCHANGED <<configs, current, configVars, filtersBackup, settings, errorCount,
                 junitFailures, exit>>

Open ==
  /\ Running /\ phase = "open" /\ Valid(file)
  /\ phase' = "lint" /\ line' = 1
  /\ UNCHANGED <<configs, current, level, cfgFilters, keepLooking, filters, filtersBackup, settings,
                 reportVars, exit>>

(* _ShouldPrintError: the last filter that covers a category decides.         *)
Covers(fs, category) == \E i \in DOMAIN fs : category \in fs[i].covers

IsFiltered(fs, category) ==
  \E i \in DOMAIN fs :
    /\ category \in fs[i].covers /\ ~fs[i].plus
    /\ \A j \in DOMAIN fs : j > i => category \notin fs[j].covers

ShouldPrint(error) ==
  error.confidence >= VerboseLevel /\ ~IsFiltered(filters, error.category)

(* Error(): counted and told, if it is not filtered.                          *)
Error ==
  /\ Running /\ phase = "lint" /\ line <= Len(Found[file])
  /\ LET error == Found[file][line]
     IN  \/ /\ ShouldPrint(error)
            /\ errorCount' = errorCount + 1
            /\ junitFailures' = Append(junitFailures, [file |-> file, category |-> error.category])
         \/ ~ShouldPrint(error) /\ UNCHANGED <<errorCount, junitFailures>>
  /\ line' = line + 1
  /\ UNCHANGED <<configs, current, phase, level, cfgFilters, keepLooking, filters, filtersBackup,
                 settings, junitErrors, exit>>

Linted ==
  /\ Running /\ phase = "lint" /\ line > Len(Found[file])
  /\ Restore
  /\ UNCHANGED <<configs, current, configVars, filtersBackup, settings, reportVars, exit>>

NextFile ==
  /\ Running /\ phase = "end"
  /\ current' = current + 1 /\ phase' = "start"
  /\ UNCHANGED <<configs, configVars, filters, filtersBackup, settings, reportVars, exit>>

(* FormatJUnitXML groups the failures by file: a test case with those of each.*)
Cases(failures) ==
  {[file |-> g, failures |-> {i \in DOMAIN failures : failures[i].file = g}] :
     g \in {failures[i].file : i \in DOMAIN failures}}

Finish ==
  /\ exit.status = "running" /\ current > Len(Files)
  /\ exit' = [status |-> IF errorCount > 0 THEN "failure" ELSE "success",
              report |-> [failures |-> Len(junitFailures), errors |-> junitErrors,
                          cases |-> Cases(junitFailures)]]
  /\ UNCHANGED <<configs, current, phase, configVars, filters, filtersBackup, settings, reportVars>>

Next ==
  \/ Begin \/ NoParent \/ AddFilter \/ Exclude \/ (\E s \in Settings : Assign(s)) \/ Misspelled
  \/ NextDirectory \/ ApplyFilters \/ FiltersApplied \/ CannotOpen \/ Ignore \/ Open \/ Error \/ Linted
  \/ NextFile \/ Finish

Spec == Init /\ [][Next]_runVars

-------------------------------------------------------------------------------
(* The directories whose configuration concerns a file: from its own up to    *)
(* the first that says set noparent or cannot be read.                        *)
Stops(d) == \/ ~configs[d].readable
            \/ \E i \in DOMAIN configs[d].entries : configs[d].entries[i].name = "set noparent"

Concerning(g) == {i \in DOMAIN Path[g] : \A j \in 1 .. i - 1 : ~Stops(Path[g][j])}

Entries(g, i) == configs[Path[g][i]].entries

(* The filter lines that concern a file and cover a category, each a place    *)
(* among its directories and one in that directory's configuration.           *)
Places(g) == UNION {{i} \X DOMAIN Entries(g, i) : i \in Concerning(g)}

EntryAt(g, at) == Entries(g, at[1])[at[2]]

Filtering(g, category) ==
  {at \in Places(g) : EntryAt(g, at).name = "filter" /\ Covers(EntryAt(g, at).filters, category)}

(* The configuration of the nearer directory comes first; of several lines in *)
(* one configuration the first has the last word.                             *)
Nearer(at, other) == at[1] < other[1] \/ (at[1] = other[1] /\ at[2] < other[2])

Nearest(at, ats) == at \in ats /\ \A other \in ats : ~Nearer(other, at)

(* The line nearest to a file that covers a category decides on it, the       *)
(* command line where none does, and no file before has a say.                *)
NearestFilterWins ==
  phase = "lint" =>
    \A category \in Categories :
      /\ Filtering(file, category) = {} =>
           IsFiltered(filters, category) = IsFiltered(CommandFilters, category)
      /\ \A at \in Filtering(file, category) : Nearest(at, Filtering(file, category)) =>
           IsFiltered(filters, category) = IsFiltered(EntryAt(file, at).filters, category)

(* Filters do not outlive the file whose configuration they are from.         *)
FiltersAreRestored == phase \in {"start", "end"} => filters = CommandFilters

(* A file is linted only when no configuration that concerns it excludes it.  *)
ExcludedIsSkipped ==
  phase = "lint" =>
    \A at \in Places(file) : EntryAt(file, at).name = "exclude_files" =>
      (IF at[1] = 1 THEN file ELSE Path[file][at[1] - 1]) \notin EntryAt(file, at).excludes

(* The exit status and the report agree: the run fails exactly when there are *)
(* failures, and every failure is in one test case, that of its file.         *)
ReportAgrees ==
  exit.status \in {"success", "failure"} =>
    /\ exit.status = "failure" <=> exit.report.failures > 0
    /\ exit.report.failures = errorCount /\ exit.report.failures = Len(junitFailures)
    /\ \A n \in 1 .. errorCount : \E case \in exit.report.cases :
         /\ n \in case.failures /\ case.file = junitFailures[n].file
         /\ \A other \in exit.report.cases : n \in other.failures => other = case
===============================================================================
