---------------------------- MODULE ValgrindReport ----------------------------
(***************************************************************************)
(* process_valgrind_results.py: counts the errors in the XML files that    *)
(* valgrind left in build/, one file for each suite, and writes a row of   *)
(* counts for each suite that has any.                                     *)
(***************************************************************************)
EXTENDS Integers, Sequences, FiniteSets

CONSTANTS
  Suites,     \* the suites with an XML file
  Known,      \* the kinds that have a column, "UnknownError" left out
  Others,     \* kinds without one
  MaxErrors   \* bound: errors in a file

StillReachable == "Leak_StillReachable"
UnknownError == "UnknownError"
(* Assumed of the constants. *)
KindsAssumption ==
  /\ Known \cap Others = {} /\ {StillReachable, UnknownError} \cap (Known \cup Others) = {}
  /\ MaxErrors \in Nat /\ IsFiniteSet(Suites) /\ "none" \notin Suites

VARIABLES
  files,    \* the kinds of the errors in each file
  done,     \* the suites whose files have been read
  suite,    \* the one whose file is being read, or "none"
  read,     \* how many of its errors ParseGtestXml has read
  results,  \* the counts so far
  hasFailed,
  rows      \* the rows of valgrind_report.csv, each a suite and its counts

valgrindVars == <<files, done, suite, read, results, hasFailed, rows>>

Kinds == Known \cup Others \cup {StillReachable}
Files == [Suites -> UNION {[1 .. n -> Kinds] : n \in 0 .. MaxErrors}]
Columns == Known \cup {UnknownError}
Zero == [c \in Columns |-> 0]

TypeOK ==
  /\ files \in Files
  /\ done \subseteq Suites /\ suite \in Suites \cup {"none"}
  /\ read \in 0 .. MaxErrors
  /\ results \in [Columns -> 0 .. MaxErrors]
  /\ hasFailed \in BOOLEAN
  /\ rows \in Seq([suite : Suites, results : [Columns -> 0 .. MaxErrors]])

Init ==
  /\ files \in Files
  /\ done = {} /\ suite = "none" /\ read = 0 /\ results = Zero /\ hasFailed = FALSE /\ rows = <<>>

-------------------------------------------------------------------------------
ClearCounts == results' = Zero

(* os.listdir gives the files in any order, each one once.                    *)
Open(s) ==
  /\ suite = "none" /\ s \notin done
  /\ suite' = s /\ read' = 0 /\ hasFailed' = FALSE
  /\ ClearCounts
  /\ UNCHANGED <<files, done, rows>>

Count(kind) ==
  LET column == IF kind \in Known THEN kind ELSE UnknownError
  IN  results' = [results EXCEPT ![column] = @ + 1]

ReadError ==
  /\ suite # "none" /\ read < Len(files[suite])
  /\ read' = read + 1
  /\ LET kind == files[suite][read + 1]
     IN  \/ kind = StillReachable /\ UNCHANGED <<hasFailed, results>>
         \/ kind # StillReachable /\ hasFailed' = TRUE /\ Count(kind)
  /\ UNCHANGED <<files, done, suite, rows>>

Close ==
  /\ suite # "none" /\ read = Len(files[suite])
  /\ rows' = IF hasFailed THEN Append(rows, [suite |-> suite, results |-> results]) ELSE rows
  /\ suite' = "none" /\ done' = done \cup {suite}
  /\ UNCHANGED <<files, read, results, hasFailed>>

Next == (\E s \in Suites : Open(s)) \/ ReadError \/ Close

Spec == Init /\ [][Next]_valgrindVars

-------------------------------------------------------------------------------
Occurrences(s, kinds) == Cardinality({i \in DOMAIN files[s] : files[s][i] \in kinds})

Failing(s) == Occurrences(s, Known \cup Others) > 0

(* The table has one row for each failing suite that has been read, and the   *)
(* row counts every error of that suite and none of another's.                *)
TableIsExact ==
  /\ Len(rows) = Cardinality({s \in done : Failing(s)})
  /\ {rows[i].suite : i \in DOMAIN rows} = {s \in done : Failing(s)}
  /\ \A i \in DOMAIN rows : \A c \in Columns :
       rows[i].results[c] =
         Occurrences(rows[i].suite, IF c = UnknownError THEN Others ELSE {c})
===============================================================================
