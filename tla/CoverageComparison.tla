-------------------------- MODULE CoverageComparison --------------------------
(***************************************************************************)
(* process_coverage_stats.py: compares the coverage of a commit with that  *)
(* of master and leaves a text in comparison_output.txt, which becomes a   *)
(* comment on the pull request.  Statistics are those of lines and of      *)
(* functions; a file that is missing or malformed is Unreadable.           *)
(***************************************************************************)
EXTENDS Integers

CONSTANT Percentages  \* the figures that lcov may give
(* Assumed of the constants. *)
PercentagesAssumption == Percentages \subseteq 0 .. 100

Unreadable == [lines |-> -1, functions |-> -1]
Measures == {"lines", "functions"}
Statistics == [Measures -> Percentages]

VARIABLES
  files,   \* the statistics files of "master" and "current"
  stats,   \* what has been read of them
  step,    \* what main() does next
  output   \* comparison_output.txt: "nothing", "cannot compare" or the verdicts

comparisonVars == <<files, stats, step, output>>

Files == {"master", "current"}
NoStats == [m \in Measures |-> 0]  \* (0.0, 0.0)

Text(state) == [state |-> state, verdict |-> [m \in Measures |-> "unchanged"]]

(* The script may have been called with too few files.                        *)
Init ==
  /\ files \in [Files -> Statistics \cup {Unreadable}]
  /\ stats = [f \in Files |-> NoStats]
  /\ \/ step = "master" /\ output = Text("nothing")
     \/ step = "failed" /\ output = Text("cannot compare")

-------------------------------------------------------------------------------
Verdict(old, new, m) ==
  CASE new[m] < old[m] -> "decreased" [] new[m] = old[m] -> "unchanged" [] new[m] > old[m] -> "improved"

(* parse_statistics() catches every exception, writes that it cannot compare  *)
(* and returns zeros.                                                         *)
Parse(f) ==
  /\ step = f
  /\ step' = IF f = "master" THEN "current" ELSE "compare"
  /\ IF files[f] = Unreadable
     THEN stats' = [stats EXCEPT ![f] = NoStats] /\ output' = Text("cannot compare")
     ELSE stats' = [stats EXCEPT ![f] = files[f]] /\ UNCHANGED output
  /\ UNCHANGED files

Compare ==
  /\ step = "compare"
  /\ output' = [state |-> "compared",
                verdict |-> [m \in Measures |-> Verdict(stats["master"], stats["current"], m)]]
  /\ step' = "done"
  /\ UNCHANGED <<files, stats>>

Next == (\E f \in Files : Parse(f)) \/ Compare

Spec == Init /\ [][Next]_comparisonVars

-------------------------------------------------------------------------------
(* No commit is said to have kept or improved a measure that it lowered, nor  *)
(* the other way round: the two files and the two measures are not mixed up.  *)
VerdictsAreTrue ==
  step = "done" /\ Unreadable \notin {files[f] : f \in Files} =>
    \A m \in Measures :
      /\ output.verdict[m] = "decreased" <=> files["current"][m] < files["master"][m]
      /\ output.verdict[m] = "improved" <=> files["current"][m] > files["master"][m]

(* "Can't compare coverage stats - Could not open statistics file".           *)
NothingIsCompared ==
  step = "done" /\ output.state = "compared" => Unreadable \notin {files[f] : f \in Files}
===============================================================================
