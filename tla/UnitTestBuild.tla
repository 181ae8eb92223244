----------------------------- MODULE UnitTestBuild -----------------------------
(***************************************************************************)
(* build_ut.py, run again and again in one directory: it cleans, builds,   *)
(* tests and measures coverage by running one command after the other.     *)
(* What a command that fails, and a run with other options, leaves behind  *)
(* is there for the next run.  The table of suites has one entry.          *)
(***************************************************************************)
EXTENDS Integers, Sequences, FiniteSets

CONSTANT MaxRuns  \* bound: invocations of the script
ASSUME MaxRunsAssumption == MaxRuns \in Nat

VARIABLES
  run,      \* invocations so far
  opts,     \* the options of the last one
  todo,     \* the commands it has still to run
  exit,     \* "ok", "failed", or "running"
  verdict,  \* what the tests of each invocation said, once they are through
  tree      \* the output directory: what cmake configured, the test executable,
            \* the executions in the coverage data, and the report files

buildVars == <<run, opts, todo, exit, verdict, tree>>

Runs == 1 .. MaxRuns
OptionNames == {"clean", "noBuild", "noTest", "valgrind", "coverage"}
Options == [OptionNames -> BOOLEAN]
Reports == {"coverage_base", "coverage_test", "coverage", "html", "statistics"}
CommandNames == {"rm", "cmake", "make", "test"} \cup Reports
BuildKinds == {"none", "plain", "coverage"}
(* A file: the invocation that wrote it, whether it is complete, and the      *)
(* invocations whose executions it counts.                                    *)
File == [by : 0 .. MaxRuns, whole : BOOLEAN, counts : SUBSET Runs]
NoFile == [by |-> 0, whole |-> FALSE, counts |-> {}]
EmptyTree == [configured |-> "none", executable |-> "none", counts |-> {},
              report |-> [f \in Reports |-> NoFile]]

TypeOK ==
  /\ run \in 0 .. MaxRuns
  /\ opts \in Options
  /\ todo \in Seq(CommandNames)
  /\ exit \in {"ok", "failed", "running"}
  /\ verdict \in [Runs -> {"none", "passed", "failed"}]
  /\ tree \in [configured : BuildKinds, executable : BuildKinds, counts : SUBSET Runs,
               report : [Reports -> File]]

Init ==
  /\ run = 0 /\ opts = [o \in OptionNames |-> FALSE] /\ todo = <<>> /\ exit = "ok"
  /\ verdict = [r \in Runs |-> "none"]
  /\ tree = EmptyTree

-------------------------------------------------------------------------------
ReportCommands == <<"coverage_base", "coverage_test", "coverage", "html", "statistics">>

Commands(o) ==
  (IF o["clean"] THEN <<"rm">> ELSE <<>>)
    \o (IF o["noBuild"] THEN <<>> ELSE <<"cmake", "make">>)
    \o (IF o["noTest"] THEN <<>> ELSE <<"test">>)
    \o (IF o["coverage"] /\ ~o["noTest"] THEN ReportCommands ELSE <<>>)

Start(o) ==
  /\ exit # "running" /\ run < MaxRuns
  /\ run' = run + 1 /\ opts' = o /\ todo' = Commands(o) /\ exit' = "running"
  /\ UNCHANGED <<verdict, tree>>

(* Mistakes for runs that must fail: a command's status is ignored; the code  *)
(* of valgrind is not taken for a failure; only the logs are removed.         *)

RuncmdUnchecked(status) == todo' = Tail(todo) /\ exit' = exit

CheckOnlySuites(status) == todo' = Tail(todo) /\ exit' = exit

RemoveLogsOnly(status) == tree' = tree

(* runcmd(): 0 and the code of valgrind, 101, go on; any other code ends the  *)
(* script.                                                                    *)
Runcmd(status) ==
  IF status \in {0, 101} THEN todo' = Tail(todo) /\ exit' = exit
  ELSE todo' = <<>> /\ exit' = "failed"

(* runTests(): the exception after the suites, when valgrind found errors.    *)
CheckSuites(status) ==
  IF status = 101 THEN todo' = <<>> /\ exit' = "failed" ELSE Runcmd(status)

At(command) == todo # <<>> /\ Head(todo) = command /\ UNCHANGED <<run, opts>>

Meaning(status) == IF status = 0 THEN "passed" ELSE "failed"

RemoveOutput(status) == tree' = IF status = 0 THEN EmptyTree ELSE tree

Clean == \E status \in {0, 1} :
  /\ At("rm") /\ RemoveOutput(status) /\ Runcmd(status) /\ UNCHANGED verdict

(* cmake keeps COVERAGE_ENABLED in its cache.                                 *)
Configure == \E status \in {0, 1} :
  /\ At("cmake") /\ Runcmd(status)
  /\ tree' = IF status # 0 THEN tree
             ELSE [tree EXCEPT !.configured =
                     IF opts["coverage"] \/ @ = "coverage" THEN "coverage" ELSE "plain"]
  /\ UNCHANGED verdict

(* Sources that are recompiled lose the executions counted for them; a make   *)
(* that fails may have removed the executable.                                *)
Make == \E status \in {0, 1} :
  /\ At("make") /\ Runcmd(status)
  /\ IF status = 0 THEN \E kept \in {tree.counts, {}} :
       tree' = [tree EXCEPT !.executable = tree.configured, !.counts = kept]
     ELSE \E left \in {tree.executable, "none"} : tree' = [tree EXCEPT !.executable = left]
  /\ UNCHANGED verdict

(* Without an executable subprocess.run raises.  Tests that crash may not     *)
(* write down what they executed.                                             *)
Test == \E status \in {0, 1} \cup (IF opts["valgrind"] THEN {101} ELSE {}) :
  /\ At("test")
  /\ tree.executable = "none" => status = 1
  /\ CheckSuites(status)
  /\ verdict' = [verdict EXCEPT ![run] = Meaning(status)]
  /\ \E counts \in {tree.counts, tree.counts \cup {run}} :
       /\ counts # tree.counts => tree.executable = "coverage"
       /\ status = 0 /\ tree.executable = "coverage" => run \in counts
       /\ tree' = [tree EXCEPT !.counts = counts]

-------------------------------------------------------------------------------
(* What lcov and genhtml write from what.                                     *)
Counted(f) ==
  CASE f = "coverage_base" -> {}
    [] f = "coverage_test" -> tree.counts
    [] f = "coverage" -> tree.report["coverage_base"].counts \cup tree.report["coverage_test"].counts
    [] OTHER -> tree.report["coverage"].counts

Usable(f) ==
  CASE f = "coverage_base" -> tree.executable = "coverage"
    [] f = "coverage_test" -> tree.counts # {}
    [] f = "coverage" -> tree.report["coverage_base"].whole /\ tree.report["coverage_test"].whole
    [] OTHER -> tree.report["coverage"].whole

(* generateCoverageReport(), one command.                                     *)
Report(f) == \E status \in {0, 1} :
  /\ At(f) /\ Runcmd(status)
  /\ status = 0 => Usable(f)
  /\ \E file \in {tree.report[f], [by |-> run, whole |-> status = 0, counts |-> Counted(f)]} :
       /\ status = 0 => file.by = run /\ file.whole /\ file.counts = Counted(f)
       /\ tree' = [tree EXCEPT !.report[f] = file]
  /\ UNCHANGED verdict

Finish ==
  /\ exit = "running" /\ todo = <<>>
  /\ exit' = "ok"
  /\ UNCHANGED <<run, opts, todo, verdict, tree>>

Next ==
  \/ \E o \in Options : Start(o)
  \/ Clean \/ Configure \/ Make \/ Test
  \/ \E f \in Reports : Report(f)
  \/ Finish

Spec == Init /\ [][Next]_buildVars

-------------------------------------------------------------------------------
(* A run that ends well has done what it was asked for: its tests passed, and *)
(* the report it leaves is complete and counts them.                          *)
Measured(f) == /\ tree.report[f].by = run /\ tree.report[f].whole
               /\ run \in tree.report[f].counts

SuccessIsComplete ==
  exit = "ok" /\ run > 0 =>
    /\ ~opts["noTest"] => verdict[run] = "passed"
    /\ ~opts["noTest"] /\ opts["coverage"] => Measured("html") /\ Measured("statistics")

(* Whatever fails and whatever was run before, a report in the directory was  *)
(* written by a run whose tests had passed.                                   *)
ReportsOnlyPassedTests ==
  \A f \in Reports : tree.report[f].by # 0 => verdict[tree.report[f].by] = "passed"

(* Without -c a report also counts what earlier runs executed, those that     *)
(* failed among them; with it, as the workflows run the script, it does not.  *)
CleanReportIsOfOneRun ==
  exit = "ok" /\ run > 0 /\ opts["clean"] =>
    \A f \in Reports : tree.report[f].counts \subseteq {run}
===============================================================================
