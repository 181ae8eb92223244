------------------------------ MODULE ScriptsProofs ------------------------------
(***************************************************************************)
(* Proofs about the scripts and cpplint.py, one part after the other: the  *)
(* unit test builds, for any number of invocations in one directory; the   *)
(* three reports, for logs and errors of any number; the NOLINT comments   *)
(* of files, their names and header guards; runs of cpplint.py over any    *)
(* files and configurations.  The last section puts them together.         *)
(***************************************************************************)
EXTENDS Scripts, FiniteSetTheorems, SequenceTheorems, WellFoundedInduction, TLAPS

-------------------------------------------------------------------------------
(* build_ut.py                                                                *)

(* The place of each command in the order of the script.                      *)
Rank == [c \in CommandNames |->
  CASE c = "rm" -> 1 [] c = "cmake" -> 2 [] c = "make" -> 3 [] c = "test" -> 4
    [] c = "coverage_base" -> 5 [] c = "coverage_test" -> 6 [] c = "coverage" -> 7
    [] c = "html" -> 8 [] OTHER -> 9]

Wanted(o, c) ==
  CASE c = "rm" -> o["clean"]
    [] c \in {"cmake", "make"} -> ~o["noBuild"]
    [] c = "test" -> ~o["noTest"]
    [] OTHER -> o["coverage"] /\ ~o["noTest"]

Within(c, s) == \E i \in 1 .. Len(s) : s[i] = c
Ordered(s) == \A i, j \in 1 .. Len(s) : i < j => Rank[s[i]] < Rank[s[j]]

(* What is still to be run is a last part of what is wanted, in order.        *)
CommandsInOrder ==
  /\ Ordered(todo)
  /\ \A c \in CommandNames : Within(c, todo) => Wanted(opts, c)
  /\ \A c, d \in CommandNames :
       Within(c, todo) /\ Wanted(opts, d) /\ Rank[c] < Rank[d] => Within(d, todo)

OnlyRunningHasCommands ==
  /\ todo # <<>> => exit = "running"
  /\ exit = "running" => run > 0

Past(c) == run > 0 /\ exit # "failed" /\ Wanted(opts, c) /\ ~Within(c, todo)

(* What each command has achieved once it is past.                            *)
CommandsHaveDone ==
  /\ Past("rm") => /\ tree.counts \subseteq {run}
                   /\ \A f \in Reports : tree.report[f].counts \subseteq {run}
  /\ Past("test") => /\ verdict[run] = "passed"
                     /\ tree.executable = "coverage" => run \in tree.counts
  /\ Past("coverage_base") => tree.executable = "coverage"
  /\ \A f \in Reports \ {"coverage_base"} : Past(f) => Measured(f)

(* No report is from the future, nor from before the tests.                   *)
ReportsAfterTests ==
  \A f \in Reports :
    /\ tree.report[f].by <= run
    /\ Within("test", todo) => tree.report[f].by < run

Inv ==
  /\ TypeOK /\ CommandsInOrder /\ OnlyRunningHasCommands
  /\ CommandsHaveDone /\ ReportsAfterTests /\ ReportsOnlyPassedTests

-------------------------------------------------------------------------------
(* Both halves of a list of commands in order are, and the first half is over *)
(* before the second begins.                                                  *)
LEMMA Joined ==
  ASSUME NEW s \in Seq(CommandNames), NEW t \in Seq(CommandNames), Ordered(s), Ordered(t),
         \A c, d \in CommandNames : Within(c, s) /\ Within(d, t) => Rank[c] < Rank[d]
  PROVE  /\ s \o t \in Seq(CommandNames) /\ Ordered(s \o t)
         /\ \A c \in CommandNames : Within(c, s \o t) <=> Within(c, s) \/ Within(c, t)
<1>1. /\ s \o t \in Seq(CommandNames) /\ Len(s \o t) = Len(s) + Len(t)
      /\ \A i \in 1 .. Len(s) + Len(t) :
           (s \o t)[i] = IF i <= Len(s) THEN s[i] ELSE t[i - Len(s)]
  OBVIOUS
<1>2. Ordered(s \o t)
  <2> SUFFICES ASSUME NEW i \in 1 .. Len(s) + Len(t), NEW j \in 1 .. Len(s) + Len(t), i < j
               PROVE  Rank[(s \o t)[i]] < Rank[(s \o t)[j]]
    BY <1>1 DEF Ordered
  <2>1. CASE j <= Len(s)
    BY <1>1, <2>1 DEF Ordered
  <2>2. CASE i > Len(s)
    BY <1>1, <2>2 DEF Ordered
  <2>3. CASE i <= Len(s) /\ j > Len(s)
    <3>1. (s \o t)[i] = s[i] /\ (s \o t)[j] = t[j - Len(s)] /\ j - Len(s) \in 1 .. Len(t)
      BY <1>1, <2>3
    <3> QED
      BY <2>3, <3>1 DEF Within
  <2> QED
    BY <2>1, <2>2, <2>3
<1>3. ASSUME NEW c \in CommandNames PROVE Within(c, s \o t) <=> Within(c, s) \/ Within(c, t)
  <2>1. Within(c, s \o t) => Within(c, s) \/ Within(c, t)
    BY <1>1 DEF Within
  <2>2. Within(c, s) => Within(c, s \o t)
    BY <1>1 DEF Within
  <2>3. ASSUME NEW i \in 1 .. Len(t), t[i] = c PROVE Within(c, s \o t)
    <3>1. Len(s) + i \in 1 .. Len(s) + Len(t) /\ (s \o t)[Len(s) + i] = c
      BY <1>1, <2>3
    <3> QED
      BY <1>1, <3>1 DEF Within
  <2> QED
    BY <2>1, <2>2, <2>3 DEF Within
<1> QED
  BY <1>1, <1>2, <1>3

(* The commands are ranked as the script runs them.                           *)
LEMMA Ranks ==
  /\ Rank["rm"] = 1 /\ Rank["cmake"] = 2 /\ Rank["make"] = 3 /\ Rank["test"] = 4
  /\ Rank["coverage_base"] = 5 /\ Rank["coverage_test"] = 6 /\ Rank["coverage"] = 7
  /\ Rank["html"] = 8 /\ Rank["statistics"] = 9
  /\ \A f \in Reports : Rank[f] > 4
  /\ \A c \in CommandNames : Rank[c] \in 1 .. 9
  BY DEF Rank, CommandNames, Reports

(* The commands of an invocation are those wanted, in the order of the script. *)
LEMMA CommandsAreWanted ==
  ASSUME NEW o \in Options
  PROVE  /\ Commands(o) \in Seq(CommandNames) /\ Ordered(Commands(o))
         /\ \A c \in CommandNames : Within(c, Commands(o)) <=> Wanted(o, c)
<1> DEFINE a == IF o["clean"] THEN <<"rm">> ELSE <<>>
           b == IF o["noBuild"] THEN <<>> ELSE <<"cmake", "make">>
           t == IF o["noTest"] THEN <<>> ELSE <<"test">>
           r == IF o["coverage"] /\ ~o["noTest"] THEN ReportCommands ELSE <<>>
<1>0. \A c : ~Within(c, <<>>) /\ Ordered(<<>>) /\ <<>> \in Seq(CommandNames)
  BY DEF Ordered, Within
<1>1. /\ a \in Seq(CommandNames) /\ Ordered(a)
      /\ \A c \in CommandNames : Within(c, a) <=> c = "rm" /\ Wanted(o, c)
  <2>1. CASE o["clean"]
    <3>1. a = <<"rm">>
      BY <2>1
    <3> QED
      BY <2>1, <3>1 DEF Ordered, Within, Wanted, CommandNames
  <2>2. CASE ~o["clean"]
    BY <1>0, <2>2 DEF Wanted
  <2> QED
    BY <2>1, <2>2
<1>2. /\ b \in Seq(CommandNames) /\ Ordered(b)
      /\ \A c \in CommandNames : Within(c, b) <=> c \in {"cmake", "make"} /\ Wanted(o, c)
  <2>1. CASE ~o["noBuild"]
    <3> DEFINE q == <<"cmake", "make">>
    <3>1. b = q /\ q \in Seq(CommandNames) /\ Len(q) = 2 /\ q[1] = "cmake" /\ q[2] = "make"
      BY <2>1 DEF CommandNames
    <3> HIDE DEF q
    <3>2. Ordered(q)
      BY <3>1, Ranks DEF Ordered
    <3>3. \A c \in CommandNames : Within(c, q) <=> c \in {"cmake", "make"}
      BY <3>1 DEF Within
    <3> QED
      BY <2>1, <3>1, <3>2, <3>3 DEF Wanted
  <2>2. CASE o["noBuild"]
    BY <1>0, <2>2 DEF Wanted
  <2> QED
    BY <2>1, <2>2
<1>3. /\ t \in Seq(CommandNames) /\ Ordered(t)
      /\ \A c \in CommandNames : Within(c, t) <=> c = "test" /\ Wanted(o, c)
  <2>1. CASE ~o["noTest"]
    <3>1. t = <<"test">>
      BY <2>1
    <3> QED
      BY <2>1, <3>1 DEF Ordered, Within, Wanted, CommandNames
  <2>2. CASE o["noTest"]
    BY <1>0, <2>2 DEF Wanted
  <2> QED
    BY <2>1, <2>2
<1>4. /\ r \in Seq(CommandNames) /\ Ordered(r)
      /\ \A c \in CommandNames : Within(c, r) <=> c \in Reports /\ Wanted(o, c)
  <2>1. CASE o["coverage"] /\ ~o["noTest"]
    <3> DEFINE q == ReportCommands
    <3>1. /\ q \in Seq(CommandNames) /\ Len(q) = 5
          /\ q[1] = "coverage_base" /\ q[2] = "coverage_test" /\ q[3] = "coverage"
          /\ q[4] = "html" /\ q[5] = "statistics"
      BY DEF ReportCommands, CommandNames, Reports
    <3> HIDE DEF q
    <3>2. Ordered(q)
      BY <3>1, Ranks DEF Ordered
    <3>3. \A c \in CommandNames : Within(c, q) <=> c \in Reports
      BY <3>1 DEF Within, Reports
    <3>4. \A c \in Reports : Wanted(o, c)
      BY <2>1 DEF Wanted, Reports
    <3> QED
      BY <2>1, <3>1, <3>2, <3>3, <3>4 DEF q
  <2>2. CASE ~(o["coverage"] /\ ~o["noTest"])
    BY <1>0, <2>2 DEF Wanted, Reports
  <2> QED
    BY <2>1, <2>2
<1> HIDE DEF a, b, t, r
<1>5. /\ a \o b \in Seq(CommandNames) /\ Ordered(a \o b)
      /\ \A c \in CommandNames : Within(c, a \o b) <=> c \in {"rm", "cmake", "make"} /\ Wanted(o, c)
  <2>1. \A c, d \in CommandNames : Within(c, a) /\ Within(d, b) => Rank[c] < Rank[d]
    BY <1>1, <1>2, Ranks
  <2> QED
    BY <1>1, <1>2, <2>1, Joined
<1> DEFINE ab == a \o b
<1> HIDE DEF ab
<1>6. /\ ab \o t \in Seq(CommandNames) /\ Ordered(ab \o t)
      /\ \A c \in CommandNames :
           Within(c, ab \o t) <=> c \in {"rm", "cmake", "make", "test"} /\ Wanted(o, c)
  <2>1. /\ ab \in Seq(CommandNames) /\ Ordered(ab)
        /\ \A c \in CommandNames : Within(c, ab) <=> c \in {"rm", "cmake", "make"} /\ Wanted(o, c)
    BY <1>5 DEF ab
  <2>2. \A c, d \in CommandNames : Within(c, ab) /\ Within(d, t) => Rank[c] < Rank[d]
    BY <1>3, <2>1, Ranks
  <2> QED
    BY <1>3, <2>1, <2>2, Joined
<1> DEFINE abt == ab \o t
<1> HIDE DEF abt
<1>7. /\ abt \o r \in Seq(CommandNames) /\ Ordered(abt \o r)
      /\ \A c \in CommandNames : Within(c, abt \o r) <=> Wanted(o, c)
  <2>1. /\ abt \in Seq(CommandNames) /\ Ordered(abt)
        /\ \A c \in CommandNames :
             Within(c, abt) <=> c \in {"rm", "cmake", "make", "test"} /\ Wanted(o, c)
    BY <1>6 DEF abt
  <2>2. \A c, d \in CommandNames : Within(c, abt) /\ Within(d, r) => Rank[c] < Rank[d]
    BY <1>4, <2>1, Ranks
  <2> QED
    BY <1>4, <2>1, <2>2, Joined DEF CommandNames
<1> QED
  BY <1>7 DEF Commands, a, b, t, r, ab, abt

-------------------------------------------------------------------------------
(* Behind the first of a list of commands in order come all the others, and   *)
(* not the first itself.                                                      *)
LEMMA Popped ==
  ASSUME NEW s \in Seq(CommandNames), s # <<>>, Ordered(s)
  PROVE  /\ Tail(s) \in Seq(CommandNames) /\ Ordered(Tail(s))
         /\ Head(s) \in CommandNames /\ Within(Head(s), s)
         /\ \A c \in CommandNames : Within(c, Tail(s)) <=> Within(c, s) /\ c # Head(s)
         /\ \A c \in CommandNames : Within(c, s) => Rank[Head(s)] <= Rank[c]
<1>1. /\ Tail(s) \in Seq(CommandNames) /\ Len(Tail(s)) = Len(s) - 1 /\ Len(s) \in Nat \ {0}
      /\ \A i \in 1 .. Len(s) - 1 : Tail(s)[i] = s[i + 1]
      /\ Head(s) = s[1] /\ 1 \in 1 .. Len(s) /\ Head(s) \in CommandNames
  OBVIOUS
<1>2. Ordered(Tail(s))
  BY <1>1 DEF Ordered
<1>3. \A i \in 2 .. Len(s) : Rank[s[1]] < Rank[s[i]]
  BY <1>1 DEF Ordered
<1>4. \A i \in 1 .. Len(s) : s[i] \in CommandNames
  OBVIOUS
<1>5. ASSUME NEW c \in CommandNames
      PROVE  Within(c, Tail(s)) <=> Within(c, s) /\ c # Head(s)
  <2>1. ASSUME NEW i \in 1 .. Len(s) - 1, Tail(s)[i] = c PROVE Within(c, s) /\ c # Head(s)
    <3>1. i + 1 \in 2 .. Len(s) /\ i + 1 \in 1 .. Len(s) /\ s[i + 1] = c
      BY <1>1, <2>1
    <3>2. Rank[s[1]] < Rank[c] /\ Rank[c] \in 1 .. 9
      BY <1>3, <3>1, Ranks
    <3> QED
      BY <1>1, <3>1, <3>2 DEF Within
  <2>2. ASSUME NEW i \in 1 .. Len(s), s[i] = c, c # Head(s) PROVE Within(c, Tail(s))
    <3>1. i - 1 \in 1 .. Len(s) - 1 /\ Tail(s)[i - 1] = c
      BY <1>1, <2>2
    <3> QED
      BY <1>1, <3>1 DEF Within
  <2> QED
    BY <1>1, <2>1, <2>2 DEF Within
<1>6. ASSUME NEW c \in CommandNames, Within(c, s) PROVE Rank[Head(s)] <= Rank[c]
  <2>1. PICK i \in 1 .. Len(s) : s[i] = c
    BY <1>6 DEF Within
  <2>2. CASE i = 1
    <3>1. c = Head(s) /\ Rank[c] \in 1 .. 9
      BY <1>1, <2>1, <2>2, Ranks
    <3> QED
      BY <3>1
  <2>3. CASE i \in 2 .. Len(s)
    BY <1>1, <1>3, <2>1, <2>3, Ranks
  <2> QED
    BY <2>1, <2>2, <2>3
<1> QED
  BY <1>1, <1>2, <1>5, <1>6 DEF Within

(* How a command ends, told by its code.                                      *)
Ended(status, bad) ==
  \/ status \notin bad /\ todo' = Tail(todo) /\ exit' = exit
  \/ status \in bad /\ todo' = <<>> /\ exit' = "failed"

(* How an invocation ends.                                                    *)
LEMMA Endings ==
  ASSUME NEW status \in {0, 1, 101}
  PROVE  /\ Runcmd(status) => Ended(status, {1})
         /\ CheckSuites(status) => Ended(status, {1, 101})
  BY DEF Runcmd, CheckSuites, Ended

(* After a command, those past are the one that ran, if it ran well, and the  *)
(* earlier ones; a command not reached yet is not past.                       *)
LEMMA Advance ==
  ASSUME Inv, NEW c \in CommandNames, At(c), NEW status, NEW bad, Ended(status, bad)
  PROVE  /\ todo' \in Seq(CommandNames) /\ exit' \in {"ok", "failed", "running"}
         /\ run' = run /\ opts' = opts /\ run > 0
         /\ CommandsInOrder' /\ OnlyRunningHasCommands'
         /\ Wanted(opts, c)
         /\ Within(c, todo)
         /\ \A d \in CommandNames : Within(d, todo') => Within(d, todo)
         /\ \A d \in CommandNames :
              Past(d)' => status \notin bad /\ Rank[d] <= Rank[c] /\ (d = c \/ Past(d))
         /\ \A d \in CommandNames : Wanted(opts, d) /\ Rank[d] < Rank[c] => Past(d)
         /\ \A d \in CommandNames : Rank[d] < Rank[c] => ~Within(d, todo)
<1>1. /\ todo \in Seq(CommandNames) /\ todo # <<>> /\ Head(todo) = c /\ run' = run
      /\ opts' = opts /\ exit = "running" /\ run > 0 /\ run \in Nat /\ Ordered(todo)
  BY MaxRunsAssumption DEF Inv, TypeOK, At, OnlyRunningHasCommands, CommandsInOrder
<1>2. /\ Tail(todo) \in Seq(CommandNames) /\ Ordered(Tail(todo)) /\ Within(c, todo)
      /\ \A d \in CommandNames : Within(d, Tail(todo)) <=> Within(d, todo) /\ d # c
      /\ \A d \in CommandNames : Within(d, todo) => Rank[c] <= Rank[d]
  BY <1>1, Popped
<1>3. Wanted(opts, c)
  BY <1>2 DEF Inv, CommandsInOrder
<1>4. \A d \in CommandNames : Wanted(opts, d) /\ Rank[c] < Rank[d] => Within(d, todo)
  BY <1>2 DEF Inv, CommandsInOrder
<1>5. \A d \in CommandNames : Rank[d] < Rank[c] => ~Within(d, todo)
  BY <1>2, Ranks
<1>6. \A d \in CommandNames : Wanted(opts, d) /\ Rank[d] < Rank[c] => Past(d)
  BY <1>1, <1>5 DEF Past
<1>7. CASE status \notin bad /\ todo' = Tail(todo) /\ exit' = exit
  <2>1. CommandsInOrder'
    <3>1. ASSUME NEW d \in CommandNames, NEW e \in CommandNames,
                 Within(d, Tail(todo)), Wanted(opts, e), Rank[d] < Rank[e]
          PROVE  Within(e, Tail(todo))
      <4>1. Within(d, todo) /\ Rank[c] <= Rank[d]
        BY <1>2, <3>1
      <4>2. Within(e, todo) /\ e # c
        BY <3>1, <4>1, Ranks DEF Inv, CommandsInOrder
      <4> QED
        BY <1>2, <4>2
    <3>2. \A d \in CommandNames : Within(d, Tail(todo)) => Wanted(opts, d)
      BY <1>2 DEF Inv, CommandsInOrder
    <3> QED
      BY <1>1, <1>2, <1>7, <3>1, <3>2 DEF CommandsInOrder
  <2>2. ASSUME NEW d \in CommandNames, Past(d)'
        PROVE  Rank[d] <= Rank[c] /\ (d = c \/ Past(d))
    <3>1. Wanted(opts, d) /\ ~Within(d, Tail(todo))
      BY <1>1, <1>7, <2>2 DEF Past
    <3>2. d = c \/ ~Within(d, todo)
      BY <1>2, <3>1
    <3>3. d # c => ~(Rank[c] < Rank[d])
      BY <1>4, <3>1, <3>2
    <3> QED
      BY <1>1, <3>1, <3>2, <3>3, Ranks DEF Past
  <2>3. OnlyRunningHasCommands'
    BY <1>1, <1>7 DEF OnlyRunningHasCommands
  <2>4. \A d \in CommandNames : Within(d, todo') => Within(d, todo)
    BY <1>2, <1>7
  <2> QED
    BY <1>1, <1>2, <1>3, <1>5, <1>6, <1>7, <2>1, <2>2, <2>3, <2>4
<1>8. CASE status \in bad /\ todo' = <<>> /\ exit' = "failed"
  <2>1. \A d : ~Within(d, todo')
    BY <1>8 DEF Within
  <2>2. CommandsInOrder' /\ OnlyRunningHasCommands' /\ todo' \in Seq(CommandNames)
    BY <1>8, <2>1 DEF CommandsInOrder, OnlyRunningHasCommands, Ordered, Within
  <2>3. \A d \in CommandNames : ~Past(d)'
    BY <1>8 DEF Past
  <2> QED
    BY <1>1, <1>2, <1>3, <1>5, <1>6, <1>8, <2>1, <2>2, <2>3
<1> QED
  BY <1>7, <1>8 DEF Ended

-------------------------------------------------------------------------------
(* Before the first invocation nothing has been done.                         *)
LEMMA InitInv == Init => Inv
<1> SUFFICES ASSUME Init PROVE Inv
  OBVIOUS
<1>1. \A c : ~Within(c, todo)
  BY DEF Init, Within
<1>2. TypeOK
  BY MaxRunsAssumption DEF Init, TypeOK, Options, EmptyTree, File, NoFile, BuildKinds
<1>3. CommandsInOrder /\ OnlyRunningHasCommands /\ CommandsHaveDone
  BY <1>1 DEF Init, CommandsInOrder, OnlyRunningHasCommands, CommandsHaveDone, Past, Ordered
<1>4. ReportsAfterTests /\ ReportsOnlyPassedTests
  BY <1>1 DEF Init, ReportsAfterTests, ReportsOnlyPassedTests, EmptyTree, NoFile
<1> QED
  BY <1>2, <1>3, <1>4 DEF Inv

(* Nothing is past, and nothing ran, when an invocation begins.               *)
LEMMA StartInv == ASSUME Inv, NEW o \in Options, Start(o) PROVE Inv'
<1>1. /\ run' = run + 1 /\ run' \in 1 .. MaxRuns /\ run \in Nat /\ opts' = o
      /\ todo' = Commands(o) /\ exit' = "running" /\ verdict' = verdict /\ tree' = tree
  BY MaxRunsAssumption DEF Inv, TypeOK, Start
<1>2. /\ Commands(o) \in Seq(CommandNames) /\ Ordered(Commands(o))
      /\ \A c \in CommandNames : Within(c, Commands(o)) <=> Wanted(o, c)
  BY CommandsAreWanted
<1>3. TypeOK'
  BY <1>1, <1>2 DEF Inv, TypeOK
<1>4. CommandsInOrder' /\ OnlyRunningHasCommands'
  BY <1>1, <1>2 DEF CommandsInOrder, OnlyRunningHasCommands
<1>5. \A c \in CommandNames : ~Past(c)'
  BY <1>1, <1>2 DEF Past
<1>6. CommandsHaveDone'
  BY <1>5 DEF CommandsHaveDone, CommandNames, Reports
<1>7. \A f \in Reports : tree.report[f].by <= run /\ tree.report[f].by \in Nat
  BY DEF Inv, TypeOK, ReportsAfterTests, File
<1>8. ReportsAfterTests'
  BY <1>1, <1>7 DEF ReportsAfterTests
<1>9. ReportsOnlyPassedTests'
  BY <1>1 DEF Inv, ReportsOnlyPassedTests
<1> QED
  BY <1>3, <1>4, <1>6, <1>8, <1>9 DEF Inv

(* rm removes what earlier invocations left behind.                           *)
LEMMA CleanInv == ASSUME Inv, Clean PROVE Inv'
<1>1. PICK status \in {0, 1} :
        At("rm") /\ RemoveOutput(status) /\ Runcmd(status) /\ UNCHANGED verdict
  BY DEF Clean
<1>2. Ended(status, {1}) /\ "rm" \in CommandNames
  BY <1>1, Endings DEF CommandNames
<1>3. /\ todo' \in Seq(CommandNames) /\ exit' \in {"ok", "failed", "running"}
      /\ run' = run /\ opts' = opts /\ CommandsInOrder' /\ OnlyRunningHasCommands'
      /\ \A d \in CommandNames : Within(d, todo') => Within(d, todo)
      /\ \A d \in CommandNames : Past(d)' => status \notin {1} /\ Rank[d] <= Rank["rm"]
  BY <1>1, <1>2, Advance
<1>4. tree' = (IF status = 0 THEN EmptyTree ELSE tree) /\ verdict' = verdict
  BY <1>1 DEF RemoveOutput
<1>5. EmptyTree.counts = {} /\ \A f \in Reports : EmptyTree.report[f] = NoFile
  BY DEF EmptyTree
<1>6. TypeOK'
  <2>1. EmptyTree \in [configured : BuildKinds, executable : BuildKinds, counts : SUBSET Runs,
                       report : [Reports -> File]]
    BY MaxRunsAssumption DEF EmptyTree, BuildKinds, NoFile, File
  <2> QED
    BY <1>3, <1>4, <2>1 DEF Inv, TypeOK
<1>7. CommandsHaveDone'
  <2>1. ASSUME NEW f \in Reports PROVE ~Past(f)'
    <3>1. f \in CommandNames /\ Rank[f] > 4 /\ Rank[f] \in 1 .. 9
      BY Ranks DEF CommandNames
    <3>2. Past(f)' => Rank[f] <= 1
      BY <1>3, <3>1, Ranks
    <3> QED
      BY <3>1, <3>2
  <2>2. ~Past("test")'
    BY <1>3, Ranks DEF CommandNames
  <2>3. Past("rm")' => status = 0
    BY <1>3 DEF CommandNames
  <2> QED
    BY <1>3, <1>4, <1>5, <2>1, <2>2, <2>3 DEF CommandsHaveDone, NoFile, Reports
<1>8. \A f \in Reports : tree'.report[f] = NoFile \/ tree'.report[f] = tree.report[f]
  BY <1>4, <1>5
<1>9. ReportsAfterTests'
  <2>1. "test" \in CommandNames /\ run \in Nat /\ NoFile.by = 0
    BY DEF CommandNames, Inv, TypeOK, NoFile
  <2>2. run > 0
    BY <1>1, <1>2, Advance
  <2> QED
    BY <1>3, <1>8, <2>1, <2>2 DEF Inv, ReportsAfterTests
<1>10. ReportsOnlyPassedTests'
  BY <1>4, <1>8 DEF Inv, ReportsOnlyPassedTests, NoFile
<1> QED
  BY <1>3, <1>6, <1>7, <1>9, <1>10 DEF Inv

(* cmake and make change no report and no verdict, and come before the tests. *)
LEMMA BuildInv ==
  ASSUME Inv, NEW c \in {"cmake", "make"}, NEW status \in {0, 1}, At(c), Runcmd(status),
         verdict' = verdict, NEW configured \in BuildKinds, NEW executable \in BuildKinds,
         NEW counts \in {tree.counts, {}},
         tree' = [tree EXCEPT !.configured = configured, !.executable = executable,
                              !.counts = counts]
  PROVE  Inv'
<1>2. Ended(status, {1}) /\ c \in CommandNames /\ Rank[c] < 4
  BY Endings, Ranks DEF CommandNames
<1>3. /\ todo' \in Seq(CommandNames) /\ exit' \in {"ok", "failed", "running"}
      /\ run' = run /\ opts' = opts /\ CommandsInOrder' /\ OnlyRunningHasCommands'
      /\ \A d \in CommandNames : Within(d, todo') => Within(d, todo)
      /\ \A d \in CommandNames : Past(d)' => Rank[d] <= Rank[c] /\ (d = c \/ Past(d))
  BY <1>2, Advance
<1>4. tree \in [configured : BuildKinds, executable : BuildKinds, counts : SUBSET Runs,
                report : [Reports -> File]]
  BY DEF Inv, TypeOK
<1>5. tree'.report = tree.report /\ tree'.counts = counts /\ counts \subseteq tree.counts
  BY <1>4
<1>6. TypeOK'
  BY <1>3, <1>4 DEF Inv, TypeOK
<1>7. CommandsHaveDone'
  <2>1. ASSUME NEW f \in Reports PROVE ~Past(f)'
    <3>1. /\ f \in CommandNames /\ Rank[f] > 4 /\ Rank[f] \in 1 .. 9 /\ Rank[c] \in 1 .. 9
      BY <1>2, Ranks DEF CommandNames
    <3>2. Past(f)' => Rank[f] <= Rank[c]
      BY <1>3, <3>1
    <3> QED
      BY <1>2, <3>1, <3>2
  <2>2. ~Past("test")'
    BY <1>2, <1>3, Ranks DEF CommandNames
  <2>3. Past("rm")' => Past("rm")
    BY <1>3 DEF CommandNames
  <2> QED
    BY <1>3, <1>5, <2>1, <2>2, <2>3 DEF Inv, CommandsHaveDone, Reports
<1>8. ReportsAfterTests' /\ ReportsOnlyPassedTests'
  BY <1>3, <1>5 DEF Inv, ReportsAfterTests, ReportsOnlyPassedTests, CommandNames
<1> QED
  BY <1>3, <1>6, <1>7, <1>8 DEF Inv

(* cmake leaves a build system, or the one there was.                         *)
LEMMA ConfigureInv == ASSUME Inv, Configure PROVE Inv'
<1>1. PICK status \in {0, 1} :
        /\ At("cmake") /\ Runcmd(status)
        /\ tree' = IF status # 0 THEN tree
                   ELSE [tree EXCEPT !.configured =
                           IF opts["coverage"] \/ @ = "coverage" THEN "coverage" ELSE "plain"]
        /\ verdict' = verdict
  BY DEF Configure
<1>2. /\ tree.configured \in BuildKinds /\ tree.executable \in BuildKinds
      /\ tree = [tree EXCEPT !.configured = tree.configured, !.executable = tree.executable,
                             !.counts = tree.counts]
  BY DEF Inv, TypeOK
<1>3. PICK configured \in BuildKinds :
        tree' = [tree EXCEPT !.configured = configured, !.executable = tree.executable,
                             !.counts = tree.counts]
  <2>1. CASE status # 0
    BY <1>1, <1>2, <2>1
  <2>2. CASE status = 0
    <3> DEFINE k == IF opts["coverage"] \/ tree.configured = "coverage" THEN "coverage" ELSE "plain"
    <3>1. k \in BuildKinds
      BY DEF BuildKinds
    <3>2. tree' = [tree EXCEPT !.configured = k]
      BY <1>1, <2>2
    <3>3. tree' = [tree EXCEPT !.configured = k, !.executable = tree.executable,
                               !.counts = tree.counts]
      BY <1>2, <3>2 DEF Inv, TypeOK
    <3> QED
      BY <3>1, <3>3
  <2> QED
    BY <2>1, <2>2
<1> QED
  BY <1>1, <1>2, <1>3, BuildInv

(* make leaves an executable with or without the coverage flags.              *)
LEMMA MakeInv == ASSUME Inv, Make PROVE Inv'
<1>1. PICK status \in {0, 1} :
        /\ At("make") /\ Runcmd(status) /\ verdict' = verdict
        /\ IF status = 0 THEN \E kept \in {tree.counts, {}} :
             tree' = [tree EXCEPT !.executable = tree.configured, !.counts = kept]
           ELSE \E left \in {tree.executable, "none"} :
             tree' = [tree EXCEPT !.executable = left]
  BY DEF Make
<1>2. /\ tree.configured \in BuildKinds /\ tree.executable \in BuildKinds /\ "none" \in BuildKinds
      /\ tree \in [configured : BuildKinds, executable : BuildKinds, counts : SUBSET Runs,
                   report : [Reports -> File]]
  BY DEF Inv, TypeOK, BuildKinds
<1>3. \E executable \in BuildKinds, counts \in {tree.counts, {}} :
        tree' = [tree EXCEPT !.configured = tree.configured, !.executable = executable,
                             !.counts = counts]
  <2>1. CASE status = 0
    <3>1. PICK kept \in {tree.counts, {}} :
            tree' = [tree EXCEPT !.executable = tree.configured, !.counts = kept]
      BY <1>1, <2>1
    <3>2. tree' = [tree EXCEPT !.configured = tree.configured, !.executable = tree.configured,
                               !.counts = kept]
      BY <1>2, <3>1
    <3> QED
      BY <1>2, <3>2
  <2>2. CASE status # 0
    <3>1. PICK left \in {tree.executable, "none"} : tree' = [tree EXCEPT !.executable = left]
      BY <1>1, <2>2
    <3>2. tree' = [tree EXCEPT !.configured = tree.configured, !.executable = left,
                               !.counts = tree.counts]
      BY <1>2, <3>1
    <3> QED
      BY <1>2, <3>2
  <2> QED
    BY <2>1, <2>2
<1> QED
  BY <1>1, <1>2, <1>3, BuildInv

(* The tests give the verdict of their run, which no report stands for yet.   *)
LEMMA TestInv == ASSUME Inv, Test PROVE Inv'
<1>1. PICK status \in {0, 1, 101}, counts \in {tree.counts, tree.counts \cup {run}} :
        /\ At("test") /\ CheckSuites(status)
        /\ verdict' = [verdict EXCEPT ![run] = Meaning(status)]
        /\ status = 0 /\ tree.executable = "coverage" => run \in counts
        /\ tree' = [tree EXCEPT !.counts = counts]
  BY DEF Test
<1>2. Ended(status, {1, 101}) /\ "test" \in CommandNames
  BY <1>1, Endings DEF CommandNames
<1>3. /\ todo' \in Seq(CommandNames) /\ exit' \in {"ok", "failed", "running"}
      /\ run' = run /\ opts' = opts /\ run > 0 /\ CommandsInOrder' /\ OnlyRunningHasCommands'
      /\ Within("test", todo)
      /\ \A d \in CommandNames :
           Past(d)' => status \notin {1, 101} /\ Rank[d] <= Rank["test"] /\ (d = "test" \/ Past(d))
  BY <1>1, <1>2, Advance
<1>4. /\ tree \in [configured : BuildKinds, executable : BuildKinds, counts : SUBSET Runs,
                   report : [Reports -> File]]
      /\ verdict \in [Runs -> {"none", "passed", "failed"}] /\ run \in Runs
  BY <1>3, MaxRunsAssumption DEF Inv, TypeOK, Runs
<1>5. /\ tree'.report = tree.report /\ tree'.counts = counts
      /\ tree'.executable = tree.executable /\ counts \subseteq tree.counts \cup {run}
      /\ counts \subseteq Runs
  BY <1>1, <1>4
<1>6. TypeOK'
  <2>1. tree' \in [configured : BuildKinds, executable : BuildKinds, counts : SUBSET Runs,
                   report : [Reports -> File]]
    BY <1>1, <1>4, <1>5
  <2>2. verdict' \in [Runs -> {"none", "passed", "failed"}]
    BY <1>1, <1>4 DEF Meaning
  <2> QED
    BY <1>3, <2>1, <2>2 DEF Inv, TypeOK
<1>7. CommandsHaveDone'
  <2>1. ASSUME NEW f \in Reports PROVE ~Past(f)'
    <3>1. f \in CommandNames /\ Rank[f] > 4 /\ Rank[f] \in 1 .. 9
      BY Ranks DEF CommandNames
    <3>2. Past(f)' => Rank[f] <= 4
      BY <1>3, <3>1, Ranks
    <3> QED
      BY <3>1, <3>2
  <2>2. Past("test")' => status = 0
    BY <1>2, <1>3
  <2>3. Past("test")' => verdict'[run] = "passed"
    BY <1>1, <1>4, <2>2 DEF Meaning
  <2>4. Past("rm")' => Past("rm")
    BY <1>3 DEF CommandNames
  <2> QED
    BY <1>1, <1>3, <1>5, <2>1, <2>2, <2>3, <2>4 DEF Inv, CommandsHaveDone, Reports
<1>8. \A f \in Reports : tree.report[f].by < run
  BY <1>3 DEF Inv, ReportsAfterTests
<1>9. \A f \in Reports : tree.report[f].by \in 0 .. MaxRuns
  BY <1>4 DEF File
<1>10. ReportsAfterTests'
  BY <1>3, <1>4, <1>5, <1>8, <1>9 DEF ReportsAfterTests, Runs
<1>11. ReportsOnlyPassedTests'
  <2>1. \A r \in Runs : r # run => verdict'[r] = verdict[r]
    BY <1>1, <1>4
  <2>2. \A f \in Reports : tree.report[f].by # 0 => tree.report[f].by \in Runs
    BY <1>9 DEF Runs
  <2>3. \A f \in Reports : tree.report[f].by # run
    BY <1>4, <1>8, <1>9 DEF Runs
  <2> QED
    BY <1>5, <2>1, <2>2, <2>3 DEF Inv, ReportsOnlyPassedTests
<1> QED
  BY <1>3, <1>6, <1>7, <1>10, <1>11 DEF Inv

(* When a report is written the tests have passed, and what it is made from   *)
(* counts them.                                                               *)
LEMMA ReportInv == ASSUME Inv, NEW f \in Reports, Report(f) PROVE Inv'
<1>0. PICK status \in {0, 1} :
        /\ At(f) /\ Runcmd(status) /\ verdict' = verdict /\ (status = 0 => Usable(f))
        /\ \E written \in {tree.report[f], [by |-> run, whole |-> status = 0, counts |-> Counted(f)]} :
             /\ status = 0 => written.by = run /\ written.whole /\ written.counts = Counted(f)
             /\ tree' = [tree EXCEPT !.report[f] = written]
  BY DEF Report
<1>1. PICK written \in {tree.report[f], [by |-> run, whole |-> status = 0, counts |-> Counted(f)]} :
        /\ At(f) /\ Runcmd(status) /\ verdict' = verdict
        /\ status = 0 => Usable(f) /\ written.by = run /\ written.whole /\ written.counts = Counted(f)
        /\ tree' = [tree EXCEPT !.report[f] = written]
  BY <1>0
<1>2. Ended(status, {1}) /\ f \in CommandNames /\ "test" \in CommandNames
  BY <1>1, Endings DEF CommandNames
<1>3. /\ todo' \in Seq(CommandNames) /\ exit' \in {"ok", "failed", "running"}
      /\ run' = run /\ opts' = opts /\ run > 0 /\ CommandsInOrder' /\ OnlyRunningHasCommands'
      /\ Wanted(opts, f)
      /\ \A d \in CommandNames : Within(d, todo') => Within(d, todo)
      /\ \A d \in CommandNames : Past(d)' => status # 1 /\ (d = f \/ Past(d))
      /\ \A d \in CommandNames : Wanted(opts, d) /\ Rank[d] < Rank[f] => Past(d)
      /\ \A d \in CommandNames : Rank[d] < Rank[f] => ~Within(d, todo)
  BY <1>1, <1>2, Advance
<1>4. /\ tree \in [configured : BuildKinds, executable : BuildKinds, counts : SUBSET Runs,
                   report : [Reports -> File]]
      /\ run \in Runs
  BY <1>3, MaxRunsAssumption DEF Inv, TypeOK, Runs
<1>5. /\ tree'.counts = tree.counts /\ tree'.executable = tree.executable
      /\ tree'.report[f] = written
      /\ \A g \in Reports \ {f} : tree'.report[g] = tree.report[g]
  BY <1>1, <1>4
<1>6. \A g \in Reports : tree.report[g] \in File /\ tree.report[g].counts \subseteq Runs
  BY <1>4 DEF File
<1>7. Past("test") /\ ~Within("test", todo)
  <2>1. Rank["test"] < Rank[f]
    BY Ranks
  <2>2. Wanted(opts, "test")
    BY <1>3 DEF Wanted, Reports
  <2> QED
    BY <1>2, <1>3, <2>1, <2>2
<1>8. verdict[run] = "passed" /\ (tree.executable = "coverage" => run \in tree.counts)
  BY <1>7 DEF Inv, CommandsHaveDone
<1>9. \A g \in Reports : Wanted(opts, g)
  BY <1>3 DEF Wanted, Reports
<1>10. written \in File
  <2>1. Counted(f) \subseteq Runs
    BY <1>4, <1>6 DEF Counted, Reports
  <2>2. run \in 0 .. MaxRuns /\ (status = 0) \in BOOLEAN
    BY <1>4 DEF Runs
  <2>3. [by |-> run, whole |-> status = 0, counts |-> Counted(f)] \in File
    BY <2>1, <2>2 DEF File
  <2> QED
    BY <1>1, <1>6, <2>3
<1>11. TypeOK'
  <2>1. tree' \in [configured : BuildKinds, executable : BuildKinds, counts : SUBSET Runs,
                   report : [Reports -> File]]
    BY <1>1, <1>4, <1>10
  <2> QED
    BY <1>1, <1>3, <2>1 DEF Inv, TypeOK
<1>12. CommandsHaveDone'
  <2>1. ASSUME Past("rm")'
        PROVE  /\ tree'.counts \subseteq {run}
               /\ \A g \in Reports : tree'.report[g].counts \subseteq {run}
    <3>1. Past("rm")
      BY <1>3, <2>1 DEF CommandNames, Reports
    <3>2. /\ tree.counts \subseteq {run}
          /\ \A g \in Reports : tree.report[g].counts \subseteq {run}
      BY <3>1 DEF Inv, CommandsHaveDone
    <3>3. Counted(f) \subseteq {run}
      BY <3>2 DEF Counted, Reports
    <3>4. written.counts \subseteq {run}
      BY <1>1, <3>2, <3>3
    <3> QED
      BY <1>5, <3>2, <3>4
  <2>2. ASSUME Past("coverage_base")' PROVE tree.executable = "coverage"
    <3>1. CASE f = "coverage_base"
      BY <1>1, <1>2, <1>3, <2>2, <3>1 DEF Usable
    <3>2. CASE f # "coverage_base"
      BY <1>3, <2>2, <3>2 DEF Inv, CommandsHaveDone, CommandNames, Reports
    <3> QED
      BY <3>1, <3>2
  <2>3. ASSUME f # "coverage_base", status = 0 PROVE run \in Counted(f)
    <3>1. CASE f = "coverage_test"
      <4>1. Past("coverage_base")
        BY <1>3, <1>9, <3>1, Ranks DEF CommandNames, Reports
      <4> QED
        BY <1>8, <3>1, <4>1 DEF Inv, CommandsHaveDone, Counted
    <3>2. CASE f = "coverage"
      <4>1. Past("coverage_test")
        BY <1>3, <1>9, <3>2, Ranks DEF CommandNames, Reports
      <4>2. Measured("coverage_test")
        BY <4>1 DEF Inv, CommandsHaveDone, Reports
      <4> QED
        BY <3>2, <4>2 DEF Counted, Measured
    <3>3. CASE f \in {"html", "statistics"}
      <4>1. Past("coverage")
        BY <1>3, <1>9, <3>3, Ranks DEF CommandNames, Reports
      <4>2. Measured("coverage")
        BY <4>1 DEF Inv, CommandsHaveDone, Reports
      <4> QED
        BY <3>3, <4>2 DEF Counted, Measured
    <3> QED
      BY <2>3, <3>1, <3>2, <3>3 DEF Reports
  <2>4. ASSUME NEW g \in Reports \ {"coverage_base"}, Past(g)' PROVE Measured(g)'
    <3>1. g \in CommandNames
      BY DEF CommandNames
    <3>2. CASE g = f
      <4>1. status = 0
        BY <1>3, <2>4, <3>1
      <4> QED
        BY <1>1, <1>3, <1>5, <2>3, <2>4, <3>2, <4>1 DEF Measured
    <3>3. CASE g # f
      <4>1. Measured(g)
        BY <1>3, <2>4, <3>1, <3>3 DEF Inv, CommandsHaveDone
      <4> QED
        BY <1>3, <1>5, <3>3, <4>1 DEF Measured
    <3> QED
      BY <3>2, <3>3
  <2> QED
    BY <1>1, <1>3, <1>5, <1>8, <2>1, <2>2, <2>4 DEF CommandsHaveDone
<1>13. ReportsAfterTests'
  <2>1. ~Within("test", todo')
    BY <1>2, <1>3, <1>7
  <2>2. written.by <= run
    <3>1. run <= run
      BY <1>4 DEF Runs
    <3> QED
      BY <1>1, <3>1 DEF Inv, ReportsAfterTests
  <2> QED
    BY <1>3, <1>5, <2>1, <2>2 DEF Inv, ReportsAfterTests
<1>14. ReportsOnlyPassedTests'
  BY <1>1, <1>5, <1>8 DEF Inv, ReportsOnlyPassedTests
<1> QED
  BY <1>3, <1>11, <1>12, <1>13, <1>14 DEF Inv

(* The last command has been run.                                             *)
LEMMA FinishInv == ASSUME Inv, Finish PROVE Inv'
<1>1. /\ exit = "running" /\ todo = <<>> /\ exit' = "ok" /\ run' = run /\ opts' = opts
      /\ todo' = todo /\ verdict' = verdict /\ tree' = tree
  BY DEF Finish
<1>2. CommandsInOrder' /\ OnlyRunningHasCommands' /\ TypeOK'
  BY <1>1 DEF Inv, CommandsInOrder, OnlyRunningHasCommands, TypeOK
<1>3. \A c : Past(c)' => Past(c)
  BY <1>1 DEF Past
<1>4. \A f \in Reports : Measured(f)' <=> Measured(f)
  BY <1>1 DEF Measured
<1>5. CommandsHaveDone'
  BY <1>1, <1>3, <1>4 DEF Inv, CommandsHaveDone
<1>6. ReportsAfterTests' /\ ReportsOnlyPassedTests'
  BY <1>1 DEF Inv, ReportsAfterTests, ReportsOnlyPassedTests
<1> QED
  BY <1>2, <1>5, <1>6 DEF Inv

(* Every command keeps the invariant.                                         *)
LEMMA StepInv == Inv /\ [Next]_buildVars => Inv'
<1> SUFFICES ASSUME Inv, [Next]_buildVars PROVE Inv'
  OBVIOUS
<1>1. CASE \E o \in Options : Start(o)
  BY <1>1, StartInv
<1>2. CASE Clean
  BY <1>2, CleanInv
<1>3. CASE Configure
  BY <1>3, ConfigureInv
<1>4. CASE Make
  BY <1>4, MakeInv
<1>5. CASE Test
  BY <1>5, TestInv
<1>6. CASE \E f \in Reports : Report(f)
  BY <1>6, ReportInv
<1>7. CASE Finish
  BY <1>7, FinishInv
<1>8. CASE UNCHANGED buildVars
  <2>1. /\ run' = run /\ opts' = opts /\ todo' = todo /\ exit' = exit /\ verdict' = verdict
        /\ tree' = tree
    BY <1>8 DEF buildVars
  <2>2. CommandsInOrder' /\ OnlyRunningHasCommands' /\ TypeOK'
    BY <2>1 DEF Inv, CommandsInOrder, OnlyRunningHasCommands, TypeOK
  <2>3. CommandsHaveDone'
    BY <2>1 DEF Inv, CommandsHaveDone, Past, Measured
  <2>4. ReportsAfterTests' /\ ReportsOnlyPassedTests'
    BY <2>1 DEF Inv, ReportsAfterTests, ReportsOnlyPassedTests
  <2> QED
    BY <2>2, <2>3, <2>4 DEF Inv
<1> QED
  BY <1>1, <1>2, <1>3, <1>4, <1>5, <1>6, <1>7, <1>8 DEF Next

(* What is past has done its work, in every reachable state.                  *)
THEOREM InvHolds == Spec => []Inv
<1> QED
  BY InitInv, StepInv, PTL DEF Spec

(* The script's state and the files it leaves have their types.               *)
THEOREM TypeCorrect == Spec => []TypeOK
<1>1. Inv => TypeOK
  BY DEF Inv
<1> QED
  BY <1>1, InvHolds, PTL

(* An invocation that ends well has passed its tests, and the report it was   *)
(* asked for is complete and counts them.                                     *)
THEOREM SuccessMeansComplete == Spec => []SuccessIsComplete
<1>1. Inv => SuccessIsComplete
  <2> SUFFICES ASSUME Inv, exit = "ok", run > 0, ~opts["noTest"]
               PROVE  /\ verdict[run] = "passed"
                      /\ opts["coverage"] => Measured("html") /\ Measured("statistics")
    BY DEF SuccessIsComplete
  <2>1. \A c : ~Within(c, todo)
    BY DEF Inv, OnlyRunningHasCommands, Within
  <2>2. Past("test")
    BY <2>1 DEF Past, Wanted
  <2>3. opts["coverage"] => Past("html") /\ Past("statistics")
    BY <2>1 DEF Past, Wanted
  <2> QED
    BY <2>2, <2>3 DEF Inv, CommandsHaveDone, Reports
<1> QED
  BY <1>1, InvHolds, PTL

(* A report in the directory was written by an invocation whose tests passed. *)
THEOREM ReportsMeanPassedTests == Spec => []ReportsOnlyPassedTests
<1>1. Inv => ReportsOnlyPassedTests
  BY DEF Inv
<1> QED
  BY <1>1, InvHolds, PTL

(* With -c, a report counts the executions of one invocation only.            *)
THEOREM CleanMeansOneRun == Spec => []CleanReportIsOfOneRun
<1>1. Inv => CleanReportIsOfOneRun
  <2> SUFFICES ASSUME Inv, exit = "ok", run > 0, opts["clean"]
               PROVE  \A f \in Reports : tree.report[f].counts \subseteq {run}
    BY DEF CleanReportIsOfOneRun
  <2>1. Past("rm")
    BY DEF Inv, OnlyRunningHasCommands, Past, Within, Wanted
  <2> QED
    BY <2>1 DEF Inv, CommandsHaveDone
<1> QED
  BY <1>1, InvHolds, PTL

-------------------------------------------------------------------------------
(* The parts of Scripts                                                       *)

(* Only the part at work takes a step, and it goes on to be that part.        *)
LEMMA OnePartSteps ==
  ASSUME [ScriptsNext]_scriptsVars
  PROVE  /\ part' = part /\ [Next]_buildVars
         /\ part = "log" => [Log!Next]_logVars
         /\ part = "table" => [Table!Next]_tableVars
         /\ part = "stats" => [Stats!Next]_statsVars
         /\ part = "lint" => [Lint!Next]_lintVars
         /\ part = "selection" => [Selection!Next]_selectionVars
         /\ part = "file" => [LintedFile!Next]_fileVars
         /\ part = "path" => [Paths!Next]_pathVars
         /\ part = "guard" => [Guard!Next]_guardVars
<1>1. CASE BuildNext BY <1>1 DEF BuildNext
<1>2. CASE LogNext BY <1>2 DEF LogNext
<1>3. CASE TableNext BY <1>3 DEF TableNext
<1>4. CASE StatsNext BY <1>4 DEF StatsNext
<1>5. CASE LintNext BY <1>5 DEF LintNext
<1>6. CASE SelectionNext BY <1>6 DEF SelectionNext
<1>7. CASE FileNext BY <1>7 DEF FileNext
<1>8. CASE PathNext BY <1>8 DEF PathNext
<1>9. CASE GuardNext BY <1>9 DEF GuardNext
<1>10. CASE UNCHANGED scriptsVars BY <1>10 DEF scriptsVars
<1> QED BY <1>1, <1>2, <1>3, <1>4, <1>5, <1>6, <1>7, <1>8, <1>9, <1>10 DEF ScriptsNext

(* Each part that is at work starts as it does alone.                         *)
LEMMA OnePartStarts ==
  ASSUME ScriptsInit
  PROVE  /\ Init
         /\ part = "log" => Log!Init
         /\ part = "table" => Table!Init
         /\ part = "stats" => Stats!Init
         /\ part = "lint" => Lint!Init
         /\ part = "selection" => Selection!Init
         /\ LintedFile!Init
         /\ part = "path" => Paths!Init
         /\ Guard!Init
BY DEF ScriptsInit

-------------------------------------------------------------------------------
(* process_clang-format_errors.py                                             *)

(* The errors so far are made of the lines read so far.                       *)
LogInv ==
  /\ Log!TypeOK
  /\ outcome = "running" => xml.state # "new" /\ logRead = 0 /\ errorList = <<>>
  /\ outcome = "reading" =>
       xml.state = "none" /\ Log!Reports(errorList, logRead)
  /\ outcome \in {"failure", "IndexError"} => xml.state # "old"
  /\ Log!EveryLineReported

(* What is assumed of the log of clang-format.                                *)
LEMMA LogAssumption == Log!LinesAssumption
BY InstancesAssumption

(* The report that is there before the script runs is none or an old one.     *)
LEMMA XmlIsTyped ==
  ASSUME NEW S, <<>> \in S, NEW old \in {Log!NoXml, Log!OldXml}
  PROVE  old \in [state : {"none", "old", "new"}, errors : S] /\ old.state # "new"
BY DEF Log!NoXml, Log!OldXml

(* Before the log is read there are no errors.                                *)
LEMMA LogInitInv == Log!Init => LogInv
<1> SUFFICES ASSUME Log!Init PROVE LogInv
  OBVIOUS
<1>1. log \in Seq(LogHeaders \cup LogDetails) /\ Len(log) \in Nat
  BY LogAssumption DEF Log!Init, Log!Logs, Log!LinesAssumption
<1>2. xml \in [state : {"none", "old", "new"}, errors : Seq(Log!Error)] /\ xml.state # "new"
  BY EmptySeq, XmlIsTyped DEF Log!Init
<1> QED BY <1>1, <1>2 DEF Log!Init, LogInv, Log!TypeOK, Log!EveryLineReported

(* A line that begins an error.                                               *)
LEMMA HeaderReported ==
  ASSUME NEW S, log \in Seq(S), NEW n \in Nat, n < Len(log), NEW errors \in Seq(Log!Error),
         log[n + 1] \in LogHeaders, Log!Reports(errors, n)
  PROVE  Log!Reports(Append(errors, [header |-> log[n + 1], info |-> <<>>]), n + 1)
<1> DEFINE all == Append(errors, [header |-> log[n + 1], info |-> <<>>])
<1>1. PICK begin \in [1 .. Len(errors) + 1 -> 1 .. n + 1] :
    /\ begin[1] = 1 /\ begin[Len(errors) + 1] = n + 1
    /\ \A i \in DOMAIN errors :
         /\ begin[i] < begin[i + 1]
         /\ errors[i] = [header |-> log[begin[i]],
                         info |-> SubSeq(log, begin[i] + 1, begin[i + 1] - 1)]
  BY DEF Log!Reports
<1>2. /\ Len(errors) \in Nat /\ Len(all) = Len(errors) + 1
      /\ DOMAIN all = 1 .. Len(errors) + 1 /\ DOMAIN errors = 1 .. Len(errors)
      /\ \A i \in 1 .. Len(errors) : all[i] = errors[i]
      /\ all[Len(errors) + 1] = [header |-> log[n + 1], info |-> <<>>]
  BY DEF Log!Error
<1> DEFINE longer == [i \in 1 .. Len(errors) + 2 |-> IF i = Len(errors) + 2 THEN n + 2 ELSE begin[i]]
<1>3. /\ longer \in [1 .. Len(all) + 1 -> 1 .. (n + 1) + 1]
      /\ longer[1] = 1 /\ longer[Len(all) + 1] = (n + 1) + 1
  BY <1>1, <1>2
<1>4. ASSUME NEW i \in DOMAIN all
      PROVE  /\ longer[i] < longer[i + 1]
             /\ all[i] = [header |-> log[longer[i]],
                          info |-> SubSeq(log, longer[i] + 1, longer[i + 1] - 1)]
  <2>1. CASE i = Len(errors) + 1
    <3>1. longer[i] = n + 1 /\ longer[i + 1] = n + 2
      BY <1>1, <1>2, <2>1
    <3>2. SubSeq(log, n + 2, n + 1) = <<>>
      <4>1. n + 2 \in Int /\ n + 1 \in Int /\ n + 1 < n + 2
        OBVIOUS
      <4> QED BY <4>1, SubSeqEmpty
    <3>3. (n + 2) - 1 = n + 1 /\ (n + 1) + 1 = n + 2
      OBVIOUS
    <3> HIDE DEF longer, all
    <3>4. all[i] = [header |-> log[n + 1], info |-> <<>>]
      BY <1>2, <2>1
    <3>5. longer[i + 1] - 1 = n + 1 /\ longer[i] + 1 = n + 2 /\ longer[i] < longer[i + 1]
      BY <3>1
    <3> QED BY <3>1, <3>2, <3>4, <3>5
  <2>2. CASE i \in 1 .. Len(errors)
    <3>1. longer[i] = begin[i] /\ longer[i + 1] = begin[i + 1]
      BY <1>2, <2>2
    <3> QED BY <3>1, <1>1, <1>2, <2>2
  <2> QED BY <2>1, <2>2, <1>2
<1>5. Log!Reports(all, n + 1)
  <2> HIDE DEF longer, all
  <2> QED BY <1>3, <1>4 DEF Log!Reports
<1> QED BY <1>5

(* Another list of details leaves the header of an error as it is.            *)
LEMMA InfoChanged ==
  ASSUME NEW error \in Log!Error, NEW info \in Seq(LogDetails)
  PROVE  /\ [error EXCEPT !.info = info] \in Log!Error
         /\ [error EXCEPT !.info = info] = [header |-> error.header, info |-> info]
BY DEF Log!Error

(* A detail is added to the details of an error.                              *)
LEMMA InfoExtended ==
  ASSUME NEW error \in Log!Error, NEW first, NEW info, error = [header |-> first, info |-> info], NEW new
  PROVE  [error EXCEPT !.info = Append(@, new)] = [header |-> first, info |-> Append(info, new)]
BY DEF Log!Error

(* A line that goes on with the last one.                                     *)
LEMMA DetailReported ==
  ASSUME NEW S, log \in Seq(S), NEW n \in Nat, n < Len(log), NEW errors \in Seq(Log!Error), errors # <<>>,
         log[n + 1] \in LogDetails, Log!Reports(errors, n)
  PROVE  /\ Log!AddDetail(errors, log[n + 1]) \in Seq(Log!Error)
         /\ Log!Reports(Log!AddDetail(errors, log[n + 1]), n + 1)
<1> DEFINE all == Log!AddDetail(errors, log[n + 1])
           e == Len(errors)
           changed == [errors[e] EXCEPT !.info = Append(@, log[n + 1])]
<1>1. PICK begin \in [1 .. e + 1 -> 1 .. n + 1] :
    /\ begin[1] = 1 /\ begin[e + 1] = n + 1
    /\ \A i \in DOMAIN errors :
         /\ begin[i] < begin[i + 1]
         /\ errors[i] = [header |-> log[begin[i]],
                         info |-> SubSeq(log, begin[i] + 1, begin[i + 1] - 1)]
  BY DEF Log!Reports
<1>2. e \in Nat \ {0} /\ e \in 1 .. e /\ errors[e] \in Log!Error /\ DOMAIN errors = 1 .. e
  OBVIOUS
<1>3. /\ changed \in Log!Error
      /\ changed = [header |-> errors[e].header, info |-> Append(errors[e].info, log[n + 1])]
  <2>1. Append(errors[e].info, log[n + 1]) \in Seq(LogDetails)
    BY <1>2 DEF Log!Error
  <2> QED BY <1>2, <2>1, InfoChanged
<1>4. all = [errors EXCEPT ![e] = changed]
  BY <1>2 DEF Log!AddDetail
<1>5. /\ all \in Seq(Log!Error) /\ Len(all) = e /\ DOMAIN all = 1 .. e /\ all[e] = changed
      /\ \A i \in 1 .. e : i # e => all[i] = errors[i]
  <2> HIDE DEF changed, all
  <2> QED BY <1>2, <1>3, <1>4, ExceptSeq
<1> DEFINE longer == [begin EXCEPT ![e + 1] = n + 2]
<1>6. /\ longer \in [1 .. Len(all) + 1 -> 1 .. (n + 1) + 1]
      /\ longer[1] = 1 /\ longer[Len(all) + 1] = (n + 1) + 1
      /\ \A i \in 1 .. e : longer[i] = begin[i] /\ begin[i] \in 1 .. n + 1
  BY <1>1, <1>2, <1>5
<1>7. ASSUME NEW i \in DOMAIN all
      PROVE  /\ longer[i] < longer[i + 1]
             /\ all[i] = [header |-> log[longer[i]],
                          info |-> SubSeq(log, longer[i] + 1, longer[i + 1] - 1)]
  <2>1. CASE i = e
    <3>1. /\ longer[i] = begin[e] /\ begin[e] \in 1 .. n /\ longer[i + 1] = n + 2
          /\ errors[e] = [header |-> log[begin[e]], info |-> SubSeq(log, begin[e] + 1, n)]
      <4>1. (n + 1) - 1 = n /\ (n + 1) + 1 = n + 2
        OBVIOUS
      <4> HIDE DEF longer, all
      <4>2. begin[e + 1] = n + 1 /\ begin[e] < begin[e + 1] /\ longer[i + 1] = n + 2
        BY <1>1, <1>2, <1>5, <1>6, <2>1, <4>1
      <4>3. begin[e + 1] - 1 = n /\ begin[e] \in 1 .. n /\ longer[i] = begin[e]
        BY <1>2, <1>6, <2>1, <4>2
      <4>4. errors[e] = [header |-> log[begin[e]],
                         info |-> SubSeq(log, begin[e] + 1, begin[e + 1] - 1)]
        BY <1>1, <1>2
      <4> QED BY <4>2, <4>3, <4>4
    <3>2. SubSeq(log, begin[e] + 1, n + 1) = SubSeq(log, begin[e] + 1, n) \o <<log[n + 1]>>
      <4>1. begin[e] + 1 \in 1 .. Len(log) /\ n + 1 \in begin[e] + 1 .. Len(log) /\ (n + 1) - 1 = n
        BY <3>1, LenProperties
      <4> QED BY <4>1, SubSeqRecursiveSecond
    <3>3. SubSeq(log, begin[e] + 1, n) \in Seq(LogDetails)
      BY <1>2, <3>1 DEF Log!Error
    <3>4. Append(SubSeq(log, begin[e] + 1, n), log[n + 1]) = SubSeq(log, begin[e] + 1, n + 1)
      BY <3>2, <3>3, AppendIsConcat
    <3>5. changed = [header |-> log[begin[e]], info |-> SubSeq(log, begin[e] + 1, n + 1)]
      <4> DEFINE info == SubSeq(log, begin[e] + 1, n)
                 error == errors[e]
                 new == log[n + 1]
      <4>1. error \in Log!Error /\ error = [header |-> log[begin[e]], info |-> info]
        BY <1>2, <3>1
      <4>2. changed = [error EXCEPT !.info = Append(@, new)]
        OBVIOUS
      <4>3. Append(info, new) = SubSeq(log, begin[e] + 1, n + 1)
        BY <3>4
      <4> HIDE DEF info, error, new, changed
      <4> QED BY <4>1, <4>2, <4>3, InfoExtended
    <3>6. (n + 2) - 1 = n + 1 /\ begin[e] < n + 2
      BY <3>1
    <3> QED BY <3>1, <3>5, <3>6, <1>5, <2>1
  <2>2. CASE i \in 1 .. e - 1
    <3>1. /\ longer[i] = begin[i] /\ longer[i + 1] = begin[i + 1] /\ i \in DOMAIN errors
          /\ all[i] = errors[i]
      BY <1>2, <1>5, <1>6, <2>2
    <3> QED BY <3>1, <1>1
  <2> QED BY <2>1, <2>2, <1>2, <1>5
<1>8. Log!Reports(all, n + 1)
  <2> HIDE DEF longer, all
  <2> QED BY <1>5, <1>6, <1>7 DEF Log!Reports
<1> QED BY <1>5, <1>8

(* Each line read is added to the errors as it should be.                     *)
LEMMA LogStepInv == ASSUME LogInv, [Log!Next]_logVars PROVE LogInv'
<1>1. CASE Log!Main
  <2>1. Log!Reports(<<>>, 0)
    <3> DEFINE begin == [i \in 1 .. 1 |-> 1]
    <3>1. begin \in [1 .. 0 + 1 -> 1 .. 0 + 1] /\ begin[1] = 1 /\ Len(<<>>) = 0 /\ DOMAIN <<>> = {}
      OBVIOUS
    <3> HIDE DEF begin
    <3> QED BY <3>1 DEF Log!Reports
  <2>2. Log!Reports(<<>>, 0)'
    BY <1>1, <2>1 DEF Log!Main, Log!Reports
  <2>3. CASE log = <<>>
    BY <1>1, <2>3 DEF Log!Main, LogInv, Log!TypeOK, Log!EveryLineReported
  <2>4. CASE log # <<>>
    <3>1. xml' \in [state : {"none", "old", "new"}, errors : Seq(Log!Error)] /\ xml'.state = "none"
      BY <1>1, <2>4, EmptySeq, XmlIsTyped DEF Log!Main, Log!RemoveXml, Log!NoXml
    <3> QED BY <1>1, <2>2, <2>4, <3>1
    DEF Log!Main, LogInv, Log!TypeOK, Log!EveryLineReported
  <2> QED BY <2>3, <2>4
<1>2. CASE Log!ReadLine
  <2> DEFINE new == log[logRead + 1]
  <2>1. /\ log \in Seq(LogHeaders \cup LogDetails) /\ logRead \in Nat /\ logRead < Len(log)
        /\ logRead + 1 \in 0 .. Len(log) /\ logRead' = logRead + 1 /\ log' = log /\ xml' = xml
        /\ errorList \in Seq(Log!Error) /\ outcome = "reading" /\ xml.state = "none"
        /\ Log!Reports(errorList, logRead)
    BY <1>2, LogAssumption DEF Log!ReadLine, LogInv, Log!TypeOK, Log!Logs, Log!LinesAssumption
  <2>2. ASSUME NEW errors \in Seq(Log!Error), errorList' = errors, outcome' = outcome,
               NEW n, n = logRead + 1, Log!Reports(errors, n)
        PROVE  LogInv'
    <3>1. Log!Reports(errors, n)'
      BY <2>1, <2>2 DEF Log!Reports
    <3> QED BY <3>1, <2>1, <2>2 DEF LogInv, Log!TypeOK, Log!EveryLineReported
  <2>3. CASE new \in LogHeaders /\ errorList' = Append(errorList, [header |-> new, info |-> <<>>])
             /\ outcome' = outcome
    <3>1. Append(errorList, [header |-> new, info |-> <<>>]) \in Seq(Log!Error)
      BY <2>1, <2>3 DEF Log!Error
    <3> QED BY <3>1, <2>1, <2>2, <2>3, HeaderReported
  <2>4. CASE new \in LogDetails /\ errorList # <<>> /\ errorList' = Log!AddDetail(errorList, new)
             /\ outcome' = outcome
    BY <2>1, <2>2, <2>4, DetailReported
  <2>5. CASE outcome' = "IndexError" /\ errorList' = errorList
    BY <2>1, <2>5 DEF LogInv, Log!TypeOK, Log!EveryLineReported
  <2> QED BY <1>2, <2>3, <2>4, <2>5 DEF Log!ReadLine
<1>3. CASE Log!WriteXml
  <2>1. Log!Reports(errorList, Len(log))'
    BY <1>3 DEF Log!WriteXml, LogInv, Log!Reports
  <2> QED BY <1>3, <2>1 DEF Log!WriteXml, LogInv, Log!TypeOK, Log!EveryLineReported
<1>4. CASE UNCHANGED logVars
  BY <1>4 DEF logVars, LogInv, Log!TypeOK, Log!EveryLineReported, Log!Reports
<1> QED BY <1>1, <1>2, <1>3, <1>4 DEF Log!Next

(* A set of natural numbers that is not empty has a least one.                *)
LEMMA LeastExists ==
  ASSUME NEW S \in SUBSET Nat, S # {}
  PROVE  \E x \in S : \A y \in S : x <= y
<1>1. PICK x \in S : \A y \in S : ~(<<y, x>> \in OpToRel(<, Nat))
  BY NatLessThanWellFounded, WFMin
<1>2. \A y \in S : ~(y < x)
  BY <1>1 DEF OpToRel
<1> QED BY <1>2

-------------------------------------------------------------------------------
(* process_valgrind_results.py                                                *)

(* The errors of given kinds among the first n of a suite.                    *)
Among(s, n, kinds) == {i \in 1 .. n : errorFiles[s][i] \in kinds}

CountedIn(c) == IF c = Table!UnknownError THEN OtherErrors ELSE {c}

(* The counts and the verdict so far are those of the errors read so far.     *)
TableInv ==
  /\ Table!TypeOK /\ Table!TableIsExact
  /\ suite # "none" =>
       /\ suite \notin done /\ errorsRead <= Len(errorFiles[suite])
       /\ \A c \in Table!Columns : results[c] = Cardinality(Among(suite, errorsRead, CountedIn(c)))
       /\ hasFailed <=> Among(suite, errorsRead, KnownErrors \cup OtherErrors) # {}

(* What is assumed of the errors of valgrind.                                 *)
LEMMA TableAssumption == Table!KindsAssumption /\ IsFiniteSet(Suites)
BY InstancesAssumption DEF Table!KindsAssumption, Table!IsFiniteSet, IsFiniteSet

(* Cardinality is the same in the model of the table.                         *)
LEMMA TableCardinality == \A S : Table!Cardinality(S) = Cardinality(S)
BY DEF Table!Cardinality, Cardinality

(* The errors of some kinds among the first ones are finitely many.           *)
LEMMA AmongIsFinite ==
  ASSUME NEW s, NEW n \in Nat, NEW kinds
  PROVE  /\ IsFiniteSet(Among(s, n, kinds))
         /\ Cardinality(Among(s, n, kinds)) \in 0 .. n
<1>1. IsFiniteSet(1 .. n) /\ Cardinality(1 .. n) = n
  BY FS_Interval
<1>2. Among(s, n, kinds) \in SUBSET (1 .. n)
  BY DEF Among
<1> QED BY <1>1, <1>2, FS_Subset, FS_CardinalityType

(* One more error is one more of its kind, and none of the others.            *)
LEMMA AmongOneMore ==
  ASSUME NEW s, NEW n \in Nat, NEW kinds
  PROVE  /\ errorFiles[s][n + 1] \in kinds =>
              /\ Among(s, n + 1, kinds) # {}
              /\ Cardinality(Among(s, n + 1, kinds)) = Cardinality(Among(s, n, kinds)) + 1
         /\ errorFiles[s][n + 1] \notin kinds => Among(s, n + 1, kinds) = Among(s, n, kinds)
<1>1. 1 .. n + 1 = (1 .. n) \cup {n + 1} /\ n + 1 \notin 1 .. n
  OBVIOUS
<1>2. CASE errorFiles[s][n + 1] \in kinds
  <2>1. Among(s, n + 1, kinds) = Among(s, n, kinds) \cup {n + 1} /\ n + 1 \notin Among(s, n, kinds)
    BY <1>1, <1>2 DEF Among
  <2> QED BY <1>2, <2>1, AmongIsFinite, FS_AddElement
<1>3. CASE errorFiles[s][n + 1] \notin kinds
  BY <1>1, <1>3 DEF Among
<1> QED BY <1>2, <1>3

(* When all errors of a suite have been read, those among them are all of a   *)
(* kind.                                                                      *)
LEMMA AmongAll ==
  ASSUME NEW s \in Suites, errorFiles \in Table!Files, NEW kinds
  PROVE  /\ Len(errorFiles[s]) \in 0 .. MaxErrors /\ DOMAIN errorFiles[s] = 1 .. Len(errorFiles[s])
         /\ Table!Occurrences(s, kinds) = Cardinality(Among(s, Len(errorFiles[s]), kinds))
<1>1. PICK n \in 0 .. MaxErrors : errorFiles[s] \in [1 .. n -> Table!Kinds]
  BY DEF Table!Files
<1>2. n \in Nat /\ Len(errorFiles[s]) = n /\ DOMAIN errorFiles[s] = 1 .. n
  BY <1>1, TableAssumption DEF Table!KindsAssumption
<1>3. {i \in DOMAIN errorFiles[s] : errorFiles[s][i] \in kinds} = Among(s, n, kinds)
  BY <1>2 DEF Among
<1> QED BY <1>1, <1>2, <1>3, TableCardinality DEF Table!Occurrences

(* At first no suite has been read and there are no rows.                     *)
LEMMA TableInitInv == Table!Init => TableInv
<1> SUFFICES ASSUME Table!Init PROVE TableInv
  OBVIOUS
<1>1. Table!TypeOK
  <2>1. rows \in Seq([suite : Suites, results : [Table!Columns -> 0 .. MaxErrors]])
    BY EmptySeq DEF Table!Init
  <2>2. MaxErrors \in Nat
    BY TableAssumption DEF Table!KindsAssumption
  <2>3. results \in [Table!Columns -> 0 .. MaxErrors] /\ errorsRead \in 0 .. MaxErrors
    BY <2>2 DEF Table!Init, Table!Zero
  <2>4. errorFiles \in Table!Files /\ done \subseteq Suites /\ suite \in Suites \cup {"none"} /\ hasFailed \in BOOLEAN
    BY DEF Table!Init
  <2> QED BY <2>1, <2>3, <2>4 DEF Table!TypeOK
<1>2. Table!TableIsExact
  <2>1. {s \in done : Table!Failing(s)} = {} /\ rows = <<>> /\ DOMAIN <<>> = {} /\ Len(<<>>) = 0
    BY DEF Table!Init
  <2> QED BY <2>1, FS_EmptySet, TableCardinality DEF Table!TableIsExact
<1> QED BY <1>1, <1>2 DEF Table!Init, TableInv

(* Every error read is counted, and every suite read has its row.             *)
LEMMA TableStepInv == ASSUME TableInv, [Table!Next]_tableVars PROVE TableInv'
<1> USE TableAssumption DEF TableInv
<1>1. /\ Table!TypeOK /\ MaxErrors \in Nat /\ errorFiles \in Table!Files
      /\ \A c \in Table!Columns : CountedIn(c) \subseteq KnownErrors \cup OtherErrors
  BY DEF Table!TypeOK, Table!KindsAssumption, Table!Columns, CountedIn
<1>2. ASSUME UNCHANGED <<errorFiles, done, rows>>
      PROVE  Table!TableIsExact'
  <2>1. /\ \A s : Table!Failing(s)' <=> Table!Failing(s)
        /\ \A s, kinds : Table!Occurrences(s, kinds)' = Table!Occurrences(s, kinds)
    BY <1>2 DEF Table!Failing, Table!Occurrences
  <2> QED BY <1>2, <2>1 DEF Table!TableIsExact
<1>3. ASSUME NEW s \in Suites, Table!Open(s)
      PROVE  TableInv'
  <2>1. \A kinds : Among(s, 0, kinds) = {}
    BY DEF Among
  <2>2. /\ suite' = s /\ errorsRead' = 0 /\ hasFailed' = FALSE /\ results' = Table!Zero
        /\ errorFiles' = errorFiles /\ s \notin done' /\ UNCHANGED <<done, rows>>
    BY <1>3 DEF Table!Open, Table!ClearCounts
  <2>3. Table!TypeOK'
    <3>1. results' \in [Table!Columns -> 0 .. MaxErrors]
      BY <1>1, <2>2 DEF Table!Zero
    <3>2. errorsRead' \in 0 .. MaxErrors /\ suite' \in Suites \cup {"none"} /\ hasFailed' \in BOOLEAN
      <4> HIDE DEF TableInv
      <4>1. hasFailed' \in BOOLEAN
        BY <2>2
      <4>2. errorsRead' \in 0 .. MaxErrors
        BY <1>1, <2>2
      <4> QED BY <2>2, <4>1, <4>2
    <3>3. /\ errorFiles' \in Table!Files /\ done' \subseteq Suites
          /\ rows' \in Seq([suite : Suites, results : [Table!Columns -> 0 .. MaxErrors]])
      BY <1>1, <2>2 DEF Table!TypeOK
    <3> QED BY <3>1, <3>2, <3>3 DEF Table!TypeOK
  <2>4. Len(errorFiles[s]) \in Nat
    BY <1>1, AmongAll
  <2>5. \A kinds : Among(s, 0, kinds)' = {}
    BY <2>1, <2>2 DEF Among
  <2>6. \A c \in Table!Columns : results'[c] = Cardinality(Among(s, 0, CountedIn(c))')
    BY <2>2, <2>5, FS_EmptySet DEF Table!Zero
  <2> QED BY <1>2, <2>2, <2>3, <2>4, <2>5, <2>6
<1>4. CASE Table!ReadError
  <2> DEFINE kind == errorFiles[suite][errorsRead + 1]
             column == IF kind \in KnownErrors THEN kind ELSE Table!UnknownError
  <2>1. /\ suite \in Suites /\ suite # "none" /\ errorsRead \in Nat
        /\ errorsRead' = errorsRead + 1 /\ errorsRead < Len(errorFiles[suite])
        /\ UNCHANGED <<errorFiles, done, suite, rows>>
        /\ Len(errorFiles[suite]) \in 0 .. MaxErrors
        /\ errorsRead + 1 \in DOMAIN errorFiles[suite]
    <3>1. /\ suite \in Suites /\ suite # "none" /\ errorsRead \in Nat
          /\ errorsRead' = errorsRead + 1 /\ errorsRead < Len(errorFiles[suite])
          /\ UNCHANGED <<errorFiles, done, suite, rows>>
      BY <1>1, <1>4 DEF Table!ReadError, Table!TypeOK
    <3>2. /\ Len(errorFiles[suite]) \in 0 .. MaxErrors
          /\ DOMAIN errorFiles[suite] = 1 .. Len(errorFiles[suite])
      BY <1>1, <3>1, AmongAll
    <3> QED BY <3>1, <3>2
  <2>2. \A n, kinds : Among(suite, n, kinds)' = Among(suite, n, kinds)
    BY <2>1 DEF Among
  <2>3. kind \in KnownErrors \cup OtherErrors \cup {Table!StillReachable}
    BY <1>1, <2>1 DEF Table!Files, Table!Kinds
  <2>4. ASSUME \A c \in Table!Columns :
                 results'[c] = Cardinality(Among(suite, errorsRead + 1, CountedIn(c))),
               results' \in [Table!Columns -> Int],
               hasFailed' = (Among(suite, errorsRead + 1, KnownErrors \cup OtherErrors) # {})
        PROVE  TableInv'
    <3>1. \A c \in Table!Columns : results'[c] \in 0 .. MaxErrors
      BY <1>1, <2>1, <2>4, AmongIsFinite
    <3>2. Table!TypeOK'
      BY <1>1, <2>1, <2>4, <3>1 DEF Table!TypeOK
    <3>3. errorsRead' <= Len(errorFiles'[suite'])
      BY <2>1
    <3>4. \A c \in Table!Columns : results'[c] = Cardinality(Among(suite, errorsRead, CountedIn(c)))'
      BY <2>1, <2>4 DEF Among, CountedIn
    <3>5. hasFailed' = (Among(suite, errorsRead, KnownErrors \cup OtherErrors)' # {})
      BY <2>1, <2>4 DEF Among
    <3>6. suite' # "none" /\ suite' \notin done'
      BY <2>1
    <3> QED BY <1>2, <2>1, <3>2, <3>3, <3>4, <3>5, <3>6
  <2>5. CASE kind = Table!StillReachable
    <3>1. /\ kind \notin KnownErrors \cup OtherErrors
          /\ \A c \in Table!Columns : kind \notin CountedIn(c)
      BY <1>1, <2>5 DEF Table!KindsAssumption, Table!StillReachable
    <3>2. UNCHANGED <<hasFailed, results>>
      BY <1>4, <2>5 DEF Table!ReadError
    <3>3. /\ results \in [Table!Columns -> Int] /\ hasFailed \in BOOLEAN
          /\ \A c \in Table!Columns : results[c] = Cardinality(Among(suite, errorsRead, CountedIn(c)))
          /\ hasFailed <=> Among(suite, errorsRead, KnownErrors \cup OtherErrors) # {}
      <4>1. results \in [Table!Columns -> Int] /\ hasFailed \in BOOLEAN
        BY <1>1 DEF Table!TypeOK
      <4> QED BY <2>1, <4>1
    <3>4. /\ \A c \in Table!Columns :
               Among(suite, errorsRead + 1, CountedIn(c)) = Among(suite, errorsRead, CountedIn(c))
          /\ Among(suite, errorsRead + 1, KnownErrors \cup OtherErrors)
               = Among(suite, errorsRead, KnownErrors \cup OtherErrors)
      BY <2>1, <3>1, AmongOneMore
    <3> QED BY <2>4, <3>2, <3>3, <3>4
  <2>6. CASE kind # Table!StillReachable
    <3>1. /\ kind \in KnownErrors \cup OtherErrors /\ column \in Table!Columns
          /\ \A c \in Table!Columns : kind \in CountedIn(c) <=> c = column
      BY <2>3, <2>6 DEF Table!KindsAssumption, Table!StillReachable, Table!UnknownError, Table!Columns, CountedIn
    <3>2. hasFailed' = TRUE /\ results' = [results EXCEPT ![column] = @ + 1]
      BY <1>4, <2>6 DEF Table!ReadError, Table!Count
    <3>3. results \in [Table!Columns -> Int]
      BY <1>1 DEF Table!TypeOK
    <3>4. ASSUME NEW c \in Table!Columns
          PROVE  results'[c] = Cardinality(Among(suite, errorsRead + 1, CountedIn(c)))
      <4>1. results[c] = Cardinality(Among(suite, errorsRead, CountedIn(c)))
        BY <2>1
      <4>2. CASE c = column
        BY <2>1, <3>1, <3>2, <3>3, <4>1, <4>2, AmongOneMore
      <4>3. CASE c # column
        BY <2>1, <3>1, <3>2, <3>3, <4>1, <4>3, AmongOneMore
      <4> QED BY <4>2, <4>3
    <3>5. Among(suite, errorsRead + 1, KnownErrors \cup OtherErrors) # {}
      BY <2>1, <3>1, AmongOneMore
    <3>6. results' \in [Table!Columns -> Int]
      BY <3>2, <3>3, <3>1
    <3> QED BY <2>4, <3>2, <3>4, <3>5, <3>6
  <2> QED BY <2>5, <2>6
<1>5. CASE Table!Close
  <2>1. /\ suite \in Suites /\ suite # "none" /\ errorsRead = Len(errorFiles[suite])
        /\ suite' = "none" /\ done' = done \cup {suite} /\ suite \notin done
        /\ UNCHANGED <<errorFiles, errorsRead, results, hasFailed>>
    BY <1>1, <1>5 DEF Table!Close, Table!TypeOK
  <2>2. /\ Len(errorFiles[suite]) \in Nat
        /\ \A kinds : Table!Occurrences(suite, kinds) = Cardinality(Among(suite, errorsRead, kinds))
    BY <1>1, <2>1, AmongAll
  <2>3. Table!Failing(suite) <=> hasFailed
    <3>1. IsFiniteSet(Among(suite, errorsRead, KnownErrors \cup OtherErrors))
          /\ Cardinality(Among(suite, errorsRead, KnownErrors \cup OtherErrors)) \in Nat
      BY <2>1, <2>2, AmongIsFinite
    <3>2. Table!Failing(suite) <=> Cardinality(Among(suite, errorsRead, KnownErrors \cup OtherErrors)) > 0
      BY <2>2 DEF Table!Failing
    <3> QED BY <2>1, <3>1, <3>2, FS_EmptySet
  <2>4. /\ \A s : Table!Failing(s)' <=> Table!Failing(s)
        /\ \A s, kinds : Table!Occurrences(s, kinds)' = Table!Occurrences(s, kinds)
    BY <2>1 DEF Table!Failing, Table!Occurrences
  <2> DEFINE failing == {s \in done : Table!Failing(s)}
             row == [suite |-> suite, results |-> results]
  <2>5. IsFiniteSet(failing) /\ suite \notin failing
    <3>1. failing \subseteq Suites
      BY <1>1 DEF Table!TypeOK
    <3> QED BY <3>1, <2>1, FS_Subset
  <2>6. {s \in done : Table!Failing(s)}' = IF hasFailed THEN failing \cup {suite} ELSE failing
    BY <2>1, <2>3, <2>4
  <2>7. CASE hasFailed
    <3>1. row \in [suite : Suites, results : [Table!Columns -> 0 .. MaxErrors]]
      BY <1>1, <2>1 DEF Table!TypeOK
    <3>2. rows' = Append(rows, row)
      BY <1>5, <2>7 DEF Table!Close
    <3>3. rows \in Seq([suite : Suites, results : [Table!Columns -> 0 .. MaxErrors]])
      BY <1>1 DEF Table!TypeOK
    <3> HIDE DEF row
    <3>4. /\ rows' \in Seq([suite : Suites, results : [Table!Columns -> 0 .. MaxErrors]])
          /\ Len(rows') = Len(rows) + 1 /\ DOMAIN rows' = 1 .. Len(rows) + 1 /\ DOMAIN rows = 1 .. Len(rows)
          /\ rows'[Len(rows) + 1] = row /\ Len(rows) \in Nat
          /\ \A i \in 1 .. Len(rows) : rows'[i] = rows[i]
      BY <3>1, <3>2, <3>3
    <3>5. row.suite = suite /\ row.results = results
      BY DEF row
    <3>6. Len(rows') = Table!Cardinality({s \in done : Table!Failing(s)}')
      <4>1. Len(rows) = Cardinality(failing)
        BY TableCardinality DEF Table!TableIsExact
      <4>2. Cardinality(failing \cup {suite}) = Cardinality(failing) + 1
        BY <2>5, FS_AddElement
      <4> QED BY <2>6, <2>7, <3>4, <4>1, <4>2, TableCardinality
    <3>7. {rows'[i].suite : i \in DOMAIN rows'} = {rows[i].suite : i \in DOMAIN rows} \cup {suite}
      <4> HIDE DEF TableInv
      <4>1. DOMAIN rows' = DOMAIN rows \cup {Len(rows) + 1}
        BY <3>4
      <4>2. \A i \in DOMAIN rows : rows'[i].suite = rows[i].suite
        BY <3>4
      <4>3. rows'[Len(rows) + 1].suite = suite
        BY <3>4, <3>5
      <4> HIDE DEF row
      <4> QED BY <4>1, <4>2, <4>3
    <3>8. \A i \in DOMAIN rows' : \A c \in Table!Columns :
            rows'[i].results[c] = Table!Occurrences(rows'[i].suite, CountedIn(c))
      <4> SUFFICES ASSUME NEW i \in DOMAIN rows', NEW c \in Table!Columns
                   PROVE  rows'[i].results[c] = Table!Occurrences(rows'[i].suite, CountedIn(c))
        OBVIOUS
      <4>1. CASE i = Len(rows) + 1
        BY <2>1, <2>2, <3>4, <3>5, <4>1
      <4>2. CASE i \in DOMAIN rows
        BY <3>4, <4>2 DEF Table!TableIsExact, CountedIn
      <4> QED BY <3>4, <4>1, <4>2
    <3>9. Table!TableIsExact'
      <4>1. \A i \in DOMAIN rows' : \A c \in Table!Columns :
              rows'[i].results[c] = Table!Occurrences(rows[i].suite, CountedIn(c))'
        BY <2>4, <3>8 DEF CountedIn
      <4>2. {rows'[i].suite : i \in DOMAIN rows'} = {s \in done : Table!Failing(s)}'
        BY <2>6, <2>7, <3>7 DEF Table!TableIsExact
      <4> QED BY <3>6, <4>1, <4>2 DEF Table!TableIsExact, CountedIn
    <3>10. Table!TypeOK'
      BY <1>1, <2>1, <3>4 DEF Table!TypeOK
    <3> QED BY <2>1, <3>9, <3>10
  <2>8. CASE ~hasFailed
    <3>1. rows' = rows
      BY <1>5, <2>8 DEF Table!Close
    <3>2. Table!TableIsExact'
      BY <2>4, <2>6, <2>8, <3>1 DEF Table!TableIsExact
    <3>3. Table!TypeOK'
      BY <1>1, <2>1, <3>1 DEF Table!TypeOK
    <3> QED BY <2>1, <3>2, <3>3
  <2> QED BY <2>7, <2>8
<1>6. CASE UNCHANGED tableVars
  <2>1. Table!TypeOK'
    BY <1>1, <1>6 DEF tableVars, Table!TypeOK
  <2>2. \A s, n, kinds : Among(s, n, kinds)' = Among(s, n, kinds)
    BY <1>6 DEF tableVars, Among
  <2> QED BY <1>2, <1>6, <2>1, <2>2 DEF tableVars, CountedIn
<1> QED BY <1>3, <1>4, <1>5, <1>6 DEF Table!Next

-------------------------------------------------------------------------------
(* process_coverage_stats.py                                                  *)

Readable == Stats!Unreadable \notin {statistics[f] : f \in Stats!Files}

(* Statistics that have been read are those of their file.                    *)
StatsInv ==
  /\ statistics \in [Stats!Files -> Stats!Statistics \cup {Stats!Unreadable}]
  /\ DOMAIN stats = Stats!Files
  /\ step \in {"master", "current", "compare", "done", "failed"}
  /\ Readable /\ step \in {"current", "compare"} => stats["master"] = statistics["master"]
  /\ Readable /\ step = "compare" => stats["current"] = statistics["current"]
  /\ Stats!VerdictsAreTrue

(* At first no statistics have been read.                                     *)
LEMMA StatsInitInv == Stats!Init => StatsInv
BY DEF Stats!Init, StatsInv, Stats!VerdictsAreTrue

(* Statistics are read as they are, and compared if both have been read.      *)
LEMMA StatsStepInv == ASSUME StatsInv, [Stats!Next]_statsVars PROVE StatsInv'
<1>1. ASSUME NEW f \in Stats!Files, Stats!Parse(f)
      PROVE  StatsInv'
  <2>1. Readable => statistics[f] # Stats!Unreadable
    BY DEF Readable
  <2>2. Readable' = Readable
    BY <1>1 DEF Stats!Parse, Readable
  <2>3. Readable => stats' = [stats EXCEPT ![f] = statistics[f]]
    BY <1>1, <2>1 DEF Stats!Parse
  <2>4. step = f /\ step' = (IF f = "master" THEN "current" ELSE "compare") /\ statistics' = statistics
    BY <1>1 DEF Stats!Parse
  <2>5. DOMAIN stats' = Stats!Files
    BY <1>1 DEF Stats!Parse, StatsInv
  <2> QED BY <2>2, <2>3, <2>4, <2>5 DEF StatsInv, Stats!Files, Stats!VerdictsAreTrue
<1>2. CASE Stats!Compare
  <2>1. Readable' = Readable /\ step = "compare" /\ step' = "done" /\ UNCHANGED <<statistics, stats>>
    BY <1>2 DEF Stats!Compare, Readable
  <2>2. ASSUME Readable, NEW m \in Stats!Measures
        PROVE  /\ output'.verdict[m] = "decreased" <=> statistics["current"][m] < statistics["master"][m]
               /\ output'.verdict[m] = "improved" <=> statistics["current"][m] > statistics["master"][m]
    <3>1. stats["master"] = statistics["master"] /\ stats["current"] = statistics["current"]
      BY <2>1, <2>2 DEF StatsInv
    <3>2. statistics["master"][m] \in Int /\ statistics["current"][m] \in Int
      <4>1. statistics["master"] \in Stats!Statistics /\ statistics["current"] \in Stats!Statistics
        BY <2>2 DEF StatsInv, Readable, Stats!Files
      <4>2. Percentages \subseteq Int
        BY InstancesAssumption DEF Stats!PercentagesAssumption
      <4> QED BY <4>1, <4>2, <2>2 DEF Stats!Statistics
    <3>3. output'.verdict[m] = Stats!Verdict(stats["master"], stats["current"], m)
      BY <1>2, <2>2 DEF Stats!Compare
    <3> QED BY <3>1, <3>2, <3>3 DEF Stats!Verdict
  <2>3. Stats!VerdictsAreTrue'
    BY <2>1, <2>2 DEF Stats!VerdictsAreTrue, Readable
  <2> QED BY <2>1, <2>3 DEF StatsInv
<1>3. CASE UNCHANGED statsVars
  BY <1>3 DEF statsVars, StatsInv, Readable, Stats!VerdictsAreTrue
<1> QED BY <1>1, <1>2, <1>3 DEF Stats!Next

-------------------------------------------------------------------------------
(* ProcessFileData                                                            *)

SuppressionsOf(i) == LintedFile!Suppression(lines[i], i)

(* What is suppressed is what comments of the file say, those of the lines    *)
(* that have been processed among them.                                       *)
FileInv ==
  /\ LintedFile!TypeOK
  /\ lines \in LintedFile!Texts
  /\ \A s \in suppressions : \E i \in DOMAIN lines : s \in SuppressionsOf(i)
  /\ filePhase \in {"comments", "guard"} =>
       suppressions = {} /\ \A e \in told : e.by \notin {"lines", "after"}
  /\ filePhase = "comments" => hidden = {}
  /\ filePhase = "lines" => \A i \in 1 .. lineix - 1 : SuppressionsOf(i) \subseteq suppressions
  /\ LintedFile!SuppressionIsExact

(* What is assumed of the files and the categories of errors.                 *)
LEMMA FileAssumption == LintedFile!TextsAssumption /\ LintedFile!CategoriesAssumption
BY InstancesAssumption

(* What a line suppresses, and what is told of it, is of the right types.     *)
LEMMA LinesAreTyped ==
  ASSUME lines \in LintedFile!Texts
  PROVE  /\ lines \in Seq(LintedFile!LineType) /\ DOMAIN lines = 1 .. Len(lines) /\ Len(lines) \in Nat
         /\ \A i \in DOMAIN lines :
              /\ i \in Nat /\ lines[i] \in LintedFile!LineType
              /\ \A x \in lines[i].found : i + x[2] \in DOMAIN lines
              /\ SuppressionsOf(i) \subseteq (FileCategories \cup {"all"}) \X Nat
BY DEF LintedFile!Texts, SuppressionsOf, LintedFile!Suppression, LintedFile!SuppressedLine

(* An error that is suppressed is marked by a comment of the file.            *)
LEMMA SuppressedIsMarked ==
  ASSUME NEW e, NEW sup, lines \in LintedFile!Texts, LintedFile!IsSuppressed(e, sup),
         \A s \in sup : \E i \in DOMAIN lines : s \in SuppressionsOf(i)
  PROVE  LintedFile!Marked(lines, e)
<1>1. CASE e.category \in globals
  BY <1>1 DEF LintedFile!Marked
<1>2. CASE \E c \in {e.category, "all"} : <<c, e.line>> \in sup
  <2>1. PICK c \in {e.category, "all"} : <<c, e.line>> \in sup
    BY <1>2
  <2>2. PICK i \in DOMAIN lines : <<c, e.line>> \in SuppressionsOf(i)
    BY <2>1
  <2>3. lines[i].scope \in LintedFile!Scopes
    BY LinesAreTyped DEF LintedFile!LineType
  <2>4. lines[i].scope # "none" /\ c = lines[i].category /\ e.line = LintedFile!SuppressedLine(lines[i], i)
    BY <2>2 DEF SuppressionsOf, LintedFile!Suppression
  <2> QED BY <2>1, <2>3, <2>4 DEF LintedFile!SuppressedLine, LintedFile!Marked, LintedFile!Scopes
<1> QED BY <1>1, <1>2 DEF LintedFile!IsSuppressed

(* An error that a comment marks is suppressed once that comment has been     *)
(* read.                                                                      *)
LEMMA MarkedIsSuppressed ==
  ASSUME NEW e, e.category \in FileCategories, NEW sup, lines \in LintedFile!Texts,
         LintedFile!Marked(lines, e),
         \A i \in DOMAIN lines : e.line \in {i, i + 1} => SuppressionsOf(i) \subseteq sup
  PROVE  LintedFile!IsSuppressed(e, sup)
<1>1. CASE e.category \in globals
  BY <1>1 DEF LintedFile!IsSuppressed
<1>2. CASE e.category \notin globals
  <2>1. PICK i \in DOMAIN lines :
          /\ lines[i].category \in {e.category, "all"}
          /\ \/ lines[i].scope = "line" /\ i = e.line
             \/ lines[i].scope = "next" /\ i + 1 = e.line
    BY <1>2 DEF LintedFile!Marked
  <2>2. SuppressionsOf(i) = {<<lines[i].category, e.line>>}
    BY <2>1 DEF SuppressionsOf, LintedFile!Suppression, LintedFile!SuppressedLine
  <2>3. SuppressionsOf(i) \subseteq sup
    BY <2>1
  <2> QED BY <2>1, <2>2, <2>3 DEF LintedFile!IsSuppressed
<1> QED BY <1>1, <1>2

(* Comments are read and errors are reported.                                 *)
LEMMA ReadAtKeeps ==
  ASSUME FileInv, NEW by, NEW read \in SUBSET DOMAIN lines, NEW errors \in SUBSET LintedFile!Errors,
         by \in {"comments", "guard", "lines", "ahead", "after"},
         LintedFile!ReadAt(by, read, errors), UNCHANGED <<lines, globals>>
  PROVE  /\ suppressions' \subseteq (FileCategories \cup {"all"}) \X Nat
         /\ \A s \in suppressions' : \E i \in DOMAIN lines' : s \in SuppressionsOf(i)'
         /\ told' \subseteq LintedFile!Errors /\ hidden' \subseteq LintedFile!Errors
         /\ \A e \in hidden' : LintedFile!Marked(lines, e)'
         /\ \A i \in read : SuppressionsOf(i) \subseteq suppressions'
         /\ suppressions \subseteq suppressions'
         /\ \A e \in told' :
              e \in told \/ (~LintedFile!IsSuppressed(e, suppressions')
                             /\ (e \in errors \/ (e.by = by /\ e.category = "nolint" /\ e.line \in read)))
<1> DEFINE all == errors \cup UNION {LintedFile!Unknown(by, lines[i], i) : i \in read}
<1>1. suppressions' = suppressions \cup UNION {SuppressionsOf(i) : i \in read}
  BY DEF LintedFile!ReadAt, SuppressionsOf
<1>2. /\ told' = told \cup {e \in all : ~LintedFile!IsSuppressed(e, suppressions')}
      /\ hidden' = hidden \cup {e \in all : LintedFile!IsSuppressed(e, suppressions')}
  BY DEF LintedFile!ReadAt, LintedFile!Report
<1>3. \A i \in DOMAIN lines : i \in Nat /\ SuppressionsOf(i) \subseteq (FileCategories \cup {"all"}) \X Nat
  BY LinesAreTyped DEF FileInv
<1>4. /\ "nolint" \in FileCategories
      /\ all \subseteq LintedFile!Errors
      /\ \A e \in all : e \in errors \/ (e.by = by /\ e.category = "nolint" /\ e.line \in read)
  <2>1. "nolint" \in FileCategories
    BY FileAssumption DEF LintedFile!CategoriesAssumption
  <2>2. ASSUME NEW i \in read, NEW e \in LintedFile!Unknown(by, lines[i], i)
        PROVE  e \in LintedFile!Errors /\ e.by = by /\ e.category = "nolint" /\ e.line \in read
    BY <2>1, <2>2, <1>3 DEF LintedFile!Unknown, LintedFile!Errors
  <2> QED BY <2>1, <2>2
<1>5. \A s \in suppressions' : \E i \in DOMAIN lines : s \in SuppressionsOf(i)
  BY <1>1 DEF FileInv
<1>6. \A e \in hidden' : LintedFile!Marked(lines, e)
  <2> HIDE DEF all
  <2> SUFFICES ASSUME NEW e \in hidden' PROVE LintedFile!Marked(lines, e)
    OBVIOUS
  <2>1. CASE e \in hidden
    BY <2>1 DEF FileInv, LintedFile!SuppressionIsExact
  <2>2. CASE LintedFile!IsSuppressed(e, suppressions')
    BY <2>2, <1>5, SuppressedIsMarked DEF FileInv
  <2> QED BY <1>2, <2>1, <2>2
<1>7. suppressions \subseteq (FileCategories \cup {"all"}) \X Nat /\ told \subseteq LintedFile!Errors
      /\ hidden \subseteq LintedFile!Errors
  BY DEF FileInv, LintedFile!TypeOK
<1> HIDE DEF all
<1>8. \A s \in suppressions' : \E i \in DOMAIN lines' : s \in SuppressionsOf(i)'
  BY <1>5 DEF SuppressionsOf
<1>9. \A e \in hidden' : LintedFile!Marked(lines, e)'
  BY <1>6 DEF LintedFile!Marked
<1>10. suppressions' \subseteq (FileCategories \cup {"all"}) \X Nat
  BY <1>1, <1>3, <1>7
<1> QED BY <1>1, <1>2, <1>4, <1>7, <1>8, <1>9, <1>10

(* Before the first file nothing is suppressed or told.                       *)
LEMMA FileInitInv == LintedFile!Init => FileInv
<1> SUFFICES ASSUME LintedFile!Init PROVE FileInv
  OBVIOUS
<1>1. <<>> \in LintedFile!Texts /\ DOMAIN <<>> = {} /\ Len(<<>>) = 0
  BY EmptySeq DEF LintedFile!Texts
<1>2. Len(FileChoices) \in Nat
  BY FileAssumption DEF LintedFile!TextsAssumption
<1>3. LintedFile!TypeOK
  <2>1. <<>> \in Seq(LintedFile!LineType)
    BY EmptySeq
  <2>2. lines = <<>> /\ file = <<>> /\ lineix = 1 /\ files = 0
    BY DEF LintedFile!Init
  <2>3. lineix \in 1 .. Len(file) + 1 /\ files \in 0 .. Len(FileChoices)
    BY <1>1, <1>2, <2>2
  <2>4. file \in LintedFile!Texts /\ lines \in Seq(LintedFile!LineType) /\ Len(lines) = Len(file)
    BY <1>1, <2>1, <2>2
  <2> QED BY <2>3, <2>4 DEF LintedFile!Init, LintedFile!TypeOK, LintedFile!Phases
<1> QED BY <1>1, <1>3 DEF LintedFile!Init, FileInv, LintedFile!SuppressionIsExact

(* A file begins with the suppressions of none of those before it.            *)
LEMMA BeginFileInv ==
  ASSUME FileInv, NEW text, NEW isHeader \in BOOLEAN, LintedFile!BeginFile(text, isHeader)
  PROVE  FileInv'
<1>1. files + 1 \in DOMAIN FileChoices /\ files + 1 \in 0 .. Len(FileChoices)
  BY FileAssumption DEF LintedFile!BeginFile, FileInv, LintedFile!TypeOK, LintedFile!TextsAssumption
<1>2. text \in LintedFile!Texts
  BY <1>1, FileAssumption DEF LintedFile!BeginFile, LintedFile!TextsAssumption
<1>3. Len(text) \in Nat
  BY <1>2 DEF LintedFile!Texts
<1>4. globals' \subseteq FileCategories
  BY FileAssumption DEF LintedFile!BeginFile, LintedFile!ProcessGlobalSuppresions, LintedFile!CategoriesAssumption
<1>5. LintedFile!TypeOK'
  <2>1. text \in Seq(LintedFile!LineType)
    BY <1>2 DEF LintedFile!Texts
  <2> QED BY <1>1, <1>2, <1>3, <1>4, <2>1
      DEF LintedFile!BeginFile, LintedFile!ResetNolintSuppressions, LintedFile!TypeOK, LintedFile!Phases
<1> QED BY <1>2, <1>5
    DEF LintedFile!BeginFile, LintedFile!ResetNolintSuppressions, FileInv,
        LintedFile!SuppressionIsExact

(* Between two files nothing depends on the lines of either.                  *)
LEMMA StartOrEnd ==
  ASSUME NEW S \in SUBSET DOMAIN lines, lines \in LintedFile!Texts, S # {}
  PROVE  LintedFile!Min(S) \in S /\ LintedFile!Min(S) \in 1 .. Len(lines)
<1>1. S \subseteq 1 .. Len(lines) /\ S \subseteq Nat
  BY LinesAreTyped
<1> QED BY <1>1, LeastExists DEF LintedFile!Min

(* Comments of several lines are removed, and a NOLINT in them is read.       *)
LEMMA RemoveCommentInv == ASSUME FileInv, LintedFile!RemoveComment PROVE FileInv'
<1> DEFINE start == LintedFile!Min(LintedFile!Starts)
           end == LintedFile!Min(LintedFile!Ends(start))
<1>1. /\ filePhase = "comments" /\ suppressions = {} /\ hidden = {}
      /\ UNCHANGED <<file, header, suppressions, globals, files>>
      /\ \A e \in told : e.by \notin {"lines", "after"}
      /\ lines \in LintedFile!Texts /\ lines \in Seq(LintedFile!LineType)
      /\ DOMAIN lines = 1 .. Len(lines) /\ Len(lines) \in Nat
      /\ Len(file) = Len(lines) /\ lineix \in 1 .. Len(file) + 1
  BY LinesAreTyped DEF LintedFile!RemoveComment, FileInv, LintedFile!TypeOK
<1>2. CASE LintedFile!Starts = {} /\ filePhase' = "guard" /\ UNCHANGED <<lines, lineix, told, hidden>>
  BY <1>1, <1>2 DEF FileInv, LintedFile!TypeOK, LintedFile!SuppressionIsExact, LintedFile!Phases
<1>3. CASE /\ LintedFile!Starts # {} /\ filePhase' = "guard" /\ UNCHANGED <<lines, lineix>>
           /\ LintedFile!Report({[by |-> "comments", category |-> "comment", line |-> start + 1]}, suppressions)
  <2> DEFINE error == [by |-> "comments", category |-> "comment", line |-> start + 1]
  <2>1. error \in LintedFile!Errors
    <3>1. LintedFile!Starts \subseteq DOMAIN lines
      BY DEF LintedFile!Starts
    <3>2. start \in Nat
      BY <1>1, <1>3, <3>1, StartOrEnd
    <3>3. "comment" \in FileCategories
      BY FileAssumption DEF LintedFile!CategoriesAssumption
    <3> QED BY <3>2, <3>3 DEF LintedFile!Errors
  <2>2. /\ told' = told \/ told' = told \cup {error}
        /\ hidden' \subseteq {error}
        /\ \A e \in hidden' : LintedFile!IsSuppressed(e, suppressions)
    BY <1>1, <1>3 DEF LintedFile!Report
  <2>3. \A e \in hidden' : LintedFile!Marked(lines, e)
    BY <1>1, <2>2, SuppressedIsMarked
  <2>4. \A e \in hidden' : LintedFile!Marked(lines, e)'
    BY <1>1, <1>3, <2>3 DEF LintedFile!Marked
  <2>5. \A e \in told' : e.by \notin {"lines", "after"}
    BY <1>1, <2>2
  <2>6. told' \subseteq LintedFile!Errors /\ hidden' \subseteq LintedFile!Errors
    BY <2>1, <2>2 DEF FileInv, LintedFile!TypeOK
  <2> QED BY <1>1, <1>3, <2>4, <2>5, <2>6
      DEF FileInv, LintedFile!TypeOK, LintedFile!SuppressionIsExact, LintedFile!Phases
<1>4. CASE /\ LintedFile!Starts # {} /\ LintedFile!Ends(start) # {} /\ UNCHANGED <<filePhase, told, hidden>>
           /\ lines' = LintedFile!Cleared(start, end) /\ lineix' = end + 1
  <2>1. end \in 1 .. Len(lines)
    <3>1. LintedFile!Ends(start) \subseteq DOMAIN lines
      BY DEF LintedFile!Ends
    <3> QED BY <1>1, <1>4, <3>1, StartOrEnd
  <2>2. lineix' \in 1 .. Len(file) + 1
    BY <1>1, <1>4, <2>1
  <2>3. /\ \A i \in DOMAIN lines : lines'[i] \in {LintedFile!Blank, lines[i]}
        /\ DOMAIN lines' = DOMAIN lines
    BY <1>4 DEF LintedFile!Cleared
  <2>4. LintedFile!Blank \in LintedFile!LineType /\ LintedFile!Blank.found = {}
    BY DEF LintedFile!Blank, LintedFile!LineType, LintedFile!Scopes
  <2>5. lines' \in [1 .. Len(lines) -> LintedFile!LineType]
    <3>1. \A i \in 1 .. Len(lines) : lines'[i] \in LintedFile!LineType
      BY <1>1, <2>3, <2>4
    <3> QED BY <1>1, <1>4, <3>1 DEF LintedFile!Cleared
  <2>6. lines' \in Seq(LintedFile!LineType) /\ Len(lines') = Len(lines)
    BY <1>1, <2>5
  <2>7. lines' \in LintedFile!Texts
    <3>1. \A i \in DOMAIN lines : \A x \in lines'[i].found : i + x[2] \in DOMAIN lines
      BY <1>1, <2>3, <2>4, LinesAreTyped
    <3> QED BY <2>3, <2>6, <3>1 DEF LintedFile!Texts
  <2> QED BY <1>1, <1>4, <2>2, <2>6, <2>7
      DEF FileInv, LintedFile!TypeOK, LintedFile!SuppressionIsExact
<1> QED BY <1>2, <1>3, <1>4 DEF LintedFile!RemoveComment

(* The header guard is checked before the lines are.                          *)
LEMMA HeaderGuardInv == ASSUME FileInv, LintedFile!HeaderGuard PROVE FileInv'
<1>1. /\ filePhase = "guard" /\ filePhase' = "lines" /\ lineix' = 1
      /\ UNCHANGED <<file, header, lines, globals, files>>
      /\ suppressions = {} /\ \A e \in told : e.by \notin {"lines", "after"}
      /\ Len(lines) \in Nat /\ Len(file) = Len(lines) /\ DOMAIN lines \subseteq Nat
  BY LinesAreTyped DEF LintedFile!HeaderGuard, FileInv, LintedFile!TypeOK
<1>2. CASE UNCHANGED <<suppressions, told, hidden>>
  <2>1. LintedFile!TypeOK'
    BY <1>1, <1>2 DEF FileInv, LintedFile!TypeOK, LintedFile!Phases
  <2>2. LintedFile!SuppressionIsExact'
    BY <1>1, <1>2 DEF FileInv, LintedFile!SuppressionIsExact, LintedFile!Marked
  <2>3. lines' \in LintedFile!Texts /\ suppressions' = {} /\ 1 .. lineix' - 1 = {}
    BY <1>1, <1>2 DEF FileInv
  <2> QED BY <1>1, <2>1, <2>2, <2>3 DEF FileInv
<1>3. ASSUME NEW read \in SUBSET DOMAIN lines, NEW wrong \in SUBSET Nat,
             LintedFile!ReadAt("guard", read, {LintedFile!GuardError(i) : i \in wrong})
      PROVE  FileInv'
  <2> DEFINE errors == {LintedFile!GuardError(i) : i \in wrong}
  <2>1. errors \in SUBSET LintedFile!Errors /\ \A e \in errors : e.by = "guard"
    <3>1. "guard" \in FileCategories
      BY FileAssumption DEF LintedFile!CategoriesAssumption
    <3> QED BY <3>1 DEF LintedFile!GuardError, LintedFile!Errors
  <2> HIDE DEF errors
  <2>2. LintedFile!ReadAt("guard", read, errors) /\ UNCHANGED <<lines, globals>>
    BY <1>1, <1>3 DEF errors
  <2>3. /\ suppressions' \subseteq (FileCategories \cup {"all"}) \X Nat
        /\ \A s \in suppressions' : \E i \in DOMAIN lines' : s \in SuppressionsOf(i)'
        /\ told' \subseteq LintedFile!Errors /\ hidden' \subseteq LintedFile!Errors
        /\ \A e \in hidden' : LintedFile!Marked(lines, e)'
        /\ \A e \in told' : e \in told \/ e \in errors \/ e.by = "guard"
    BY <2>1, <2>2, ReadAtKeeps
  <2>4. \A e \in told' : e.by \notin {"lines", "after"}
    BY <1>1, <2>1, <2>3
  <2> QED BY <1>1, <2>3, <2>4
      DEF FileInv, LintedFile!TypeOK, LintedFile!SuppressionIsExact, LintedFile!Phases
<1>4. LintedFile!ReadAt("guard", {}, {LintedFile!GuardError(0)}) => FileInv'
  <2>1. {LintedFile!GuardError(i) : i \in {0}} = {LintedFile!GuardError(0)}
    BY Zenon
  <2>2. {} \in SUBSET DOMAIN lines /\ {0} \in SUBSET Nat
    OBVIOUS
  <2> HIDE DEF FileInv
  <2> SUFFICES ASSUME LintedFile!ReadAt("guard", {}, {LintedFile!GuardError(i) : i \in {0}})
               PROVE  FileInv'
    BY <2>1
  <2> QED BY <1>3, <2>2
<1>5. ASSUME NEW first \in DOMAIN lines, NEW end \in DOMAIN lines, NEW wrong \in SUBSET {first, end},
             LintedFile!ReadAt("guard", wrong \cup {end}, {LintedFile!GuardError(i) : i \in wrong})
      PROVE  FileInv'
  BY <1>1, <1>3, <1>5
<1> QED BY <1>2, <1>4, <1>5 DEF LintedFile!HeaderGuard

(* A line is processed: its NOLINT is read, then its errors are reported.     *)
LEMMA ProcessLineInv == ASSUME FileInv, LintedFile!ProcessLine PROVE FileInv'
<1> DEFINE read == {lineix} \cup (IF <<"braces", 1>> \in lines[lineix].found THEN {lineix + 1} ELSE {})
           errors == {[by |-> IF x[2] = 1 /\ x[1] # "braces" THEN "ahead" ELSE "lines",
                       category |-> x[1], line |-> lineix + x[2]] : x \in lines[lineix].found}
<1>1. /\ filePhase = "lines" /\ filePhase' = "lines" /\ lineix' = lineix + 1
      /\ lineix \in DOMAIN lines /\ lineix \in Nat \ {0} /\ lineix + 1 \in 1 .. Len(file) + 1
      /\ UNCHANGED <<file, header, lines, globals, files>>
      /\ lines[lineix] \in LintedFile!LineType
      /\ \A x \in lines[lineix].found : lineix + x[2] \in DOMAIN lines
      /\ lines \in LintedFile!Texts
      /\ DOMAIN lines \subseteq Nat
  BY LinesAreTyped DEF LintedFile!ProcessLine, FileInv, LintedFile!TypeOK
<1>2. /\ lines[lineix].found \subseteq FileCategories \X {-1, 0, 1}
  BY <1>1 DEF LintedFile!LineType
<1>3. read \in SUBSET DOMAIN lines
  BY <1>1
<1>4. errors \in SUBSET LintedFile!Errors
  BY <1>1, <1>2 DEF LintedFile!Errors
<1>5. \A e \in errors : e.by = "lines" =>
        /\ e.category \in FileCategories
        /\ e.line \in {lineix - 1, lineix} \/ (e.line = lineix + 1 /\ lineix + 1 \in read)
  <2> SUFFICES ASSUME NEW x \in lines[lineix].found, ~(x[2] = 1 /\ x[1] # "braces")
               PROVE  /\ x[1] \in FileCategories
                      /\ lineix + x[2] \in {lineix - 1, lineix} \/ (lineix + x[2] = lineix + 1 /\ lineix + 1 \in read)
    OBVIOUS
  <2>1. x[1] \in FileCategories /\ x[2] \in {-1, 0, 1} /\ x = <<x[1], x[2]>>
    BY <1>2
  <2> QED BY <1>1, <2>1
<1>6. LintedFile!ReadAt("lines", read, errors)
  BY DEF LintedFile!ProcessLine
<1> HIDE DEF errors, read
<1>7. /\ suppressions' \subseteq (FileCategories \cup {"all"}) \X Nat
      /\ \A s \in suppressions' : \E i \in DOMAIN lines' : s \in SuppressionsOf(i)'
      /\ told' \subseteq LintedFile!Errors /\ hidden' \subseteq LintedFile!Errors
      /\ \A e \in hidden' : LintedFile!Marked(lines, e)'
      /\ \A i \in read : SuppressionsOf(i) \subseteq suppressions'
      /\ suppressions \subseteq suppressions'
      /\ \A e \in told' :
           e \in told \/ (~LintedFile!IsSuppressed(e, suppressions')
                          /\ (e \in errors \/ (e.by = "lines" /\ e.category = "nolint" /\ e.line \in read)))
  BY <1>1, <1>3, <1>4, <1>6, ReadAtKeeps
<1>8. /\ \A i \in 1 .. lineix : SuppressionsOf(i) \subseteq suppressions'
      /\ \A i \in read : SuppressionsOf(i) \subseteq suppressions'
  <2>1. \A i \in 1 .. lineix - 1 : SuppressionsOf(i) \subseteq suppressions'
    BY <1>1, <1>7 DEF FileInv
  <2>2. lineix \in read
    BY DEF read
  <2> QED BY <1>1, <1>7, <2>1, <2>2
<1>9. \A e \in told' : e.by \in {"lines", "after"} => ~LintedFile!Marked(lines, e)
  <2> SUFFICES ASSUME NEW e \in told', e.by \in {"lines", "after"}, LintedFile!Marked(lines, e)
               PROVE  FALSE
    OBVIOUS
  <2>1. CASE e \in told
    BY <2>1 DEF FileInv, LintedFile!SuppressionIsExact
  <2>2. CASE e \notin told
    <3>1. /\ ~LintedFile!IsSuppressed(e, suppressions') /\ e.category \in FileCategories
          /\ e.line \in {lineix - 1, lineix} \/ (e.line = lineix + 1 /\ lineix + 1 \in read)
      <4>1. CASE e \in errors
        <5>1. e.by \in {"ahead", "lines"}
          BY <4>1 DEF errors
        <5>2. e.by = "lines"
          BY <5>1
        <5> QED BY <1>5, <1>7, <2>2, <4>1, <5>2
      <4>2. CASE e.by = "lines" /\ e.category = "nolint" /\ e.line \in read
        <5>1. e.line \in {lineix, lineix + 1}
          BY <4>2 DEF read
        <5>2. "nolint" \in FileCategories
          BY FileAssumption DEF LintedFile!CategoriesAssumption
        <5> QED BY <1>7, <2>2, <4>2, <5>1, <5>2
      <4> QED BY <1>7, <2>2, <4>1, <4>2
    <3>2. \A i \in DOMAIN lines : e.line \in {i, i + 1} => SuppressionsOf(i) \subseteq suppressions'
      <4> SUFFICES ASSUME NEW i \in DOMAIN lines, e.line \in {i, i + 1}
                   PROVE  SuppressionsOf(i) \subseteq suppressions'
        OBVIOUS
      <4>1. i \in Nat \ {0} /\ (i \in 1 .. lineix \/ i \in read)
        <5>1. i \in 1 .. Len(lines) /\ Len(lines) \in Nat
          BY <1>1, LinesAreTyped
        <5> QED BY <1>1, <3>1, <5>1
      <4> QED BY <1>8, <4>1
    <3> QED BY <1>1, <3>1, <3>2, MarkedIsSuppressed
  <2> QED BY <2>1, <2>2
<1>10. \A e \in told' : e.by \in {"lines", "after"} => ~LintedFile!Marked(lines, e)'
  BY <1>1, <1>9 DEF LintedFile!Marked
<1>11. \A i \in 1 .. lineix' - 1 : SuppressionsOf(i)' \subseteq suppressions'
  BY <1>1, <1>8 DEF SuppressionsOf
<1>12. LintedFile!TypeOK'
  BY <1>1, <1>7 DEF FileInv, LintedFile!TypeOK
<1> QED BY <1>1, <1>7, <1>10, <1>11, <1>12 DEF FileInv, LintedFile!SuppressionIsExact

(* What is reported after the last line is suppressed by any line.            *)
LEMMA AfterLinesInv == ASSUME FileInv, LintedFile!AfterLines PROVE FileInv'
<1> DEFINE errors == {[by |-> "after", category |-> "utf8", line |-> i] : i \in {j \in DOMAIN lines : lines[j].bad}}
<1>1. /\ filePhase = "lines" /\ filePhase' = "end" /\ lineix > Len(lines)
      /\ UNCHANGED <<file, header, lines, lineix, suppressions, globals, files>>
      /\ lines \in LintedFile!Texts
      /\ DOMAIN lines = 1 .. Len(lines) /\ Len(lines) \in Nat /\ lineix \in Nat
  BY LinesAreTyped DEF LintedFile!AfterLines, FileInv, LintedFile!TypeOK
<1>2. "utf8" \in FileCategories
  BY FileAssumption DEF LintedFile!CategoriesAssumption
<1>3. errors \subseteq LintedFile!Errors /\ \A e \in errors : e.category = "utf8"
  BY <1>1, <1>2 DEF LintedFile!Errors
<1>4. /\ told' = told \cup {e \in errors : ~LintedFile!IsSuppressed(e, suppressions)}
      /\ hidden' = hidden \cup {e \in errors : LintedFile!IsSuppressed(e, suppressions)}
  BY DEF LintedFile!AfterLines, LintedFile!Report
<1> HIDE DEF errors
<1>5. \A i \in DOMAIN lines : SuppressionsOf(i) \subseteq suppressions
  BY <1>1 DEF FileInv
<1>6. \A e \in told' : e.by \in {"lines", "after"} => ~LintedFile!Marked(lines, e)
  <2> SUFFICES ASSUME NEW e \in told', e.by \in {"lines", "after"} PROVE ~LintedFile!Marked(lines, e)
    OBVIOUS
  <2>1. CASE e \in told
    BY <2>1 DEF FileInv, LintedFile!SuppressionIsExact
  <2>2. CASE e \in errors /\ ~LintedFile!IsSuppressed(e, suppressions)
    BY <1>1, <1>2, <1>3, <1>5, <2>2, MarkedIsSuppressed
  <2> QED BY <1>4, <2>1, <2>2
<1>7. \A e \in hidden' : LintedFile!Marked(lines, e)
  <2> SUFFICES ASSUME NEW e \in hidden' PROVE LintedFile!Marked(lines, e)
    OBVIOUS
  <2>1. CASE e \in hidden
    BY <2>1 DEF FileInv, LintedFile!SuppressionIsExact
  <2>2. CASE LintedFile!IsSuppressed(e, suppressions)
    BY <1>1, <2>2, SuppressedIsMarked DEF FileInv
  <2> QED BY <1>4, <2>1, <2>2
<1>8. /\ \A e \in told' : e.by \in {"lines", "after"} => ~LintedFile!Marked(lines, e)'
      /\ \A e \in hidden' : LintedFile!Marked(lines, e)'
  BY <1>1, <1>6, <1>7 DEF LintedFile!Marked
<1>9. \A s \in suppressions' : \E i \in DOMAIN lines' : s \in SuppressionsOf(i)'
  BY <1>1 DEF FileInv, SuppressionsOf
<1>10. LintedFile!TypeOK'
  BY <1>1, <1>3, <1>4 DEF FileInv, LintedFile!TypeOK, LintedFile!Phases
<1> QED BY <1>1, <1>8, <1>9, <1>10 DEF FileInv, LintedFile!SuppressionIsExact

(* Every step of processing a file suppresses exactly what is marked.         *)
LEMMA FileStepInv == ASSUME FileInv, [LintedFile!Next]_fileVars PROVE FileInv'
<1>1. CASE UNCHANGED fileVars
  BY <1>1
  DEF fileVars, FileInv, LintedFile!TypeOK, LintedFile!SuppressionIsExact, LintedFile!Marked, SuppressionsOf
<1> QED BY <1>1, BeginFileInv, RemoveCommentInv, HeaderGuardInv, ProcessLineInv, AfterLinesInv
    DEF LintedFile!Next

-------------------------------------------------------------------------------
(* RepositoryName and CheckFilenameFormat                                     *)

(* The file is in a checkout by git or in the repository that was asked for.  *)
InCheckout == repository # Paths!None \/ (svns = {} /\ Paths!Checkouts # {})

Bad(i) == ~path[i].lower \/ path[i].underscore

PathTypes ==
  /\ path \in Seq(DirectoryNames)
  /\ gits \subseteq 0 .. Paths!Depth /\ repository \in {Paths!None} \cup 0 .. Paths!Depth

(* The search upwards keeps the last checkout that it has come by; what has   *)
(* been reported are the directories below it looked at so far.               *)
PathInv ==
  /\ PathTypes
  /\ pathPhase = "repository" =>
       repository # Paths!None /\ dir \in repository .. Paths!Depth /\ badNames = {}
  /\ pathPhase = "svn" => repository = Paths!None /\ svns # {}
  /\ pathPhase = "git" =>
       /\ repository = Paths!None /\ dir \in 0 .. Paths!Depth /\ badNames = {}
       /\ svns = {} /\ (\E i \in gits : i > dir) =>
            root \in gits /\ root > dir /\ \A i \in gits : i > dir => root <= i
  /\ pathPhase = "format" /\ InCheckout =>
       /\ name = Paths!Below(Paths!Root) /\ dir \in 1 .. Len(name) + 1
       /\ Paths!Root = Paths!Depth => dir = 1
       /\ badNames = {i \in Paths!Root + 1 .. Paths!Root + dir - 1 : Bad(i)}
  /\ Paths!OnlyTheCheckoutCounts

(* The root of the checkout is a directory above the file, the outermost one  *)
(* of them.                                                                   *)
LEMMA CheckoutRoot ==
  ASSUME PathTypes, InCheckout
  PROVE  /\ Paths!Root \in 0 .. Paths!Depth /\ Paths!Depth \in Nat
         /\ repository = Paths!None =>
              Paths!Root \in Paths!Checkouts /\ \A i \in Paths!Checkouts : Paths!Root <= i
<1>1. Paths!Depth \in Nat
  BY DEF PathTypes, Paths!Depth
<1>2. CASE repository # Paths!None
  BY <1>1, <1>2 DEF PathTypes, Paths!Root
<1>3. CASE repository = Paths!None
  <2>1. Paths!Checkouts \in SUBSET Nat /\ Paths!Checkouts # {}
    BY <1>1, <1>3 DEF PathTypes, InCheckout, Paths!Checkouts
  <2> QED BY <1>1, <1>3, <2>1, LeastExists DEF PathTypes, Paths!Root, Paths!Min, Paths!Checkouts
<1> QED BY <1>2, <1>3

(* The directories from one on, and that there is one name if there are none. *)
LEMMA BelowIs ==
  ASSUME NEW d \in 0 .. Paths!Depth, Paths!Depth \in Nat
  PROVE  /\ d = Paths!Depth => Len(Paths!Below(d)) = 1 /\ Paths!Below(d)[1] = Paths!EmptyName
         /\ d # Paths!Depth => /\ Len(Paths!Below(d)) = Paths!Depth - d
                              /\ \A i \in 1 .. Paths!Depth - d : Paths!Below(d)[i] = d + i
<1> DEFINE depth == Paths!Depth
           rest == [i \in 1 .. depth - d |-> d + i]
<1>1. CASE d = Paths!Depth
  BY <1>1 DEF Paths!Below
<1>2. CASE d # Paths!Depth
  <2>1. Paths!Below(d) = rest
    BY <1>2 DEF Paths!Below
  <2>2. depth \in Nat /\ depth - d \in Nat
    BY <1>2
  <2> HIDE DEF depth
  <2>3. Len(rest) = depth - d /\ \A i \in 1 .. depth - d : rest[i] = d + i
    BY <2>2
  <2> QED BY <1>2, <2>1, <2>3 DEF depth
<1> QED BY <1>1, <1>2

(* The next directory is added to those looked at.                            *)
LEMMA OneFurther ==
  ASSUME NEW r \in Nat, NEW d \in Nat, d >= 1
  PROVE  /\ r + 1 .. r + (d + 1) - 1 = (r + 1 .. r + d - 1) \cup {r + d}
         /\ r + 1 .. r + 1 - 1 = {}
OBVIOUS

(* The name of the file is that in its checkout.                              *)
LEMMA NameFound ==
  ASSUME PathInv, InCheckout, Paths!Named(Paths!Below(Paths!Root)), badNames = {}, badNames' = {},
         UNCHANGED <<path, basename, gits, svns, repository, noFormat>>
  PROVE  PathInv'
<1>1. PathTypes /\ Paths!Root \in 0 .. Paths!Depth /\ Paths!Depth \in Nat
  BY CheckoutRoot DEF PathInv
<1>2. name' = Paths!Below(Paths!Root) /\ dir' = 1 /\ pathPhase' = "format"
  BY DEF Paths!Named, Paths!Goto
<1>3. Paths!Root' = Paths!Root /\ Paths!Depth' = Paths!Depth /\ InCheckout' = InCheckout
  BY DEF Paths!Root, Paths!Depth, Paths!Checkouts, InCheckout
<1>4. name' = Paths!Below(Paths!Root)'
  BY <1>2, <1>3 DEF Paths!Below
<1>5. 1 \in 1 .. Len(name') + 1
  <2>1. Len(name') \in Nat
    BY <1>1, <1>2, BelowIs
  <2> QED BY <2>1
<1>6. Paths!Root + 1 .. Paths!Root + 1 - 1 = {}
  BY <1>1, OneFurther
<1> QED BY <1>1, <1>2, <1>3, <1>4, <1>5, <1>6 DEF PathInv, PathTypes, Paths!OnlyTheCheckoutCounts

(* The search begins at the directory of the file.                            *)
LEMMA PathInitInv == Paths!Init => PathInv
<1> SUFFICES ASSUME Paths!Init PROVE PathInv
  OBVIOUS
<1>1. PathTypes /\ Paths!Depth \in Nat
  BY InstancesAssumption DEF Paths!Init, PathTypes, Paths!Depth, Paths!DepthAssumption
<1>2. /\ dir = Paths!Depth /\ root = Paths!Depth /\ badNames = {}
      /\ pathPhase \in {"done", "repository", "svn", "git"}
      /\ pathPhase = "done" => noFormat
      /\ pathPhase = "repository" => repository # Paths!None
      /\ pathPhase \in {"git", "svn"} => repository = Paths!None
      /\ pathPhase = "svn" => Paths!Depth \in svns
  BY DEF Paths!Init
<1>3. \A i \in gits : ~(i > Paths!Depth)
  BY <1>1 DEF PathTypes
<1>4. repository # Paths!None => Paths!Depth \in repository .. Paths!Depth
  BY <1>1 DEF PathTypes
<1>5. Paths!Depth \in 0 .. Paths!Depth
  BY <1>1
<1> QED BY <1>1, <1>2, <1>3, <1>4, <1>5 DEF PathInv, Paths!OnlyTheCheckoutCounts

(* The search goes up one directory at a time, and every directory found is   *)
(* judged.                                                                    *)
LEMMA PathStepInv == ASSUME PathInv, [Paths!Next]_pathVars PROVE PathInv'
<1>1. PathTypes /\ Paths!Depth \in Nat /\ gits \subseteq Nat
  BY DEF PathInv, PathTypes, Paths!Depth
<1>2. ASSUME UNCHANGED <<path, basename, gits, svns, repository, noFormat>>
      PROVE  /\ PathTypes' /\ Paths!Root' = Paths!Root /\ Paths!Depth' = Paths!Depth
             /\ InCheckout' = InCheckout /\ \A i : Bad(i)' = Bad(i)
             /\ Paths!Below(Paths!Root)' = Paths!Below(Paths!Root)
  <2>1. Paths!Root' = Paths!Root /\ Paths!Depth' = Paths!Depth
    BY <1>2 DEF Paths!Root, Paths!Depth, Paths!Checkouts
  <2> QED BY <1>1, <1>2, <2>1 DEF PathTypes, InCheckout, Paths!Checkouts, Bad, Paths!Below
<1>3. CASE Paths!FindRepository
  <2>1. /\ pathPhase = "repository" /\ repository # Paths!None /\ badNames = {} /\ badNames' = {}
        /\ dir \in repository .. Paths!Depth
        /\ UNCHANGED <<path, basename, gits, svns, repository, noFormat>>
    BY <1>3 DEF Paths!FindRepository, Paths!Unchanged, PathInv
  <2>2. InCheckout /\ Paths!Root = repository
    BY <2>1 DEF InCheckout, Paths!Root
  <2>3. CASE dir = repository /\ Paths!Named(Paths!Below(dir))
    BY <2>1, <2>2, <2>3, NameFound
  <2>4. CASE dir # repository /\ dir' = dir - 1 /\ UNCHANGED <<name, pathPhase>>
    <3>1. repository \in Nat
      BY <1>1, <2>1 DEF PathTypes
    <3>2. dir' \in repository' .. Paths!Depth'
      BY <1>1, <1>2, <2>1, <2>4, <3>1
    <3> QED BY <1>2, <2>1, <2>4, <3>2 DEF PathInv, Paths!OnlyTheCheckoutCounts
  <2> QED BY <1>3, <2>3, <2>4 DEF Paths!FindRepository
<1>4. CASE Paths!FindSvn
  <2>1. /\ pathPhase = "svn" /\ ~InCheckout /\ repository = Paths!None /\ svns # {}
        /\ UNCHANGED <<path, basename, gits, svns, repository, noFormat>>
        /\ pathPhase' \in {"svn", "format"}
    BY <1>4 DEF Paths!FindSvn, Paths!Unchanged, PathInv, InCheckout, Paths!Named, Paths!Goto
  <2> QED BY <1>2, <2>1 DEF PathInv, Paths!OnlyTheCheckoutCounts
<1>5. CASE Paths!FindGit
  <2>1. /\ pathPhase = "git" /\ repository = Paths!None /\ badNames = {} /\ badNames' = {}
        /\ dir \in 0 .. Paths!Depth
        /\ svns = {} /\ (\E i \in gits : i > dir) =>
             root \in gits /\ root > dir /\ \A i \in gits : i > dir => root <= i
        /\ UNCHANGED <<path, basename, gits, svns, repository, noFormat>>
    BY <1>5 DEF Paths!FindGit, Paths!Unchanged, PathInv
  <2>2. CASE /\ Paths!BelowTheTop /\ root' = (IF dir \in gits \cup svns THEN dir ELSE root)
             /\ dir' = dir - 1 /\ UNCHANGED <<name, pathPhase>>
    <3>1. dir' \in 0 .. Paths!Depth'
      BY <1>1, <1>2, <2>1, <2>2 DEF Paths!BelowTheTop
    <3>2. ASSUME svns = {}, NEW j \in gits, j > dir - 1
          PROVE  root' \in gits /\ root' > dir - 1 /\ \A i \in gits : i > dir - 1 => root' <= i
      <4>1. CASE dir \in gits
        BY <1>1, <2>1, <2>2, <3>2, <4>1
      <4>2. CASE dir \notin gits
        <5>1. \A i \in gits : i > dir - 1 => i > dir
          BY <1>1, <2>1, <4>2
        <5> QED BY <1>1, <2>1, <2>2, <3>2, <4>2, <5>1
      <4> QED BY <4>1, <4>2
    <3> QED BY <1>2, <2>1, <2>2, <3>1, <3>2 DEF PathInv, Paths!OnlyTheCheckoutCounts
  <2>3. CASE /\ ~Paths!BelowTheTop
             /\ Paths!Named(IF root \in gits \cup svns THEN Paths!Below(root)
                            ELSE <<Paths!EmptyName>> \o Paths!Below(0))
    <3>1. dir = 0
      BY <2>1, <2>3, <1>1 DEF Paths!BelowTheTop
    <3>2. CASE InCheckout
      <4>1. Paths!Root \in Paths!Checkouts /\ \A i \in Paths!Checkouts : Paths!Root <= i
        BY <1>1, <2>1, <3>2, CheckoutRoot
      <4>2. svns = {}
        BY <2>1, <3>2 DEF InCheckout
      <4>3. root \in Paths!Checkouts /\ \A i \in Paths!Checkouts : root <= i
        BY <1>1, <2>1, <3>1, <4>1, <4>2 DEF Paths!Checkouts
      <4>4. root = Paths!Root
        BY <1>1, <4>1, <4>3 DEF Paths!Checkouts
      <4>5. Paths!Named(Paths!Below(Paths!Root))
        BY <2>3, <4>3, <4>4 DEF Paths!Checkouts
      <4> QED BY <2>1, <3>2, <4>5, NameFound
    <3>3. CASE ~InCheckout
      <4>1. pathPhase' = "format"
        BY <2>3 DEF Paths!Named, Paths!Goto
      <4> QED BY <1>2, <2>1, <3>3, <4>1 DEF PathInv, Paths!OnlyTheCheckoutCounts
    <3> QED BY <3>2, <3>3
  <2> QED BY <1>5, <2>2, <2>3 DEF Paths!FindGit
<1>6. CASE Paths!CheckDirectory
  <2>1. /\ pathPhase = "format" /\ dir <= Len(name)
        /\ UNCHANGED <<path, basename, gits, svns, repository, noFormat, name>>
    BY <1>6 DEF Paths!CheckDirectory, Paths!Unchanged
  <2>2. CASE pathPhase' = "exception"
    BY <1>2, <2>1, <2>2 DEF PathInv, Paths!OnlyTheCheckoutCounts
  <2>3. CASE /\ name[dir] # Paths!EmptyName /\ dir' = dir + 1 /\ pathPhase' = pathPhase
             /\ badNames' = (IF Paths!BadDirectory(path[name[dir]]) THEN badNames \cup {name[dir]}
                             ELSE badNames)
    <3>1. ASSUME InCheckout
          PROVE  /\ dir' \in 1 .. Len(name') + 1 /\ Paths!Root # Paths!Depth
                 /\ badNames' = {i \in Paths!Root + 1 .. Paths!Root + dir' - 1 : Bad(i)}
      <4>1. /\ name = Paths!Below(Paths!Root) /\ dir \in 1 .. Len(name) + 1
            /\ badNames = {i \in Paths!Root + 1 .. Paths!Root + dir - 1 : Bad(i)}
            /\ Paths!Root \in 0 .. Paths!Depth
            /\ Paths!Root = Paths!Depth => dir = 1
        BY <1>1, <2>1, <3>1, CheckoutRoot DEF PathInv
      <4>2. Paths!Root # Paths!Depth
        BY <1>1, <2>3, <4>1, BelowIs
      <4>3. /\ Len(name) = Paths!Depth - Paths!Root
            /\ \A i \in 1 .. Paths!Depth - Paths!Root : name[i] = Paths!Root + i
        BY <1>1, <4>1, <4>2, BelowIs
      <4>8. dir \in 1 .. Paths!Depth - Paths!Root /\ name[dir] = Paths!Root + dir
        BY <1>1, <2>1, <4>1, <4>3
      <4>4. Paths!BadDirectory(path[name[dir]]) <=> Bad(Paths!Root + dir)
        BY <4>8 DEF Paths!BadDirectory, Bad
      <4>5. Paths!Root + 1 .. Paths!Root + dir' - 1 = (Paths!Root + 1 .. Paths!Root + dir - 1) \cup {Paths!Root + dir}
        BY <1>1, <2>3, <4>1, <4>8, OneFurther
      <4>6. badNames' = {i \in Paths!Root + 1 .. Paths!Root + dir' - 1 : Bad(i)}
        BY <2>3, <4>1, <4>8, <4>4, <4>5
      <4>7. dir' \in 1 .. Len(name') + 1
        BY <1>1, <2>1, <2>3, <4>1, <4>3, <4>8
      <4> QED BY <4>2, <4>6, <4>7
    <3>2. InCheckout => badNames' = {i \in Paths!Root + 1 .. Paths!Root + dir - 1 : Bad(i)}'
      BY <1>2, <2>1, <3>1
    <3> QED BY <1>2, <2>1, <2>3, <3>1, <3>2 DEF PathInv, Paths!OnlyTheCheckoutCounts
  <2> QED BY <1>6, <2>2, <2>3 DEF Paths!CheckDirectory, Paths!Goto
<1>7. CASE Paths!CheckBasename
  <2>1. /\ pathPhase = "format" /\ dir > Len(name) /\ pathPhase' = "done"
        /\ UNCHANGED <<path, basename, gits, svns, repository, noFormat>>
        /\ badNames' = IF basename.lower \/ basename.underscore THEN badNames \cup {0} ELSE badNames
    BY <1>7 DEF Paths!CheckBasename, Paths!Unchanged, Paths!Goto
  <2>2. InCheckout => badNames = {i \in Paths!Root + 1 .. Paths!Depth : Bad(i)}
    <3> SUFFICES ASSUME InCheckout PROVE badNames = {i \in Paths!Root + 1 .. Paths!Depth : Bad(i)}
      OBVIOUS
    <3>1. /\ name = Paths!Below(Paths!Root) /\ dir \in 1 .. Len(name) + 1
          /\ badNames = {i \in Paths!Root + 1 .. Paths!Root + dir - 1 : Bad(i)}
          /\ Paths!Root \in 0 .. Paths!Depth
          /\ Paths!Root = Paths!Depth => dir = 1
      BY <1>1, <2>1, CheckoutRoot DEF PathInv
    <3>2. Len(name) \in Nat /\ dir = Len(name) + 1
      BY <1>1, <2>1, <3>1, BelowIs
    <3>3. Paths!Root # Paths!Depth
      BY <1>1, <3>1, <3>2, BelowIs
    <3>4. Len(name) = Paths!Depth - Paths!Root
      BY <1>1, <3>1, <3>3, BelowIs
    <3>5. Paths!Root + dir - 1 = Paths!Depth
      BY <1>1, <3>1, <3>2, <3>4
    <3> QED BY <3>1, <3>5
  <2>3. Paths!OnlyTheCheckoutCounts'
    BY <1>2, <2>1, <2>2 DEF Paths!OnlyTheCheckoutCounts, InCheckout, Bad
  <2> QED BY <1>2, <2>1, <2>3 DEF PathInv
<1>8. CASE UNCHANGED pathVars
  <2>1. {i \in Paths!Root + 1 .. Paths!Root + dir - 1 : Bad(i)}' = {i \in Paths!Root + 1 .. Paths!Root + dir - 1 : Bad(i)}
    BY <1>2, <1>8 DEF pathVars
  <2>2. Paths!OnlyTheCheckoutCounts'
    BY <1>2, <1>8 DEF pathVars, PathInv, Paths!OnlyTheCheckoutCounts, Paths!Checkouts
  <2> QED BY <1>2, <1>8, <2>1, <2>2 DEF pathVars, PathInv
<1> QED BY <1>3, <1>4, <1>5, <1>6, <1>7, <1>8 DEF Paths!Next

-------------------------------------------------------------------------------
(* CheckForHeaderGuard                                                        *)

(* The guards that the namespaces of a header call for.                       *)
GuardsOf(namespaces) == {Guard!GuardOf(space) : space \in namespaces}
Odd == {Guard!Garbled, Guard!Unreadable}

(* The variables found so far are those of the namespaces, but for the odd    *)
(* ones that the house style does not lead to.                                *)
VariablesFound ==
  /\ spaces \subseteq Spaces
  /\ possible \in Seq(GuardsOf(Spaces) \cup Odd)
  /\ Guard!ToSet(possible) \subseteq GuardsOf(spaces) \cup Odd
  /\ habits = {} => Guard!ToSet(possible) = GuardsOf(spaces)
  /\ spaces # {} => possible # <<>>

(* The first directives are the ones found, and so is the last one.           *)
DirectivesFound ==
  /\ opening.seen = 0 => ifndef = Guard!Unset /\ define = Guard!None
  /\ opening.seen = 1 => define = Guard!None
  /\ opening.seen \in {1, 2} =>
       opening.guard \in Guards /\ ifndef.guard = opening.guard /\ ifndef.nolint = opening.nolint
  /\ opening.seen = 2 => define = opening.guard

EndFound == last # Guard!None => endif.guard = last /\ endif.comment = "//"

GuardInv ==
  /\ guardPhase = "lines" => VariablesFound /\ DirectivesFound /\ EndFound
  /\ Guard!HouseStylePasses /\ Guard!WrongGuardIsReported

(* No macro is called as an odd remark or as no guard.                        *)
LEMMA GuardsAreMacros ==
  \A guard \in Guards : guard # Guard!None /\ guard \notin Odd
<1>1. Guards \subseteq [space : Spaces \cup {NoSpace}, end : {"_", "__"}]
  BY InstancesAssumption DEF Guard!SpacesAssumption
<1>2. \A guard \in Guards : guard.end \in {"_", "__"}
  BY <1>1
<1>3. Guard!None.end = "" /\ Guard!Garbled.end = "{" /\ Guard!Unreadable.end = "("
  BY DEF Guard!None, Guard!Garbled, Guard!Unreadable
<1> QED BY <1>2, <1>3 DEF Odd

(* A variable is added to those found if it is not among them yet.            *)
LEMMA VariableIsAdded ==
  ASSUME NEW S, possible \in Seq(S), NEW variable \in S
  PROVE  /\ Guard!WithVariable(variable) \in Seq(S)
         /\ variable # Guard!None =>
              /\ Guard!ToSet(Guard!WithVariable(variable)) = Guard!ToSet(possible) \cup {variable}
              /\ Guard!WithVariable(variable) # <<>>
<1>1. CASE variable \in Guard!ToSet(possible)
  BY <1>1 DEF Guard!WithVariable, Guard!ToSet
<1>2. CASE variable \notin Guard!ToSet(possible) /\ variable # Guard!None
  <2>1. Guard!WithVariable(variable) = Append(possible, variable)
    BY <1>2 DEF Guard!WithVariable
  <2>2. /\ Append(possible, variable) \in Seq(S) /\ Append(possible, variable) # <<>>
        /\ DOMAIN Append(possible, variable) = DOMAIN possible \cup {Len(possible) + 1}
        /\ \A i \in DOMAIN possible : Append(possible, variable)[i] = possible[i]
        /\ Append(possible, variable)[Len(possible) + 1] = variable
    BY AppendProperties
  <2>3. Guard!ToSet(Append(possible, variable)) = Guard!ToSet(possible) \cup {variable}
    BY <2>2, Zenon DEF Guard!ToSet
  <2> QED BY <1>2, <2>1, <2>2, <2>3
<1>3. CASE variable = Guard!None
  BY <1>3 DEF Guard!WithVariable
<1> QED BY <1>1, <1>2, <1>3

(* The macros and namespaces of the lines are those assumed.                  *)
LEMMA LineIsDescribed ==
  ASSUME NEW text \in Guard!Lines
  PROVE  /\ text.is \in {"namespace", "namespace{"} => text.space \in Spaces
         /\ text.is \in {"ifndef", "define"} => text.guard \in Guards
         /\ text.is = "endif" /\ text.comment = "//" => text.guard \in Guards
BY DEF Guard!Lines

(* Before the first line nothing has been found.                              *)
LEMMA GuardInitInv == Guard!Init => GuardInv
<1> SUFFICES ASSUME Guard!Init PROVE GuardInv
  OBVIOUS
<1>1. VariablesFound
  <2>1. \A S : <<>> \in Seq(S)
    OBVIOUS
  <2> QED BY <2>1 DEF Guard!Init, VariablesFound, Guard!ToSet, GuardsOf
<1>2. DirectivesFound /\ EndFound
  BY DEF Guard!Init, DirectivesFound, EndFound
<1> QED BY <1>1, <1>2 DEF GuardInv, Guard!Init, Guard!HouseStylePasses, Guard!WrongGuardIsReported, Guard!Accepted

(* A line of any kind keeps what was found true to the header.                *)
LEMMA ReadLineInv ==
  ASSUME GuardInv, NEW text \in Guard!Lines, Guard!ReadLine(text)
  PROVE  GuardInv'
<1>1. VariablesFound /\ DirectivesFound /\ EndFound /\ guardPhase = "lines" /\ guardPhase' = "lines"
  BY DEF GuardInv, Guard!ReadLine
<1>2. VariablesFound'
  <2> DEFINE variable == Guard!VariableOf(text)
  <2>1. possible' = Guard!WithVariable(variable)
    BY DEF Guard!ReadLine
  <2>2. CASE text.is \in {"namespace", "namespace{"}
    <3>1. text.space \in Spaces /\ spaces' = spaces \cup {text.space}
      BY <2>2, LineIsDescribed DEF Guard!ReadLine, Guard!Describe
    <3>2. /\ variable \in GuardsOf(Spaces) \cup Odd /\ variable # Guard!None
          /\ variable \in GuardsOf(spaces') \cup Odd
          /\ text.is = "namespace" => variable = Guard!GuardOf(text.space)
      BY <2>2, <3>1 DEF Guard!VariableOf, GuardsOf, Odd, Guard!GuardOf, Guard!Garbled, Guard!None
    <3>3. /\ possible' \in Seq(GuardsOf(Spaces) \cup Odd) /\ possible' # <<>>
          /\ Guard!ToSet(possible)' = Guard!ToSet(possible) \cup {variable}
      <4>1. possible \in Seq(GuardsOf(Spaces) \cup Odd) /\ variable \in GuardsOf(Spaces) \cup Odd
        BY <1>1, <3>2 DEF VariablesFound
      <4>2. /\ Guard!WithVariable(variable) \in Seq(GuardsOf(Spaces) \cup Odd)
            /\ Guard!ToSet(Guard!WithVariable(variable)) = Guard!ToSet(possible) \cup {variable}
            /\ Guard!WithVariable(variable) # <<>>
        BY <4>1, <3>2, VariableIsAdded
      <4> QED BY <2>1, <4>2 DEF Guard!ToSet
    <3>4. GuardsOf(spaces') = GuardsOf(spaces) \cup {Guard!GuardOf(text.space)}
      BY <3>1 DEF GuardsOf
    <3>5. habits' = {} => habits = {} /\ text.is = "namespace"
      BY <2>2 DEF Guard!ReadLine, Guard!Describe
    <3> QED BY <1>1, <3>1, <3>2, <3>3, <3>4, <3>5 DEF VariablesFound, GuardsOf
  <2>3. CASE text.is \in {"remark", "oddRemark"}
    <3>1. variable \in Odd /\ variable # Guard!None /\ spaces' = spaces
      BY <2>3 DEF Guard!VariableOf, Odd, Guard!Garbled, Guard!Unreadable, Guard!None, Guard!ReadLine,
         Guard!Describe
    <3>2. /\ possible' \in Seq(GuardsOf(Spaces) \cup Odd) /\ possible' # <<>>
          /\ Guard!ToSet(possible)' = Guard!ToSet(possible) \cup {variable}
      <4>1. possible \in Seq(GuardsOf(Spaces) \cup Odd) /\ variable \in GuardsOf(Spaces) \cup Odd
        BY <1>1, <3>1 DEF VariablesFound
      <4>2. /\ Guard!WithVariable(variable) \in Seq(GuardsOf(Spaces) \cup Odd)
            /\ Guard!ToSet(Guard!WithVariable(variable)) = Guard!ToSet(possible) \cup {variable}
            /\ Guard!WithVariable(variable) # <<>>
        BY <4>1, <3>1, VariableIsAdded
      <4> QED BY <2>1, <4>2 DEF Guard!ToSet
    <3>3. habits' # {}
      BY <2>3 DEF Guard!ReadLine, Guard!Describe
    <3> QED BY <1>1, <3>1, <3>2, <3>3 DEF VariablesFound, GuardsOf
  <2>4. CASE text.is \notin {"namespace", "namespace{", "remark", "oddRemark"}
    <3>1. variable = Guard!None /\ spaces' = spaces /\ habits' = habits
      BY <2>4 DEF Guard!VariableOf, Guard!ReadLine, Guard!Describe
    <3>2. possible' = possible
      BY <2>1, <3>1 DEF Guard!WithVariable
    <3> QED BY <1>1, <3>1, <3>2 DEF VariablesFound, GuardsOf, Guard!ToSet
  <2> QED BY <2>2, <2>3, <2>4
<1>3. DirectivesFound'
  <2>1. /\ ifndef' = Guard!FirstIfndef(text) /\ define' = Guard!FirstDefine(text)
        /\ Guard!Describe(text)
    BY DEF Guard!ReadLine
  <2>5. text.is = "ifndef" /\ opening.seen = 0 =>
          opening' = [seen |-> 1, guard |-> text.guard, nolint |-> text.nolint]
    BY <2>1 DEF Guard!Describe, Guard!Directives
  <2>6. text.is = "define" /\ opening.seen = 1 /\ text.guard = opening.guard =>
          opening' = [opening EXCEPT !.seen = 2]
    BY <2>1 DEF Guard!Describe, Guard!Directives
  <2>2. CASE text.is = "ifndef"
    <3>1. text.guard \in Guards /\ define' = define
      BY <2>1, <2>2, LineIsDescribed DEF Guard!FirstDefine
    <3>2. CASE opening.seen = 0
      <4>1. /\ ifndef' = [guard |-> text.guard, nolint |-> text.nolint, comment |-> "none"]
            /\ opening' = [seen |-> 1, guard |-> text.guard, nolint |-> text.nolint]
        <5>1. ifndef = Guard!Unset
          BY <1>1, <3>2 DEF DirectivesFound
        <5>2. ifndef' = [Guard!Unset EXCEPT !.guard = text.guard, !.nolint = text.nolint]
          BY <2>1, <2>2, <5>1 DEF Guard!FirstIfndef
        <5>3. ifndef' = [guard |-> text.guard, nolint |-> text.nolint, comment |-> "none"]
          BY <5>2 DEF Guard!Unset
        <5>4. opening' = [seen |-> 1, guard |-> text.guard, nolint |-> text.nolint]
          BY <2>2, <2>5, <3>2
        <5> QED BY <5>3, <5>4
      <4> QED BY <1>1, <3>1, <3>2, <4>1 DEF DirectivesFound
    <3>3. CASE opening.seen = 1
      <4>1. opening'.seen = 3
        BY <2>1, <2>2, <3>3 DEF Guard!Describe, Guard!Directives, Guard!Unguarded
      <4> QED BY <4>1 DEF DirectivesFound
    <3>4. CASE opening.seen \notin {0, 1}
      <4>1. opening' = opening \/ opening'.seen = 3
        BY <2>1, <2>2, <3>4 DEF Guard!Describe, Guard!Directives, Guard!Unguarded
      <4>2. opening.seen = 2 => ifndef' = ifndef
        BY <1>1, <2>1, GuardsAreMacros DEF DirectivesFound, Guard!FirstIfndef, Guard!Unset
      <4> QED BY <1>1, <3>1, <3>4, <4>1, <4>2 DEF DirectivesFound
    <3> QED BY <3>2, <3>3, <3>4
  <2>3. CASE text.is = "define"
    <3>1. text.guard \in Guards /\ ifndef' = ifndef
      BY <2>1, <2>3, LineIsDescribed DEF Guard!FirstIfndef
    <3>2. CASE opening.seen = 1 /\ text.guard = opening.guard
      <4>1. define' = opening.guard /\ opening' = [opening EXCEPT !.seen = 2]
        <5>1. define' = opening.guard
          BY <1>1, <2>1, <2>3, <3>2 DEF DirectivesFound, Guard!FirstDefine
        <5>2. opening' = [opening EXCEPT !.seen = 2]
          BY <2>3, <2>6, <3>2
        <5> QED BY <5>1, <5>2
      <4>2. opening'.guard = opening.guard /\ opening'.nolint = opening.nolint /\ opening'.seen = 2
        BY <4>1
      <4> QED BY <1>1, <3>1, <3>2, <4>1, <4>2 DEF DirectivesFound
    <3>3. CASE ~(opening.seen = 1 /\ text.guard = opening.guard)
      <4>1. (opening' = opening /\ opening.seen \notin {0, 1}) \/ opening'.seen = 3
        BY <2>1, <2>3, <3>3 DEF Guard!Describe, Guard!Directives, Guard!Unguarded
      <4>2. opening.seen = 2 => define' = define
        BY <1>1, <2>1, GuardsAreMacros DEF DirectivesFound, Guard!FirstDefine
      <4> QED BY <1>1, <3>1, <4>1, <4>2 DEF DirectivesFound
    <3> QED BY <3>2, <3>3
  <2>4. CASE text.is \notin {"ifndef", "define"}
    <3>1. ifndef' = ifndef /\ define' = define
      BY <2>1, <2>4 DEF Guard!FirstIfndef, Guard!FirstDefine
    <3>2. opening' = opening \/ opening'.seen = 3
      BY <2>1, <2>4 DEF Guard!Describe, Guard!Directives, Guard!Unguarded
    <3> QED BY <1>1, <3>1, <3>2 DEF DirectivesFound
  <2> QED BY <2>2, <2>3, <2>4
<1>4. EndFound'
  <2>1. endif' = Guard!LastEndif(text) /\ Guard!Describe(text)
    BY DEF Guard!ReadLine
  <2>2. CASE text.is = "endif" /\ text.comment = "//"
    BY <2>1, <2>2 DEF EndFound, Guard!LastEndif, Guard!Unset, Guard!Describe, Guard!Directives
  <2>3. CASE text.is \in Guard!Directives /\ ~(text.is = "endif" /\ text.comment = "//")
    BY <2>1, <2>3 DEF EndFound, Guard!Describe
  <2>4. CASE text.is \notin Guard!Directives
    <3>1. last' = last /\ endif' = endif
      BY <2>1, <2>4 DEF Guard!Describe, Guard!LastEndif, Guard!Directives
    <3> QED BY <1>1, <3>1 DEF EndFound
  <2> QED BY <2>2, <2>3, <2>4
<1> QED BY <1>1, <1>2, <1>3, <1>4 DEF GuardInv, Guard!HouseStylePasses, Guard!WrongGuardIsReported,
       Guard!Accepted

(* What has been found is judged by the house style.                          *)
LEMMA JudgeInv == ASSUME GuardInv, Guard!Judge PROVE GuardInv'
<1>1. /\ VariablesFound /\ DirectivesFound /\ EndFound /\ guardPhase' \in {"done", "exception"}
      /\ UNCHANGED <<exempt, possible, ifndef, define, endif, slashes, opening, last, spaces, habits>>
  BY DEF GuardInv, Guard!Judge, Guard!codeVars, Guard!headerVars
<1> DEFINE wanted == IF spaces = {} THEN {NoSpace} ELSE spaces
           variables == Guard!Variables
<1>2. habits = {} => Guard!ToSet(variables) = GuardsOf(wanted)
  <2> SUFFICES ASSUME habits = {} PROVE Guard!ToSet(variables) = GuardsOf(wanted)
    OBVIOUS
  <2>1. CASE spaces = {}
    <3>1. possible = <<>>
      BY <1>1, <2>1 DEF VariablesFound, GuardsOf, Guard!ToSet
    <3>2. Guard!ToSet(<<Guard!GuardOf(NoSpace)>>) = {Guard!GuardOf(NoSpace)}
      BY DEF Guard!ToSet
    <3> QED BY <2>1, <3>1, <3>2 DEF GuardsOf, Guard!Variables
  <2>2. CASE spaces # {}
    BY <1>1, <2>2 DEF VariablesFound, Guard!Variables
  <2> QED BY <2>1, <2>2
<1>3. Guard!ToSet(variables) \subseteq GuardsOf(wanted) \cup Odd
  <2>1. CASE possible = <<>>
    <3>1. spaces = {}
      BY <1>1, <2>1 DEF VariablesFound
    <3>2. Guard!ToSet(<<Guard!GuardOf(NoSpace)>>) = {Guard!GuardOf(NoSpace)}
      BY DEF Guard!ToSet
    <3> QED BY <2>1, <3>1, <3>2 DEF GuardsOf, Guard!Variables
  <2>2. CASE possible # <<>>
    <3>1. GuardsOf(spaces) \subseteq GuardsOf(wanted)
      BY DEF GuardsOf
    <3> QED BY <1>1, <2>2, <3>1 DEF VariablesFound, Guard!Variables
  <2> QED BY <2>1, <2>2
<1>4. variables \in Seq(Guard!ToSet(variables))
  <2>1. possible \in Seq(GuardsOf(Spaces) \cup Odd)
    BY <1>1 DEF VariablesFound
  <2>2. possible \in Seq(Guard!ToSet(possible))
    BY <2>1 DEF Guard!ToSet
  <2>3. <<Guard!GuardOf(NoSpace)>> \in Seq(Guard!ToSet(<<Guard!GuardOf(NoSpace)>>))
    BY DEF Guard!ToSet
  <2> QED BY <2>2, <2>3 DEF Guard!Variables
<1> HIDE DEF variables
<1>5. Guard!HouseStylePasses'
  <2> SUFFICES ASSUME habits = {}, NEW space \in wanted, Guard!GuardedBy(Guard!GuardOf(space))
               PROVE  guardPhase' = "done" /\ guardErrors' = {}
    BY <1>1 DEF Guard!HouseStylePasses, Guard!GuardedBy, Guard!Accepted
  <2> DEFINE guard == Guard!GuardOf(space)
  <2>1. /\ ifndef.guard = guard /\ define = guard /\ guard \in Guards
        /\ guard # Guard!None /\ endif.guard = guard /\ endif.comment = "//"
    BY <1>1, GuardsAreMacros DEF DirectivesFound, EndFound, Guard!GuardedBy
  <2>2. ~Guard!GuardMissing
    BY <2>1 DEF Guard!GuardMissing, Guard!Unset
  <2>3. \A i \in 1 .. Len(variables) : variables[i] # Guard!Unreadable
    <3>1. \A i \in 1 .. Len(variables) : variables[i] \in GuardsOf(wanted)
      BY <1>2, <1>4
    <3>2. \A s : Guard!GuardOf(s).end = "_" /\ Guard!Unreadable.end = "("
      BY DEF Guard!GuardOf, Guard!Unreadable
    <3>3. Guard!Unreadable \notin GuardsOf(wanted)
      BY <3>2 DEF GuardsOf
    <3> QED BY <3>1, <3>3
  <2>4. ~Guard!TriesUnreadable
    BY <2>3 DEF Guard!TriesUnreadable, variables
  <2>5. guard \in Guard!ToSet(variables)
    BY <1>2 DEF GuardsOf
  <2>6. Guard!RightGuard
    BY <2>1, <2>5 DEF Guard!RightGuard, variables
  <2>7. Guard!EndifAccepted
    <3>1. PICK i \in 1 .. Len(variables) : variables[i] = guard
      BY <1>4, <2>5 DEF Guard!ToSet
    <3>2. guard.space = space /\ guard.end = "_"
      BY DEF Guard!GuardOf
    <3>3. Guard!Names(variables[i])
      BY <2>1, <3>1, <3>2 DEF Guard!Names
    <3> QED BY <2>1, <3>3 DEF Guard!EndifAccepted, variables
  <2> QED BY <2>2, <2>4, <2>6, <2>7 DEF Guard!Judge
<1>6. Guard!WrongGuardIsReported'
  <2> SUFFICES ASSUME guardErrors' = {}, ~exempt, opening.seen = 2, ~opening.nolint
               PROVE  opening.guard \in GuardsOf(wanted)
    BY <1>1 DEF Guard!WrongGuardIsReported, Guard!Accepted, GuardsOf
  <2>1. opening.guard \in Guards /\ ifndef.guard = opening.guard /\ ~ifndef.nolint
    BY <1>1 DEF DirectivesFound
  <2>2. Guard!RightGuard
    BY <2>1 DEF Guard!Judge
  <2>3. opening.guard \in Guard!ToSet(variables)
    BY <2>1, <2>2 DEF Guard!RightGuard, variables
  <2> QED BY <1>3, <2>1, <2>3, GuardsAreMacros
<1> QED BY <1>1, <1>5, <1>6 DEF GuardInv

(* Every step of checking a header guard keeps the invariant.                 *)
LEMMA GuardStepInv == ASSUME GuardInv, [Guard!Next]_guardVars PROVE GuardInv'
<1>1. CASE \E text \in Guard!Lines : Guard!ReadLine(text)
  BY <1>1, ReadLineInv
<1>2. CASE Guard!Judge
  BY <1>2, JudgeInv
<1>3. CASE UNCHANGED guardVars
  BY <1>3 DEF guardVars, GuardInv, VariablesFound, DirectivesFound, EndFound, Guard!HouseStylePasses,
     Guard!WrongGuardIsReported, Guard!Accepted, Guard!GuardedBy, GuardsOf, Guard!ToSet
<1> QED BY <1>1, <1>2, <1>3 DEF Guard!Next

-------------------------------------------------------------------------------
(* ProcessFile and ProcessConfigOverrides                                     *)

(* The entries of the configurations of this file that have been read.        *)
HasRead(at) == at[1] < level \/ (at[1] = level /\ at[2] < line)
ReadFiltering(category) == {at \in Lint!Filtering(Lint!file, category) : HasRead(at)}

Uncovered(groups, category) == \A n \in DOMAIN groups : ~Lint!Covers(groups[n], category)

(* Of the filters collected, those of one line come first for a category.     *)
Leads(fs, groups, category) ==
  \E n \in DOMAIN groups :
    groups[n] = fs /\ \A m \in 1 .. n - 1 : ~Lint!Covers(groups[m], category)

FiltersOf(at) == Lint!EntryAt(Lint!file, at).filters

(* While the configurations are read: the filters collected stand in the      *)
(* order of the lines they are from.                                          *)
Collected ==
  \A category \in LintCategories :
    /\ ReadFiltering(category) = {} => Uncovered(cfgFilters, category)
    /\ \A at \in ReadFiltering(category) :
         Lint!Nearest(at, ReadFiltering(category)) => Leads(FiltersOf(at), cfgFilters, category)

(* When they have been read: the nearest line decides, be it by the filters   *)
(* that have been added or because no nearer ones are still to be added.      *)
Decided ==
  \A category \in LintCategories :
    LET ats == Lint!Filtering(Lint!file, category)
    IN  /\ ats = {} =>
             /\ Uncovered(cfgFilters, category)
             /\ Lint!IsFiltered(filters, category) = Lint!IsFiltered(CommandFilters, category)
        /\ \A at \in ats : Lint!Nearest(at, ats) =>
             \/ Leads(FiltersOf(at), cfgFilters, category)
             \/ /\ Uncovered(cfgFilters, category)
                /\ Lint!IsFiltered(filters, category) = Lint!IsFiltered(FiltersOf(at), category)

(* None of a set of entries excludes the file.                                *)
NoneExcludes(ats) ==
  \A at \in ats : Lint!EntryAt(Lint!file, at).name = "exclude_files" =>
    (IF at[1] = 1 THEN Lint!file ELSE Path[Lint!file][at[1] - 1])
      \notin Lint!EntryAt(Lint!file, at).excludes

(* The configurations that concern a file are read, and no others.            *)
ReadingConfigs ==
  /\ level \in 1 .. Len(Path[Lint!file]) /\ line \in 1 .. Len(Lint!Entries(Lint!file, level)) + 1
  /\ \A j \in 1 .. level - 1 : ~Lint!Stops(Path[Lint!file][j])
  /\ ~keepLooking <=>
       \E k \in 1 .. line - 1 : Lint!Entries(Lint!file, level)[k].name = "set noparent"
  /\ NoneExcludes({at \in Lint!Places(Lint!file) : HasRead(at)})

LintTypes ==
  /\ index \in 1 .. Len(LintFiles) + 1 /\ line \in Nat \ {0} /\ keepLooking \in BOOLEAN
  /\ runPhase \in {"start", "config", "filters", "open", "lint", "end"}
  /\ runPhase # "start" => index <= Len(LintFiles)
  /\ configs \in [LintDirs -> ConfigChoices]
  /\ cfgFilters \in Seq(Seq(Lint!Filter)) /\ filters \in Seq(Lint!Filter)
  /\ filtersBackup = CommandFilters
  /\ errorCount \in Nat /\ junitErrors \in Nat
  /\ junitFailures \in Seq([file : Lint!FileSet, category : LintCategories])
  /\ runExit.status \in {"running", "success", "failure", "crashed"}

LintInv ==
  /\ LintTypes
  /\ runPhase \in {"start", "config", "end"} => filters = CommandFilters
  /\ runPhase = "config" => ReadingConfigs /\ Collected
  /\ runPhase \in {"filters", "open", "lint"} =>
       Decided /\ NoneExcludes(Lint!Places(Lint!file))
  /\ runPhase \in {"open", "lint"} => cfgFilters = <<>>
  /\ errorCount = Len(junitFailures) /\ Lint!ReportAgrees

(* What is assumed of the files and their configurations.                     *)
LEMMA LintAssumption == Lint!FilesAssumption
BY InstancesAssumption

(* The file that is processed has directories and errors.                     *)
LEMMA FileIsTyped ==
  ASSUME LintTypes, index <= Len(LintFiles)
  PROVE  /\ Lint!file \in Lint!FileSet
         /\ Path[Lint!file] \in Seq(LintDirs) /\ Path[Lint!file] # <<>>
         /\ Found[Lint!file] \in Seq([category : LintCategories, confidence : 1 .. 5])
<1>1. Lint!file \in Lint!FileSet
  BY LintAssumption DEF LintTypes, Lint!FilesAssumption, Lint!file
<1> QED BY <1>1, LintAssumption DEF Lint!FilesAssumption

(* The configuration of a directory has entries, none if it is unreadable.    *)
LEMMA EntriesAreTyped ==
  ASSUME LintTypes, index <= Len(LintFiles), NEW i \in DOMAIN Path[Lint!file]
  PROVE  /\ Lint!Entries(Lint!file, i) \in Seq(Lint!Entry)
         /\ ~configs[Path[Lint!file][i]].readable => Lint!Entries(Lint!file, i) = <<>>
<1>1. Path[Lint!file][i] \in LintDirs
  BY FileIsTyped
<1>2. configs[Path[Lint!file][i]] \in ConfigChoices
  BY <1>1 DEF LintTypes
<1>3. /\ ConfigChoices \subseteq [readable : BOOLEAN, entries : Seq(Lint!Entry)]
      /\ \A config \in ConfigChoices : ~config.readable => config = Lint!Unreadable
  BY LintAssumption DEF Lint!FilesAssumption
<1> QED BY <1>2, <1>3 DEF Lint!Entries, Lint!Unreadable

(* A place is a directory that concerns the file and an entry there.          *)
LEMMA PlacesAre ==
  ASSUME LintTypes, index <= Len(LintFiles)
  PROVE  /\ \A i \in Lint!Concerning(Lint!file) :
              \A k \in DOMAIN Lint!Entries(Lint!file, i) : <<i, k>> \in Lint!Places(Lint!file)
         /\ \A at \in Lint!Places(Lint!file) :
              /\ at = <<at[1], at[2]>> /\ at[1] \in Nat \ {0} /\ at[2] \in Nat \ {0}
              /\ at[1] \in Lint!Concerning(Lint!file)
              /\ at[2] <= Len(Lint!Entries(Lint!file, at[1]))
<1>1. ASSUME NEW i \in Lint!Concerning(Lint!file), NEW k \in DOMAIN Lint!Entries(Lint!file, i)
      PROVE  <<i, k>> \in Lint!Places(Lint!file)
  BY <1>1 DEF Lint!Places
<1>2. ASSUME NEW at \in Lint!Places(Lint!file)
      PROVE  /\ at = <<at[1], at[2]>> /\ at[1] \in Nat \ {0} /\ at[2] \in Nat \ {0}
             /\ at[1] \in Lint!Concerning(Lint!file)
             /\ at[2] <= Len(Lint!Entries(Lint!file, at[1]))
  <2>1. PICK i \in Lint!Concerning(Lint!file) : at \in {i} \X DOMAIN Lint!Entries(Lint!file, i)
    BY <1>2 DEF Lint!Places
  <2>2. PICK k \in DOMAIN Lint!Entries(Lint!file, i) : at = <<i, k>>
    BY <2>1
  <2>3. i \in DOMAIN Path[Lint!file] /\ i \in Nat \ {0}
    BY FileIsTyped DEF Lint!Concerning
  <2>4. Lint!Entries(Lint!file, i) \in Seq(Lint!Entry)
    BY <2>3, EntriesAreTyped
  <2>5. k \in Nat \ {0} /\ k <= Len(Lint!Entries(Lint!file, i))
    BY <2>4
  <2> QED BY <2>2, <2>3, <2>5
<1> QED BY <1>1, <1>2

(* What is said of the file stays so while it is the same one.                *)
LEMMA SameFile ==
  ASSUME UNCHANGED <<configs, index>>
  PROVE  /\ Lint!file' = Lint!file
         /\ \A i : Lint!Entries(Lint!file, i)' = Lint!Entries(Lint!file, i)
         /\ \A d : Lint!Stops(d)' = Lint!Stops(d)
         /\ Lint!Places(Lint!file)' = Lint!Places(Lint!file)
         /\ \A at : FiltersOf(at)' = FiltersOf(at)
         /\ \A category : Lint!Filtering(Lint!file, category)' = Lint!Filtering(Lint!file, category)
         /\ \A ats : NoneExcludes(ats)' = NoneExcludes(ats)
<1>1. /\ Lint!file' = Lint!file
      /\ \A i : Lint!Entries(Lint!file, i)' = Lint!Entries(Lint!file, i)
      /\ \A d : Lint!Stops(d)' = Lint!Stops(d)
  BY DEF Lint!file, Lint!Entries, Lint!Stops
<1>2. Lint!Concerning(Lint!file)' = Lint!Concerning(Lint!file)
  BY <1>1 DEF Lint!Concerning
<1>3. Lint!Places(Lint!file)' = Lint!Places(Lint!file)
  BY <1>1, <1>2 DEF Lint!Places
<1>4. \A at : Lint!EntryAt(Lint!file, at)' = Lint!EntryAt(Lint!file, at)
  BY <1>1 DEF Lint!EntryAt
<1>5. \A category : Lint!Filtering(Lint!file, category)' = Lint!Filtering(Lint!file, category)
  BY <1>3, <1>4 DEF Lint!Filtering
<1> QED BY <1>1, <1>3, <1>4, <1>5 DEF FiltersOf, NoneExcludes

-------------------------------------------------------------------------------
(* The last filter that covers a category decides, so that of two lists one   *)
(* after the other the second does if it covers it.                           *)
LEMMA LaterDecides ==
  ASSUME NEW F \in Seq(Lint!Filter), NEW G \in Seq(Lint!Filter), NEW category
  PROVE  Lint!IsFiltered(F \o G, category) =
           (IF Lint!Covers(G, category) THEN Lint!IsFiltered(G, category)
            ELSE Lint!IsFiltered(F, category))
<1> DEFINE FG == F \o G
           m == Len(F)
           n == Len(G)
<1>1. /\ m \in Nat /\ n \in Nat /\ DOMAIN F = 1 .. m /\ DOMAIN G = 1 .. n /\ DOMAIN FG = 1 .. m + n
      /\ \A i \in 1 .. m : FG[i] = F[i]
      /\ \A i \in 1 .. n : FG[m + i] = G[i]
  OBVIOUS
<1> HIDE DEF FG, m, n
<1>2. \A i \in DOMAIN FG : i \in 1 .. m \/ \E k \in 1 .. n : i = m + k
  <2> TAKE i \in DOMAIN FG
  <2>1. i \in 1 .. m + n
    BY <1>1
  <2>2. i \in 1 .. m \/ (i - m \in 1 .. n /\ i = m + (i - m))
    BY <1>1, <2>1
  <2> QED BY <2>2
<1>3. ASSUME ~Lint!Covers(G, category)
      PROVE  Lint!IsFiltered(FG, category) <=> Lint!IsFiltered(F, category)
  <2>1. \A i \in 1 .. n : category \notin G[i].covers
    BY <1>1, <1>3 DEF Lint!Covers
  <2>2. ASSUME Lint!IsFiltered(FG, category) PROVE Lint!IsFiltered(F, category)
    <3>1. PICK i \in DOMAIN FG :
            /\ category \in FG[i].covers /\ ~FG[i].plus
            /\ \A j \in DOMAIN FG : j > i => category \notin FG[j].covers
      BY <2>2 DEF Lint!IsFiltered
    <3>2. i \in 1 .. m
      BY <1>1, <1>2, <2>1, <3>1
    <3>3. \A j \in 1 .. m : j \in DOMAIN FG
      BY <1>1
    <3> QED BY <1>1, <3>1, <3>2, <3>3 DEF Lint!IsFiltered
  <2>3. ASSUME Lint!IsFiltered(F, category) PROVE Lint!IsFiltered(FG, category)
    <3>1. PICK i \in 1 .. m :
            /\ category \in F[i].covers /\ ~F[i].plus
            /\ \A j \in 1 .. m : j > i => category \notin F[j].covers
      BY <1>1, <2>3 DEF Lint!IsFiltered
    <3>2. \A j \in DOMAIN FG : j > i => category \notin FG[j].covers
      BY <1>1, <1>2, <2>1, <3>1
    <3>3. i \in DOMAIN FG
      BY <1>1
    <3> QED BY <1>1, <3>1, <3>2, <3>3 DEF Lint!IsFiltered
  <2> QED BY <2>2, <2>3
<1>4. ASSUME Lint!Covers(G, category)
      PROVE  Lint!IsFiltered(FG, category) <=> Lint!IsFiltered(G, category)
  <2>1. PICK last1 \in 1 .. n : category \in G[last1].covers
    BY <1>1, <1>4 DEF Lint!Covers
  <2>2. m + last1 \in DOMAIN FG /\ category \in FG[m + last1].covers
    BY <1>1, <2>1
  <2>3. ASSUME Lint!IsFiltered(FG, category) PROVE Lint!IsFiltered(G, category)
    <3>1. PICK i \in DOMAIN FG :
            /\ category \in FG[i].covers /\ ~FG[i].plus
            /\ \A j \in DOMAIN FG : j > i => category \notin FG[j].covers
      BY <2>3 DEF Lint!IsFiltered
    <3>2. i \notin 1 .. m
      <4>1. i \in 1 .. m => m + last1 > i
        BY <1>1
      <4> QED BY <2>2, <3>1, <4>1
    <3>3. PICK k \in 1 .. n : i = m + k
      BY <1>2, <3>2
    <3>4. \A j \in 1 .. n : j > k => category \notin G[j].covers
      <4> TAKE j \in 1 .. n
      <4>1. m + j \in DOMAIN FG /\ (j > k => m + j > i)
        BY <1>1, <3>3
      <4> QED BY <1>1, <3>1, <4>1
    <3> QED BY <1>1, <3>1, <3>3, <3>4 DEF Lint!IsFiltered
  <2>4. ASSUME Lint!IsFiltered(G, category) PROVE Lint!IsFiltered(FG, category)
    <3>1. PICK k \in 1 .. n :
            /\ category \in G[k].covers /\ ~G[k].plus
            /\ \A j \in 1 .. n : j > k => category \notin G[j].covers
      BY <1>1, <2>4 DEF Lint!IsFiltered
    <3>2. m + k \in DOMAIN FG /\ FG[m + k] = G[k]
      BY <1>1
    <3>3. \A j \in DOMAIN FG : j > m + k => category \notin FG[j].covers
      <4> TAKE j \in DOMAIN FG
      <4> HAVE j > m + k
      <4>3. j \notin 1 .. m
        BY <1>1
      <4>1. PICK l \in 1 .. n : j = m + l
        BY <1>2, <4>3
      <4>2. l > k
        BY <1>1, <4>1
      <4> QED BY <1>1, <3>1, <4>1, <4>2
    <3> QED BY <3>1, <3>2, <3>3 DEF Lint!IsFiltered
  <2> QED BY <2>3, <2>4
<1>5. \A fs : Lint!IsFiltered(fs, category) \in BOOLEAN
  BY DEF Lint!IsFiltered
<1> QED BY <1>3, <1>4, <1>5 DEF FG

(* _AddFilters is given the groups from the last to the first.                *)
LEMMA RemoveLast ==
  ASSUME NEW S, NEW s \in Seq(S), s # <<>>
  PROVE  /\ Lint!RemoveAt(s, Len(s)) \in Seq(S)
         /\ DOMAIN Lint!RemoveAt(s, Len(s)) = 1 .. Len(s) - 1
         /\ \A i \in 1 .. Len(s) - 1 : Lint!RemoveAt(s, Len(s))[i] = s[i]
         /\ Len(s) \in DOMAIN s
<1> DEFINE front == SubSeq(s, 1, Len(s) - 1)
<1>1. Len(s) \in Nat \ {0} /\ DOMAIN s = 1 .. Len(s)
  OBVIOUS
<1>2. SubSeq(s, Len(s) + 1, Len(s)) = <<>>
  BY <1>1, SubSeqEmpty
<1>3. /\ front \in Seq(S) /\ Len(front) = Len(s) - 1
      /\ \A i \in 1 .. Len(s) - 1 : front[i] = s[i]
  <2>1. \A i \in 1 .. Len(s) - 1 : s[i] \in S
    BY <1>1
  <2>2. 1 \in Int /\ Len(s) - 1 \in Int
    BY <1>1
  <2> QED BY <1>1, <2>1, <2>2, SubSeqProperties
<1>4. Lint!RemoveAt(s, Len(s)) = front
  <2>1. Lint!RemoveAt(s, Len(s)) = front \o <<>>
    BY <1>2 DEF Lint!RemoveAt
  <2> QED BY <1>3, <2>1, ConcatEmptySeq
<1> QED BY <1>1, <1>3, <1>4

Here == <<level, line>>

ReadPlaces == {at \in Lint!Places(Lint!file) : HasRead(at)}

(* The entry at hand is the next place to be read, after all those that have  *)
(* been.                                                                      *)
LEMMA EntryRead ==
  ASSUME LintTypes, ReadingConfigs, index <= Len(LintFiles), Lint!AtEntry,
         line' = line + 1, UNCHANGED <<configs, index, level>>
  PROVE  /\ Here \in Lint!Places(Lint!file) /\ Lint!EntryAt(Lint!file, Here) = Lint!entry
         /\ Lint!entry \in Lint!Entry
         /\ \A at \in Lint!Places(Lint!file) : HasRead(at)' <=> HasRead(at) \/ at = Here
         /\ \A at \in Lint!Places(Lint!file) : HasRead(at) => Lint!Nearer(at, Here) /\ at # Here
         /\ line' \in 1 .. Len(Lint!Entries(Lint!file, level)) + 1 /\ line' \in Nat \ {0}
<1>1. /\ level \in 1 .. Len(Path[Lint!file]) /\ level \in DOMAIN Path[Lint!file] /\ level \in Nat
      /\ \A j \in 1 .. level - 1 : ~Lint!Stops(Path[Lint!file][j])
  <2>1. level \in 1 .. Len(Path[Lint!file]) /\ \A j \in 1 .. level - 1 : ~Lint!Stops(Path[Lint!file][j])
    BY DEF ReadingConfigs
  <2>2. Path[Lint!file] \in Seq(LintDirs)
    BY FileIsTyped
  <2> QED BY <2>1, <2>2
<1>2. Lint!Entries(Lint!file, level) \in Seq(Lint!Entry)
  BY <1>1, EntriesAreTyped
<1>3. line \in DOMAIN Lint!Entries(Lint!file, level) /\ line \in Nat \ {0}
  <2>1. line \in Nat \ {0}
    BY DEF LintTypes
  <2>2. line <= Len(Lint!Entries(Lint!file, level))
    BY DEF Lint!AtEntry, Lint!Entries
  <2> QED BY <1>2, <2>1, <2>2
<1>4. level \in Lint!Concerning(Lint!file)
  BY <1>1 DEF Lint!Concerning
<1>5. Here \in Lint!Places(Lint!file)
  BY <1>3, <1>4, PlacesAre DEF Here
<1>6. Lint!EntryAt(Lint!file, Here) = Lint!entry /\ Lint!entry = Lint!Entries(Lint!file, level)[line]
  BY DEF Lint!EntryAt, Here, Lint!Entries, Lint!entry
<1>7. Lint!entry \in Lint!Entry
  BY <1>2, <1>3, <1>6
<1>8. ASSUME NEW at \in Lint!Places(Lint!file)
      PROVE  /\ HasRead(at)' <=> HasRead(at) \/ at = Here
             /\ HasRead(at) => Lint!Nearer(at, Here) /\ at # Here
  <2>1. at = <<at[1], at[2]>> /\ at[1] \in Nat /\ at[2] \in Nat
    BY PlacesAre
  <2>2. at = Here <=> at[1] = level /\ at[2] = line
    BY <2>1 DEF Here
  <2>3. Here[1] = level /\ Here[2] = line
    BY DEF Here
  <2>4. HasRead(at)' <=> at[1] < level \/ (at[1] = level /\ at[2] < line + 1)
    BY DEF HasRead
  <2> QED BY <1>1, <1>3, <2>1, <2>2, <2>3, <2>4 DEF HasRead, Lint!Nearer
<1>9. line' \in 1 .. Len(Lint!Entries(Lint!file, level)) + 1 /\ line' \in Nat \ {0}
  BY <1>2, <1>3
<1> QED BY <1>5, <1>6, <1>7, <1>8, <1>9

(* The filters collected are in the order of their lines.                     *)
LEMMA CollectedInOrder ==
  ASSUME LintTypes, ReadingConfigs, index <= Len(LintFiles), Lint!AtEntry, Collected,
         line' = line + 1, UNCHANGED <<configs, index, level>>,
         cfgFilters' = IF Lint!entry.name = "filter" THEN Append(cfgFilters, Lint!entry.filters)
                       ELSE cfgFilters
  PROVE  Collected' /\ cfgFilters' \in Seq(Seq(Lint!Filter))
<1>1. cfgFilters \in Seq(Seq(Lint!Filter)) /\ Lint!entry.filters \in Seq(Lint!Filter)
  BY EntryRead DEF LintTypes, Lint!Entry
<1>2. cfgFilters' \in Seq(Seq(Lint!Filter))
  BY <1>1
<1>3. FiltersOf(Here) = Lint!entry.filters
  BY EntryRead DEF FiltersOf
<1>4. ASSUME NEW category \in LintCategories
      PROVE  /\ ReadFiltering(category)' = {} => Uncovered(cfgFilters, category)'
             /\ \A at \in ReadFiltering(category)' :
                  Lint!Nearest(at, ReadFiltering(category)') => Leads(FiltersOf(at), cfgFilters, category)'
  <2> DEFINE read == ReadFiltering(category)
             covering == Lint!entry.name = "filter" /\ Lint!Covers(Lint!entry.filters, category)
  <2>1. ReadFiltering(category)' = IF covering THEN read \cup {Here} ELSE read
    <3>1. ReadFiltering(category)' = {at \in Lint!Filtering(Lint!file, category) : HasRead(at)'}
      BY SameFile DEF ReadFiltering
    <3>2. Here \in Lint!Filtering(Lint!file, category) <=> covering
      BY EntryRead DEF Lint!Filtering
    <3>3. \A at \in Lint!Filtering(Lint!file, category) : HasRead(at)' <=> HasRead(at) \/ at = Here
      BY EntryRead DEF Lint!Filtering
    <3> QED BY <3>1, <3>2, <3>3 DEF ReadFiltering
  <2>2. \A at : FiltersOf(at)' = FiltersOf(at)
    BY SameFile
  <2>3. /\ read = {} => Uncovered(cfgFilters, category)
        /\ \A at \in read : Lint!Nearest(at, read) => Leads(FiltersOf(at), cfgFilters, category)
    BY DEF Collected
  <2>4. \A at \in read : Lint!Nearer(at, Here) /\ at # Here
    BY EntryRead DEF ReadFiltering, Lint!Filtering
  <2>5. CASE Lint!entry.name # "filter"
    <3>1. cfgFilters' = cfgFilters /\ ReadFiltering(category)' = read
      BY <2>1, <2>5
    <3> HIDE DEF read, covering
    <3> QED BY <2>2, <2>3, <3>1 DEF Uncovered, Leads
  <2>6. CASE Lint!entry.name = "filter"
    <3>1. /\ Len(cfgFilters) \in Nat /\ DOMAIN cfgFilters = 1 .. Len(cfgFilters)
          /\ DOMAIN cfgFilters' = 1 .. Len(cfgFilters) + 1
          /\ \A n \in DOMAIN cfgFilters : cfgFilters'[n] = cfgFilters[n]
          /\ cfgFilters'[Len(cfgFilters) + 1] = Lint!entry.filters
      BY <1>1, <2>6
    <3> HIDE DEF read
    <3>2. \A fs : Leads(fs, cfgFilters, category) => Leads(fs, cfgFilters', category)
      <4> TAKE fs
      <4> HAVE Leads(fs, cfgFilters, category)
      <4>1. PICK n \in DOMAIN cfgFilters :
              cfgFilters[n] = fs /\ \A m \in 1 .. n - 1 : ~Lint!Covers(cfgFilters[m], category)
        BY DEF Leads
      <4>2. n \in DOMAIN cfgFilters' /\ cfgFilters'[n] = fs
        BY <3>1, <4>1
      <4>3. \A m \in 1 .. n - 1 : m \in DOMAIN cfgFilters
        BY <3>1
      <4> QED BY <3>1, <4>1, <4>2, <4>3 DEF Leads
    <3>3. Uncovered(cfgFilters, category) =>
            /\ ~covering => Uncovered(cfgFilters', category)
            /\ Leads(Lint!entry.filters, cfgFilters', category)
      <4> SUFFICES ASSUME Uncovered(cfgFilters, category)
                   PROVE  /\ ~covering => Uncovered(cfgFilters', category)
                          /\ Leads(Lint!entry.filters, cfgFilters', category)
        OBVIOUS
      <4>1. \A n \in 1 .. Len(cfgFilters) : ~Lint!Covers(cfgFilters'[n], category)
        BY <3>1 DEF Uncovered
      <4>2. ~covering => Uncovered(cfgFilters', category)
        BY <2>6, <3>1, <4>1 DEF Uncovered
      <4>3. Len(cfgFilters) + 1 \in DOMAIN cfgFilters' /\ (Len(cfgFilters) + 1) - 1 = Len(cfgFilters)
        BY <3>1
      <4> QED BY <3>1, <4>1, <4>2, <4>3 DEF Leads
    <3>4. CASE covering
      <4>1. ReadFiltering(category)' = read \cup {Here}
        BY <2>1, <3>4
      <4>2. ASSUME NEW at \in read \cup {Here}, Lint!Nearest(at, read \cup {Here})
            PROVE  Leads(FiltersOf(at), cfgFilters', category)
        <5>1. CASE at = Here
          <6>1. read = {}
            BY <2>4, <4>2, <5>1 DEF Lint!Nearest
          <6> QED BY <1>3, <2>3, <3>3, <5>1, <6>1
        <5>2. CASE at \in read
          <6>1. Lint!Nearest(at, read)
            BY <4>2, <5>2 DEF Lint!Nearest
          <6> QED BY <2>3, <3>2, <5>2, <6>1
        <5> QED BY <4>2, <5>1, <5>2
      <4>3. ReadFiltering(category)' # {}
        BY <4>1
      <4> HIDE DEF covering
      <4>4. \A fs : Leads(fs, cfgFilters, category)' <=> Leads(fs, cfgFilters', category)
        BY DEF Leads
      <4> QED BY <2>2, <4>1, <4>2, <4>3, <4>4
    <3>5. CASE ~covering
      <4>1. ReadFiltering(category)' = read
        BY <2>1, <3>5
      <4>4. /\ \A fs : Leads(fs, cfgFilters, category)' <=> Leads(fs, cfgFilters', category)
            /\ Uncovered(cfgFilters, category)' <=> Uncovered(cfgFilters', category)
        BY DEF Leads, Uncovered
      <4> HIDE DEF covering
      <4> QED BY <2>2, <2>3, <3>2, <3>3, <3>5, <4>1, <4>4
    <3> QED BY <3>4, <3>5
  <2> QED BY <2>5, <2>6
<1> QED BY <1>2, <1>4 DEF Collected

(* A run that has not ended has no report.                                    *)
LEMMA NoReportYet ==
  ASSUME runExit'.status \notin {"success", "failure"} PROVE Lint!ReportAgrees'
BY DEF Lint!ReportAgrees

(* The lines above the next one.                                              *)
LEMMA OneMoreLine ==
  ASSUME NEW n \in Nat \ {0}
  PROVE  1 .. (n + 1) - 1 = (1 .. n - 1) \cup {n}
OBVIOUS

(* An entry has been read, of whatever kind.                                  *)
LEMMA ReadingGoesOn ==
  ASSUME LintInv, Lint!AtEntry, line' = line + 1,
         keepLooking' = (keepLooking /\ Lint!entry.name # "set noparent"),
         cfgFilters' = (IF Lint!entry.name = "filter" THEN Append(cfgFilters, Lint!entry.filters)
                        ELSE cfgFilters),
         Lint!entry.name = "exclude_files" => Lint!Component(Lint!file) \notin Lint!entry.excludes,
         junitErrors' \in Nat, runExit'.status \in {"running", "crashed"},
         UNCHANGED <<configs, index, runPhase, level, filters, filtersBackup, errorCount,
                     junitFailures>>
  PROVE  LintInv'
<1>1. /\ LintTypes /\ ReadingConfigs /\ Collected /\ filters = CommandFilters
      /\ runPhase = "config" /\ index <= Len(LintFiles) /\ runExit.status = "running"
      /\ errorCount = Len(junitFailures)
  BY DEF LintInv, Lint!AtEntry, Lint!Running
<1>2. Collected' /\ cfgFilters' \in Seq(Seq(Lint!Filter))
  BY <1>1, CollectedInOrder
<1>3. LintTypes'
  BY <1>1, <1>2, EntryRead DEF LintTypes
<1>4. ReadingConfigs'
  <2>1. /\ level' \in 1 .. Len(Path[Lint!file'])
        /\ line' \in 1 .. Len(Lint!Entries(Lint!file, level)') + 1
        /\ \A j \in 1 .. level' - 1 : ~Lint!Stops(Path[Lint!file][j])'
    BY <1>1, EntryRead, SameFile DEF ReadingConfigs
  <2>2. ~keepLooking' <=>
          \E k \in 1 .. line' - 1 : Lint!Entries(Lint!file, level)[k].name = "set noparent"
    <3>0. line \in Nat \ {0}
      BY <1>1 DEF LintTypes
    <3>1. 1 .. line' - 1 = (1 .. line - 1) \cup {line}
      BY <3>0, OneMoreLine
    <3>2. Lint!Entries(Lint!file, level)[line] = Lint!entry
      BY DEF Lint!Entries, Lint!entry
    <3> QED BY <1>1, <3>1, <3>2 DEF ReadingConfigs
  <2>3. NoneExcludes(ReadPlaces')
    <3>1. ReadPlaces' = ReadPlaces \cup {Here}
      <4>1. ReadPlaces' = {at \in Lint!Places(Lint!file) : HasRead(at)'}
        BY SameFile DEF ReadPlaces
      <4> QED BY <1>1, <4>1, EntryRead DEF ReadPlaces
    <3>2. NoneExcludes(ReadPlaces)
      BY <1>1 DEF ReadingConfigs, ReadPlaces
    <3>3. NoneExcludes({Here})
      <4>1. Here[1] = level
        BY DEF Here
      <4> QED BY <1>1, <4>1, EntryRead DEF NoneExcludes, Lint!Component
    <3> QED BY <3>1, <3>2, <3>3 DEF NoneExcludes
  <2>4. NoneExcludes({at \in Lint!Places(Lint!file) : HasRead(at)})'
    BY <2>3, SameFile DEF ReadPlaces, NoneExcludes
  <2> QED BY <2>1, <2>2, <2>4, SameFile DEF ReadingConfigs
<1> QED BY <1>1, <1>2, <1>3, <1>4, NoReportYet DEF LintInv

(* Nothing is decided otherwise while the filters stay the same.              *)
LEMMA DecidedStays ==
  ASSUME Decided, UNCHANGED <<configs, index, cfgFilters, filters>> PROVE Decided'
<1>1. /\ \A category : Lint!Filtering(Lint!file, category)' = Lint!Filtering(Lint!file, category)
      /\ \A at : FiltersOf(at)' = FiltersOf(at)
  BY SameFile
<1>2. \A fs, category : Leads(fs, cfgFilters', category) <=> Leads(fs, cfgFilters, category)
  OBVIOUS
<1> QED BY <1>1, <1>2 DEF Decided, Leads, Uncovered, Lint!IsFiltered

(* Before the first file the filters are those of the command line.           *)
LEMMA LintInitInv == Lint!Init => LintInv
<1> SUFFICES ASSUME Lint!Init PROVE LintInv
  OBVIOUS
<1>1. \A S : <<>> \in Seq(S) /\ Len(<<>>) = 0
  OBVIOUS
<1>2. CommandFilters \in Seq(Lint!Filter)
  BY LintAssumption DEF Lint!FilesAssumption
<1>3. 1 \in 1 .. Len(LintFiles) + 1
  BY LintAssumption DEF Lint!FilesAssumption
<1>4. LintTypes
  BY <1>1, <1>2, <1>3 DEF Lint!Init, LintTypes
<1> QED BY <1>1, <1>4 DEF Lint!Init, LintInv, Lint!ReportAgrees

(* A file begins with none of its configurations read.                        *)
LEMMA BeginInv == ASSUME LintInv, Lint!Begin PROVE LintInv'
<1>1. /\ LintTypes /\ filters = CommandFilters /\ index <= Len(LintFiles) /\ runExit.status = "running"
      /\ UNCHANGED <<configs, index, filters, errorCount, junitFailures, junitErrors, runExit>>
      /\ filtersBackup' = CommandFilters /\ runPhase' = "config" /\ level' = 1 /\ line' = 1
      /\ cfgFilters' = <<>> /\ keepLooking' = TRUE /\ errorCount = Len(junitFailures)
  BY DEF LintInv, Lint!Begin, Lint!Running, Lint!reportVars
<1>2. LintTypes'
  <2>1. <<>> \in Seq(Seq(Lint!Filter))
    OBVIOUS
  <2> QED BY <1>1, <2>1 DEF LintTypes
<1>3. \A at \in Lint!Places(Lint!file) : ~HasRead(at)'
  BY <1>1, PlacesAre DEF HasRead
<1>4. ReadingConfigs'
  <2>1. 1 \in 1 .. Len(Path[Lint!file])
    BY <1>1, FileIsTyped
  <2>2. 1 \in 1 .. Len(Lint!Entries(Lint!file, 1)) + 1
    <3>1. Lint!Entries(Lint!file, 1) \in Seq(Lint!Entry)
      BY <1>1, <2>1, FileIsTyped, EntriesAreTyped
    <3> QED BY <3>1
  <2>3. NoneExcludes({})
    BY DEF NoneExcludes
  <2>4. {at \in Lint!Places(Lint!file) : HasRead(at)}' = {}
    BY <1>1, <1>3, SameFile
  <2>5. NoneExcludes({at \in Lint!Places(Lint!file) : HasRead(at)})'
    BY <1>1, <2>3, <2>4, SameFile DEF NoneExcludes
  <2>6. /\ Lint!file' = Lint!file
        /\ Lint!Entries(Lint!file, level)' = Lint!Entries(Lint!file, 1)
    BY <1>1, SameFile DEF Lint!Entries
  <2>7. 1 .. level' - 1 = {} /\ 1 .. line' - 1 = {}
    BY <1>1
  <2> QED BY <1>1, <2>1, <2>2, <2>5, <2>6, <2>7 DEF ReadingConfigs
<1>5. Collected'
  <2>1. \A category : ReadFiltering(category)' = {}
    BY <1>1, <1>3, SameFile DEF ReadFiltering, Lint!Filtering
  <2>2. \A category : Uncovered(<<>>, category)
    BY DEF Uncovered
  <2> QED BY <1>1, <2>1, <2>2 DEF Collected, Uncovered
<1> QED BY <1>1, <1>2, <1>4, <1>5, NoReportYet DEF LintInv

(* What ends the processing of a file puts the filters back.                  *)
LEMMA RestoreInv ==
  ASSUME LintInv, Lint!Running, runPhase # "start", Lint!Restore, junitErrors' \in Nat,
         UNCHANGED <<configs, index, level, line, cfgFilters, keepLooking, filtersBackup, errorCount,
                     junitFailures, runExit>>
  PROVE  LintInv'
<1>1. LintTypes /\ runPhase' = "end" /\ filters' = CommandFilters /\ runExit'.status = "running"
  BY DEF LintInv, LintTypes, Lint!Restore, Lint!Running
<1>2. CommandFilters \in Seq(Lint!Filter)
  BY LintAssumption DEF Lint!FilesAssumption
<1>3. LintTypes'
  BY <1>1, <1>2 DEF LintTypes
<1> QED BY <1>1, <1>3, NoReportYet DEF LintInv

(* An entry is obeyed, whatever it is.                                        *)
LEMMA EntryInv ==
  ASSUME LintInv,
         Lint!NoParent \/ Lint!AddFilter \/ Lint!Exclude \/ (\E s \in Lint!Settings : Lint!Assign(s))
           \/ Lint!Misspelled
  PROVE  LintInv'
<1>1. /\ junitErrors \in Nat /\ keepLooking \in BOOLEAN
      /\ runExit' = runExit => runExit'.status \in {"running", "crashed"}
  <2>1. runExit.status = "running"
    BY DEF Lint!NoParent, Lint!AddFilter, Lint!Exclude, Lint!Assign, Lint!Misspelled, Lint!AtEntry,
           Lint!Running
  <2> QED BY <2>1 DEF LintInv, LintTypes
<1>2. CASE Lint!NoParent
  BY <1>1, <1>2, ReadingGoesOn DEF Lint!NoParent, Lint!reportVars
<1>3. CASE Lint!AddFilter
  BY <1>1, <1>3, ReadingGoesOn DEF Lint!AddFilter, Lint!reportVars
<1>4. CASE Lint!Exclude
  <2>1. CASE Lint!Component(Lint!file) \in Lint!entry.excludes /\ Lint!Restore /\ UNCHANGED line
    <3>1. Lint!Running /\ runPhase # "start"
      BY <1>4 DEF Lint!Exclude, Lint!AtEntry
    <3> QED BY <1>1, <1>4, <2>1, <3>1, RestoreInv DEF Lint!Exclude, Lint!reportVars
  <2>2. CASE /\ Lint!Component(Lint!file) \notin Lint!entry.excludes
             /\ line' = line + 1 /\ UNCHANGED <<runPhase, filters>>
    BY <1>1, <1>4, <2>2, ReadingGoesOn DEF Lint!Exclude, Lint!reportVars
  <2> QED BY <1>4, <2>1, <2>2 DEF Lint!Exclude
<1>5. CASE \E s \in Lint!Settings : Lint!Assign(s)
  <2>1. PICK s \in Lint!Settings : Lint!Assign(s)
    BY <1>5
  <2>2. s \notin {"set noparent", "filter", "exclude_files"}
    BY DEF Lint!Settings
  <2>3. /\ Lint!AtEntry /\ Lint!entry.name = s /\ line' = line + 1 /\ junitErrors' \in Nat
        /\ UNCHANGED <<configs, index, runPhase, level, cfgFilters, keepLooking, filters,
                       filtersBackup, errorCount, junitFailures>>
        /\ runExit' \in {runExit, Lint!Crashed}
    BY <1>1, <2>1 DEF Lint!Assign
  <2>4. runExit'.status \in {"running", "crashed"}
    BY <1>1, <2>3 DEF Lint!Crashed
  <2> QED BY <1>1, <2>2, <2>3, <2>4, ReadingGoesOn
<1>6. CASE Lint!Misspelled
  <2>1. junitErrors' \in Nat
    BY <1>1, <1>6 DEF Lint!Misspelled
  <2> QED BY <1>1, <1>6, <2>1, ReadingGoesOn DEF Lint!Misspelled
<1> QED BY <1>2, <1>3, <1>4, <1>5, <1>6

(* After the last configuration that concerns the file its filters are        *)
(* applied.                                                                   *)
LEMMA NextDirectoryInv == ASSUME LintInv, Lint!NextDirectory PROVE LintInv'
<1>1. /\ LintTypes /\ ReadingConfigs /\ Collected /\ filters = CommandFilters
      /\ runPhase = "config" /\ index <= Len(LintFiles) /\ runExit.status = "running"
      /\ errorCount = Len(junitFailures) /\ level' = level + 1 /\ line' = 1
      /\ UNCHANGED <<configs, index, cfgFilters, filters, filtersBackup, errorCount, junitFailures,
                     runExit>>
  BY DEF LintInv, Lint!NextDirectory, Lint!Running
<1> DEFINE d == Path[Lint!file][level]
           dirs == Len(Path[Lint!file])
           n == Len(Lint!Entries(Lint!file, level))
<1>2. /\ dirs \in Nat /\ level \in 1 .. dirs /\ DOMAIN Path[Lint!file] = 1 .. dirs
      /\ \A j \in 1 .. level - 1 : ~Lint!Stops(Path[Lint!file][j])
  <2>1. Path[Lint!file] \in Seq(LintDirs)
    BY <1>1, FileIsTyped
  <2>2. level \in 1 .. dirs /\ \A j \in 1 .. level - 1 : ~Lint!Stops(Path[Lint!file][j])
    BY <1>1 DEF ReadingConfigs
  <2> QED BY <2>1, <2>2
<1>3. /\ n \in Nat /\ line \in 1 .. n + 1
      /\ ~configs[d].readable => n = 0
  <2>1. /\ Lint!Entries(Lint!file, level) \in Seq(Lint!Entry)
        /\ ~configs[d].readable => Lint!Entries(Lint!file, level) = <<>>
    BY <1>1, <1>2, EntriesAreTyped
  <2>2. n \in Nat /\ (Lint!Entries(Lint!file, level) = <<>> => n = 0)
    BY <2>1
  <2>3. line \in 1 .. n + 1
    BY <1>1 DEF ReadingConfigs
  <2> QED BY <2>1, <2>2, <2>3
<1>4. /\ line = n + 1
      /\ ~configs[d].readable => runPhase' = "filters" /\ keepLooking' = FALSE
      /\ configs[d].readable =>
           /\ keepLooking' = keepLooking
           /\ runPhase' = (IF keepLooking /\ level < dirs THEN "config" ELSE "filters")
  <2>1. CASE ~configs[d].readable
    BY <1>3, <2>1 DEF Lint!NextDirectory
  <2>2. CASE configs[d].readable
    <3>1. line > n
      BY <2>2 DEF Lint!NextDirectory, Lint!Entries
    <3> QED BY <1>3, <2>2, <3>1 DEF Lint!NextDirectory, Lint!KeepsLooking
  <2> QED BY <2>1, <2>2
<1>5. Lint!Stops(d) <=> ~configs[d].readable \/ ~keepLooking
  <2>1. DOMAIN Lint!Entries(Lint!file, level) = 1 .. line - 1
    <3>1. DOMAIN Lint!Entries(Lint!file, level) = 1 .. n
      BY <1>1, <1>2, EntriesAreTyped
    <3>2. line - 1 = n
      BY <1>3, <1>4
    <3> QED BY <3>1, <3>2
  <2>2. Lint!Entries(Lint!file, level) = configs[d].entries
    BY DEF Lint!Entries
  <2> QED BY <1>1, <2>1, <2>2 DEF ReadingConfigs, Lint!Stops
<1>6. \A at \in Lint!Places(Lint!file) : HasRead(at) <=> at[1] <= level
  <2> TAKE at \in Lint!Places(Lint!file)
  <2>1. /\ at[1] \in Nat /\ at[2] \in Nat /\ at[2] <= Len(Lint!Entries(Lint!file, at[1]))
    BY <1>1, PlacesAre
  <2>2. at[1] = level => at[2] < line
    BY <1>3, <1>4, <2>1
  <2> QED BY <1>2, <2>1, <2>2 DEF HasRead
<1> HIDE DEF dirs, n
<1>7. /\ keepLooking' \in BOOLEAN /\ junitErrors' \in Nat /\ runPhase' \in {"config", "filters"}
      /\ level' \in Nat /\ LintTypes'
  <2>1. junitErrors' \in Nat
    BY <1>1 DEF Lint!NextDirectory, LintTypes
  <2>2. keepLooking' \in BOOLEAN /\ runPhase' \in {"config", "filters"}
    BY <1>1, <1>4 DEF LintTypes
  <2> QED BY <1>1, <1>2, <2>1, <2>2 DEF LintTypes
<1>8. CASE runPhase' = "config"
  <2>1. configs[d].readable /\ keepLooking /\ level < dirs /\ keepLooking' = keepLooking /\ ~Lint!Stops(d)
    BY <1>1, <1>4, <1>5, <1>8
  <2>2. \A at \in Lint!Places(Lint!file) : HasRead(at)' <=> HasRead(at)
    <3> TAKE at \in Lint!Places(Lint!file)
    <3>1. at[1] \in Nat /\ at[2] \in Nat \ {0}
      BY <1>1, PlacesAre
    <3>2. HasRead(at)' <=> at[1] < level + 1 \/ (at[1] = level + 1 /\ at[2] < 1)
      BY <1>1 DEF HasRead
    <3> QED BY <1>2, <1>6, <3>1, <3>2
  <2>3. Collected'
    <3>1. \A category : ReadFiltering(category)' = ReadFiltering(category)
      BY <1>1, <2>2, SameFile DEF ReadFiltering, Lint!Filtering
    <3> QED BY <1>1, <3>1, SameFile DEF Collected, Uncovered, Leads
  <2>4. ReadingConfigs'
    <3>1. level' \in 1 .. dirs
      BY <1>1, <1>2, <2>1
    <3>2. 1 \in 1 .. Len(Lint!Entries(Lint!file, level')) + 1
      <4>1. Lint!Entries(Lint!file, level') \in Seq(Lint!Entry)
        BY <1>1, <1>2, <3>1, EntriesAreTyped
      <4> QED BY <4>1
    <3>3. \A j \in 1 .. level' - 1 : ~Lint!Stops(Path[Lint!file][j])
      <4> TAKE j \in 1 .. level' - 1
      <4>1. j \in 1 .. level - 1 \/ j = level
        BY <1>1, <1>2
      <4> QED BY <1>2, <2>1, <4>1
    <3>4. NoneExcludes({at \in Lint!Places(Lint!file) : HasRead(at)})'
      <4>1. {at \in Lint!Places(Lint!file) : HasRead(at)}' = {at \in Lint!Places(Lint!file) : HasRead(at)}
        BY <1>1, <2>2, SameFile
      <4> QED BY <1>1, <4>1, SameFile DEF ReadingConfigs, NoneExcludes
    <3>5. 1 .. line' - 1 = {}
      BY <1>1
    <3>6. Lint!Entries(Lint!file, level)' = Lint!Entries(Lint!file, level')
      BY <1>1, SameFile DEF Lint!Entries
    <3>7. \A j : Lint!Stops(Path[Lint!file][j])' = Lint!Stops(Path[Lint!file][j])
      BY <1>1, SameFile
    <3> QED BY <1>1, <2>1, <3>1, <3>2, <3>3, <3>4, <3>5, <3>6, <3>7, SameFile DEF ReadingConfigs, dirs
  <2> QED BY <1>1, <1>7, <1>8, <2>3, <2>4, NoReportYet DEF LintInv
<1>9. CASE runPhase' = "filters"
  <2>1. Lint!Stops(d) \/ level = dirs
    BY <1>1, <1>2, <1>4, <1>5, <1>9
  <2>2. \A at \in Lint!Places(Lint!file) : HasRead(at)
    <3> TAKE at \in Lint!Places(Lint!file)
    <3>1. /\ at[1] \in Nat /\ at[1] \in 1 .. dirs
          /\ \A j \in 1 .. at[1] - 1 : ~Lint!Stops(Path[Lint!file][j])
      BY <1>1, <1>2, PlacesAre DEF Lint!Concerning
    <3>2. at[1] > level => level \in 1 .. at[1] - 1
      BY <1>2, <3>1
    <3>3. at[1] <= level
      BY <1>2, <2>1, <3>1, <3>2
    <3> QED BY <1>6, <3>3
  <2>3. Decided
    <3>1. \A category : ReadFiltering(category) = Lint!Filtering(Lint!file, category)
      BY <2>2 DEF ReadFiltering, Lint!Filtering
    <3> QED BY <1>1, <3>1 DEF Collected, Decided
  <2>4. NoneExcludes(Lint!Places(Lint!file))'
    <3>1. {at \in Lint!Places(Lint!file) : HasRead(at)} = Lint!Places(Lint!file)
      BY <2>2
    <3> QED BY <1>1, <3>1, SameFile DEF ReadingConfigs, NoneExcludes
  <2> QED BY <1>1, <1>7, <1>9, <2>3, <2>4, DecidedStays, NoReportYet DEF LintInv
<1> QED BY <1>7, <1>8, <1>9

(* Filters that are applied later are nearer to the file and decide.          *)
LEMMA ApplyFiltersInv == ASSUME LintInv, Lint!ApplyFilters PROVE LintInv'
<1> DEFINE n == Len(cfgFilters)
           group == cfgFilters[n]
<1>1. /\ LintTypes /\ Decided /\ NoneExcludes(Lint!Places(Lint!file)) /\ runPhase = "filters"
      /\ index <= Len(LintFiles) /\ errorCount = Len(junitFailures)
      /\ cfgFilters \in Seq(Seq(Lint!Filter)) /\ filters \in Seq(Lint!Filter)
      /\ cfgFilters # <<>> /\ cfgFilters' = Lint!RemoveAt(cfgFilters, n) /\ filters' = filters \o group
      /\ UNCHANGED <<configs, index, runPhase, level, line, keepLooking, filtersBackup, errorCount,
                     junitErrors, junitFailures>>
      /\ runExit'.status \in {"running", "crashed"}
  <2>1. runExit'.status \in {"running", "crashed"}
    BY DEF Lint!ApplyFilters, Lint!Running, Lint!Crashed
  <2> QED BY <2>1 DEF LintInv, LintTypes, Lint!ApplyFilters, Lint!Priority, Lint!Running, Lint!reportVars
<1>2. /\ cfgFilters' \in Seq(Seq(Lint!Filter)) /\ n \in Nat \ {0} /\ DOMAIN cfgFilters = 1 .. n
      /\ DOMAIN cfgFilters' = 1 .. n - 1 /\ \A i \in 1 .. n - 1 : cfgFilters'[i] = cfgFilters[i]
  <2>1. cfgFilters \in Seq(Seq(Lint!Filter)) /\ cfgFilters # <<>> /\ cfgFilters' = Lint!RemoveAt(cfgFilters, n)
    BY <1>1
  <2>2. n \in Nat \ {0} /\ DOMAIN cfgFilters = 1 .. n
    BY <2>1
  <2> QED BY <2>1, <2>2, RemoveLast
<1>3. group \in Seq(Lint!Filter) /\ filters' \in Seq(Lint!Filter)
  BY <1>1, <1>2
<1>4. LintTypes'
  BY <1>1, <1>2, <1>3 DEF LintTypes
<1> HIDE DEF n, group
<1>5. ASSUME NEW category
      PROVE  /\ Lint!Covers(group, category) =>
                  Lint!IsFiltered(filters', category) = Lint!IsFiltered(group, category)
             /\ ~Lint!Covers(group, category) =>
                  Lint!IsFiltered(filters', category) = Lint!IsFiltered(filters, category)
             /\ Uncovered(cfgFilters, category) =>
                  ~Lint!Covers(group, category) /\ Uncovered(cfgFilters', category)
  <2>1. Uncovered(cfgFilters, category) =>
          ~Lint!Covers(group, category) /\ Uncovered(cfgFilters', category)
    BY <1>2 DEF Uncovered, group
  <2> QED BY <1>1, <1>3, <2>1, LaterDecides
<1>6. ASSUME NEW category \in LintCategories, NEW at \in Lint!Filtering(Lint!file, category),
             Leads(FiltersOf(at), cfgFilters, category)
      PROVE  \/ Leads(FiltersOf(at), cfgFilters', category)
             \/ /\ Uncovered(cfgFilters', category)
                /\ Lint!IsFiltered(filters', category) = Lint!IsFiltered(FiltersOf(at), category)
  <2>1. PICK k \in 1 .. n :
          cfgFilters[k] = FiltersOf(at) /\ \A m \in 1 .. k - 1 : ~Lint!Covers(cfgFilters[m], category)
    BY <1>2, <1>6 DEF Leads
  <2>2. CASE k = n
    <3>1. Uncovered(cfgFilters', category)
      BY <1>2, <2>1, <2>2 DEF Uncovered
    <3>2. group = FiltersOf(at) /\ Lint!Covers(group, category)
      BY <2>1, <2>2 DEF group, n, FiltersOf, Lint!Filtering
    <3> QED BY <1>5, <3>1, <3>2
  <2>3. CASE k # n
    <3>1. k \in 1 .. n - 1 /\ \A m \in 1 .. k - 1 : m \in 1 .. n - 1
      BY <1>2, <2>1, <2>3
    <3> QED BY <1>2, <2>1, <3>1 DEF Leads
  <2> QED BY <2>2, <2>3
<1>7. Decided'
  <2> SUFFICES ASSUME NEW category \in LintCategories
               PROVE  LET ats == Lint!Filtering(Lint!file, category)
                      IN  /\ ats = {} =>
                               /\ Uncovered(cfgFilters', category)
                               /\ Lint!IsFiltered(filters', category)
                                    = Lint!IsFiltered(CommandFilters, category)
                          /\ \A at \in ats : Lint!Nearest(at, ats) =>
                               \/ Leads(FiltersOf(at), cfgFilters', category)
                               \/ /\ Uncovered(cfgFilters', category)
                                  /\ Lint!IsFiltered(filters', category)
                                       = Lint!IsFiltered(FiltersOf(at), category)
    <3>1. \A fs, category :
            /\ Leads(fs, cfgFilters, category)' <=> Leads(fs, cfgFilters', category)
            /\ Uncovered(cfgFilters, category)' <=> Uncovered(cfgFilters', category)
      BY DEF Leads, Uncovered
    <3> QED BY <1>1, <3>1, SameFile DEF Decided
  <2> DEFINE ats == Lint!Filtering(Lint!file, category)
  <2>1. /\ ats = {} =>
             /\ Uncovered(cfgFilters, category)
             /\ Lint!IsFiltered(filters, category) = Lint!IsFiltered(CommandFilters, category)
        /\ \A at \in ats : Lint!Nearest(at, ats) =>
             \/ Leads(FiltersOf(at), cfgFilters, category)
             \/ /\ Uncovered(cfgFilters, category)
                /\ Lint!IsFiltered(filters, category) = Lint!IsFiltered(FiltersOf(at), category)
    BY <1>1 DEF Decided
  <2> QED BY <1>5, <1>6, <2>1
<1> QED BY <1>1, <1>4, <1>7, SameFile, NoReportYet DEF LintInv

(* When all filters have been applied those decide that are in force.         *)
LEMMA FiltersAppliedInv == ASSUME LintInv, Lint!FiltersApplied PROVE LintInv'
<1>1. /\ LintTypes /\ Decided /\ NoneExcludes(Lint!Places(Lint!file)) /\ index <= Len(LintFiles)
      /\ runPhase' = "open" /\ runExit'.status = "running" /\ cfgFilters' = <<>>
      /\ errorCount' = Len(junitFailures')
      /\ UNCHANGED <<configs, index, level, line, keepLooking, cfgFilters, filters, filtersBackup,
                     errorCount, junitErrors, junitFailures>>
  BY DEF LintInv, Lint!FiltersApplied, Lint!Running, Lint!reportVars, Lint!configVars
<1>2. LintTypes'
  BY <1>1 DEF LintTypes
<1>3. Decided' /\ NoneExcludes(Lint!Places(Lint!file))'
  BY <1>1, SameFile, DecidedStays DEF NoneExcludes
<1> QED BY <1>1, <1>2, <1>3, NoReportYet DEF LintInv

(* A file is opened, or left alone, with its filters or without.              *)
LEMMA OpenInv == ASSUME LintInv, Lint!CannotOpen \/ Lint!Ignore \/ Lint!Open \/ Lint!Linted PROVE LintInv'
<1>1. CASE Lint!CannotOpen \/ Lint!Ignore \/ Lint!Linted
  <2>1. junitErrors \in Nat
    BY DEF LintInv, LintTypes
  <2>2. /\ Lint!Running /\ runPhase # "start" /\ Lint!Restore /\ junitErrors' \in Nat
        /\ UNCHANGED <<configs, index, level, line, cfgFilters, keepLooking, filtersBackup, errorCount,
                       junitFailures, runExit>>
    BY <1>1, <2>1 DEF Lint!CannotOpen, Lint!Ignore, Lint!Linted, Lint!configVars, Lint!reportVars
  <2> QED BY <2>2, RestoreInv
<1>2. CASE Lint!Open
  <2>1. /\ LintTypes /\ Decided /\ NoneExcludes(Lint!Places(Lint!file)) /\ index <= Len(LintFiles)
        /\ runPhase' = "lint" /\ runExit'.status = "running" /\ cfgFilters' = <<>> /\ line' = 1
        /\ errorCount' = Len(junitFailures')
        /\ UNCHANGED <<configs, index, level, keepLooking, cfgFilters, filters, filtersBackup,
                       errorCount, junitErrors, junitFailures>>
    BY <1>2 DEF LintInv, Lint!Open, Lint!Running, Lint!reportVars
  <2>2. LintTypes'
    BY <2>1 DEF LintTypes
  <2>3. Decided' /\ NoneExcludes(Lint!Places(Lint!file))'
    BY <2>1, SameFile, DecidedStays DEF NoneExcludes
  <2> QED BY <2>1, <2>2, <2>3, NoReportYet DEF LintInv
<1> QED BY <1>1, <1>2

(* An error that is not filtered is counted and told.                         *)
LEMMA ErrorInv == ASSUME LintInv, Lint!Error PROVE LintInv'
<1>1. /\ LintTypes /\ Decided /\ NoneExcludes(Lint!Places(Lint!file)) /\ index <= Len(LintFiles)
      /\ runPhase' = "lint" /\ runExit'.status = "running" /\ cfgFilters = <<>> /\ cfgFilters' = <<>>
      /\ errorCount = Len(junitFailures) /\ line' = line + 1 /\ line <= Len(Found[Lint!file])
      /\ UNCHANGED <<configs, index, level, keepLooking, cfgFilters, filters, filtersBackup,
                     junitErrors>>
  BY DEF LintInv, Lint!Error, Lint!Running
<1>2. line \in Nat \ {0} /\ errorCount \in Nat
      /\ junitFailures \in Seq([file : Lint!FileSet, category : LintCategories])
  BY <1>1 DEF LintTypes
<1> DEFINE error == Found[Lint!file][line]
           failure == [file |-> Lint!file, category |-> error.category]
<1>3. failure \in [file : Lint!FileSet, category : LintCategories]
  <2>1. /\ Lint!file \in Lint!FileSet
        /\ Found[Lint!file] \in Seq([category : LintCategories, confidence : 1 .. 5])
    BY <1>1, FileIsTyped
  <2>2. error \in [category : LintCategories, confidence : 1 .. 5]
    <3>1. line \in 1 .. Len(Found[Lint!file])
      BY <1>1, <1>2, <2>1
    <3> QED BY <2>1, <3>1, ElementOfSeq
  <2> QED BY <2>1, <2>2
<1> HIDE DEF failure
<1>4. /\ errorCount' = Len(junitFailures') /\ errorCount' \in Nat
      /\ junitFailures' \in Seq([file : Lint!FileSet, category : LintCategories])
  <2>1. \/ errorCount' = errorCount + 1 /\ junitFailures' = Append(junitFailures, failure)
        \/ UNCHANGED <<errorCount, junitFailures>>
    BY DEF Lint!Error, failure
  <2>2. /\ Append(junitFailures, failure) \in Seq([file : Lint!FileSet, category : LintCategories])
        /\ Len(Append(junitFailures, failure)) = Len(junitFailures) + 1
    BY <1>2, <1>3, AppendProperties
  <2>3. CASE errorCount' = errorCount + 1 /\ junitFailures' = Append(junitFailures, failure)
    <3>1. errorCount' = Len(junitFailures') /\ errorCount' \in Nat
      BY <1>1, <1>2, <2>2, <2>3
    <3> QED BY <2>2, <2>3, <3>1
  <2>4. CASE UNCHANGED <<errorCount, junitFailures>>
    BY <1>1, <1>2, <2>4
  <2> QED BY <2>1, <2>3, <2>4
<1>5. LintTypes'
  BY <1>1, <1>2, <1>4 DEF LintTypes
<1>6. Decided' /\ NoneExcludes(Lint!Places(Lint!file))'
  BY <1>1, SameFile, DecidedStays DEF NoneExcludes
<1> QED BY <1>1, <1>4, <1>5, <1>6, NoReportYet DEF LintInv

(* The next file begins with the filters of the command line.                 *)
LEMMA NextFileInv == ASSUME LintInv, Lint!NextFile PROVE LintInv'
<1>1. /\ LintTypes /\ index <= Len(LintFiles) /\ index' = index + 1 /\ runPhase' = "start"
      /\ runExit'.status = "running" /\ filters' = CommandFilters /\ errorCount' = Len(junitFailures')
      /\ UNCHANGED <<configs, level, line, keepLooking, cfgFilters, filters, filtersBackup,
                     errorCount, junitErrors, junitFailures>>
  BY DEF LintInv, Lint!NextFile, Lint!Running, Lint!configVars, Lint!reportVars
<1>2. index' \in 1 .. Len(LintFiles) + 1
  BY <1>1, LintAssumption DEF LintTypes, Lint!FilesAssumption
<1>3. LintTypes'
  BY <1>1, <1>2 DEF LintTypes
<1> QED BY <1>1, <1>3, NoReportYet DEF LintInv

(* The report at the end has every failure in the test case of its file.      *)
LEMMA RunEndsInv == ASSUME LintInv, Lint!Finish PROVE LintInv'
<1>1. /\ LintTypes /\ runPhase = "start" /\ filters = CommandFilters /\ errorCount = Len(junitFailures)
      /\ UNCHANGED <<configs, index, runPhase, level, line, keepLooking, cfgFilters, filters,
                     filtersBackup, errorCount, junitErrors, junitFailures>>
      /\ runExit' = [status |-> IF errorCount > 0 THEN "failure" ELSE "success",
                     report |-> [failures |-> Len(junitFailures), errors |-> junitErrors,
                                 cases |-> Lint!Cases(junitFailures)]]
  <2>1. index \in Nat /\ Len(LintFiles) \in Nat /\ index > Len(LintFiles)
    BY LintAssumption DEF LintInv, LintTypes, Lint!FilesAssumption, Lint!Finish
  <2>2. runPhase = "start"
    BY <2>1 DEF LintInv, LintTypes
  <2> QED BY <2>2 DEF LintInv, Lint!Finish, Lint!configVars, Lint!reportVars
<1>2. /\ runExit'.status \in {"success", "failure"} /\ runExit'.status = "failure" <=> errorCount > 0
      /\ runExit'.report.failures = Len(junitFailures)
      /\ runExit'.report.cases = Lint!Cases(junitFailures)
  BY <1>1
<1>3. LintTypes'
  BY <1>1, <1>2 DEF LintTypes
<1>4. ASSUME NEW n \in 1 .. errorCount
      PROVE  \E case \in Lint!Cases(junitFailures) :
               /\ n \in case.failures /\ case.file = junitFailures[n].file
               /\ \A other \in Lint!Cases(junitFailures) : n \in other.failures => other = case
  <2>1. n \in DOMAIN junitFailures
    BY <1>1 DEF LintTypes
  <2> DEFINE g == junitFailures[n].file
             case == [file |-> g, failures |-> {i \in DOMAIN junitFailures : junitFailures[i].file = g}]
  <2>2. case \in Lint!Cases(junitFailures) /\ n \in case.failures /\ case.file = g
    BY <2>1 DEF Lint!Cases
  <2>3. ASSUME NEW other \in Lint!Cases(junitFailures), n \in other.failures PROVE other = case
    BY <2>3 DEF Lint!Cases
  <2> QED BY <2>2, <2>3
<1>5. Lint!ReportAgrees'
  BY <1>1, <1>2, <1>4 DEF Lint!ReportAgrees
<1> QED BY <1>1, <1>3, <1>5 DEF LintInv

(* Every step of a run keeps the invariant.                                   *)
LEMMA LintStepInv == ASSUME LintInv, [Lint!Next]_lintVars PROVE LintInv'
<1>1. CASE UNCHANGED lintVars
  <2>1. UNCHANGED <<configs, index, cfgFilters, filters>>
    BY <1>1 DEF lintVars
  <2>2. LintTypes'
    BY <1>1 DEF lintVars, LintInv, LintTypes
  <2>3. /\ ReadingConfigs => ReadingConfigs'
        /\ NoneExcludes(Lint!Places(Lint!file)) => NoneExcludes(Lint!Places(Lint!file))'
        /\ Lint!ReportAgrees => Lint!ReportAgrees'
    <3>1. {at \in Lint!Places(Lint!file) : HasRead(at)}' = {at \in Lint!Places(Lint!file) : HasRead(at)}
      BY <1>1, <2>1, SameFile DEF HasRead, lintVars
    <3>2. Lint!Entries(Lint!file, level)' = Lint!Entries(Lint!file, level)
      BY <1>1, <2>1, SameFile DEF lintVars, Lint!Entries
    <3> QED BY <1>1, <2>1, <3>1, <3>2, SameFile DEF lintVars, ReadingConfigs, NoneExcludes, Lint!ReportAgrees
  <2>4. Collected => Collected'
    <3>1. \A category : ReadFiltering(category)' = ReadFiltering(category)
      BY <1>1, <2>1, SameFile DEF ReadFiltering, HasRead, lintVars
    <3> QED BY <2>1, <3>1, SameFile DEF Collected, Uncovered, Leads
  <2>5. Decided => Decided'
    BY <2>1, DecidedStays
  <2> QED BY <1>1, <2>1, <2>2, <2>3, <2>4, <2>5 DEF LintInv, lintVars
<1> QED BY <1>1, BeginInv, EntryInv, NextDirectoryInv, ApplyFiltersInv, FiltersAppliedInv, OpenInv,
       ErrorInv, NextFileInv, RunEndsInv DEF Lint!Next

-------------------------------------------------------------------------------
(* ParseArguments                                                             *)

(* The text of a path with a separator after it, or of "/".                   *)
Closed(p) == IF p = <<>> THEN Selection!Text(p) ELSE Selection!Text(p) \o <<Selection!Separator>>

Begins(s, t) == Len(s) <= Len(t) /\ \A i \in 1 .. Len(s) : s[i] = t[i]

(* Where the names of a path end in its text.                                 *)
Layout(p, text, ends) ==
  /\ ends \in [0 .. Len(p) -> Nat] /\ ends[0] = 0
  /\ Len(text) = ends[Len(p)] + 1
  /\ \A k \in 0 .. Len(p) : text[ends[k] + 1] = Selection!Separator
  /\ \A k \in 1 .. Len(p) :
       /\ ends[k] = ends[k - 1] + 1 + Len(p[k])
       /\ \A j \in 1 .. Len(p[k]) : text[ends[k - 1] + 1 + j] = p[k][j]

(* The first k names of a path are spelled out in a text, and only they.      *)
Spells(p, k, text, ends) ==
  /\ ends \in [0 .. k -> Nat] /\ ends[0] = 0 /\ Len(text) = ends[k]
  /\ \A l \in 0 .. k - 1 : ends[l] < ends[k] /\ text[ends[l] + 1] = Selection!Separator
  /\ \A l \in 1 .. k :
       /\ ends[l] = ends[l - 1] + 1 + Len(p[l])
       /\ \A j \in 1 .. Len(p[l]) : text[ends[l - 1] + 1 + j] = p[l][j]

(* What is assumed of the files and the command lines.                        *)
LEMMA SelectionAssumption == Selection!TreeAssumption
BY InstancesAssumption

(* The parts of a text are put together one after the other.                  *)
LEMMA FlattenExists ==
  ASSUME NEW q, NEW n \in Nat \ {0}
  PROVE  \E f : f = [i \in 1 .. n |-> IF i = 1 THEN q[i] ELSE f[i - 1] \o q[i]]
<1> DEFINE Right(f, k) == f = [i \in 1 .. k |-> IF i = 1 THEN q[i] ELSE f[i - 1] \o q[i]]
           Wrong == {k \in Nat : k # 0 /\ ~\E f : Right(f, k)}
<1> SUFFICES ASSUME Wrong # {} PROVE FALSE
  OBVIOUS
<1>1. PICK k \in Wrong : \A l \in Wrong : k <= l
  <2>1. Wrong \in SUBSET Nat
    OBVIOUS
  <2> QED BY <2>1, LeastExists
<1>2. k \in Nat \ {0} /\ ~\E f : Right(f, k)
  OBVIOUS
<1>3. CASE k = 1
  <2> DEFINE f == [i \in 1 .. 1 |-> q[1]]
  <2>1. \A i \in 1 .. 1 : i = 1
    OBVIOUS
  <2>2. f = [i \in 1 .. 1 |-> IF i = 1 THEN q[i] ELSE f[i - 1] \o q[i]]
    BY <2>1
  <2> QED BY <1>2, <1>3, <2>2
<1>4. CASE k # 1
  <2>1. k - 1 \in Nat \ {0} /\ k - 1 \notin Wrong
    <3>1. k - 1 \in Nat \ {0} /\ ~(k <= k - 1)
      BY <1>2, <1>4
    <3> HIDE DEF Wrong
    <3> QED BY <1>1, <3>1
  <2>2. PICK f : Right(f, k - 1)
    BY <2>1
  <2> DEFINE g == [i \in 1 .. k |-> IF i = k THEN f[k - 1] \o q[k] ELSE f[i]]
  <2>3. \A i \in 1 .. k - 1 : f[i] = (IF i = 1 THEN q[i] ELSE f[i - 1] \o q[i])
    BY <2>2
  <2>4. \A i \in 1 .. k : g[i] = (IF i = 1 THEN q[i] ELSE g[i - 1] \o q[i])
    <3> TAKE i \in 1 .. k
    <3>1. CASE i = k
      <4>1. k \in 1 .. k /\ k - 1 \in 1 .. k /\ k - 1 # k
        BY <2>1
      <4> QED BY <1>4, <3>1, <4>1
    <3>2. CASE i # k
      <4>1. i \in 1 .. k - 1 /\ (i # 1 => i - 1 \in 1 .. k /\ i - 1 # k)
        BY <1>2, <3>2
      <4> QED BY <2>3, <3>2, <4>1
    <3> QED BY <3>1, <3>2
  <2>5. Right(g, k)
    <3> DEFINE h == [i \in 1 .. k |-> IF i = 1 THEN q[i] ELSE g[i - 1] \o q[i]]
    <3>1. DOMAIN g = 1 .. k /\ DOMAIN h = 1 .. k /\ \A i \in 1 .. k : g[i] = h[i]
      BY <2>4
    <3>2. g = h
      BY <3>1
    <3> QED BY <3>2
  <2> QED BY <1>2, <2>5
<1> QED BY <1>3, <1>4

(* The characters of the texts of paths.                                      *)
Chars == STRING \cup {Selection!Separator}

(* The separator is a character, and a text of its own.                       *)
LEMMA SeparatorIsChar ==
  /\ Selection!Separator \in Chars /\ <<Selection!Separator>> \in Seq(Chars)
  /\ Len(<<Selection!Separator>>) = 1 /\ <<Selection!Separator>>[1] = Selection!Separator
<1>1. Selection!Separator \in Chars
  BY DEF Chars
<1> HIDE DEF Chars
<1> QED BY <1>1

(* What is in a concatenation, and where.                                     *)
LEMMA ConcatPlaces ==
  ASSUME NEW S, NEW s \in Seq(S), NEW t \in Seq(S)
  PROVE  /\ s \o t \in Seq(S) /\ Len(s \o t) = Len(s) + Len(t)
         /\ Len(s) \in Nat /\ Len(t) \in Nat
         /\ \A i \in 1 .. Len(s) : (s \o t)[i] = s[i]
         /\ \A i \in 1 .. Len(t) : (s \o t)[Len(s) + i] = t[i]
<1>1. /\ s \o t \in Seq(S) /\ Len(s \o t) = Len(s) + Len(t) /\ Len(s) \in Nat /\ Len(t) \in Nat
      /\ \A i \in 1 .. Len(s) + Len(t) : (s \o t)[i] = IF i <= Len(s) THEN s[i] ELSE t[i - Len(s)]
  BY ConcatProperties
<1>2. \A i \in 1 .. Len(s) : i \in 1 .. Len(s) + Len(t) /\ i <= Len(s)
  BY <1>1
<1>3. \A i \in 1 .. Len(t) : /\ Len(s) + i \in 1 .. Len(s) + Len(t) /\ ~(Len(s) + i <= Len(s))
                            /\ (Len(s) + i) - Len(s) = i
  BY <1>1
<1> QED BY <1>1, <1>2, <1>3

(* A name is a text that is not empty and has no separator.                   *)
LEMMA NamesAreTyped ==
  ASSUME NEW n \in PathNames
  PROVE  /\ n \in Seq(Chars) /\ n # <<>> /\ Len(n) \in Nat \ {0} /\ DOMAIN n = 1 .. Len(n)
         /\ \A i \in 1 .. Len(n) : n[i] # Selection!Separator
<1>1. n \in Seq(STRING) \ {<<>>} /\ \A i \in DOMAIN n : n[i] # Selection!Separator
  BY SelectionAssumption DEF Selection!TreeAssumption
<1>2. \A i \in 1 .. Len(n) : n[i] \in Chars
  BY <1>1, ElementOfSeq DEF Chars
<1>3. n = [i \in 1 .. Len(n) |-> n[i]] /\ Len(n) \in Nat
  BY <1>1
<1>4. n \in Seq(Chars)
  BY <1>2, <1>3
<1> QED BY <1>1, <1>4

(* One more name is spelled out after the others.                             *)
LEMMA NameAdded ==
  ASSUME NEW p \in Seq(PathNames), NEW k \in Nat, k < Len(p), NEW t \in Seq(Chars), NEW ends,
         Spells(p, k, t, ends)
  PROVE  /\ t \o (<<Selection!Separator>> \o p[k + 1]) \in Seq(Chars)
         /\ \E more : Spells(p, k + 1, t \o (<<Selection!Separator>> \o p[k + 1]), more)
<1>m. PICK m : m = p[k + 1]
  OBVIOUS
<1>i. PICK item : item = <<Selection!Separator>> \o m
  OBVIOUS
<1>t. PICK text : text = t \o item
  OBVIOUS
<1> DEFINE more == [l \in 0 .. k + 1 |-> IF l = k + 1 THEN ends[k] + 1 + Len(m) ELSE ends[l]]
<1>1. m \in PathNames /\ m \in Seq(Chars) /\ Len(m) \in Nat
  <2>1. m \in PathNames
    BY <1>m, ElementOfSeq
  <2> QED BY <2>1, NamesAreTyped
<1>2. /\ item \in Seq(Chars) /\ Len(item) = Len(m) + 1 /\ item[1] = Selection!Separator
      /\ \A j \in 1 .. Len(m) : item[1 + j] = m[j]
  <2>1. PICK one : one = <<Selection!Separator>>
    OBVIOUS
  <2>2. one \in Seq(Chars) /\ Len(one) = 1 /\ one[1] = Selection!Separator
    BY <2>1, SeparatorIsChar
  <2>3. item = one \o m
    BY <1>i, <2>1
  <2>4. /\ one \o m \in Seq(Chars) /\ Len(one \o m) = Len(one) + Len(m)
        /\ \A i \in 1 .. Len(one) : (one \o m)[i] = one[i]
        /\ \A i \in 1 .. Len(m) : (one \o m)[Len(one) + i] = m[i]
    <3>1. one \in Seq(Chars) /\ m \in Seq(Chars)
      BY <1>1, <2>2
    <3> QED BY <3>1, ConcatPlaces
  <2>5. 1 \in 1 .. Len(one) /\ Len(one) + Len(m) = Len(m) + 1
    BY <1>1, <2>2
  <2> QED BY <2>2, <2>3, <2>4, <2>5
<1>3. /\ text \in Seq(Chars) /\ Len(text) = Len(t) + Len(item)
      /\ \A i \in 1 .. Len(t) : text[i] = t[i]
      /\ \A i \in 1 .. Len(item) : text[Len(t) + i] = item[i]
  BY <1>2, <1>t, ConcatPlaces
<1>4. /\ ends \in [0 .. k -> Nat] /\ ends[0] = 0 /\ Len(t) = ends[k]
      /\ \A l \in 0 .. k - 1 : ends[l] < ends[k] /\ t[ends[l] + 1] = Selection!Separator
      /\ \A l \in 1 .. k :
           /\ ends[l] = ends[l - 1] + 1 + Len(p[l])
           /\ \A j \in 1 .. Len(p[l]) : t[ends[l - 1] + 1 + j] = p[l][j]
  BY DEF Spells
<1>5. /\ more \in [0 .. k + 1 -> Nat] /\ more[0] = 0 /\ more[k] = ends[k]
      /\ more[k + 1] = ends[k] + 1 + Len(m) /\ \A l \in 0 .. k : more[l] = ends[l]
  BY <1>1, <1>4
<1> HIDE DEF more
<1>6. Len(text) = more[k + 1]
  BY <1>1, <1>2, <1>3, <1>4, <1>5
<1>7. ASSUME NEW l \in 0 .. k PROVE more[l] < more[k + 1] /\ text[more[l] + 1] = Selection!Separator
  <2>1. CASE l = k
    <3>1. text[Len(t) + 1] = item[1]
      BY <1>1, <1>2, <1>3
    <3> QED BY <1>1, <1>2, <1>4, <1>5, <2>1, <3>1
  <2>2. CASE l # k
    <3>1. /\ l \in 0 .. k - 1 /\ ends[l] \in Nat /\ ends[k] \in Nat /\ ends[l] < ends[k]
          /\ t[ends[l] + 1] = Selection!Separator
      BY <1>4, <2>2
    <3>2. ends[l] + 1 \in 1 .. Len(t)
      BY <1>4, <3>1
    <3>3. text[ends[l] + 1] = Selection!Separator
      BY <1>3, <3>1, <3>2
    <3>4. ends[l] < ends[k] + 1 + Len(m)
      BY <1>1, <3>1
    <3> QED BY <1>5, <3>3, <3>4
  <2> QED BY <2>1, <2>2
<1>8. ASSUME NEW l \in 1 .. k + 1
      PROVE  /\ more[l] = more[l - 1] + 1 + Len(p[l])
             /\ \A j \in 1 .. Len(p[l]) : text[more[l - 1] + 1 + j] = p[l][j]
  <2>1. CASE l = k + 1
    <3>1. p[l] = m /\ l - 1 = k
      BY <1>m, <2>1
    <3>2. \A j \in 1 .. Len(m) : text[ends[k] + 1 + j] = m[j]
      <4> TAKE j \in 1 .. Len(m)
      <4>1. 1 + j \in 1 .. Len(item) /\ ends[k] + 1 + j = Len(t) + (1 + j)
        <5>1. ends[k] \in Nat /\ Len(t) = ends[k]
          BY <1>4
        <5>2. Len(item) = Len(m) + 1 /\ Len(m) \in Nat
          BY <1>1, <1>2
        <5> QED BY <5>1, <5>2
      <4>2. text[Len(t) + (1 + j)] = item[1 + j]
        BY <1>3, <4>1
      <4> QED BY <1>2, <4>1, <4>2
    <3> QED BY <1>5, <2>1, <3>1, <3>2
  <2>2. CASE l # k + 1
    <3>1. l \in 1 .. k /\ l \in 0 .. k /\ l - 1 \in 0 .. k
      BY <2>2
    <3>2. /\ ends[l] = ends[l - 1] + 1 + Len(p[l]) /\ ends[l] \in Nat /\ ends[l - 1] \in Nat
          /\ \A j \in 1 .. Len(p[l]) : t[ends[l - 1] + 1 + j] = p[l][j]
      BY <1>4, <3>1
    <3>3. ends[l] <= Len(t)
      <4>1. CASE l = k
        BY <1>4, <3>2, <4>1
      <4>2. CASE l # k
        <5>1. l \in 0 .. k - 1
          BY <3>1, <4>2
        <5>2. ends[l] < ends[k] /\ ends[k] \in Nat
          BY <1>4, <5>1
        <5> QED BY <1>4, <3>2, <5>2
      <4> QED BY <4>1, <4>2
    <3>5. Len(p[l]) \in Nat
      <4>1. l \in 1 .. Len(p)
        BY <3>1
      <4>2. p[l] \in PathNames
        BY <4>1, ElementOfSeq
      <4> QED BY <4>2, NamesAreTyped
    <3>4. \A j \in 1 .. Len(p[l]) : text[ends[l - 1] + 1 + j] = p[l][j]
      <4> TAKE j \in 1 .. Len(p[l])
      <4>1. ends[l - 1] + 1 + j \in 1 .. Len(t)
        BY <3>2, <3>3, <3>5
      <4> QED BY <1>3, <3>2, <4>1
    <3> QED BY <1>5, <3>1, <3>2, <3>4
  <2> QED BY <2>1, <2>2
<1>9. Spells(p, k + 1, text, more)
  <2>1. \A l \in 0 .. (k + 1) - 1 : l \in 0 .. k
    OBVIOUS
  <2> QED BY <1>5, <1>6, <1>7, <1>8, <2>1 DEF Spells
<1> QED BY <1>3, <1>9, <1>m, <1>i, <1>t

(* The text of a path is its names with separators before them.               *)
LEMMA TextIsSpelled ==
  ASSUME NEW p \in Seq(PathNames), p # <<>>
  PROVE  Selection!Text(p) \in Seq(Chars) /\ \E ends : Spells(p, Len(p), Selection!Text(p), ends)
<1> DEFINE n == Len(p)
           q == [i \in DOMAIN p |-> <<Selection!Separator>> \o p[i]]
           R(f) == f = [i \in 1 .. Len(q) |-> IF i = 1 THEN q[i] ELSE f[i - 1] \o q[i]]
           g == CHOOSE f : R(f)
<1>1. n \in Nat \ {0} /\ DOMAIN p = 1 .. n /\ DOMAIN q = 1 .. n /\ Len(q) = n
  <2>1. n \in Nat \ {0} /\ DOMAIN p = 1 .. n
    OBVIOUS
  <2> HIDE DEF n
  <2> QED BY <2>1
<1>2. Selection!Text(p) = g[n]
  <2>1. Selection!Text(p) = Selection!FlattenSeq(q)
    BY DEF Selection!Text
  <2>2. Selection!FlattenSeq(q) = g[Len(q)]
    <3> HIDE DEF q
    <3> QED BY <1>1 DEF Selection!FlattenSeq
  <2> QED BY <1>1, <2>1, <2>2
<1>3. \A i \in 1 .. n : g[i] = IF i = 1 THEN q[i] ELSE g[i - 1] \o q[i]
  <2> HIDE DEF q, n
  <2>1. \E f : R(f)
    BY <1>1, FlattenExists
  <2>2. R(g)
    BY <2>1
  <2> HIDE DEF g
  <2> QED BY <1>1, <2>2
<1>4. \A i \in 1 .. n : q[i] = <<Selection!Separator>> \o p[i]
  BY <1>1
<1> HIDE DEF q, g
<1> DEFINE Good(k) == g[k] \in Seq(Chars) /\ \E ends : Spells(p, k, g[k], ends)
           Bad1 == {k \in Nat : k \in 1 .. n /\ ~Good(k)}
<1>5. SUFFICES ASSUME Bad1 # {} PROVE FALSE
  BY <1>1, <1>2
<1>6. PICK k \in Bad1 : \A l \in Bad1 : k <= l
  <2>1. Bad1 \in SUBSET Nat
    OBVIOUS
  <2> HIDE DEF Bad1
  <2> QED BY <1>5, <2>1, LeastExists
<1>7. k \in 1 .. n /\ k \in Nat \ {0} /\ ~Good(k)
  BY <1>1
<1>8. PICK t \in Seq(Chars) : g[k] = t \o q[k] /\ \E ends : Spells(p, k - 1, t, ends)
  <2>1. CASE k = 1
    <3>1. <<>> \in Seq(Chars) /\ g[k] = q[k]
      BY <1>3, <1>7, <2>1
    <3>2. q[k] = <<>> \o q[k]
      <4>1. p[k] \in Seq(Chars)
        BY <1>1, <1>7, ElementOfSeq, NamesAreTyped
      <4>2. q[k] = <<Selection!Separator>> \o p[k]
        BY <1>4, <1>7
      <4>3. q[k] \in Seq(Chars)
        BY <4>1, <4>2, SeparatorIsChar, ConcatProperties
      <4> QED BY <4>3, ConcatEmptySeq
    <3>3. Spells(p, 0, <<>>, [l \in 0 .. 0 |-> 0])
      <4> DEFINE none == [l \in 0 .. 0 |-> 0]
      <4>1. /\ \A l \in 0 .. 0 - 1 : FALSE
            /\ \A l \in 1 .. 0 : FALSE
            /\ Len(<<>>) = 0
        OBVIOUS
      <4>2. none \in [0 .. 0 -> Nat] /\ none[0] = 0
        OBVIOUS
      <4> HIDE DEF none
      <4>3. Spells(p, 0, <<>>, none)
        BY <4>1, <4>2 DEF Spells
      <4> QED BY <4>3 DEF none
    <3>4. k - 1 = 0 /\ g[k] = <<>> \o q[k]
      BY <2>1, <3>1, <3>2
    <3> WITNESS <<>> \in Seq(Chars)
    <3> QED BY <3>3, <3>4
  <2>2. CASE k # 1
    <3>1. k - 1 \in 1 .. n /\ k - 1 \in Nat /\ ~(k <= k - 1)
      BY <1>7, <2>2
    <3>2. k - 1 \notin Bad1
      <4> HIDE DEF Bad1
      <4> QED BY <1>6, <3>1
    <3>3. Good(k - 1)
      BY <3>1, <3>2
    <3>4. g[k] = g[k - 1] \o q[k]
      BY <1>3, <1>7, <2>2
    <3> QED BY <3>3, <3>4
  <2> QED BY <2>1, <2>2
<1>9. Good(k)
  <2>1. k - 1 \in Nat /\ k - 1 < Len(p) /\ (k - 1) + 1 = k
    BY <1>1, <1>7
  <2>2. PICK ends : Spells(p, k - 1, t, ends)
    BY <1>8
  <2>3. g[k] = t \o (<<Selection!Separator>> \o p[k])
    BY <1>4, <1>7, <1>8
  <2>4. /\ t \o (<<Selection!Separator>> \o p[(k - 1) + 1]) \in Seq(Chars)
        /\ \E more : Spells(p, (k - 1) + 1, t \o (<<Selection!Separator>> \o p[(k - 1) + 1]), more)
    BY <2>1, <2>2, NameAdded
  <2> QED BY <2>1, <2>3, <2>4
<1> QED BY <1>7, <1>9

(* So is "/", the text of the path without names.                             *)
LEMMA ClosedIsLaidOut ==
  ASSUME NEW p \in Seq(PathNames)
  PROVE  Closed(p) \in Seq(Chars) /\ \E ends : Layout(p, Closed(p), ends)
<1>1. CASE p = <<>>
  <2> DEFINE ends == [l \in 0 .. 0 |-> 0]
  <2>1. Closed(p) = <<Selection!Separator>> /\ Closed(p) \in Seq(Chars) /\ Len(Closed(p)) = 1
    BY <1>1, SeparatorIsChar DEF Closed, Selection!Text
  <2>2. 1 .. 0 = {} /\ Len(p) = 0 /\ ends \in [0 .. 0 -> Nat] /\ \A l \in 0 .. 0 : l = 0 /\ ends[l] = 0
    BY <1>1
  <2>3. Closed(p)[1] = Selection!Separator
    BY <2>1
  <2>4. Layout(p, Closed(p), ends)
    BY <2>1, <2>2, <2>3 DEF Layout
  <2> QED BY <2>1, <2>4
<1>2. CASE p # <<>>
  <2> DEFINE n == Len(p)
             t == Selection!Text(p)
             text == t \o <<Selection!Separator>>
  <2>1. PICK ends : t \in Seq(Chars) /\ Spells(p, n, t, ends)
    BY <1>2, TextIsSpelled
  <2>2. n \in Nat \ {0}
    BY <1>2
  <2> HIDE DEF t
  <2>3. /\ text \in Seq(Chars) /\ Len(text) = Len(t) + 1 /\ Len(t) \in Nat
        /\ \A i \in 1 .. Len(t) : text[i] = t[i]
        /\ text[Len(t) + 1] = Selection!Separator
    <3> DEFINE one == <<Selection!Separator>>
    <3>1. one \in Seq(Chars) /\ Len(one) = 1 /\ one[1] = Selection!Separator
      BY SeparatorIsChar
    <3> HIDE DEF n, one
    <3> QED BY <2>1, <3>1, ConcatProperties
  <2>4. /\ ends \in [0 .. n -> Nat] /\ ends[0] = 0 /\ Len(t) = ends[n]
        /\ \A l \in 0 .. n - 1 : ends[l] < ends[n] /\ t[ends[l] + 1] = Selection!Separator
        /\ \A l \in 1 .. n :
             /\ ends[l] = ends[l - 1] + 1 + Len(p[l])
             /\ \A j \in 1 .. Len(p[l]) : t[ends[l - 1] + 1 + j] = p[l][j]
    BY <2>1 DEF Spells
  <2> HIDE DEF text
  <2>5. ASSUME NEW l \in 0 .. n PROVE text[ends[l] + 1] = Selection!Separator
    <3>1. CASE l = n
      BY <2>3, <2>4, <3>1
    <3>2. CASE l # n
      <4>1. l \in 0 .. n - 1 /\ ends[l] \in Nat
        BY <2>2, <2>4, <3>2
      <4>3. ends[l] < ends[n] /\ t[ends[l] + 1] = Selection!Separator /\ ends[n] \in Nat
        BY <2>4, <4>1
      <4>2. ends[l] + 1 \in 1 .. Len(t)
        BY <2>4, <4>1, <4>3
      <4> QED BY <2>3, <4>2, <4>3
    <3> QED BY <3>1, <3>2
  <2>6. ASSUME NEW l \in 1 .. n, NEW j \in 1 .. Len(p[l])
        PROVE  text[ends[l - 1] + 1 + j] = p[l][j]
    <3>1. /\ l - 1 \in 0 .. n /\ l \in 0 .. n /\ ends[l - 1] \in Nat /\ ends[l] \in Nat
          /\ Len(p[l]) \in Nat
      <4>1. l - 1 \in 0 .. n /\ l \in 0 .. n
        BY <2>2
      <4>2. Len(p[l]) \in Nat
        <5>1. p[l] \in PathNames
          BY ElementOfSeq
        <5> QED BY <5>1, NamesAreTyped
      <4> QED BY <2>4, <4>1, <4>2
    <3>2. ends[l] <= Len(t)
      <4>1. l = n \/ l \in 0 .. n - 1
        BY <2>2
      <4> QED BY <2>3, <2>4, <3>1, <4>1
    <3>3. ends[l - 1] + 1 + j \in 1 .. Len(t)
      BY <2>4, <3>1, <3>2
    <3> QED BY <2>3, <2>4, <3>3
  <2>7. Layout(p, text, ends)
    BY <2>3, <2>4, <2>5, <2>6 DEF Layout
  <2> QED BY <1>2, <2>3, <2>7 DEF Closed, text, t
<1> QED BY <1>1, <1>2

(* Facts about the places in a text.                                          *)
LEMMA PlaceMoved ==
  ASSUME NEW a \in Nat, NEW b \in Nat
  PROVE  (a + 1 + b) + 1 = a + 1 + (b + 1)
OBVIOUS

(* A place between two ends is one in the name there.                         *)
LEMMA PlaceBetween ==
  ASSUME NEW a \in Nat, NEW n \in Nat, NEW i \in Nat, ~(i <= a + 1), i <= a + 1 + n
  PROVE  \E j \in 1 .. n : i = a + 1 + j
<1>1. i - a - 1 \in 1 .. n /\ i = a + 1 + (i - a - 1)
  OBVIOUS
<1> QED BY <1>1

(* The places of a name and the separator after it are in the text.           *)
LEMMA PlaceWithin ==
  ASSUME NEW a \in Nat, NEW n \in Nat, NEW l \in Nat, (a + 1 + n) + 1 <= l, NEW j \in 1 .. n + 1
  PROVE  a + 1 + j \in 1 .. l
OBVIOUS

(* The names of a path end one after the other.                               *)
LEMMA EndsGrow ==
  ASSUME NEW p \in Seq(PathNames), NEW t, NEW ends, Layout(p, t, ends)
  PROVE  /\ Len(p) \in Nat
         /\ \A k \in 0 .. Len(p) : ends[k] \in Nat
         /\ \A k \in 1 .. Len(p) :
              p[k] \in PathNames /\ Len(p[k]) \in Nat \ {0} /\ ends[k] = ends[k - 1] + 1 + Len(p[k])
         /\ \A k, l \in 0 .. Len(p) : k < l => ends[k] < ends[l]
<1>1. Len(p) \in Nat /\ \A k \in 0 .. Len(p) : ends[k] \in Nat
  <2>1. ends \in [0 .. Len(p) -> Nat]
    BY DEF Layout
  <2> QED BY <2>1
<1>2. ASSUME NEW k \in 1 .. Len(p)
      PROVE  p[k] \in PathNames /\ Len(p[k]) \in Nat \ {0} /\ ends[k] = ends[k - 1] + 1 + Len(p[k])
  <2>1. p[k] \in PathNames
    BY ElementOfSeq
  <2> QED BY <2>1, NamesAreTyped DEF Layout
<1>3. ASSUME NEW k \in 0 .. Len(p) PROVE \A l \in 0 .. Len(p) : k < l => ends[k] < ends[l]
  <2> DEFINE Wrong == {l \in Nat : l \in 0 .. Len(p) /\ k < l /\ ~(ends[k] < ends[l])}
  <2> SUFFICES ASSUME Wrong # {} PROVE FALSE
    BY <1>1
  <2>1. PICK l \in Wrong : \A m \in Wrong : l <= m
    <3>1. Wrong \in SUBSET Nat
      OBVIOUS
    <3> HIDE DEF Wrong
    <3> QED BY <3>1, LeastExists
  <2>2. l \in 1 .. Len(p) /\ l \in Nat /\ k < l /\ ~(ends[k] < ends[l])
    BY <1>1
  <2>3. l - 1 \in 0 .. Len(p) /\ l - 1 \in Nat /\ ~(l <= l - 1) /\ (k = l - 1 \/ k < l - 1)
    BY <1>1, <2>2
  <2>4. l - 1 \notin Wrong
    <3> HIDE DEF Wrong
    <3> QED BY <2>1, <2>3
  <2>5. ends[k] <= ends[l - 1]
    BY <1>1, <2>3, <2>4
  <2>6. /\ ends[l] = ends[l - 1] + 1 + Len(p[l]) /\ Len(p[l]) \in Nat
        /\ ends[k] \in Nat /\ ends[l - 1] \in Nat
    BY <1>1, <1>2, <2>2, <2>3
  <2> QED BY <2>2, <2>5, <2>6
<1> QED BY <1>1, <1>2, <1>3

(* Every place of a laid out text holds a separator or a letter of a name.    *)
LEMMA PlacesOfALayout ==
  ASSUME NEW p \in Seq(PathNames), NEW t, NEW ends, Layout(p, t, ends),
         NEW m \in 0 .. Len(p), NEW i \in 1 .. ends[m] + 1
  PROVE  \/ \E k \in 0 .. m : i = ends[k] + 1
         \/ \E k \in 1 .. m : \E j \in 1 .. Len(p[k]) : i = ends[k - 1] + 1 + j
<1>1. /\ Len(p) \in Nat
      /\ \A k \in 0 .. Len(p) : ends[k] \in Nat
      /\ \A k \in 1 .. Len(p) : Len(p[k]) \in Nat /\ ends[k] = ends[k - 1] + 1 + Len(p[k])
  BY EndsGrow
<1>2. ends[0] = 0
  BY DEF Layout
<1> DEFINE Beyond == {k \in Nat : k \in 0 .. m /\ i <= ends[k] + 1}
<1>3. PICK k \in Beyond : \A l \in Beyond : k <= l
  <2>1. ends[m] \in Nat /\ m \in 0 .. m /\ i <= ends[m] + 1
    BY <1>1
  <2>2. Beyond \in SUBSET Nat /\ m \in Beyond
    BY <1>1, <2>1
  <2> HIDE DEF Beyond
  <2> QED BY <2>2, LeastExists
<1>4. k \in 0 .. m /\ k \in Nat /\ i <= ends[k] + 1 /\ ends[k] \in Nat
  BY <1>1
<1>5. CASE k = 0
  <2>1. i = ends[k] + 1
    BY <1>2, <1>4, <1>5
  <2> QED BY <1>4, <2>1
<1>6. CASE k # 0 /\ i = ends[k] + 1
  BY <1>4, <1>6
<1>7. CASE k # 0 /\ i # ends[k] + 1
  <2>1. k - 1 \in 0 .. m /\ k - 1 \in Nat /\ ~(k <= k - 1) /\ k \in 1 .. m /\ k \in 1 .. Len(p)
    BY <1>1, <1>4, <1>7
  <2>2. k - 1 \notin Beyond
    <3> HIDE DEF Beyond
    <3> QED BY <1>3, <2>1
  <2>3. ~(i <= ends[k - 1] + 1) /\ ends[k - 1] \in Nat
    <3>1. k - 1 \in 0 .. Len(p)
      BY <1>1, <2>1
    <3> QED BY <1>1, <2>1, <2>2, <3>1
  <2>4. ends[k] = ends[k - 1] + 1 + Len(p[k]) /\ Len(p[k]) \in Nat
    BY <1>1, <2>1
  <2>5. i <= ends[k] /\ i \in Nat
    BY <1>4, <1>7
  <2>6. \E j \in 1 .. Len(p[k]) : i = ends[k - 1] + 1 + j
    BY <2>3, <2>4, <2>5, PlaceBetween
  <2> QED BY <2>1, <2>6
<1> QED BY <1>5, <1>6, <1>7

(* Two paths with the same names up to some place have the same text there.   *)
LEMMA SameNamesSameText ==
  ASSUME NEW p \in Seq(PathNames), NEW q \in Seq(PathNames), NEW s, NEW t, NEW d, NEW e,
         Layout(p, s, d), Layout(q, t, e),
         NEW m \in Nat, m <= Len(p), m <= Len(q), \A l \in 1 .. m : p[l] = q[l]
  PROVE  /\ \A k \in 0 .. m : d[k] = e[k]
         /\ \A i \in 1 .. d[m] + 1 : s[i] = t[i]
<1>0. Len(p) \in Nat /\ Len(q) \in Nat
  BY EndsGrow
<1>1. \A k \in 0 .. m : d[k] = e[k]
  <2> DEFINE Wrong == {k \in Nat : k \in 0 .. m /\ d[k] # e[k]}
  <2> SUFFICES ASSUME Wrong # {} PROVE FALSE
    OBVIOUS
  <2>1. PICK k \in Wrong : \A l \in Wrong : k <= l
    <3>1. Wrong \in SUBSET Nat
      OBVIOUS
    <3> HIDE DEF Wrong
    <3> QED BY <3>1, LeastExists
  <2>2. k \in 0 .. m /\ k \in Nat /\ d[k] # e[k]
    OBVIOUS
  <2>3. k # 0
    BY <2>2 DEF Layout
  <2>4. /\ k - 1 \in Nat /\ k - 1 \in 0 .. m /\ ~(k <= k - 1)
        /\ k \in 1 .. m /\ k \in 1 .. Len(p) /\ k \in 1 .. Len(q)
    BY <1>0, <2>2, <2>3
  <2>5. k - 1 \notin Wrong
    <3> HIDE DEF Wrong
    <3> QED BY <2>1, <2>4
  <2>6. d[k - 1] = e[k - 1]
    BY <2>4, <2>5
  <2>7. d[k] = d[k - 1] + 1 + Len(p[k]) /\ e[k] = e[k - 1] + 1 + Len(q[k]) /\ p[k] = q[k]
    BY <2>4 DEF Layout
  <2> QED BY <2>2, <2>6, <2>7
<1>2. ASSUME NEW i \in 1 .. d[m] + 1 PROVE s[i] = t[i]
  <2>1. m \in 0 .. Len(p) /\ m \in 0 .. Len(q)
    BY <1>0
  <2>2. CASE \E k \in 0 .. m : i = d[k] + 1
    <3>1. PICK k \in 0 .. m : i = d[k] + 1
      BY <2>2
    <3>2. k \in 0 .. Len(p) /\ k \in 0 .. Len(q) /\ i = e[k] + 1
      BY <1>0, <1>1, <3>1
    <3> QED BY <3>1, <3>2 DEF Layout
  <2>3. CASE \E k \in 1 .. m : \E j \in 1 .. Len(p[k]) : i = d[k - 1] + 1 + j
    <3>1. PICK k \in 1 .. m : \E j \in 1 .. Len(p[k]) : i = d[k - 1] + 1 + j
      BY <2>3
    <3>2. PICK j \in 1 .. Len(p[k]) : i = d[k - 1] + 1 + j
      BY <3>1
    <3>3. k \in 1 .. Len(p) /\ k \in 1 .. Len(q) /\ k - 1 \in 0 .. m
      BY <1>0
    <3>4. p[k] = q[k] /\ d[k - 1] = e[k - 1]
      BY <1>1, <3>3
    <3>5. s[i] = p[k][j]
      BY <3>2, <3>3 DEF Layout
    <3>6. t[i] = q[k][j]
      BY <3>2, <3>3, <3>4 DEF Layout
    <3> QED BY <3>4, <3>5, <3>6
  <2> QED BY <2>1, <2>2, <2>3, PlacesOfALayout
<1> QED BY <1>1, <1>2

(* The text of a path, closed by a separator, begins the text of another one  *)
(* just when its names are the other's first names.                           *)
LEMMA TextsBeginAsPathsDo ==
  ASSUME NEW p \in Seq(PathNames), NEW q \in Seq(PathNames)
  PROVE  Begins(Closed(p), Closed(q)) <=> Len(p) <= Len(q) /\ \A l \in 1 .. Len(p) : p[l] = q[l]
<1>1. PICK s, d : s = Closed(p) /\ Layout(p, s, d)
  BY ClosedIsLaidOut
<1>2. PICK t, e : t = Closed(q) /\ Layout(q, t, e)
  BY ClosedIsLaidOut
<1>3. /\ Len(p) \in Nat
      /\ \A k \in 0 .. Len(p) : d[k] \in Nat
      /\ \A k \in 1 .. Len(p) :
           p[k] \in PathNames /\ Len(p[k]) \in Nat \ {0} /\ d[k] = d[k - 1] + 1 + Len(p[k])
      /\ \A k, l \in 0 .. Len(p) : k < l => d[k] < d[l]
  BY <1>1, EndsGrow
<1>4. /\ Len(q) \in Nat
      /\ \A k \in 0 .. Len(q) : e[k] \in Nat
      /\ \A k \in 1 .. Len(q) :
           q[k] \in PathNames /\ Len(q[k]) \in Nat \ {0} /\ e[k] = e[k - 1] + 1 + Len(q[k])
      /\ \A k, l \in 0 .. Len(q) : k < l => e[k] < e[l]
  BY <1>2, EndsGrow
<1>5. /\ Len(s) = d[Len(p)] + 1 /\ Len(t) = e[Len(q)] + 1
      /\ Len(p) \in 0 .. Len(p) /\ Len(q) \in 0 .. Len(q)
  BY <1>1, <1>2, <1>3, <1>4 DEF Layout
<1>6. ASSUME Len(p) <= Len(q), \A l \in 1 .. Len(p) : p[l] = q[l] PROVE Begins(s, t)
  <2>0. PICK n \in Nat : n = Len(p)
    BY <1>3
  <2>1. n <= Len(p) /\ n <= Len(q) /\ (\A l \in 1 .. n : p[l] = q[l]) /\ n \in 0 .. n
    BY <1>6, <2>0
  <2>2. (\A k \in 0 .. n : d[k] = e[k]) /\ \A i \in 1 .. d[n] + 1 : s[i] = t[i]
    <3>1. Layout(p, s, d) /\ Layout(q, t, e)
      BY <1>1, <1>2
    <3> QED BY <2>1, <3>1, SameNamesSameText
  <2>3. Len(p) \in 0 .. Len(q) /\ (Len(p) = Len(q) \/ Len(p) < Len(q))
    BY <1>3, <1>4, <1>6
  <2>4. e[Len(p)] <= e[Len(q)] /\ e[Len(p)] \in Nat /\ e[Len(q)] \in Nat
    BY <1>4, <1>5, <2>3
  <2>5. Len(s) <= Len(t)
    BY <1>5, <2>0, <2>1, <2>2, <2>4
  <2> QED BY <1>5, <2>0, <2>2, <2>5 DEF Begins
<1>7. ASSUME Begins(s, t) PROVE Len(p) <= Len(q) /\ \A l \in 1 .. Len(p) : p[l] = q[l]
  <2> DEFINE Wrong == {l \in Nat : l \in 1 .. Len(p) /\ ~(l <= Len(q) /\ p[l] = q[l])}
  <2>1. SUFFICES ASSUME Wrong # {} PROVE FALSE
    <3>1. \A l \in 1 .. Len(p) : l <= Len(q) /\ p[l] = q[l]
      BY <2>1
    <3>2. Len(p) = 0 \/ Len(p) \in 1 .. Len(p)
      BY <1>3
    <3> QED BY <1>4, <3>1, <3>2
  <2>2. PICK l \in Wrong : \A m \in Wrong : l <= m
    <3>1. Wrong \in SUBSET Nat
      OBVIOUS
    <3> HIDE DEF Wrong
    <3> QED BY <2>1, <3>1, LeastExists
  <2>3. l \in 1 .. Len(p) /\ l \in Nat /\ ~(l <= Len(q) /\ p[l] = q[l])
    OBVIOUS
  <2>4. \A k \in 1 .. l - 1 : k <= Len(q) /\ p[k] = q[k]
    <3> TAKE k \in 1 .. l - 1
    <3>1. k \in Nat /\ ~(l <= k) /\ k \in 1 .. Len(p)
      BY <1>3, <2>3
    <3>2. k \notin Wrong
      <4> HIDE DEF Wrong
      <4> QED BY <2>2, <3>1
    <3> QED BY <3>1, <3>2
  <2>5. PICK m \in Nat : m = l - 1
    BY <2>3
  <2>6. m <= Len(p) /\ m <= Len(q) /\ m \in 0 .. Len(p) /\ m \in 0 .. Len(q) /\ l \in 0 .. Len(p)
    <3>1. m = 0 \/ m \in 1 .. l - 1
      BY <2>5
    <3>2. m <= Len(q)
      BY <1>4, <2>4, <3>1
    <3> QED BY <1>3, <1>4, <2>3, <2>5, <3>2
  <2>7. d[m] = e[m]
    <3>1. \A k \in 1 .. m : p[k] = q[k]
      BY <2>4, <2>5
    <3>2. \A k \in 0 .. m : d[k] = e[k]
      BY <1>1, <1>2, <2>6, <3>1, SameNamesSameText
    <3> QED BY <2>5, <3>2
  <2>8. /\ d[m] \in Nat /\ d[l] \in Nat /\ Len(p[l]) \in Nat \ {0} /\ d[l] = d[m] + 1 + Len(p[l])
        /\ p[l] \in PathNames
    BY <1>3, <2>3, <2>5, <2>6
  <2>9. d[l] + 1 <= Len(s) /\ Len(s) \in Nat
    <3>1. l = Len(p) \/ l < Len(p)
      BY <1>3, <2>3
    <3>2. d[Len(p)] \in Nat /\ d[l] <= d[Len(p)]
      BY <1>3, <1>5, <2>6, <2>8, <3>1
    <3> QED BY <1>5, <2>8, <3>2
  <2>10. Len(s) <= Len(t) /\ \A i \in 1 .. Len(s) : s[i] = t[i]
    BY <1>7 DEF Begins
  <2>11. CASE l > Len(q)
    <3>1. m = Len(q)
      BY <1>4, <2>3, <2>5, <2>6, <2>11
    <3>2. Len(t) = d[m] + 1
      BY <1>5, <2>7, <3>1
    <3> QED BY <2>8, <2>9, <2>10, <3>2
  <2>12. CASE ~(l > Len(q))
    <3>1. l \in 1 .. Len(q) /\ l \in 0 .. Len(q) /\ p[l] # q[l]
      BY <1>4, <2>3, <2>12
    <3>2. PICK a, b : a = Len(p[l]) /\ b = Len(q[l])
      OBVIOUS
    <3>3. /\ e[l] = d[m] + 1 + b /\ b \in Nat \ {0} /\ q[l] \in PathNames
          /\ a \in Nat \ {0} /\ d[l] = d[m] + 1 + a
      BY <1>4, <2>5, <2>7, <2>8, <3>1, <3>2
    <3>4. /\ \A j \in 1 .. a : s[d[m] + 1 + j] = p[l][j] /\ p[l][j] # Selection!Separator
          /\ \A j \in 1 .. b : t[d[m] + 1 + j] = q[l][j] /\ q[l][j] # Selection!Separator
      <4>1. \A j \in 1 .. a : s[d[m] + 1 + j] = p[l][j]
        BY <1>1, <2>3, <2>5, <3>2 DEF Layout
      <4>2. \A j \in 1 .. b : t[d[m] + 1 + j] = q[l][j]
        BY <1>2, <2>5, <2>7, <3>1, <3>2 DEF Layout
      <4> QED BY <2>8, <3>2, <3>3, <4>1, <4>2, NamesAreTyped
    <3>5. s[d[m] + 1 + (a + 1)] = Selection!Separator
      <4>1. s[d[l] + 1] = Selection!Separator
        BY <1>1, <2>6 DEF Layout
      <4>2. d[l] + 1 = d[m] + 1 + (a + 1)
        <5>1. d[m] \in Nat /\ a \in Nat /\ d[l] = d[m] + 1 + a
          BY <2>8, <3>3
        <5> QED BY <5>1, PlaceMoved
      <4> QED BY <4>1, <4>2
    <3>6. t[d[m] + 1 + (b + 1)] = Selection!Separator
      <4>1. t[e[l] + 1] = Selection!Separator
        BY <1>2, <3>1 DEF Layout
      <4>2. e[l] + 1 = d[m] + 1 + (b + 1)
        <5>1. d[m] \in Nat /\ b \in Nat /\ e[l] = d[m] + 1 + b
          BY <2>8, <3>3
        <5> QED BY <5>1, PlaceMoved
      <4> QED BY <4>1, <4>2
    <3>7. \A j \in 1 .. a + 1 : s[d[m] + 1 + j] = t[d[m] + 1 + j]
      <4> TAKE j \in 1 .. a + 1
      <4>1. d[m] + 1 + j \in 1 .. Len(s)
        <5>1. d[m] \in Nat /\ a \in Nat /\ Len(s) \in Nat /\ (d[m] + 1 + a) + 1 <= Len(s)
          BY <2>8, <2>9, <3>3
        <5> QED BY <5>1, PlaceWithin
      <4> QED BY <2>10, <4>1
    <3>8. CASE a = b
      <4>1. p[l] = q[l]
        <5>1. p[l] \in Seq(Chars) /\ q[l] \in Seq(Chars)
          BY <2>8, <3>3, NamesAreTyped
        <5>2. \A j \in 1 .. a : p[l][j] = q[l][j]
          <6> TAKE j \in 1 .. a
          <6>1. j \in 1 .. a + 1 /\ j \in 1 .. b
            BY <3>3, <3>8
          <6> QED BY <3>4, <3>7, <6>1
        <5> QED BY <3>2, <3>8, <5>1, <5>2, SeqEqual
      <4> QED BY <3>1, <4>1
    <3>9. CASE a < b
      <4>1. a + 1 \in 1 .. b /\ a + 1 \in 1 .. a + 1
        BY <3>3, <3>9
      <4> QED BY <3>4, <3>5, <3>7, <4>1
    <3>10. CASE b < a
      <4>1. b + 1 \in 1 .. a /\ b + 1 \in 1 .. a + 1
        BY <3>3, <3>10
      <4> QED BY <3>4, <3>6, <3>7, <4>1
    <3> QED BY <3>3, <3>8, <3>9, <3>10
  <2> QED BY <2>11, <2>12
<1> QED BY <1>1, <1>2, <1>6, <1>7

(* Two sequences begin alike just when they agree place by place.             *)
LEMMA EqualBeginnings ==
  ASSUME NEW S, NEW s \in Seq(S), NEW t \in Seq(S), NEW k \in Nat, k <= Len(s), k <= Len(t)
  PROVE  SubSeq(s, 1, k) = SubSeq(t, 1, k) <=> \A i \in 1 .. k : s[i] = t[i]
<1>1. Len(s) \in Nat /\ Len(t) \in Nat
  OBVIOUS
<1>2. \A i \in 1 .. k : s[i] \in S /\ t[i] \in S
  <2>1. \A i \in 1 .. k : i \in 1 .. Len(s) /\ i \in 1 .. Len(t)
    BY <1>1
  <2> QED BY <2>1, ElementOfSeq
<1>3. PICK a : a = SubSeq(s, 1, k)
  OBVIOUS
<1>4. PICK b : b = SubSeq(t, 1, k)
  OBVIOUS
<1>5. a \in Seq(S) /\ Len(a) = k /\ \A i \in 1 .. k : a[i] = s[i]
  <2>1. /\ a \in Seq(S) /\ Len(a) = IF 1 <= k THEN k - 1 + 1 ELSE 0
        /\ \A i \in 1 .. k - 1 + 1 : a[i] = s[1 + i - 1]
    BY <1>2, <1>3, SubSeqProperties
  <2> QED BY <2>1
<1>6. b \in Seq(S) /\ Len(b) = k /\ \A i \in 1 .. k : b[i] = t[i]
  <2>1. /\ b \in Seq(S) /\ Len(b) = IF 1 <= k THEN k - 1 + 1 ELSE 0
        /\ \A i \in 1 .. k - 1 + 1 : b[i] = t[1 + i - 1]
    BY <1>2, <1>4, SubSeqProperties
  <2> QED BY <2>1
<1>7. a = b => \A i \in 1 .. k : s[i] = t[i]
  BY <1>5, <1>6
<1>8. (\A i \in 1 .. k : s[i] = t[i]) => a = b
  BY <1>5, <1>6, SeqEqual
<1> QED BY <1>3, <1>4, <1>7, <1>8

(* A prefix is a beginning.                                                   *)
LEMMA PrefixBegins ==
  ASSUME NEW S, NEW s \in Seq(S), NEW t \in Seq(S)
  PROVE  Selection!IsPrefix(s, t) <=> Begins(s, t)
<1>1. Len(s) \in Nat /\ Len(s) <= Len(s)
  OBVIOUS
<1> QED BY <1>1, EqualBeginnings DEF Selection!IsPrefix, Begins

(* The common prefix is the whole parent just when the child begins with it.  *)
LEMMA WholeParentIsCommon ==
  ASSUME NEW s \in Seq(Chars), NEW t \in Seq(Chars)
  PROVE  Selection!CommonPrefix(s, t) = s <=> Begins(s, t)
<1> DEFINE Common(k) == /\ k <= Len(t) /\ SubSeq(s, 1, k) = SubSeq(t, 1, k)
                        /\ k < Len(s) /\ k < Len(t) => s[k + 1] # t[k + 1]
           Stop == {k \in Nat : k = Len(s) \/ k = Len(t) \/ s[k + 1] # t[k + 1]}
<1>1. Len(s) \in Nat /\ Len(t) \in Nat
  OBVIOUS
<1>2. \E k \in 0 .. Len(s) : Common(k)
  <2>1. PICK k \in Stop : \A l \in Stop : k <= l
    <3>1. Stop \in SUBSET Nat /\ Len(s) \in Stop
      BY <1>1
    <3> HIDE DEF Stop
    <3> QED BY <3>1, LeastExists
  <2>2. k \in Nat /\ (k = Len(s) \/ k = Len(t) \/ s[k + 1] # t[k + 1])
    OBVIOUS
  <2>3. k <= Len(s) /\ k <= Len(t)
    <3>1. Len(s) \in Stop /\ Len(t) \in Stop
      BY <1>1
    <3> HIDE DEF Stop
    <3> QED BY <2>1, <3>1
  <2>4. \A i \in 1 .. k : s[i] = t[i]
    <3> TAKE i \in 1 .. k
    <3>1. i - 1 \in Nat /\ ~(k <= i - 1) /\ (i - 1) + 1 = i
      BY <2>2
    <3>2. i - 1 \notin Stop
      <4> HIDE DEF Stop
      <4> QED BY <2>1, <3>1
    <3> QED BY <3>1, <3>2
  <2>5. SubSeq(s, 1, k) = SubSeq(t, 1, k)
    BY <2>2, <2>3, <2>4, EqualBeginnings
  <2>6. k < Len(s) /\ k < Len(t) => s[k + 1] # t[k + 1]
    BY <1>1, <2>2
  <2>7. k \in 0 .. Len(s)
    BY <1>1, <2>2, <2>3
  <2> QED BY <2>3, <2>5, <2>6, <2>7
<1>3. PICK n : n = CHOOSE k \in 0 .. Len(s) : Common(k)
  OBVIOUS
<1>4. n \in 0 .. Len(s) /\ Common(n)
  BY <1>2, <1>3
<1>5. Selection!CommonPrefix(s, t) = SubSeq(s, 1, n)
  BY <1>3 DEF Selection!CommonPrefix
<1>6. \A i \in 1 .. n : s[i] = t[i]
  <2>1. n \in Nat /\ n <= Len(s) /\ n <= Len(t)
    BY <1>1, <1>4
  <2> QED BY <1>4, <2>1, EqualBeginnings
<1>7. ASSUME SubSeq(s, 1, n) = s PROVE Begins(s, t)
  <2>1. \A i \in 1 .. n : s[i] \in Chars
    <3>1. \A i \in 1 .. n : i \in 1 .. Len(s)
      BY <1>1, <1>4
    <3> QED BY <3>1, ElementOfSeq
  <2>2. Len(SubSeq(s, 1, n)) = IF 1 <= n THEN n - 1 + 1 ELSE 0
    BY <1>4, <2>1, SubSeqProperties
  <2>3. n = Len(s)
    BY <1>1, <1>4, <1>7, <2>2
  <2> QED BY <1>4, <1>6, <2>3 DEF Begins
<1>8. ASSUME Begins(s, t) PROVE SubSeq(s, 1, n) = s
  <2>1. n = Len(s)
    <3> SUFFICES ASSUME n # Len(s) PROVE FALSE
      OBVIOUS
    <3>1. n < Len(s) /\ n < Len(t) /\ n + 1 \in 1 .. Len(s)
      BY <1>1, <1>4, <1>8 DEF Begins
    <3>2. s[n + 1] = t[n + 1]
      BY <1>8, <3>1 DEF Begins
    <3> QED BY <1>4, <3>1, <3>2
  <2> QED BY <2>1, SubSeqFull
<1> QED BY <1>5, <1>7, <1>8

(* A sequence is its beginning and the rest.                                  *)
LEMMA BeginningAndRest ==
  ASSUME NEW S, NEW s \in Seq(S), NEW t \in Seq(S), Begins(s, t)
  PROVE  t = s \o SubSeq(t, Len(s) + 1, Len(t))
<1>1. Len(s) \in Nat /\ Len(t) \in Nat /\ Len(s) <= Len(t)
  BY DEF Begins
<1>2. s = SubSeq(t, 1, Len(s))
  <2>1. SubSeq(s, 1, Len(s)) = SubSeq(t, 1, Len(s))
    BY <1>1, EqualBeginnings DEF Begins
  <2> QED BY <2>1, SubSeqFull
<1>3. SubSeq(t, 1, Len(s)) \o SubSeq(t, Len(s) + 1, Len(t)) = SubSeq(t, 1, Len(t))
  <2>1. 1 \in 1 .. Len(t) + 1 /\ Len(s) \in 1 - 1 .. Len(t) /\ Len(t) \in Len(s) .. Len(t)
    BY <1>1
  <2> QED BY <2>1, ConcatAdjacentSubSeq
<1> QED BY <1>2, <1>3, SubSeqFull

(* A sequence begins what is put together of it and another.                  *)
LEMMA BeginsWhatIsJoined ==
  ASSUME NEW S, NEW s \in Seq(S), NEW t \in Seq(S)
  PROVE  Begins(s, s \o t)
BY ConcatPlaces DEF Begins

(* The text of a path with names begins with a separator and ends in none.    *)
LEMMA TextOfNames ==
  ASSUME NEW p \in Seq(PathNames), p # <<>>
  PROVE  /\ Selection!Text(p) \in Seq(Chars)
         /\ Len(Selection!Text(p)) \in Nat /\ Len(Selection!Text(p)) >= 2
         /\ Selection!Text(p)[1] = Selection!Separator
         /\ Selection!Text(p)[2] # Selection!Separator
         /\ Selection!Text(p)[Len(Selection!Text(p))] # Selection!Separator
<1>1. PICK t : t = Selection!Text(p)
  OBVIOUS
<1>2. PICK n : n = Len(p)
  OBVIOUS
<1>3. n \in Nat \ {0} /\ 1 \in 1 .. n /\ n \in 1 .. n /\ 0 \in 0 .. n - 1 /\ n - 1 \in 0 .. n /\ n \in 0 .. n
  <2>1. n \in Nat \ {0}
    BY <1>2
  <2> QED BY <2>1
<1>4. PICK ends : t \in Seq(Chars) /\ Spells(p, n, t, ends)
  BY <1>1, <1>2, TextIsSpelled
<1>5. /\ ends[0] = 0 /\ Len(t) = ends[n] /\ ends[n] \in Nat /\ ends[n - 1] \in Nat
      /\ t[ends[0] + 1] = Selection!Separator
      /\ ends[n] = ends[n - 1] + 1 + Len(p[n]) /\ ends[0] < ends[n]
      /\ \A j \in 1 .. Len(p[1]) : t[ends[1 - 1] + 1 + j] = p[1][j]
      /\ \A j \in 1 .. Len(p[n]) : t[ends[n - 1] + 1 + j] = p[n][j]
  <2>1. ends \in [0 .. n -> Nat]
    BY <1>4 DEF Spells
  <2>2. ends[n] \in Nat /\ ends[n - 1] \in Nat
    BY <1>3, <2>1
  <2> QED BY <1>3, <1>4, <2>2 DEF Spells
<1>6. p[1] \in PathNames /\ p[n] \in PathNames
  BY <1>2, <1>3, ElementOfSeq
<1>7. /\ Len(p[1]) \in Nat \ {0} /\ \A i \in 1 .. Len(p[1]) : p[1][i] # Selection!Separator
      /\ Len(p[n]) \in Nat \ {0} /\ \A i \in 1 .. Len(p[n]) : p[n][i] # Selection!Separator
  BY <1>6, NamesAreTyped
<1>8. PICK a \in Nat \ {0} : a = Len(p[n])
  BY <1>7
<1>9. PICK e \in Nat : e = ends[n - 1]
  BY <1>5
<1>10. Len(t) = e + 1 + a /\ Len(t) \in Nat /\ Len(t) >= 2 /\ a \in 1 .. a
  BY <1>5, <1>8, <1>9
<1>11. t[Len(t)] # Selection!Separator
  <2>1. t[e + 1 + a] = p[n][a]
    BY <1>5, <1>8, <1>9, <1>10
  <2>2. p[n][a] # Selection!Separator
    BY <1>7, <1>8, <1>10
  <2> QED BY <1>10, <2>1, <2>2
<1>12. t[1] = Selection!Separator
  BY <1>5
<1>13. t[2] # Selection!Separator
  <2>1. 1 \in 1 .. Len(p[1]) /\ 1 - 1 = 0
    BY <1>7
  <2>2. t[0 + 1 + 1] = p[1][1]
    BY <1>5, <2>1
  <2>3. p[1][1] # Selection!Separator
    BY <1>7, <2>1
  <2> QED BY <2>2, <2>3
<1> QED BY <1>1, <1>4, <1>10, <1>11, <1>12, <1>13

(* The text of the path without names is a separator.                         *)
LEMMA TextOfRoot ==
  /\ Selection!Text(<<>>) = <<Selection!Separator>> /\ Selection!Text(<<>>) \in Seq(Chars)
  /\ Len(Selection!Text(<<>>)) = 1 /\ Selection!Text(<<>>)[1] = Selection!Separator
BY SeparatorIsChar DEF Selection!Text

(* Names of a path, and its text closed by a separator.                       *)
LEMMA ClosedText ==
  ASSUME NEW p \in Seq(PathNames), p # <<>>, NEW t, t = Selection!Text(p)
  PROVE  /\ Closed(p) = t \o <<Selection!Separator>> /\ Closed(p) \in Seq(Chars)
         /\ Len(Closed(p)) = Len(t) + 1
         /\ \A i \in 1 .. Len(t) : Closed(p)[i] = t[i]
         /\ Closed(p)[Len(t) + 1] = Selection!Separator
<1>1. Closed(p) = t \o <<Selection!Separator>>
  BY DEF Closed
<1>2. PICK one : one = <<Selection!Separator>>
  OBVIOUS
<1>3. one \in Seq(Chars) /\ t \in Seq(Chars) /\ Len(one) = 1 /\ one[1] = Selection!Separator
  BY <1>2, SeparatorIsChar, TextOfNames
<1>4. /\ t \o one \in Seq(Chars) /\ Len(t \o one) = Len(t) + Len(one)
      /\ \A i \in 1 .. Len(t) : (t \o one)[i] = t[i]
      /\ \A i \in 1 .. Len(one) : (t \o one)[Len(t) + i] = one[i]
  <2>1. t \in Seq(Chars) /\ one \in Seq(Chars)
    BY <1>3
  <2> QED BY <2>1, ConcatPlaces
<1>5. (t \o one)[Len(t) + 1] = Selection!Separator
  <2>1. 1 \in 1 .. Len(one)
    BY <1>3
  <2> QED BY <1>3, <1>4, <2>1
<1> QED BY <1>1, <1>2, <1>3, <1>4, <1>5

(* A path is a prefix of another just when its closed text is one.            *)
LEMMA BeginsNames ==
  ASSUME NEW p \in Seq(PathNames), NEW q \in Seq(PathNames)
  PROVE  Selection!IsPrefix(p, q) <=> Begins(Closed(p), Closed(q))
BY PrefixBegins, TextsBeginAsPathsDo DEF Begins

(* A path is left out just when it is the excluded one or below it.           *)
LEMMA ParentOrSameByNames ==
  ASSUME NEW p \in Seq(PathNames), NEW q \in Seq(PathNames)
  PROVE  Selection!IsParentOrSame(Selection!Text(p), Selection!Text(q)) <=> Selection!IsPrefix(p, q)
<1>1. PICK s, t : s = Selection!Text(p) /\ t = Selection!Text(q)
  OBVIOUS
<1>2. s \in Seq(Chars) /\ t \in Seq(Chars) /\ Len(s) \in Nat \ {0} /\ Len(t) \in Nat \ {0}
  <2>1. s \in Seq(Chars) /\ Len(s) \in Nat /\ Len(s) >= 1
    BY <1>1, TextOfNames, TextOfRoot
  <2>2. t \in Seq(Chars) /\ Len(t) \in Nat /\ Len(t) >= 1
    BY <1>1, TextOfNames, TextOfRoot
  <2> QED BY <2>1, <2>2
<1>3. PICK suffix : suffix = Selection!StripLeft(SubSeq(t, Len(s) + 1, Len(t)))
  OBVIOUS
<1>4. Selection!IsParentOrSame(s, t) <=> s = t \/ (Begins(s, t) /\ t = Selection!Join(s, suffix))
  <2>1. Selection!CommonPrefix(s, t) = s <=> Begins(s, t)
    BY <1>2, WholeParentIsCommon
  <2> QED BY <1>3, <2>1 DEF Selection!IsParentOrSame
<1>5. \A i \in 1 .. Len(t) : t[i] \in Chars
  BY <1>2, ElementOfSeq
<1>6. /\ SubSeq(t, Len(s) + 1, Len(t)) \in Seq(Chars)
      /\ Len(SubSeq(t, Len(s) + 1, Len(t))) = IF Len(s) + 1 <= Len(t) THEN Len(t) - Len(s) ELSE 0
      /\ Len(s) < Len(t) => Head(SubSeq(t, Len(s) + 1, Len(t))) = t[Len(s) + 1]
      /\ Len(s) < Len(t) => Tail(SubSeq(t, Len(s) + 1, Len(t))) = SubSeq(t, Len(s) + 2, Len(t))
  <2>1. \A i \in Len(s) + 1 .. Len(t) : t[i] \in Chars
    BY <1>2, <1>5
  <2>2. /\ SubSeq(t, Len(s) + 1, Len(t)) \in Seq(Chars)
        /\ Len(SubSeq(t, Len(s) + 1, Len(t)))
             = IF Len(s) + 1 <= Len(t) THEN Len(t) - (Len(s) + 1) + 1 ELSE 0
    <3>1. Len(s) + 1 \in Int /\ Len(t) \in Int
      BY <1>2
    <3> QED BY <2>1, <3>1, SubSeqProperties
  <2>3. ASSUME Len(s) < Len(t)
        PROVE  /\ Head(SubSeq(t, Len(s) + 1, Len(t))) = t[Len(s) + 1]
               /\ Tail(SubSeq(t, Len(s) + 1, Len(t))) = SubSeq(t, (Len(s) + 1) + 1, Len(t))
    <3>1. Len(s) + 1 \in 1 .. Len(t) /\ Len(t) \in Len(s) + 1 .. Len(t)
      BY <1>2, <2>3
    <3> QED BY <1>2, <3>1, HeadTailOfSubSeq
  <2>4. (Len(s) + 1) + 1 = Len(s) + 2 /\ Len(t) - (Len(s) + 1) + 1 = Len(t) - Len(s)
    BY <1>2
  <2> QED BY <2>2, <2>3, <2>4
<1>7. suffix \in Seq(Chars)
  <2>1. \A r \in Seq(Chars) : Selection!StripLeft(r) \in Seq(Chars)
    <3> SUFFICES ASSUME NEW r \in Seq(Chars) PROVE Selection!StripLeft(r) \in Seq(Chars)
      OBVIOUS
    <3>1. r # <<>> => Tail(r) \in Seq(Chars)
      BY HeadTailProperties
    <3> QED BY <3>1 DEF Selection!StripLeft
  <2> QED BY <1>3, <1>6, <2>1
<1>8. CASE p = <<>>
  <2>1. Selection!IsPrefix(p, q)
    <3>1. Begins(p, q)
      BY <1>8 DEF Begins
    <3> QED BY <3>1, PrefixBegins
  <2>2. s = <<Selection!Separator>> /\ Len(s) = 1 /\ s[1] = Selection!Separator
    BY <1>1, <1>8, TextOfRoot
  <2>3. CASE q = <<>>
    BY <1>1, <1>4, <1>8, <2>1, <2>3
  <2>4. CASE q # <<>>
    <3>1. Len(t) >= 2 /\ t[1] = Selection!Separator /\ t[2] # Selection!Separator
      BY <1>1, <2>4, TextOfNames
    <3>2. Begins(s, t)
      <4>1. Len(s) <= Len(t) /\ \A i \in 1 .. 1 : i = 1
        BY <1>2, <2>2, <3>1
      <4> QED BY <2>2, <3>1, <4>1 DEF Begins
    <3>3. suffix = SubSeq(t, Len(s) + 1, Len(t))
      <4>1. Len(s) < Len(t) /\ Len(s) + 1 = 2
        BY <1>2, <2>2, <3>1
      <4> QED BY <1>3, <1>6, <3>1, <4>1 DEF Selection!StripLeft
    <3>4. t = s \o suffix
      BY <1>2, <3>2, <3>3, BeginningAndRest
    <3>5. Selection!Join(s, suffix) = s \o suffix
      BY <1>2, <2>2 DEF Selection!Join, Selection!Last
    <3> QED BY <1>1, <1>4, <2>1, <3>2, <3>4, <3>5
  <2> QED BY <2>3, <2>4
<1>9. CASE p # <<>>
  <2>1. Len(s) >= 2 /\ s[Len(s)] # Selection!Separator
    BY <1>1, <1>9, TextOfNames
  <2>2. PICK c : c = Closed(p)
    OBVIOUS
  <2>3. /\ c = s \o <<Selection!Separator>> /\ c \in Seq(Chars) /\ Len(c) = Len(s) + 1
        /\ \A i \in 1 .. Len(s) : c[i] = s[i]
        /\ c[Len(s) + 1] = Selection!Separator
    BY <1>1, <1>9, <2>2, ClosedText
  <2>4. Selection!Join(s, suffix) = c \o suffix
    <3>1. s # <<>> /\ ~(Selection!Last(s) = Selection!Separator)
      BY <1>2, <2>1 DEF Selection!Last
    <3>2. Selection!Join(s, suffix) = s \o <<Selection!Separator>> \o suffix
      BY <3>1 DEF Selection!Join
    <3> QED BY <2>3, <3>2
  <2>5. CASE q = <<>>
    <3>1. Len(t) = 1
      BY <1>1, <2>5, TextOfRoot
    <3>2. ~Selection!IsParentOrSame(s, t)
      <4>1. s # t /\ ~Begins(s, t)
        BY <2>1, <3>1 DEF Begins
      <4> QED BY <1>4, <4>1
    <3>3. ~Selection!IsPrefix(p, q)
      <4>1. Len(p) \in Nat \ {0} /\ Len(q) = 0
        BY <1>9, <2>5
      <4>2. ~Begins(p, q)
        BY <4>1 DEF Begins
      <4> QED BY <4>2, PrefixBegins
    <3> QED BY <1>1, <3>2, <3>3
  <2>6. CASE q # <<>>
    <3>1. PICK d : d = Closed(q)
      OBVIOUS
    <3>2. /\ d \in Seq(Chars) /\ Len(d) = Len(t) + 1
          /\ \A i \in 1 .. Len(t) : d[i] = t[i]
          /\ d[Len(t) + 1] = Selection!Separator
      BY <1>1, <2>6, <3>1, ClosedText
    <3>3. t[Len(t)] # Selection!Separator
      BY <1>1, <2>6, TextOfNames
    <3>4. Selection!IsPrefix(p, q) <=> Begins(c, d)
      BY <2>2, <3>1, BeginsNames
    <3>5. Begins(c, d) <=> s = t \/ Begins(c, t)
      <4>1. ASSUME s = t PROVE Begins(c, d)
        <5>1. \A i \in 1 .. Len(s) + 1 : i \in 1 .. Len(s) \/ i = Len(s) + 1
          BY <1>2
        <5>2. Len(c) <= Len(d)
          BY <1>2, <2>3, <3>2, <4>1
        <5> QED BY <2>3, <3>2, <4>1, <5>1, <5>2 DEF Begins
      <4>2. ASSUME Begins(c, t) PROVE Begins(c, d)
        <5>1. Len(c) <= Len(t) /\ Len(c) <= Len(d) /\ \A i \in 1 .. Len(c) : i \in 1 .. Len(t)
          BY <1>2, <2>3, <3>2, <4>2 DEF Begins
        <5> QED BY <3>2, <4>2, <5>1 DEF Begins
      <4>3. ASSUME Begins(c, d), s # t PROVE Begins(c, t)
        <5>1. Len(c) <= Len(d) /\ \A i \in 1 .. Len(c) : c[i] = d[i]
          BY <4>3 DEF Begins
        <5>2. Len(s) <= Len(t)
          BY <1>2, <2>3, <3>2, <5>1
        <5>3. \A i \in 1 .. Len(s) : s[i] = t[i]
          <6> TAKE i \in 1 .. Len(s)
          <6>1. i \in 1 .. Len(c) /\ i \in 1 .. Len(t)
            BY <1>2, <2>3, <5>2
          <6> QED BY <2>3, <3>2, <5>1, <6>1
        <5>4. Len(s) # Len(t)
          BY <1>2, <4>3, <5>3, SeqEqual
        <5>5. Len(c) <= Len(t) /\ \A i \in 1 .. Len(c) : i \in 1 .. Len(t)
          BY <1>2, <2>3, <5>2, <5>4
        <5>6. \A i \in 1 .. Len(c) : c[i] = t[i]
          BY <3>2, <5>1, <5>5
        <5> QED BY <5>5, <5>6 DEF Begins
      <4> QED BY <4>1, <4>2, <4>3
    <3>6. Begins(s, t) /\ t = c \o suffix <=> Begins(c, t)
      <4>1. ASSUME Begins(s, t), t = c \o suffix PROVE Begins(c, t)
        BY <1>7, <2>3, <4>1, BeginsWhatIsJoined
      <4>2. ASSUME Begins(c, t) PROVE Begins(s, t) /\ t = c \o suffix
        <5>1. Len(c) <= Len(t) /\ \A i \in 1 .. Len(c) : c[i] = t[i]
          BY <4>2 DEF Begins
        <5>2. /\ Len(s) < Len(t) /\ Len(s) <= Len(t) /\ Len(s) + 1 \in 1 .. Len(c)
              /\ \A i \in 1 .. Len(s) : i \in 1 .. Len(c)
          BY <1>2, <2>3, <5>1
        <5>3. Begins(s, t)
          BY <2>3, <5>1, <5>2 DEF Begins
        <5>4. t[Len(s) + 1] = Selection!Separator
          BY <2>3, <5>1, <5>2
        <5>5. suffix = SubSeq(t, Len(s) + 2, Len(t))
          <6>1. SubSeq(t, Len(s) + 1, Len(t)) # <<>>
              <7>1. Len(s) + 1 <= Len(t) /\ Len(t) - Len(s) # 0
              BY <1>2, <5>2
            <7>2. Len(SubSeq(t, Len(s) + 1, Len(t))) # 0 /\ Len(<<>>) = 0
              BY <1>6, <7>1
            <7> QED BY <7>2
          <6> QED BY <1>3, <1>6, <5>2, <5>4, <6>1 DEF Selection!StripLeft
        <5>6. t = c \o SubSeq(t, Len(c) + 1, Len(t))
          BY <1>2, <2>3, <4>2, BeginningAndRest
        <5>7. Len(c) + 1 = Len(s) + 2
          BY <1>2, <2>3
        <5> QED BY <5>3, <5>5, <5>6, <5>7
      <4> QED BY <4>1, <4>2
    <3> QED BY <1>1, <1>4, <2>4, <3>4, <3>5, <3>6
  <2> QED BY <2>5, <2>6
<1> QED BY <1>8, <1>9

OptionsBefore(option, n) == {i \in 1 .. n : given.opts[i].name = option}

(* What the first n options say.                                              *)
AfterOptions(n) ==
  /\ recursive <=> OptionsBefore("recursive", n) # {}
  /\ excludes = UNION {given.opts[i].paths : i \in OptionsBefore("exclude", n)}
  /\ OptionsBefore("extensions", n) = {} => extensions = DefaultExtensions
  /\ \A i \in OptionsBefore("extensions", n) :
       (\A j \in OptionsBefore("extensions", n) : j <= i) => extensions = given.opts[i].extensions

SelectedFiles ==
  IF recursive
  THEN {f \in Tree \cup given.paths :
          /\ ~Selection!IsDirectory(f) /\ Extension[f] \in extensions
          /\ \E p \in given.paths : Selection!IsPrefix(p, f)}
  ELSE given.paths

(* The options read so far decide; the files follow from them.                *)
SelectionInv ==
  /\ given \in [opts : OptionSets, paths : Arguments]
  /\ selecting \in {"options", "usage", "expand", "exclude", "done"}
  /\ \E n \in 0 .. Len(given.opts) :
       /\ args = SubSeq(given.opts, n + 1, Len(given.opts)) /\ AfterOptions(n)
       /\ selecting \notin {"options", "usage"} => n = Len(given.opts)
  /\ selecting \in {"options", "usage", "expand"} => filenames = given.paths
  /\ selecting = "expand" => recursive
  /\ selecting = "exclude" => filenames = SelectedFiles
  /\ selecting = "done" =>
       filenames = {f \in SelectedFiles : ~\E e \in excludes : Selection!IsPrefix(e, f)}

(* The options and the paths of a command line.                               *)
LEMMA CommandLineIsTyped ==
  ASSUME given \in [opts : OptionSets, paths : Arguments]
  PROVE  /\ given.opts \in Seq(Selection!Option) /\ Len(given.opts) \in Nat
         /\ DOMAIN given.opts = 1 .. Len(given.opts)
         /\ \A i \in 1 .. Len(given.opts) : given.opts[i].paths \subseteq Seq(PathNames)
         /\ given.paths \subseteq Seq(PathNames)
         /\ SubSeq(given.opts, 1, Len(given.opts)) = given.opts
<1>1. given.opts \in Seq(Selection!Option) /\ given.paths \subseteq Seq(PathNames)
  BY SelectionAssumption DEF Selection!TreeAssumption
<1>2. \A i \in 1 .. Len(given.opts) : given.opts[i].paths \subseteq Seq(PathNames)
  <2> TAKE i \in 1 .. Len(given.opts)
  <2>1. given.opts[i] \in Selection!Option
    BY <1>1, ElementOfSeq
  <2> QED BY <2>1 DEF Selection!Option
<1>3. Len(given.opts) \in Nat /\ DOMAIN given.opts = 1 .. Len(given.opts)
  BY <1>1
<1>4. SubSeq(given.opts, 1, Len(given.opts)) = given.opts
  BY <1>1, SubSeqFull
<1> QED BY <1>1, <1>2, <1>3, <1>4

(* Before the first option nothing has been selected.                         *)
LEMMA SelectionInitInv == Selection!Init => SelectionInv
<1> SUFFICES ASSUME Selection!Init PROVE SelectionInv
  OBVIOUS
<1>1. given \in [opts : OptionSets, paths : Arguments]
  BY DEF Selection!Init
<1>2. /\ args = given.opts /\ filenames = given.paths /\ recursive = FALSE /\ excludes = {}
      /\ extensions = DefaultExtensions /\ selecting = "options"
  BY DEF Selection!Init
<1>3. 0 \in 0 .. Len(given.opts) /\ args = SubSeq(given.opts, 0 + 1, Len(given.opts))
  BY <1>1, <1>2, CommandLineIsTyped
<1>4. \A option : OptionsBefore(option, 0) = {}
  BY DEF OptionsBefore
<1>5. AfterOptions(0)
  BY <1>2, <1>4 DEF AfterOptions
<1> QED BY <1>1, <1>2, <1>3, <1>5 DEF SelectionInv

(* What one more option changes.                                              *)
LEMMA OneMoreOption ==
  ASSUME NEW n \in Nat, NEW option
  PROVE  OptionsBefore(option, n + 1) =
           IF given.opts[n + 1].name = option THEN OptionsBefore(option, n) \cup {n + 1}
           ELSE OptionsBefore(option, n)
<1>1. \A i : i \in 1 .. n + 1 <=> i \in 1 .. n \/ i = n + 1
  OBVIOUS
<1> QED BY <1>1 DEF OptionsBefore

(* The option that is read is counted in.                                     *)
LEMMA OptionRead ==
  ASSUME NEW n \in Nat, AfterOptions(n), given' = given,
         recursive' = (recursive \/ given.opts[n + 1].name = "recursive"),
         excludes' = IF given.opts[n + 1].name = "exclude" THEN excludes \cup given.opts[n + 1].paths
                     ELSE excludes,
         extensions' = IF given.opts[n + 1].name = "extensions" THEN given.opts[n + 1].extensions
                       ELSE extensions
  PROVE  AfterOptions(n + 1)'
<1>1. \A option : OptionsBefore(option, n + 1)' = OptionsBefore(option, n + 1)
  BY DEF OptionsBefore
<1>2. n + 1 \notin 1 .. n /\ \A i \in 1 .. n : i <= n + 1 /\ ~(n + 1 <= i)
  OBVIOUS
<1>3. recursive' <=> OptionsBefore("recursive", n + 1) # {}
  BY OneMoreOption DEF AfterOptions
<1>4. excludes' = UNION {given.opts[i].paths : i \in OptionsBefore("exclude", n + 1)}
  <2>1. excludes = UNION {given.opts[i].paths : i \in OptionsBefore("exclude", n)}
    BY DEF AfterOptions
  <2>2. CASE given.opts[n + 1].name = "exclude"
    <3>1. OptionsBefore("exclude", n + 1) = OptionsBefore("exclude", n) \cup {n + 1}
      BY <2>2, OneMoreOption
    <3>2. excludes' = excludes \cup given.opts[n + 1].paths
      BY <2>2
    <3> QED BY <2>1, <3>1, <3>2
  <2>3. CASE given.opts[n + 1].name # "exclude"
    BY <2>1, <2>3, OneMoreOption
  <2> QED BY <2>2, <2>3
<1>5. CASE given.opts[n + 1].name = "extensions"
  <2>1. OptionsBefore("extensions", n + 1) = OptionsBefore("extensions", n) \cup {n + 1}
    BY <1>5, OneMoreOption
  <2>2. \A i \in OptionsBefore("extensions", n) : ~(n + 1 <= i)
    BY <1>2 DEF OptionsBefore
  <2>3. extensions' = given.opts[n + 1].extensions
    BY <1>5
  <2>4. \A i \in OptionsBefore("extensions", n + 1) :
          (\A j \in OptionsBefore("extensions", n + 1) : j <= i) => extensions' = given.opts[i].extensions
    BY <2>1, <2>2, <2>3
  <2> QED BY <1>1, <1>3, <1>4, <2>1, <2>4 DEF AfterOptions
<1>6. CASE given.opts[n + 1].name # "extensions"
  <2>1. OptionsBefore("extensions", n + 1) = OptionsBefore("extensions", n) /\ extensions' = extensions
    BY <1>6, OneMoreOption
  <2> QED BY <1>1, <1>3, <1>4, <2>1 DEF AfterOptions
<1> QED BY <1>5, <1>6

(* Directories are replaced by the files below them, others by themselves.    *)
LEMMA FilesBelow ==
  ASSUME NEW paths \in SUBSET Seq(PathNames)
  PROVE  Selection!Descending(paths)
           = {f \in Tree \cup paths : /\ ~Selection!IsDirectory(f)
                                     /\ \E p \in paths : Selection!IsPrefix(p, f)}
<1>1. \A p \in Tree : p \in Seq(PathNames) /\ \A q \in Tree : Selection!IsPrefix(p, q) => p = q
  BY SelectionAssumption DEF Selection!TreeAssumption
<1>2. \A p \in Seq(PathNames) : Selection!IsPrefix(p, p)
  <2> TAKE p \in Seq(PathNames)
  <2>1. Len(p) \in Nat
    OBVIOUS
  <2>2. Begins(p, p)
    BY <2>1 DEF Begins
  <2> QED BY <2>2, PrefixBegins
<1>3. ASSUME NEW f \in Selection!Descending(paths)
      PROVE  /\ f \in Tree \cup paths /\ ~Selection!IsDirectory(f)
             /\ \E p \in paths : Selection!IsPrefix(p, f)
  <2>1. CASE f \in paths /\ ~Selection!IsDirectory(f)
    BY <1>2, <2>1
  <2>2. CASE f \in Tree /\ \E p \in paths : Selection!IsPrefix(p, f)
    BY <1>1, <2>2 DEF Selection!IsDirectory
  <2> QED BY <1>3, <2>1, <2>2 DEF Selection!Descending
<1>4. ASSUME NEW f \in Tree \cup paths, ~Selection!IsDirectory(f), NEW p \in paths, Selection!IsPrefix(p, f)
      PROVE  f \in Selection!Descending(paths)
  <2>1. CASE f \in paths
    BY <1>4, <2>1 DEF Selection!Descending
  <2>2. CASE f \in Tree /\ f \notin paths
    <3>1. Selection!IsDirectory(p)
      BY <1>4, <2>2 DEF Selection!IsDirectory
    <3> QED BY <1>4, <2>2, <3>1 DEF Selection!Descending
  <2> QED BY <2>1, <2>2
<1> QED BY <1>3, <1>4

(* Every step of the reading and selecting keeps the invariant.               *)
LEMMA SelectionStepInv == SelectionInv /\ [Selection!Next]_selectionVars => SelectionInv'
<1> SUFFICES ASSUME SelectionInv, [Selection!Next]_selectionVars PROVE SelectionInv'
  OBVIOUS
<1>1. /\ given \in [opts : OptionSets, paths : Arguments]
      /\ given.opts \in Seq(Selection!Option) /\ Len(given.opts) \in Nat
      /\ \A i \in 1 .. Len(given.opts) : given.opts[i].paths \subseteq Seq(PathNames)
      /\ given.paths \subseteq Seq(PathNames)
  BY CommandLineIsTyped DEF SelectionInv
<1>2. PICK n \in 0 .. Len(given.opts) :
        /\ args = SubSeq(given.opts, n + 1, Len(given.opts)) /\ AfterOptions(n)
        /\ selecting \notin {"options", "usage"} => n = Len(given.opts)
  BY DEF SelectionInv
<1>3. n \in Nat
  BY <1>1
<1>4. n < Len(given.opts) =>
        /\ args # <<>> /\ Head(args) = given.opts[n + 1]
        /\ Tail(args) = SubSeq(given.opts, (n + 1) + 1, Len(given.opts))
  <2> SUFFICES ASSUME n < Len(given.opts)
               PROVE  /\ args # <<>> /\ Head(args) = given.opts[n + 1]
                      /\ Tail(args) = SubSeq(given.opts, (n + 1) + 1, Len(given.opts))
    OBVIOUS
  <2>1. n + 1 \in 1 .. Len(given.opts) /\ Len(given.opts) \in n + 1 .. Len(given.opts)
    BY <1>1, <1>3
  <2>2. /\ Head(args) = given.opts[n + 1]
        /\ Tail(args) = SubSeq(given.opts, (n + 1) + 1, Len(given.opts))
    BY <1>1, <1>2, <2>1, HeadTailOfSubSeq
  <2>3. args # <<>>
    <3>1. \A i \in n + 1 .. Len(given.opts) : given.opts[i] \in Selection!Option
      <4>1. \A i \in n + 1 .. Len(given.opts) : i \in 1 .. Len(given.opts)
        BY <1>1, <1>3
      <4> QED BY <1>1, <4>1, ElementOfSeq
    <3>2. Len(args) = IF n + 1 <= Len(given.opts) THEN Len(given.opts) - (n + 1) + 1 ELSE 0
      BY <1>1, <1>2, <1>3, <3>1, SubSeqProperties
    <3>3. n + 1 <= Len(given.opts) /\ Len(given.opts) - (n + 1) + 1 # 0
      BY <1>1, <1>3, <2>1
    <3>4. Len(args) # 0 /\ Len(<<>>) = 0
      BY <3>2, <3>3
    <3> QED BY <3>4
  <2> QED BY <2>2, <2>3
<1>5. n = Len(given.opts) => args = <<>>
  <2>1. Len(given.opts) + 1 \in Int /\ Len(given.opts) \in Int /\ Len(given.opts) < Len(given.opts) + 1
    BY <1>1
  <2> QED BY <1>2, <2>1, SubSeqEmpty
<1>6. n < Len(given.opts) \/ n = Len(given.opts)
  BY <1>1, <1>3
<1>7. \A m : given' = given /\ recursive' = recursive /\ excludes' = excludes /\ extensions' = extensions
               => (AfterOptions(m)' <=> AfterOptions(m))
  BY DEF AfterOptions, OptionsBefore
<1>8. given' = given /\ recursive' = recursive /\ extensions' = extensions
        => SelectedFiles' = SelectedFiles
  BY DEF SelectedFiles
<1>9. CASE Selection!ReadOption
  <2>1. /\ selecting = "options" /\ args # <<>> /\ given' = given /\ filenames' = filenames
        /\ args' = Tail(args)
        /\ selecting' = IF Head(args).name = "invalid" THEN "usage" ELSE selecting
        /\ recursive' = (recursive \/ Head(args).name = "recursive")
        /\ excludes' = IF Head(args).name = "exclude" THEN excludes \cup Head(args).paths ELSE excludes
        /\ extensions' = IF Head(args).name = "extensions" THEN Head(args).extensions ELSE extensions
    BY <1>9 DEF Selection!ReadOption
  <2>2. n < Len(given.opts)
    BY <1>5, <1>6, <2>1
  <2>3. Head(args) = given.opts[n + 1] /\ Tail(args) = SubSeq(given.opts, (n + 1) + 1, Len(given.opts))
    BY <1>4, <2>2
  <2>4. AfterOptions(n + 1)'
    BY <1>2, <1>3, <2>1, <2>3, OptionRead
  <2>5. n + 1 \in 0 .. Len(given.opts)
    BY <1>1, <1>3, <2>2
  <2>6. selecting' \in {"options", "usage"} /\ filenames' = given'.paths
    BY <2>1 DEF SelectionInv
  <2>7. \E m \in 0 .. Len(given'.opts) :
          /\ args' = SubSeq(given'.opts, m + 1, Len(given'.opts)) /\ AfterOptions(m)'
          /\ selecting' \notin {"options", "usage"} => m = Len(given'.opts)
    BY <2>1, <2>3, <2>4, <2>5, <2>6
  <2> QED BY <1>1, <2>1, <2>6, <2>7 DEF SelectionInv
<1>10. CASE Selection!OptionsRead
  <2>1. /\ selecting = "options" /\ args = <<>>
        /\ selecting' = IF filenames = {} THEN "usage" ELSE IF recursive THEN "expand" ELSE "exclude"
        /\ args' = args /\ given' = given /\ recursive' = recursive /\ excludes' = excludes
        /\ extensions' = extensions /\ filenames' = filenames
    BY <1>10 DEF Selection!OptionsRead
  <2>2. n = Len(given.opts)
    BY <1>4, <1>6, <2>1
  <2>3. \E m \in 0 .. Len(given'.opts) :
          /\ args' = SubSeq(given'.opts, m + 1, Len(given'.opts)) /\ AfterOptions(m)'
          /\ selecting' \notin {"options", "usage"} => m = Len(given'.opts)
    BY <1>2, <1>7, <2>1, <2>2
  <2>4. filenames = given.paths
    BY <2>1 DEF SelectionInv
  <2>5. selecting' = "exclude" => filenames' = SelectedFiles'
    BY <1>8, <2>1, <2>4 DEF SelectedFiles
  <2>6. /\ selecting' \in {"usage", "expand", "exclude"}
        /\ selecting' = "expand" => recursive'
    BY <2>1
  <2> QED BY <1>1, <2>1, <2>3, <2>4, <2>5, <2>6 DEF SelectionInv
<1>11. CASE Selection!ExpandDirectories
  <2>1. /\ selecting = "expand" /\ selecting' = "exclude"
        /\ filenames' = {f \in Selection!Descending(filenames) : Extension[f] \in extensions}
        /\ args' = args /\ given' = given /\ recursive' = recursive /\ excludes' = excludes
        /\ extensions' = extensions
    BY <1>11 DEF Selection!ExpandDirectories
  <2>2. n = Len(given.opts) /\ recursive /\ filenames = given.paths
    BY <1>2, <2>1 DEF SelectionInv
  <2>3. filenames' = SelectedFiles
    <3>1. Selection!Descending(filenames)
            = {f \in Tree \cup given.paths : /\ ~Selection!IsDirectory(f)
                                            /\ \E p \in given.paths : Selection!IsPrefix(p, f)}
      BY <1>1, <2>2, FilesBelow
    <3> QED BY <2>1, <2>2, <3>1 DEF SelectedFiles
  <2>4. \E m \in 0 .. Len(given'.opts) :
          /\ args' = SubSeq(given'.opts, m + 1, Len(given'.opts)) /\ AfterOptions(m)'
          /\ selecting' \notin {"options", "usage"} => m = Len(given'.opts)
    BY <1>2, <1>7, <2>1, <2>2
  <2> QED BY <1>1, <1>8, <2>1, <2>3, <2>4 DEF SelectionInv
<1>12. CASE Selection!FilterExcludedFiles
  <2>1. /\ selecting = "exclude" /\ selecting' = "done"
        /\ filenames' = {f \in filenames : ~\E e \in excludes :
                           Selection!IsParentOrSame(Selection!Text(e), Selection!Text(f))}
        /\ args' = args /\ given' = given /\ recursive' = recursive /\ excludes' = excludes
        /\ extensions' = extensions
    BY <1>12 DEF Selection!FilterExcludedFiles
  <2>2. n = Len(given.opts) /\ filenames = SelectedFiles
    BY <1>2, <2>1 DEF SelectionInv
  <2>3. excludes \subseteq Seq(PathNames)
    <3>1. excludes = UNION {given.opts[i].paths : i \in OptionsBefore("exclude", n)}
      BY <1>2 DEF AfterOptions
    <3>2. OptionsBefore("exclude", n) \subseteq 1 .. Len(given.opts)
      BY <2>2 DEF OptionsBefore
    <3> QED BY <1>1, <3>1, <3>2
  <2>4. filenames \subseteq Seq(PathNames)
    <3>1. Tree \subseteq Seq(PathNames)
      BY SelectionAssumption DEF Selection!TreeAssumption
    <3> QED BY <1>1, <2>2, <3>1 DEF SelectedFiles
  <2>5. \A e \in excludes, f \in filenames :
          Selection!IsParentOrSame(Selection!Text(e), Selection!Text(f)) <=> Selection!IsPrefix(e, f)
    BY <2>3, <2>4, ParentOrSameByNames
  <2>6. filenames' = {f \in SelectedFiles : ~\E e \in excludes : Selection!IsPrefix(e, f)}
    BY <2>1, <2>2, <2>5
  <2>7. \E m \in 0 .. Len(given'.opts) :
          /\ args' = SubSeq(given'.opts, m + 1, Len(given'.opts)) /\ AfterOptions(m)'
          /\ selecting' \notin {"options", "usage"} => m = Len(given'.opts)
    BY <1>2, <1>7, <2>1, <2>2
  <2> QED BY <1>1, <1>8, <2>1, <2>6, <2>7 DEF SelectionInv
<1>13. CASE UNCHANGED selectionVars
  <2>1. /\ args' = args /\ given' = given /\ recursive' = recursive /\ excludes' = excludes
        /\ extensions' = extensions /\ filenames' = filenames /\ selecting' = selecting
    BY <1>13 DEF selectionVars
  <2>2. \E m \in 0 .. Len(given'.opts) :
          /\ args' = SubSeq(given'.opts, m + 1, Len(given'.opts)) /\ AfterOptions(m)'
          /\ selecting' \notin {"options", "usage"} => m = Len(given'.opts)
    BY <1>2, <1>7, <2>1
  <2> QED BY <1>1, <1>8, <2>1, <2>2 DEF SelectionInv
<1> QED BY <1>9, <1>10, <1>11, <1>12, <1>13 DEF Selection!Next

(* Some option is the last one of its kind.                                   *)
LEMMA LastOption ==
  ASSUME NEW n \in Nat, NEW S \in SUBSET (1 .. n), S # {}
  PROVE  Selection!Max(S) \in S /\ \A i \in S : i <= Selection!Max(S)
<1> DEFINE FromTheEnd == {k \in Nat : n - k \in S}
<1>1. \E k \in FromTheEnd : \A l \in FromTheEnd : k <= l
  <2>1. FromTheEnd \in SUBSET Nat
    OBVIOUS
  <2>2. PICK i \in S : TRUE
    OBVIOUS
  <2>3. n - i \in Nat /\ n - (n - i) = i
    BY <2>2
  <2>4. n - i \in FromTheEnd
    BY <2>2, <2>3
  <2> HIDE DEF FromTheEnd
  <2> QED BY <2>1, <2>4, LeastExists
<1>2. PICK k \in FromTheEnd : \A l \in FromTheEnd : k <= l
  BY <1>1
<1>3. k \in Nat /\ n - k \in S
  OBVIOUS
<1>4. ASSUME NEW i \in S PROVE i <= n - k
  <2>1. i \in Nat /\ n - i \in Nat /\ n - (n - i) = i
    OBVIOUS
  <2>2. n - i \in FromTheEnd
    BY <2>1
  <2>3. k <= n - i
    <3> HIDE DEF FromTheEnd
    <3> QED BY <1>2, <2>2
  <2> QED BY <1>3, <2>1, <2>3
<1>5. \E x \in S : \A y \in S : x >= y
  <2>1. \A y \in S : n - k >= y
    BY <1>3, <1>4
  <2> QED BY <1>3, <2>1
<1>6. Selection!Max(S) \in S /\ \A y \in S : Selection!Max(S) >= y
  BY <1>5 DEF Selection!Max
<1>7. \A x \in S : x \in Int
  OBVIOUS
<1> QED BY <1>6, <1>7

(* The invariant says what is selected in the end.                            *)
LEMMA WhatWasAskedIsSelected == SelectionInv => Selection!SelectsWhatWasAsked
<1> SUFFICES ASSUME SelectionInv, selecting = "done" PROVE Selection!SelectsWhatWasAsked
  BY DEF Selection!SelectsWhatWasAsked
<1>1. given.opts \in Seq(Selection!Option) /\ Len(given.opts) \in Nat /\ DOMAIN given.opts = 1 .. Len(given.opts)
  BY CommandLineIsTyped DEF SelectionInv
<1>2. AfterOptions(Len(given.opts))
  BY DEF SelectionInv
<1>3. \A option : Selection!OptionsOf(option) = OptionsBefore(option, Len(given.opts))
  BY <1>1 DEF Selection!OptionsOf, OptionsBefore
<1> DEFINE excluded == UNION {given.opts[i].paths : i \in Selection!OptionsOf("exclude")}
           valid == IF Selection!OptionsOf("extensions") = {} THEN DefaultExtensions
                    ELSE given.opts[Selection!Max(Selection!OptionsOf("extensions"))].extensions
<1>4. recursive <=> Selection!OptionsOf("recursive") # {}
  BY <1>2, <1>3 DEF AfterOptions
<1>5. excluded = excludes
  BY <1>2, <1>3 DEF AfterOptions
<1>6. valid = extensions
  <2>1. CASE Selection!OptionsOf("extensions") = {}
    BY <1>2, <1>3, <2>1 DEF AfterOptions
  <2>2. CASE Selection!OptionsOf("extensions") # {}
    <3>1. Selection!OptionsOf("extensions") \in SUBSET (1 .. Len(given.opts))
      BY <1>1 DEF Selection!OptionsOf
    <3>2. PICK i : i = Selection!Max(Selection!OptionsOf("extensions"))
      OBVIOUS
    <3>3. /\ i \in Selection!OptionsOf("extensions")
          /\ \A j \in Selection!OptionsOf("extensions") : j <= i
      BY <1>1, <2>2, <3>1, <3>2, LastOption
    <3>4. extensions = given.opts[i].extensions
      BY <1>2, <1>3, <3>3 DEF AfterOptions
    <3> QED BY <2>2, <3>2, <3>4
  <2> QED BY <2>1, <2>2
<1>7. filenames = {f \in SelectedFiles : ~\E e \in excludes : Selection!IsPrefix(e, f)}
  BY DEF SelectionInv
<1> HIDE DEF excluded, valid
<1>8. Selection!SelectsWhatWasAsked <=>
        filenames = {f \in IF Selection!OptionsOf("recursive") = {} THEN given.paths
                           ELSE {f \in Tree \cup given.paths :
                                   /\ ~Selection!IsDirectory(f) /\ Extension[f] \in valid
                                   /\ \E p \in given.paths : Selection!IsPrefix(p, f)} :
                       ~\E e \in excluded : Selection!IsPrefix(e, f)}
  BY DEF Selection!SelectsWhatWasAsked, excluded, valid
<1> QED BY <1>4, <1>5, <1>6, <1>7, <1>8 DEF SelectedFiles

-------------------------------------------------------------------------------
(* All parts                                                                  *)

ScriptsInv ==
  /\ part = "log" => LogInv
  /\ part = "table" => TableInv
  /\ part = "stats" => StatsInv
  /\ part = "lint" => LintInv
  /\ part = "selection" => SelectionInv
  /\ part = "file" => FileInv
  /\ part = "path" => PathInv
  /\ part = "guard" => GuardInv

(* The invariants of the parts hold, whichever of them is at work.            *)
THEOREM ScriptsInvHolds == ScriptsSpec => []ScriptsInv
<1>1. ScriptsInit => ScriptsInv
  BY OnePartStarts, LogInitInv, TableInitInv, StatsInitInv, LintInitInv, SelectionInitInv,
     FileInitInv, PathInitInv, GuardInitInv DEF ScriptsInv
<1>2. ScriptsInv /\ [ScriptsNext]_scriptsVars => ScriptsInv'
  BY OnePartSteps, LogStepInv, TableStepInv, StatsStepInv, LintStepInv, SelectionStepInv,
     FileStepInv, PathStepInv, GuardStepInv DEF ScriptsInv
<1> QED BY <1>1, <1>2, PTL DEF ScriptsSpec

(* Among the scripts, build_ut.py behaves as it does alone, so that what is   *)
(* proved of it above holds here.                                             *)
THEOREM BuildsAmongScripts == ScriptsSpec => Spec
<1>1. ScriptsInit => Init
  BY DEF ScriptsInit
<1>2. [ScriptsNext]_scriptsVars => [Next]_buildVars
  BY OnePartSteps
<1> QED BY <1>1, <1>2, PTL DEF ScriptsSpec, Spec

(* The three report scripts: every line of clang-format's log is in its       *)
(* report, every error of valgrind's is counted once for its suite, and the   *)
(* verdicts on coverage are those of the two files.                           *)
THEOREM EveryReportIsExact == ScriptsSpec => []ReportsAreExact
<1>1. ScriptsInv => ReportsAreExact
  BY DEF ScriptsInv, ReportsAreExact, LogInv, TableInv, StatsInv, Log!NoStaleReport
<1> QED BY <1>1, ScriptsInvHolds, PTL

(* ProcessConfigOverrides and ProcessFile: the nearest configuration that     *)
(* says something of a category decides on it, whatever the configurations    *)
(* are and however many files there are.                                      *)
THEOREM EveryConfigurationIsObeyed == ScriptsSpec => []ConfigurationsAreObeyed
<1>1. ASSUME LintInv PROVE Lint!TypeOK
  <2>1. runPhase = "config" => level \in 1 .. Len(Path[LintFiles[index]])
    BY <1>1 DEF LintInv, ReadingConfigs, Lint!file
  <2>2. CommandFilters \in Seq(Lint!Filter)
    BY LintAssumption DEF Lint!FilesAssumption
  <2>3. \A i \in DOMAIN cfgFilters : cfgFilters[i] \in Seq(Lint!Filter)
    BY <1>1 DEF LintInv, LintTypes
  <2> QED BY <1>1, <2>1, <2>2, <2>3 DEF LintInv, LintTypes, Lint!TypeOK
<1>2. ASSUME LintInv PROVE Lint!NearestFilterWins
  <2> SUFFICES ASSUME runPhase = "lint", NEW category \in LintCategories
               PROVE  /\ Lint!Filtering(Lint!file, category) = {} =>
                           Lint!IsFiltered(filters, category) = Lint!IsFiltered(CommandFilters, category)
                      /\ \A at \in Lint!Filtering(Lint!file, category) :
                           Lint!Nearest(at, Lint!Filtering(Lint!file, category)) =>
                             Lint!IsFiltered(filters, category)
                               = Lint!IsFiltered(Lint!EntryAt(Lint!file, at).filters, category)
    BY DEF Lint!NearestFilterWins
  <2>1. Decided /\ cfgFilters = <<>>
    BY <1>2 DEF LintInv
  <2>2. \A fs : ~Leads(fs, cfgFilters, category)
    BY <2>1 DEF Leads
  <2> QED BY <2>1, <2>2 DEF Decided, FiltersOf
<1>3. ASSUME LintInv PROVE Lint!FiltersAreRestored /\ Lint!ExcludedIsSkipped /\ Lint!ReportAgrees
  BY <1>3 DEF LintInv, Lint!FiltersAreRestored, Lint!ExcludedIsSkipped, NoneExcludes
<1>4. ScriptsInv => ConfigurationsAreObeyed
  BY <1>1, <1>2, <1>3 DEF ScriptsInv, ConfigurationsAreObeyed
<1> QED BY <1>4, ScriptsInvHolds, PTL

(* ParseArguments: in whatever order the options were given, what is linted   *)
(* is what they ask for, and an excluded directory takes no other with it,    *)
(* whatever the names of the files and directories are.                       *)
THEOREM EverySelectionIsAsAsked == ScriptsSpec => []SelectsWhatWasAsked
<1>1. ScriptsInv => SelectsWhatWasAsked
  BY WhatWasAskedIsSelected DEF ScriptsInv, SelectsWhatWasAsked
<1> QED BY <1>1, ScriptsInvHolds, PTL

(* ProcessFileData: the errors suppressed in a file of any length are those   *)
(* that its own NOLINT comments name.                                         *)
THEOREM EverySuppressionIsExact == ScriptsSpec => []SuppressionIsExact
<1>1. ScriptsInv => SuppressionIsExact
  BY DEF ScriptsInv, SuppressionIsExact, FileInv
<1> QED BY <1>1, ScriptsInvHolds, PTL

(* RepositoryName, CheckFilenameFormat and CheckForHeaderGuard: where the     *)
(* repository is checked out to makes no difference to the names, however     *)
(* deep, and headers of any length are judged by the house style.             *)
THEOREM NamesAndGuardsAreJudgedRight == ScriptsSpec => []NamesAndGuardsAreJudged
<1>1. ScriptsInv => NamesAndGuardsAreJudged
  BY DEF ScriptsInv, NamesAndGuardsAreJudged, PathInv, GuardInv
<1> QED BY <1>1, ScriptsInvHolds, PTL
==================================================================================
