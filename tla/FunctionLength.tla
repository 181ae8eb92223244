----------------------------- MODULE FunctionLength -----------------------------
(***************************************************************************)
(* How cpplint.py measures functions: _FunctionState and                   *)
(* CheckForFunctionLengths.  Of a line (its comments are removed) matter   *)
(*   name  - it begins with a name and "(": "function", "test" if the name *)
(*           begins with TEST or Test, "none" if there is none or it is a  *)
(*           macro;                                                        *)
(*   ends, opens - it has a ";" or "}", or a "{";                          *)
(*   form  - "blank", "close" ("}" and no more, not indented) or "text".   *)
(***************************************************************************)
EXTENDS Integers, Sequences, FiniteSetsExt

CONSTANTS
  LineChoices,        \* the lines a text may have
  VerboseLevels,      \* --verbose
  NormalTrigger,      \* _NORMAL_TRIGGER
  TestTrigger,        \* _TEST_TRIGGER
  MaxLines            \* bound: lines of the text

(* Assumed of the constants. *)
TriggersAssumption == NormalTrigger \in Nat \ {0} /\ TestTrigger \in Nat \ {0}
LevelsAssumption == VerboseLevels \subseteq 0 .. 5
LinesAssumption ==
  /\ MaxLines \in Nat
  /\ LineChoices \subseteq [name : {"function", "test", "none"}, ends : BOOLEAN, opens : BOOLEAN,
                            form : {"blank", "close", "text"}]

VARIABLES
  text,
  verbose,
  linenum,            \* the next line
  inAFunction,        \* in_a_function
  linesInFunction,    \* lines_in_function
  isTest,             \* current_function begins with TEST or Test
  begun,              \* where it begins
  checks,             \* each function found to end: begin, end and lines
  told                \* the errors: kind, line and confidence

functionVars == <<text, verbose, linenum, inAFunction, linesInFunction, isTest, begun, checks, told>>

Texts == UNION {[1 .. n -> LineChoices] : n \in 1 .. MaxLines}

Init ==
  /\ text \in Texts /\ verbose \in VerboseLevels /\ linenum = 1
  /\ inAFunction = FALSE /\ linesInFunction = 0 /\ isTest = FALSE /\ begun = 0
  /\ checks = {} /\ told = {}

-------------------------------------------------------------------------------
Line == text[linenum]

BaseTrigger == IF isTest THEN TestTrigger ELSE NormalTrigger

Trigger == BaseTrigger * 2 ^ verbose

(* int(math.log(lines / base, 2)), not above 5.                               *)
Confidence(lines) == Max({l \in 0 .. 5 : l = 0 \/ BaseTrigger * 2 ^ l <= lines})

End == inAFunction' = FALSE

(* Where the search from a name on stops: at a line with ";" or "}", or "{".  *)
Stops(n) == {i \in n .. Len(text) : text[i].ends \/ text[i].opens}
HasBody(n) == Stops(n) # {} /\ ~text[Min(Stops(n))].ends

Proceed == linenum' = linenum + 1 /\ UNCHANGED <<text, verbose>>

Begin ==
  /\ linenum <= Len(text) /\ Line.name # "none" /\ HasBody(linenum)
  /\ inAFunction' = TRUE /\ linesInFunction' = 0
  /\ isTest' = (Line.name = "test") /\ begun' = linenum
  /\ Proceed /\ UNCHANGED <<checks, told>>

Declaration ==
  /\ linenum <= Len(text) /\ Line.name # "none" /\ ~HasBody(linenum)
  /\ told' = IF Stops(linenum) # {} THEN told
             ELSE told \cup {[kind |-> "body", line |-> linenum, confidence |-> 5]}
  /\ Proceed /\ UNCHANGED <<inAFunction, linesInFunction, isTest, begun, checks>>

CheckAndEnd ==
  /\ linenum <= Len(text) /\ Line.name = "none" /\ Line.form = "close"
  /\ checks' = IF inAFunction
               THEN checks \cup {[begin |-> begun, end |-> linenum, lines |-> linesInFunction]} ELSE checks
  /\ told' = IF inAFunction /\ linesInFunction > Trigger
             THEN told \cup {[kind |-> "size", line |-> linenum, confidence |-> Confidence(linesInFunction)]}
             ELSE told
  /\ End
  /\ Proceed /\ UNCHANGED <<linesInFunction, isTest, begun>>

Count ==
  /\ linenum <= Len(text) /\ Line.name = "none" /\ Line.form # "close"
  /\ linesInFunction' = IF inAFunction /\ Line.form # "blank" THEN linesInFunction + 1 ELSE linesInFunction
  /\ Proceed /\ UNCHANGED <<inAFunction, isTest, begun, checks, told>>

Next == Begin \/ Declaration \/ CheckAndEnd \/ Count

Spec == Init /\ [][Next]_functionVars

-------------------------------------------------------------------------------
(* The functions of the text: a name whose search finds "{", up to the first  *)
(* "}", with no other function in between.                                    *)
Begins == {n \in DOMAIN text : text[n].name # "none" /\ HasBody(n)}
Closes == {n \in DOMAIN text : text[n].name = "none" /\ text[n].form = "close"}
Functions ==
  {f \in Begins \X Closes :
     f[1] < f[2] /\ f[2] < linenum /\ \A i \in f[1] + 1 .. f[2] - 1 : i \notin Begins \cup Closes}
Counted(b, c) ==
  Cardinality({i \in b + 1 .. c - 1 : text[i].name = "none" /\ text[i].form # "blank"})

(* Each function is measured once, where it ends, and with its own lines      *)
(* alone: not those of the function before it or between two functions.       *)
FunctionsAreKeptApart ==
  checks = {[begin |-> f[1], end |-> f[2], lines |-> Counted(f[1], f[2])] : f \in Functions}

(* Exactly the functions above the trigger of the verbosity are reported, and *)
(* with a confidence that the verbosity does not filter out.                  *)
LongFunctionsAreTold ==
  \A f \in Functions :
    LET base == IF text[f[1]].name = "test" THEN TestTrigger ELSE NormalTrigger
        reports == {e \in told : e.kind = "size" /\ e.line = f[2]}
    IN  /\ reports # {} <=> Counted(f[1], f[2]) > base * 2 ^ verbose
        /\ \A e \in reports : e.confidence >= verbose
===============================================================================
