-------------------------------- MODULE LintFile --------------------------------
(***************************************************************************)
(* ProcessFileData of cpplint.py: in which order a file's comments are     *)
(* removed, its NOLINT comments read and its errors reported.  Whether an  *)
(* error is suppressed depends on which NOLINT comments have been read by  *)
(* then.  A line is what the order matters for:                            *)
(*   opens, closes - a comment that goes on in the next line; "*/" at its  *)
(*                   end;                                                  *)
(*   scope, category - its NOLINT or NOLINTNEXTLINE comment, if any;       *)
(*   global - it says that the file is C or kernel code;                   *)
(*   bad    - it has a character that is not UTF-8;                        *)
(*   found  - what the checks find there: categories, and whether they     *)
(*            report them on the line before (-1), on it or on the next    *)
(*            (1), where the brace or the condition ends.                  *)
(***************************************************************************)
EXTENDS Integers, Sequences, FiniteSets, FiniteSetsExt

CONSTANTS
  Categories,       \* of errors; those of CategoriesAssumption among them
  CCategories,      \* suppressed in C and kernel code
  FileChoices       \* bound: FileChoices[n] is the set of texts that the n-th file may have

Scopes == {"none", "line", "next"}
LineType == [opens : BOOLEAN, closes : BOOLEAN, scope : Scopes,
             category : Categories \cup {"all", "legacy", "unknown"}, global : BOOLEAN,
             bad : BOOLEAN, found : SUBSET (Categories \X {-1, 0, 1})]

(* Assumed of the constants.  Nothing is reported before the first line and   *)
(* after the last.                                                            *)
Texts ==
  {text \in Seq(LineType) : \A i \in DOMAIN text : \A x \in text[i].found : i + x[2] \in DOMAIN text}

TextsAssumption ==
  FileChoices \in Seq(SUBSET Seq(LineType)) /\ \A n \in DOMAIN FileChoices : FileChoices[n] \subseteq Texts
CategoriesAssumption ==
  {"utf8", "comment", "nolint", "guard", "braces"} \subseteq Categories /\ CCategories \subseteq Categories

VARIABLES
  file,          \* the lines of the file, numbered from 1 as the marker line makes them
  header,        \* it is a header
  lines,         \* the list that the code works on
  lineix,        \* where RemoveMultiLineComments or the loop over ProcessLine is
  phase,
  suppressions,  \* _error_suppressions: categories (or "all") and lines
  globals,       \* _global_error_suppressions
  told,          \* the errors printed: what found them, category and line
  hidden,        \* the errors suppressed
  files          \* files done so far

lintVars == <<file, header, lines, lineix, phase, suppressions, globals, told, hidden, files>>

Phases == {"comments", "guard", "lines", "after", "end"}
Errors == [by : {"comments", "guard", "lines", "ahead", "after"}, category : Categories, line : Nat]

TypeOK ==
  /\ file \in Texts /\ lines \in Seq(LineType) /\ Len(lines) = Len(file) /\ header \in BOOLEAN
  /\ lineix \in 1 .. Len(file) + 1 /\ phase \in Phases
  /\ suppressions \subseteq (Categories \cup {"all"}) \X Nat /\ globals \subseteq Categories
  /\ told \subseteq Errors /\ hidden \subseteq Errors /\ files \in 0 .. Len(FileChoices)

Init ==
  /\ file = <<>> /\ header = FALSE /\ lines = <<>> /\ lineix = 1 /\ phase = "end"
  /\ suppressions = {} /\ globals = {} /\ told = {} /\ hidden = {} /\ files = 0

-------------------------------------------------------------------------------
(* A mistake for a run that must fail: NOLINTNEXTLINE is taken for NOLINT.    *)
AlwaysThisLine(l, n) == n

-------------------------------------------------------------------------------
ResetNolintSuppressions == suppressions' = {}

ProcessGlobalSuppresions(text) == IF \E i \in DOMAIN text : text[i].global THEN CCategories ELSE {}

BeginFile(text, isHeader) ==
  /\ phase = "end" /\ files < Len(FileChoices) /\ text \in FileChoices[files + 1]
  /\ file' = text /\ lines' = text /\ header' = isHeader
  /\ lineix' = 1 /\ phase' = "comments"
  /\ ResetNolintSuppressions
  /\ globals' = ProcessGlobalSuppresions(text)
  /\ told' = {} /\ hidden' = {}
  /\ files' = files + 1

IsSuppressed(error, sup) ==
  \/ error.category \in globals
  \/ <<error.category, error.line>> \in sup \/ <<"all", error.line>> \in sup

(* Error(): what it prints and what not, with the suppressions sup.           *)
Report(errors, sup) ==
  /\ told' = told \cup {e \in errors : ~IsSuppressed(e, sup)}
  /\ hidden' = hidden \cup {e \in errors : IsSuppressed(e, sup)}

(* ParseNolintSuppressions() of line l with number n.                         *)
SuppressedLine(l, n) == IF l.scope = "next" THEN n + 1 ELSE n

Suppression(l, n) ==
  IF l.scope # "none" /\ l.category \in Categories \cup {"all"}
  THEN {<<l.category, SuppressedLine(l, n)>>} ELSE {}

Unknown(by, l, n) ==
  IF l.scope # "none" /\ l.category = "unknown"
  THEN {[by |-> by, category |-> "nolint", line |-> n]} ELSE {}

(* One multi-line comment; its lines are replaced in the list.                *)
Blank == [opens |-> FALSE, closes |-> TRUE, scope |-> "none", category |-> "all",
          global |-> FALSE, bad |-> FALSE, found |-> {}]

Starts == {i \in DOMAIN lines : i >= lineix /\ lines[i].opens}

Ends(begin) == {i \in DOMAIN lines : i >= begin /\ lines[i].closes}

Cleared(begin, end) == [i \in DOMAIN lines |-> IF i \in begin .. end THEN Blank ELSE lines[i]]

RemoveComment ==
  /\ phase = "comments"
  /\ \/ /\ Starts = {}
        /\ phase' = "guard"
        /\ UNCHANGED <<lines, lineix, told, hidden>>
     \/ /\ Starts # {} /\ Ends(Min(Starts)) = {}
        /\ Report({[by |-> "comments", category |-> "comment", line |-> Min(Starts) + 1]}, suppressions)
        /\ phase' = "guard"
        /\ UNCHANGED <<lines, lineix>>
     \/ /\ Starts # {} /\ Ends(Min(Starts)) # {}
        /\ lines' = Cleared(Min(Starts), Min(Ends(Min(Starts))))
        /\ lineix' = Min(Ends(Min(Starts))) + 1
        /\ UNCHANGED <<phase, told, hidden>>
  /\ UNCHANGED <<file, header, suppressions, globals, files>>

(* CheckForHeaderGuard(): nothing at all if a line suppresses its category;   *)
(* otherwise it reads the comments of the #ifndef, if that is wrong, and of   *)
(* the #endif itself, as ProcessLine has read none by then.                   *)
ReadAt(by, read, errors) ==
  /\ suppressions' = suppressions \cup UNION {Suppression(lines[i], i) : i \in read}
  /\ Report(errors \cup UNION {Unknown(by, lines[i], i) : i \in read}, suppressions')

NotChecked == ~header \/ \E i \in DOMAIN lines : lines[i].scope = "line" /\ lines[i].category = "guard"

GuardError(n) == [by |-> "guard", category |-> "guard", line |-> n]

HeaderGuard ==
  /\ phase = "guard"
  /\ phase' = "lines" /\ lineix' = 1
  /\ UNCHANGED <<file, header, lines, globals, files>>
  /\ \/ NotChecked /\ UNCHANGED <<suppressions, told, hidden>>
     \/ ~NotChecked /\ ReadAt("guard", {}, {GuardError(0)})
     \/ /\ ~NotChecked
        /\ \E ifndef, endif \in {i \in DOMAIN lines : lines[i] # Blank} :
             /\ ifndef < endif
             /\ \E wrong \in SUBSET {ifndef, endif} :
                  ReadAt("guard", wrong \cup {endif}, {GuardError(i) : i \in wrong})

(* ProcessLine(): first the NOLINT comment, then the checks.  That of "};"    *)
(* reads the comment of the line where the brace ends.                        *)
ProcessLine ==
  /\ phase = "lines" /\ lineix <= Len(lines)
  /\ LET l == lines[lineix]
         found == {[by |-> IF x[2] = 1 /\ x[1] # "braces" THEN "ahead" ELSE "lines",
                    category |-> x[1], line |-> lineix + x[2]] : x \in l.found}
     IN  ReadAt("lines", {lineix} \cup (IF <<"braces", 1>> \in l.found THEN {lineix + 1} ELSE {}), found)
  /\ lineix' = lineix + 1
  /\ UNCHANGED <<file, header, lines, phase, globals, files>>

(* CheckForBadCharacters() and what else looks at the whole file at the end.  *)
AfterLines ==
  /\ phase = "lines" /\ lineix > Len(lines)
  /\ Report({[by |-> "after", category |-> "utf8", line |-> i] : i \in {j \in DOMAIN lines : lines[j].bad}},
            suppressions)
  /\ phase' = "end"
  /\ UNCHANGED <<file, header, lines, lineix, suppressions, globals, files>>

Next ==
  \/ \E text \in UNION Range(FileChoices), isHeader \in BOOLEAN : BeginFile(text, isHeader)
  \/ RemoveComment \/ HeaderGuard \/ ProcessLine \/ AfterLines

Spec == Init /\ [][Next]_lintVars

-------------------------------------------------------------------------------
(* The comments of a text that suppress an error.                             *)
Marked(text, e) ==
  \/ e.category \in globals
  \/ \E i \in DOMAIN text :
       /\ text[i].category \in {e.category, "all"}
       /\ \/ text[i].scope = "line" /\ i = e.line
          \/ text[i].scope = "next" /\ i + 1 = e.line

(* An error that a check finds on its line, on an earlier one, at the end of  *)
(* a brace or at the end of the file is suppressed exactly when the file,     *)
(* comments removed, marks its line: by then the mark has been read, and none *)
(* is left over from another file.  Nothing else is suppressed: an error of   *)
(* the header guard is not by the comment of the line before it.              *)
SuppressionIsExact ==
  /\ \A e \in told : e.by \in {"lines", "after"} => ~Marked(lines, e)
  /\ \A e \in hidden : Marked(lines, e)
===============================================================================
