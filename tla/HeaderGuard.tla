------------------------------- MODULE HeaderGuard -------------------------------
(***************************************************************************)
(* What CheckForHeaderGuard of cpplint.py says of a header, of whatever    *)
(* lines it is made.  The name of the file is the same throughout, so that *)
(* a guard is told by its namespace and the underscores at its end.        *)
(***************************************************************************)
EXTENDS Naturals, Sequences, SequencesExt

CONSTANTS
  Spaces,     \* namespaces
  NoSpace,    \* a guard made of the file's name only
  Guards      \* the macros that occur: a namespace and the underscores at the end

(* Assumed of the constants. *)
SpacesAssumption ==
  /\ NoSpace \notin Spaces
  /\ Guards \subseteq [space : Spaces \cup {NoSpace}, end : {"_", "__"}]

(* What GetHeaderGuardCPPVariable makes of a remark about a namespace, or of  *)
(* a namespace with its brace: no macro has such a name, and that of an odd   *)
(* remark, with a parenthesis in it, is no regular expression.                *)
Garbled == [space |-> NoSpace, end |-> "{"]
Unreadable == [space |-> NoSpace, end |-> "("]
GuardOf(space) == [space |-> space, end |-> "_"]
None == [space |-> NoSpace, end |-> ""]

(* A line, in as far as it matters.  Other comments begin with "//".          *)
Lines ==
  [is : {"text", "comment", "remark", "oddRemark", "using", "closing", "exempt"}]
    \cup [is : {"namespace", "namespace{"}, space : Spaces]
    \cup [is : {"define"}, guard : Guards]
    \cup [is : {"ifndef"}, guard : Guards, nolint : BOOLEAN]
    \cup [is : {"endif"}, guard : Guards, comment : {"//", "/*"}]
    \cup [is : {"endif"}, guard : {None}, comment : {"none", "NOLINT"}]

VARIABLES
  exempt,     \* a line says NOLINT(build/header_guard)
  possible,   \* cppvars
  ifndef,     \* the first one, with its line's NOLINT
  define,     \* the first one
  endif,      \* the last one, with its comment
  slashes,    \* a line has a // comment
  errors,
  phase,      \* "lines", "done", or "exception"
  opening,    \* of the header: what its first two directives guard it by
  last,       \*   what the last one says it was
  spaces,     \*   the namespaces it opens
  habits      \*   what else is in it that the house style does not have

codeVars == <<exempt, possible, ifndef, define, endif, slashes>>
headerVars == <<opening, last, spaces, habits>>
guardVars == <<codeVars, errors, phase, headerVars>>

Unset == [guard |-> None, nolint |-> FALSE, comment |-> "none"]

Init ==
  /\ exempt = FALSE /\ possible = <<>> /\ ifndef = Unset /\ define = None /\ endif = Unset
  /\ slashes = FALSE /\ errors = {} /\ phase = "lines"
  /\ opening = [seen |-> 0, guard |-> None, nolint |-> FALSE] /\ last = None
  /\ spaces = {} /\ habits = {}

-------------------------------------------------------------------------------
(* A mistake for a run that must fail: the last #ifndef is taken.             *)
LastIfndef(line) ==
  IF line.is = "ifndef" THEN [Unset EXCEPT !.guard = line.guard, !.nolint = line.nolint]
  ELSE ifndef

(* GetHeaderGuardCPPVariable(), of one line: what it adds, if not there yet.  *)
VariableOf(line) ==
  CASE line.is = "namespace" -> GuardOf(line.space)
    [] line.is \in {"namespace{", "remark"} -> Garbled
    [] line.is = "oddRemark" -> Unreadable
    [] OTHER -> None

WithVariable(variable) ==
  IF variable = None \/ variable \in ToSet(possible) THEN possible ELSE Append(possible, variable)

HasSlashes(line) ==
  \/ line.is \in {"comment", "remark", "oddRemark", "closing", "exempt"}
  \/ line.is = "ifndef" /\ line.nolint
  \/ line.is = "endif" /\ line.comment \in {"//", "NOLINT"}

FirstIfndef(line) ==
  IF line.is = "ifndef" /\ ifndef = Unset
    THEN [Unset EXCEPT !.guard = line.guard, !.nolint = line.nolint]
    ELSE ifndef

FirstDefine(line) == IF line.is = "define" /\ define = None THEN line.guard ELSE define

LastEndif(line) ==
  IF line.is = "endif"
    THEN [Unset EXCEPT !.guard = line.guard, !.comment = line.comment,
                       !.nolint = line.comment = "NOLINT"]
    ELSE endif

(* What the header is, told without the code.                                 *)
Directives == {"ifndef", "define", "endif"}
Unguarded == [seen |-> 3, guard |-> None, nolint |-> FALSE]
Describe(line) ==
  /\ opening' = IF line.is \notin Directives \/ opening.seen > 1 THEN opening
                ELSE IF line.is = "ifndef" /\ opening.seen = 0
                  THEN [seen |-> 1, guard |-> line.guard, nolint |-> line.nolint]
                ELSE IF line.is = "define" /\ opening.seen = 1 /\ line.guard = opening.guard
                  THEN [opening EXCEPT !.seen = 2]
                ELSE Unguarded
  /\ last' = IF line.is \notin Directives THEN last
             ELSE IF line.is = "endif" /\ line.comment = "//" THEN line.guard ELSE None
  /\ spaces' = IF line.is \in {"namespace", "namespace{"} THEN spaces \cup {line.space} ELSE spaces
  /\ habits' = habits \cup ({line.is} \cap {"namespace{", "remark", "oddRemark"})

ReadLine(line) ==
  /\ phase = "lines"
  /\ exempt' = (exempt \/ line.is = "exempt")
  /\ possible' = WithVariable(VariableOf(line))
  /\ ifndef' = FirstIfndef(line) /\ define' = FirstDefine(line) /\ endif' = LastEndif(line)
  /\ slashes' = (slashes \/ HasSlashes(line))
  /\ Describe(line)
  /\ UNCHANGED <<errors, phase>>

(* If no namespace just use the filename.                                     *)
Variables == IF possible = <<>> THEN <<GuardOf(NoSpace)>> ELSE possible

GuardMissing == ifndef = Unset \/ define = None \/ ifndef.guard # define

RightGuard == ifndef.guard \in ToSet(Variables)

(* The end of the #endif line: the variables are tried one after the other as *)
(* regular expressions, with or without one more underscore.                  *)
Names(variable) == endif.guard.space = variable.space /\ variable.end = "_" /\ endif.guard # None

EndifAccepted ==
  /\ endif.comment = "//" \/ (endif.comment = "/*" /\ ~slashes)
  /\ \E i \in 1 .. Len(Variables) : Names(Variables[i])

TriesUnreadable ==
  \E i \in 1 .. Len(Variables) :
    /\ Variables[i] = Unreadable
    /\ endif.comment = "//" => \A j \in 1 .. i : ~Names(Variables[j])

Judge ==
  /\ phase = "lines"
  /\ phase' = IF ~exempt /\ ~GuardMissing /\ TriesUnreadable THEN "exception" ELSE "done"
  /\ errors' = IF exempt THEN {}
               ELSE IF GuardMissing THEN {"missing"}
               ELSE (IF RightGuard \/ ifndef.nolint THEN {} ELSE {"style"})
                    \cup (IF EndifAccepted \/ endif.nolint \/ TriesUnreadable THEN {} ELSE {"endif"})
  /\ UNCHANGED <<codeVars, headerVars>>

Next == (\E line \in Lines : ReadLine(line)) \/ Judge

Spec == Init /\ [][Next]_guardVars

-------------------------------------------------------------------------------
(* A header whose first two directives are the #ifndef and the #define of     *)
(* guard and whose last one is the #endif that says so.                       *)
GuardedBy(guard) == opening.seen = 2 /\ opening.guard = guard /\ last = guard

Accepted == phase = "done" /\ errors = {}

(* A header in the house style is accepted with a guard for any one of its    *)
(* namespaces, whatever else is defined, nested and closed in it.             *)
HouseStylePasses ==
  phase # "lines" /\ habits = {} =>
    \A space \in IF spaces = {} THEN {NoSpace} ELSE spaces :
      GuardedBy(GuardOf(space)) => Accepted

(* A header accepted although its #ifndef line carries no NOLINT has one for  *)
(* its namespaces, or for its name if it has none.                            *)
WrongGuardIsReported ==
  Accepted /\ ~exempt /\ opening.seen = 2 /\ ~opening.nolint =>
    opening.guard \in {GuardOf(space) : space \in IF spaces = {} THEN {NoSpace} ELSE spaces}
===============================================================================
