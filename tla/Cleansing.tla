-------------------------------- MODULE Cleansing --------------------------------
(***************************************************************************)
(* How cpplint.py takes strings and comments out of the lines of a file:   *)
(* CleansedLines, with CleanseRawStrings, CollapseStrings and              *)
(* CleanseComments, one action for each turn of their loops.  A line is    *)
(* read first as C++ reads it, a token at a time:                          *)
(*   "x" (anything else), "dq" and "sq" (quotes), "//", "/*", "*/",        *)
(*   "R1", "R2", ")1", ")2" - where a raw string with a delimiter begins   *)
(*   and ends; both have a double quote in them.                           *)
(* Escaped characters and digit separators are left out.                   *)
(***************************************************************************)
EXTENDS Integers, Sequences, FiniteSetsExt, SequencesExt

CONSTANTS
  BlockTokens,      \* that comments between "/*" and "*/" may have in them
  MaxLength         \* bound: tokens of a line

(* Comments within a line have no quotes and no "//" in them.                 *)
ASSUME BlocksAssumption == BlockTokens \subseteq {"x", "/*"}

VARIABLES
  line,             \* the line, as far as C++ has read it
  context,          \* what the line begins in, in C++
  state,            \* what it is in now
  code,             \* what is code in it: strings and characters are empty
  kept,             \* the same with what is in its strings and characters
  plain,            \* these have nothing in them that cpplint does not expect
  marked,           \* one has "//" in it
  delimiter,        \* of CleanseRawStrings: that of the raw string open, or 0
  stage,            \* what is being done with the line
  lines,            \* the line in .lines
  collapsed,        \* of CollapseStrings
  elided            \* what is to be collapsed; then the line in .elided

cppVars == <<line, context, state, code, kept, plain, marked>>
cleansingVars == <<cppVars, delimiter, stage, lines, collapsed, elided>>

Characters == {"x", "dq", "sq", "//", "/*", "*/", "R1", "R2", ")1", ")2"}
States == {"code", "string", "character", "comment", "block", "raw1", "raw2"}

Where(s, found) == {i \in DOMAIN s : s[i] \in found}
UpTo(s, i) == SubSeq(s, 1, i)
Beyond(s, i) == SubSeq(s, i + 1, Len(s))
EmptyString == <<"dq", "dq">>

(* The quote that a token has in it.                                          *)
Quote(t) == IF t \in {"dq", "R1", "R2", ")1", ")2"} THEN "dq" ELSE IF t = "sq" THEN "sq" ELSE "no"

-------------------------------------------------------------------------------
(* C++: what each token leads to.  "bad" is left out: what is no C++ (strings *)
(* and comments end on their line), raw strings within other tokens, and      *)
(* comments with other tokens than BlockTokens.                               *)
After(before, t) ==
  CASE before = "code" ->
         CASE t = "x" -> "code" [] t = "dq" -> "string" [] t = "sq" -> "character"
           [] t = "//" -> "comment" [] t = "/*" -> "block"
           [] t = "R1" -> "raw1" [] t = "R2" -> "raw2" [] OTHER -> "bad"
    [] before = "string" -> IF t = "dq" THEN "code" ELSE IF Quote(t) = "dq" THEN "bad" ELSE "string"
    [] before = "character" -> IF t = "sq" THEN "code" ELSE IF t \in {"x", "dq"} THEN "character" ELSE "bad"
    [] before = "block" -> IF t = "*/" THEN "code" ELSE IF t \in BlockTokens THEN "block" ELSE "bad"
    [] before = "raw1" -> IF t = ")1" THEN "code" ELSE "raw1"
    [] before = "raw2" -> IF t = ")2" THEN "code" ELSE "raw2"
    [] OTHER -> before

Literal == {"string", "character"}
Raw == {"raw1", "raw2"}

(* Is a token in a string or character, its quotes left aside?                *)
InLiteral(before, t) == before \in Literal /\ After(before, t) = before

(* What is left of a token: code, the quotes of strings and characters, and   *)
(* what is in them if that is kept.                                           *)
Left(before, t, keeping) ==
  LET after == After(before, t)
  IN  IF before = "code" /\ after \in Raw THEN EmptyString
      ELSE IF \/ before = "code" /\ after \in {"code"} \cup Literal
              \/ before \in Literal /\ (after = "code" \/ keeping)
           THEN <<t>> ELSE <<>>

(* cpplint expects "x" and "//" in strings and at most one token between      *)
(* single quotes.                                                             *)
IsExpected(t) ==
  InLiteral(state, t) => IF state = "string" THEN t \in {"x", "//"} ELSE line[Len(line)] = "sq"

ReadToken(t) ==
  /\ stage = "read" /\ Len(line) < MaxLength
  /\ After(state, t) # "bad"
  /\ line' = Append(line, t)
  /\ state' = After(state, t)
  /\ code' = code \o Left(state, t, FALSE)
  /\ kept' = kept \o Left(state, t, TRUE)
  /\ plain' = (plain /\ IsExpected(t))
  /\ marked' = (marked \/ (t = "//" /\ InLiteral(state, t)))
  /\ UNCHANGED <<context, delimiter, stage, lines, collapsed, elided>>

-------------------------------------------------------------------------------
Start(k) == IF k = 1 THEN "R1" ELSE "R2"
End(k) == IF k = 1 THEN ")1" ELSE ")2"

(* "//" before a raw string, outside of quotes.                               *)
InComment(prefix) ==
  LET quoted[i \in 0 .. Len(prefix)] ==
        IF i = 0 THEN "no"
        ELSE IF quoted[i - 1] = "no" THEN Quote(prefix[i])
        ELSE IF Quote(prefix[i]) = quoted[i - 1] THEN "no" ELSE quoted[i - 1]
  IN  \E j \in DOMAIN prefix : prefix[j] = "//" /\ quoted[j - 1] = "no"

(* A mistake for a run that must fail: any delimiter ends a raw string.       *)
EndOfAny(s, k) == Where(s, {End(1), End(2)})

EndOfRawString(s, k) == Where(s, {End(k)})

(* What replaces a raw string that s goes on with, after the prefix.          *)
EndRawString(prefix, s, k) ==
  LET ends == EndOfRawString(s, k)
  IN  IF ends = {} THEN elided' = prefix \o EmptyString /\ delimiter' = k
      ELSE elided' = prefix \o EmptyString \o Beyond(s, Min(ends)) /\ delimiter' = 0

(* The line is read; C++ goes on to the next one outside of strings.          *)
EndLine ==
  /\ stage = "read" /\ state \in {"code", "comment"} \cup Raw
  /\ stage' = "raw"
  /\ IF delimiter = 0 THEN elided' = line /\ UNCHANGED delimiter
     ELSE EndRawString(<<>>, line, delimiter)
  /\ UNCHANGED <<cppVars, lines, collapsed>>

RawStrings(s) == Where(s, {Start(1), Start(2)})

BeginsRawString ==
  /\ delimiter = 0 /\ RawStrings(elided) # {}
  /\ ~InComment(UpTo(elided, Min(RawStrings(elided)) - 1))

ReplaceRawString ==
  LET at == Min(RawStrings(elided))
  IN  /\ stage = "raw" /\ BeginsRawString
      /\ EndRawString(UpTo(elided, at - 1), Beyond(elided, at), IF elided[at] = Start(1) THEN 1 ELSE 2)
      /\ UNCHANGED <<cppVars, stage, lines, collapsed>>

-------------------------------------------------------------------------------
(* A mistake for a run that must fail: the '"' of a character begins a string.*)
IsInString(s) == Cardinality({i \in DOMAIN s : Quote(s[i]) = "dq"}) % 2 = 1

(* Is what follows s in a string?  str.count() counts a '"' only where the    *)
(* one before has ended.                                                      *)
IsCppString(s) ==
  LET quotes == Cardinality({i \in DOMAIN s : Quote(s[i]) = "dq"})
      counted[i \in DOMAIN s] ==
        i > 2 /\ s[i] = "sq" /\ s[i - 1] = "dq" /\ s[i - 2] = "sq" /\ ~counted[i - 2]
      characters == Cardinality({i \in DOMAIN s : counted[i]})
  IN  (quotes - characters) % 2 = 1

CutComment(s) ==
  LET comments == Where(s, {"//"})
  IN  IF comments # {} /\ ~IsCppString(UpTo(s, Min(comments) - 1)) THEN UpTo(s, Min(comments) - 1) ELSE s

(* Where comments begin that end, and where that is.                          *)
Blocks(s) == {i \in Where(s, {"/*"}) : \E j \in Where(s, {"*/"}) : i < j}
EndOfBlock(s, i) == Min({j \in Where(s, {"*/"}) : i < j})

RemoveBlock(s) == UpTo(s, Min(Blocks(s)) - 1) \o Beyond(s, EndOfBlock(s, Min(Blocks(s))))

(* No raw string is left: CleanseComments() for .lines.                       *)
CleanseLines ==
  /\ stage = "raw" /\ ~BeginsRawString
  /\ stage' = "lines" /\ lines' = CutComment(elided)
  /\ UNCHANGED <<cppVars, delimiter, collapsed, elided>>

RemoveFromLines ==
  /\ stage = "lines" /\ Blocks(lines) # {}
  /\ lines' = RemoveBlock(lines)
  /\ UNCHANGED <<cppVars, delimiter, stage, collapsed, elided>>

BeginToCollapse ==
  /\ stage = "lines" /\ Blocks(lines) = {}
  /\ stage' = "strings"
  /\ UNCHANGED <<cppVars, delimiter, lines, collapsed, elided>>

(* Where the first string or character ends.                                  *)
Quotes(s) == {i \in DOMAIN s : Quote(s[i]) # "no"}
SecondQuotes(s) == {j \in DOMAIN s : j > Min(Quotes(s)) /\ Quote(s[j]) = Quote(s[Min(Quotes(s))])}

HasString(s) == Quotes(s) # {} /\ SecondQuotes(s) # {}

CollapseString ==
  LET first == Min(Quotes(elided))
      quote == Quote(elided[first])
  IN  /\ stage = "strings" /\ HasString(elided)
      /\ collapsed' = collapsed \o UpTo(elided, first - 1) \o <<quote, quote>>
      /\ elided' = Beyond(elided, Min(SecondQuotes(elided)))
      /\ UNCHANGED <<cppVars, delimiter, stage, lines>>

(* Strings are collapsed: CleanseComments() for .elided.                      *)
CleanseElided ==
  /\ stage = "strings" /\ ~HasString(elided)
  /\ stage' = "elided" /\ elided' = CutComment(collapsed \o elided) /\ collapsed' = <<>>
  /\ UNCHANGED <<cppVars, delimiter, lines>>

RemoveFromElided ==
  /\ stage = "elided" /\ Blocks(elided) # {}
  /\ elided' = RemoveBlock(elided)
  /\ UNCHANGED <<cppVars, delimiter, stage, lines, collapsed>>

-------------------------------------------------------------------------------
Cleansed == stage = "elided" /\ Blocks(elided) = {}

(* What a line begins with: a raw string that goes on is an empty one.        *)
Begun(within) == IF within = "code" THEN <<>> ELSE EmptyString

NextLine ==
  /\ Cleansed
  /\ line' = <<>> /\ state' = (IF state = "comment" THEN "code" ELSE state)
  /\ context' = state' /\ code' = Begun(state') /\ kept' = Begun(state')
  /\ plain' = TRUE /\ marked' = FALSE
  /\ stage' = "read" /\ lines' = <<>> /\ elided' = <<>>
  /\ UNCHANGED <<delimiter, collapsed>>

CleansingInit ==
  /\ line = <<>> /\ context = "code" /\ state = "code" /\ code = <<>> /\ kept = <<>>
  /\ plain = TRUE /\ marked = FALSE
  /\ delimiter = 0 /\ stage = "read" /\ lines = <<>> /\ collapsed = <<>> /\ elided = <<>>

CleansingNext ==
  \/ \E t \in Characters : ReadToken(t)
  \/ EndLine \/ ReplaceRawString \/ CleanseLines \/ RemoveFromLines
  \/ BeginToCollapse \/ CollapseString \/ CleanseElided \/ RemoveFromElided
  \/ NextLine

CleansingSpec == CleansingInit /\ [][CleansingNext]_cleansingVars

-------------------------------------------------------------------------------
(* CleansedLines: raw strings are followed over lines as C++ does - neither   *)
(* the delimiter of another nor a "//" or a quote in the string ends or       *)
(* begins one - and "elided member contains lines without strings and         *)
(* comments": it is what is code in C++, wherever those begin and end.        *)
CodeIsCleansed ==
  Cleansed =>
    /\ state \in Raw <=> delimiter # 0
    /\ delimiter # 0 => state = (IF delimiter = 1 THEN "raw1" ELSE "raw2")
    /\ elided = code

(* "lines member contains lines without comments": it has the code with its   *)
(* strings, and no comment unless a string has "//" in it - the first "//" of *)
(* a line is looked at only, and a comment behind that string is left then.   *)
StringsAreKept == Cleansed /\ plain => IsPrefix(kept, lines) /\ (~marked => lines = kept)
===============================================================================
