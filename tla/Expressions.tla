------------------------------- MODULE Expressions -------------------------------
(***************************************************************************)
(* How cpplint.py finds where a bracket or a template argument list ends   *)
(* (CloseExpression) and, from there, where it begins                      *)
(* (ReverseCloseExpression).  The text is read a token at a time, as far   *)
(* as the search goes:                                                     *)
(*   ( ) { }  - for all kinds of brackets, "<" and ">", ";", "=", "-" (in  *)
(*   front of ">": an arrow), "op" (the word operator), " ", "x" and "eol" *)
(*   (the next line).                                                      *)
(***************************************************************************)
EXTENDS Integers, SequencesExt, FiniteSetsExt

CONSTANTS
  Alphabets,        \* sets of tokens; a text consists of those of one of them
  MaxTokens         \* bound: tokens of the text

Opening == {"(", "{"}
Closing == {")", "}"}
Closer(t) == IF t = "(" THEN ")" ELSE "}"

Others == {"-", "op", " ", "x", "eol"}
Tokens == Opening \cup Closing \cup {"<", ">", ";", "="} \cup Others

(* Assumed of the constants. *)
TokensAssumption == Alphabets \subseteq SUBSET Tokens /\ MaxTokens \in Nat

VARIABLES
  alphabet,         \* of the text
  text,             \* from the token that is to be closed up to where the search is
  stack,            \* of the search, the innermost last
  phase,            \* "forward", "found", "backward", "done" or "none" (given up)
  end,              \* where the expression ends, if it was found
  pos,              \* of the search backwards
  begin             \* where that says it begins; 0 if it gave up

expressionVars == <<alphabet, text, stack, phase, end, pos, begin>>

Init ==
  /\ alphabet \in Alphabets
  /\ text \in {<<t>> : t \in alphabet \cap (Opening \cup {"<"})}
  /\ stack = text /\ phase = "forward" /\ end = 0 /\ pos = 0 /\ begin = 0

-------------------------------------------------------------------------------
(* A mistake for a run that must fail: angle brackets stay when a bracket is  *)
(* closed.                                                                    *)
KeepAngles(s, angle) == s

-------------------------------------------------------------------------------
(* The stack without the angle brackets on its top: "the pending '<' must     *)
(* have been an operator".                                                    *)
Depths(s, angle) == {i \in DOMAIN s : s[i] # angle}
DropAngles(s, angle) == IF Depths(s, angle) = {} THEN <<>> ELSE SubSeq(s, 1, Max(Depths(s, angle)))

(* The same for a ";".                                                        *)
DropAtSemicolon(s) == DropAngles(s, "<")

Top(s, t) == s # <<>> /\ Last(s) = t

(* \boperator\s*$ before position i of the line.                              *)
OperatorBefore(i) ==
  \E j \in 1 .. i - 1 : text[j] = "op" /\ \A k \in j + 1 .. i - 1 : text[k] = " "

Before(i, t) == i > 1 /\ text[i - 1] = t

(* FindEndOfExpressionInLine(): the stack after token t behind the text; the  *)
(* search ends if it is empty, with or without having found the end.          *)
Shift == Before(Len(text) + 1, "<")
Found == "found"

AfterLess(i) ==
  IF Shift THEN IF Top(stack, "<") THEN Front(stack) ELSE stack
  ELSE IF OperatorBefore(i) THEN stack ELSE Append(stack, "<")

(* The word is looked for one character too early, so that a ">" right behind *)
(* it is not ignored.                                                         *)
IgnoredGreater(i) == Before(i, "-") \/ (~Before(i, "op") /\ OperatorBefore(i - 1))

Forward(t, next, result) ==
  /\ phase = "forward" /\ Len(text) < MaxTokens
  /\ text' = Append(text, t)
  /\ stack' = next
  /\ phase' = IF next # <<>> THEN "forward" ELSE result
  /\ end' = IF next = <<>> /\ result = Found THEN Len(text) + 1 ELSE 0
  /\ UNCHANGED <<alphabet, pos, begin>>

(* The text "<<" or "<=" is no template argument list to begin with.          *)
ReadLess == Forward("<", IF Len(text) = 1 /\ Shift THEN <<>> ELSE AfterLess(Len(text) + 1), "none")

ReadEqual == Forward("=", IF text = <<"<">> THEN <<>> ELSE stack, "none")

ReadOpening(t) == Forward(t, Append(stack, t), "none")

Fits(open, t) == open # <<>> /\ Closer(Last(open)) = t

ReadClosing(t) ==
  LET open == DropAngles(stack, "<")
  IN  \/ Fits(open, t) /\ Forward(t, Front(open), Found)
      \/ ~Fits(open, t) /\ Forward(t, <<>>, "none")

ReadGreater ==
  Forward(">", IF ~IgnoredGreater(Len(text) + 1) /\ Top(stack, "<") THEN Front(stack) ELSE stack, Found)

ReadSemicolon == Forward(";", DropAtSemicolon(stack), "none")

ReadOther(t) == Forward(t, stack, "none")

FindEnd ==
  \/ "<" \in alphabet /\ ReadLess
  \/ "=" \in alphabet /\ ReadEqual
  \/ \E t \in alphabet \cap Opening : ReadOpening(t)
  \/ \E t \in alphabet \cap Closing : ReadClosing(t)
  \/ ">" \in alphabet /\ ReadGreater
  \/ ";" \in alphabet /\ ReadSemicolon
  \/ \E t \in alphabet \cap Others : ReadOther(t)

-------------------------------------------------------------------------------
(* FindStartOfExpressionInLine(), which keeps the closing brackets on its     *)
(* stack.  A pair of tokens that is ignored is read in one step.              *)
TurnBack ==
  /\ phase = "found" /\ phase' = "backward" /\ pos' = end /\ stack' = <<>>
  /\ UNCHANGED <<alphabet, text, end, begin>>

AtLeast(i) == Before(i, " ") /\ i + 2 <= Len(text) /\ text[i + 1] = "=" /\ text[i + 2] = " "

Backward(next, by) ==
  /\ stack' = next /\ pos' = pos - by
  /\ UNCHANGED <<alphabet, text, phase, end, begin>>

Stop(at) ==
  /\ phase' = "done" /\ begin' = at
  /\ UNCHANGED <<alphabet, text, stack, end, pos>>

BackGreater ==
  /\ text[pos] = ">"
  /\ IF Before(pos, "-") \/ AtLeast(pos) \/ OperatorBefore(pos)
     THEN Backward(stack, 2) ELSE Backward(Append(stack, ">"), 1)

BackLess ==
  /\ text[pos] = "<"
  /\ IF Before(pos, "<") THEN Backward(stack, 2)
     ELSE IF stack = <<">">> THEN Stop(pos)
     ELSE Backward(IF Top(stack, ">") THEN Front(stack) ELSE stack, 1)

BackOpening ==
  /\ text[pos] \in Opening
  /\ LET open == DropAngles(stack, ">")
     IN  IF open = <<>> \/ Last(open) # Closer(text[pos]) THEN Stop(0)
         ELSE IF Len(open) = 1 THEN Stop(pos) ELSE Backward(Front(open), 1)

BackSemicolon ==
  /\ text[pos] = ";"
  /\ IF DropAngles(stack, ">") = <<>> THEN Stop(0) ELSE Backward(DropAngles(stack, ">"), 1)

BackOther ==
  \/ text[pos] \in Closing /\ Backward(Append(stack, text[pos]), 1)
  \/ text[pos] \in {"-", "op", " ", "x", "="} /\ Backward(stack, 1)

(* At the beginning of a line the search goes on only with an open bracket.   *)
BackLine ==
  /\ text[pos] = "eol"
  /\ IF stack = <<>> THEN Stop(0) ELSE Backward(stack, 1)

FindStart ==
  /\ phase = "backward"
  /\ \/ pos < 1 /\ Stop(0)
     \/ pos >= 1 /\ (BackGreater \/ BackLess \/ BackOpening \/ BackSemicolon \/ BackOther \/ BackLine)

Next == FindEnd \/ TurnBack \/ FindStart

Spec == Init /\ [][Next]_expressionVars

-------------------------------------------------------------------------------
(* How deep the brackets are after token i, angle brackets left aside.        *)
Depth(i) ==
  Cardinality({j \in 1 .. i : text[j] \in Opening}) - Cardinality({j \in 1 .. i : text[j] \in Closing})

(* The bracket that the one at j closes.                                      *)
Partner(j) == Max({i \in 1 .. j - 1 : text[i] \in Opening /\ Depth(i) = Depth(j) + 1})

(* Whatever "<", ">" and ";" are in between, as operators or in templates, a  *)
(* bracket ends where the brackets are balanced for the first time; the       *)
(* search gives up only at a bracket of another kind than the one it closes.  *)
BracketsDecide ==
  text[1] \in Opening =>
    /\ end > 0 => Depth(end) = 0 /\ \A i \in 1 .. end - 1 : Depth(i) > 0
    /\ phase = "forward" => \A i \in DOMAIN text : Depth(i) > 0
    /\ phase = "none" => text[Len(text)] \in Closing
                         /\ Closer(text[Partner(Len(text))]) # text[Len(text)]

(* A template argument list that is found has balanced brackets, and no       *)
(* statement ends in it outside of them.                                      *)
ArgumentsAreBalanced ==
  text[1] = "<" /\ end > 0 =>
    /\ Depth(end) = 0 /\ \A i \in 1 .. end : Depth(i) >= 0
    /\ \A i \in 1 .. end : text[i] = ";" => Depth(i) > 0

(* "This is almost the reverse of FindEndOfExpressionInLine": from the end of *)
(* brackets the search backwards comes back to their beginning.               *)
BackToTheBeginning == text[1] \in Opening /\ phase = "done" => begin = 1
===============================================================================
