----------------------------- MODULE BlockNesting -----------------------------
(***************************************************************************)
(* NestingState of cpplint.py: the blocks that are open while a file is    *)
(* checked, across #if, #else and #endif.  The code assumes that the       *)
(* condition of an #if holds, so that what stands between the first #else  *)
(* or #elif and the #endif is checked without any effect on what follows.  *)
(* To that end it saves the whole stack at each #if and at the first #else.*)
(***************************************************************************)
EXTENDS Blocks

CONSTANTS
  Lines,            \* the lines a file may have
  MaxBlocks,        \* bound: blocks open at once
  MaxConditionals,  \* bound: conditionals open at once
  MaxParens         \* bound: unbalanced parentheses in a block

ASSUME LinesAssumption == Lines \subseteq LineType
ASSUME BoundsAssumption == MaxBlocks \in Nat /\ MaxConditionals \in Nat /\ MaxParens \in Nat

VARIABLES
  stack,       \* NestingState.stack
  ppStack,     \* NestingState.pp_stack
  rest,        \* what Update() has not looked at yet of the current line
  incomplete,  \* the blocks that CheckCompletedBlocks has reported
  finished     \* the file is at its end

nestingVars == <<stack, ppStack, rest, incomplete, finished>>

(* _PreprocessorInfo                                                          *)
Checkpoint == [beforeIf : Seq(Block), beforeElse : Seq(Block), seenElse : BOOLEAN]

TypeOK ==
  /\ stack \in Seq(Block)
  /\ ppStack \in Seq(Checkpoint)
  /\ rest \in Seq(Tokens)
  /\ incomplete \subseteq Nat
  /\ finished \in BOOLEAN

Init == stack = <<>> /\ ppStack = <<>> /\ rest = <<>> /\ incomplete = {} /\ finished = FALSE

-------------------------------------------------------------------------------
(* A mistake for a run that must fail: every #elif and #else overwrites what  *)
(* the first one saved.                                                       *)
ElseAlways(s, pp) ==
  IF pp = <<>> THEN <<s, pp>>
  ELSE <<Top(pp).beforeIf,
         ChangeTop(pp, [Top(pp) EXCEPT !.seenElse = TRUE, !.beforeElse = s])>>

-------------------------------------------------------------------------------
(* UpdatePreprocessor() returns the stack and the checkpoints.                *)
BeginIf(s, pp) ==
  <<s, Push(pp, [beforeIf |-> s, beforeElse |-> <<>>, seenElse |-> FALSE])>>

Else(s, pp) ==
  IF pp = <<>> THEN <<s, pp>>
  ELSE <<Top(pp).beforeIf,
         IF Top(pp).seenElse THEN pp
         ELSE ChangeTop(pp, [Top(pp) EXCEPT !.seenElse = TRUE, !.beforeElse = s])>>

Endif(s, pp) ==
  IF pp = <<>> THEN <<s, pp>>
  ELSE <<IF Top(pp).seenElse THEN Top(pp).beforeElse ELSE s, Pop(pp)>>

UpdatePreprocessor(directive) ==
  CASE directive = "if"    -> BeginIf(stack, ppStack)
    [] directive = "else"  -> Else(stack, ppStack)
    [] directive = "endif" -> Endif(stack, ppStack)
    [] directive = ""      -> <<stack, ppStack>>

(* For the bound only: the line may add a block.                              *)
Opens(l) == \E k \in DOMAIN l.text :
  \/ l.text[k] \in {"class", "namespace", "namespace{"}
  \/ l.text[k] \in {"{", "extern{", "asm{"} /\ SeenOpenBrace(stack)

(* Update() begins with a line: its directive first, then its parentheses.    *)
UpdateLine(l) ==
  /\ ~finished /\ rest = <<>>
  /\ Len(stack) < MaxBlocks \/ ~Opens(l)
  /\ l.pp = "if" => Len(ppStack) < MaxConditionals
  /\ stack # <<>> => Top(stack).parens + l.depth \in -MaxParens .. MaxParens
  /\ LET updated == UpdatePreprocessor(l.pp)
     IN  /\ stack' = CountParentheses(updated[1], l)
         /\ ppStack' = updated[2]
  /\ rest' = l.text
  /\ UNCHANGED <<incomplete, finished>>

(* ... and goes on with one token of the line after the other.                *)
UpdateToken ==
  /\ rest # <<>>
  /\ stack' = Consume(stack, Head(rest))
  /\ rest' = Tail(rest)
  /\ UNCHANGED <<ppStack, incomplete, finished>>

(* CheckCompletedBlocks(), on a file whose conditionals are all closed.       *)
CheckCompletedBlocks ==
  /\ ~finished /\ rest = <<>> /\ ppStack = <<>>
  /\ finished' = TRUE
  /\ incomplete' = Unfinished(stack)
  /\ UNCHANGED <<stack, ppStack, rest>>

Next == (\E l \in Lines : UpdateLine(l)) \/ UpdateToken \/ CheckCompletedBlocks

Spec == Init /\ [][Next]_nestingVars

-------------------------------------------------------------------------------
(* The conditionals whose #else has gone by: what is being read is not        *)
(* compiled when there is one.                                                *)
InElse(pp) == {i \in DOMAIN pp : pp[i].seenElse}

Outermost(pp) == CHOOSE i \in InElse(pp) : \A j \in InElse(pp) : i <= j

(* The blocks that are open in the text that is compiled.                     *)
Compiled(s, pp) == IF InElse(pp) = {} THEN s ELSE pp[Outermost(pp)].beforeElse

Code == INSTANCE BraceNesting WITH
  nest <- Compiled(stack, ppStack),
  left <- IF InElse(ppStack) = {} THEN rest ELSE <<>>,
  complaint <- incomplete

(* The nesting is that of the text without what stands between #else and      *)
(* #endif, however conditionals nest and wherever they cut a block in two.    *)
ImplementsBraceNesting == Code!Spec

(* Lines are left unchecked as inline assembly only while the parenthesis     *)
(* that began it is open, which is a count of parentheses other than zero     *)
(* (ProcessLine returns when InAsmBlock()).                                   *)
AsmHasOpenParenthesis ==
  \A i \in DOMAIN stack :
    /\ stack[i].asm = "inside" => stack[i].parens # 0
    /\ stack[i].asm = "end" => stack[i].parens = 0
===============================================================================
