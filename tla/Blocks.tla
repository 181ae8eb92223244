-------------------------------- MODULE Blocks --------------------------------
(***************************************************************************)
(* The blocks of C++ text that cpplint.py keeps on NestingState.stack, and *)
(* what one piece of text does to them.  A line is a record:               *)
(*   pp    - its preprocessor directive, "" when it has none;              *)
(*   depth - how many more "(" than ")" it has;                            *)
(*   asm   - whether it begins with asm;                                   *)
(*   text  - the tokens that Update() looks for, from left to right:       *)
(*           declarations of namespaces first, then a class, an access     *)
(*           specifier, and the braces, semicolons and parentheses.        *)
(* A class that is a template argument is not a token.                     *)
(***************************************************************************)
EXTENDS Integers, Sequences

Kinds == {"class", "namespace", "extern", "block"}
Heads == {"class", "namespace"}  \* the blocks that may still wait for their brace
Accesses == {"public", "private"}
AsmStates == {"no", "inside", "end", "block"}
Tokens == Heads \cup Accesses \cup {"namespace{", "{", "extern{", "asm{", "}", ";", ")"}
Directives == {"", "if", "else", "endif"}
LineType == [pp : Directives, depth : Int, asm : BOOLEAN, text : Seq(Tokens)]

Block == [kind : Kinds, seen : BOOLEAN, parens : Int, asm : AsmStates, access : Accesses]

NewBlock(kind, seen) ==
  [kind |-> kind, seen |-> seen, parens |-> 0, asm |-> "no", access |-> "private"]

Top(s) == s[Len(s)]
Pop(s) == SubSeq(s, 1, Len(s) - 1)
Push(s, b) == Append(s, b)
ChangeTop(s, b) == [s EXCEPT ![Len(s)] = b]

SeenOpenBrace(s) == s = <<>> \/ Top(s).seen

-------------------------------------------------------------------------------
(* The parentheses of a line, which also open and close inline assembly.      *)
CountParentheses(s, l) ==
  IF s = <<>> THEN s
  ELSE LET b == Top(s)
           open == b.parens + l.depth
           enters == l.depth # 0 /\ open = 1 /\ l.asm
       IN  ChangeTop(s, [b EXCEPT
             !.parens = open,
             !.asm = CASE @ \in {"no", "end"} -> IF enters THEN "inside" ELSE "no"
                       [] @ = "inside" /\ open = 0 -> "end"
                       [] OTHER -> @])

OpenBrace(s) == IF SeenOpenBrace(s) THEN Push(s, NewBlock("block", TRUE))
                ELSE ChangeTop(s, [Top(s) EXCEPT !.seen = TRUE])

OpenAsm(s) == IF SeenOpenBrace(s)
              THEN Push(s, [NewBlock("block", TRUE) EXCEPT !.asm = "block"])
              ELSE ChangeTop(s, [Top(s) EXCEPT !.seen = TRUE])

OpenExternC(s) == IF SeenOpenBrace(s) THEN Push(s, NewBlock("extern", TRUE))
                  ELSE ChangeTop(s, [Top(s) EXCEPT !.seen = TRUE])

DeclareClass(s) == IF s = <<>> \/ Top(s).parens = 0 THEN Push(s, NewBlock("class", FALSE)) ELSE s

SetAccess(s, a) == IF s # <<>> /\ Top(s).kind = "class"
                   THEN ChangeTop(s, [Top(s) EXCEPT !.access = a]) ELSE s

(* One token of the text of a line.                                           *)
Consume(s, t) ==
  CASE t = "namespace"  -> Push(s, NewBlock("namespace", FALSE))
    [] t = "namespace{" -> Push(s, NewBlock("namespace", TRUE))
    [] t = "class"      -> DeclareClass(s)
    [] t \in Accesses   -> SetAccess(s, t)
    [] t = "{"          -> OpenBrace(s)
    [] t = "extern{"    -> OpenExternC(s)
    [] t = "asm{"       -> OpenAsm(s)
    [] t \in {";", ")"} -> IF SeenOpenBrace(s) THEN s ELSE Pop(s)
    [] t = "}"          -> IF s = <<>> THEN s ELSE Pop(s)

(* What CheckCompletedBlocks complains of.                                    *)
Unfinished(s) == {i \in DOMAIN s : s[i].kind \in Heads}
===============================================================================
