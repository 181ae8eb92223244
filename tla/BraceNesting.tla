----------------------------- MODULE BraceNesting -----------------------------
(***************************************************************************)
(* What the nesting of blocks means: the blocks that are open in a text    *)
(* without conditionals, read line by line and token by token.             *)
(***************************************************************************)
EXTENDS Blocks

CONSTANT Lines  \* as in BlockNesting

VARIABLES
  nest,      \* the open blocks, innermost last
  left,      \* what is left of the current line
  complaint  \* the blocks found incomplete at the end of the file

vars == <<nest, left, complaint>>

Init == nest = <<>> /\ left = <<>> /\ complaint = {}

Line(l) ==
  /\ left = <<>>
  /\ nest' = CountParentheses(nest, l) /\ left' = l.text
  /\ UNCHANGED complaint

Token ==
  /\ left # <<>>
  /\ nest' = Consume(nest, Head(left)) /\ left' = Tail(left)
  /\ UNCHANGED complaint

EndOfFile ==
  /\ left = <<>>
  /\ complaint' = Unfinished(nest)
  /\ UNCHANGED <<nest, left>>

Next == (\E l \in Lines : Line(l)) \/ Token \/ EndOfFile

Spec == Init /\ [][Next]_vars
===============================================================================
