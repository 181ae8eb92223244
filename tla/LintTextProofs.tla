---------------------------- MODULE LintTextProofs ----------------------------
(* Proofs about what cpplint.py keeps over the lines of a text: BlockNesting, *)
(* for any lines and any bounds, the includes, for any file, headers, lines   *)
(* and bounds, the Endings of assembly, functions, brackets and template      *)
(* arguments, for any text, and Cleansing, for lines of any length.           *)
EXTENDS Endings, IncludeWhatYouUse, Cleansing, SequenceTheorems, FiniteSetTheorems,
        WellFoundedInduction, TLAPS

(* The operators on stacks keep to stacks of blocks.                          *)
LEMMA StackOperators ==
  ASSUME NEW S, NEW s \in Seq(S)
  PROVE  /\ \A b \in S : Push(s, b) \in Seq(S)
         /\ s # <<>> => /\ Top(s) \in S
                        /\ Pop(s) \in Seq(S)
                        /\ \A b \in S : ChangeTop(s, b) \in Seq(S)
<1>1. \A b \in S : Push(s, b) \in Seq(S)
  BY DEF Push
<1>2. ASSUME s # <<>> PROVE Top(s) \in S
  BY <1>2 DEF Top
<1>3. ASSUME s # <<>> PROVE Pop(s) \in Seq(S)
  BY <1>3 DEF Pop
<1>4. ASSUME s # <<>>, NEW b \in S PROVE ChangeTop(s, b) \in Seq(S)
  BY <1>4 DEF ChangeTop
<1> QED BY <1>1, <1>2, <1>3, <1>4

LEMMA NewBlockType ==
  ASSUME NEW kind \in Kinds, NEW seen \in BOOLEAN
  PROVE  NewBlock(kind, seen) \in Block
  BY DEF NewBlock, Block, AsmStates, Accesses

LEMMA CountParenthesesType ==
  ASSUME NEW s \in Seq(Block), NEW l \in LineType
  PROVE  CountParentheses(s, l) \in Seq(Block)
<1>1. CASE s = <<>>  BY <1>1 DEF CountParentheses
<1>2. CASE s # <<>>
  <2> DEFINE b == Top(s)
             opened == b.parens + l.depth
             enters == l.depth # 0 /\ opened = 1 /\ l.asm
             asm == CASE b.asm \in {"no", "end"} -> IF enters THEN "inside" ELSE "no"
                      [] b.asm = "inside" /\ opened = 0 -> "end"
                      [] OTHER -> b.asm
             c == [b EXCEPT !.parens = opened, !.asm = asm]
  <2>1. b \in Block  BY <1>2, StackOperators
  <2>2. opened \in Int  BY <2>1 DEF Block, LineType
  <2>3. asm \in AsmStates
    <3> HIDE DEF opened, enters, b
    <3> QED BY <2>1 DEF Block, AsmStates
  <2>4. c \in Block
    <3> HIDE DEF opened, asm, b
    <3> QED BY <2>1, <2>2, <2>3 DEF Block
  <2>5. CountParentheses(s, l) = ChangeTop(s, c)  BY <1>2 DEF CountParentheses
  <2> QED BY <1>2, <2>4, <2>5, StackOperators
<1> QED BY <1>1, <1>2

LEMMA ConsumeType ==
  ASSUME NEW s \in Seq(Block), NEW t \in Tokens
  PROVE  Consume(s, t) \in Seq(Block)
<1>1. NewBlock("namespace", FALSE) \in Block /\ NewBlock("namespace", TRUE) \in Block
      /\ NewBlock("class", FALSE) \in Block /\ NewBlock("extern", TRUE) \in Block
      /\ NewBlock("block", TRUE) \in Block
  BY NewBlockType DEF Kinds
<1>2. [NewBlock("block", TRUE) EXCEPT !.asm = "block"] \in Block
  BY <1>1 DEF Block, AsmStates
<1>3. ASSUME s # <<>>
      PROVE  /\ [Top(s) EXCEPT !.seen = TRUE] \in Block
             /\ \A a \in Accesses : [Top(s) EXCEPT !.access = a] \in Block
  BY <1>3, StackOperators DEF Block
<1>4. OpenBrace(s) \in Seq(Block) /\ OpenAsm(s) \in Seq(Block) /\ OpenExternC(s) \in Seq(Block)
  BY <1>1, <1>2, <1>3, StackOperators DEF OpenBrace, OpenAsm, OpenExternC, SeenOpenBrace
<1>5. DeclareClass(s) \in Seq(Block)  BY <1>1, StackOperators DEF DeclareClass
<1>6. \A a \in Accesses : SetAccess(s, a) \in Seq(Block)
  BY <1>3, StackOperators DEF SetAccess
<1>7. t \in {";", ")"} => Consume(s, t) \in Seq(Block)
  BY StackOperators DEF Consume, SeenOpenBrace, Accesses
<1>8. t = "}" => Consume(s, t) \in Seq(Block)
  BY StackOperators DEF Consume, Accesses
<1>9. t \in {"namespace", "namespace{", "class", "{", "extern{", "asm{"} \cup Accesses
        => Consume(s, t) \in Seq(Block)
  BY <1>1, <1>4, <1>5, <1>6, StackOperators DEF Consume, Accesses
<1> QED BY <1>7, <1>8, <1>9 DEF Tokens, Heads, Accesses

-------------------------------------------------------------------------------
(* What a directive does keeps to the types.                                  *)
LEMMA UpdatePreprocessorType ==
  ASSUME TypeOK, NEW d \in Directives
  PROVE  /\ UpdatePreprocessor(d)[1] \in Seq(Block)
         /\ UpdatePreprocessor(d)[2] \in Seq(Checkpoint)
<1>1. CASE d = "if"
  <2>1. [beforeIf |-> stack, beforeElse |-> <<>>, seenElse |-> FALSE] \in Checkpoint
    BY DEF TypeOK, Checkpoint
  <2> QED BY <1>1, <2>1 DEF UpdatePreprocessor, BeginIf, Push, TypeOK
<1>2. CASE d = "else"
  <2>1. CASE ppStack = <<>>  BY <1>2, <2>1 DEF UpdatePreprocessor, Else, TypeOK
  <2>2. CASE ppStack # <<>>
    <3>1. Top(ppStack) \in Checkpoint  BY <2>2 DEF TypeOK, Top
    <3>2. [Top(ppStack) EXCEPT !.seenElse = TRUE, !.beforeElse = stack] \in Checkpoint
      BY <3>1 DEF Checkpoint, TypeOK
    <3>3. Top(ppStack).beforeIf \in Seq(Block)  BY <3>1 DEF Checkpoint
    <3>4. ChangeTop(ppStack, [Top(ppStack) EXCEPT !.seenElse = TRUE, !.beforeElse = stack])
            \in Seq(Checkpoint)
      BY <2>2, <3>2 DEF ChangeTop, TypeOK
    <3> QED BY <1>2, <2>2, <3>3, <3>4 DEF UpdatePreprocessor, Else, TypeOK
  <2> QED BY <2>1, <2>2
<1>3. CASE d = "endif"
  <2>1. CASE ppStack = <<>>  BY <1>3, <2>1 DEF UpdatePreprocessor, Endif, TypeOK
  <2>2. CASE ppStack # <<>>
    <3>1. Top(ppStack) \in Checkpoint  BY <2>2 DEF TypeOK, Top
    <3>2. Pop(ppStack) \in Seq(Checkpoint)  BY <2>2 DEF Pop, TypeOK
    <3> QED BY <1>3, <2>2, <3>1, <3>2 DEF UpdatePreprocessor, Endif, TypeOK, Checkpoint
  <2> QED BY <2>1, <2>2
<1>4. CASE d = ""  BY <1>4 DEF UpdatePreprocessor, TypeOK
<1> QED BY <1>1, <1>2, <1>3, <1>4 DEF Directives

(* Type correctness for any set of lines.                                     *)
THEOREM TypeCorrect == Spec => []TypeOK
<1>1. Init => TypeOK
  <2>1. <<>> \in Seq(Block) /\ <<>> \in Seq(Checkpoint) /\ <<>> \in Seq(Tokens)
    OBVIOUS
  <2> QED BY <2>1 DEF Init, TypeOK
<1>2. TypeOK /\ [Next]_nestingVars => TypeOK'
  <2> SUFFICES ASSUME TypeOK, [Next]_nestingVars PROVE TypeOK'
    OBVIOUS
  <2>1. ASSUME NEW l \in Lines, UpdateLine(l) PROVE TypeOK'
    <3>1. l \in LineType  BY LinesAssumption
    <3>2. l.pp \in Directives /\ l.text \in Seq(Tokens)  BY <3>1 DEF LineType
    <3>3. stack' \in Seq(Block) /\ ppStack' \in Seq(Checkpoint)
      BY <2>1, <3>1, <3>2, UpdatePreprocessorType, CountParenthesesType DEF UpdateLine
    <3> QED BY <2>1, <3>2, <3>3 DEF UpdateLine, TypeOK
  <2>2. ASSUME UpdateToken PROVE TypeOK'
    <3>1. Head(rest) \in Tokens /\ Tail(rest) \in Seq(Tokens)  BY <2>2 DEF UpdateToken, TypeOK
    <3>2. stack' \in Seq(Block)  BY <2>2, <3>1, ConsumeType DEF UpdateToken, TypeOK
    <3> QED BY <2>2, <3>1, <3>2 DEF UpdateToken, TypeOK
  <2>3. ASSUME CheckCompletedBlocks PROVE TypeOK'
    BY <2>3 DEF CheckCompletedBlocks, TypeOK, Unfinished
  <2>4. CASE UNCHANGED nestingVars  BY <2>4 DEF nestingVars, TypeOK
  <2> QED BY <2>1, <2>2, <2>3, <2>4 DEF Next
<1> QED BY <1>1, <1>2, PTL DEF Spec

-------------------------------------------------------------------------------
(* The outermost conditional of those in their #else.                         *)
LEMMA OutermostExists ==
  ASSUME NEW pp \in Seq(Checkpoint), InElse(pp) # {}
  PROVE  Outermost(pp) \in InElse(pp) /\ \A j \in InElse(pp) : Outermost(pp) <= j
<1>1. InElse(pp) \subseteq Nat
  BY DEF InElse
<1>2. PICK i \in InElse(pp) : \A j \in InElse(pp) : ~(<<j, i>> \in OpToRel(<, Nat))
  BY <1>1, NatLessThanWellFounded, WFMin
<1>3. ASSUME NEW j \in InElse(pp), ~(i <= j) PROVE FALSE
  <2>1. i \in Nat /\ j \in Nat /\ j < i  BY <1>1, <1>3
  <2>2. <<j, i>> \in {ss \in Nat \X Nat : ss[1] < ss[2]}  BY <2>1
  <2> QED BY <1>2, <2>2 DEF OpToRel
<1> QED BY <1>3 DEF Outermost

LEMMA OutermostIs ==
  ASSUME NEW pp \in Seq(Checkpoint), NEW i \in InElse(pp), \A j \in InElse(pp) : i <= j
  PROVE  Outermost(pp) = i
<1>1. Outermost(pp) \in InElse(pp) /\ Outermost(pp) <= i
  BY OutermostExists
<1>2. i <= Outermost(pp)
  BY <1>1
<1>3. InElse(pp) \subseteq Nat
  BY DEF InElse
<1> QED BY <1>1, <1>2, <1>3

(* An #if leaves the compiled text where it was, in or out of an #else.       *)
LEMMA IfKeepsCompiled ==
  ASSUME NEW s \in Seq(Block), NEW pp \in Seq(Checkpoint), BeginIf(s, pp)[2] \in Seq(Checkpoint)
  PROVE  /\ InElse(BeginIf(s, pp)[2]) = InElse(pp)
         /\ \A t : Compiled(t, BeginIf(s, pp)[2]) = Compiled(t, pp)
<1> DEFINE c == [beforeIf |-> s, beforeElse |-> <<>>, seenElse |-> FALSE]
           qq == Push(pp, c)
<1>1. BeginIf(s, pp)[2] = qq  BY DEF BeginIf
<1>2. /\ DOMAIN qq = 1 .. Len(pp) + 1 /\ DOMAIN pp = 1 .. Len(pp) /\ Len(pp) \in Nat
      /\ \A i \in DOMAIN pp : qq[i] = pp[i]
      /\ qq[Len(pp) + 1] = c
  BY DEF Push
<1>3. InElse(qq) = InElse(pp)
  <2> HIDE DEF qq
  <2> QED BY <1>2 DEF InElse
<1>4. ASSUME InElse(pp) # {} PROVE Outermost(qq) = Outermost(pp) /\ qq[Outermost(pp)] = pp[Outermost(pp)]
  <2>1. Outermost(pp) \in InElse(pp) /\ \A j \in InElse(pp) : Outermost(pp) <= j
    BY <1>4, OutermostExists
  <2>2. Outermost(qq) = Outermost(pp)
    <3> HIDE DEF qq
    <3> QED BY <1>1, <1>3, <2>1, OutermostIs
  <2> QED BY <2>1, <2>2, <1>2 DEF InElse
<1>5. \A t : Compiled(t, qq) = Compiled(t, pp)
  <2> HIDE DEF qq
  <2> QED BY <1>3, <1>4 DEF Compiled
<1> QED BY <1>1, <1>3, <1>5

(* From the first #else on, the compiled text stays where it was before it.   *)
LEMMA ElseKeepsCompiled ==
  ASSUME NEW s \in Seq(Block), NEW pp \in Seq(Checkpoint), pp # <<>>,
         Else(s, pp)[2] \in Seq(Checkpoint)
  PROVE  /\ InElse(Else(s, pp)[2]) # {}
         /\ \A t : Compiled(t, Else(s, pp)[2]) = Compiled(s, pp)
<1> DEFINE n == Len(pp)
           c == [Top(pp) EXCEPT !.seenElse = TRUE, !.beforeElse = s]
           qq == IF Top(pp).seenElse THEN pp ELSE ChangeTop(pp, c)
<1>1. Else(s, pp)[2] = qq  BY DEF Else
<1>2. n \in Nat /\ n >= 1 /\ DOMAIN pp = 1 .. n /\ Top(pp) = pp[n] /\ pp[n] \in Checkpoint
  BY DEF Top
<1>3. c.seenElse = TRUE /\ c.beforeElse = s
  BY <1>2 DEF Checkpoint
<1>4. CASE Top(pp).seenElse
  <2>1. n \in InElse(pp)  BY <1>2, <1>4 DEF InElse
  <2> QED BY <1>1, <1>4, <2>1 DEF Compiled
<1>5. CASE ~Top(pp).seenElse
  <2>1. qq = [pp EXCEPT ![n] = c]  BY <1>5 DEF ChangeTop
  <2>2. DOMAIN qq = 1 .. n /\ qq[n] = c /\ \A i \in 1 .. n : i # n => qq[i] = pp[i]
    <3>1. n \in DOMAIN pp  BY <1>2
    <3> HIDE DEF c, qq, n
    <3> QED BY <1>2, <2>1, <3>1
  <2>3. InElse(qq) = InElse(pp) \cup {n} /\ n \notin InElse(pp)
    <3> HIDE DEF qq, c, n
    <3>1. \A i \in 1 .. n : qq[i].seenElse <=> i = n \/ pp[i].seenElse
      BY <1>3, <2>2
    <3>2. ~pp[n].seenElse /\ n \in 1 .. n
      BY <1>2, <1>5
    <3> QED BY <1>2, <2>2, <3>1, <3>2 DEF InElse
  <2>4. CASE InElse(pp) = {}
    <3>1. Outermost(qq) = n
      <4> HIDE DEF qq
      <4> QED BY <1>1, <1>2, <2>3, <2>4, OutermostIs
    <3>2. \A t : Compiled(t, qq) = s
      <4> HIDE DEF qq, c
      <4> QED BY <1>3, <2>2, <2>3, <3>1 DEF Compiled
    <3>3. Compiled(s, pp) = s  BY <2>4 DEF Compiled
    <3> QED BY <1>1, <2>3, <3>2, <3>3
  <2>5. CASE InElse(pp) # {}
    <3>1. Outermost(pp) \in InElse(pp) /\ \A j \in InElse(pp) : Outermost(pp) <= j
      BY <2>5, OutermostExists
    <3>2. Outermost(pp) \in 1 .. n /\ Outermost(pp) # n
      BY <1>2, <2>3, <3>1 DEF InElse
    <3>3. Outermost(qq) = Outermost(pp)
      <4> HIDE DEF qq
      <4>1. Outermost(pp) \in InElse(qq) /\ \A j \in InElse(qq) : Outermost(pp) <= j
        BY <1>2, <2>3, <3>1, <3>2
      <4> QED BY <1>1, <4>1, OutermostIs
    <3>4. \A t : Compiled(t, qq) = Compiled(s, pp)
      <4> HIDE DEF qq, c
      <4> QED BY <2>2, <2>3, <2>5, <3>2, <3>3 DEF Compiled
    <3> QED BY <1>1, <2>3, <3>4
  <2> QED BY <2>4, <2>5
<1> QED BY <1>4, <1>5

(* The #endif brings the reading back to the compiled text, or leaves it in   *)
(* the #else of an outer conditional.                                         *)
LEMMA EndifKeepsCompiled ==
  ASSUME NEW s \in Seq(Block), NEW pp \in Seq(Checkpoint), pp # <<>>,
         Endif(s, pp)[2] \in Seq(Checkpoint)
  PROVE  /\ Compiled(Endif(s, pp)[1], Endif(s, pp)[2]) = Compiled(s, pp)
         /\ InElse(pp) = {} => InElse(Endif(s, pp)[2]) = {}
         /\ InElse(Endif(s, pp)[2]) # {}
              => \A t : Compiled(t, Endif(s, pp)[2]) = Compiled(s, pp)
<1> DEFINE n == Len(pp)
           qq == Pop(pp)
           t0 == IF Top(pp).seenElse THEN Top(pp).beforeElse ELSE s
<1>1. Endif(s, pp)[2] = qq /\ Endif(s, pp)[1] = t0  BY DEF Endif
<1>2. n \in Nat /\ n >= 1 /\ DOMAIN pp = 1 .. n /\ Top(pp) = pp[n]
  BY DEF Top
<1>3. DOMAIN qq = 1 .. n - 1 /\ \A i \in 1 .. n - 1 : qq[i] = pp[i]
  BY <1>2 DEF Pop
<1> HIDE DEF qq, n
<1>4. InElse(qq) = InElse(pp) \ {n}
  BY <1>2, <1>3 DEF InElse
<1>5. CASE InElse(qq) # {}
  <2>1. Outermost(qq) \in InElse(qq) /\ \A j \in InElse(qq) : Outermost(qq) <= j
    BY <1>1, <1>5, OutermostExists
  <2>2. Outermost(qq) \in 1 .. n - 1
    BY <1>3, <2>1 DEF InElse
  <2>3. Outermost(pp) = Outermost(qq)
    <3>1. Outermost(qq) \in InElse(pp) /\ \A j \in InElse(pp) : Outermost(qq) <= j
      BY <1>2, <1>4, <2>1, <2>2
    <3> QED BY <3>1, OutermostIs
  <2>4. \A t : Compiled(t, qq) = Compiled(s, pp)
    BY <1>3, <1>4, <1>5, <2>2, <2>3 DEF Compiled
  <2> QED BY <1>1, <1>4, <1>5, <2>4
<1>6. CASE InElse(qq) = {}
  <2>1. CASE Top(pp).seenElse
    <3>1. n \in InElse(pp) /\ \A j \in InElse(pp) : n <= j
      BY <1>2, <1>4, <1>6, <2>1 DEF InElse
    <3>2. Outermost(pp) = n  BY <3>1, OutermostIs
    <3>3. Compiled(s, pp) = Top(pp).beforeElse  BY <1>2, <3>1, <3>2 DEF Compiled
    <3> QED BY <1>1, <1>4, <1>6, <2>1, <3>3 DEF Compiled
  <2>2. CASE ~Top(pp).seenElse
    <3>1. InElse(pp) = {}  BY <1>2, <1>4, <1>6, <2>2 DEF InElse
    <3> QED BY <1>1, <1>6, <2>2, <3>1 DEF Compiled
  <2> QED BY <2>1, <2>2
<1> QED BY <1>5, <1>6

-------------------------------------------------------------------------------
(* Both modules read a line, a token and the end of a file alike.             *)
LEMMA SameReading ==
  ASSUME NEW s
  PROVE  /\ \A l : Code!CountParentheses(s, l) = CountParentheses(s, l)
         /\ \A t : Code!Consume(s, t) = Consume(s, t)
         /\ Code!Unfinished(s) = Unfinished(s)
<1> USE DEF Code!Top, Code!Pop, Code!Push, Code!ChangeTop, Code!SeenOpenBrace, Code!NewBlock,
            Code!Heads, Code!Accesses, Top, Pop, Push, ChangeTop, SeenOpenBrace, NewBlock, Heads, Accesses
<1>1. ASSUME NEW l PROVE Code!CountParentheses(s, l) = CountParentheses(s, l)
  BY DEF Code!CountParentheses, CountParentheses
<1>2. /\ Code!OpenBrace(s) = OpenBrace(s) /\ Code!OpenAsm(s) = OpenAsm(s)
      /\ Code!OpenExternC(s) = OpenExternC(s) /\ Code!DeclareClass(s) = DeclareClass(s)
  BY DEF Code!OpenBrace, OpenBrace, Code!OpenAsm, OpenAsm, Code!OpenExternC, OpenExternC,
         Code!DeclareClass, DeclareClass
<1>3. ASSUME NEW t PROVE Code!SetAccess(s, t) = SetAccess(s, t)
  BY DEF Code!SetAccess, SetAccess
<1>4. ASSUME NEW t PROVE Code!Consume(s, t) = Consume(s, t)
  BY <1>2, <1>3 DEF Code!Consume, Consume
<1> QED BY <1>1, <1>4 DEF Code!Unfinished, Unfinished

-------------------------------------------------------------------------------
(* The nesting that cpplint works with is that of the compiled text: what is  *)
(* between #else and #endif has no effect, however conditionals nest and      *)
(* whatever blocks they cut in two.                                           *)
THEOREM NestingIsThatOfTheCode == Spec => ImplementsBraceNesting
<1>1. Init => Code!Init
  <2>1. ASSUME Init PROVE InElse(ppStack) = {}  BY <2>1 DEF Init, InElse
  <2> QED BY <2>1 DEF Init, Code!Init, Compiled
<1>2. ASSUME TypeOK, TypeOK', [Next]_nestingVars PROVE [Code!Next]_(Code!vars)
  <2>1. ASSUME NEW l \in Lines, UpdateLine(l) PROVE [Code!Next]_(Code!vars)
    <3> DEFINE s1 == UpdatePreprocessor(l.pp)[1]
               pp1 == UpdatePreprocessor(l.pp)[2]
    <3>1. /\ rest = <<>> /\ rest' = l.text /\ ppStack' = pp1 /\ incomplete' = incomplete
          /\ stack' = CountParentheses(s1, l) /\ l \in LineType /\ l.pp \in Directives
      BY <2>1, LinesAssumption DEF UpdateLine, LineType
    <3>2. s1 \in Seq(Block) /\ pp1 \in Seq(Checkpoint) /\ stack \in Seq(Block) /\ ppStack \in Seq(Checkpoint)
      BY <1>2, <3>1, UpdatePreprocessorType DEF TypeOK
    <3>3. /\ InElse(pp1) = {} => InElse(ppStack) = {} \/ l.pp = "endif"
          /\ InElse(pp1) = {} => s1 = Compiled(stack, ppStack)
          /\ InElse(pp1) # {} => \A t : Compiled(t, pp1) = Compiled(stack, ppStack)
      <4>1. CASE l.pp = "if"
        BY <3>2, <4>1, IfKeepsCompiled DEF UpdatePreprocessor, BeginIf, Compiled
      <4>2. CASE l.pp = "else"
        <5>1. CASE ppStack = <<>>
          BY <4>2, <5>1 DEF UpdatePreprocessor, Else, Compiled, InElse
        <5>2. CASE ppStack # <<>>
          BY <3>2, <4>2, <5>2, ElseKeepsCompiled DEF UpdatePreprocessor
        <5> QED BY <5>1, <5>2
      <4>3. CASE l.pp = "endif"
        <5>1. CASE ppStack = <<>>
          BY <4>3, <5>1 DEF UpdatePreprocessor, Endif, Compiled, InElse
        <5>2. CASE ppStack # <<>>
          <6>1. /\ Compiled(s1, pp1) = Compiled(stack, ppStack)
                /\ InElse(pp1) # {} => \A t : Compiled(t, pp1) = Compiled(stack, ppStack)
            BY <3>2, <4>3, <5>2, EndifKeepsCompiled DEF UpdatePreprocessor
          <6> QED BY <4>3, <6>1 DEF Compiled
        <5> QED BY <5>1, <5>2
      <4>4. CASE l.pp = ""
        BY <4>4 DEF UpdatePreprocessor, Compiled
      <4> QED BY <3>1, <4>1, <4>2, <4>3, <4>4 DEF Directives
    <3> HIDE DEF s1, pp1
    <3>4. CASE InElse(pp1) = {}
      <4>1. Code!Line(l)
        BY <3>1, <3>3, <3>4, SameReading DEF Code!Line, Compiled
      <4> QED BY <4>1 DEF Code!Next
    <3>5. CASE InElse(pp1) # {}
      <4>1. Compiled(stack, ppStack)' = Compiled(stack, ppStack)
        BY <3>1, <3>3, <3>5
      <4> QED BY <3>1, <3>5, <4>1 DEF Code!vars
    <3> QED BY <3>4, <3>5
  <2>2. ASSUME UpdateToken PROVE [Code!Next]_(Code!vars)
    <3>1. CASE InElse(ppStack) = {}
      <4>1. Code!Token
        BY <2>2, <3>1, SameReading DEF UpdateToken, Code!Token, Compiled
      <4> QED BY <4>1 DEF Code!Next
    <3>2. CASE InElse(ppStack) # {}
      BY <2>2, <3>2 DEF UpdateToken, Compiled, Code!vars
    <3> QED BY <3>1, <3>2
  <2>3. ASSUME CheckCompletedBlocks PROVE [Code!Next]_(Code!vars)
    <3>1. InElse(ppStack) = {}
      BY <2>3 DEF CheckCompletedBlocks, InElse
    <3>2. Code!EndOfFile
      BY <2>3, <3>1, SameReading DEF CheckCompletedBlocks, Code!EndOfFile, Compiled
    <3> QED BY <3>2 DEF Code!Next
  <2>4. CASE UNCHANGED nestingVars
    BY <2>4 DEF nestingVars, Code!vars
  <2> QED BY <1>2, <2>1, <2>2, <2>3, <2>4 DEF Next
<1> QED BY <1>1, <1>2, TypeCorrect, PTL DEF Spec, ImplementsBraceNesting, Code!Spec

-------------------------------------------------------------------------------
(* The includes.                                                              *)

(* The lines a text may have, and the entries of the lists of includes.       *)
LineRanges ==
  {Line(directive) : directive \in Conditionals} \cup source.others
    \cup {[kind |-> "include", header |-> h] : h \in source.headers}

Entries == [header : source.headers, line : Nat]
Entry(n) == [header |-> text[n].header, line |-> n]

IncludeTypes ==
  /\ source \in Sources /\ text \in Seq(LineRanges)
  /\ includeList \in Seq(SUBSET Entries) /\ includeList # <<>>
  /\ section \in 0 .. 5
  /\ \A e \in told : e.line \in 1 .. Len(text)

(* The includes that are in the lists: those that no #else has taken away, in *)
(* the last list if no #if has come after them.                               *)
IfAfter(n) == Between(n, Len(text) + 1, {"if"}) # {}
Listed(later) == {Entry(n) : n \in {k \in Recorded : ~Lost(k) /\ (IfAfter(k) <=> later)}}
ListsAreExact ==
  /\ UNION Range(Front(includeList)) = Listed(TRUE)
  /\ Last(includeList) = Listed(FALSE)

(* The section is that of the latest include since the last directive.        *)
Current == Region(Len(text) + 1)
SectionIsHighest ==
  /\ \A m \in Current : Rank(m) <= section
  /\ section # 0 => \E m \in Current : Rank(m) = section

LastHeaderIsAbove == Len(text) \in Recorded => lastHeader = text[Len(text)].header.alpha

(* What is told to be repeated had not been taken away.                       *)
RepeatsOfListed ==
  \A e \in told : e.category = "duplicate" =>
    /\ e.at \in 1 .. Len(text) /\ e.at < e.line
    /\ Path(text[e.at].header) = Path(text[e.line].header)
    /\ \A i \in Between(e.at, e.line, {"else"}) : Between(e.at, i, {"if"}) # {}

IncludeInv ==
  /\ IncludeTypes /\ ListsAreExact /\ SectionIsHighest /\ LastHeaderIsAbove
  /\ OrderIsSorted /\ AlphabeticalOrderIsTold /\ RepeatsOfListed /\ RepeatsAreTold

-------------------------------------------------------------------------------
(* A list of lists with another last list.                                    *)
LEMMA LastOfAppended ==
  ASSUME NEW S, NEW s \in Seq(S), NEW e \in S
  PROVE  /\ Front(Append(s, e)) = s /\ Last(Append(s, e)) = e
         /\ Front(s \o <<e>>) = s /\ Last(s \o <<e>>) = e
<1>1. s \o <<e>> = Append(s, e)
  BY AppendIsConcat
<1>2. Append(s, e) \in Seq(S) /\ Len(Append(s, e)) = Len(s) + 1 /\ Append(s, e)[Len(s) + 1] = e
      /\ \A i \in 1 .. Len(s) : Append(s, e)[i] = s[i]
  BY AppendProperties
<1>3. Front(Append(s, e)) = s
  <2>1. PICK t \in Seq(S) : t = Append(s, e)
    BY <1>2
  <2>2. Len(t) = Len(s) + 1 /\ Len(s) \in Nat /\ \A i \in 1 .. Len(s) : t[i] = s[i]
    BY <1>2, <2>1
  <2>3. /\ SubSeq(t, 1, Len(s)) \in Seq(S) /\ Len(SubSeq(t, 1, Len(s))) = Len(s)
        /\ \A i \in 1 .. Len(s) : SubSeq(t, 1, Len(s))[i] = t[i]
    BY <2>2, SubSeqProperties
  <2>4. SubSeq(t, 1, Len(s)) = s
    BY <2>2, <2>3, SeqEqual
  <2> QED BY <2>1, <2>2, <2>4 DEF Front
<1>4. Last(Append(s, e)) = e
  BY <1>2 DEF Last
<1> QED BY <1>1, <1>3, <1>4

(* A set that has the members of two others.                                  *)
LEMMA SameMembers ==
  ASSUME NEW a, NEW b, NEW c, \A x : x \in a <=> x \in b \/ x \in c
  PROVE  a = b \cup c
OBVIOUS

(* What is in a list of lists is in the last one or in those before it.       *)
LEMMA UnionOfLists ==
  ASSUME NEW S, NEW s \in Seq(SUBSET S), s # <<>>
  PROVE  /\ UNION Range(s) = (UNION Range(Front(s))) \cup Last(s)
         /\ Front(s) \in Seq(SUBSET S) /\ Last(s) \in SUBSET S
<1>1. Len(s) \in Nat /\ Len(s) > 0 /\ DOMAIN s = 1 .. Len(s)
  BY EmptySeq
<1>2. PICK n : n = Len(s) - 1
  OBVIOUS
<1> n \in Nat
  BY <1>1, <1>2
<1>3. /\ Front(s) \in Seq(SUBSET S) /\ Len(Front(s)) = n /\ DOMAIN Front(s) = 1 .. n
      /\ \A i \in 1 .. n : Front(s)[i] = s[i]
  <2>1. SubSeq(s, 1, n) \in Seq(SUBSET S) /\ Len(SubSeq(s, 1, n)) = n
        /\ \A i \in 1 .. n : SubSeq(s, 1, n)[i] = s[i]
    BY <1>1, <1>2, SubSeqProperties
  <2> QED BY <1>2, <2>1 DEF Front
<1>4. Last(s) = s[Len(s)] /\ Last(s) \in SUBSET S
  BY <1>1 DEF Last
<1>5. \A i : i \in 1 .. Len(s) <=> i \in 1 .. n \/ i = Len(s)
  BY <1>1, <1>2
<1>6. \A x : x \in UNION Range(s) <=> \E i \in 1 .. Len(s) : x \in s[i]
  BY <1>1 DEF Range
<1>7. \A x : x \in UNION Range(Front(s)) <=> \E i \in 1 .. n : x \in s[i]
  BY <1>3 DEF Range
<1>8. UNION Range(s) = (UNION Range(Front(s))) \cup Last(s)
  <2>1. PICK a, b, c : a = UNION Range(s) /\ b = UNION Range(Front(s)) /\ c = Last(s)
    OBVIOUS
  <2>2. \A x : x \in a <=> x \in b \/ x \in c
    BY <1>4, <1>5, <1>6, <1>7, <2>1
  <2>3. a = b \cup c
    BY <2>2, SameMembers
  <2> QED BY <2>1, <2>3
<1> QED BY <1>3, <1>4, <1>8

(* A line of each kind.                                                       *)
LEMMA LinesAreTyped ==
  ASSUME source \in Sources, NEW ln \in LineRanges
  PROVE  /\ ln.kind \in Conditionals \cup {"include", "blank", "use"}
         /\ ln.kind = "include" => ln.header \in source.headers /\ ln.header.alpha \in Nat
<1>1. \A l \in source.others : l.kind \in {"blank", "use"}
  BY SourcesAssumption
<1>2. \A h \in source.headers : h.alpha \in Nat
  BY SourcesAssumption
<1> QED BY <1>1, <1>2 DEF LineRanges, Line, Conditionals

(* The next line is l, and what is reported is about it.                      *)
Reads(l, errors) ==
  /\ l \in LineRanges /\ source' = source /\ text' = Append(text, l)
  /\ told' = told \cup errors /\ \A e \in errors : e.line = Len(text) + 1

RecordedNow(l, errors) ==
  /\ l.kind = "include" /\ Kept(l.header)
  /\ \A e \in errors : e.category \notin {"duplicate", "foreign"}

(* A text with one more line.                                                 *)
LEMMA TextGrows ==
  ASSUME IncludeTypes, NEW l, NEW errors, Reads(l, errors)
  PROVE  /\ Len(text) \in Nat /\ Len(text)' = Len(text) + 1
         /\ DOMAIN text = 1 .. Len(text) /\ (DOMAIN text)' = 1 .. Len(text) + 1
         /\ \A i \in 1 .. Len(text) : text[i]' = text[i]
         /\ text'[Len(text) + 1] = l
         /\ text' \in Seq(LineRanges) /\ LineRanges' = LineRanges
<1>1. text \in Seq(LineRanges) /\ l \in LineRanges /\ text' = Append(text, l)
  BY DEF IncludeTypes, Reads
<1>2. LineRanges' = LineRanges
  BY DEF LineRanges, Reads
<1>3. /\ text' \in Seq(LineRanges) /\ Len(text') = Len(text) + 1
      /\ \A i \in 1 .. Len(text) : text'[i] = text[i]
      /\ text'[Len(text) + 1] = l
  BY <1>1, AppendProperties
<1>4. Len(text) \in Nat /\ DOMAIN text = 1 .. Len(text) /\ DOMAIN text' = 1 .. Len(text')
  BY <1>1, <1>3
<1> QED BY <1>2, <1>3, <1>4

(* The lines of some kinds, and those between two lines.                      *)
LEMMA LinesGrow ==
  ASSUME IncludeTypes, NEW l, NEW errors, Reads(l, errors), NEW kinds
  PROVE  /\ \A n : n \in LinesOf(kinds) => n \in 1 .. Len(text) /\ text[n].kind \in kinds
         /\ \A n : n \in LinesOf(kinds)' <=>
              n \in LinesOf(kinds) \/ (n = Len(text) + 1 /\ l.kind \in kinds)
         /\ \A n \in 1 .. Len(text) + 1 : \A m : Between(m, n, kinds)' = Between(m, n, kinds)
         /\ \A m \in 1 .. Len(text) :
              \A n : n \in Between(m, Len(text) + 1, kinds)' <=>
                n \in Between(m, Len(text) + 1, kinds) \/ (n = Len(text) + 1 /\ l.kind \in kinds)
<1>1. PICK k \in Nat : k = Len(text)
  BY TextGrows
<1>2. /\ DOMAIN text = 1 .. k /\ (DOMAIN text)' = 1 .. k + 1
      /\ \A i \in 1 .. k : text[i]' = text[i]
      /\ text'[k + 1] = l
  BY <1>1, TextGrows
<1>3. \A n : n \in LinesOf(kinds) <=> n \in 1 .. k /\ text[n].kind \in kinds
  BY <1>2 DEF LinesOf
<1>4. \A n : n \in LinesOf(kinds)' <=> n \in 1 .. k + 1 /\ text'[n].kind \in kinds
  BY <1>2 DEF LinesOf
<1>5. \A n : n \in LinesOf(kinds)' <=> n \in LinesOf(kinds) \/ (n = k + 1 /\ l.kind \in kinds)
  <2> TAKE n
  <2>1. CASE n \in 1 .. k
    <3>1. n \in 1 .. k + 1 /\ n # k + 1 /\ text'[n] = text[n]
      BY <1>2, <2>1
    <3> QED BY <1>3, <1>4, <2>1, <3>1
  <2>2. CASE n = k + 1
    <3>1. n \in 1 .. k + 1 /\ n \notin 1 .. k
      BY <2>2
    <3> QED BY <1>2, <1>3, <1>4, <2>2, <3>1
  <2>3. CASE n \notin 1 .. k /\ n # k + 1
    <3>1. n \notin 1 .. k + 1
      BY <2>3
    <3> QED BY <1>3, <1>4, <2>3, <3>1
  <2> QED BY <2>1, <2>2, <2>3
<1>6. \A m, n, i : i \in Between(m, n, kinds) <=> i \in LinesOf(kinds) /\ m < i /\ i < n
  BY DEF Between
<1>7. \A m, n, i : i \in Between(m, n, kinds)' <=> i \in LinesOf(kinds)' /\ m < i /\ i < n
  BY DEF Between
<1>8. ASSUME NEW n \in 1 .. k + 1, NEW m PROVE Between(m, n, kinds)' = Between(m, n, kinds)
  <2>1. \A i : i \in LinesOf(kinds)' /\ i < n => i \in LinesOf(kinds)
    BY <1>4, <1>5
  <2>2. \A i : i \in LinesOf(kinds) => i \in LinesOf(kinds)'
    BY <1>5
  <2> QED BY <2>1, <2>2 DEF Between
<1>9. ASSUME NEW m \in 1 .. k, NEW n
      PROVE  n \in Between(m, k + 2, kinds)' <=>
               n \in Between(m, k + 1, kinds) \/ (n = k + 1 /\ l.kind \in kinds)
  <2>1. n \in LinesOf(kinds) => n \in 1 .. k
    BY <1>3
  <2> QED BY <1>5, <1>6, <1>7, <2>1
<1>10. \A n : n \in LinesOf(kinds) => n \in 1 .. k /\ text[n].kind \in kinds
  BY <1>3
<1>11. \A n \in 1 .. Len(text) + 1 : \A m : Between(m, n, kinds)' = Between(m, n, kinds)
  BY <1>1, <1>8
<1>12. \A m \in 1 .. Len(text) :
         \A n : n \in Between(m, Len(text) + 1, kinds)' <=>
           n \in Between(m, Len(text) + 1, kinds) \/ (n = Len(text) + 1 /\ l.kind \in kinds)
  <2> TAKE m \in 1 .. Len(text)
  <2> TAKE n
  <2>1. m \in 1 .. k
    BY <1>1
  <2>2. Len(text)' = k + 1 /\ Len(text)' + 1 = k + 2
    BY <1>1, TextGrows
  <2> QED BY <1>1, <1>9, <2>1, <2>2
<1> QED BY <1>1, <1>5, <1>10, <1>11, <1>12

(* What is told and recorded of the lines above stays.                        *)
LEMMA RecordsGrow ==
  ASSUME IncludeTypes, NEW l, NEW errors, Reads(l, errors)
  PROVE  /\ \A n : n \in Recorded => /\ n \in 1 .. Len(text) /\ text[n].kind = "include"
                                     /\ text[n].header \in source.headers
         /\ \A category : \A n \in 1 .. Len(text) : n \in Told(category)' <=> n \in Told(category)
         /\ \A category : Len(text) + 1 \in Told(category)' <=> \E e \in errors : e.category = category
         /\ \A n : n \in Recorded' <=>
              n \in Recorded \/ (n = Len(text) + 1 /\ RecordedNow(l, errors))
<1>1. PICK k \in Nat : k = Len(text)
  BY TextGrows
<1>2. /\ DOMAIN text = 1 .. k /\ (DOMAIN text)' = 1 .. k + 1
      /\ \A i \in 1 .. k : text[i]' = text[i]
      /\ text'[k + 1] = l /\ source' = source
  BY <1>1, TextGrows DEF Reads
<1>3. /\ \A n : n \in LinesOf({"include"}) => n \in 1 .. k /\ text[n].kind = "include"
      /\ \A n : n \in LinesOf({"include"})' <=>
           n \in LinesOf({"include"}) \/ (n = k + 1 /\ l.kind = "include")
  BY <1>1, LinesGrow
<1>4. \A n \in 1 .. k : text[n] \in LineRanges
  BY <1>1, <1>2, ElementOfSeq DEF IncludeTypes
<1>5. \A n : n \in Recorded => n \in 1 .. k /\ text[n].kind = "include" /\ text[n].header \in source.headers
  BY <1>3, <1>4, LinesAreTyped DEF Recorded, IncludeTypes
<1>6. /\ \A e \in told : e.line \in 1 .. k
      /\ \A e \in errors : e.line = k + 1
      /\ told' = told \cup errors
  BY <1>1 DEF IncludeTypes, Reads
<1>7. \A category, n : n \in Told(category) <=> \E e \in told : e.category = category /\ e.line = n
  BY DEF Told
<1>8. \A category, n : n \in Told(category)' <=> \E e \in told' : e.category = category /\ e.line = n
  BY DEF Told
<1>9. \A category : \A n \in 1 .. k : n \in Told(category)' <=> n \in Told(category)
  <2> TAKE category
  <2> TAKE n \in 1 .. k
  <2>1. n # k + 1
    OBVIOUS
  <2> QED BY <1>6, <1>7, <1>8, <2>1
<1>10. \A category : k + 1 \in Told(category)' <=> \E e \in errors : e.category = category
  <2>1. k + 1 \notin 1 .. k
    OBVIOUS
  <2> QED BY <1>6, <1>8, <2>1
<1>11. \A h : Kept(h)' <=> Kept(h)
  BY <1>2 DEF Kept, NamesHeader, HeaderFile, File
<1>12. \A n : n \in Recorded <=>
         /\ n \in LinesOf({"include"}) /\ n \notin Told("duplicate") /\ n \notin Told("foreign")
         /\ Kept(text[n].header)
  BY DEF Recorded
<1>13. \A n : n \in Recorded' <=>
         /\ n \in LinesOf({"include"})' /\ n \notin Told("duplicate")' /\ n \notin Told("foreign")'
         /\ Kept(text'[n].header)
  BY <1>11 DEF Recorded
<1>14. \A n : n \in Recorded' <=> n \in Recorded \/ (n = k + 1 /\ RecordedNow(l, errors))
  <2> TAKE n
  <2>1. CASE n \in 1 .. k
    <3>1. n # k + 1 /\ text'[n] = text[n]
      BY <1>2, <2>1
    <3> QED BY <1>3, <1>9, <1>12, <1>13, <2>1, <3>1
  <2>2. CASE n = k + 1
    <3>1. n \notin 1 .. k
      BY <2>2
    <3> QED BY <1>2, <1>3, <1>5, <1>10, <1>13, <2>2, <3>1 DEF RecordedNow
  <2>3. CASE n \notin 1 .. k /\ n # k + 1
    BY <1>3, <1>5, <1>13, <2>3
  <2> QED BY <2>1, <2>2, <2>3
<1> QED BY <1>1, <1>5, <1>9, <1>10, <1>14

(* An #else takes away the includes since the last #if.                       *)
LEMMA LossesGrow ==
  ASSUME IncludeTypes, NEW l, NEW errors, Reads(l, errors)
  PROVE  /\ \A n \in 1 .. Len(text) : IfAfter(n)' <=> IfAfter(n) \/ l.kind = "if"
         /\ \A n \in 1 .. Len(text) : Lost(n)' <=> Lost(n) \/ (l.kind = "else" /\ ~IfAfter(n))
         /\ \A n : n = Len(text) + 1 => ~IfAfter(n)' /\ ~Lost(n)'
<1>1. PICK k \in Nat : k = Len(text)
  BY TextGrows
<1>2. Len(text)' = k + 1
  BY <1>1, TextGrows
<1>3. /\ \A n : n \in LinesOf({"else"}) => n \in 1 .. k
      /\ \A n : n \in LinesOf({"else"})' <=> n \in LinesOf({"else"}) \/ (n = k + 1 /\ l.kind = "else")
  BY <1>1, LinesGrow
<1>4. /\ \A n \in 1 .. k + 1 : \A m : Between(m, n, {"if"})' = Between(m, n, {"if"})
      /\ \A m \in 1 .. k : \A n : n \in Between(m, k + 2, {"if"})' <=>
                n \in Between(m, k + 1, {"if"}) \/ (n = k + 1 /\ l.kind = "if")
  <2>1. Len(text)' + 1 = k + 2
    BY <1>2
  <2> QED BY <1>1, <2>1, LinesGrow
<1>5. \A n : IfAfter(n) <=> Between(n, k + 1, {"if"}) # {}
  BY <1>1 DEF IfAfter
<1>6. \A n : IfAfter(n)' <=> Between(n, k + 2, {"if"})' # {}
  BY <1>2 DEF IfAfter
<1>7. \A n \in 1 .. k : IfAfter(n)' <=> IfAfter(n) \/ l.kind = "if"
  BY <1>4, <1>5, <1>6
<1>8. \A m : Lost(m) <=> \E e \in LinesOf({"else"}) : m < e /\ Between(m, e, {"if"}) = {}
  BY DEF Lost
<1>9. \A m : Lost(m)' <=> \E e \in LinesOf({"else"})' : m < e /\ Between(m, e, {"if"})' = {}
  BY DEF Lost
<1>10. \A n \in 1 .. k : Lost(n)' <=> Lost(n) \/ (l.kind = "else" /\ ~IfAfter(n))
  <2> TAKE n \in 1 .. k
  <2>1. n < k + 1 /\ k + 1 \in 1 .. k + 1 /\ \A e \in 1 .. k : e \in 1 .. k + 1
    OBVIOUS
  <2>2. \A e \in LinesOf({"else"}) : Between(n, e, {"if"})' = Between(n, e, {"if"})
    BY <1>3, <1>4, <2>1
  <2>3. Between(n, k + 1, {"if"})' = Between(n, k + 1, {"if"})
    BY <1>4, <2>1
  <2> QED BY <1>3, <1>5, <1>8, <1>9, <2>1, <2>2, <2>3
<1>11. ASSUME NEW n, n = k + 1 PROVE ~IfAfter(n)' /\ ~Lost(n)'
  <2>1. \A e \in LinesOf({"else"})' : ~(n < e)
    BY <1>3, <1>11
  <2>2. \A e \in LinesOf({"if"})' : e \in 1 .. k + 1
    <3>1. /\ \A e : e \in LinesOf({"if"}) => e \in 1 .. k
          /\ \A e : e \in LinesOf({"if"})' => e \in LinesOf({"if"}) \/ e = k + 1
      BY <1>1, LinesGrow
    <3> QED BY <3>1
  <2>3. Between(n, k + 2, {"if"})' = {}
    BY <1>11, <2>2 DEF Between
  <2> QED BY <1>6, <1>9, <2>1, <2>3
<1> QED BY <1>1, <1>7, <1>10, <1>11

(* Every header has one of the kinds that the sections are for.               *)
HeaderKinds == {"c", "cpp", "otherSys", "likely", "possible", "other"}
LEMMA HeadersHaveKinds == \A h : ClassifyInclude(h) \in HeaderKinds
<1> TAKE h
<1>1. ClassifySystem(h) \in HeaderKinds
  BY DEF ClassifySystem, HeaderKinds
<1>2. CASE IsSystem(h)
  BY <1>1, <1>2 DEF ClassifyInclude
<1>3. CASE ~IsSystem(h)
  <2>1. ClassifyInclude(h) \in {"likely", "possible", "other"}
    BY <1>3 DEF ClassifyInclude
  <2> QED BY <2>1 DEF HeaderKinds
<1> QED BY <1>2, <1>3

(* The rank of an include, and the section of a header.                       *)
LEMMA RanksAndSections ==
  ASSUME NEW n
  PROVE  /\ Rank(n) \in 1 .. 5
         /\ IsMine(n) => Rank(n) = IF \A m \in Region(n) : IsMine(m) THEN 1 ELSE 5
         /\ ~IsMine(n) => Rank(n) # 1 /\ SectionOf(ClassifyInclude(text[n].header)) = Rank(n)
         /\ IsMine(n) => SectionOf(ClassifyInclude(text[n].header)) = IF section <= 1 THEN 1 ELSE 5
<1>1. PICK kind : kind = ClassifyInclude(text[n].header)
  OBVIOUS
<1>2. kind \in {"c", "cpp", "otherSys", "likely", "possible", "other"}
  BY <1>1, HeadersHaveKinds DEF HeaderKinds
<1>3. IsMine(n) <=> kind \in {"likely", "possible"}
  BY <1>1 DEF IsMine
<1>4. CASE kind = "c"
  BY <1>1, <1>3, <1>4 DEF Rank, SectionOf
<1>5. CASE kind = "cpp"
  BY <1>1, <1>3, <1>5 DEF Rank, SectionOf
<1>6. CASE kind = "otherSys"
  BY <1>1, <1>3, <1>6 DEF Rank, SectionOf
<1>7. CASE kind = "other"
  BY <1>1, <1>3, <1>7 DEF Rank, SectionOf
<1>8. CASE kind \in {"likely", "possible"}
  <2>1. SectionOf(kind) = IF section <= 1 THEN 1 ELSE 5
    BY <1>8 DEF SectionOf
  <2>2. Rank(n) = IF \A m \in Region(n) : IsMine(m) THEN 1 ELSE 5
    BY <1>1, <1>3, <1>8 DEF Rank
  <2> QED BY <1>1, <1>3, <1>8, <2>1, <2>2
<1> QED BY <1>2, <1>4, <1>5, <1>6, <1>7, <1>8

(* The same of the text with the next line.                                   *)
LEMMA NextRanks ==
  ASSUME NEW n
  PROVE  /\ (IsMine(n) <=> ClassifyInclude(text[n].header) \in {"likely", "possible"})'
         /\ (IsMine(n) => Rank(n) = IF \A m \in Region(n) : IsMine(m) THEN 1 ELSE 5)'
         /\ (ClassifyInclude(text[n].header) = "c" => Rank(n) = 2)'
         /\ (ClassifyInclude(text[n].header) = "cpp" => Rank(n) = 3)'
         /\ (ClassifyInclude(text[n].header) = "otherSys" => Rank(n) = 4)'
         /\ (ClassifyInclude(text[n].header) = "other" => Rank(n) = 5)'
BY DEF Rank, IsMine

(* Nothing changes in the regions of the lines above, and the region of the   *)
(* new line is what was current.                                              *)
LEMMA RegionsStay ==
  ASSUME IncludeTypes, NEW l, NEW errors, Reads(l, errors)
  PROVE  /\ \A h : ClassifyInclude(h)' = ClassifyInclude(h)
         /\ \A n \in 1 .. Len(text) + 1 : \A m : m \in Region(n)' <=> m \in Region(n)
         /\ \A n : \A m \in Region(n) : m \in 1 .. Len(text) /\ m < n
         /\ \A n \in 1 .. Len(text) : IsMine(n)' <=> IsMine(n)
         /\ \A n \in 1 .. Len(text) : Rank(n)' = Rank(n)
<1>1. PICK k \in Nat : k = Len(text)
  BY TextGrows
<1>2. (\A i \in 1 .. k : text[i]' = text[i]) /\ source' = source
  BY <1>1, TextGrows DEF Reads
<1>3. \A h : ClassifyInclude(h)' = ClassifyInclude(h)
  BY <1>2 DEF ClassifyInclude, ClassifySystem, File
<1>4. ASSUME NEW n \in 1 .. k + 1, NEW m PROVE m \in Region(n)' <=> m \in Region(n)
  <2>1. m < n => (m \in Recorded' <=> m \in Recorded)
    <3>1. m < n => m # k + 1
      BY <1>4
    <3> QED BY <1>1, <3>1, RecordsGrow
  <2>2. Between(m, n, Conditionals)' = Between(m, n, Conditionals)
    BY <1>1, <1>4, LinesGrow
  <2> QED BY <2>1, <2>2 DEF Region
<1>5. \A n : \A m \in Region(n) : m \in 1 .. k /\ m < n
  BY <1>1, RecordsGrow DEF Region
<1>6. \A n \in 1 .. k : IsMine(n)' <=> IsMine(n)
  BY <1>2, <1>3 DEF IsMine
<1>7. ASSUME NEW n \in 1 .. k PROVE Rank(n)' = Rank(n)
  <2>1. (\A m \in Region(n) : IsMine(m))' <=> \A m \in Region(n) : IsMine(m)
    <3>1. n \in 1 .. k + 1
      BY <1>7
    <3> QED BY <1>4, <1>5, <1>6, <3>1
  <2>2. ClassifyInclude(text[n].header)' = ClassifyInclude(text[n].header)
    BY <1>2, <1>3
  <2>3. IsMine(n)' <=> IsMine(n)
    BY <1>6
  <2> QED BY <2>1, <2>2, <2>3 DEF Rank
<1> QED BY <1>1, <1>3, <1>4, <1>5, <1>6, <1>7

(* What is current after the next line.                                       *)
LEMMA CurrentGrows ==
  ASSUME IncludeTypes, NEW l, NEW errors, Reads(l, errors)
  PROVE  /\ \A m : m \in Current => m \in 1 .. Len(text) /\ m \in Recorded
         /\ \A m : m \in Current' <=>
              /\ l.kind \notin Conditionals
              /\ m \in Current \/ (m = Len(text) + 1 /\ RecordedNow(l, errors))
<1>1. PICK k \in Nat : k = Len(text)
  BY TextGrows
<1>2. Len(text)' = k + 1 /\ Len(text)' + 1 = k + 2
  BY <1>1, TextGrows
<1>3. \A m : m \in Recorded => m \in 1 .. k
  BY <1>1, RecordsGrow
<1>4. \A m : m \in Recorded' <=> m \in Recorded \/ (m = k + 1 /\ RecordedNow(l, errors))
  BY <1>1, RecordsGrow
<1>5. \A m \in 1 .. k : \A n : n \in Between(m, k + 2, Conditionals)' <=>
         n \in Between(m, k + 1, Conditionals) \/ (n = k + 1 /\ l.kind \in Conditionals)
  BY <1>1, <1>2, LinesGrow
<1>6. \A m : m \in Current <=> m \in Recorded /\ m < k + 1 /\ Between(m, k + 1, Conditionals) = {}
  BY <1>1 DEF Current, Region
<1>7. \A m : m \in Current' <=> m \in Recorded' /\ m < k + 2 /\ Between(m, k + 2, Conditionals)' = {}
  BY <1>2 DEF Current, Region
<1>8. Between(k + 1, k + 2, Conditionals)' = {}
  <2>1. \A e \in LinesOf(Conditionals)' : e \in 1 .. k + 1
    <3>1. /\ \A e : e \in LinesOf(Conditionals) => e \in 1 .. k
          /\ \A e : e \in LinesOf(Conditionals)' => e \in LinesOf(Conditionals) \/ e = k + 1
      BY <1>1, LinesGrow
    <3> QED BY <3>1
  <2> QED BY <2>1 DEF Between
<1>9. RecordedNow(l, errors) => l.kind \notin Conditionals
  BY DEF RecordedNow, Conditionals
<1>10. ASSUME NEW m
       PROVE  m \in Current' <=> /\ l.kind \notin Conditionals
                                 /\ m \in Current \/ (m = k + 1 /\ RecordedNow(l, errors))
  <2>1. CASE m \in 1 .. k
    <3>1. m < k + 1 /\ m < k + 2 /\ m # k + 1
      BY <2>1
    <3> QED BY <1>4, <1>5, <1>6, <1>7, <2>1, <3>1
  <2>2. CASE m = k + 1
    <3>1. m \notin 1 .. k /\ m < k + 2
      BY <2>2
    <3> QED BY <1>3, <1>4, <1>6, <1>7, <1>8, <1>9, <2>2, <3>1
  <2>3. CASE m \notin 1 .. k /\ m # k + 1
    BY <1>3, <1>4, <1>6, <1>7, <2>3
  <2> QED BY <2>1, <2>2, <2>3
<1>11. \A m : m \in Current => m \in 1 .. k /\ m \in Recorded
  BY <1>3, <1>6
<1> QED BY <1>1, <1>10, <1>11

(* What the next line does, whichever it is.                                  *)
LineRead(l, errors) ==
  /\ Reads(l, errors)
  /\ \A e \in errors : e.category = "duplicate" => l.kind = "include" /\ e.at \in FindHeader(l.header)
  /\ l.kind \in Conditionals =>
       section' = 0 /\ includeList' = ListAfter(includeList, l.kind) /\ errors = {}
  /\ l.kind \notin Conditionals /\ ~RecordedNow(l, errors) =>
       section' = section /\ includeList' = includeList
  /\ RecordedNow(l, errors) =>
       /\ FindHeader(l.header) = {}
       /\ includeList' = Front(includeList)
                           \o <<Last(includeList) \cup {[header |-> l.header, line |-> Len(text) + 1]}>>
       /\ section' = NextSection(ClassifyInclude(l.header))
       /\ lastHeader' = l.header.alpha
       /\ (\E e \in errors : e.category = "order") <=> TooLate(ClassifyInclude(l.header))
       /\ (\E e \in errors : e.category = "alpha") <=>
            ~IsInAlphabeticalOrder(l.header, LastHeaderBefore(ClassifyInclude(l.header)))

(* The first of some numbers, and the last of finitely many.                  *)
LEMMA LeastNumber ==
  ASSUME NEW S \in SUBSET Nat, S # {}
  PROVE  Min(S) \in S /\ \A x \in S : Min(S) <= x
<1>1. \E x \in S : \A y \in S : ~ (<<y, x>> \in OpToRel(<, Nat))
  BY NatLessThanWellFounded, WFMin
<1>2. \E x \in S : \A y \in S : x <= y
  <2>1. PICK x \in S : \A y \in S : ~ (<<y, x>> \in OpToRel(<, Nat))
    BY <1>1
  <2>2. ASSUME NEW y \in S, ~(x <= y) PROVE FALSE
    <3>1. y < x
      BY <2>2
    <3>2. <<y, x>> \in {ss \in Nat \X Nat : ss[1] < ss[2]}
      BY <3>1
    <3> QED BY <2>1, <3>2 DEF OpToRel
  <2> QED BY <2>2
<1> QED BY <1>2 DEF Min

(* The lines of the headers in the lists.                                     *)
LEMMA HeadersFound ==
  ASSUME IncludeTypes, ListsAreExact
  PROVE  /\ \A x : x \in UNION Range(includeList) <=>
              \E n \in Recorded : ~Lost(n) /\ x = Entry(n)
         /\ \A h : \A n : n \in FindHeader(h) <=>
              n \in Recorded /\ ~Lost(n) /\ Path(text[n].header) = Path(h)
<1>1. UNION Range(includeList) = (UNION Range(Front(includeList))) \cup Last(includeList)
  BY UnionOfLists DEF IncludeTypes
<1>2. \A x : x \in UNION Range(includeList) <=> \E n \in Recorded : ~Lost(n) /\ x = Entry(n)
  <2>1. \A x : x \in Listed(TRUE) <=> \E n \in Recorded : ~Lost(n) /\ IfAfter(n) /\ x = Entry(n)
    BY DEF Listed
  <2>2. \A x : x \in Listed(FALSE) <=> \E n \in Recorded : ~Lost(n) /\ ~IfAfter(n) /\ x = Entry(n)
    BY DEF Listed
  <2> QED BY <1>1, <2>1, <2>2 DEF ListsAreExact
<1>3. \A h : \A n : n \in FindHeader(h) <=>
        \E x \in UNION Range(includeList) : Path(x.header) = Path(h) /\ n = x.line
  BY DEF FindHeader
<1>4. \A n : Entry(n).line = n /\ Entry(n).header = text[n].header
  BY DEF Entry
<1> QED BY <1>2, <1>3, <1>4

(* The header files' own line is found first.                                 *)
LEMMA FirstOfFound ==
  ASSUME IncludeTypes, ListsAreExact, NEW h, FindHeader(h) # {}
  PROVE  Min(FindHeader(h)) \in FindHeader(h)
<1>1. FindHeader(h) \in SUBSET Nat
  <2>1. \A n : n \in Recorded => n \in Nat
    BY DEF Recorded, LinesOf, IncludeTypes
  <2> QED BY <2>1, HeadersFound
<1> QED BY <1>1, LeastNumber

(* The section is 0 or 1 as long as all includes are of the file's own        *)
(* headers.                                                                   *)
LEMMA OwnHeadersFirst ==
  ASSUME IncludeTypes, SectionIsHighest
  PROVE  section <= 1 <=> \A m \in Current : IsMine(m)
<1>1. \A m \in Current : Rank(m) \in 1 .. 5 /\ Rank(m) <= section
  BY RanksAndSections DEF SectionIsHighest
<1>2. section \in 0 .. 5
  BY DEF IncludeTypes
<1>3. ASSUME section <= 1, NEW m \in Current PROVE IsMine(m)
  <2>1. Rank(m) = 1
    BY <1>1, <1>2, <1>3
  <2> QED BY <2>1, RanksAndSections
<1>4. ASSUME \A m \in Current : IsMine(m) PROVE section <= 1
  <2>1. ASSUME section # 0 PROVE section = 1
    <3>1. PICK m \in Current : Rank(m) = section
      BY <2>1 DEF SectionIsHighest
    <3>2. PICK k \in Nat : k = Len(text)
      BY DEF IncludeTypes
    <3>3. ASSUME NEW j \in Region(m) PROVE j \in Current
      <4>1. j \in Recorded /\ j < m /\ Between(j, m, Conditionals) = {}
        BY <3>3 DEF Region
      <4>2. m \in Recorded /\ m < k + 1 /\ Between(m, k + 1, Conditionals) = {}
        BY <3>2 DEF Current, Region
      <4>3. /\ j \in 1 .. k /\ m \in 1 .. k /\ text[m].kind = "include"
            /\ \A i \in LinesOf(Conditionals) : i \in 1 .. k /\ text[i].kind \in Conditionals
        BY <3>2, <4>1, <4>2 DEF Recorded, LinesOf, IncludeTypes
      <4>4. \A i \in LinesOf(Conditionals) : i # m
        BY <4>3 DEF Conditionals
      <4>5. \A i \in LinesOf(Conditionals) : ~(j < i /\ i < m) /\ ~(m < i /\ i < k + 1)
        BY <4>1, <4>2 DEF Between
      <4>6. \A i \in LinesOf(Conditionals) : ~(j < i /\ i < k + 1)
        BY <4>3, <4>4, <4>5
      <4>7. Between(j, k + 1, Conditionals) = {} /\ j < k + 1
        BY <4>3, <4>6 DEF Between
      <4> QED BY <3>2, <4>1, <4>7 DEF Current, Region
    <3>4. IsMine(m) /\ \A j \in Region(m) : IsMine(j)
      BY <1>4, <3>3
    <3> QED BY <3>1, <3>4, RanksAndSections
  <2> QED BY <1>2, <2>1
<1> QED BY <1>3, <1>4

(* The rank of an include that is recorded is the section it is put in.       *)
LEMMA NewRank ==
  ASSUME IncludeTypes, SectionIsHighest, NEW l, NEW errors, Reads(l, errors), RecordedNow(l, errors)
  PROVE  /\ \A n : n = Len(text) + 1 => Rank(n)' = SectionOf(ClassifyInclude(l.header))
         /\ SectionOf(ClassifyInclude(l.header)) \in 1 .. 5
<1>1. PICK k \in Nat : k = Len(text)
  BY TextGrows
<1>2. k + 1 \in 1 .. Len(text) + 1 /\ text'[k + 1] = l
  BY <1>1, TextGrows
<1>3. PICK kind : kind = ClassifyInclude(l.header)
  OBVIOUS
<1>4. kind \in {"c", "cpp", "otherSys", "likely", "possible", "other"}
  BY <1>3, HeadersHaveKinds DEF HeaderKinds
<1>5. ClassifyInclude(text[k + 1].header)' = kind
  BY <1>2, <1>3, RegionsStay
<1>6. (\A m \in Region(k + 1) : IsMine(m))' <=> section <= 1
  <2>1. \A m : m \in Region(k + 1)' <=> m \in Current
    BY <1>1, <1>2, RegionsStay DEF Current
  <2>2. \A m \in Current : m \in 1 .. k /\ (IsMine(m)' <=> IsMine(m))
    BY <1>1, CurrentGrows, RegionsStay
  <2> QED BY <2>1, <2>2, OwnHeadersFirst
<1>7. CASE kind \in {"likely", "possible"}
  <2>1. IsMine(k + 1)'
    BY <1>5, <1>7, NextRanks
  <2>2. Rank(k + 1)' = IF section <= 1 THEN 1 ELSE 5
    BY <1>6, <2>1, NextRanks
  <2>3. SectionOf(kind) = IF section <= 1 THEN 1 ELSE 5
    BY <1>7 DEF SectionOf
  <2> QED BY <1>1, <1>3, <2>2, <2>3
<1>8. CASE kind = "c"
  <2>1. Rank(k + 1)' = 2
    BY <1>5, <1>8, NextRanks
  <2> QED BY <1>1, <1>3, <1>8, <2>1 DEF SectionOf
<1>9. CASE kind = "cpp"
  <2>1. Rank(k + 1)' = 3
    BY <1>5, <1>9, NextRanks
  <2> QED BY <1>1, <1>3, <1>9, <2>1 DEF SectionOf
<1>10. CASE kind = "otherSys"
  <2>1. Rank(k + 1)' = 4
    BY <1>5, <1>10, NextRanks
  <2> QED BY <1>1, <1>3, <1>10, <2>1 DEF SectionOf
<1>11. CASE kind = "other"
  <2>1. Rank(k + 1)' = 5
    BY <1>5, <1>11, NextRanks
  <2> QED BY <1>1, <1>3, <1>11, <2>1 DEF SectionOf
<1> QED BY <1>4, <1>7, <1>8, <1>9, <1>10, <1>11

(* The section stays the highest one of the includes that are current.        *)
LEMMA SectionStays ==
  ASSUME IncludeTypes, SectionIsHighest, NEW l, NEW errors, LineRead(l, errors)
  PROVE  SectionIsHighest' /\ section' \in 0 .. 5
<1>1. PICK k \in Nat : k = Len(text)
  BY TextGrows DEF LineRead
<1>2. Reads(l, errors)
  BY DEF LineRead
<1>3. \A m : m \in Current' <=>
        l.kind \notin Conditionals /\ (m \in Current \/ (m = k + 1 /\ RecordedNow(l, errors)))
  BY <1>1, <1>2, CurrentGrows
<1>4. \A m \in Current : Rank(m)' = Rank(m) /\ Rank(m) \in 1 .. 5 /\ Rank(m) <= section
  BY <1>1, <1>2, CurrentGrows, RegionsStay, RanksAndSections DEF SectionIsHighest
<1>5. section \in 0 .. 5
  BY DEF IncludeTypes
<1>6. CASE l.kind \in Conditionals
  BY <1>3, <1>6 DEF SectionIsHighest, LineRead
<1>7. CASE l.kind \notin Conditionals /\ ~RecordedNow(l, errors)
  BY <1>3, <1>4, <1>5, <1>7 DEF SectionIsHighest, LineRead
<1>8. CASE RecordedNow(l, errors)
  <2>1. PICK kind : kind = ClassifyInclude(l.header)
    OBVIOUS
  <2>2. Rank(k + 1)' = SectionOf(kind) /\ SectionOf(kind) \in 1 .. 5
    BY <1>1, <1>2, <1>8, <2>1, NewRank
  <2>3. section' = IF section > SectionOf(kind) THEN section ELSE SectionOf(kind)
    BY <1>8, <2>1 DEF LineRead, NextSection, TooLate
  <2>4. \A m : m \in Current' <=> m \in Current \/ m = k + 1
    BY <1>3, <1>8 DEF RecordedNow, Conditionals
  <2>5. section' \in 0 .. 5 /\ section' >= section /\ section' >= SectionOf(kind)
    BY <1>5, <2>2, <2>3
  <2>6. \A m \in Current' : Rank(m)' <= section'
    BY <1>4, <1>5, <2>2, <2>4, <2>5
  <2>7. \E m \in Current' : Rank(m)' = section'
    <3>1. CASE section > SectionOf(kind)
      <4>1. section # 0 /\ section' = section
        BY <1>5, <2>2, <2>3, <3>1
      <4> QED BY <1>4, <2>4, <4>1 DEF SectionIsHighest
    <3>2. CASE ~(section > SectionOf(kind))
      BY <2>2, <2>3, <2>4, <3>2
    <3> QED BY <3>1, <3>2
  <2> QED BY <2>5, <2>6, <2>7 DEF SectionIsHighest
<1> QED BY <1>6, <1>7, <1>8

(* If the line above has an include that is recorded, that was the last one.  *)
LEMMA LastHeaderStays ==
  ASSUME IncludeTypes, NEW l, NEW errors, LineRead(l, errors)
  PROVE  LastHeaderIsAbove'
<1>1. PICK k \in Nat : k = Len(text)
  BY TextGrows DEF LineRead
<1>2. Len(text') = k + 1 /\ text'[k + 1] = l
  BY <1>1, TextGrows DEF LineRead
<1>3. k + 1 \in Recorded' <=> RecordedNow(l, errors)
  <2>1. \A n : n \in Recorded => n \in 1 .. k
    BY <1>1, RecordsGrow DEF LineRead
  <2>2. k + 1 \notin 1 .. k
    OBVIOUS
  <2> QED BY <1>1, <2>1, <2>2, RecordsGrow DEF LineRead
<1>4. RecordedNow(l, errors) => lastHeader' = l.header.alpha
  BY DEF LineRead
<1> QED BY <1>2, <1>3, <1>4 DEF LastHeaderIsAbove

(* Includes are told to be out of order if one of a later section is current. *)
LEMMA OrderStays ==
  ASSUME IncludeTypes, SectionIsHighest, OrderIsSorted, NEW l, NEW errors, LineRead(l, errors)
  PROVE  OrderIsSorted'
<1>1. PICK k \in Nat : k = Len(text)
  BY TextGrows DEF LineRead
<1>2. Reads(l, errors)
  BY DEF LineRead
<1> SUFFICES ASSUME NEW n \in Recorded'
             PROVE  n \in Told("order")' <=> \E m \in Region(n)' : Rank(m)' > Rank(n)'
  BY DEF OrderIsSorted
<1>3. /\ n \in Recorded \/ (n = k + 1 /\ RecordedNow(l, errors))
      /\ \A i \in Recorded : i \in 1 .. k
  BY <1>1, <1>2, RecordsGrow
<1>4. /\ \A i \in 1 .. k + 1 : \A m : m \in Region(i)' <=> m \in Region(i)
      /\ \A i : \A m \in Region(i) : m \in 1 .. k
      /\ \A i \in 1 .. k : Rank(i)' = Rank(i)
  BY <1>1, <1>2, RegionsStay
<1>5. CASE n \in Recorded
  <2>1. n \in 1 .. k /\ n \in 1 .. k + 1
    BY <1>3, <1>5
  <2>2. n \in Told("order")' <=> n \in Told("order")
    BY <1>1, <1>2, <2>1, RecordsGrow
  <2>3. n \in Told("order") <=> \E m \in Region(n) : Rank(m) > Rank(n)
    BY <1>5 DEF OrderIsSorted
  <2> QED BY <1>4, <2>1, <2>2, <2>3
<1>6. CASE n = k + 1 /\ RecordedNow(l, errors)
  <2>1. PICK kind : kind = ClassifyInclude(l.header)
    OBVIOUS
  <2>2. Rank(n)' = SectionOf(kind) /\ SectionOf(kind) \in 1 .. 5
    BY <1>1, <1>2, <1>6, <2>1, NewRank
  <2>3. n \in Told("order")' <=> section > SectionOf(kind)
    <3>1. (\E e \in errors : e.category = "order") <=> TooLate(kind)
      BY <1>6, <2>1 DEF LineRead
    <3>2. n \in Told("order")' <=> \E e \in errors : e.category = "order"
      BY <1>1, <1>2, <1>6, RecordsGrow
    <3> QED BY <3>1, <3>2 DEF TooLate
  <2>4. \A m : m \in Region(n)' <=> m \in Current
    <3>1. n \in 1 .. k + 1
      BY <1>6
    <3> QED BY <1>1, <1>4, <1>6, <3>1 DEF Current
  <2>5. \A m \in Current : Rank(m)' = Rank(m) /\ Rank(m) \in 1 .. 5 /\ Rank(m) <= section
    BY <1>1, <1>2, <1>4, CurrentGrows, RanksAndSections DEF SectionIsHighest
  <2>6. section # 0 => \E m \in Current : Rank(m) = section
    BY DEF SectionIsHighest
  <2>7. section \in 0 .. 5
    BY DEF IncludeTypes
  <2>8. section > SectionOf(kind) <=> \E m \in Current : Rank(m) > SectionOf(kind)
    <3>1. ASSUME section > SectionOf(kind) PROVE \E m \in Current : Rank(m) > SectionOf(kind)
      <4>1. section # 0
        BY <2>2, <2>7, <3>1
      <4> QED BY <2>6, <3>1, <4>1
    <3>2. ASSUME NEW m \in Current, Rank(m) > SectionOf(kind) PROVE section > SectionOf(kind)
      BY <2>2, <2>5, <2>7, <3>2
    <3> QED BY <3>1, <3>2
  <2> QED BY <2>2, <2>3, <2>4, <2>5, <2>8
<1> QED BY <1>3, <1>5, <1>6

(* Neighbours in a section are told to be in the wrong order of names.        *)
LEMMA AlphabetStays ==
  ASSUME IncludeTypes, SectionIsHighest, LastHeaderIsAbove, AlphabeticalOrderIsTold,
         NEW l, NEW errors, LineRead(l, errors)
  PROVE  AlphabeticalOrderIsTold'
<1>1. PICK k \in Nat : k = Len(text)
  BY TextGrows DEF LineRead
<1>2. Reads(l, errors)
  BY DEF LineRead
<1> SUFFICES ASSUME NEW n \in Recorded', n - 1 \in Region(n)', Rank(n - 1)' = Rank(n)',
                    text'[n].header.alpha < text'[n - 1].header.alpha
             PROVE  n \in Told("alpha")' \/ n \in Told("order")'
  BY DEF AlphabeticalOrderIsTold
<1>3. /\ n \in Recorded \/ (n = k + 1 /\ RecordedNow(l, errors))
      /\ \A i \in Recorded : i \in 1 .. k /\ text[i].kind = "include" /\ text[i].header \in source.headers
  BY <1>1, <1>2, RecordsGrow
<1>4. /\ \A i \in 1 .. k + 1 : \A m : m \in Region(i)' <=> m \in Region(i)
      /\ \A i : \A m \in Region(i) : m \in 1 .. k
      /\ \A i \in 1 .. k : Rank(i)' = Rank(i)
  BY <1>1, <1>2, RegionsStay
<1>5. \A i \in 1 .. k : text'[i] = text[i]
  BY <1>1, <1>2, TextGrows
<1>6. CASE n \in Recorded
  <2>1. n \in 1 .. k /\ n \in 1 .. k + 1
    BY <1>3, <1>6
  <2>2. n - 1 \in Region(n) /\ n - 1 \in 1 .. k
    BY <1>4, <2>1
  <2>3. Rank(n - 1) = Rank(n) /\ text[n].header.alpha < text[n - 1].header.alpha
    BY <1>4, <1>5, <2>1, <2>2
  <2>4. n \in Told("alpha") \/ n \in Told("order")
    BY <1>6, <2>2, <2>3 DEF AlphabeticalOrderIsTold
  <2> QED BY <1>1, <1>2, <2>1, <2>4, RecordsGrow
<1>7. CASE n = k + 1 /\ RecordedNow(l, errors)
  <2>1. PICK kind : kind = ClassifyInclude(l.header)
    OBVIOUS
  <2>2. Rank(n)' = SectionOf(kind) /\ SectionOf(kind) \in 1 .. 5
    BY <1>1, <1>2, <1>7, <2>1, NewRank
  <2>3. n - 1 = k /\ n \in 1 .. k + 1 /\ text'[n] = l
    BY <1>1, <1>2, <1>7, TextGrows
  <2>4. k \in Current
    BY <1>1, <1>4, <1>7, <2>3 DEF Current
  <2>5. /\ k \in 1 .. k /\ k \in Recorded /\ Rank(k)' = Rank(k)
        /\ Rank(k) \in 1 .. 5 /\ Rank(k) <= section
    BY <1>1, <1>2, <1>4, <2>4, CurrentGrows, RanksAndSections DEF SectionIsHighest
  <2>6. lastHeader = text[k].header.alpha /\ text[k].kind = "include"
    BY <1>1, <1>3, <2>5 DEF LastHeaderIsAbove
  <2>7. /\ (\E e \in errors : e.category = "order") <=> TooLate(kind)
        /\ (\E e \in errors : e.category = "alpha") <=>
              ~IsInAlphabeticalOrder(l.header, LastHeaderBefore(kind))
    BY <1>7, <2>1 DEF LineRead
  <2>8. CASE TooLate(kind)
    BY <1>1, <1>2, <1>7, <2>7, <2>8, RecordsGrow
  <2>9. CASE ~TooLate(kind)
    <3>1. section = SectionOf(kind)
      <4>1. section \in 0 .. 5 /\ Rank(k) = SectionOf(kind)
        BY <2>2, <2>3, <2>5 DEF IncludeTypes
      <4> QED BY <2>2, <2>5, <2>9, <4>1 DEF TooLate
    <3>2. LastHeaderBefore(kind) = lastHeader
      BY <2>9, <3>1 DEF LastHeaderBefore, NextSection
    <3>3. PreviousLineIncludes
      <4>1. text # <<>> /\ Last(text) = text[k]
        BY <1>1, <2>5 DEF Last
      <4> QED BY <2>6, <4>1 DEF PreviousLineIncludes
    <3>4. lastHeader > l.header.alpha
      <4>1. text'[n - 1] = text[k]
        BY <1>5, <2>3, <2>5
      <4>2. /\ text[k].header.alpha \in Nat /\ l.header.alpha \in Nat
        <5>1. text[k].header \in source.headers /\ source \in Sources
          BY <1>3, <2>5 DEF IncludeTypes
        <5>2. l \in LineRanges /\ l.kind = "include"
          BY <1>2, <1>7 DEF Reads, RecordedNow
        <5> QED BY <5>1, <5>2, LinesAreTyped, SourcesAssumption
      <4>3. l.header.alpha < text[k].header.alpha
        BY <2>3, <4>1
      <4> QED BY <2>6, <4>2, <4>3
    <3>5. ~IsInAlphabeticalOrder(l.header, LastHeaderBefore(kind))
      BY <3>2, <3>3, <3>4 DEF IsInAlphabeticalOrder
    <3> QED BY <1>1, <1>2, <1>7, <2>7, <3>5, RecordsGrow
  <2> QED BY <2>8, <2>9
<1> QED BY <1>3, <1>6, <1>7

(* An include that is told to be repeated comes after one of the same header  *)
(* that no #else has taken away.                                              *)
LEMMA RepeatsStayReal ==
  ASSUME IncludeTypes, ListsAreExact, RepeatsOfListed, NEW l, NEW errors, LineRead(l, errors)
  PROVE  RepeatsOfListed'
<1>1. PICK k \in Nat : k = Len(text)
  BY TextGrows DEF LineRead
<1>2. Reads(l, errors) /\ told' = told \cup errors /\ \A e \in errors : e.line = k + 1
  BY <1>1 DEF LineRead, Reads
<1>3. (\A i \in 1 .. k : text'[i] = text[i]) /\ text'[k + 1] = l /\ Len(text') = k + 1
  BY <1>1, <1>2, TextGrows
<1>4. \A kinds : \A n \in 1 .. k + 1 : \A m : Between(m, n, kinds)' = Between(m, n, kinds)
  BY <1>1, <1>2, LinesGrow
<1>5. \A kinds : \A m, n : \A i \in Between(m, n, kinds) : i \in 1 .. k /\ i \in 1 .. k + 1
  <2>1. \A kinds : \A i \in LinesOf(kinds) : i \in 1 .. k
    BY <1>1, <1>2, LinesGrow
  <2> QED BY <2>1 DEF Between
<1> SUFFICES ASSUME NEW e \in told', e.category = "duplicate"
             PROVE  /\ e.at \in 1 .. k + 1 /\ e.at < e.line
                    /\ Path(text'[e.at].header) = Path(text'[e.line].header)
                    /\ \A i \in Between(e.at, e.line, {"else"})' : Between(e.at, i, {"if"})' # {}
  BY <1>3 DEF RepeatsOfListed
<1>6. CASE e \in told
  <2>1. e.line \in 1 .. k /\ e.line \in 1 .. k + 1
    BY <1>1, <1>6 DEF IncludeTypes
  <2>2. /\ e.at \in 1 .. k /\ e.at \in 1 .. k + 1 /\ e.at < e.line
        /\ Path(text[e.at].header) = Path(text[e.line].header)
        /\ \A i \in Between(e.at, e.line, {"else"}) : Between(e.at, i, {"if"}) # {}
    <3>1. e.at \in 1 .. k => e.at \in 1 .. k + 1
      OBVIOUS
    <3> QED BY <1>1, <1>6, <3>1 DEF RepeatsOfListed
  <2>3. Between(e.at, e.line, {"else"})' = Between(e.at, e.line, {"else"})
    BY <1>4, <2>1
  <2>4. \A i \in Between(e.at, e.line, {"else"}) : Between(e.at, i, {"if"})' # {}
    BY <1>4, <1>5, <2>2
  <2>5. Path(text'[e.at].header) = Path(text'[e.line].header)
    BY <1>3, <2>1, <2>2
  <2> QED BY <2>2, <2>3, <2>4, <2>5
<1>7. CASE e \in errors
  <2>1. e.line = k + 1 /\ e.line \in 1 .. k + 1 /\ text'[e.line] = l
    BY <1>2, <1>3, <1>7
  <2>2. e.at \in Recorded /\ ~Lost(e.at) /\ Path(text[e.at].header) = Path(l.header)
    BY <1>7, HeadersFound DEF LineRead
  <2>3. e.at \in 1 .. k /\ e.at \in 1 .. k + 1 /\ e.at < e.line
    BY <1>1, <1>2, <2>1, <2>2, RecordsGrow
  <2>4. \A i \in Between(e.at, e.line, {"else"}) : Between(e.at, i, {"if"}) # {}
    BY <2>2 DEF Lost, Between
  <2>5. Between(e.at, e.line, {"else"})' = Between(e.at, e.line, {"else"})
    BY <1>4, <2>1
  <2>6. \A i \in Between(e.at, e.line, {"else"}) : Between(e.at, i, {"if"})' # {}
    BY <1>4, <1>5, <2>4
  <2>7. Path(text'[e.at].header) = Path(text'[e.line].header)
    BY <1>3, <2>1, <2>2, <2>3
  <2> QED BY <2>3, <2>5, <2>6, <2>7
<1> QED BY <1>2, <1>6, <1>7

(* That is what is asked of them.                                             *)
LEMMA RepeatsListed == IncludeTypes /\ RepeatsOfListed => RepeatsAreReal
<1> SUFFICES ASSUME IncludeTypes, RepeatsOfListed, NEW e \in told, e.category = "duplicate",
                    Exclusive(e.at, e.line)
             PROVE  Between(e.at, e.line, {"if"}) # {}
  BY DEF RepeatsAreReal, RepeatsOfListed
<1>1. PICK i \in Between(e.at, e.line, {"else"}) : TRUE
  BY DEF Exclusive
<1>2. Between(e.at, i, {"if"}) # {}
  BY <1>1 DEF RepeatsOfListed
<1>3. PICK j : j \in LinesOf({"if"}) /\ e.at < j /\ j < i
  BY <1>2 DEF Between
<1>4. i < e.line
  BY <1>1 DEF Between
<1>5. j \in Int /\ i \in Int /\ e.line \in Int
  BY <1>1, <1>3 DEF IncludeTypes, Between, LinesOf
<1> QED BY <1>3, <1>4, <1>5 DEF Between

(* A header that is recorded again has been taken away by an #else.           *)
LEMMA RepeatsStayTold ==
  ASSUME IncludeTypes, ListsAreExact, RepeatsAreTold, NEW l, NEW errors, LineRead(l, errors)
  PROVE  RepeatsAreTold'
<1>1. PICK k \in Nat : k = Len(text)
  BY TextGrows DEF LineRead
<1>2. Reads(l, errors)
  BY DEF LineRead
<1>3. (\A i \in 1 .. k : text'[i] = text[i]) /\ text'[k + 1] = l
  BY <1>1, <1>2, TextGrows
<1>4. \A n \in 1 .. k + 1 : \A m : Between(m, n, {"else"})' = Between(m, n, {"else"})
  BY <1>1, <1>2, LinesGrow
<1>5. /\ \A n \in Recorded : n \in 1 .. k /\ n \in 1 .. k + 1
      /\ \A n : n \in Recorded' => n \in Recorded \/ (n = k + 1 /\ RecordedNow(l, errors))
  BY <1>1, <1>2, RecordsGrow
<1> SUFFICES ASSUME NEW m \in Recorded', NEW n \in Recorded', m < n,
                    Path(text'[m].header) = Path(text'[n].header)
             PROVE  Between(m, n, {"else"})' # {}
  BY DEF RepeatsAreTold
<1>6. CASE n \in Recorded
  <2>1. n \in 1 .. k /\ m \in Recorded /\ m \in 1 .. k
    BY <1>5, <1>6
  <2>2. Between(m, n, {"else"}) # {}
    BY <1>3, <1>6, <2>1 DEF RepeatsAreTold
  <2> QED BY <1>4, <1>5, <1>6, <2>2
<1>7. CASE n = k + 1 /\ RecordedNow(l, errors)
  <2>1. m \in Recorded /\ m \in 1 .. k /\ text'[n] = l
    BY <1>3, <1>5, <1>7
  <2>2. FindHeader(l.header) = {}
    BY <1>7 DEF LineRead
  <2>3. Lost(m)
    BY <1>3, <2>1, <2>2, HeadersFound
  <2>4. PICK e \in LinesOf({"else"}) : m < e
    BY <2>3 DEF Lost
  <2>5. e < n
    BY <1>1, <1>2, <1>7, LinesGrow
  <2>6. n \in 1 .. k + 1 /\ e \in Between(m, n, {"else"})
    BY <1>7, <2>4, <2>5 DEF Between
  <2> QED BY <1>4, <2>6
<1> QED BY <1>5, <1>6, <1>7

(* What is in the lists after the next line.                                  *)
LEMMA ListedGrows ==
  ASSUME IncludeTypes, NEW l, NEW errors, Reads(l, errors)
  PROVE  /\ \A x : x \in Listed(TRUE)' <=>
              \/ x \in Listed(TRUE)
              \/ x \in Listed(FALSE) /\ l.kind = "if"
         /\ \A x : x \in Listed(FALSE)' <=>
              \/ x \in Listed(FALSE) /\ l.kind \notin {"if", "else"}
              \/ RecordedNow(l, errors) /\ x = [header |-> l.header, line |-> Len(text) + 1]
<1>1. PICK k \in Nat : k = Len(text)
  BY TextGrows
<1>2. /\ \A n \in 1 .. k : IfAfter(n)' <=> IfAfter(n) \/ l.kind = "if"
      /\ \A n \in 1 .. k : Lost(n)' <=> Lost(n) \/ (l.kind = "else" /\ ~IfAfter(n))
      /\ ~IfAfter(k + 1)' /\ ~Lost(k + 1)'
  BY <1>1, LossesGrow
<1>3. /\ \A n \in Recorded : n \in 1 .. k
      /\ \A n : n \in Recorded' <=> n \in Recorded \/ (n = k + 1 /\ RecordedNow(l, errors))
  BY <1>1, RecordsGrow
<1>4. /\ \A n \in 1 .. k : Entry(n)' = Entry(n)
      /\ Entry(k + 1)' = [header |-> l.header, line |-> k + 1]
  BY <1>1, TextGrows DEF Entry
<1>5. \A x, later : x \in Listed(later) <=>
         \E n \in Recorded : ~Lost(n) /\ (IfAfter(n) <=> later) /\ x = Entry(n)
  BY DEF Listed
<1>6. \A x, later : x \in Listed(later)' <=>
         \E n \in Recorded' : ~Lost(n)' /\ (IfAfter(n)' <=> later) /\ x = Entry(n)'
  BY DEF Listed
<1>7. \A x : x \in Listed(TRUE)' <=> x \in Listed(TRUE) \/ (x \in Listed(FALSE) /\ l.kind = "if")
  <2> TAKE x
  <2>1. x \in Listed(TRUE)' <=> \E n \in Recorded' : ~Lost(n)' /\ IfAfter(n)' /\ x = Entry(n)'
    BY <1>6
  <2>2. x \in Listed(TRUE) <=> \E n \in Recorded : ~Lost(n) /\ IfAfter(n) /\ x = Entry(n)
    BY <1>5
  <2>3. x \in Listed(FALSE) <=> \E n \in Recorded : ~Lost(n) /\ ~IfAfter(n) /\ x = Entry(n)
    BY <1>5
  <2>4. \A n \in Recorded' : IfAfter(n)' => n \in Recorded
    BY <1>2, <1>3
  <2>5. \A n \in Recorded : ~Lost(n)' /\ IfAfter(n)' <=>
          ~Lost(n) /\ (IfAfter(n) \/ l.kind = "if")
    BY <1>2, <1>3
  <2>6. \A n \in Recorded : Entry(n)' = Entry(n)
    BY <1>3, <1>4
  <2> QED BY <1>3, <2>1, <2>2, <2>3, <2>4, <2>5, <2>6
<1>8. \A x : x \in Listed(FALSE)' <=>
        \/ x \in Listed(FALSE) /\ l.kind \notin {"if", "else"}
        \/ RecordedNow(l, errors) /\ x = [header |-> l.header, line |-> k + 1]
  <2> TAKE x
  <2>1. x \in Listed(FALSE)' <=> \E n \in Recorded' : ~Lost(n)' /\ ~IfAfter(n)' /\ x = Entry(n)'
    BY <1>6
  <2>2. x \in Listed(FALSE) <=> \E n \in Recorded : ~Lost(n) /\ ~IfAfter(n) /\ x = Entry(n)
    BY <1>5
  <2>3. \A n \in Recorded : ~Lost(n)' /\ ~IfAfter(n)' <=>
          ~Lost(n) /\ ~IfAfter(n) /\ l.kind \notin {"if", "else"}
    BY <1>2, <1>3
  <2>4. \A n \in Recorded : Entry(n)' = Entry(n)
    BY <1>3, <1>4
  <2> QED BY <1>2, <1>3, <1>4, <2>1, <2>2, <2>3, <2>4
<1> QED BY <1>1, <1>7, <1>8

(* The lists stay exact.                                                      *)
LEMMA ListsStayExact ==
  ASSUME IncludeTypes, ListsAreExact, NEW l, NEW errors, LineRead(l, errors)
  PROVE  /\ ListsAreExact'
         /\ includeList' \in Seq(SUBSET Entries) /\ includeList' # <<>>
<1>1. PICK k \in Nat : k = Len(text)
  BY TextGrows DEF LineRead
<1>2. /\ Reads(l, errors) /\ l \in LineRanges
      /\ includeList \in Seq(SUBSET Entries) /\ includeList # <<>>
  BY DEF LineRead, Reads, IncludeTypes
<1>3. /\ \A x : x \in Listed(TRUE)' <=> x \in Listed(TRUE) \/ (x \in Listed(FALSE) /\ l.kind = "if")
      /\ \A x : x \in Listed(FALSE)' <=>
            \/ x \in Listed(FALSE) /\ l.kind \notin {"if", "else"}
            \/ RecordedNow(l, errors) /\ x = [header |-> l.header, line |-> k + 1]
  BY <1>1, <1>2, ListedGrows
<1>4. /\ UNION Range(includeList) = (UNION Range(Front(includeList))) \cup Last(includeList)
      /\ Front(includeList) \in Seq(SUBSET Entries) /\ Last(includeList) \in SUBSET Entries
  BY <1>2, UnionOfLists
<1>5. UNION Range(Front(includeList)) = Listed(TRUE) /\ Last(includeList) = Listed(FALSE)
  BY DEF ListsAreExact
<1>6. RecordedNow(l, errors) => l.kind = "include"
  BY DEF RecordedNow
<1>7. CASE l.kind = "if"
  <2>1. includeList' = Append(includeList, {})
    BY <1>7 DEF LineRead, ListAfter, Conditionals
  <2>2. Front(includeList') = includeList /\ Last(includeList') = {}
    <3>1. PICK sets : sets = SUBSET Entries
      OBVIOUS
    <3>3. PICK list \in Seq(sets), none \in sets : list = includeList /\ none = {}
      BY <1>2, <3>1
    <3>2. Front(Append(list, none)) = list /\ Last(Append(list, none)) = none
      BY LastOfAppended
    <3> QED BY <2>1, <3>2, <3>3
  <2>3. Listed(FALSE)' = {}
    BY <1>3, <1>6, <1>7
  <2>4. Listed(TRUE)' = Listed(TRUE) \cup Listed(FALSE)
    <3>1. \A x : x \in Listed(TRUE)' <=> x \in Listed(TRUE) \/ x \in Listed(FALSE)
      BY <1>3, <1>7
    <3> QED BY <3>1
  <2>5. UNION Range(Front(includeList')) = Listed(TRUE)'
    BY <1>4, <1>5, <2>2, <2>4
  <2>6. includeList' \in Seq(SUBSET Entries) /\ includeList' # <<>>
    <3>1. {} \in SUBSET Entries
      OBVIOUS
    <3> QED BY <1>2, <2>1, <3>1, AppendProperties
  <2> QED BY <2>2, <2>3, <2>5, <2>6 DEF ListsAreExact
<1>8. CASE l.kind = "else"
  <2>1. includeList' = Front(includeList) \o <<{}>>
    BY <1>8 DEF LineRead, ListAfter, Conditionals
  <2>2. {} \in SUBSET Entries
    OBVIOUS
  <2>3. Front(includeList') = Front(includeList) /\ Last(includeList') = {}
    BY <1>4, <2>1, <2>2, LastOfAppended
  <2>4. Listed(FALSE)' = {}
    BY <1>3, <1>6, <1>8
  <2>5. Listed(TRUE)' = Listed(TRUE)
    <3>1. \A x : x \in Listed(TRUE)' <=> x \in Listed(TRUE)
      BY <1>3, <1>8
    <3> QED BY <3>1
  <2>6. includeList' \in Seq(SUBSET Entries) /\ includeList' # <<>>
    BY <1>4, <2>1, <2>2, AppendIsConcat, AppendProperties
  <2> QED BY <1>5, <2>3, <2>4, <2>5, <2>6 DEF ListsAreExact
<1>9. CASE l.kind \notin {"if", "else"} /\ ~RecordedNow(l, errors)
  <2>1. includeList' = includeList
    <3>1. CASE l.kind = "endif"
      BY <3>1 DEF LineRead, ListAfter, Conditionals
    <3>2. CASE l.kind # "endif"
      BY <1>9, <3>2 DEF LineRead, Conditionals
    <3> QED BY <3>1, <3>2
  <2>2. Listed(TRUE)' = Listed(TRUE)
    <3>1. \A x : x \in Listed(TRUE)' <=> x \in Listed(TRUE)
      BY <1>3, <1>9
    <3> QED BY <3>1
  <2>3. Listed(FALSE)' = Listed(FALSE)
    <3>1. \A x : x \in Listed(FALSE)' <=> x \in Listed(FALSE)
      BY <1>3, <1>9
    <3> QED BY <3>1
  <2> QED BY <1>2, <1>5, <2>1, <2>2, <2>3 DEF ListsAreExact
<1>10. CASE RecordedNow(l, errors)
  <2>1. PICK x : x = [header |-> l.header, line |-> k + 1]
    OBVIOUS
  <2>2. includeList' = Front(includeList) \o <<Last(includeList) \cup {x}>>
    BY <1>1, <1>10, <2>1 DEF LineRead
  <2>3. l.header \in source.headers
    BY <1>2, <1>6, <1>10, LinesAreTyped DEF IncludeTypes
  <2>4. x \in Entries
    BY <2>1, <2>3 DEF Entries
  <2>5. Last(includeList) \cup {x} \in SUBSET Entries
    BY <1>4, <2>4
  <2>6. Front(includeList') = Front(includeList) /\ Last(includeList') = Last(includeList) \cup {x}
    BY <1>4, <2>2, <2>5, LastOfAppended
  <2>7. l.kind \notin {"if", "else"}
    BY <1>6, <1>10
  <2>8. Listed(TRUE)' = Listed(TRUE)
    <3>1. \A y : y \in Listed(TRUE)' <=> y \in Listed(TRUE)
      BY <1>3, <2>7
    <3> QED BY <3>1
  <2>9. Listed(FALSE)' = Listed(FALSE) \cup {x}
    <3>1. \A y : y \in Listed(FALSE)' <=> y \in Listed(FALSE) \/ y \in {x}
      BY <1>3, <1>10, <2>1, <2>7
    <3> QED BY <3>1
  <2>10. includeList' \in Seq(SUBSET Entries) /\ includeList' # <<>>
    BY <1>4, <2>2, <2>5, AppendIsConcat, AppendProperties
  <2> QED BY <1>5, <2>6, <2>8, <2>9, <2>10 DEF ListsAreExact
<1> QED BY <1>7, <1>8, <1>9, <1>10

(* The types stay.                                                            *)
LEMMA IncludeTypesStay ==
  ASSUME IncludeTypes, ListsAreExact, SectionIsHighest, NEW l, NEW errors, LineRead(l, errors)
  PROVE  IncludeTypes'
<1>1. PICK k \in Nat : k = Len(text)
  BY TextGrows DEF LineRead
<1>2. Reads(l, errors)
  BY DEF LineRead
<1>3. source' = source /\ told' = told \cup errors /\ \A e \in errors : e.line = k + 1
  BY <1>1, <1>2 DEF Reads
<1>4. text' \in Seq(LineRanges') /\ Len(text') = k + 1
  BY <1>1, <1>2, TextGrows
<1>5. \A e \in told' : e.line \in 1 .. k + 1
  BY <1>1, <1>3 DEF IncludeTypes
<1>6. Entries' = Entries
  BY <1>3 DEF Entries
<1>7. includeList' \in Seq(SUBSET Entries) /\ includeList' # <<>>
  BY ListsStayExact
<1>8. section' \in 0 .. 5
  BY SectionStays
<1> QED BY <1>3, <1>4, <1>5, <1>6, <1>7, <1>8 DEF IncludeTypes

(* All that is known of the lists stays.                                      *)
LEMMA IncludeInvStays ==
  ASSUME IncludeInv, NEW l, NEW errors, LineRead(l, errors)
  PROVE  IncludeInv'
<1>1. /\ IncludeTypes /\ ListsAreExact /\ SectionIsHighest /\ LastHeaderIsAbove
      /\ OrderIsSorted /\ AlphabeticalOrderIsTold /\ RepeatsOfListed /\ RepeatsAreTold
  BY DEF IncludeInv
<1>2. IncludeTypes'
  BY <1>1, IncludeTypesStay
<1>3. ListsAreExact'
  BY <1>1, ListsStayExact
<1>4. SectionIsHighest'
  BY <1>1, SectionStays
<1>5. LastHeaderIsAbove'
  BY <1>1, LastHeaderStays
<1>6. OrderIsSorted'
  BY <1>1, OrderStays
<1>7. AlphabeticalOrderIsTold'
  BY <1>1, AlphabetStays
<1>8. RepeatsOfListed'
  BY <1>1, RepeatsStayReal
<1>9. RepeatsAreTold'
  BY <1>1, RepeatsStayTold
<1> QED BY <1>2, <1>3, <1>4, <1>5, <1>6, <1>7, <1>8, <1>9 DEF IncludeInv

(* A line that is no include, or an include that is not recorded, adds        *)
(* nothing to the lists.                                                      *)
LEMMA DirectivesRead ==
  ASSUME NEW directive \in Conditionals, ResetSection(directive)
  PROVE  LineRead(Line(directive), {})
<1>1. PICK l : l = Line(directive)
  OBVIOUS
<1>2. l \in LineRanges /\ l.kind = directive
  BY <1>1 DEF LineRanges, Line
<1>3. Reads(l, {})
  BY <1>1, <1>2 DEF Reads, ResetSection
<1>4. ~RecordedNow(l, {})
  BY <1>2 DEF RecordedNow, Conditionals
<1>5. l.kind \in Conditionals
  BY <1>2
<1> QED BY <1>1, <1>2, <1>3, <1>4, <1>5 DEF LineRead, ResetSection, InitialSection

LEMMA OthersRead ==
  ASSUME IncludeTypes, NEW ln \in source.others, OtherLine(ln)
  PROVE  LineRead(ln, {})
<1>1. ln \in LineRanges
  BY DEF LineRanges
<1>2. ln.kind \in {"blank", "use"}
  BY SourcesAssumption DEF IncludeTypes
<1>3. Reads(ln, {})
  BY <1>1 DEF Reads, OtherLine
<1>4. ~RecordedNow(ln, {}) /\ ln.kind \notin Conditionals
  BY <1>2 DEF RecordedNow, Conditionals
<1> QED BY <1>3, <1>4 DEF LineRead, OtherLine

(* What Subdir reports.                                                       *)
LEMMA SubdirErrors ==
  ASSUME NEW h, NEW n, NEW e \in Subdir(h, n)
  PROVE  e = Error("subdir", n, 0) /\ e.line = n /\ e.category = "subdir"
BY DEF Subdir, Error

LEMMA UnrecordedRead ==
  ASSUME IncludeTypes, NEW h \in source.headers, NEW errors, NotRecorded(h, errors),
         \A e \in errors : e.line = Len(text) + 1,
         \A e \in errors : e.category = "duplicate" => e.at \in FindHeader(h),
         Kept(h) => \E e \in errors : e.category \in {"duplicate", "foreign"}
  PROVE  \E l, all : LineRead(l, all)
<1>1. PICK l : l = [kind |-> "include", header |-> h]
  OBVIOUS
<1>2. PICK all : all = Subdir(h, Len(text) + 1) \cup errors
  OBVIOUS
<1>3. l \in LineRanges /\ l.kind = "include" /\ l.header = h
  BY <1>1 DEF LineRanges
<1>4. Reads(l, all)
  <2>1. \A e \in all : e.line = Len(text) + 1
    BY <1>2, SubdirErrors
  <2>2. told' = told \cup all
    BY <1>2 DEF NotRecorded
  <2> QED BY <1>1, <1>3, <2>1, <2>2 DEF Reads, NotRecorded, Include
<1>5. \A e \in all : e.category = "duplicate" => e.at \in FindHeader(h)
  BY <1>2, SubdirErrors
<1>6. ~RecordedNow(l, all)
  BY <1>2, <1>3 DEF RecordedNow
<1>7. l.kind \notin Conditionals
  BY <1>3 DEF Conditionals
<1> QED BY <1>3, <1>4, <1>5, <1>6, <1>7 DEF LineRead, NotRecorded

LEMMA OrderedRead ==
  ASSUME IncludeTypes, NEW h \in source.headers, OrderedInclude(h)
  PROVE  \E l, all : LineRead(l, all)
<1>1. PICK l : l = [kind |-> "include", header |-> h]
  OBVIOUS
<1>2. PICK n : n = Len(text) + 1
  OBVIOUS
<1>3. PICK kind : kind = ClassifyInclude(h)
  OBVIOUS
<1>4. PICK order : order = IF TooLate(kind) THEN {Error("order", n, 0)} ELSE {}
  OBVIOUS
<1>5. PICK alpha : alpha = IF IsInAlphabeticalOrder(h, LastHeaderBefore(kind)) THEN {}
                           ELSE {Error("alpha", n, 0)}
  OBVIOUS
<1>6. PICK all : all = Subdir(h, n) \cup order \cup alpha
  OBVIOUS
<1>7. l \in LineRanges /\ l.kind = "include" /\ l.header = h
  BY <1>1 DEF LineRanges
<1>8. /\ includeList' = Front(includeList) \o <<Last(includeList) \cup {[header |-> h, line |-> n]}>>
      /\ section' = NextSection(kind)
      /\ lastHeader' = h.alpha
      /\ told' = told \cup Subdir(h, n) \cup order \cup alpha
      /\ FindHeader(h) = {} /\ Kept(h) /\ Include(h)
  BY <1>2, <1>3, <1>4, <1>5 DEF OrderedInclude
<1>9. \A e \in order : e.line = n /\ e.category = "order"
  BY <1>4 DEF Error
<1>10. \A e \in alpha : e.line = n /\ e.category = "alpha"
  BY <1>5 DEF Error
<1>11. \A e \in Subdir(h, n) : e.line = n /\ e.category = "subdir"
  BY SubdirErrors
<1>12. \A e \in all : e.line = n /\ e.category \in {"order", "alpha", "subdir"}
  BY <1>6, <1>9, <1>10, <1>11
<1>13. Reads(l, all)
  <2>1. told' = told \cup all
    BY <1>6, <1>8
  <2> QED BY <1>1, <1>2, <1>7, <1>8, <1>12, <2>1 DEF Reads, Include
<1>14. (\E e \in all : e.category = "order") <=> TooLate(kind)
  <2>1. TooLate(kind) => \E e \in order : e.category = "order"
    BY <1>4 DEF Error
  <2>2. ~TooLate(kind) => order = {}
    BY <1>4
  <2> QED BY <1>6, <1>10, <1>11, <2>1, <2>2
<1>15. (\E e \in all : e.category = "alpha") <=> ~IsInAlphabeticalOrder(h, LastHeaderBefore(kind))
  <2>1. ~IsInAlphabeticalOrder(h, LastHeaderBefore(kind)) => \E e \in alpha : e.category = "alpha"
    BY <1>5 DEF Error
  <2>2. IsInAlphabeticalOrder(h, LastHeaderBefore(kind)) => alpha = {}
    BY <1>5
  <2> QED BY <1>6, <1>9, <1>11, <2>1, <2>2
<1>16. RecordedNow(l, all) /\ l.kind \notin Conditionals
  BY <1>7, <1>8, <1>12 DEF RecordedNow, Conditionals
<1>17. \A e \in all : e.category # "duplicate"
  BY <1>12
<1>18. LineRead(l, all)
  BY <1>2, <1>3, <1>7, <1>8, <1>13, <1>14, <1>15, <1>16, <1>17 DEF LineRead
<1> QED BY <1>18

(* Every step reads a line.                                                   *)
LEMMA EveryStepReads ==
  ASSUME IncludeTypes, ListsAreExact, ReadLine
  PROVE  \E l, errors : LineRead(l, errors)
<1>1. CASE OpenConditional
  BY <1>1, DirectivesRead DEF OpenConditional, Conditionals
<1>2. CASE ElseBranch
  BY <1>2, DirectivesRead DEF ElseBranch, Conditionals
<1>3. CASE CloseConditional
  BY <1>3, DirectivesRead DEF CloseConditional, Conditionals
<1>4. ASSUME NEW ln \in source.others, OtherLine(ln)
      PROVE  \E l, errors : LineRead(l, errors)
  BY <1>4, OthersRead
<1>5. ASSUME NEW h \in source.headers, RepeatedInclude(h)
      PROVE  \E l, errors : LineRead(l, errors)
  <2>1. PICK e : e = Error("duplicate", Len(text) + 1, Min(FindHeader(h)))
    OBVIOUS
  <2>2. e.line = Len(text) + 1 /\ e.at = Min(FindHeader(h)) /\ e.category = "duplicate"
    BY <2>1 DEF Error
  <2>3. FindHeader(h) # {} /\ NotRecorded(h, {e})
    BY <1>5, <2>1 DEF RepeatedInclude
  <2>4. e.at \in FindHeader(h)
    BY <2>2, <2>3, FirstOfFound
  <2> QED BY <2>2, <2>3, <2>4, UnrecordedRead
<1>6. ASSUME NEW h \in source.headers, ForeignInclude(h)
      PROVE  \E l, errors : LineRead(l, errors)
  <2>1. PICK e : e = Error("foreign", Len(text) + 1, 0)
    OBVIOUS
  <2>2. e.line = Len(text) + 1 /\ e.category = "foreign"
    BY <2>1 DEF Error
  <2>3. NotRecorded(h, {e})
    BY <1>6, <2>1 DEF ForeignInclude
  <2> QED BY <2>2, <2>3, UnrecordedRead
<1>7. ASSUME NEW h \in source.headers, ThirdPartyInclude(h)
      PROVE  \E l, errors : LineRead(l, errors)
  <2>1. NotRecorded(h, {}) /\ ~Kept(h)
    BY <1>7 DEF ThirdPartyInclude
  <2> QED BY <2>1, UnrecordedRead
<1>8. ASSUME NEW h \in source.headers, OrderedInclude(h)
      PROVE  \E l, errors : LineRead(l, errors)
  BY <1>8, OrderedRead
<1> QED BY <1>1, <1>2, <1>3, <1>4, <1>5, <1>6, <1>7, <1>8 DEF ReadLine

(* It is true at first.                                                       *)
LEMMA IncludeInvInit == IncludeInit => IncludeInv
<1> SUFFICES ASSUME IncludeInit PROVE IncludeInv
  OBVIOUS
<1>1. /\ source \in Sources /\ text = <<>> /\ includeList = <<{}>>
      /\ section = 0 /\ told = {}
  BY DEF IncludeInit, InitialSection
<1>2. Len(text) = 0 /\ DOMAIN text = {}
  BY <1>1
<1>3. \A kinds : LinesOf(kinds) = {}
  BY <1>2 DEF LinesOf
<1>4. Recorded = {}
  BY <1>3 DEF Recorded
<1>5. includeList \in Seq(SUBSET Entries) /\ includeList # <<>>
  BY <1>1
<1>6. IncludeTypes
  BY <1>1, <1>5 DEF IncludeTypes
<1>7. ListsAreExact
  <2>1. \A later : Listed(later) = {}
    BY <1>4 DEF Listed
  <2>2. PICK empty : empty = <<>>
    OBVIOUS
  <2>5. empty \in Seq(SUBSET Entries) /\ {} \in SUBSET Entries /\ Append(empty, {}) = includeList
    BY <1>1, <2>2
  <2>6. Front(Append(empty, {})) = empty /\ Last(Append(empty, {})) = {}
    BY <2>5, LastOfAppended
  <2>3. Front(includeList) = <<>> /\ Last(includeList) = {}
    BY <2>2, <2>5, <2>6
  <2>4. Range(<<>>) = {}
    BY DEF Range
  <2> QED BY <2>1, <2>3, <2>4 DEF ListsAreExact
<1>8. SectionIsHighest
  BY <1>1, <1>4 DEF SectionIsHighest, Current, Region
<1>9. LastHeaderIsAbove /\ OrderIsSorted /\ AlphabeticalOrderIsTold /\ RepeatsAreTold
  BY <1>4 DEF LastHeaderIsAbove, OrderIsSorted, AlphabeticalOrderIsTold, RepeatsAreTold
<1>10. RepeatsOfListed
  BY <1>1 DEF RepeatsOfListed
<1> QED BY <1>6, <1>7, <1>8, <1>9, <1>10 DEF IncludeInv

LEMMA IncludeInvNext ==
  ASSUME IncludeInv, [ReadLine]_includeVars
  PROVE  IncludeInv'
<1>1. CASE ReadLine
  <2>1. \E l, errors : LineRead(l, errors)
    BY <1>1, EveryStepReads DEF IncludeInv
  <2> QED BY <2>1, IncludeInvStays
<1>2. CASE UNCHANGED includeVars
  <2>1. /\ source' = source /\ text' = text /\ includeList' = includeList
        /\ section' = section /\ lastHeader' = lastHeader /\ told' = told
    BY <1>2 DEF includeVars
  <2>2. \A kinds : LinesOf(kinds)' = LinesOf(kinds)
    BY <2>1 DEF LinesOf
  <2>3. \A kinds, m, n : Between(m, n, kinds)' = Between(m, n, kinds)
    BY <2>2 DEF Between
  <2>4. \A category : Told(category)' = Told(category)
    BY <2>1 DEF Told
  <2>5. \A h : (Kept(h)' <=> Kept(h)) /\ ClassifyInclude(h)' = ClassifyInclude(h)
    BY <2>1 DEF Kept, NamesHeader, HeaderFile, ClassifyInclude, ClassifySystem, File
  <2>6. Recorded' = Recorded
    BY <2>1, <2>2, <2>4, <2>5 DEF Recorded
  <2>7. \A n : Region(n)' = Region(n)
    BY <2>3, <2>6 DEF Region
  <2>8. \A n : (IsMine(n)' <=> IsMine(n))
    BY <2>1, <2>5 DEF IsMine
  <2>9. \A n : Rank(n)' = Rank(n)
    <3> TAKE n
    <3>1. (\A m \in Region(n) : IsMine(m))' <=> \A m \in Region(n) : IsMine(m)
      BY <2>7, <2>8
    <3>2. ClassifyInclude(text[n].header)' = ClassifyInclude(text[n].header)
      BY <2>1, <2>5
    <3> QED BY <2>8, <3>1, <3>2 DEF Rank
  <2>10. IncludeTypes'
    BY <2>1 DEF IncludeInv, IncludeTypes, LineRanges, Entries
  <2>11. ListsAreExact'
    <3>1. \A n : (Lost(n)' <=> Lost(n)) /\ (IfAfter(n)' <=> IfAfter(n)) /\ Entry(n)' = Entry(n)
      BY <2>1, <2>2, <2>3 DEF Lost, IfAfter, Entry
    <3>2. \A later : Listed(later)' = Listed(later)
      BY <2>6, <3>1 DEF Listed
    <3> QED BY <2>1, <3>2 DEF IncludeInv, ListsAreExact
  <2>12. SectionIsHighest'
    <3>1. Current' = Current
      BY <2>1, <2>7 DEF Current
    <3> QED BY <2>1, <2>9, <3>1 DEF IncludeInv, SectionIsHighest
  <2>13. LastHeaderIsAbove'
    BY <2>1, <2>6 DEF IncludeInv, LastHeaderIsAbove
  <2>14. OrderIsSorted'
    BY <2>4, <2>6, <2>7, <2>9 DEF IncludeInv, OrderIsSorted
  <2>15. AlphabeticalOrderIsTold'
    BY <2>1, <2>4, <2>6, <2>7, <2>9 DEF IncludeInv, AlphabeticalOrderIsTold
  <2>16. RepeatsOfListed'
    BY <2>1, <2>3 DEF IncludeInv, RepeatsOfListed
  <2>17. RepeatsAreTold'
    BY <2>1, <2>3, <2>6 DEF IncludeInv, RepeatsAreTold
  <2> QED BY <2>10, <2>11, <2>12, <2>13, <2>14, <2>15, <2>16, <2>17 DEF IncludeInv
<1> QED BY <1>1, <1>2

(* What is demanded at the end is what the two checks demand.                 *)
EndIsExact ==
  ended => \E order \in Orders : demands = IncludeWhatYouUse \cup HeaderFileIncluded(order)

IwyuInv == IncludeInv /\ EndIsExact

(* Some lines have a greatest one.                                            *)
LEMMA GreatestNumber ==
  ASSUME NEW k \in Nat, NEW S \in SUBSET (1 .. k), S # {}
  PROVE  \E x \in S : \A y \in S : x >= y
<1>1. PICK D : D = {k - x : x \in S}
  OBVIOUS
<1>2. D \in SUBSET Nat /\ D # {}
  <2>1. \A x \in 1 .. k : k - x \in Nat
    OBVIOUS
  <2> QED BY <1>1, <2>1
<1>3. PICK d \in D : \A e \in D : d <= e
  BY <1>2, LeastNumber
<1>4. PICK x \in S : d = k - x
  BY <1>1, <1>3
<1>5. \A y \in S : x >= y
  <2> TAKE y \in S
  <2>1. k - x <= k - y
    BY <1>1, <1>3, <1>4
  <2>2. x \in 1 .. k /\ y \in 1 .. k
    OBVIOUS
  <2> QED BY <2>1, <2>2
<1> QED BY <1>5

LEMMA GreatestLine ==
  ASSUME NEW k \in Nat, NEW S \in SUBSET (1 .. k), S # {}
  PROVE  Max(S) \in S /\ \A x \in S : Max(S) >= x
BY GreatestNumber DEF Max

(* The includes in the lists, as paths, are those that are seen.              *)
LEMMA IncludedAreSeen ==
  ASSUME IncludeTypes, ListsAreExact
  PROVE  /\ Included = SeenPaths
         /\ \A ext : IsIncluded(ext) <=> \E n \in Seen : NamesHeader(text[n].header, ext)
<1>1. \A x : x \in UNION Range(includeList) <=> \E n \in Seen : x = Entry(n)
  BY HeadersFound DEF Seen
<1>2. \A n : Entry(n).header = text[n].header
  BY DEF Entry
<1>3. \A p : p \in Included <=> \E x \in UNION Range(includeList) : p = Path(x.header)
  BY DEF Included
<1>4. \A p : p \in SeenPaths <=> \E n \in Seen : p = Path(text[n].header)
  BY DEF SeenPaths
<1>5. \A p : p \in Included <=> p \in SeenPaths
  BY <1>1, <1>2, <1>3, <1>4
<1>6. \A ext : IsIncluded(ext) <=> \E n \in Seen : NamesHeader(text[n].header, ext)
  BY <1>1, <1>2 DEF IsIncluded
<1> QED BY <1>5, <1>6

(* Line n is the last that uses what p declares.                              *)
Wants(p, n) == n \in LinesOf({"use"}) /\ p \in text[n].needs
LEMMA LastUses ==
  ASSUME IncludeTypes, NEW p \in Required, NEW n \in DOMAIN text
  PROVE  n = LastUse(p) <=> Wants(p, n) /\ \A i \in n + 1 .. Len(text) : ~Wants(p, i)
<1>1. PICK k \in Nat : k = Len(text)
  BY DEF IncludeTypes
<1>2. DOMAIN text = 1 .. k
  BY <1>1 DEF IncludeTypes
<1>3. PICK S : S = {i \in LinesOf({"use"}) : p \in text[i].needs}
  OBVIOUS
<1>4. \A i : i \in S <=> Wants(p, i)
  BY <1>3 DEF Wants
<1>5. S \in SUBSET (1 .. k)
  BY <1>2, <1>3 DEF LinesOf
<1>6. S # {}
  BY <1>3 DEF Required
<1>7. LastUse(p) = Max(S)
  BY <1>3 DEF LastUse
<1>8. Max(S) \in S /\ \A x \in S : Max(S) >= x
  BY <1>5, <1>6, GreatestLine
<1>9. PICK m : m = Max(S)
  OBVIOUS
<1>10. m \in S /\ m \in 1 .. k /\ \A x \in S : m >= x
  BY <1>5, <1>8, <1>9
<1>11. n \in 1 .. k
  BY <1>2
<1>12. ASSUME n = m PROVE n \in S /\ \A i \in n + 1 .. k : i \notin S
  BY <1>10, <1>11, <1>12
<1>13. ASSUME n \in S, \A i \in n + 1 .. k : i \notin S PROVE n = m
  <2>1. m >= n
    BY <1>10, <1>13
  <2>2. m \notin n + 1 .. k
    BY <1>10, <1>13
  <2> QED BY <1>10, <1>11, <2>1, <2>2
<1>14. n = m <=> n \in S /\ \A i \in n + 1 .. k : i \notin S
  BY <1>12, <1>13
<1> QED BY <1>1, <1>4, <1>7, <1>9, <1>14

(* The demands of the first check at the end.                                 *)
LEMMA DemandsFollow == IwyuInv => DemandsAreExact
<1> SUFFICES ASSUME IwyuInv, ended PROVE DemandsAreExact
  BY DEF DemandsAreExact
<1> DEFINE own == {p \in SeenPaths : FilesBelongToSameModule(p) /\ FilesAt(p) # {}}
           byOwn == FoundIn(own)
<1>1. IncludeTypes /\ ListsAreExact
  BY DEF IwyuInv, IncludeInv
<1>2. PICK order \in Orders : demands = IncludeWhatYouUse \cup HeaderFileIncluded(order)
  BY DEF IwyuInv, EndIsExact
<1>3. Included = SeenPaths /\ OwnHeaders = own
  BY <1>1, IncludedAreSeen DEF OwnHeaders
<1>4. UpdateIncludeState(Included) = SeenPaths \cup byOwn
  BY <1>3 DEF UpdateIncludeState
<1> HIDE DEF own, byOwn
<1>5. GivesUp <=> ~(File.ext \in HeaderExtensions \/ own # {})
  <2>1. File.ext \in HeaderExtensions \cup NonHeaderExtensions
    BY <1>1, SourcesAssumption DEF IncludeTypes, File
  <2>2. HeaderExtensions \cap NonHeaderExtensions = {}
    BY DEF HeaderExtensions, NonHeaderExtensions
  <2> QED BY <1>3, <2>1, <2>2 DEF GivesUp
<1>6. \A p, n : Demand("use", p, n) \notin HeaderFileIncluded(order)
  BY DEF HeaderFileIncluded, Demand
<1>7. ASSUME NEW p \in Required, NEW n \in DOMAIN text
      PROVE  Demand("use", p, n) \in demands <=>
               /\ File.ext \in HeaderExtensions \/ own # {}
               /\ p \notin SeenPaths \cup byOwn
               /\ Wants(p, n) /\ \A i \in n + 1 .. Len(text) : ~Wants(p, i)
  <2>1. Demand("use", p, n) \in demands <=> Demand("use", p, n) \in IncludeWhatYouUse
    BY <1>2, <1>6
  <2>2. \A q, m : Demand("use", p, n) = Demand("use", q, m) <=> p = q /\ n = m
    BY DEF Demand
  <2>3. Demand("use", p, n) \in IncludeWhatYouUse <=>
          ~GivesUp /\ p \notin UpdateIncludeState(Included) /\ n = LastUse(p)
    BY <2>2 DEF IncludeWhatYouUse
  <2>4. n = LastUse(p) <=> Wants(p, n) /\ \A i \in n + 1 .. Len(text) : ~Wants(p, i)
    BY <1>1, LastUses
  <2> QED BY <1>4, <1>5, <2>1, <2>3, <2>4
<1> QED BY <1>7 DEF DemandsAreExact, own, byOwn, Wants

(* A sequence of the header files has each of them.                           *)
LEMMA OrdersAreComplete ==
  ASSUME NEW order \in Orders
  PROVE  /\ DOMAIN order = 1 .. Cardinality(HeaderFiles) /\ Cardinality(HeaderFiles) \in Nat
         /\ \A i \in DOMAIN order : order[i] \in HeaderFiles
         /\ \A ext \in HeaderFiles : \E i \in DOMAIN order : order[i] = ext
<1>1. PICK c : c = Cardinality(HeaderFiles)
  OBVIOUS
<1>2. IsFiniteSet(HeaderFiles) /\ c \in Nat
  <2>1. IsFiniteSet({"h"}) /\ IsFiniteSet({"hpp"})
    BY FS_Singleton
  <2>2. IsFiniteSet({"h"} \cup {"hpp"})
    BY <2>1, FS_Union
  <2>3. HeaderFiles \subseteq {"h"} \cup {"hpp"}
    BY DEF HeaderFiles, HeaderExtensions
  <2>4. IsFiniteSet(HeaderFiles)
    BY <2>2, <2>3, FS_Subset
  <2> QED BY <1>1, <2>4, FS_CardinalityType
<1>3. order \in [1 .. c -> HeaderFiles] /\ \A i, j \in 1 .. c : i # j => order[i] # order[j]
  BY <1>1 DEF Orders, SetToSeqs
<1>4. order \in Injection(1 .. c, HeaderFiles)
  BY <1>3 DEF Injection, IsInjective
<1>5. Cardinality(1 .. c) = c
  BY <1>2, FS_Interval
<1>6. order \in Surjection(1 .. c, HeaderFiles)
  BY <1>1, <1>2, <1>4, <1>5, FS_Injection
<1> QED BY <1>1, <1>2, <1>3, <1>6 DEF Surjection

(* The demand of the second check at the end.                                 *)
LEMMA OwnHeaderFollows == IwyuInv => OwnHeaderIsDemanded
<1> SUFFICES ASSUME IwyuInv, ended, ~IsTest, File.ext \in NonHeaderExtensions, NEW ext \in HeaderFiles
             PROVE  LET included(e) == \E n \in Seen : NamesHeader(text[n].header, e)
                        told_ == \E d \in demands : d.by = "header" /\ d.path = HeaderFile(ext)
                    IN  /\ told_ => ~included(ext)
                        /\ (\A e \in HeaderFiles : ~included(e)) => told_
  BY DEF OwnHeaderIsDemanded
<1>1. IncludeTypes /\ ListsAreExact
  BY DEF IwyuInv, IncludeInv
<1>2. PICK order \in Orders : demands = IncludeWhatYouUse \cup HeaderFileIncluded(order)
  BY DEF IwyuInv, EndIsExact
<1>3. \A e : IsIncluded(e) <=> \E n \in Seen : NamesHeader(text[n].header, e)
  BY <1>1, IncludedAreSeen
<1>4. HeaderFileIncluded(order) = {Demand("header", HeaderFile(e), FirstInclude) : e \in Until(order)}
  BY DEF HeaderFileIncluded
<1>5. \A d \in IncludeWhatYouUse : d.by = "use"
  BY DEF IncludeWhatYouUse, Demand
<1>6. \A e : HeaderFile(e) = HeaderFile(ext) <=> e = ext
  BY DEF HeaderFile
<1>7. \A e : Demand("header", HeaderFile(e), FirstInclude).by = "header"
             /\ Demand("header", HeaderFile(e), FirstInclude).path = HeaderFile(e)
  BY DEF Demand
<1>8. (\E d \in demands : d.by = "header" /\ d.path = HeaderFile(ext)) <=> ext \in Until(order)
  BY <1>2, <1>4, <1>5, <1>6, <1>7
<1>9. /\ \A i \in DOMAIN order : i \in Int /\ 1 <= i /\ order[i] \in HeaderFiles
      /\ \A i \in DOMAIN order : \A j \in 1 .. i : j \in DOMAIN order
      /\ \E i \in DOMAIN order : order[i] = ext
  BY OrdersAreComplete
<1>10. ext \in Until(order) <=>
         \E i \in DOMAIN order : order[i] = ext /\ \A j \in 1 .. i : ~IsIncluded(order[j])
  BY DEF Until
<1>11. ext \in Until(order) => ~IsIncluded(ext)
  <2>1. \A i \in DOMAIN order : i \in 1 .. i
    BY <1>9
  <2> QED BY <1>10, <2>1
<1>12. (\A e \in HeaderFiles : ~IsIncluded(e)) => ext \in Until(order)
  BY <1>9, <1>10
<1> QED BY <1>3, <1>8, <1>11, <1>12

(* What the end demands depends on the lines and the lists only.              *)
LEMMA EndStays ==
  ASSUME UNCHANGED <<source, text, includeList>>
  PROVE  /\ IncludeWhatYouUse' = IncludeWhatYouUse /\ Orders' = Orders
         /\ \A order : HeaderFileIncluded(order)' = HeaderFileIncluded(order)
<1>1. source' = source /\ text' = text /\ includeList' = includeList
  OBVIOUS
<1>2. File' = File
  BY <1>1 DEF File
<1>3. IsTest' = IsTest
  BY <1>2 DEF IsTest
<1>4. /\ \A p : FilesBelongToSameModule(p)' <=> FilesBelongToSameModule(p)
      /\ \A p : FilesAt(p)' = FilesAt(p)
  BY <1>2, <1>3 DEF FilesBelongToSameModule, ModuleOfFile, FilesAt, FullPath
<1>5. Included' = Included
  BY <1>1 DEF Included
<1>6. OwnHeaders' = OwnHeaders
  BY <1>4, <1>5 DEF OwnHeaders
<1>7. UpdateIncludeState(Included)' = UpdateIncludeState(Included)
  BY <1>4, <1>5, <1>6 DEF UpdateIncludeState, FoundIn
<1>8. LinesOf({"use"})' = LinesOf({"use"})
  BY <1>1 DEF LinesOf
<1>9. Required' = Required
  BY <1>1, <1>8 DEF Required
<1>10. \A p : LastUse(p)' = LastUse(p)
  BY <1>1, <1>8 DEF LastUse
<1>11. GivesUp' = GivesUp
  BY <1>2, <1>6 DEF GivesUp
<1>12. IncludeWhatYouUse' = IncludeWhatYouUse
  BY <1>7, <1>9, <1>10, <1>11 DEF IncludeWhatYouUse
<1>13. \A ext : HeaderFile(ext)' = HeaderFile(ext)
  BY <1>2 DEF HeaderFile
<1>14. HeaderFiles' = HeaderFiles
  BY <1>13 DEF HeaderFiles
<1>15. \A ext : IsIncluded(ext)' <=> IsIncluded(ext)
  BY <1>1, <1>2, <1>13 DEF IsIncluded, NamesHeader
<1>16. FirstInclude' = FirstInclude
  BY <1>1 DEF FirstInclude
<1>17. \A order : Until(order)' = Until(order)
  BY <1>15 DEF Until
<1>18. \A order : HeaderFileIncluded(order)' = HeaderFileIncluded(order)
  BY <1>2, <1>3, <1>13, <1>16, <1>17 DEF HeaderFileIncluded
<1>19. Orders' = Orders
  BY <1>14 DEF Orders
<1> QED BY <1>12, <1>18, <1>19

LEMMA IwyuInvInit == IwyuInit => IwyuInv
BY IncludeInvInit DEF IwyuInit, IwyuInv, EndIsExact

LEMMA IwyuInvNext == IwyuInv /\ [IwyuNext]_iwyuVars => IwyuInv'
<1> SUFFICES ASSUME IwyuInv, [IwyuNext]_iwyuVars PROVE IwyuInv'
  OBVIOUS
<1>1. CASE ReadLine /\ UNCHANGED <<ended, demands>> /\ ~ended
  BY <1>1, IncludeInvNext DEF IwyuInv, EndIsExact
<1>2. CASE EndOfFile
  <2>1. IncludeInv'
    BY <1>2, IncludeInvNext DEF IwyuInv, EndOfFile
  <2>2. PICK order \in Orders : demands' = IncludeWhatYouUse \cup HeaderFileIncluded(order)
    BY <1>2 DEF EndOfFile
  <2>3. UNCHANGED <<source, text, includeList>>
    BY <1>2 DEF EndOfFile, includeVars
  <2>4. EndIsExact'
    BY <2>2, <2>3, EndStays DEF EndIsExact
  <2> QED BY <2>1, <2>4 DEF IwyuInv
<1>3. CASE UNCHANGED iwyuVars
  <2>1. UNCHANGED includeVars /\ UNCHANGED <<source, text, includeList>>
        /\ ended' = ended /\ demands' = demands
    BY <1>3 DEF iwyuVars, includeVars
  <2>2. IncludeInv'
    BY <2>1, IncludeInvNext DEF IwyuInv
  <2>3. EndIsExact'
    BY <2>1, EndStays DEF IwyuInv, EndIsExact
  <2> QED BY <2>2, <2>3 DEF IwyuInv
<1> QED BY <1>1, <1>2, <1>3 DEF IwyuNext

(* CheckIncludeLine, CheckForIncludeWhatYouUse and CheckHeaderFileIncluded of *)
(* a file of any lines.                                                       *)
THEOREM EveryIncludeIsJudged == IwyuSpec => []IncludesAreJudged
<1>1. IwyuInv => IncludesAreJudged
  <2>1. IwyuInv => DemandsAreExact /\ OwnHeaderIsDemanded
    BY DemandsFollow, OwnHeaderFollows
  <2>2. IwyuInv => RepeatsAreReal
    BY RepeatsListed DEF IwyuInv, IncludeInv
  <2> QED BY <2>1, <2>2 DEF IwyuInv, IncludeInv, IncludesAreJudged
<1> QED BY <1>1, IwyuInvInit, IwyuInvNext, PTL DEF IwyuSpec

-------------------------------------------------------------------------------
(* Inline assembly.  A block that is skipped as assembly has an open          *)
(* parenthesis; and so it is in every stack that a conditional has saved.     *)
AsmBlock == {b \in Block : (b.asm = "inside" => b.parens # 0) /\ (b.asm = "end" => b.parens = 0)}

AsmCheckpoint == [beforeIf : Seq(AsmBlock), beforeElse : Seq(AsmBlock), seenElse : BOOLEAN]

AsmInv == stack \in Seq(AsmBlock) /\ ppStack \in Seq(AsmCheckpoint) /\ rest \in Seq(Tokens)

LEMMA NewBlockIsNoAsm ==
  /\ \A kind \in Kinds, seen \in BOOLEAN : NewBlock(kind, seen) \in AsmBlock
  /\ [NewBlock("block", TRUE) EXCEPT !.asm = "block"] \in AsmBlock
<1>1. \A kind \in Kinds, seen \in BOOLEAN : NewBlock(kind, seen) \in Block /\ NewBlock(kind, seen).asm = "no"
  BY NewBlockType DEF NewBlock
<1>2. [NewBlock("block", TRUE) EXCEPT !.asm = "block"] \in AsmBlock
  <2>1. NewBlock("block", TRUE) \in Block
    BY <1>1 DEF Kinds
  <2> QED BY <2>1 DEF Block, AsmStates, AsmBlock
<1> QED BY <1>1, <1>2 DEF AsmBlock

LEMMA ChangedIsAsm ==
  ASSUME NEW b \in AsmBlock
  PROVE  /\ [b EXCEPT !.seen = TRUE] \in AsmBlock
         /\ \A a \in Accesses : [b EXCEPT !.access = a] \in AsmBlock
BY DEF AsmBlock, Block

LEMMA CountsAsm ==
  ASSUME NEW s \in Seq(AsmBlock), NEW l \in LineType
  PROVE  CountParentheses(s, l) \in Seq(AsmBlock)
<1>1. CASE s = <<>>
  BY <1>1 DEF CountParentheses
<1>2. CASE s # <<>>
  <2>1. PICK b \in AsmBlock : b = Top(s)
    BY <1>2, StackOperators
  <2>2. PICK opened \in Int : opened = b.parens + l.depth
    BY <2>1 DEF AsmBlock, Block, LineType
  <2>3. PICK enters : enters = (l.depth # 0 /\ opened = 1 /\ l.asm)
    OBVIOUS
  <2>4. PICK asm : asm = CASE b.asm \in {"no", "end"} -> IF enters THEN "inside" ELSE "no"
                           [] b.asm = "inside" /\ opened = 0 -> "end"
                           [] OTHER -> b.asm
    OBVIOUS
  <2>5. b \in Block /\ b.asm \in {"no", "inside", "end", "block"}
    BY DEF AsmBlock, Block, AsmStates
  <2>6. asm \in AsmStates /\ (asm = "inside" => opened # 0) /\ (asm = "end" => opened = 0)
    <3>1. CASE b.asm \in {"no", "end"}
      <4>1. asm = IF enters THEN "inside" ELSE "no"
        BY <2>4, <3>1
      <4>2. enters => opened = 1
        BY <2>3, Zenon
      <4>3. CASE enters
        BY <4>1, <4>2, <4>3 DEF AsmStates
      <4>4. CASE ~enters
        BY <4>1, <4>4 DEF AsmStates
      <4> QED BY <4>3, <4>4
    <3>2. CASE b.asm = "inside"
      BY <2>4, <3>2 DEF AsmStates
    <3>3. CASE b.asm = "block"
      BY <2>4, <3>3 DEF AsmStates
    <3> QED BY <2>5, <3>1, <3>2, <3>3
  <2>7. [b EXCEPT !.parens = opened, !.asm = asm] \in AsmBlock
    BY <2>5, <2>6 DEF AsmBlock, Block
  <2>8. CountParentheses(s, l) = ChangeTop(s, [b EXCEPT !.parens = opened, !.asm = asm])
    BY <1>2, <2>1, <2>2, <2>3, <2>4 DEF CountParentheses
  <2> QED BY <1>2, <2>7, <2>8, StackOperators
<1> QED BY <1>1, <1>2

LEMMA ConsumesAsm ==
  ASSUME NEW s \in Seq(AsmBlock), NEW t \in Tokens
  PROVE  Consume(s, t) \in Seq(AsmBlock)
<1>1. NewBlock("namespace", FALSE) \in AsmBlock /\ NewBlock("namespace", TRUE) \in AsmBlock
      /\ NewBlock("class", FALSE) \in AsmBlock /\ NewBlock("extern", TRUE) \in AsmBlock
      /\ NewBlock("block", TRUE) \in AsmBlock
  BY NewBlockIsNoAsm DEF Kinds
<1>2. [NewBlock("block", TRUE) EXCEPT !.asm = "block"] \in AsmBlock
  BY NewBlockIsNoAsm
<1>3. ASSUME s # <<>>
      PROVE  /\ [Top(s) EXCEPT !.seen = TRUE] \in AsmBlock
             /\ \A a \in Accesses : [Top(s) EXCEPT !.access = a] \in AsmBlock
  BY <1>3, StackOperators, ChangedIsAsm
<1>4. OpenBrace(s) \in Seq(AsmBlock) /\ OpenAsm(s) \in Seq(AsmBlock) /\ OpenExternC(s) \in Seq(AsmBlock)
  BY <1>1, <1>2, <1>3, StackOperators DEF OpenBrace, OpenAsm, OpenExternC, SeenOpenBrace
<1>5. DeclareClass(s) \in Seq(AsmBlock)
  BY <1>1, StackOperators DEF DeclareClass
<1>6. \A a \in Accesses : SetAccess(s, a) \in Seq(AsmBlock)
  BY <1>3, StackOperators DEF SetAccess
<1>7. t \in {";", ")"} => Consume(s, t) \in Seq(AsmBlock)
  BY StackOperators DEF Consume, SeenOpenBrace, Accesses
<1>8. t = "}" => Consume(s, t) \in Seq(AsmBlock)
  BY StackOperators DEF Consume, Accesses
<1>9. t \in {"namespace", "namespace{", "class", "{", "extern{", "asm{"} \cup Accesses
        => Consume(s, t) \in Seq(AsmBlock)
  BY <1>1, <1>4, <1>5, <1>6, StackOperators DEF Consume, Accesses
<1> QED BY <1>7, <1>8, <1>9 DEF Tokens, Heads, Accesses

LEMMA PreprocessesAsm ==
  ASSUME AsmInv, NEW d \in Directives
  PROVE  /\ UpdatePreprocessor(d)[1] \in Seq(AsmBlock)
         /\ UpdatePreprocessor(d)[2] \in Seq(AsmCheckpoint)
<1>1. CASE d = "if"
  <2>1. [beforeIf |-> stack, beforeElse |-> <<>>, seenElse |-> FALSE] \in AsmCheckpoint
    BY DEF AsmInv, AsmCheckpoint
  <2> QED BY <1>1, <2>1 DEF UpdatePreprocessor, BeginIf, Push, AsmInv
<1>2. CASE d = "else"
  <2>1. CASE ppStack = <<>>
    BY <1>2, <2>1 DEF UpdatePreprocessor, Else, AsmInv
  <2>2. CASE ppStack # <<>>
    <3>1. Top(ppStack) \in AsmCheckpoint
      BY <2>2 DEF AsmInv, Top
    <3>2. [Top(ppStack) EXCEPT !.seenElse = TRUE, !.beforeElse = stack] \in AsmCheckpoint
      BY <3>1 DEF AsmCheckpoint, AsmInv
    <3>3. Top(ppStack).beforeIf \in Seq(AsmBlock)
      BY <3>1 DEF AsmCheckpoint
    <3>4. ChangeTop(ppStack, [Top(ppStack) EXCEPT !.seenElse = TRUE, !.beforeElse = stack])
            \in Seq(AsmCheckpoint)
      BY <2>2, <3>2 DEF ChangeTop, AsmInv
    <3> QED BY <1>2, <2>2, <3>3, <3>4 DEF UpdatePreprocessor, Else, AsmInv
  <2> QED BY <2>1, <2>2
<1>3. CASE d = "endif"
  <2>1. CASE ppStack = <<>>
    BY <1>3, <2>1 DEF UpdatePreprocessor, Endif, AsmInv
  <2>2. CASE ppStack # <<>>
    <3>1. Top(ppStack) \in AsmCheckpoint
      BY <2>2 DEF AsmInv, Top
    <3>2. Pop(ppStack) \in Seq(AsmCheckpoint)
      BY <2>2 DEF Pop, AsmInv
    <3> QED BY <1>3, <2>2, <3>1, <3>2 DEF UpdatePreprocessor, Endif, AsmInv, AsmCheckpoint
  <2> QED BY <2>1, <2>2
<1>4. CASE d = ""
  BY <1>4 DEF UpdatePreprocessor, AsmInv
<1> QED BY <1>1, <1>2, <1>3, <1>4 DEF Directives

LEMMA AsmInvInit == Init => AsmInv
<1>1. <<>> \in Seq(AsmBlock) /\ <<>> \in Seq(AsmCheckpoint) /\ <<>> \in Seq(Tokens)
  OBVIOUS
<1> QED BY <1>1 DEF Init, AsmInv

LEMMA AsmInvNext == AsmInv /\ [Next]_nestingVars => AsmInv'
<1> SUFFICES ASSUME AsmInv, [Next]_nestingVars PROVE AsmInv'
  OBVIOUS
<1>1. ASSUME NEW l \in Lines, UpdateLine(l) PROVE AsmInv'
  <2>1. l \in LineType
    BY LinesAssumption
  <2>2. l.pp \in Directives /\ l.text \in Seq(Tokens)
    BY <2>1 DEF LineType
  <2>3. stack' \in Seq(AsmBlock) /\ ppStack' \in Seq(AsmCheckpoint)
    BY <1>1, <2>1, <2>2, PreprocessesAsm, CountsAsm DEF UpdateLine
  <2> QED BY <1>1, <2>2, <2>3 DEF UpdateLine, AsmInv
<1>2. ASSUME UpdateToken PROVE AsmInv'
  <2>1. Head(rest) \in Tokens /\ Tail(rest) \in Seq(Tokens)
    BY <1>2 DEF UpdateToken, AsmInv
  <2>2. stack' \in Seq(AsmBlock)
    BY <1>2, <2>1, ConsumesAsm DEF UpdateToken, AsmInv
  <2> QED BY <1>2, <2>1, <2>2 DEF UpdateToken, AsmInv
<1>3. ASSUME CheckCompletedBlocks PROVE AsmInv'
  BY <1>3 DEF CheckCompletedBlocks, AsmInv
<1>4. CASE UNCHANGED nestingVars
  BY <1>4 DEF nestingVars, AsmInv
<1> QED BY <1>1, <1>2, <1>3, <1>4 DEF Next

LEMMA AsmFollows == AsmInv => AsmHasOpenParenthesis
<1> SUFFICES ASSUME AsmInv, NEW i \in DOMAIN stack
             PROVE  (stack[i].asm = "inside" => stack[i].parens # 0) /\ (stack[i].asm = "end" => stack[i].parens = 0)
  BY DEF AsmHasOpenParenthesis
<1>1. stack[i] \in AsmBlock
  BY DEF AsmInv
<1> QED BY <1>1 DEF AsmBlock

-------------------------------------------------------------------------------
(* _FunctionState.  What is kept of the function at hand is what the property *)
(* says of it: no other begins or ends in it, and its lines are counted.      *)
FunctionTypes ==
  /\ body \in Functions!Texts /\ verbose \in 0 .. 5
  /\ linenum \in 1 .. Len(body) + 1
  /\ inAFunction \in BOOLEAN /\ isTest \in BOOLEAN
  /\ linesInFunction \in Nat /\ begun \in Nat

Edges == Functions!Begins \cup Functions!Closes

AtHand ==
  /\ begun \in Functions!Begins /\ begun < linenum
  /\ \A i \in begun + 1 .. linenum - 1 : i \notin Edges
  /\ linesInFunction = Functions!Counted(begun, linenum)
  /\ isTest <=> body[begun].name = "test"

NoneAtHand ==
  \A b \in Functions!Begins : b < linenum => \E i \in b + 1 .. linenum - 1 : i \in Edges

FunctionInv ==
  /\ FunctionTypes
  /\ inAFunction => AtHand
  /\ ~inAFunction => NoneAtHand
  /\ \A e \in functionErrors : e.kind = "size" => e.line \in 1 .. linenum - 1
  /\ Functions!FunctionsAreKeptApart
  /\ Functions!LongFunctionsAreTold

LEMMA TextsAreLines ==
  ASSUME NEW s \in Functions!Texts
  PROVE  s \in Seq(LineChoices) /\ Len(s) \in Nat /\ DOMAIN s = 1 .. Len(s)
<1>1. PICK n \in 1 .. MaxLines : s \in [1 .. n -> LineChoices]
  BY DEF Functions!Texts
<1>2. MaxLines \in Nat
  BY EndingsAssumption DEF Functions!LinesAssumption
<1> QED BY <1>1, <1>2, LenProperties

LEMMA FunctionPairs ==
  \A f : f \in Functions!Functions <=>
           /\ f \in Functions!Begins \X Functions!Closes
           /\ f[1] < f[2] /\ f[2] < linenum
           /\ \A i \in f[1] + 1 .. f[2] - 1 : i \notin Edges
BY DEF Functions!Functions, Edges

(* A line goes by, the text stays.                                            *)
LEMMA TextStays ==
  ASSUME FunctionTypes, body' = body, linenum \in DOMAIN body, linenum' = linenum + 1
  PROVE  /\ Functions!Begins' = Functions!Begins /\ Functions!Closes' = Functions!Closes
         /\ Edges' = Edges
         /\ Functions!Begins \in SUBSET (1 .. Len(body))
         /\ Functions!Closes \in SUBSET (1 .. Len(body))
         /\ \A b, c : Functions!Counted(b, c)' = Functions!Counted(b, c)
         /\ linenum \in Nat /\ linenum' \in 1 .. Len(body') + 1 /\ Len(body) \in Nat
<1>1. Len(body) \in Nat /\ DOMAIN body = 1 .. Len(body)
  BY TextsAreLines DEF FunctionTypes
<1>2. Functions!Begins' = Functions!Begins /\ Functions!Closes' = Functions!Closes
  BY DEF Functions!Begins, Functions!Closes, Functions!HasBody, Functions!Stops
<1>3. \A b, c : Functions!Counted(b, c)' = Functions!Counted(b, c)
  BY DEF Functions!Counted
<1> QED
  BY <1>1, <1>2, <1>3 DEF Edges, Functions!Begins, Functions!Closes

LEMMA FunctionsGrow ==
  ASSUME FunctionTypes, body' = body, linenum \in DOMAIN body, linenum' = linenum + 1,
         inAFunction => AtHand, ~inAFunction => NoneAtHand
  PROVE  /\ linenum \in Functions!Closes /\ inAFunction
              => Functions!Functions' = Functions!Functions \cup {<<begun, linenum>>}
         /\ linenum \notin Functions!Closes \/ ~inAFunction
              => Functions!Functions' = Functions!Functions
         /\ \A f \in Functions!Functions : f[2] < linenum
<1>1. /\ Functions!Begins' = Functions!Begins /\ Functions!Closes' = Functions!Closes
      /\ Edges' = Edges /\ linenum \in Nat
      /\ Functions!Begins \in SUBSET Nat /\ Functions!Closes \in SUBSET Nat
  BY TextStays
<1>2. \A f : f \in Functions!Functions' <=>
           /\ f \in Functions!Begins \X Functions!Closes
           /\ f[1] < f[2] /\ f[2] < linenum + 1
           /\ \A i \in f[1] + 1 .. f[2] - 1 : i \notin Edges
  <2>1. \A f : f \in Functions!Functions' <=>
           /\ f \in Functions!Begins' \X Functions!Closes'
           /\ f[1] < f[2] /\ f[2] < linenum'
           /\ \A i \in f[1] + 1 .. f[2] - 1 : i \notin Edges'
    BY DEF Functions!Functions, Edges
  <2> QED BY <1>1, <2>1
<1>3. \A f \in Functions!Functions : f \in Functions!Functions'
  <2>1. TAKE f \in Functions!Functions
  <2>2. /\ f \in Functions!Begins \X Functions!Closes
        /\ f[1] < f[2] /\ f[2] < linenum
        /\ \A i \in f[1] + 1 .. f[2] - 1 : i \notin Edges
    BY FunctionPairs
  <2>3. f[1] \in Nat /\ f[2] \in Nat
    BY <1>1, <2>2
  <2>4. f[2] < linenum + 1
    BY <1>1, <2>2, <2>3
  <2> QED BY <1>2, <2>2, <2>4
<1>4. ASSUME NEW f \in Functions!Functions', f \notin Functions!Functions
      PROVE  linenum \in Functions!Closes /\ inAFunction /\ f = <<begun, linenum>>
  <2>1. PICK b \in Functions!Begins, c \in Functions!Closes : f = <<b, c>>
    BY <1>2, <1>4
  <2>2. b \in Nat /\ c \in Nat /\ b < c /\ c < linenum + 1 /\ \A i \in b + 1 .. c - 1 : i \notin Edges
    BY <1>1, <1>2, <1>4, <2>1
  <2>3. ~(c < linenum)
    BY <1>4, <2>1, <2>2, FunctionPairs
  <2>4. c = linenum
    BY <1>1, <2>2, <2>3
  <2>5. inAFunction
    BY <1>1, <2>2, <2>4 DEF NoneAtHand
  <2>6. /\ begun \in Functions!Begins /\ begun < linenum /\ begun \in Nat
        /\ \A i \in begun + 1 .. linenum - 1 : i \notin Edges
    BY <1>1, <2>5 DEF AtHand
  <2>7. ~(b < begun)
    BY <1>1, <2>2, <2>4, <2>6 DEF Edges
  <2>8. ~(begun < b)
    BY <1>1, <2>2, <2>4, <2>6 DEF Edges
  <2> QED BY <2>1, <2>2, <2>4, <2>5, <2>6, <2>7, <2>8
<1>5. ASSUME linenum \in Functions!Closes, inAFunction
      PROVE  <<begun, linenum>> \in Functions!Functions'
  <2>1. /\ begun \in Functions!Begins /\ begun < linenum
        /\ \A i \in begun + 1 .. linenum - 1 : i \notin Edges
    BY <1>5 DEF AtHand
  <2>2. <<begun, linenum>> \in Functions!Begins \X Functions!Closes /\ linenum < linenum + 1
    BY <1>1, <1>5, <2>1
  <2> QED BY <1>2, <2>1, <2>2
<1>6. \A f \in Functions!Functions : f[2] < linenum
  BY FunctionPairs
<1> QED BY <1>3, <1>4, <1>5, <1>6

LEMMA FunctionCardinality == \A S : Functions!Cardinality(S) = Cardinality(S)
BY DEF Functions!Cardinality, Cardinality

(* A line more is counted if it is not blank and no function is declared.     *)
LEMMA CountsGrow ==
  ASSUME FunctionTypes, linenum \in DOMAIN body, NEW b \in Nat, b < linenum
  PROVE  Functions!Counted(b, linenum + 1) =
           IF body[linenum].name = "none" /\ body[linenum].form # "blank" THEN Functions!Counted(b, linenum) + 1
           ELSE Functions!Counted(b, linenum)
<1> DEFINE Of(c) == {i \in b + 1 .. c - 1 : body[i].name = "none" /\ body[i].form # "blank"}
<1>1. linenum \in Nat
  BY DEF FunctionTypes
<1>2. IsFiniteSet(b + 1 .. linenum - 1)
  BY <1>1, FS_Interval
<1>3. IsFiniteSet(Of(linenum)) /\ linenum \notin Of(linenum)
  BY <1>1, <1>2, FS_Subset
<1>4. \A i : i \in b + 1 .. (linenum + 1) - 1 <=> i \in (b + 1 .. linenum - 1) \cup {linenum}
  BY <1>1
<1>5. Of(linenum + 1) = IF body[linenum].name = "none" /\ body[linenum].form # "blank"
                        THEN Of(linenum) \cup {linenum} ELSE Of(linenum)
  BY <1>4
<1>6. Cardinality(Of(linenum) \cup {linenum}) = Cardinality(Of(linenum)) + 1
  BY <1>3, FS_AddElement
<1> QED BY <1>5, <1>6, FunctionCardinality DEF Functions!Counted

(* What Begin counts from.                                                    *)
LEMMA CountsBegin ==
  ASSUME NEW b \in Nat
  PROVE  Functions!Counted(b, b + 1) = 0
<1>1. {i \in b + 1 .. (b + 1) - 1 : body[i].name = "none" /\ body[i].form # "blank"} = {}
  OBVIOUS
<1> QED BY <1>1, FS_EmptySet, FunctionCardinality DEF Functions!Counted

LEMMA CountsAreNumbers ==
  ASSUME NEW b \in Nat, NEW c \in Nat PROVE Functions!Counted(b, c) \in Nat
<1> DEFINE S == {i \in b + 1 .. c - 1 : body[i].name = "none" /\ body[i].form # "blank"}
<1>1. IsFiniteSet(b + 1 .. c - 1)
  BY FS_Interval
<1>2. IsFiniteSet(S)
  BY <1>1, FS_Subset
<1>3. Cardinality(S) \in Nat
  BY <1>2, FS_CardinalityType
<1> QED BY <1>3, FunctionCardinality DEF Functions!Counted

(* A step that measures no function leaves what both properties speak of.     *)
LEMMA NothingMeasured ==
  ASSUME FunctionInv, body' = body, verbose' = verbose, linenum \in DOMAIN body, linenum' = linenum + 1,
         linenum \notin Functions!Closes \/ ~inAFunction, checks' = checks,
         \A e : e \in functionErrors' /\ e.kind = "size" <=> e \in functionErrors /\ e.kind = "size"
  PROVE  /\ \A e \in functionErrors' : e.kind = "size" => e.line \in 1 .. linenum' - 1
         /\ Functions!FunctionsAreKeptApart' /\ Functions!LongFunctionsAreTold'
<1>1. /\ Functions!Functions' = Functions!Functions
      /\ \A b, c : Functions!Counted(b, c)' = Functions!Counted(b, c)
      /\ linenum \in Nat /\ linenum' = linenum + 1
  BY TextStays, FunctionsGrow DEF FunctionInv
<1>2. Functions!FunctionsAreKeptApart'
  BY <1>1 DEF FunctionInv, Functions!FunctionsAreKeptApart
<1>3. ASSUME NEW f \in Functions!Functions
      PROVE  {e \in functionErrors' : e.kind = "size" /\ e.line = f[2]}
               = {e \in functionErrors : e.kind = "size" /\ e.line = f[2]}
  OBVIOUS
<1>4. Functions!LongFunctionsAreTold'
  BY <1>1, <1>3 DEF FunctionInv, Functions!LongFunctionsAreTold
<1>5. \A e \in functionErrors' : e.kind = "size" => e.line \in 1 .. linenum' - 1
  <2>1. SUFFICES ASSUME NEW e \in functionErrors', e.kind = "size" PROVE e.line \in 1 .. linenum' - 1
    OBVIOUS
  <2>2. e \in functionErrors
    BY <2>1
  <2>3. e.line \in 1 .. linenum - 1
    BY <2>1, <2>2 DEF FunctionInv
  <2> QED BY <1>1, <2>3
<1> QED BY <1>2, <1>4, <1>5

LEMMA LineNames ==
  ASSUME FunctionTypes, linenum \in DOMAIN body
  PROVE  /\ linenum \in Functions!Closes <=> body[linenum].name = "none" /\ body[linenum].form = "close"
         /\ linenum \in Functions!Begins <=> body[linenum].name # "none" /\ Functions!HasBody(linenum)
BY DEF Functions!Closes, Functions!Begins

LEMMA BeginKeeps ==
  ASSUME FunctionInv, Functions!Begin
  PROVE  FunctionInv'
<1>1. /\ FunctionTypes /\ linenum \in 1 .. Len(body) /\ body[linenum].name # "none"
      /\ Functions!HasBody(linenum) /\ inAFunction' = TRUE /\ linesInFunction' = 0
      /\ isTest' = (body[linenum].name = "test") /\ begun' = linenum /\ linenum' = linenum + 1
      /\ body' = body /\ verbose' = verbose /\ checks' = checks /\ functionErrors' = functionErrors
  BY TextsAreLines DEF FunctionInv, FunctionTypes, Functions!Begin, Functions!Line, Functions!Proceed
<1>2. linenum \in DOMAIN body
  BY <1>1, TextsAreLines DEF FunctionTypes
<1>3. linenum \in Functions!Begins /\ linenum \notin Functions!Closes
  BY <1>1, <1>2, LineNames
<1>4. /\ Functions!Begins' = Functions!Begins /\ Edges' = Edges /\ linenum \in Nat
      /\ \A b, c : Functions!Counted(b, c)' = Functions!Counted(b, c)
      /\ linenum' \in 1 .. Len(body') + 1
  BY <1>1, <1>2, TextStays
<1>5. FunctionTypes'
  BY <1>1, <1>4 DEF FunctionTypes
<1>6. AtHand'
  <2>1. begun' \in Functions!Begins' /\ begun' < linenum'
    BY <1>1, <1>3, <1>4
  <2>2. \A i \in begun' + 1 .. linenum' - 1 : i \notin Edges'
    BY <1>1, <1>4
  <2>3. linesInFunction' = Functions!Counted(begun, linenum)'
    BY <1>1, <1>4, CountsBegin
  <2>4. isTest' <=> body'[begun'].name = "test"
    BY <1>1
  <2> QED BY <2>1, <2>2, <2>3, <2>4 DEF AtHand
<1>7. /\ \A e \in functionErrors' : e.kind = "size" => e.line \in 1 .. linenum' - 1
      /\ Functions!FunctionsAreKeptApart' /\ Functions!LongFunctionsAreTold'
  BY <1>1, <1>2, <1>3, NothingMeasured
<1> QED BY <1>1, <1>5, <1>6, <1>7 DEF FunctionInv

(* A line that neither begins nor ends a function.                            *)
LEMMA MiddleKeeps ==
  ASSUME FunctionTypes, inAFunction => AtHand, ~inAFunction => NoneAtHand,
         linenum \in DOMAIN body, linenum \notin Edges,
         linenum' = linenum + 1, UNCHANGED <<body, verbose, inAFunction, isTest, begun>>,
         linesInFunction' = IF inAFunction /\ body[linenum].name = "none" /\ body[linenum].form # "blank"
                            THEN linesInFunction + 1 ELSE linesInFunction
  PROVE  FunctionTypes' /\ (inAFunction' => AtHand') /\ (~inAFunction' => NoneAtHand')
<1>1. /\ Functions!Begins' = Functions!Begins /\ Edges' = Edges /\ linenum \in Nat
      /\ \A b, c : Functions!Counted(b, c)' = Functions!Counted(b, c)
      /\ linenum' \in 1 .. Len(body') + 1 /\ Functions!Begins \in SUBSET Nat
  BY TextStays
<1>2. FunctionTypes'
  BY <1>1 DEF FunctionTypes
<1>3. ASSUME inAFunction PROVE AtHand'
  <2>1. begun \in Functions!Begins /\ begun < linenum /\ begun \in Nat
        /\ linesInFunction = Functions!Counted(begun, linenum)
        /\ \A i \in begun + 1 .. linenum - 1 : i \notin Edges
    BY <1>1, <1>3 DEF AtHand
  <2>2. Functions!Counted(begun, linenum + 1) = linesInFunction'
    BY <1>3, <2>1, CountsGrow
  <2>3. begun' \in Functions!Begins' /\ begun' < linenum'
    BY <1>1, <2>1
  <2>4. \A i \in begun' + 1 .. linenum' - 1 : i \notin Edges'
    <3>1. ASSUME NEW i \in begun + 1 .. (linenum + 1) - 1 PROVE i = linenum \/ i \in begun + 1 .. linenum - 1
      BY <1>1, <2>1
    <3> QED BY <1>1, <2>1, <3>1
  <2> QED BY <1>1, <1>3, <2>2, <2>3, <2>4 DEF AtHand
<1>4. ASSUME ~inAFunction, NEW b \in Functions!Begins, b < linenum + 1
      PROVE  \E i \in b + 1 .. (linenum + 1) - 1 : i \in Edges
  <2>1. b # linenum /\ b \in Nat
    BY <1>1 DEF Edges
  <2>2. PICK i \in b + 1 .. linenum - 1 : i \in Edges
    BY <1>1, <1>4, <2>1 DEF NoneAtHand
  <2>3. i \in b + 1 .. (linenum + 1) - 1
    BY <1>1, <2>1
  <2> QED BY <2>2, <2>3
<1>5. ASSUME ~inAFunction PROVE NoneAtHand'
  BY <1>1, <1>4, <1>5 DEF NoneAtHand
<1> QED BY <1>2, <1>3, <1>5

LEMMA DeclarationKeeps ==
  ASSUME FunctionInv, Functions!Declaration
  PROVE  FunctionInv'
<1>1. /\ FunctionTypes /\ linenum \in 1 .. Len(body) /\ body[linenum].name # "none"
      /\ ~Functions!HasBody(linenum) /\ linenum' = linenum + 1 /\ checks' = checks
      /\ UNCHANGED <<body, verbose, inAFunction, linesInFunction, isTest, begun>>
      /\ (functionErrors' = functionErrors
          \/ functionErrors' = functionErrors \cup {[kind |-> "body", line |-> linenum, confidence |-> 5]})
  BY TextsAreLines
     DEF FunctionInv, FunctionTypes, Functions!Declaration, Functions!Line, Functions!Proceed
<1>2. linenum \in DOMAIN body
  BY <1>1, TextsAreLines DEF FunctionTypes
<1>3. linenum \notin Functions!Closes /\ linenum \notin Edges
  BY <1>1, <1>2, LineNames DEF Edges
<1>4. FunctionTypes' /\ (inAFunction' => AtHand') /\ (~inAFunction' => NoneAtHand')
  BY <1>1, <1>2, <1>3, MiddleKeeps DEF FunctionInv
<1>5. \A e : e \in functionErrors' /\ e.kind = "size" <=> e \in functionErrors /\ e.kind = "size"
  BY <1>1
<1>6. /\ \A e \in functionErrors' : e.kind = "size" => e.line \in 1 .. linenum' - 1
      /\ Functions!FunctionsAreKeptApart' /\ Functions!LongFunctionsAreTold'
  BY <1>1, <1>2, <1>3, <1>5, NothingMeasured
<1> QED BY <1>4, <1>6 DEF FunctionInv

LEMMA CountKeeps ==
  ASSUME FunctionInv, Functions!Count
  PROVE  FunctionInv'
<1>1. /\ FunctionTypes /\ linenum \in 1 .. Len(body) /\ body[linenum].name = "none"
      /\ body[linenum].form # "close" /\ linenum' = linenum + 1 /\ checks' = checks
      /\ UNCHANGED <<body, verbose, inAFunction, isTest, begun, functionErrors>>
      /\ linesInFunction' = IF inAFunction /\ body[linenum].form # "blank"
                            THEN linesInFunction + 1 ELSE linesInFunction
  BY TextsAreLines
     DEF FunctionInv, FunctionTypes, Functions!Count, Functions!Line, Functions!Proceed
<1>2. linenum \in DOMAIN body
  BY <1>1, TextsAreLines DEF FunctionTypes
<1>3. linenum \notin Functions!Closes /\ linenum \notin Edges
  BY <1>1, <1>2, LineNames DEF Edges
<1>4. FunctionTypes' /\ (inAFunction' => AtHand') /\ (~inAFunction' => NoneAtHand')
  BY <1>1, <1>2, <1>3, MiddleKeeps DEF FunctionInv
<1>6. /\ \A e \in functionErrors' : e.kind = "size" => e.line \in 1 .. linenum' - 1
      /\ Functions!FunctionsAreKeptApart' /\ Functions!LongFunctionsAreTold'
  BY <1>1, <1>2, <1>3, NothingMeasured
<1> QED BY <1>4, <1>6 DEF FunctionInv

(* The confidence of a report is that of the verbosity at least.              *)
LEMMA ConfidenceSuffices ==
  ASSUME NEW count \in Nat, verbose \in 0 .. 5, count > Functions!Trigger
  PROVE  Functions!Confidence(count) >= verbose
<1> DEFINE L == {l \in 0 .. 5 : l = 0 \/ Functions!BaseTrigger * 2 ^ l <= count}
<1>1. Functions!BaseTrigger \in Nat
  BY EndingsAssumption DEF Functions!TriggersAssumption, Functions!BaseTrigger
<1>2. Functions!BaseTrigger * 2 ^ verbose <= count
  <2>1. PICK n : n = Functions!BaseTrigger * 2 ^ verbose
    OBVIOUS
  <2>2. n \in Int
    BY <1>1, <2>1
  <2> QED BY <2>1, <2>2 DEF Functions!Trigger
<1>3. verbose \in L /\ L \in SUBSET (0 .. 5)
  BY <1>2
<1>4. PICK m : m \in L /\ \A l \in L : m >= l
  <2> HIDE DEF L
  <2> QED BY <1>3
<1>5. Functions!Max(L) \in L /\ \A l \in L : Functions!Max(L) >= l
  BY <1>4 DEF Functions!Max
<1> QED BY <1>3, <1>5 DEF Functions!Confidence

LEMMA CheckAndEndKeeps ==
  ASSUME FunctionInv, Functions!CheckAndEnd
  PROVE  FunctionInv'
<1>1. /\ FunctionTypes /\ linenum \in 1 .. Len(body) /\ body[linenum].name = "none"
      /\ body[linenum].form = "close" /\ linenum' = linenum + 1 /\ inAFunction' = FALSE
      /\ UNCHANGED <<body, verbose, linesInFunction, isTest, begun>>
  BY TextsAreLines
     DEF FunctionInv, FunctionTypes, Functions!CheckAndEnd, Functions!Line, Functions!Proceed, Functions!End
<1>2. linenum \in DOMAIN body
  BY <1>1, TextsAreLines DEF FunctionTypes
<1>3. linenum \in Functions!Closes /\ linenum \in Edges
  BY <1>1, <1>2, LineNames DEF Edges
<1>4. /\ Functions!Begins' = Functions!Begins /\ Edges' = Edges /\ linenum \in Nat
      /\ \A b, c : Functions!Counted(b, c)' = Functions!Counted(b, c)
      /\ linenum' \in 1 .. Len(body') + 1 /\ Functions!Begins \in SUBSET Nat
  BY <1>1, <1>2, TextStays
<1>5. FunctionTypes'
  BY <1>1, <1>4 DEF FunctionTypes
<1>6. NoneAtHand'
  <2>1. ASSUME NEW b \in Functions!Begins, b < linenum + 1
        PROVE  \E i \in b + 1 .. (linenum + 1) - 1 : i \in Edges
    <3>1. b # linenum /\ b \in Nat
      BY <1>1, <1>2, <1>4, LineNames
    <3>2. linenum \in b + 1 .. (linenum + 1) - 1
      BY <1>4, <2>1, <3>1
    <3> QED BY <1>3, <3>2
  <2> QED BY <1>1, <1>4, <2>1 DEF NoneAtHand
<1>7. CASE ~inAFunction
  <2>1. checks' = checks /\ functionErrors' = functionErrors
    BY <1>7 DEF Functions!CheckAndEnd
  <2>2. /\ \A e \in functionErrors' : e.kind = "size" => e.line \in 1 .. linenum' - 1
        /\ Functions!FunctionsAreKeptApart' /\ Functions!LongFunctionsAreTold'
    BY <1>1, <1>2, <1>7, <2>1, NothingMeasured
  <2> QED BY <1>1, <1>5, <1>6, <2>2 DEF FunctionInv
<1>8. CASE inAFunction
  <2>1. PICK f : f = <<begun, linenum>>
    OBVIOUS
  <2>2. /\ f[1] = begun /\ f[2] = linenum /\ Functions!Functions' = Functions!Functions \cup {f}
        /\ \A g \in Functions!Functions : g[2] < linenum
    BY <1>1, <1>2, <1>3, <1>8, <2>1, FunctionsGrow DEF FunctionInv
  <2>3. AtHand
    BY <1>8 DEF FunctionInv
  <2>4. Functions!Counted(begun, linenum) = linesInFunction
    BY <2>3 DEF AtHand
  <2>5. checks' = checks \cup {[begin |-> begun, end |-> linenum, lines |-> linesInFunction]}
    BY <1>8 DEF Functions!CheckAndEnd
  <2>6. Functions!FunctionsAreKeptApart'
    <3>1. checks = {[begin |-> g[1], end |-> g[2], lines |-> Functions!Counted(g[1], g[2])] : g \in Functions!Functions}
      BY DEF FunctionInv, Functions!FunctionsAreKeptApart
    <3>2. {[begin |-> g[1], end |-> g[2], lines |-> Functions!Counted(g[1], g[2])] : g \in Functions!Functions'}
             = {[begin |-> g[1], end |-> g[2], lines |-> Functions!Counted(g[1], g[2])] : g \in Functions!Functions}
                 \cup {[begin |-> f[1], end |-> f[2], lines |-> Functions!Counted(f[1], f[2])]}
      BY <2>2
    <3>3. checks' = {[begin |-> g[1], end |-> g[2], lines |-> Functions!Counted(g[1], g[2])] : g \in Functions!Functions'}
      BY <2>2, <2>4, <2>5, <3>1, <3>2
    <3> QED BY <1>4, <3>3 DEF Functions!FunctionsAreKeptApart
  <2> DEFINE r == [kind |-> "size", line |-> linenum, confidence |-> Functions!Confidence(linesInFunction)]
             base(g) == IF body[g[1]].name = "test" THEN TestTrigger ELSE NormalTrigger
             toldOf(g) == {e \in functionErrors : e.kind = "size" /\ e.line = g[2]}
  <2>7. functionErrors' = IF linesInFunction > Functions!Trigger THEN functionErrors \cup {r} ELSE functionErrors
    BY <1>8 DEF Functions!CheckAndEnd
  <2>8. \A e \in functionErrors' : e.kind = "size" => e.line \in 1 .. linenum' - 1
    <3>1. \A e \in functionErrors : e.kind = "size" => e.line \in 1 .. linenum
      BY <1>4 DEF FunctionInv
    <3>2. linenum \in 1 .. (linenum + 1) - 1 /\ linenum = (linenum + 1) - 1
      BY <1>1, <1>4
    <3> QED BY <1>1, <2>7, <3>1, <3>2
  <2>9. Functions!Trigger = base(f) * 2 ^ verbose
    BY <2>2, <2>3 DEF AtHand, Functions!Trigger, Functions!BaseTrigger
  <2>10. ASSUME NEW g \in Functions!Functions PROVE toldOf(g)' = toldOf(g)
    <3>1. g[2] < linenum /\ g[2] # linenum
      BY <1>4, <2>2
    <3> QED BY <2>7, <3>1
  <2>11. toldOf(f) = {}
    <3>1. \A e \in functionErrors : e.kind = "size" => e.line # linenum
      BY <1>4 DEF FunctionInv
    <3> QED BY <2>2, <3>1
  <2>12. toldOf(f)' = IF linesInFunction > Functions!Trigger THEN {r} ELSE {}
    <3>1. {e \in functionErrors : e.kind = "size" /\ e.line = linenum} = {}
      BY <2>2, <2>11
    <3>2. {e \in functionErrors \cup {r} : e.kind = "size" /\ e.line = linenum} = {r}
      BY <3>1
    <3>3. f' = f /\ f[2] = linenum
      BY <1>1, <2>2
    <3> QED BY <2>7, <3>1, <3>2, <3>3
  <2>13. linesInFunction > Functions!Trigger => r.confidence >= verbose
    BY <1>1, ConfidenceSuffices DEF FunctionTypes
  <2>14. Functions!LongFunctionsAreTold'
    <3> DEFINE fine(g) == /\ toldOf(g) # {} <=> Functions!Counted(g[1], g[2]) > base(g) * 2 ^ verbose
                          /\ \A e \in toldOf(g) : e.confidence >= verbose
    <3>1. \A g \in Functions!Functions : fine(g)
      BY DEF FunctionInv, Functions!LongFunctionsAreTold
    <3>2. ASSUME NEW g \in Functions!Functions PROVE fine(g)'
      <4>1. toldOf(g)' = toldOf(g) /\ body' = body /\ verbose' = verbose
            /\ Functions!Counted(g[1], g[2])' = Functions!Counted(g[1], g[2])
        BY <1>1, <1>4, <2>10
      <4>2. base(g)' = base(g)
        BY <4>1
      <4> HIDE DEF toldOf, base
      <4> QED BY <3>1, <4>1, <4>2
    <3>3. fine(f)'
      <4>1. /\ body' = body /\ verbose' = verbose /\ f' = f
            /\ Functions!Counted(f[1], f[2])' = linesInFunction
        BY <1>1, <1>4, <2>2, <2>4
      <4>2. base(f)' * 2 ^ verbose' = Functions!Trigger
        BY <2>9, <4>1
      <4> HIDE DEF toldOf, base, r
      <4> QED BY <2>12, <2>13, <4>1, <4>2
    <3>4. \A g \in Functions!Functions' : fine(g)'
      BY <2>2, <3>2, <3>3
    <3> QED BY <3>4 DEF Functions!LongFunctionsAreTold
  <2> QED BY <1>1, <1>5, <1>6, <2>6, <2>8, <2>14 DEF FunctionInv
<1> QED BY <1>7, <1>8

LEMMA FunctionInvInit == Functions!Init => FunctionInv
<1> SUFFICES ASSUME Functions!Init PROVE FunctionInv
  OBVIOUS
<1>1. /\ body \in Functions!Texts /\ verbose \in 0 .. 5 /\ linenum = 1 /\ inAFunction = FALSE
      /\ linesInFunction = 0 /\ isTest = FALSE /\ begun = 0 /\ checks = {} /\ functionErrors = {}
  BY EndingsAssumption DEF Functions!Init, Functions!LevelsAssumption
<1>2. Len(body) \in Nat /\ DOMAIN body = 1 .. Len(body)
  BY <1>1, TextsAreLines
<1>3. FunctionTypes
  <2>1. inAFunction \in BOOLEAN /\ isTest \in BOOLEAN
    BY <1>1
  <2>2. 1 \in 1 .. Len(body) + 1
    BY <1>2
  <2> QED BY <1>1, <2>1, <2>2 DEF FunctionTypes
<1>4. Functions!Begins \in SUBSET Nat /\ Functions!Closes \in SUBSET Nat
  BY <1>2 DEF Functions!Begins, Functions!Closes
<1>5. NoneAtHand
  BY <1>1, <1>2 DEF NoneAtHand, Functions!Begins
<1>6. Functions!Functions = {}
  <2>1. \A f \in Functions!Functions : f[1] \in 1 .. Len(body) /\ f[2] \in 1 .. Len(body) /\ f[2] < 1
    BY <1>1, <1>2, FunctionPairs DEF Functions!Begins, Functions!Closes
  <2> QED BY <1>2, <2>1
<1> QED
  BY <1>1, <1>3, <1>5, <1>6 DEF FunctionInv, Functions!FunctionsAreKeptApart, Functions!LongFunctionsAreTold

LEMMA FunctionInvNext == FunctionInv /\ Functions!Next => FunctionInv'
BY BeginKeeps, DeclarationKeeps, CheckAndEndKeeps, CountKeeps DEF Functions!Next

LEMMA FunctionInvStays == FunctionInv /\ UNCHANGED functionVars => FunctionInv'
<1> SUFFICES ASSUME FunctionInv, UNCHANGED functionVars PROVE FunctionInv'
  OBVIOUS
<1>1. /\ body' = body /\ verbose' = verbose /\ linenum' = linenum /\ inAFunction' = inAFunction
      /\ linesInFunction' = linesInFunction /\ isTest' = isTest /\ begun' = begun /\ checks' = checks
      /\ functionErrors' = functionErrors
  BY DEF functionVars
<1>2. Functions!Begins' = Functions!Begins /\ Functions!Closes' = Functions!Closes
  BY <1>1 DEF Functions!Begins, Functions!Closes, Functions!HasBody, Functions!Stops
<1>3. \A b, c : Functions!Counted(b, c)' = Functions!Counted(b, c)
  BY <1>1 DEF Functions!Counted
<1>4. Edges' = Edges /\ Functions!Functions' = Functions!Functions
  BY <1>1, <1>2 DEF Edges, Functions!Functions
<1>5. FunctionTypes' /\ (inAFunction' => AtHand') /\ (~inAFunction' => NoneAtHand')
      /\ \A e \in functionErrors' : e.kind = "size" => e.line \in 1 .. linenum' - 1
  BY <1>1, <1>2, <1>3, <1>4 DEF FunctionInv, FunctionTypes, AtHand, NoneAtHand
<1>6. Functions!FunctionsAreKeptApart' /\ Functions!LongFunctionsAreTold'
  BY <1>1, <1>3, <1>4 DEF FunctionInv, Functions!FunctionsAreKeptApart, Functions!LongFunctionsAreTold
<1> QED BY <1>5, <1>6 DEF FunctionInv

-------------------------------------------------------------------------------
(* CloseExpression() and ReverseCloseExpression().  How many of the first i   *)
(* elements of a sequence are in a set, and how deep a text is after i.       *)
Among(s, i, T) == Cardinality({j \in 1 .. i : s[j] \in T})

DepthIn(s, i) == Among(s, i, Brackets!Opening) - Among(s, i, Brackets!Closing)

LEMMA AmongNumbers ==
  ASSUME NEW s, NEW T, NEW i \in Nat
  PROVE  /\ Among(s, i, T) \in Nat /\ Among(s, 0, T) = 0
         /\ Among(s, i + 1, T) = Among(s, i, T) + (IF s[i + 1] \in T THEN 1 ELSE 0)
<1> DEFINE S(n) == {j \in 1 .. n : s[j] \in T}
<1>1. IsFiniteSet(S(i))
  <2>1. IsFiniteSet(1 .. i)
    BY FS_Interval
  <2> QED BY <2>1, FS_Subset
<1>2. Cardinality(S(i)) \in Nat
  BY <1>1, FS_CardinalityType
<1>3. S(0) = {} /\ i + 1 \notin S(i)
  OBVIOUS
<1>4. \A j : j \in 1 .. i + 1 <=> j \in (1 .. i) \cup {i + 1}
  OBVIOUS
<1>5. S(i + 1) = IF s[i + 1] \in T THEN S(i) \cup {i + 1} ELSE S(i)
  BY <1>4
<1>6. Cardinality(S(i) \cup {i + 1}) = Cardinality(S(i)) + 1
  BY <1>1, <1>3, FS_AddElement
<1>7. Cardinality(S(i + 1)) = Cardinality(S(i)) + (IF s[i + 1] \in T THEN 1 ELSE 0)
  <2> HIDE DEF S
  <2> QED BY <1>2, <1>5, <1>6
<1> QED BY <1>2, <1>3, <1>7, FS_EmptySet DEF Among

LEMMA AmongSame ==
  ASSUME NEW s, NEW r, NEW T, NEW i \in Nat, \A j \in 1 .. i : s[j] = r[j]
  PROVE  Among(s, i, T) = Among(r, i, T)
<1>1. {j \in 1 .. i : s[j] \in T} = {j \in 1 .. i : r[j] \in T}
  OBVIOUS
<1> QED BY <1>1 DEF Among

LEMMA AmongGrows ==
  ASSUME NEW s, NEW T, NEW i \in Nat, NEW n \in Nat, i <= n
  PROVE  /\ Among(s, i, T) <= Among(s, n, T)
         /\ (\A j \in i + 1 .. n : s[j] \notin T) => Among(s, n, T) = Among(s, i, T)
         /\ (\E j \in i + 1 .. n : s[j] \in T) => Among(s, n, T) >= Among(s, i, T) + 1
<1> DEFINE S(m) == {j \in 1 .. m : s[j] \in T}
<1>1. IsFiniteSet(S(i)) /\ IsFiniteSet(S(n))
  <2>1. IsFiniteSet(1 .. i) /\ IsFiniteSet(1 .. n)
    BY FS_Interval
  <2> QED BY <2>1, FS_Subset
<1>2. S(i) \in SUBSET S(n)
  OBVIOUS
<1>3. Cardinality(S(i)) <= Cardinality(S(n))
  <2> HIDE DEF S
  <2> QED BY <1>1, <1>2, FS_Subset
<1>4. ASSUME \A j \in i + 1 .. n : s[j] \notin T PROVE S(n) = S(i)
  <2>1. \A j \in 1 .. n : j \in 1 .. i \/ j \in i + 1 .. n
    OBVIOUS
  <2> QED BY <1>2, <1>4, <2>1
<1>5. ASSUME NEW j \in i + 1 .. n, s[j] \in T PROVE Cardinality(S(n)) >= Cardinality(S(i)) + 1
  <2>1. j \notin S(i) /\ S(i) \cup {j} \in SUBSET S(n)
    BY <1>5
  <2>2. Cardinality(S(i) \cup {j}) = Cardinality(S(i)) + 1
    <3> HIDE DEF S
    <3> QED BY <1>1, <2>1, FS_AddElement
  <2>3. Cardinality(S(i) \cup {j}) <= Cardinality(S(n))
    <3> HIDE DEF S
    <3> QED BY <1>1, <2>1, FS_Subset
  <2>4. Cardinality(S(n)) \in Nat /\ Cardinality(S(i)) \in Nat
    BY <1>1, FS_CardinalityType
  <2> QED BY <2>2, <2>3, <2>4
<1> QED BY <1>3, <1>4, <1>5 DEF Among

(* A token after the text leaves the depths in it, and a bracket changes the  *)
(* one behind it.                                                             *)
LEMMA DepthGrows ==
  ASSUME NEW S, NEW s \in Seq(S), NEW t \in S
  PROVE  /\ Append(s, t) \in Seq(S) /\ Len(Append(s, t)) = Len(s) + 1
         /\ Len(s) \in Nat /\ DepthIn(s, Len(s)) \in Int
         /\ \A i \in 1 .. Len(s) : Append(s, t)[i] = s[i]
         /\ Append(s, t)[Len(s) + 1] = t
         /\ \A i \in 0 .. Len(s) : DepthIn(Append(s, t), i) = DepthIn(s, i)
         /\ DepthIn(Append(s, t), Len(s) + 1) =
              DepthIn(s, Len(s)) + (IF t \in Brackets!Opening THEN 1 ELSE IF t \in Brackets!Closing THEN -1 ELSE 0)
<1>1. PICK r : r = Append(s, t)
  OBVIOUS
<1>2. /\ r \in Seq(S) /\ Len(r) = Len(s) + 1 /\ Len(s) \in Nat
      /\ \A i \in 1 .. Len(s) : r[i] = s[i]
      /\ r[Len(s) + 1] = t
  BY <1>1, AppendProperties, LenProperties
<1>3. \A i \in 0 .. Len(s) : DepthIn(r, i) = DepthIn(s, i)
  <2>1. TAKE i \in 0 .. Len(s)
  <2>2. i \in Nat /\ \A j \in 1 .. i : r[j] = s[j]
    BY <1>2
  <2> QED BY <2>2, AmongSame DEF DepthIn
<1>4. DepthIn(r, Len(s) + 1) =
        DepthIn(s, Len(s)) + (IF t \in Brackets!Opening THEN 1 ELSE IF t \in Brackets!Closing THEN -1 ELSE 0)
  <2>1. PICK n \in Nat : n = Len(s)
    BY <1>2
  <2>2. /\ Among(r, n + 1, Brackets!Opening) =
             Among(r, n, Brackets!Opening) + (IF t \in Brackets!Opening THEN 1 ELSE 0)
        /\ Among(r, n + 1, Brackets!Closing) =
             Among(r, n, Brackets!Closing) + (IF t \in Brackets!Closing THEN 1 ELSE 0)
        /\ Among(r, n, Brackets!Opening) \in Nat /\ Among(r, n, Brackets!Closing) \in Nat
    <3>1. r[n + 1] = t
      BY <1>2, <2>1
    <3>2. /\ Among(r, n + 1, Brackets!Opening) =
               Among(r, n, Brackets!Opening) + (IF r[n + 1] \in Brackets!Opening THEN 1 ELSE 0)
          /\ Among(r, n, Brackets!Opening) \in Nat
      BY AmongNumbers
    <3>3. /\ Among(r, n + 1, Brackets!Closing) =
               Among(r, n, Brackets!Closing) + (IF r[n + 1] \in Brackets!Closing THEN 1 ELSE 0)
          /\ Among(r, n, Brackets!Closing) \in Nat
      BY AmongNumbers
    <3> QED BY <3>1, <3>2, <3>3
  <2>3. t \in Brackets!Opening => t \notin Brackets!Closing
    BY DEF Brackets!Opening, Brackets!Closing
  <2>4. DepthIn(r, n) = DepthIn(s, n)
    BY <1>2, <1>3, <2>1
  <2> QED BY <2>1, <2>2, <2>3, <2>4 DEF DepthIn
<1>5. DepthIn(s, Len(s)) \in Int
  BY <1>2, AmongNumbers DEF DepthIn
<1> QED BY <1>1, <1>2, <1>3, <1>4, <1>5

(* The last bracket among the first n tokens that opens depth d; and that the *)
(* stack has the brackets that are open, each at the depth it opens.          *)
Opener(s, n, d, j) ==
  /\ j \in 1 .. n /\ s[j] \in Brackets!Opening /\ DepthIn(s, j) = d
  /\ \A k \in j + 1 .. n : s[k] \in Brackets!Opening => DepthIn(s, k) # d

Stackable == Brackets!Opening \cup {"<"}

Mirrors(b, s) ==
  /\ b \in Seq(Stackable)
  /\ Among(b, Len(b), Brackets!Opening) = DepthIn(s, Len(s))
  /\ \A i \in 1 .. Len(b) : b[i] \in Brackets!Opening =>
       \E j : Opener(s, Len(s), Among(b, i, Brackets!Opening), j) /\ s[j] = b[i]

LEMMA TokenKinds ==
  /\ Brackets!Opening = {"(", "{"} /\ Brackets!Closing = {")", "}"}
  /\ Brackets!Tokens = {"(", "{", ")", "}", "<", ">", ";", "=", "-", "op", " ", "x", "eol"}
  /\ Stackable = {"(", "{", "<"} /\ Stackable \subseteq Brackets!Tokens
BY DEF Brackets!Opening, Brackets!Closing, Brackets!Tokens, Brackets!Others, Stackable

LEMMA PrefixMirrors ==
  ASSUME NEW s, NEW b, Mirrors(b, s), NEW n \in 0 .. Len(b),
         \A i \in n + 1 .. Len(b) : b[i] \notin Brackets!Opening
  PROVE  Mirrors(SubSeq(b, 1, n), s) /\ Len(SubSeq(b, 1, n)) = n
         /\ \A i \in 1 .. n : SubSeq(b, 1, n)[i] = b[i]
<1>1. b \in Seq(Stackable) /\ Len(b) \in Nat /\ n \in Nat /\ n <= Len(b)
  BY LenProperties DEF Mirrors
<1>2. PICK c : c = SubSeq(b, 1, n)
  OBVIOUS
<1>3. c \in Seq(Stackable) /\ Len(c) = n /\ \A i \in 1 .. n : c[i] = b[i]
  <2>1. \A i \in 1 .. n : b[i] \in Stackable
    BY <1>1, ElementOfSeq
  <2>2. /\ c \in Seq(Stackable) /\ Len(c) = (IF 1 <= n THEN n - 1 + 1 ELSE 0)
        /\ \A i \in 1 .. n - 1 + 1 : c[i] = b[1 + i - 1]
    BY <1>1, <1>2, <2>1, SubSeqProperties
  <2> QED BY <1>1, <2>2
<1>4. \A i \in 0 .. n : Among(c, i, Brackets!Opening) = Among(b, i, Brackets!Opening)
  <2>1. TAKE i \in 0 .. n
  <2>2. i \in Nat /\ \A j \in 1 .. i : c[j] = b[j]
    BY <1>3
  <2> QED BY <2>2, AmongSame
<1>5. Among(b, n, Brackets!Opening) = Among(b, Len(b), Brackets!Opening)
  BY <1>1, AmongGrows
<1>6. \A i \in 1 .. Len(c) : c[i] \in Brackets!Opening =>
        \E j : Opener(s, Len(s), Among(c, i, Brackets!Opening), j) /\ s[j] = c[i]
  <2>1. ASSUME NEW i \in 1 .. Len(c), c[i] \in Brackets!Opening
        PROVE  \E j : Opener(s, Len(s), Among(c, i, Brackets!Opening), j) /\ s[j] = c[i]
    <3>1. i \in 1 .. Len(b) /\ c[i] = b[i] /\ Among(c, i, Brackets!Opening) = Among(b, i, Brackets!Opening)
      BY <1>1, <1>3, <1>4
    <3> QED BY <2>1, <3>1 DEF Mirrors
  <2> QED BY <2>1
<1>7. Among(c, Len(c), Brackets!Opening) = DepthIn(s, Len(s))
  BY <1>1, <1>3, <1>4, <1>5 DEF Mirrors
<1> QED BY <1>2, <1>3, <1>6, <1>7 DEF Mirrors

LEMMA PushMirrors ==
  ASSUME NEW s, NEW b, Mirrors(b, s)
  PROVE  Mirrors(Append(b, "<"), s)
<1>1. b \in Seq(Stackable) /\ Len(b) \in Nat /\ "<" \in Stackable /\ "<" \notin Brackets!Opening
  BY LenProperties, TokenKinds DEF Mirrors
<1>2. PICK c : c = Append(b, "<")
  OBVIOUS
<1>3. c \in Seq(Stackable) /\ Len(c) = Len(b) + 1 /\ (\A i \in 1 .. Len(b) : c[i] = b[i]) /\ c[Len(b) + 1] = "<"
  BY <1>1, <1>2, AppendProperties
<1>4. \A i \in 0 .. Len(b) : Among(c, i, Brackets!Opening) = Among(b, i, Brackets!Opening)
  <2>1. TAKE i \in 0 .. Len(b)
  <2>2. i \in Nat /\ \A j \in 1 .. i : c[j] = b[j]
    BY <1>3
  <2> QED BY <2>2, AmongSame
<1>5. Among(c, Len(c), Brackets!Opening) = Among(c, Len(b), Brackets!Opening)
  BY <1>1, <1>3, AmongGrows
<1>6. Among(c, Len(c), Brackets!Opening) = DepthIn(s, Len(s))
  BY <1>1, <1>4, <1>5 DEF Mirrors
<1>7. ASSUME NEW i \in 1 .. Len(c), c[i] \in Brackets!Opening
      PROVE  \E j : Opener(s, Len(s), Among(c, i, Brackets!Opening), j) /\ s[j] = c[i]
  <2>1. i \in 1 .. Len(b)
    BY <1>1, <1>3, <1>7
  <2>2. c[i] = b[i] /\ Among(c, i, Brackets!Opening) = Among(b, i, Brackets!Opening)
    BY <1>3, <1>4, <2>1
  <2> QED BY <1>7, <2>1, <2>2 DEF Mirrors
<1> QED BY <1>2, <1>3, <1>6, <1>7 DEF Mirrors

(* A token that is no bracket leaves the openers; so does one that closes.    *)
LEMMA OpenerStays ==
  ASSUME NEW s \in Seq(Brackets!Tokens), NEW t \in Brackets!Tokens, NEW d, NEW j,
         Opener(s, Len(s), d, j), t \in Brackets!Opening => d # DepthIn(s, Len(s)) + 1
  PROVE  Opener(Append(s, t), Len(s) + 1, d, j) /\ Append(s, t)[j] = s[j]
<1>1. PICK r : r = Append(s, t)
  OBVIOUS
<1>2. /\ Len(s) \in Nat /\ \A i \in 1 .. Len(s) : r[i] = s[i]
      /\ r[Len(s) + 1] = t
      /\ \A i \in 0 .. Len(s) : DepthIn(r, i) = DepthIn(s, i)
      /\ DepthIn(r, Len(s) + 1) =
              DepthIn(s, Len(s)) + (IF t \in Brackets!Opening THEN 1 ELSE IF t \in Brackets!Closing THEN -1 ELSE 0)
  BY <1>1, DepthGrows
<1>3. j \in 1 .. Len(s) /\ s[j] \in Brackets!Opening /\ DepthIn(s, j) = d
      /\ \A k \in j + 1 .. Len(s) : s[k] \in Brackets!Opening => DepthIn(s, k) # d
  BY DEF Opener
<1>4. r[j] = s[j] /\ DepthIn(r, j) = d /\ j \in 1 .. Len(s) + 1
  BY <1>2, <1>3
<1>5. ASSUME NEW k \in j + 1 .. Len(s) + 1, r[k] \in Brackets!Opening PROVE DepthIn(r, k) # d
  <2>1. CASE k = Len(s) + 1
    BY <1>2, <1>5, <2>1
  <2>2. CASE k # Len(s) + 1
    <3>1. k \in j + 1 .. Len(s) /\ k \in 1 .. Len(s) /\ k \in 0 .. Len(s)
      BY <1>2, <1>3, <2>2
    <3> QED BY <1>2, <1>3, <1>5, <3>1
  <2> QED BY <2>1, <2>2
<1> QED BY <1>1, <1>3, <1>4, <1>5 DEF Opener

LEMMA NeutralMirrors ==
  ASSUME NEW s \in Seq(Brackets!Tokens), NEW t \in Brackets!Tokens, NEW b, Mirrors(b, s),
         t \notin Brackets!Opening, t \notin Brackets!Closing
  PROVE  Mirrors(b, Append(s, t))
<1>1. PICK r : r = Append(s, t)
  OBVIOUS
<1>2. Len(r) = Len(s) + 1 /\ DepthIn(r, Len(r)) = DepthIn(s, Len(s))
  BY <1>1, DepthGrows
<1>3. ASSUME NEW i \in 1 .. Len(b), b[i] \in Brackets!Opening
      PROVE  \E j : Opener(r, Len(r), Among(b, i, Brackets!Opening), j) /\ r[j] = b[i]
  <2>1. PICK j : Opener(s, Len(s), Among(b, i, Brackets!Opening), j) /\ s[j] = b[i]
    BY <1>3 DEF Mirrors
  <2>2. Opener(r, Len(s) + 1, Among(b, i, Brackets!Opening), j) /\ r[j] = s[j]
    BY <1>1, <2>1, OpenerStays
  <2> QED BY <1>2, <2>1, <2>2
<1> QED BY <1>1, <1>2, <1>3 DEF Mirrors

LEMMA OpeningMirrors ==
  ASSUME NEW s \in Seq(Brackets!Tokens), NEW t \in Brackets!Opening, NEW b, Mirrors(b, s)
  PROVE  Mirrors(Append(b, t), Append(s, t))
<1>1. PICK r : r = Append(s, t)
  OBVIOUS
<1>2. /\ Len(s) \in Nat /\ Len(r) = Len(s) + 1 /\ DepthIn(r, Len(r)) = DepthIn(s, Len(s)) + 1
      /\ r[Len(r)] = t /\ t \in Brackets!Tokens /\ DepthIn(s, Len(s)) \in Int
  <2>1. t \in Brackets!Tokens
    BY TokenKinds
  <2> QED BY <1>1, <2>1, DepthGrows
<1>3. b \in Seq(Stackable) /\ Len(b) \in Nat /\ t \in Stackable
  BY LenProperties DEF Mirrors, Stackable
<1>4. PICK c : c = Append(b, t)
  OBVIOUS
<1>5. c \in Seq(Stackable) /\ Len(c) = Len(b) + 1 /\ (\A i \in 1 .. Len(b) : c[i] = b[i]) /\ c[Len(b) + 1] = t
  BY <1>3, <1>4, AppendProperties
<1>6. \A i \in 0 .. Len(b) : Among(c, i, Brackets!Opening) = Among(b, i, Brackets!Opening)
  <2>1. TAKE i \in 0 .. Len(b)
  <2>2. i \in Nat /\ \A j \in 1 .. i : c[j] = b[j]
    BY <1>5
  <2> QED BY <2>2, AmongSame
<1>7. Among(c, Len(c), Brackets!Opening) = DepthIn(r, Len(r))
  <2>1. Among(c, Len(b) + 1, Brackets!Opening) =
          Among(c, Len(b), Brackets!Opening) + (IF c[Len(b) + 1] \in Brackets!Opening THEN 1 ELSE 0)
    <3>1. PICK n \in Nat : n = Len(b)
      BY <1>3
    <3>2. /\ Among(c, n + 1, Brackets!Opening) =
               Among(c, n, Brackets!Opening) + (IF c[n + 1] \in Brackets!Opening THEN 1 ELSE 0)
          /\ Among(c, n, Brackets!Opening) \in Nat
      BY AmongNumbers
    <3> QED BY <3>1, <3>2
  <2>2. Among(c, Len(b), Brackets!Opening) = DepthIn(s, Len(s))
    BY <1>3, <1>6 DEF Mirrors
  <2> QED BY <1>2, <1>5, <2>1, <2>2
<1>8. ASSUME NEW i \in 1 .. Len(c), c[i] \in Brackets!Opening
      PROVE  \E j : Opener(r, Len(r), Among(c, i, Brackets!Opening), j) /\ r[j] = c[i]
  <2>1. CASE i = Len(c)
    <3>1. Opener(r, Len(r), DepthIn(r, Len(r)), Len(r))
      BY <1>2 DEF Opener
    <3> QED BY <1>2, <1>5, <1>7, <2>1, <3>1
  <2>2. CASE i # Len(c)
    <3>1. i \in 1 .. Len(b) /\ i \in 0 .. Len(b) /\ c[i] = b[i]
      BY <1>3, <1>5, <2>2
    <3>2. Among(c, i, Brackets!Opening) = Among(b, i, Brackets!Opening)
      BY <1>6, <3>1
    <3>3. PICK j : Opener(s, Len(s), Among(b, i, Brackets!Opening), j) /\ s[j] = b[i]
      BY <1>8, <3>1 DEF Mirrors
    <3>4. Among(b, i, Brackets!Opening) # DepthIn(s, Len(s)) + 1
      <4>1. Among(b, i, Brackets!Opening) <= Among(b, Len(b), Brackets!Opening) /\ Among(b, i, Brackets!Opening) \in Nat
        <5>1. i \in Nat /\ Len(b) \in Nat /\ i <= Len(b)
          BY <1>3, <3>1
        <5> QED BY <5>1, AmongGrows, AmongNumbers
      <4> QED BY <1>2, <4>1 DEF Mirrors
    <3>5. Opener(r, Len(s) + 1, Among(b, i, Brackets!Opening), j) /\ r[j] = s[j]
      BY <1>1, <1>2, <3>3, <3>4, OpenerStays
    <3> QED BY <1>2, <3>1, <3>2, <3>3, <3>5
  <2> QED BY <2>1, <2>2
<1> QED BY <1>1, <1>4, <1>5, <1>7, <1>8 DEF Mirrors

(* What a bracket closes: the partner of the properties, as a relation; and   *)
(* that every bracket of a text closes one of its kind.                       *)
Closes(s, j, i) ==
  /\ i \in 1 .. j - 1 /\ s[i] \in Brackets!Opening /\ DepthIn(s, i) = DepthIn(s, j) + 1
  /\ \A k \in i + 1 .. j - 1 : s[k] \in Brackets!Opening => DepthIn(s, k) # DepthIn(s, j) + 1

ClosesItsKind(s, j) == \E i : Closes(s, j, i) /\ Brackets!Closer(s[i]) = s[j]

Matched(s) == \A j \in 1 .. Len(s) : s[j] \in Brackets!Closing => ClosesItsKind(s, j)

LEMMA ClosesStays ==
  ASSUME NEW s \in Seq(Brackets!Tokens), NEW t \in Brackets!Tokens, NEW j \in 1 .. Len(s), NEW i, Closes(s, j, i)
  PROVE  Closes(Append(s, t), j, i) /\ Append(s, t)[i] = s[i] /\ Append(s, t)[j] = s[j]
<1>1. PICK r : r = Append(s, t)
  OBVIOUS
<1>2. /\ Len(s) \in Nat /\ \A k \in 1 .. Len(s) : r[k] = s[k]
      /\ \A k \in 0 .. Len(s) : DepthIn(r, k) = DepthIn(s, k)
  BY <1>1, DepthGrows
<1>3. \A k \in 1 .. j : k \in 1 .. Len(s) /\ k \in 0 .. Len(s) /\ r[k] = s[k] /\ DepthIn(r, k) = DepthIn(s, k)
  <2>1. \A k \in 1 .. j : k \in 1 .. Len(s) /\ k \in 0 .. Len(s)
    BY <1>2
  <2> QED BY <1>2, <2>1
<1>4. i \in 1 .. j /\ j \in 1 .. j /\ \A k \in i + 1 .. j - 1 : k \in 1 .. j
  BY <1>2 DEF Closes
<1> QED BY <1>1, <1>3, <1>4 DEF Closes

LEMMA MatchedStays ==
  ASSUME NEW s \in Seq(Brackets!Tokens), NEW t \in Brackets!Tokens, Matched(s),
         t \in Brackets!Closing => ClosesItsKind(Append(s, t), Len(s) + 1)
  PROVE  Matched(Append(s, t))
<1>1. PICK r : r = Append(s, t)
  OBVIOUS
<1>2. /\ Len(s) \in Nat /\ Len(r) = Len(s) + 1 /\ r[Len(s) + 1] = t
  BY <1>1, DepthGrows
<1>3. ASSUME NEW j \in 1 .. Len(r), r[j] \in Brackets!Closing
      PROVE  ClosesItsKind(r, j)
  <2>1. CASE j = Len(s) + 1
    BY <1>1, <1>2, <1>3, <2>1
  <2>2. CASE j # Len(s) + 1
    <3>1. j \in 1 .. Len(s)
      BY <1>2, <2>2
    <3>2. r[j] = s[j]
      BY <1>1, <3>1, DepthGrows
    <3>3. PICK i : Closes(s, j, i) /\ Brackets!Closer(s[i]) = s[j]
      BY <1>3, <3>1, <3>2 DEF Matched, ClosesItsKind
    <3>4. Closes(r, j, i) /\ r[i] = s[i]
      BY <1>1, <3>1, <3>3, ClosesStays
    <3> QED BY <3>2, <3>3, <3>4 DEF ClosesItsKind
  <2> QED BY <2>1, <2>2
<1> QED BY <1>1, <1>3 DEF Matched

(* A bracket that closes closes the one on top of the stack.                  *)
LEMMA ClosingMirrors ==
  ASSUME NEW s \in Seq(Brackets!Tokens), NEW t \in Brackets!Closing, NEW b, Mirrors(b, s),
         b # <<>>, b[Len(b)] \in Brackets!Opening
  PROVE  /\ Mirrors(SubSeq(b, 1, Len(b) - 1), Append(s, t))
         /\ DepthIn(Append(s, t), Len(s) + 1) = Among(b, Len(b), Brackets!Opening) - 1
         /\ \E i : Closes(Append(s, t), Len(s) + 1, i) /\ Append(s, t)[i] = b[Len(b)]
<1>1. PICK r : r = Append(s, t)
  OBVIOUS
<1>2. t \in Brackets!Tokens /\ t \notin Brackets!Opening
  BY TokenKinds
<1>3. /\ Len(s) \in Nat /\ Len(r) = Len(s) + 1 /\ DepthIn(r, Len(r)) = DepthIn(s, Len(s)) - 1
      /\ r[Len(r)] = t /\ DepthIn(s, Len(s)) \in Int
      /\ \A i \in 1 .. Len(s) : r[i] = s[i]
      /\ \A i \in 0 .. Len(s) : DepthIn(r, i) = DepthIn(s, i)
  BY <1>1, <1>2, DepthGrows
<1>4. b \in Seq(Stackable) /\ Len(b) \in Nat \ {0} /\ Len(b) \in 1 .. Len(b)
  <2>1. b \in Seq(Stackable)
    BY DEF Mirrors
  <2> QED BY <2>1, EmptySeq
<1>5. PICK n \in Nat : Len(b) = n + 1
  <2>1. Len(b) - 1 \in Nat /\ Len(b) = (Len(b) - 1) + 1
    BY <1>4
  <2> QED BY <2>1
<1>6. PICK c : c = SubSeq(b, 1, n)
  OBVIOUS
<1>7. c \in Seq(Stackable) /\ Len(c) = n /\ \A i \in 1 .. n : c[i] = b[i]
  <2>1. \A i \in 1 .. n : b[i] \in Stackable
    BY <1>4, <1>5, ElementOfSeq
  <2>2. /\ c \in Seq(Stackable) /\ Len(c) = (IF 1 <= n THEN n - 1 + 1 ELSE 0)
        /\ \A i \in 1 .. n - 1 + 1 : c[i] = b[1 + i - 1]
    BY <1>5, <1>6, <2>1, SubSeqProperties
  <2> QED BY <1>5, <2>2
<1>8. \A i \in 0 .. n : Among(c, i, Brackets!Opening) = Among(b, i, Brackets!Opening)
  <2>1. TAKE i \in 0 .. n
  <2>2. i \in Nat /\ \A j \in 1 .. i : c[j] = b[j]
    BY <1>7
  <2> QED BY <2>2, AmongSame
<1>9. /\ Among(b, n + 1, Brackets!Opening) = Among(b, n, Brackets!Opening) + 1
      /\ Among(b, n, Brackets!Opening) \in Nat
  BY <1>5, AmongNumbers
<1>10. Among(b, n + 1, Brackets!Opening) = DepthIn(s, Len(s))
  BY <1>5 DEF Mirrors
<1>11. Among(c, Len(c), Brackets!Opening) = DepthIn(r, Len(r))
  BY <1>3, <1>5, <1>7, <1>8, <1>9, <1>10
<1>12. ASSUME NEW i \in 1 .. Len(c), c[i] \in Brackets!Opening
       PROVE  \E j : Opener(r, Len(r), Among(c, i, Brackets!Opening), j) /\ r[j] = c[i]
  <2>1. i \in 1 .. Len(b) /\ c[i] = b[i] /\ Among(c, i, Brackets!Opening) = Among(b, i, Brackets!Opening)
    BY <1>5, <1>7, <1>8
  <2>2. PICK j : Opener(s, Len(s), Among(b, i, Brackets!Opening), j) /\ s[j] = b[i]
    BY <1>12, <2>1 DEF Mirrors
  <2>3. Opener(r, Len(s) + 1, Among(b, i, Brackets!Opening), j) /\ r[j] = s[j]
    BY <1>1, <1>2, <2>2, OpenerStays
  <2> QED BY <1>3, <2>1, <2>2, <2>3
<1>13. \E i : Closes(r, Len(s) + 1, i) /\ r[i] = b[Len(b)]
  <2>1. PICK j : Opener(s, Len(s), DepthIn(s, Len(s)), j) /\ s[j] = b[Len(b)]
    BY <1>4, <1>5, <1>10 DEF Mirrors
  <2>2. /\ j \in 1 .. Len(s) /\ j \in 0 .. Len(s) /\ s[j] \in Brackets!Opening /\ DepthIn(s, j) = DepthIn(s, Len(s))
        /\ \A k \in j + 1 .. Len(s) : s[k] \in Brackets!Opening => DepthIn(s, k) # DepthIn(s, Len(s))
    BY <2>1 DEF Opener
  <2>3. r[j] = s[j] /\ DepthIn(r, j) = DepthIn(r, Len(s) + 1) + 1 /\ j \in 1 .. (Len(s) + 1) - 1
    BY <1>3, <2>2
  <2>4. ASSUME NEW k \in j + 1 .. (Len(s) + 1) - 1, r[k] \in Brackets!Opening
        PROVE  DepthIn(r, k) # DepthIn(r, Len(s) + 1) + 1
    <3>1. k \in j + 1 .. Len(s) /\ k \in 1 .. Len(s) /\ k \in 0 .. Len(s)
      BY <1>3, <2>2
    <3> QED BY <1>3, <2>2, <2>4, <3>1
  <2>5. Closes(r, Len(s) + 1, j)
    BY <2>2, <2>3, <2>4 DEF Closes
  <2> QED BY <2>1, <2>3, <2>5
<1>14. Mirrors(c, r)
  BY <1>7, <1>11, <1>12 DEF Mirrors
<1>15. Len(b) - 1 = n
  BY <1>5
<1>16. DepthIn(r, Len(s) + 1) = Among(b, Len(b), Brackets!Opening) - 1
  BY <1>3, <1>5, <1>10
<1> QED BY <1>1, <1>6, <1>13, <1>14, <1>15, <1>16

(* What is below the angle brackets on top is what the code keeps.            *)
LEMMA DropMirrors ==
  ASSUME NEW s, NEW b, Mirrors(b, s)
  PROVE  \E n \in 0 .. Len(b) :
           /\ Brackets!DropAngles(b, "<") = SubSeq(b, 1, n) /\ Mirrors(SubSeq(b, 1, n), s)
           /\ Len(SubSeq(b, 1, n)) = n /\ \A i \in 1 .. n : SubSeq(b, 1, n)[i] = b[i]
           /\ n > 0 => b[n] \in Brackets!Opening
           /\ (\E i \in 1 .. Len(b) : b[i] \in Brackets!Opening) => n > 0
<1>1. b \in Seq(Stackable) /\ Len(b) \in Nat /\ DOMAIN b = 1 .. Len(b)
  BY LenProperties DEF Mirrors
<1>2. \A i \in 1 .. Len(b) : b[i] # "<" <=> b[i] \in Brackets!Opening
  <2>1. \A i \in 1 .. Len(b) : b[i] \in Stackable
    BY <1>1, ElementOfSeq
  <2> QED BY <2>1, TokenKinds
<1>3. PICK D : D = Brackets!Depths(b, "<")
  OBVIOUS
<1>4. D \in SUBSET (1 .. Len(b)) /\ \A i \in 1 .. Len(b) : i \in D <=> b[i] \in Brackets!Opening
  BY <1>1, <1>2, <1>3 DEF Brackets!Depths
<1>5. CASE D = {}
  <2>1. \A i \in 0 + 1 .. Len(b) : b[i] \notin Brackets!Opening
    BY <1>4, <1>5
  <2>2. 0 \in 0 .. Len(b)
    BY <1>1
  <2>3. Brackets!DropAngles(b, "<") = SubSeq(b, 1, 0)
    <3>1. SubSeq(b, 1, 0) = <<>>
      BY SubSeqEmpty
    <3> QED BY <1>3, <1>5, <3>1 DEF Brackets!DropAngles
  <2>4. Mirrors(SubSeq(b, 1, 0), s) /\ Len(SubSeq(b, 1, 0)) = 0
    BY <2>1, <2>2, PrefixMirrors
  <2> QED BY <1>4, <1>5, <2>2, <2>3, <2>4
<1>6. CASE D # {}
  <2>1. PICK n \in D : n = Brackets!Max(D) /\ \A x \in D : n >= x
    <3>1. \E n \in D : \A x \in D : n >= x
      BY <1>1, <1>4, <1>6, GreatestNumber
    <3> QED BY <3>1 DEF Brackets!Max
  <2>2. n \in 0 .. Len(b) /\ n \in 1 .. Len(b)
    BY <1>1, <1>4
  <2>3. \A i \in n + 1 .. Len(b) : b[i] \notin Brackets!Opening
    <3>1. TAKE i \in n + 1 .. Len(b)
    <3>2. i \in 1 .. Len(b) /\ ~(n >= i)
      BY <2>2
    <3> QED BY <1>4, <2>1, <3>2
  <2>4. Brackets!DropAngles(b, "<") = SubSeq(b, 1, n)
    BY <1>3, <1>6, <2>1 DEF Brackets!DropAngles
  <2>5. Mirrors(SubSeq(b, 1, n), s) /\ Len(SubSeq(b, 1, n)) = n /\ \A i \in 1 .. n : SubSeq(b, 1, n)[i] = b[i]
    BY <2>2, <2>3, PrefixMirrors
  <2>6. b[n] \in Brackets!Opening /\ n > 0
    BY <1>4, <2>2
  <2> QED BY <2>2, <2>4, <2>5, <2>6
<1> QED BY <1>5, <1>6

(* With a bracket at its bottom the stack never loses it.                     *)
LEMMA BottomCounts ==
  ASSUME NEW s, NEW b, Mirrors(b, s), NEW i \in 1 .. Len(b), b[i] \in Brackets!Opening
  PROVE  DepthIn(s, Len(s)) \in Nat /\ DepthIn(s, Len(s)) > 0
<1>1. Len(b) \in Nat
  BY LenProperties DEF Mirrors
<1>2. i \in 0 + 1 .. Len(b) /\ 0 \in Nat /\ 0 <= Len(b)
  BY <1>1
<1>3. Among(b, Len(b), Brackets!Opening) >= Among(b, 0, Brackets!Opening) + 1
  BY <1>1, <1>2, AmongGrows
<1>4. Among(b, Len(b), Brackets!Opening) \in Nat /\ Among(b, 0, Brackets!Opening) = 0
  BY <1>1, AmongNumbers
<1> QED BY <1>3, <1>4 DEF Mirrors

LEMMA DepthsAreNatural ==
  ASSUME NEW s, NEW b, Mirrors(b, s)
  PROVE  DepthIn(s, Len(s)) \in Nat
<1>1. Len(b) \in Nat
  BY LenProperties DEF Mirrors
<1>2. Among(b, Len(b), Brackets!Opening) \in Nat
  BY <1>1, AmongNumbers
<1> QED BY <1>2 DEF Mirrors

-------------------------------------------------------------------------------
(* The search forwards.                                                       *)
Positive(s) == \A i \in 1 .. Len(s) : DepthIn(s, i) > 0

EndsStatement(t) == t = ";"

Balanced(s) == \A i \in 1 .. Len(s) : DepthIn(s, i) >= 0 /\ (EndsStatement(s[i]) => DepthIn(s, i) > 0)

GivenUp(s) ==
  s[Len(s)] \in Brackets!Closing /\ \E i : Closes(s, Len(s), i) /\ Brackets!Closer(s[i]) # s[Len(s)]

HasBracket(b) == \E i \in 1 .. Len(b) : b[i] \in Brackets!Opening

SearchTypes ==
  /\ alphabet \subseteq Brackets!Tokens
  /\ tokens \in Seq(Brackets!Tokens) /\ tokens # <<>> /\ tokens[1] \in Stackable
  /\ phase \in {"forward", "found", "backward", "done", "none"}

Searching ==
  /\ end = 0 /\ brackets # <<>> /\ brackets[1] = tokens[1] /\ Mirrors(brackets, tokens)
  /\ tokens[1] \in Brackets!Opening => Positive(tokens) /\ Matched(tokens)
  /\ tokens[1] = "<" => Balanced(tokens)

EndFound ==
  /\ end = Len(tokens) /\ DepthIn(tokens, end) = 0
  /\ tokens[1] \in Brackets!Opening =>
       /\ \A i \in 1 .. end - 1 : DepthIn(tokens, i) > 0
       /\ Matched(tokens) /\ tokens[end] \in Brackets!Closing
  /\ tokens[1] = "<" => Balanced(tokens)

ForwardInv ==
  /\ SearchTypes
  /\ phase = "forward" => Searching
  /\ phase = "none" => end = 0 /\ (tokens[1] \in Brackets!Opening => GivenUp(tokens))
  /\ phase \in {"found", "backward", "done"} => EndFound

(* What a step forwards does, apart from the stack.                           *)
LEMMA ForwardReads ==
  ASSUME ForwardInv, NEW t \in Brackets!Tokens, NEW next, NEW result \in {"none", "found"},
         Brackets!Forward(t, next, result)
  PROVE  /\ phase = "forward" /\ Searching /\ SearchTypes'
         /\ tokens' = Append(tokens, t) /\ tokens'[1] = tokens[1] /\ brackets' = next
         /\ Len(tokens) \in Nat /\ Len(tokens) >= 1 /\ Len(tokens') = Len(tokens) + 1
         /\ tokens'[Len(tokens')] = t
         /\ phase' = (IF next # <<>> THEN "forward" ELSE result)
         /\ end' = (IF next = <<>> /\ result = "found" THEN Len(tokens') ELSE 0)
         /\ \A i \in 1 .. Len(tokens) : tokens'[i] = tokens[i] /\ DepthIn(tokens', i) = DepthIn(tokens, i)
<1>1. /\ phase = "forward" /\ tokens' = Append(tokens, t) /\ brackets' = next
      /\ phase' = (IF next # <<>> THEN "forward" ELSE result) /\ alphabet' = alphabet
      /\ end' = (IF next = <<>> /\ result = "found" THEN Len(tokens) + 1 ELSE 0)
  BY DEF Brackets!Forward, Brackets!Found
<1>2. SearchTypes /\ Searching
  BY <1>1 DEF ForwardInv
<1>3. tokens \in Seq(Brackets!Tokens) /\ Len(tokens) \in Nat \ {0}
  BY <1>2, EmptySeq DEF SearchTypes
<1>4. /\ tokens' \in Seq(Brackets!Tokens) /\ Len(tokens') = Len(tokens) + 1
      /\ \A i \in 1 .. Len(tokens) : tokens'[i] = tokens[i]
      /\ tokens'[Len(tokens) + 1] = t
      /\ \A i \in 0 .. Len(tokens) : DepthIn(tokens', i) = DepthIn(tokens, i)
  BY <1>1, <1>3, DepthGrows
<1>5. tokens'[1] = tokens[1] /\ \A i \in 1 .. Len(tokens) : i \in 0 .. Len(tokens)
  BY <1>3, <1>4
<1>6. tokens' # <<>>
  BY <1>3, <1>4
<1>7. SearchTypes'
  BY <1>1, <1>2, <1>4, <1>5, <1>6 DEF SearchTypes
<1> QED BY <1>1, <1>2, <1>3, <1>4, <1>5, <1>7

(* The search goes on, ends, or gives up.                                     *)
LEMMA GoesOn ==
  ASSUME ForwardInv, NEW t \in Brackets!Tokens, NEW next, NEW result \in {"none", "found"},
         Brackets!Forward(t, next, result), next # <<>>,
         next[1] = tokens[1], Mirrors(next, Append(tokens, t)),
         t \in Brackets!Closing => ClosesItsKind(Append(tokens, t), Len(tokens) + 1),
         EndsStatement(t) => HasBracket(next)
  PROVE  ForwardInv'
<1>1. PICK r : r = tokens'
  OBVIOUS
<1>2. /\ phase' = "forward" /\ end' = 0 /\ Searching /\ SearchTypes' /\ brackets' = next
      /\ r = Append(tokens, t) /\ r[1] = tokens[1] /\ r[Len(r)] = t
      /\ Len(tokens) \in Nat /\ Len(r) = Len(tokens) + 1
      /\ \A i \in 1 .. Len(tokens) : r[i] = tokens[i] /\ DepthIn(r, i) = DepthIn(tokens, i)
  <2>1. /\ Searching /\ SearchTypes'
        /\ tokens' = Append(tokens, t) /\ tokens'[1] = tokens[1] /\ brackets' = next
        /\ Len(tokens) \in Nat /\ Len(tokens') = Len(tokens) + 1 /\ tokens'[Len(tokens')] = t
        /\ phase' = (IF next # <<>> THEN "forward" ELSE result)
        /\ end' = (IF next = <<>> /\ result = "found" THEN Len(tokens') ELSE 0)
        /\ \A i \in 1 .. Len(tokens) : tokens'[i] = tokens[i] /\ DepthIn(tokens', i) = DepthIn(tokens, i)
    BY ForwardReads
  <2>2. phase' = "forward" /\ end' = 0
    BY <2>1
  <2> QED BY <1>1, <2>1, <2>2
<1>3. Mirrors(next, r) /\ DepthIn(r, Len(r)) \in Nat
  BY <1>2, DepthsAreNatural
<1>7. \A i \in 1 .. Len(r) : i # Len(r) => i \in 1 .. Len(tokens)
  <2>1. Len(tokens) \in Nat /\ Len(r) = Len(tokens) + 1
    BY <1>2
  <2> QED BY <2>1
<1>8. DepthIn(r, Len(r)) >= 0
  <2>1. PICK d : d = DepthIn(r, Len(r))
    OBVIOUS
  <2>2. d \in Nat
    BY <1>3, <2>1
  <2> QED BY <2>1, <2>2
<1>4. ASSUME r[1] \in Brackets!Opening PROVE Positive(r) /\ Matched(r)
  <2>1. tokens \in Seq(Brackets!Tokens) /\ Positive(tokens) /\ Matched(tokens)
    BY <1>2, <1>4 DEF Searching, ForwardInv, SearchTypes
  <2>2. 1 \in 1 .. Len(next)
    <3>1. next \in Seq(Stackable)
      BY <1>3 DEF Mirrors
    <3>2. Len(next) \in Nat \ {0}
      BY <3>1, EmptySeq
    <3> QED BY <3>2
  <2>3. DepthIn(r, Len(r)) > 0
    BY <1>2, <1>3, <1>4, <2>2, BottomCounts
  <2>4. \A i \in 1 .. Len(r) : DepthIn(r, i) > 0
    <3> TAKE i \in 1 .. Len(r)
    <3>1. CASE i = Len(r)
      BY <2>3, <3>1
    <3>2. CASE i # Len(r)
      <4>1. i \in 1 .. Len(tokens)
        BY <1>7, <3>2
      <4> QED BY <1>2, <2>1, <4>1 DEF Positive
    <3> QED BY <3>1, <3>2
  <2>5. Matched(r)
    BY <1>2, <2>1, MatchedStays
  <2> QED BY <2>4, <2>5 DEF Positive
<1>5. ASSUME r[1] = "<" PROVE Balanced(r)
  <2>1. Balanced(tokens)
    BY <1>2, <1>5 DEF Searching
  <2>2. DepthIn(r, Len(r)) >= 0
    BY <1>8
  <2>3. EndsStatement(r[Len(r)]) => DepthIn(r, Len(r)) > 0
    BY <1>2, <1>3, BottomCounts DEF HasBracket
  <2>4. \A i \in 1 .. Len(r) : DepthIn(r, i) >= 0 /\ (EndsStatement(r[i]) => DepthIn(r, i) > 0)
    <3> TAKE i \in 1 .. Len(r)
    <3>1. CASE i = Len(r)
      BY <2>2, <2>3, <3>1
    <3>2. CASE i # Len(r)
      <4>1. i \in 1 .. Len(tokens)
        BY <1>7, <3>2
      <4> QED BY <1>2, <2>1, <4>1 DEF Balanced
    <3> QED BY <3>1, <3>2
  <2> QED BY <2>4 DEF Balanced
<1>6. Searching'
  BY <1>1, <1>2, <1>3, <1>4, <1>5 DEF Searching
<1> QED BY <1>2, <1>6 DEF ForwardInv

LEMMA Ends ==
  ASSUME ForwardInv, NEW t \in Brackets!Tokens, NEW next,
         Brackets!Forward(t, next, "found"), next = <<>>, ~EndsStatement(t),
         DepthIn(Append(tokens, t), Len(tokens) + 1) = 0,
         tokens[1] \in Brackets!Opening =>
           t \in Brackets!Closing /\ ClosesItsKind(Append(tokens, t), Len(tokens) + 1)
  PROVE  ForwardInv'
<1>1. PICK r : r = tokens'
  OBVIOUS
<1>2. /\ phase' = "found" /\ end' = Len(r) /\ Searching /\ SearchTypes'
      /\ r = Append(tokens, t) /\ r[1] = tokens[1] /\ r[Len(r)] = t
      /\ Len(tokens) \in Nat /\ Len(r) = Len(tokens) + 1
      /\ \A i \in 1 .. Len(tokens) : r[i] = tokens[i] /\ DepthIn(r, i) = DepthIn(tokens, i)
  BY <1>1, ForwardReads
<1>3. DepthIn(r, Len(r)) = 0 /\ DepthIn(r, Len(r)) >= 0
  BY <1>2
<1>7. \A i \in 1 .. Len(r) : i # Len(r) => i \in 1 .. Len(tokens)
  <2>1. Len(tokens) \in Nat /\ Len(r) = Len(tokens) + 1
    BY <1>2
  <2> QED BY <2>1
<1>8. \A i \in 1 .. Len(r) - 1 : i \in 1 .. Len(tokens)
  <2>1. Len(tokens) \in Nat /\ Len(r) = Len(tokens) + 1
    BY <1>2
  <2> QED BY <2>1
<1>4. ASSUME r[1] \in Brackets!Opening
      PROVE  (\A i \in 1 .. Len(r) - 1 : DepthIn(r, i) > 0) /\ Matched(r) /\ r[Len(r)] \in Brackets!Closing
  <2>1. tokens \in Seq(Brackets!Tokens) /\ Positive(tokens) /\ Matched(tokens)
    BY <1>2, <1>4 DEF Searching, ForwardInv, SearchTypes
  <2>2. \A i \in 1 .. Len(r) - 1 : DepthIn(r, i) > 0
    <3> TAKE i \in 1 .. Len(r) - 1
    <3>1. i \in 1 .. Len(tokens)
      BY <1>8
    <3> QED BY <1>2, <2>1, <3>1 DEF Positive
  <2>3. Matched(r)
    BY <1>2, <1>4, <2>1, MatchedStays
  <2> QED BY <1>2, <1>4, <2>2, <2>3
<1>5. ASSUME r[1] = "<" PROVE Balanced(r)
  <2>1. Balanced(tokens)
    BY <1>2, <1>5 DEF Searching
  <2>2. \A i \in 1 .. Len(r) : DepthIn(r, i) >= 0 /\ (EndsStatement(r[i]) => DepthIn(r, i) > 0)
    <3> TAKE i \in 1 .. Len(r)
    <3>1. CASE i = Len(r)
      <4>1. ~EndsStatement(r[i]) /\ DepthIn(r, i) >= 0
        BY <1>2, <1>3, <3>1
      <4> QED BY <4>1
    <3>2. CASE i # Len(r)
      <4>1. i \in 1 .. Len(tokens)
        BY <1>7, <3>2
      <4> QED BY <1>2, <2>1, <4>1 DEF Balanced
    <3> QED BY <3>1, <3>2
  <2> QED BY <2>2 DEF Balanced
<1>6. EndFound'
  BY <1>1, <1>2, <1>3, <1>4, <1>5 DEF EndFound
<1> QED BY <1>2, <1>6 DEF ForwardInv

LEMMA SearchGivesUp ==
  ASSUME ForwardInv, NEW t \in Brackets!Tokens, NEW next,
         Brackets!Forward(t, next, "none"), next = <<>>,
         tokens[1] \in Brackets!Opening => GivenUp(Append(tokens, t))
  PROVE  ForwardInv'
<1>1. /\ phase' = "none" /\ end' = 0 /\ SearchTypes' /\ tokens' = Append(tokens, t) /\ tokens'[1] = tokens[1]
  BY ForwardReads
<1>2. tokens'[1] \in Brackets!Opening => GivenUp(tokens')
  BY <1>1
<1> QED BY <1>1, <1>2 DEF ForwardInv

(* What the tokens are, without the one that ends a statement.                *)
LEMMA TokenFacts ==
  /\ \A t \in Brackets!Opening : t \notin Brackets!Closing /\ ~EndsStatement(t) /\ t \in Brackets!Tokens /\ t # "<"
  /\ \A t \in Brackets!Closing : ~EndsStatement(t) /\ t \in Brackets!Tokens /\ t # "<" /\ t \notin Brackets!Opening
  /\ \A t \in {"<", ">", "="} \cup Brackets!Others :
       t \in Brackets!Tokens /\ ~EndsStatement(t) /\ t \notin Brackets!Opening /\ t \notin Brackets!Closing
  /\ \A t \in Brackets!Tokens : EndsStatement(t) => t \notin Brackets!Opening /\ t \notin Brackets!Closing
BY DEF Brackets!Opening, Brackets!Closing, Brackets!Tokens, Brackets!Others, EndsStatement

LEMMA EndOfStatement == ";" \in Brackets!Tokens /\ EndsStatement(";")
BY DEF Brackets!Tokens, EndsStatement

LEMMA StackLength ==
  ASSUME NEW s, NEW b, Mirrors(b, s), b # <<>>
  PROVE  Len(b) \in Nat /\ Len(b) > 0 /\ Len(b) - 1 \in 0 .. Len(b) /\ b \in Seq(Stackable)
<1>1. b \in Seq(Stackable)
  BY DEF Mirrors
<1>2. Len(b) \in Nat \ {0}
  BY <1>1, EmptySeq
<1> QED BY <1>1, <1>2

(* An angle bracket on top is taken away.                                     *)
LEMMA PopMirrors ==
  ASSUME NEW s, NEW b, Mirrors(b, s), b # <<>>, b[Len(b)] = "<"
  PROVE  /\ Mirrors(Brackets!Front(b), s) /\ Len(Brackets!Front(b)) = Len(b) - 1
         /\ \A i \in 1 .. Len(b) - 1 : Brackets!Front(b)[i] = b[i]
<1>1. Len(b) \in Nat /\ Len(b) > 0 /\ Len(b) - 1 \in 0 .. Len(b)
  BY StackLength
<1>2. PICK n : n = Len(b) - 1
  OBVIOUS
<1>3. n \in 0 .. Len(b) /\ \A i \in n + 1 .. Len(b) : i = Len(b)
  BY <1>1, <1>2
<1>4. \A i \in n + 1 .. Len(b) : b[i] \notin Brackets!Opening
  BY <1>3, TokenFacts
<1>5. Mirrors(SubSeq(b, 1, n), s) /\ Len(SubSeq(b, 1, n)) = n /\ \A i \in 1 .. n : SubSeq(b, 1, n)[i] = b[i]
  BY <1>3, <1>4, PrefixMirrors
<1> QED BY <1>2, <1>5 DEF Brackets!Front

(* A token that is no bracket, with a stack for the text before it.           *)
LEMMA NeutralKeeps ==
  ASSUME ForwardInv, NEW t \in Brackets!Tokens, NEW next, NEW result \in {"none", "found"},
         Brackets!Forward(t, next, result),
         t \notin Brackets!Opening, t \notin Brackets!Closing, ~EndsStatement(t),
         Mirrors(next, tokens), next # <<>> => next[1] = tokens[1],
         next = <<>> => tokens[1] = "<"
  PROVE  ForwardInv'
<1>1. Searching /\ tokens \in Seq(Brackets!Tokens) /\ SearchTypes
  BY ForwardReads DEF ForwardInv, SearchTypes
<1>2. Mirrors(next, Append(tokens, t))
  BY <1>1, NeutralMirrors
<1>3. CASE next # <<>>
  BY <1>2, <1>3, GoesOn
<1>4. CASE next = <<>>
  <2>1. tokens[1] \notin Brackets!Opening
    BY <1>4, TokenFacts
  <2>2. CASE result = "none"
    <3>1. Brackets!Forward(t, next, "none")
      BY <2>2
    <3> QED BY <1>4, <2>1, <3>1, SearchGivesUp
  <2>3. CASE result = "found"
    <3>1. Brackets!Forward(t, next, "found")
      BY <2>3
    <3>2. DepthIn(tokens, Len(tokens)) = 0
      <4>1. Len(next) = 0 /\ Among(next, 0, Brackets!Opening) = 0
        BY <1>4, AmongNumbers
      <4> QED BY <4>1 DEF Mirrors
    <3>3. DepthIn(Append(tokens, t), Len(tokens) + 1) = 0
      BY <1>1, <3>2, DepthGrows
    <3> QED BY <1>4, <2>1, <3>1, <3>3, Ends
  <2> QED BY <2>2, <2>3
<1> QED BY <1>3, <1>4

LEMMA SearchingFacts ==
  ASSUME ForwardInv, phase = "forward"
  PROVE  /\ Searching /\ SearchTypes /\ Mirrors(brackets, tokens) /\ brackets # <<>>
         /\ brackets[1] = tokens[1] /\ tokens \in Seq(Brackets!Tokens) /\ tokens # <<>>
         /\ tokens[1] \in Brackets!Opening \/ tokens[1] = "<"
         /\ Len(brackets) \in Nat /\ Len(brackets) > 0
<1>1. Searching /\ SearchTypes
  BY DEF ForwardInv
<1>2. /\ Mirrors(brackets, tokens) /\ brackets # <<>>
      /\ brackets[1] = tokens[1] /\ tokens \in Seq(Brackets!Tokens) /\ tokens # <<>>
      /\ tokens[1] \in Brackets!Opening \/ tokens[1] = "<"
  BY <1>1 DEF Searching, SearchTypes, Stackable
<1> QED BY <1>1, <1>2, StackLength

(* The stack after a ">" or a second "<": without the "<" on top.             *)
LEMMA PoppedKeeps ==
  ASSUME ForwardInv, phase = "forward", brackets[Len(brackets)] = "<"
  PROVE  LET b == Brackets!Front(brackets)
         IN  Mirrors(b, tokens) /\ (b # <<>> => b[1] = tokens[1]) /\ (b = <<>> => tokens[1] = "<")
<1>1. PICK b : b = Brackets!Front(brackets)
  OBVIOUS
<1>2. /\ Mirrors(b, tokens) /\ Len(b) = Len(brackets) - 1 /\ \A i \in 1 .. Len(brackets) - 1 : b[i] = brackets[i]
  BY <1>1, SearchingFacts, PopMirrors
<1>3. ASSUME b # <<>> PROVE b[1] = tokens[1]
  <2>1. Len(b) \in Nat /\ Len(b) > 0
    BY <1>2, <1>3, StackLength
  <2>2. 1 \in 1 .. Len(brackets) - 1
    BY <1>2, <2>1
  <2> QED BY <1>2, <2>2, SearchingFacts
<1>4. ASSUME b = <<>> PROVE tokens[1] = "<"
  <2>1. Len(b) = 0
    BY <1>4
  <2>2. Len(brackets) = 1
    BY <1>2, <2>1, SearchingFacts
  <2> QED BY <2>2, SearchingFacts
<1> QED BY <1>1, <1>2, <1>3, <1>4

LEMMA ReadLessKeeps ==
  ASSUME ForwardInv, Brackets!ReadLess
  PROVE  ForwardInv'
<1>1. PICK next : /\ next = (IF Len(tokens) = 1 /\ Brackets!Shift THEN <<>> ELSE Brackets!AfterLess(Len(tokens) + 1))
                  /\ Brackets!Forward("<", next, "none")
  BY DEF Brackets!ReadLess
<1>2. phase = "forward" /\ "<" \in Brackets!Tokens /\ "<" \notin Brackets!Opening /\ "<" \notin Brackets!Closing
      /\ ~EndsStatement("<")
  BY <1>1, TokenFacts DEF Brackets!Forward
<1>3. Mirrors(brackets, tokens) /\ brackets # <<>> /\ brackets[1] = tokens[1] /\ Len(brackets) \in Nat /\ Len(brackets) > 0
  BY <1>2, SearchingFacts
<1>4. CASE Len(tokens) = 1 /\ Brackets!Shift
  <2>1. tokens[1] = "<" /\ next = <<>>
    BY <1>1, <1>4 DEF Brackets!Shift, Brackets!Before
  <2>2. tokens[1] \notin Brackets!Opening
    BY <2>1, TokenFacts
  <2> QED BY <1>1, <1>2, <2>1, <2>2, SearchGivesUp
<1>5. CASE ~(Len(tokens) = 1 /\ Brackets!Shift)
  <2>1. next = Brackets!AfterLess(Len(tokens) + 1)
    BY <1>1, <1>5
  <2>2. \/ next = brackets
        \/ next = Append(brackets, "<")
        \/ next = Brackets!Front(brackets) /\ Brackets!Top(brackets, "<")
    BY <2>1 DEF Brackets!AfterLess
  <2>3. Mirrors(next, tokens) /\ (next # <<>> => next[1] = tokens[1]) /\ (next = <<>> => tokens[1] = "<")
    <3>1. CASE next = brackets
      BY <1>3, <3>1
    <3>2. CASE next = Append(brackets, "<")
      <4>1. Mirrors(next, tokens)
        BY <1>3, <3>2, PushMirrors
      <4>2. brackets \in Seq(Stackable) /\ "<" \in Stackable /\ 1 \in 1 .. Len(brackets)
        BY <1>3, StackLength DEF Stackable
      <4>3. next[1] = brackets[1] /\ Len(next) = Len(brackets) + 1
        BY <3>2, <4>2, AppendProperties
      <4>4. next # <<>>
        BY <1>3, <4>3
      <4> QED BY <1>3, <4>1, <4>3, <4>4
    <3>3. CASE next = Brackets!Front(brackets) /\ Brackets!Top(brackets, "<")
      <4>1. brackets[Len(brackets)] = "<"
        BY <3>3 DEF Brackets!Top, Brackets!Last
      <4> QED BY <1>2, <3>3, <4>1, PoppedKeeps
    <3> QED BY <2>2, <3>1, <3>2, <3>3
  <2> QED BY <1>1, <1>2, <2>3, NeutralKeeps
<1> QED BY <1>4, <1>5

LEMMA ReadEqualKeeps ==
  ASSUME ForwardInv, Brackets!ReadEqual
  PROVE  ForwardInv'
<1>1. PICK next : /\ next = (IF tokens = <<"<">> THEN <<>> ELSE brackets)
                  /\ Brackets!Forward("=", next, "none")
  BY DEF Brackets!ReadEqual
<1>2. phase = "forward" /\ "=" \in Brackets!Tokens /\ "=" \notin Brackets!Opening /\ "=" \notin Brackets!Closing
      /\ ~EndsStatement("=")
  BY <1>1, TokenFacts DEF Brackets!Forward
<1>3. Mirrors(brackets, tokens) /\ brackets # <<>> /\ brackets[1] = tokens[1]
  BY <1>2, SearchingFacts
<1>4. CASE tokens = <<"<">>
  <2>1. tokens[1] = "<" /\ next = <<>>
    BY <1>1, <1>4
  <2>2. tokens[1] \notin Brackets!Opening
    BY <2>1, TokenFacts
  <2> QED BY <1>1, <1>2, <2>1, <2>2, SearchGivesUp
<1>5. CASE tokens # <<"<">>
  BY <1>1, <1>2, <1>3, <1>5, NeutralKeeps
<1> QED BY <1>4, <1>5

LEMMA ReadGreaterKeeps ==
  ASSUME ForwardInv, Brackets!ReadGreater
  PROVE  ForwardInv'
<1>1. PICK next : /\ next = (IF ~Brackets!IgnoredGreater(Len(tokens) + 1) /\ Brackets!Top(brackets, "<")
                             THEN Brackets!Front(brackets) ELSE brackets)
                  /\ Brackets!Forward(">", next, "found")
  BY DEF Brackets!ReadGreater, Brackets!Found
<1>2. phase = "forward" /\ ">" \in Brackets!Tokens /\ ">" \notin Brackets!Opening /\ ">" \notin Brackets!Closing
      /\ ~EndsStatement(">")
  BY <1>1, TokenFacts DEF Brackets!Forward
<1>3. Mirrors(brackets, tokens) /\ brackets # <<>> /\ brackets[1] = tokens[1]
  BY <1>2, SearchingFacts
<1>4. Mirrors(next, tokens) /\ (next # <<>> => next[1] = tokens[1]) /\ (next = <<>> => tokens[1] = "<")
  <2>1. CASE next = brackets
    BY <1>3, <2>1
  <2>2. CASE next = Brackets!Front(brackets) /\ Brackets!Top(brackets, "<")
    <3>1. brackets[Len(brackets)] = "<"
      BY <2>2 DEF Brackets!Top, Brackets!Last
    <3> QED BY <1>2, <2>2, <3>1, PoppedKeeps
  <2> QED BY <1>1, <2>1, <2>2
<1> QED BY <1>1, <1>2, <1>4, NeutralKeeps

LEMMA ReadOtherKeeps ==
  ASSUME ForwardInv, NEW t \in Brackets!Others, Brackets!ReadOther(t)
  PROVE  ForwardInv'
<1>1. Brackets!Forward(t, brackets, "none") /\ phase = "forward"
  BY DEF Brackets!ReadOther, Brackets!Forward
<1>2. t \in Brackets!Tokens /\ t \notin Brackets!Opening /\ t \notin Brackets!Closing /\ ~EndsStatement(t)
  BY TokenFacts
<1>3. Mirrors(brackets, tokens) /\ brackets # <<>> /\ brackets[1] = tokens[1]
  BY <1>1, SearchingFacts
<1> QED BY <1>1, <1>2, <1>3, NeutralKeeps

LEMMA ReadOpeningKeeps ==
  ASSUME ForwardInv, NEW t \in Brackets!Opening, Brackets!ReadOpening(t)
  PROVE  ForwardInv'
<1>1. PICK next : next = Append(brackets, t) /\ Brackets!Forward(t, next, "none")
  BY DEF Brackets!ReadOpening
<1>2. phase = "forward" /\ t \in Brackets!Tokens /\ t \notin Brackets!Closing /\ ~EndsStatement(t)
  BY <1>1, TokenFacts DEF Brackets!Forward
<1>3. /\ Mirrors(brackets, tokens) /\ brackets # <<>> /\ brackets[1] = tokens[1]
      /\ tokens \in Seq(Brackets!Tokens) /\ Len(brackets) \in Nat /\ Len(brackets) > 0
  BY <1>2, SearchingFacts
<1>4. Mirrors(next, Append(tokens, t))
  BY <1>1, <1>3, OpeningMirrors
<1>5. next[1] = tokens[1] /\ next # <<>>
  <2>1. brackets \in Seq(Stackable) /\ t \in Stackable /\ 1 \in 1 .. Len(brackets)
    BY <1>3, StackLength DEF Stackable
  <2>2. next[1] = brackets[1] /\ Len(next) = Len(brackets) + 1
    BY <1>1, <2>1, AppendProperties
  <2>3. next # <<>>
    BY <1>3, <2>2
  <2> QED BY <1>3, <2>2, <2>3
<1> QED BY <1>1, <1>2, <1>4, <1>5, GoesOn

(* What DropAngles leaves of the stack while the search goes on.              *)
LEMMA DroppedStack ==
  ASSUME ForwardInv, phase = "forward"
  PROVE  \E n \in 0 .. Len(brackets) : \E dropped :
           /\ dropped = Brackets!DropAngles(brackets, "<") /\ Mirrors(dropped, tokens) /\ Len(dropped) = n
           /\ dropped = <<>> <=> n = 0
           /\ n > 0 => dropped[n] \in Brackets!Opening /\ dropped[1] = tokens[1]
           /\ tokens[1] \in Brackets!Opening => n > 0
<1>1. /\ Mirrors(brackets, tokens) /\ brackets[1] = tokens[1] /\ Len(brackets) \in Nat /\ Len(brackets) > 0
  BY SearchingFacts
<1>2. PICK n \in 0 .. Len(brackets) :
           /\ Brackets!DropAngles(brackets, "<") = SubSeq(brackets, 1, n) /\ Mirrors(SubSeq(brackets, 1, n), tokens)
           /\ Len(SubSeq(brackets, 1, n)) = n /\ \A i \in 1 .. n : SubSeq(brackets, 1, n)[i] = brackets[i]
           /\ n > 0 => brackets[n] \in Brackets!Opening
           /\ (\E i \in 1 .. Len(brackets) : brackets[i] \in Brackets!Opening) => n > 0
  BY <1>1, DropMirrors
<1>3. PICK dropped : dropped = SubSeq(brackets, 1, n)
  OBVIOUS
<1>4. dropped \in Seq(Stackable) /\ Len(dropped) = n /\ \A i \in 1 .. n : dropped[i] = brackets[i]
  BY <1>2, <1>3 DEF Mirrors
<1>5. dropped = <<>> <=> n = 0
  BY <1>4, EmptySeq
<1>6. ASSUME n > 0 PROVE dropped[n] \in Brackets!Opening /\ dropped[1] = tokens[1]
  <2>1. 1 \in 1 .. n /\ n \in 1 .. n
    BY <1>6
  <2> QED BY <1>1, <1>2, <1>4, <1>6, <2>1
<1>7. ASSUME tokens[1] \in Brackets!Opening PROVE n > 0
  <2>1. 1 \in 1 .. Len(brackets)
    BY <1>1
  <2> QED BY <1>1, <1>2, <1>7, <2>1
<1> QED BY <1>2, <1>3, <1>4, <1>5, <1>6, <1>7

LEMMA ReadSemicolonKeeps ==
  ASSUME ForwardInv, NEW t \in Brackets!Tokens, EndsStatement(t),
         Brackets!Forward(t, Brackets!DropAngles(brackets, "<"), "none")
  PROVE  ForwardInv'
<1>1. phase = "forward" /\ t \notin Brackets!Opening /\ t \notin Brackets!Closing
  BY TokenFacts DEF Brackets!Forward
<1>2. PICK n, dropped :
           /\ n \in 0 .. Len(brackets)
           /\ dropped = Brackets!DropAngles(brackets, "<") /\ Mirrors(dropped, tokens) /\ Len(dropped) = n
           /\ dropped = <<>> <=> n = 0
           /\ n > 0 => dropped[n] \in Brackets!Opening /\ dropped[1] = tokens[1]
           /\ tokens[1] \in Brackets!Opening => n > 0
  BY <1>1, DroppedStack
<1>3. tokens \in Seq(Brackets!Tokens) /\ Brackets!Forward(t, dropped, "none") /\ Len(brackets) \in Nat
  BY <1>1, <1>2, SearchingFacts
<1>4. CASE n = 0
  <2>1. dropped = <<>> /\ tokens[1] \notin Brackets!Opening
    BY <1>2, <1>4
  <2> QED BY <1>3, <2>1, SearchGivesUp
<1>5. CASE n # 0
  <2>1. n > 0 /\ n \in 1 .. Len(dropped)
    BY <1>2, <1>3, <1>5
  <2>2. dropped # <<>> /\ dropped[1] = tokens[1] /\ HasBracket(dropped)
    BY <1>2, <1>5, <2>1 DEF HasBracket
  <2>3. Mirrors(dropped, Append(tokens, t))
    BY <1>1, <1>2, <1>3, NeutralMirrors
  <2> QED BY <1>1, <1>3, <2>2, <2>3, GoesOn
<1> QED BY <1>4, <1>5

LEMMA ReadClosingKeeps ==
  ASSUME ForwardInv, NEW t \in Brackets!Closing, Brackets!ReadClosing(t)
  PROVE  ForwardInv'
<1>1. /\ phase = "forward" /\ t \in Brackets!Tokens /\ t \notin Brackets!Opening /\ ~EndsStatement(t)
  BY TokenFacts DEF Brackets!ReadClosing, Brackets!Forward
<1>2. PICK n, dropped :
           /\ n \in 0 .. Len(brackets)
           /\ dropped = Brackets!DropAngles(brackets, "<") /\ Mirrors(dropped, tokens) /\ Len(dropped) = n
           /\ dropped = <<>> <=> n = 0
           /\ n > 0 => dropped[n] \in Brackets!Opening /\ dropped[1] = tokens[1]
           /\ tokens[1] \in Brackets!Opening => n > 0
  BY <1>1, DroppedStack
<1>3. /\ tokens \in Seq(Brackets!Tokens) /\ Len(brackets) \in Nat /\ n \in Nat
      /\ \/ Brackets!Fits(dropped, t) /\ Brackets!Forward(t, Brackets!Front(dropped), "found")
         \/ ~Brackets!Fits(dropped, t) /\ Brackets!Forward(t, <<>>, "none")
  BY <1>1, <1>2, SearchingFacts DEF Brackets!ReadClosing, Brackets!Found
<1>4. PICK r : r = Append(tokens, t)
  OBVIOUS
<1>5. Len(r) = Len(tokens) + 1 /\ r[Len(tokens) + 1] = t
  BY <1>1, <1>3, <1>4, DepthGrows
<1>6. ASSUME n > 0
      PROVE  /\ Mirrors(Brackets!Front(dropped), r)
             /\ DepthIn(r, Len(tokens) + 1) = Among(dropped, n, Brackets!Opening) - 1
             /\ \E i : Closes(r, Len(tokens) + 1, i) /\ r[i] = dropped[n]
             /\ Len(Brackets!Front(dropped)) = n - 1
             /\ \A i \in 1 .. n - 1 : Brackets!Front(dropped)[i] = dropped[i]
  <2>1. dropped # <<>> /\ dropped[Len(dropped)] \in Brackets!Opening
    BY <1>2, <1>6
  <2>2. /\ Mirrors(SubSeq(dropped, 1, Len(dropped) - 1), r)
        /\ DepthIn(r, Len(tokens) + 1) = Among(dropped, Len(dropped), Brackets!Opening) - 1
        /\ \E i : Closes(r, Len(tokens) + 1, i) /\ r[i] = dropped[Len(dropped)]
    BY <1>2, <1>3, <1>4, <2>1, ClosingMirrors
  <2>3. \A i \in 1 .. n - 1 : dropped[i] \in Stackable
    <3>1. dropped \in Seq(Stackable) /\ \A i \in 1 .. n - 1 : i \in 1 .. Len(dropped)
      BY <1>2, <1>3 DEF Mirrors
    <3> QED BY <3>1, ElementOfSeq
  <2>4. /\ Len(SubSeq(dropped, 1, n - 1)) = (IF 1 <= n - 1 THEN (n - 1) - 1 + 1 ELSE 0)
        /\ \A i \in 1 .. (n - 1) - 1 + 1 : SubSeq(dropped, 1, n - 1)[i] = dropped[1 + i - 1]
    <3>1. n - 1 \in Int
      BY <1>3
    <3> QED BY <2>3, <3>1, SubSeqProperties
  <2>5. Brackets!Front(dropped) = SubSeq(dropped, 1, n - 1)
    BY <1>2 DEF Brackets!Front
  <2>6. Len(Brackets!Front(dropped)) = n - 1 /\ \A i \in 1 .. n - 1 : Brackets!Front(dropped)[i] = dropped[i]
    BY <1>3, <1>6, <2>4, <2>5
  <2> QED BY <1>2, <2>2, <2>5, <2>6
<1>7. CASE ~Brackets!Fits(dropped, t)
  <2>1. Brackets!Forward(t, <<>>, "none")
    BY <1>3, <1>7
  <2>2. ASSUME tokens[1] \in Brackets!Opening PROVE GivenUp(r)
    <3>1. n > 0 /\ dropped # <<>>
      BY <1>2, <1>3, <2>2
    <3>2. Brackets!Closer(dropped[n]) # t
      BY <1>2, <1>7, <3>1 DEF Brackets!Fits, Brackets!Last
    <3>3. \E i : Closes(r, Len(r), i) /\ Brackets!Closer(r[i]) # r[Len(r)]
      BY <1>5, <1>6, <3>1, <3>2
    <3> QED BY <1>5, <3>3 DEF GivenUp
  <2> QED BY <1>1, <1>4, <2>1, <2>2, SearchGivesUp
<1>8. CASE Brackets!Fits(dropped, t)
  <2>1. dropped # <<>> /\ Brackets!Closer(dropped[n]) = t
    BY <1>2, <1>8 DEF Brackets!Fits, Brackets!Last
  <2>2. n > 0
    BY <1>2, <1>3, <2>1
  <2>3. ClosesItsKind(r, Len(tokens) + 1)
    BY <1>5, <1>6, <2>1, <2>2 DEF ClosesItsKind
  <2>4. PICK next : next = Brackets!Front(dropped)
    OBVIOUS
  <2>5. Brackets!Forward(t, next, "found") /\ Mirrors(next, r) /\ Len(next) = n - 1
    BY <1>3, <1>6, <1>8, <2>2, <2>4
  <2>6. CASE n = 1
    <3>1. next = <<>>
      <4>1. next \in Seq(Stackable) /\ Len(next) = 0
        BY <1>3, <2>5, <2>6 DEF Mirrors
      <4> QED BY <4>1, EmptySeq
    <3>2. Among(dropped, 1, Brackets!Opening) = 1
      <4>1. dropped[0 + 1] \in Brackets!Opening
        BY <1>2, <2>2, <2>6
      <4>2. /\ Among(dropped, 0 + 1, Brackets!Opening) =
                 Among(dropped, 0, Brackets!Opening) + (IF dropped[0 + 1] \in Brackets!Opening THEN 1 ELSE 0)
            /\ Among(dropped, 0, Brackets!Opening) = 0
        BY AmongNumbers
      <4> QED BY <4>1, <4>2
    <3>3. DepthIn(r, Len(tokens) + 1) = 0
      BY <1>6, <2>2, <2>6, <3>2
    <3> QED BY <1>1, <1>4, <2>3, <2>5, <3>1, <3>3, Ends
  <2>7. CASE n # 1
    <3>1. 1 \in 1 .. n - 1 /\ Len(next) \in Nat /\ Len(next) > 0
      BY <1>3, <2>2, <2>5, <2>7
    <3>2. next # <<>>
      BY <3>1
    <3>3. next[1] = tokens[1]
      BY <1>2, <1>6, <2>2, <2>4, <3>1
    <3> QED BY <1>1, <1>4, <2>3, <2>5, <3>2, <3>3, GoesOn
  <2> QED BY <2>6, <2>7
<1> QED BY <1>7, <1>8

LEMMA FindEndKeeps == ForwardInv /\ Brackets!FindEnd => ForwardInv'
<1> SUFFICES ASSUME ForwardInv, Brackets!FindEnd PROVE ForwardInv'
  OBVIOUS
<1>1. Brackets!ReadSemicolon => ForwardInv'
  <2>1. ASSUME Brackets!ReadSemicolon
        PROVE  Brackets!Forward(";", Brackets!DropAngles(brackets, "<"), "none")
    BY <2>1, Zenon DEF Brackets!ReadSemicolon, Brackets!DropAtSemicolon
  <2>2. PICK t \in Brackets!Tokens : EndsStatement(t) /\ t = ";"
    BY EndOfStatement, Zenon
  <2>3. ASSUME Brackets!ReadSemicolon
        PROVE  Brackets!Forward(t, Brackets!DropAngles(brackets, "<"), "none")
    BY <2>1, <2>2, <2>3, Zenon
  <2>4. Brackets!Forward(t, Brackets!DropAngles(brackets, "<"), "none") => ForwardInv'
    BY <2>2, ReadSemicolonKeeps, Zenon
  <2> QED BY <2>3, <2>4
<1>2. \/ Brackets!ReadLess \/ Brackets!ReadEqual \/ Brackets!ReadGreater \/ Brackets!ReadSemicolon
      \/ \E t \in Brackets!Opening : Brackets!ReadOpening(t)
      \/ \E t \in Brackets!Closing : Brackets!ReadClosing(t)
      \/ \E t \in Brackets!Others : Brackets!ReadOther(t)
  BY Zenon DEF Brackets!FindEnd
<1> QED
  BY <1>1, <1>2, ReadLessKeeps, ReadEqualKeeps, ReadGreaterKeeps, ReadOpeningKeeps, ReadClosingKeeps,
     ReadOtherKeeps

-------------------------------------------------------------------------------
(* The search backwards.  The first bracket behind p that closes to depth d,  *)
(* and that the stack has the brackets behind p that are closed and not yet   *)
(* opened.                                                                    *)
ClosedAt(s, p, d, q) ==
  /\ q \in p + 1 .. Len(s) /\ s[q] \in Brackets!Closing /\ DepthIn(s, q) = d
  /\ \A k \in p + 1 .. q - 1 : s[k] \in Brackets!Closing => DepthIn(s, k) # d

Unopened == Brackets!Closing \cup {">"}

Reflects(c, s, p) ==
  /\ c \in Seq(Unopened)
  /\ Among(c, Len(c), Brackets!Closing) = DepthIn(s, p)
  /\ \A i \in 1 .. Len(c) : c[i] \in Brackets!Closing =>
       \E q : ClosedAt(s, p, Among(c, i, Brackets!Closing) - 1, q) /\ s[q] = c[i]

LEMMA UnopenedTokens ==
  /\ \A t \in Unopened : t # ">" <=> t \in Brackets!Closing
  /\ ">" \in Unopened /\ ">" \notin Brackets!Closing
BY DEF Brackets!Closing, Unopened

LEMMA DepthSteps ==
  ASSUME NEW s, NEW p \in Nat
  PROVE  /\ DepthIn(s, p) \in Int /\ DepthIn(s, p + 1) \in Int /\ DepthIn(s, 0) = 0
         /\ s[p + 1] \in Brackets!Opening => DepthIn(s, p + 1) = DepthIn(s, p) + 1
         /\ s[p + 1] \in Brackets!Closing => DepthIn(s, p + 1) = DepthIn(s, p) - 1
         /\ s[p + 1] \notin Brackets!Opening /\ s[p + 1] \notin Brackets!Closing =>
              DepthIn(s, p + 1) = DepthIn(s, p)
<1>1. /\ Among(s, p + 1, Brackets!Opening) =
           Among(s, p, Brackets!Opening) + (IF s[p + 1] \in Brackets!Opening THEN 1 ELSE 0)
      /\ Among(s, p, Brackets!Opening) \in Nat /\ Among(s, 0, Brackets!Opening) = 0
  BY AmongNumbers
<1>2. /\ Among(s, p + 1, Brackets!Closing) =
           Among(s, p, Brackets!Closing) + (IF s[p + 1] \in Brackets!Closing THEN 1 ELSE 0)
      /\ Among(s, p, Brackets!Closing) \in Nat /\ Among(s, 0, Brackets!Closing) = 0
  BY AmongNumbers
<1>3. s[p + 1] \in Brackets!Opening => s[p + 1] \notin Brackets!Closing
  BY TokenFacts
<1> QED BY <1>1, <1>2, <1>3 DEF DepthIn

(* The part of the stack below angle brackets.                                *)
LEMMA PrefixReflects ==
  ASSUME NEW s, NEW p, NEW c, Reflects(c, s, p), NEW n \in 0 .. Len(c),
         \A i \in n + 1 .. Len(c) : c[i] \notin Brackets!Closing
  PROVE  Reflects(SubSeq(c, 1, n), s, p) /\ Len(SubSeq(c, 1, n)) = n
         /\ \A i \in 1 .. n : SubSeq(c, 1, n)[i] = c[i]
<1>1. c \in Seq(Unopened) /\ Len(c) \in Nat /\ n \in Nat /\ n <= Len(c)
  BY LenProperties DEF Reflects
<1>2. PICK b : b = SubSeq(c, 1, n)
  OBVIOUS
<1>3. b \in Seq(Unopened) /\ Len(b) = n /\ \A i \in 1 .. n : b[i] = c[i]
  <2>1. \A i \in 1 .. n : c[i] \in Unopened
    BY <1>1, ElementOfSeq
  <2>2. /\ b \in Seq(Unopened) /\ Len(b) = (IF 1 <= n THEN n - 1 + 1 ELSE 0)
        /\ \A i \in 1 .. n - 1 + 1 : b[i] = c[1 + i - 1]
    BY <1>1, <1>2, <2>1, SubSeqProperties
  <2> QED BY <1>1, <2>2
<1>4. \A i \in 0 .. n : Among(b, i, Brackets!Closing) = Among(c, i, Brackets!Closing)
  <2>1. TAKE i \in 0 .. n
  <2>2. i \in Nat /\ \A j \in 1 .. i : b[j] = c[j]
    BY <1>3
  <2> QED BY <2>2, AmongSame
<1>5. Among(c, n, Brackets!Closing) = Among(c, Len(c), Brackets!Closing)
  BY <1>1, AmongGrows
<1>6. ASSUME NEW i \in 1 .. Len(b), b[i] \in Brackets!Closing
      PROVE  \E q : ClosedAt(s, p, Among(b, i, Brackets!Closing) - 1, q) /\ s[q] = b[i]
  <2>1. i \in 1 .. Len(c) /\ b[i] = c[i] /\ Among(b, i, Brackets!Closing) = Among(c, i, Brackets!Closing)
    BY <1>1, <1>3, <1>4
  <2> QED BY <1>6, <2>1 DEF Reflects
<1>7. Among(b, Len(b), Brackets!Closing) = DepthIn(s, p)
  BY <1>1, <1>3, <1>4, <1>5 DEF Reflects
<1> QED BY <1>2, <1>3, <1>6, <1>7 DEF Reflects

LEMMA DropReflects ==
  ASSUME NEW s, NEW p, NEW c, Reflects(c, s, p)
  PROVE  \E n \in 0 .. Len(c) :
           /\ Brackets!DropAngles(c, ">") = SubSeq(c, 1, n) /\ Reflects(SubSeq(c, 1, n), s, p)
           /\ Len(SubSeq(c, 1, n)) = n /\ \A i \in 1 .. n : SubSeq(c, 1, n)[i] = c[i]
           /\ n > 0 => c[n] \in Brackets!Closing
           /\ (\E i \in 1 .. Len(c) : c[i] \in Brackets!Closing) => n > 0
<1>1. c \in Seq(Unopened) /\ Len(c) \in Nat /\ DOMAIN c = 1 .. Len(c)
  BY LenProperties DEF Reflects
<1>2. \A i \in 1 .. Len(c) : c[i] # ">" <=> c[i] \in Brackets!Closing
  <2>1. \A i \in 1 .. Len(c) : c[i] \in Unopened
    BY <1>1, ElementOfSeq
  <2> QED BY <2>1, UnopenedTokens
<1>3. PICK D : D = Brackets!Depths(c, ">")
  OBVIOUS
<1>4. D \in SUBSET (1 .. Len(c)) /\ \A i \in 1 .. Len(c) : i \in D <=> c[i] \in Brackets!Closing
  BY <1>1, <1>2, <1>3 DEF Brackets!Depths
<1>5. CASE D = {}
  <2>1. \A i \in 0 + 1 .. Len(c) : c[i] \notin Brackets!Closing
    BY <1>4, <1>5
  <2>2. 0 \in 0 .. Len(c)
    BY <1>1
  <2>3. Brackets!DropAngles(c, ">") = SubSeq(c, 1, 0)
    <3>1. SubSeq(c, 1, 0) = <<>>
      BY SubSeqEmpty
    <3> QED BY <1>3, <1>5, <3>1 DEF Brackets!DropAngles
  <2>4. Reflects(SubSeq(c, 1, 0), s, p) /\ Len(SubSeq(c, 1, 0)) = 0
    BY <2>1, <2>2, PrefixReflects
  <2> QED BY <1>4, <1>5, <2>2, <2>3, <2>4
<1>6. CASE D # {}
  <2>1. PICK n \in D : n = Brackets!Max(D) /\ \A x \in D : n >= x
    <3>1. \E n \in D : \A x \in D : n >= x
      BY <1>1, <1>4, <1>6, GreatestNumber
    <3> QED BY <3>1 DEF Brackets!Max
  <2>2. n \in 0 .. Len(c) /\ n \in 1 .. Len(c)
    BY <1>1, <1>4
  <2>3. \A i \in n + 1 .. Len(c) : c[i] \notin Brackets!Closing
    <3>1. TAKE i \in n + 1 .. Len(c)
    <3>2. i \in 1 .. Len(c) /\ ~(n >= i)
      BY <2>2
    <3> QED BY <1>4, <2>1, <3>2
  <2>4. Brackets!DropAngles(c, ">") = SubSeq(c, 1, n)
    BY <1>3, <1>6, <2>1 DEF Brackets!DropAngles
  <2>5. Reflects(SubSeq(c, 1, n), s, p) /\ Len(SubSeq(c, 1, n)) = n /\ \A i \in 1 .. n : SubSeq(c, 1, n)[i] = c[i]
    BY <2>2, <2>3, PrefixReflects
  <2>6. c[n] \in Brackets!Closing /\ n > 0
    BY <1>4, <2>2
  <2> QED BY <2>2, <2>4, <2>5, <2>6
<1> QED BY <1>5, <1>6

LEMMA AppendReflects ==
  ASSUME NEW s, NEW p \in Nat, NEW m \in Nat, NEW c, Reflects(c, s, m), NEW t \in Unopened,
         p <= m, m <= Len(s), Len(s) \in Nat,
         \A q, d : ClosedAt(s, m, d, q) /\ d < DepthIn(s, m) => ClosedAt(s, p, d, q),
         t = ">" => DepthIn(s, p) = DepthIn(s, m),
         t # ">" => DepthIn(s, p) = DepthIn(s, m) + 1 /\ \E q : ClosedAt(s, p, DepthIn(s, m), q) /\ s[q] = t
  PROVE  Reflects(Append(c, t), s, p) /\ Append(c, t) # <<>>
         /\ Append(c, t)[1] = IF c = <<>> THEN t ELSE c[1]
<1>1. c \in Seq(Unopened) /\ Len(c) \in Nat
  BY LenProperties DEF Reflects
<1>2. PICK b : b = Append(c, t)
  OBVIOUS
<1>3. b \in Seq(Unopened) /\ Len(b) = Len(c) + 1 /\ (\A i \in 1 .. Len(c) : b[i] = c[i]) /\ b[Len(c) + 1] = t
  BY <1>1, <1>2, AppendProperties
<1>4. \A i \in 0 .. Len(c) : Among(b, i, Brackets!Closing) = Among(c, i, Brackets!Closing)
  <2>1. TAKE i \in 0 .. Len(c)
  <2>2. i \in Nat /\ \A j \in 1 .. i : b[j] = c[j]
    BY <1>3
  <2> QED BY <2>2, AmongSame
<1>5. /\ Among(b, Len(b), Brackets!Closing) =
           Among(c, Len(c), Brackets!Closing) + (IF t \in Brackets!Closing THEN 1 ELSE 0)
      /\ Among(c, Len(c), Brackets!Closing) \in Nat
  <2>1. PICK n \in Nat : n = Len(c)
    BY <1>1
  <2>2. /\ Among(b, n + 1, Brackets!Closing) =
             Among(b, n, Brackets!Closing) + (IF b[n + 1] \in Brackets!Closing THEN 1 ELSE 0)
        /\ Among(b, n, Brackets!Closing) \in Nat
    BY AmongNumbers
  <2> QED BY <1>3, <1>4, <2>1, <2>2
<1>6. Among(b, Len(b), Brackets!Closing) = DepthIn(s, p)
  BY <1>5, UnopenedTokens DEF Reflects
<1>7. ASSUME NEW i \in 1 .. Len(b), b[i] \in Brackets!Closing
      PROVE  \E q : ClosedAt(s, p, Among(b, i, Brackets!Closing) - 1, q) /\ s[q] = b[i]
  <2>1. CASE i = Len(b)
    <3>1. t \in Brackets!Closing /\ t # ">" /\ b[i] = t
      BY <1>3, <1>7, <2>1, UnopenedTokens
    <3>2. Among(b, i, Brackets!Closing) - 1 = DepthIn(s, m)
      BY <1>5, <2>1, <3>1 DEF Reflects
    <3> QED BY <3>1, <3>2
  <2>2. CASE i # Len(b)
    <3>1. i \in 1 .. Len(c) /\ i \in 0 .. Len(c) /\ i \in Nat /\ i <= Len(c)
      BY <1>1, <1>3, <2>2
    <3>2. b[i] = c[i] /\ Among(b, i, Brackets!Closing) = Among(c, i, Brackets!Closing)
      BY <1>3, <1>4, <3>1
    <3>3. PICK q : ClosedAt(s, m, Among(c, i, Brackets!Closing) - 1, q) /\ s[q] = c[i]
      BY <1>7, <3>1, <3>2 DEF Reflects
    <3>4. Among(c, i, Brackets!Closing) - 1 < DepthIn(s, m)
      <4>1. Among(c, i, Brackets!Closing) <= Among(c, Len(c), Brackets!Closing) /\ Among(c, i, Brackets!Closing) \in Nat
        BY <1>1, <3>1, AmongGrows, AmongNumbers
      <4> QED BY <1>5, <4>1 DEF Reflects
    <3>5. ClosedAt(s, p, Among(c, i, Brackets!Closing) - 1, q)
      BY <3>3, <3>4
    <3> QED BY <3>2, <3>3, <3>5
  <2> QED BY <2>1, <2>2
<1>8. b # <<>> /\ b[1] = IF c = <<>> THEN t ELSE c[1]
  <2>1. CASE c = <<>>
    <3>1. Len(c) = 0
      BY <2>1
    <3>2. b[1] = t /\ Len(b) = 1
      BY <1>3, <3>1
    <3>3. b # <<>>
      BY <1>3, <3>2, EmptySeq
    <3> QED BY <2>1, <3>2, <3>3
  <2>2. CASE c # <<>>
    <3>1. Len(c) \in Nat \ {0}
      BY <1>1, <2>2, EmptySeq
    <3>2. 1 \in 1 .. Len(c)
      BY <3>1
    <3> QED BY <1>3, <2>2, <3>1, <3>2
  <2> QED BY <2>1, <2>2
<1> QED BY <1>2, <1>3, <1>6, <1>7, <1>8 DEF Reflects

(* A token in front of the others: none that is a bracket, or one that opens. *)
LEMMA ClosedStays ==
  ASSUME NEW s, NEW p \in Nat, p + 1 <= Len(s), Len(s) \in Nat, NEW d, NEW q,
         ClosedAt(s, p + 1, d, q), s[p + 1] \in Brackets!Closing => DepthIn(s, p + 1) # d
  PROVE  ClosedAt(s, p, d, q)
<1>1. q \in p + 1 .. Len(s) /\ s[q] \in Brackets!Closing /\ DepthIn(s, q) = d
  BY DEF ClosedAt
<1>2. ASSUME NEW k \in p + 1 .. q - 1, s[k] \in Brackets!Closing PROVE DepthIn(s, k) # d
  <2>1. CASE k = p + 1
    BY <1>2, <2>1
  <2>2. CASE k # p + 1
    <3>1. k \in (p + 1) + 1 .. q - 1
      BY <1>1, <2>2
    <3> QED BY <1>2, <3>1 DEF ClosedAt
  <2> QED BY <2>1, <2>2
<1> QED BY <1>1, <1>2 DEF ClosedAt

LEMMA NeutralReflects ==
  ASSUME NEW s, NEW p \in Nat, p + 1 <= Len(s), Len(s) \in Nat, NEW c, Reflects(c, s, p + 1),
         s[p + 1] \notin Brackets!Opening, s[p + 1] \notin Brackets!Closing
  PROVE  Reflects(c, s, p)
<1>1. DepthIn(s, p + 1) = DepthIn(s, p)
  BY DepthSteps
<1>2. ASSUME NEW i \in 1 .. Len(c), c[i] \in Brackets!Closing
      PROVE  \E q : ClosedAt(s, p, Among(c, i, Brackets!Closing) - 1, q) /\ s[q] = c[i]
  <2>1. PICK q : ClosedAt(s, p + 1, Among(c, i, Brackets!Closing) - 1, q) /\ s[q] = c[i]
    BY <1>2 DEF Reflects
  <2>2. ClosedAt(s, p, Among(c, i, Brackets!Closing) - 1, q)
    BY <2>1, ClosedStays
  <2> QED BY <2>1, <2>2
<1> QED BY <1>1, <1>2 DEF Reflects

LEMMA ClosingReflects ==
  ASSUME NEW s, NEW p \in Nat, p + 1 <= Len(s), Len(s) \in Nat, NEW c, Reflects(c, s, p + 1),
         s[p + 1] \in Brackets!Closing
  PROVE  Reflects(Append(c, s[p + 1]), s, p) /\ Append(c, s[p + 1]) # <<>>
         /\ Append(c, s[p + 1])[1] = IF c = <<>> THEN s[p + 1] ELSE c[1]
<1>1. DepthIn(s, p) = DepthIn(s, p + 1) + 1 /\ DepthIn(s, p + 1) \in Int
  BY DepthSteps
<1>2. PICK m \in Nat : m = p + 1
  OBVIOUS
<1>3. PICK t : t = s[p + 1]
  OBVIOUS
<1>4. t \in Unopened /\ t # ">"
  BY <1>3, UnopenedTokens DEF Unopened
<1>5. ClosedAt(s, p, DepthIn(s, m), m)
  BY <1>2 DEF ClosedAt
<1>6. ASSUME NEW q, NEW d, ClosedAt(s, m, d, q), d < DepthIn(s, m) PROVE ClosedAt(s, p, d, q)
  <2>1. d # DepthIn(s, p + 1)
    BY <1>1, <1>2, <1>6
  <2> QED BY <1>2, <1>6, <2>1, ClosedStays
<1>7. p <= m /\ m <= Len(s) /\ Reflects(c, s, m) /\ DepthIn(s, p) = DepthIn(s, m) + 1 /\ s[m] = t
  BY <1>1, <1>2, <1>3
<1>8. Reflects(Append(c, t), s, p) /\ Append(c, t) # <<>>
         /\ Append(c, t)[1] = IF c = <<>> THEN t ELSE c[1]
  BY <1>4, <1>5, <1>6, <1>7, AppendReflects
<1> QED BY <1>3, <1>8

(* The depth falls a bracket at a time.                                       *)
LEMMA Falls ==
  ASSUME NEW s, NEW p \in Nat, NEW n \in Nat, NEW d \in Int, p <= n, DepthIn(s, p) > d, DepthIn(s, n) <= d
  PROVE  \E j \in p + 1 .. n : s[j] \in Brackets!Closing /\ DepthIn(s, j) = d
<1>1. PICK D : D = {j \in Nat : p <= j /\ j <= n /\ DepthIn(s, j) <= d}
  OBVIOUS
<1>2. D \in SUBSET Nat /\ n \in D
  BY <1>1
<1>3. PICK j \in D : \A x \in D : j <= x
  BY <1>2, LeastNumber
<1>4. j \in Nat /\ p <= j /\ j <= n /\ DepthIn(s, j) <= d
  BY <1>1, <1>3
<1>5. j # p
  <2>1. DepthIn(s, p) \in Int
    BY DepthSteps
  <2> QED BY <1>4, <2>1
<1>6. PICK k \in Nat : j = k + 1
  <2>1. j - 1 \in Nat /\ j = (j - 1) + 1
    BY <1>4, <1>5
  <2> QED BY <2>1
<1>7. k \notin D /\ p <= k /\ k <= n
  <2>1. ~(j <= k) /\ p <= k /\ k <= n
    BY <1>4, <1>5, <1>6
  <2> QED BY <1>3, <2>1
<1>8. ~(DepthIn(s, k) <= d)
  BY <1>1, <1>7
<1>9. /\ DepthIn(s, k) \in Int
      /\ s[j] \in Brackets!Opening => DepthIn(s, j) = DepthIn(s, k) + 1
      /\ s[j] \in Brackets!Closing => DepthIn(s, j) = DepthIn(s, k) - 1
      /\ s[j] \notin Brackets!Opening /\ s[j] \notin Brackets!Closing => DepthIn(s, j) = DepthIn(s, k)
  BY <1>6, DepthSteps
<1>10. s[j] \in Brackets!Closing /\ DepthIn(s, j) = d
  BY <1>4, <1>8, <1>9
<1>11. j \in p + 1 .. n
  BY <1>4, <1>5
<1> QED BY <1>10, <1>11

(* What closes behind p to the depth in front of the bracket that opens at p  *)
(* is what closes that one.                                                   *)
LEMMA ClosesTheOpening ==
  ASSUME NEW s, Len(s) \in Nat, NEW p \in Nat, p + 1 <= Len(s), s[p + 1] \in Brackets!Opening,
         NEW q, ClosedAt(s, p + 1, DepthIn(s, p), q), NEW i, Closes(s, q, i)
  PROVE  i = p + 1
<1>1. PICK m \in Nat : m = p + 1
  OBVIOUS
<1>2. PICK d \in Int : d = DepthIn(s, p)
  BY DepthSteps
<1>3. DepthIn(s, m) = d + 1
  BY <1>1, <1>2, DepthSteps
<1>4. /\ q \in m + 1 .. Len(s) /\ DepthIn(s, q) = d
      /\ \A k \in m + 1 .. q - 1 : s[k] \in Brackets!Closing => DepthIn(s, k) # d
  BY <1>1, <1>2 DEF ClosedAt
<1>5. /\ i \in 1 .. q - 1 /\ s[i] \in Brackets!Opening /\ DepthIn(s, i) = d + 1
      /\ \A k \in i + 1 .. q - 1 : s[k] \in Brackets!Opening => DepthIn(s, k) # d + 1
  BY <1>4 DEF Closes
<1>6. CASE i < m
  <2>1. m \in i + 1 .. q - 1
    BY <1>4, <1>5, <1>6
  <2> QED BY <1>1, <1>3, <1>5, <2>1
<1>7. CASE i > m
  <2>1. PICK h \in Nat : i = h + 1 /\ m <= h
    <3>1. i - 1 \in Nat /\ i = (i - 1) + 1 /\ m <= i - 1
      BY <1>5, <1>7
    <3> QED BY <3>1
  <2>2. DepthIn(s, h) = d
    <3>1. /\ s[h + 1] \in Brackets!Opening => DepthIn(s, h + 1) = DepthIn(s, h) + 1
          /\ DepthIn(s, h) \in Int
      BY DepthSteps
    <3> QED BY <1>5, <2>1, <3>1
  <2>3. DepthIn(s, m) > d /\ DepthIn(s, h) <= d
    BY <1>3, <2>2
  <2>4. PICK j \in m + 1 .. h : s[j] \in Brackets!Closing /\ DepthIn(s, j) = d
    BY <2>1, <2>3, Falls
  <2>5. j \in m + 1 .. q - 1
    BY <1>4, <1>5, <2>1, <2>4
  <2> QED BY <1>4, <2>4, <2>5
<1> QED BY <1>1, <1>5, <1>6, <1>7

LEMMA OpeningReflects ==
  ASSUME NEW s, Len(s) \in Nat, NEW p \in Nat, p + 1 <= Len(s), s[p + 1] \in Brackets!Opening, Matched(s),
         NEW c, Reflects(c, s, p + 1), c # <<>>, c[Len(c)] \in Brackets!Closing
  PROVE  /\ Brackets!Closer(s[p + 1]) = c[Len(c)]
         /\ Reflects(SubSeq(c, 1, Len(c) - 1), s, p)
         /\ Len(SubSeq(c, 1, Len(c) - 1)) = Len(c) - 1
         /\ \A i \in 1 .. Len(c) - 1 : SubSeq(c, 1, Len(c) - 1)[i] = c[i]
<1>1. c \in Seq(Unopened) /\ Len(c) \in Nat \ {0} /\ Len(c) \in 1 .. Len(c)
  <2>1. c \in Seq(Unopened)
    BY DEF Reflects
  <2> QED BY <2>1, EmptySeq
<1>2. PICK n \in Nat : Len(c) = n + 1
  <2>1. Len(c) - 1 \in Nat /\ Len(c) = (Len(c) - 1) + 1
    BY <1>1
  <2> QED BY <2>1
<1>3. PICK b : b = SubSeq(c, 1, n)
  OBVIOUS
<1>4. b \in Seq(Unopened) /\ Len(b) = n /\ \A i \in 1 .. n : b[i] = c[i]
  <2>1. \A i \in 1 .. n : c[i] \in Unopened
    BY <1>1, <1>2, ElementOfSeq
  <2>2. /\ b \in Seq(Unopened) /\ Len(b) = (IF 1 <= n THEN n - 1 + 1 ELSE 0)
        /\ \A i \in 1 .. n - 1 + 1 : b[i] = c[1 + i - 1]
    BY <1>2, <1>3, <2>1, SubSeqProperties
  <2> QED BY <1>2, <2>2
<1>5. \A i \in 0 .. n : Among(b, i, Brackets!Closing) = Among(c, i, Brackets!Closing)
  <2>1. TAKE i \in 0 .. n
  <2>2. i \in Nat /\ \A j \in 1 .. i : b[j] = c[j]
    BY <1>4
  <2> QED BY <2>2, AmongSame
<1>6. /\ Among(c, n + 1, Brackets!Closing) = Among(c, n, Brackets!Closing) + 1
      /\ Among(c, n, Brackets!Closing) \in Nat
  BY <1>2, AmongNumbers
<1>7. /\ Among(c, n + 1, Brackets!Closing) = DepthIn(s, p + 1)
      /\ DepthIn(s, p + 1) = DepthIn(s, p) + 1 /\ DepthIn(s, p) \in Int
  BY <1>2, DepthSteps DEF Reflects
<1>8. Among(b, Len(b), Brackets!Closing) = DepthIn(s, p)
  BY <1>4, <1>5, <1>6, <1>7
<1>9. Brackets!Closer(s[p + 1]) = c[Len(c)]
  <2>1. PICK q : ClosedAt(s, p + 1, Among(c, Len(c), Brackets!Closing) - 1, q) /\ s[q] = c[Len(c)]
    BY <1>1 DEF Reflects
  <2>2. Among(c, Len(c), Brackets!Closing) - 1 = DepthIn(s, p)
    BY <1>2, <1>7
  <2>3. q \in 1 .. Len(s) /\ s[q] \in Brackets!Closing
    BY <2>1 DEF ClosedAt
  <2>4. PICK i : Closes(s, q, i) /\ Brackets!Closer(s[i]) = s[q]
    BY <2>3 DEF Matched, ClosesItsKind
  <2>5. i = p + 1
    BY <2>1, <2>2, <2>4, ClosesTheOpening
  <2> QED BY <2>1, <2>4, <2>5
<1>10. ASSUME NEW i \in 1 .. Len(b), b[i] \in Brackets!Closing
       PROVE  \E q : ClosedAt(s, p, Among(b, i, Brackets!Closing) - 1, q) /\ s[q] = b[i]
  <2>1. i \in 1 .. Len(c) /\ b[i] = c[i] /\ Among(b, i, Brackets!Closing) = Among(c, i, Brackets!Closing)
    BY <1>2, <1>4, <1>5
  <2>2. PICK q : ClosedAt(s, p + 1, Among(b, i, Brackets!Closing) - 1, q) /\ s[q] = b[i]
    BY <1>10, <2>1 DEF Reflects
  <2>3. s[p + 1] \notin Brackets!Closing
    BY TokenFacts
  <2>4. ClosedAt(s, p, Among(b, i, Brackets!Closing) - 1, q)
    BY <2>2, <2>3, ClosedStays
  <2> QED BY <2>2, <2>4
<1>11. Reflects(b, s, p)
  BY <1>4, <1>8, <1>10 DEF Reflects
<1>12. Len(c) - 1 = n
  BY <1>2
<1> QED BY <1>3, <1>4, <1>9, <1>11, <1>12

BackwardInv ==
  tokens[1] \in Brackets!Opening =>
    /\ phase = "backward" =>
         /\ pos \in 1 .. Len(tokens) /\ Reflects(brackets, tokens, pos)
         /\ brackets # <<>> => brackets[1] \in Brackets!Closing
    /\ phase = "done" => begin = 1

Returning == ForwardInv /\ BackwardInv /\ phase = "backward" /\ tokens[1] \in Brackets!Opening

LEMMA ReturningFacts ==
  ASSUME Returning
  PROVE  /\ Len(tokens) \in Nat /\ pos \in Nat /\ 1 <= pos /\ pos <= Len(tokens)
         /\ Matched(tokens) /\ Reflects(brackets, tokens, pos)
         /\ tokens[1] \in Brackets!Opening /\ tokens[1] \notin Brackets!Closing
         /\ tokens[Len(tokens)] \in Brackets!Closing
         /\ brackets # <<>> => brackets[1] \in Brackets!Closing
         /\ \A i \in 1 .. Len(tokens) - 1 : DepthIn(tokens, i) > 0
         /\ pos < Len(tokens) =>
              /\ brackets # <<>> /\ Len(brackets) \in Nat /\ 1 \in 1 .. Len(brackets)
              /\ brackets[1] \in Brackets!Closing
<1>1. SearchTypes /\ EndFound /\ tokens[1] \in Brackets!Opening
  BY DEF Returning, ForwardInv
<1>2. /\ Len(tokens) \in Nat /\ Matched(tokens) /\ tokens[Len(tokens)] \in Brackets!Closing
      /\ \A i \in 1 .. Len(tokens) - 1 : DepthIn(tokens, i) > 0
  BY <1>1, LenProperties DEF SearchTypes, EndFound
<1>3. /\ pos \in 1 .. Len(tokens) /\ Reflects(brackets, tokens, pos)
      /\ brackets # <<>> => brackets[1] \in Brackets!Closing
  BY DEF Returning, BackwardInv
<1>4. brackets \in Seq(Unopened) /\ Len(brackets) \in Nat
  BY <1>3, LenProperties DEF Reflects
<1>5. ASSUME pos < Len(tokens) PROVE brackets # <<>> /\ 1 \in 1 .. Len(brackets)
  <2>1. DepthIn(tokens, pos) > 0
    <3>1. pos \in 1 .. Len(tokens) - 1
      BY <1>2, <1>3, <1>5
    <3> QED BY <1>2, <3>1
  <2>2. Len(brackets) # 0
    <3>1. ASSUME Len(brackets) = 0 PROVE FALSE
      <4>1. Among(brackets, 0, Brackets!Closing) = 0
        BY AmongNumbers
      <4>2. DepthIn(tokens, pos) = 0
        BY <1>3, <3>1, <4>1 DEF Reflects
      <4> QED BY <2>1, <4>2
    <3> QED BY <3>1
  <2>3. brackets # <<>>
    BY <1>4, <2>2, EmptySeq
  <2> QED BY <1>4, <2>2, <2>3
<1>6. tokens[1] \notin Brackets!Closing
  BY <1>1, TokenFacts
<1> QED BY <1>1, <1>2, <1>3, <1>4, <1>5, <1>6

LEMMA GoesBack ==
  ASSUME Returning, NEW next, NEW by, Brackets!Backward(next, by), pos - by \in 1 .. Len(tokens),
         Reflects(next, tokens, pos - by), next # <<>> => next[1] \in Brackets!Closing
  PROVE  BackwardInv'
<1>1. brackets' = next /\ pos' = pos - by /\ tokens' = tokens /\ phase' = "backward"
  BY DEF Brackets!Backward, Returning
<1> QED BY <1>1 DEF BackwardInv

LEMMA Arrives ==
  ASSUME Returning, NEW at, Brackets!Stop(at), at = 1
  PROVE  BackwardInv'
<1>1. phase' = "done" /\ begin' = 1
  BY DEF Brackets!Stop
<1> QED BY <1>1 DEF BackwardInv

(* One token that is no bracket, or two of them, are passed.                  *)
LEMMA PassesOne ==
  ASSUME Returning, tokens[pos] \notin Brackets!Opening, tokens[pos] \notin Brackets!Closing,
         NEW next, Brackets!Backward(next, 1), Reflects(next, tokens, pos),
         next # <<>> => next[1] \in Brackets!Closing
  PROVE  BackwardInv'
<1>1. Len(tokens) \in Nat /\ pos \in Nat /\ 1 <= pos /\ pos <= Len(tokens) /\ tokens[1] \in Brackets!Opening
  BY ReturningFacts
<1>2. pos # 1
  BY <1>1
<1>3. PICK p \in Nat : pos = p + 1 /\ p = pos - 1 /\ p >= 1
  <2>1. pos - 1 \in Nat /\ pos = (pos - 1) + 1 /\ pos - 1 >= 1
    BY <1>1, <1>2
  <2> QED BY <2>1
<1>4. Reflects(next, tokens, p)
  BY <1>1, <1>3, NeutralReflects
<1>5. pos - 1 \in 1 .. Len(tokens) /\ Reflects(next, tokens, pos - 1)
  BY <1>1, <1>3, <1>4
<1> QED BY <1>5, GoesBack

LEMMA PassesTwo ==
  ASSUME Returning, tokens[pos] \notin Brackets!Opening, tokens[pos] \notin Brackets!Closing, pos > 1,
         tokens[pos - 1] \notin Brackets!Opening, tokens[pos - 1] \notin Brackets!Closing,
         Brackets!Backward(brackets, 2)
  PROVE  BackwardInv'
<1>1. /\ Len(tokens) \in Nat /\ pos \in Nat /\ pos <= Len(tokens) /\ tokens[1] \in Brackets!Opening
      /\ Reflects(brackets, tokens, pos) /\ (brackets # <<>> => brackets[1] \in Brackets!Closing)
  BY ReturningFacts
<1>2. pos - 1 # 1
  BY <1>1
<1>3. PICK p \in Nat : pos = (p + 1) + 1 /\ pos - 1 = p + 1 /\ p = pos - 2 /\ p >= 1
  <2>1. pos - 2 \in Nat /\ pos = ((pos - 2) + 1) + 1 /\ pos - 1 = (pos - 2) + 1 /\ pos - 2 >= 1
    BY <1>1, <1>2
  <2> QED BY <2>1
<1>4. Reflects(brackets, tokens, p + 1)
  <2>1. PICK q \in Nat : q = p + 1 /\ pos = q + 1
    BY <1>3
  <2>2. Reflects(brackets, tokens, q + 1) /\ q + 1 <= Len(tokens)
        /\ tokens[q + 1] \notin Brackets!Opening /\ tokens[q + 1] \notin Brackets!Closing
    BY <1>1, <2>1
  <2>3. Reflects(brackets, tokens, q)
    BY <1>1, <2>2, NeutralReflects
  <2> QED BY <2>1, <2>3
<1>5. Reflects(brackets, tokens, p)
  <2>1. tokens[p + 1] \notin Brackets!Opening /\ tokens[p + 1] \notin Brackets!Closing /\ p + 1 <= Len(tokens)
    BY <1>1, <1>3
  <2> QED BY <1>1, <1>4, <2>1, NeutralReflects
<1>6. pos - 2 \in 1 .. Len(tokens) /\ Reflects(brackets, tokens, pos - 2)
  BY <1>1, <1>3, <1>5
<1> QED BY <1>1, <1>6, GoesBack

(* Each kind of token.                                                        *)
LEMMA OperatorIsNeutral ==
  ASSUME pos \in Nat, Brackets!OperatorBefore(pos)
  PROVE  pos > 1 /\ tokens[pos - 1] \in {"op", " "}
<1>1. PICK j \in 1 .. pos - 1 : tokens[j] = "op" /\ \A k \in j + 1 .. pos - 1 : tokens[k] = " "
  BY DEF Brackets!OperatorBefore
<1>2. pos > 1 /\ (pos - 1 = j \/ pos - 1 \in j + 1 .. pos - 1)
  <2>1. j \in Int /\ 1 <= j /\ j <= pos - 1
    OBVIOUS
  <2> QED BY <2>1
<1> QED BY <1>1, <1>2

LEMMA NeutralTokens ==
  \A t \in {"<", ">", "=", "-", "op", " ", "x", "eol"} : t \notin Brackets!Opening /\ t \notin Brackets!Closing
BY DEF Brackets!Opening, Brackets!Closing

LEMMA InsideTheEnds ==
  ASSUME Returning, tokens[pos] \notin Brackets!Closing
  PROVE  pos < Len(tokens)
BY ReturningFacts

LEMMA BackGreaterKeeps == Returning /\ Brackets!BackGreater => BackwardInv'
<1> SUFFICES ASSUME Returning, Brackets!BackGreater PROVE BackwardInv'
  OBVIOUS
<1>1. tokens[pos] \notin Brackets!Opening /\ tokens[pos] \notin Brackets!Closing
  BY NeutralTokens DEF Brackets!BackGreater
<1>2. /\ pos \in Nat /\ pos <= Len(tokens) /\ Len(tokens) \in Nat /\ Reflects(brackets, tokens, pos)
      /\ brackets # <<>> /\ brackets[1] \in Brackets!Closing
  BY <1>1, ReturningFacts, InsideTheEnds
<1>3. CASE Brackets!Before(pos, "-") \/ Brackets!AtLeast(pos) \/ Brackets!OperatorBefore(pos)
  <2>1. Brackets!Backward(brackets, 2)
    BY <1>3 DEF Brackets!BackGreater
  <2>2. pos > 1 /\ tokens[pos - 1] \in {"-", "op", " "}
    BY <1>2, <1>3, OperatorIsNeutral DEF Brackets!Before, Brackets!AtLeast
  <2>3. tokens[pos - 1] \notin Brackets!Opening /\ tokens[pos - 1] \notin Brackets!Closing
    BY <2>2, NeutralTokens
  <2> QED BY <1>1, <2>1, <2>2, <2>3, PassesTwo
<1>4. CASE ~(Brackets!Before(pos, "-") \/ Brackets!AtLeast(pos) \/ Brackets!OperatorBefore(pos))
  <2>1. PICK next : next = Append(brackets, ">") /\ Brackets!Backward(next, 1)
    BY <1>4 DEF Brackets!BackGreater
  <2>2. PICK t \in Unopened : t = ">"
    BY UnopenedTokens
  <2>3. /\ Reflects(Append(brackets, t), tokens, pos)
        /\ Append(brackets, t)[1] = IF brackets = <<>> THEN t ELSE brackets[1]
    BY <1>2, <2>2, AppendReflects
  <2> QED BY <1>1, <1>2, <2>1, <2>2, <2>3, PassesOne
<1> QED BY <1>3, <1>4

LEMMA BackLessKeeps == Returning /\ Brackets!BackLess => BackwardInv'
<1> SUFFICES ASSUME Returning, Brackets!BackLess PROVE BackwardInv'
  OBVIOUS
<1>1. tokens[pos] \notin Brackets!Opening /\ tokens[pos] \notin Brackets!Closing
  BY NeutralTokens DEF Brackets!BackLess
<1>2. /\ pos \in Nat /\ Len(tokens) \in Nat /\ Reflects(brackets, tokens, pos)
      /\ brackets # <<>> /\ brackets[1] \in Brackets!Closing /\ Len(brackets) \in Nat /\ 1 \in 1 .. Len(brackets)
  BY <1>1, ReturningFacts, InsideTheEnds
<1>3. CASE Brackets!Before(pos, "<")
  <2>1. Brackets!Backward(brackets, 2)
    BY <1>3 DEF Brackets!BackLess
  <2>2. pos > 1 /\ tokens[pos - 1] \notin Brackets!Opening /\ tokens[pos - 1] \notin Brackets!Closing
    BY <1>3, NeutralTokens DEF Brackets!Before
  <2> QED BY <1>1, <2>1, <2>2, PassesTwo
<1>4. CASE ~Brackets!Before(pos, "<")
  <2>1. brackets # <<">">>
    BY <1>2, UnopenedTokens
  <2>2. PICK next : /\ next = (IF Brackets!Top(brackets, ">") THEN Brackets!Front(brackets) ELSE brackets)
                    /\ Brackets!Backward(next, 1)
    BY <1>4, <2>1 DEF Brackets!BackLess
  <2>3. Reflects(next, tokens, pos) /\ (next # <<>> => next[1] \in Brackets!Closing)
    <3>1. CASE ~Brackets!Top(brackets, ">")
      BY <1>2, <2>2, <3>1
    <3>2. CASE Brackets!Top(brackets, ">")
      <4>1. brackets[Len(brackets)] = ">" /\ next = SubSeq(brackets, 1, Len(brackets) - 1)
        BY <2>2, <3>2 DEF Brackets!Top, Brackets!Last, Brackets!Front
      <4>2. Len(brackets) # 1
        BY <1>2, <4>1, UnopenedTokens
      <4>3. PICK n \in 0 .. Len(brackets) : n = Len(brackets) - 1 /\ n \in Nat /\ n >= 1
        <5>1. Len(brackets) - 1 \in 0 .. Len(brackets) /\ Len(brackets) - 1 \in Nat /\ Len(brackets) - 1 >= 1
          <6>1. PICK l \in Nat : l = Len(brackets)
            BY <1>2
          <6>2. 1 <= l /\ l # 1
            BY <1>2, <4>2, <6>1
          <6>3. l - 1 \in 0 .. l /\ l - 1 \in Nat /\ l - 1 >= 1
            BY <6>2
          <6> QED BY <6>1, <6>3
        <5> QED BY <5>1
      <4>4. \A i \in n + 1 .. Len(brackets) : brackets[i] \notin Brackets!Closing
        <5>1. \A i \in n + 1 .. Len(brackets) : i = Len(brackets)
          BY <1>2, <4>3
        <5> QED BY <4>1, <5>1, UnopenedTokens
      <4>5. Reflects(SubSeq(brackets, 1, n), tokens, pos) /\ \A i \in 1 .. n : SubSeq(brackets, 1, n)[i] = brackets[i]
        BY <1>2, <4>4, PrefixReflects
      <4>6. 1 \in 1 .. n
        BY <4>3
      <4> QED BY <1>2, <4>1, <4>3, <4>5, <4>6
    <3> QED BY <3>1, <3>2
  <2> QED BY <1>1, <2>2, <2>3, PassesOne
<1> QED BY <1>3, <1>4

(* What DropAngles leaves of the stack behind the end.                        *)
LEMMA KeptStack ==
  ASSUME Returning, pos < Len(tokens)
  PROVE  \E dropped : /\ dropped = Brackets!DropAngles(brackets, ">") /\ Reflects(dropped, tokens, pos)
                      /\ dropped # <<>> /\ Len(dropped) \in Nat /\ Len(dropped) > 0
                      /\ dropped[Len(dropped)] \in Brackets!Closing /\ dropped[1] \in Brackets!Closing
<1>1. /\ Reflects(brackets, tokens, pos) /\ 1 \in 1 .. Len(brackets) /\ brackets[1] \in Brackets!Closing
      /\ Len(brackets) \in Nat
  BY ReturningFacts
<1>2. PICK n \in 0 .. Len(brackets) :
           /\ Brackets!DropAngles(brackets, ">") = SubSeq(brackets, 1, n) /\ Reflects(SubSeq(brackets, 1, n), tokens, pos)
           /\ Len(SubSeq(brackets, 1, n)) = n /\ \A i \in 1 .. n : SubSeq(brackets, 1, n)[i] = brackets[i]
           /\ n > 0 => brackets[n] \in Brackets!Closing
           /\ (\E i \in 1 .. Len(brackets) : brackets[i] \in Brackets!Closing) => n > 0
  BY <1>1, DropReflects
<1>3. PICK dropped : dropped = SubSeq(brackets, 1, n)
  OBVIOUS
<1>4. n > 0 /\ n \in Nat
  BY <1>1, <1>2
<1>5. 1 \in 1 .. n /\ n \in 1 .. n
  BY <1>4
<1>6. Len(dropped) = n /\ dropped \in Seq(Unopened) /\ dropped[1] = brackets[1] /\ dropped[n] = brackets[n]
  BY <1>2, <1>3, <1>5 DEF Reflects
<1>7. dropped # <<>>
  BY <1>4, <1>6, EmptySeq
<1> QED BY <1>1, <1>2, <1>3, <1>4, <1>6, <1>7

LEMMA BackSemicolonKeeps ==
  ASSUME Returning, EndsStatement(tokens[pos]),
         IF Brackets!DropAngles(brackets, ">") = <<>> THEN Brackets!Stop(0)
         ELSE Brackets!Backward(Brackets!DropAngles(brackets, ">"), 1)
  PROVE  BackwardInv'
<1>1. tokens[pos] \notin Brackets!Opening /\ tokens[pos] \notin Brackets!Closing
  BY TokenFacts
<1>2. PICK dropped : /\ dropped = Brackets!DropAngles(brackets, ">") /\ Reflects(dropped, tokens, pos)
                     /\ dropped # <<>> /\ dropped[1] \in Brackets!Closing
  BY <1>1, InsideTheEnds, KeptStack
<1>3. Brackets!Backward(dropped, 1)
  BY <1>2
<1> QED BY <1>1, <1>2, <1>3, PassesOne

LEMMA BackOpeningKeeps == Returning /\ Brackets!BackOpening => BackwardInv'
<1> SUFFICES ASSUME Returning, Brackets!BackOpening PROVE BackwardInv'
  OBVIOUS
<1>1. tokens[pos] \in Brackets!Opening /\ tokens[pos] \notin Brackets!Closing
  BY TokenFacts DEF Brackets!BackOpening
<1>2. /\ pos \in Nat /\ 1 <= pos /\ Len(tokens) \in Nat /\ pos < Len(tokens) /\ Matched(tokens)
      /\ \A i \in 1 .. Len(tokens) - 1 : DepthIn(tokens, i) > 0
  BY <1>1, ReturningFacts, InsideTheEnds
<1>3. PICK dropped : /\ dropped = Brackets!DropAngles(brackets, ">") /\ Reflects(dropped, tokens, pos)
                     /\ dropped # <<>> /\ Len(dropped) \in Nat /\ Len(dropped) > 0
                     /\ dropped[Len(dropped)] \in Brackets!Closing /\ dropped[1] \in Brackets!Closing
  BY <1>2, KeptStack
<1>4. PICK p \in Nat : pos = p + 1 /\ p = pos - 1
  <2>1. pos - 1 \in Nat /\ pos = (pos - 1) + 1
    BY <1>2
  <2> QED BY <2>1
<1>5. p + 1 <= Len(tokens) /\ tokens[p + 1] \in Brackets!Opening /\ Reflects(dropped, tokens, p + 1)
  BY <1>1, <1>2, <1>3, <1>4
<1>6. PICK next : next = SubSeq(dropped, 1, Len(dropped) - 1)
  OBVIOUS
<1>7. /\ Brackets!Closer(tokens[p + 1]) = dropped[Len(dropped)] /\ Reflects(next, tokens, p)
      /\ Len(next) = Len(dropped) - 1 /\ \A i \in 1 .. Len(dropped) - 1 : next[i] = dropped[i]
  <2>1. Len(tokens) \in Nat /\ Matched(tokens) /\ dropped # <<>> /\ dropped[Len(dropped)] \in Brackets!Closing
    BY <1>2, <1>3
  <2>2. /\ Brackets!Closer(tokens[p + 1]) = dropped[Len(dropped)] /\ Reflects(SubSeq(dropped, 1, Len(dropped) - 1), tokens, p)
        /\ Len(SubSeq(dropped, 1, Len(dropped) - 1)) = Len(dropped) - 1
        /\ \A i \in 1 .. Len(dropped) - 1 : SubSeq(dropped, 1, Len(dropped) - 1)[i] = dropped[i]
    BY <1>5, <2>1, OpeningReflects
  <2> QED BY <1>6, <2>2
<1>8. IF Len(dropped) = 1 THEN Brackets!Stop(pos) ELSE Brackets!Backward(next, 1)
  BY <1>3, <1>4, <1>6, <1>7 DEF Brackets!BackOpening, Brackets!Last, Brackets!Front
<1>9. Among(next, Len(next), Brackets!Closing) = DepthIn(tokens, p)
  BY <1>7 DEF Reflects
<1>10. CASE Len(dropped) = 1
  <2>1. Len(next) = 0 /\ Among(next, 0, Brackets!Closing) = 0
    BY <1>7, <1>10, AmongNumbers
  <2>2. DepthIn(tokens, p) = 0
    BY <1>9, <2>1
  <2>3. ~(p \in 1 .. Len(tokens) - 1)
    BY <1>2, <2>2
  <2>4. pos = 1
    BY <1>2, <1>4, <2>3
  <2> QED BY <1>8, <1>10, <2>4, Arrives
<1>11. CASE Len(dropped) # 1
  <2>1. 1 \in 1 .. Len(dropped) - 1 /\ Len(next) \in Nat /\ 1 \in 0 + 1 .. Len(next) /\ 0 <= Len(next)
    <3>1. PICK l \in Nat : l = Len(dropped) /\ l > 0 /\ l # 1 /\ Len(next) = l - 1
      BY <1>3, <1>7, <1>11
    <3>2. 1 \in 1 .. l - 1 /\ l - 1 \in Nat /\ 1 \in 0 + 1 .. l - 1 /\ 0 <= l - 1
      BY <3>1
    <3> QED BY <3>1, <3>2
  <2>2. next[1] \in Brackets!Closing
    BY <1>3, <1>7, <2>1
  <2>3. Among(next, Len(next), Brackets!Closing) >= Among(next, 0, Brackets!Closing) + 1
        /\ Among(next, 0, Brackets!Closing) = 0
    BY <2>1, <2>2, AmongGrows, AmongNumbers
  <2>4. DepthIn(tokens, p) >= 1
    BY <1>9, <2>3
  <2>5. p # 0
    <3>1. DepthIn(tokens, 0) = 0
      BY DepthSteps
    <3>2. ASSUME p = 0 PROVE FALSE
      BY <2>4, <3>1, <3>2
    <3> QED BY <3>2
  <2>6. pos - 1 \in 1 .. Len(tokens) /\ Reflects(next, tokens, pos - 1)
    <3>1. p \in 1 .. Len(tokens)
      BY <1>2, <1>4, <2>5
    <3> QED BY <1>4, <1>7, <3>1
  <2> QED BY <1>8, <1>11, <2>2, <2>6, GoesBack
<1> QED BY <1>10, <1>11

LEMMA BackOtherKeeps == Returning /\ Brackets!BackOther => BackwardInv'
<1> SUFFICES ASSUME Returning, Brackets!BackOther PROVE BackwardInv'
  OBVIOUS
<1>1. /\ Len(tokens) \in Nat /\ pos \in Nat /\ 1 <= pos /\ pos <= Len(tokens) /\ Reflects(brackets, tokens, pos)
      /\ tokens[1] \notin Brackets!Closing
      /\ brackets # <<>> => brackets[1] \in Brackets!Closing
  BY ReturningFacts
<1>2. ASSUME tokens[pos] \in Brackets!Closing, Brackets!Backward(Append(brackets, tokens[pos]), 1)
      PROVE  BackwardInv'
  <2>1. pos # 1
    BY <1>1, <1>2
  <2>2. PICK p \in Nat : pos = p + 1 /\ p = pos - 1 /\ p >= 1
    <3>1. pos - 1 \in Nat /\ pos = (pos - 1) + 1 /\ pos - 1 >= 1
      BY <1>1, <2>1
    <3> QED BY <3>1
  <2>3. p + 1 <= Len(tokens) /\ tokens[p + 1] \in Brackets!Closing /\ Reflects(brackets, tokens, p + 1)
    BY <1>1, <1>2, <2>2
  <2>4. PICK next : next = Append(brackets, tokens[p + 1])
    OBVIOUS
  <2>5. Reflects(next, tokens, p) /\ next[1] = IF brackets = <<>> THEN tokens[p + 1] ELSE brackets[1]
    BY <1>1, <2>3, <2>4, ClosingReflects
  <2>6. next[1] \in Brackets!Closing
    BY <1>1, <2>3, <2>5
  <2>7. pos - 1 \in 1 .. Len(tokens) /\ Reflects(next, tokens, pos - 1) /\ Brackets!Backward(next, 1)
    BY <1>1, <1>2, <2>2, <2>4, <2>5
  <2> QED BY <2>6, <2>7, GoesBack
<1>3. ASSUME tokens[pos] \in {"-", "op", " ", "x", "="}, Brackets!Backward(brackets, 1)
      PROVE  BackwardInv'
  <2>1. tokens[pos] \notin Brackets!Opening /\ tokens[pos] \notin Brackets!Closing
    BY <1>3, NeutralTokens
  <2> QED BY <1>1, <1>3, <2>1, PassesOne
<1> QED BY <1>2, <1>3 DEF Brackets!BackOther

LEMMA BackLineKeeps == Returning /\ Brackets!BackLine => BackwardInv'
<1> SUFFICES ASSUME Returning, Brackets!BackLine PROVE BackwardInv'
  OBVIOUS
<1>1. tokens[pos] \notin Brackets!Opening /\ tokens[pos] \notin Brackets!Closing
  BY NeutralTokens DEF Brackets!BackLine
<1>2. Reflects(brackets, tokens, pos) /\ brackets # <<>> /\ brackets[1] \in Brackets!Closing
  BY <1>1, ReturningFacts, InsideTheEnds
<1>3. Brackets!Backward(brackets, 1)
  BY <1>2 DEF Brackets!BackLine
<1> QED BY <1>1, <1>2, <1>3, PassesOne

LEMMA FindStartKeeps == ForwardInv /\ BackwardInv /\ Brackets!FindStart => ForwardInv' /\ BackwardInv'
<1> SUFFICES ASSUME ForwardInv, BackwardInv, Brackets!FindStart PROVE ForwardInv' /\ BackwardInv'
  OBVIOUS
<1>1. /\ phase = "backward"
      /\ \/ pos < 1 /\ Brackets!Stop(0)
         \/ Brackets!BackGreater \/ Brackets!BackLess \/ Brackets!BackOpening \/ Brackets!BackSemicolon
         \/ Brackets!BackOther \/ Brackets!BackLine
  BY Zenon DEF Brackets!FindStart
<1>2. phase' \in {"backward", "done"} /\ UNCHANGED <<alphabet, tokens, end>>
  <2>1. ASSUME NEW next, NEW by, Brackets!Backward(next, by)
        PROVE  phase' \in {"backward", "done"} /\ UNCHANGED <<alphabet, tokens, end>>
    BY <1>1, <2>1 DEF Brackets!Backward
  <2>2. ASSUME NEW at, Brackets!Stop(at)
        PROVE  phase' \in {"backward", "done"} /\ UNCHANGED <<alphabet, tokens, end>>
    BY <2>2 DEF Brackets!Stop
  <2>3. Brackets!BackSemicolon => \E next, by : Brackets!Backward(next, by) \/ Brackets!Stop(by)
    BY Zenon DEF Brackets!BackSemicolon
  <2>4. Brackets!BackGreater \/ Brackets!BackLess \/ Brackets!BackOther \/ Brackets!BackLine =>
          \E next, by : Brackets!Backward(next, by) \/ Brackets!Stop(by)
    BY DEF Brackets!BackGreater, Brackets!BackLess, Brackets!BackOther, Brackets!BackLine
  <2>5. Brackets!BackOpening => \E next, by : Brackets!Backward(next, by) \/ Brackets!Stop(by)
    BY DEF Brackets!BackOpening
  <2> QED BY <1>1, <2>1, <2>2, <2>3, <2>4, <2>5
<1>3. ForwardInv'
  <2>1. SearchTypes /\ EndFound
    BY <1>1 DEF ForwardInv
  <2>2. SearchTypes' /\ EndFound'
    BY <1>2, <2>1 DEF SearchTypes, EndFound
  <2> QED BY <1>2, <2>2 DEF ForwardInv
<1>4. CASE tokens[1] \notin Brackets!Opening
  BY <1>2, <1>3, <1>4 DEF BackwardInv
<1>5. CASE tokens[1] \in Brackets!Opening
  <2>1. Returning
    BY <1>1, <1>5 DEF Returning
  <2>2. ~(pos < 1)
    BY <2>1, ReturningFacts
  <2>3. Brackets!BackSemicolon => BackwardInv'
    <3>1. Brackets!BackSemicolon =>
            /\ EndsStatement(tokens[pos])
            /\ IF Brackets!DropAngles(brackets, ">") = <<>> THEN Brackets!Stop(0)
               ELSE Brackets!Backward(Brackets!DropAngles(brackets, ">"), 1)
      BY Zenon DEF Brackets!BackSemicolon, EndsStatement
    <3> QED BY <2>1, <3>1, BackSemicolonKeeps
  <2> QED
    BY <1>1, <1>3, <2>1, <2>2, <2>3, BackGreaterKeeps, BackLessKeeps, BackOpeningKeeps, BackOtherKeeps,
       BackLineKeeps
<1> QED BY <1>4, <1>5, <1>3

ExpressionInv == ForwardInv /\ BackwardInv

LEMMA BracketCardinality == \A S : Brackets!Cardinality(S) = Cardinality(S)
BY DEF Brackets!Cardinality, Cardinality

LEMMA DepthIsThat == \A i : Brackets!Depth(i) = DepthIn(tokens, i)
BY BracketCardinality DEF Brackets!Depth, DepthIn, Among

LEMMA ExpressionInvInit == Brackets!Init => ExpressionInv
<1> SUFFICES ASSUME Brackets!Init PROVE ExpressionInv
  OBVIOUS
<1>1. PICK t \in alphabet \cap (Brackets!Opening \cup {"<"}) : tokens = <<t>>
  BY DEF Brackets!Init
<1>2. alphabet \in SUBSET Brackets!Tokens /\ brackets = tokens /\ phase = "forward" /\ end = 0
  BY EndingsAssumption DEF Brackets!Init, Brackets!TokensAssumption
<1>3. t \in Stackable /\ t \in Brackets!Tokens /\ t \notin Brackets!Closing /\ ~EndsStatement(t)
  BY <1>1, TokenFacts DEF Stackable
<1>4. /\ tokens \in Seq(Brackets!Tokens) /\ tokens \in Seq(Stackable) /\ Len(tokens) = 1
      /\ tokens[1] = t /\ tokens # <<>>
  BY <1>1, <1>3
<1>5. /\ Among(tokens, 1, Brackets!Opening) = (IF t \in Brackets!Opening THEN 1 ELSE 0)
      /\ Among(tokens, 1, Brackets!Closing) = 0
  <2>1. /\ Among(tokens, 0 + 1, Brackets!Opening) =
             Among(tokens, 0, Brackets!Opening) + (IF tokens[0 + 1] \in Brackets!Opening THEN 1 ELSE 0)
        /\ Among(tokens, 0, Brackets!Opening) = 0
    BY AmongNumbers
  <2>2. /\ Among(tokens, 0 + 1, Brackets!Closing) =
             Among(tokens, 0, Brackets!Closing) + (IF tokens[0 + 1] \in Brackets!Closing THEN 1 ELSE 0)
        /\ Among(tokens, 0, Brackets!Closing) = 0
    BY AmongNumbers
  <2> QED BY <1>3, <1>4, <2>1, <2>2
<1>6. DepthIn(tokens, 1) = (IF t \in Brackets!Opening THEN 1 ELSE 0)
  BY <1>5 DEF DepthIn
<1>7. Mirrors(brackets, tokens)
  <2>1. ASSUME NEW i \in 1 .. Len(tokens), tokens[i] \in Brackets!Opening
        PROVE  \E j : Opener(tokens, Len(tokens), Among(tokens, i, Brackets!Opening), j) /\ tokens[j] = tokens[i]
    <3>1. i = 1 /\ t \in Brackets!Opening
      BY <1>4, <2>1
    <3>2. Among(tokens, 1, Brackets!Opening) = DepthIn(tokens, 1)
      BY <1>5, <1>6
    <3>3. 1 \in 1 .. Len(tokens) /\ \A k \in 1 + 1 .. Len(tokens) : FALSE
      BY <1>4
    <3>4. Opener(tokens, Len(tokens), DepthIn(tokens, 1), 1)
      BY <2>1, <3>1, <3>3 DEF Opener
    <3> QED BY <3>1, <3>2, <3>4
  <2>2. Among(tokens, Len(tokens), Brackets!Opening) = DepthIn(tokens, Len(tokens))
    BY <1>4, <1>5, <1>6
  <2> QED BY <1>2, <1>4, <2>1, <2>2 DEF Mirrors
<1>8. \A i \in 1 .. Len(tokens) : i = 1
  BY <1>4
<1>9. t \in Brackets!Opening => Positive(tokens) /\ Matched(tokens)
  <2>1. ASSUME t \in Brackets!Opening PROVE \A i \in 1 .. Len(tokens) : DepthIn(tokens, i) > 0
    <3>1. DepthIn(tokens, 1) > 0
      BY <1>6, <2>1
    <3> QED BY <1>8, <3>1
  <2> QED BY <1>3, <1>4, <1>8, <2>1 DEF Positive, Matched
<1>10. Balanced(tokens)
  <2>1. DepthIn(tokens, 1) >= 0
    BY <1>6
  <2> QED BY <1>3, <1>4, <1>8, <2>1 DEF Balanced
<1>11. SearchTypes
  BY <1>2, <1>3, <1>4 DEF SearchTypes
<1>12. Searching
  BY <1>2, <1>4, <1>7, <1>9, <1>10 DEF Searching
<1> QED BY <1>2, <1>11, <1>12 DEF ExpressionInv, ForwardInv, BackwardInv

LEMMA TurnBackKeeps == ExpressionInv /\ Brackets!TurnBack => ExpressionInv'
<1> SUFFICES ASSUME ExpressionInv, Brackets!TurnBack PROVE ExpressionInv'
  OBVIOUS
<1>1. /\ phase = "found" /\ phase' = "backward" /\ pos' = end /\ brackets' = <<>>
      /\ alphabet' = alphabet /\ tokens' = tokens /\ end' = end
  BY DEF Brackets!TurnBack
<1>2. SearchTypes /\ EndFound
  BY <1>1 DEF ExpressionInv, ForwardInv
<1>3. SearchTypes' /\ EndFound'
  BY <1>1, <1>2 DEF SearchTypes, EndFound
<1>4. Len(tokens) \in Nat \ {0} /\ end = Len(tokens) /\ DepthIn(tokens, end) = 0
  BY <1>2, EmptySeq DEF SearchTypes, EndFound
<1>5. Reflects(<<>>, tokens, end)
  <2>1. Len(<<>>) = 0 /\ <<>> \in Seq(Unopened) /\ \A i \in 1 .. 0 : FALSE
    OBVIOUS
  <2>2. Among(<<>>, 0, Brackets!Closing) = 0
    BY AmongNumbers
  <2> QED BY <1>4, <2>1, <2>2 DEF Reflects
<1>6. pos' \in 1 .. Len(tokens')
  BY <1>1, <1>4
<1>7. BackwardInv'
  BY <1>1, <1>5, <1>6 DEF BackwardInv
<1> QED BY <1>1, <1>3, <1>7 DEF ExpressionInv, ForwardInv

LEMMA ExpressionInvNext == ExpressionInv /\ Brackets!Next => ExpressionInv'
<1> SUFFICES ASSUME ExpressionInv, Brackets!Next PROVE ExpressionInv'
  OBVIOUS
<1>1. ForwardInv /\ BackwardInv /\ (Brackets!FindEnd \/ Brackets!TurnBack \/ Brackets!FindStart)
  BY Zenon DEF Brackets!Next, ExpressionInv
<1>2. ASSUME Brackets!FindEnd PROVE ExpressionInv'
  <2>1. ForwardInv'
    BY <1>1, <1>2, FindEndKeeps
  <2>2. phase' \in {"forward", "none", "found"}
    <3>1. ASSUME NEW t, NEW next, NEW result \in {"none", "found"}, Brackets!Forward(t, next, result)
          PROVE  phase' \in {"forward", "none", "found"}
      BY <3>1 DEF Brackets!Forward
    <3>2. Brackets!ReadSemicolon => \E t, next : \E result \in {"none", "found"} : Brackets!Forward(t, next, result)
      BY Zenon DEF Brackets!ReadSemicolon
    <3>3. \/ Brackets!ReadLess \/ Brackets!ReadEqual \/ Brackets!ReadGreater
          \/ (\E t \in Brackets!Opening : Brackets!ReadOpening(t))
          \/ (\E t \in Brackets!Closing : Brackets!ReadClosing(t))
          \/ (\E t \in Brackets!Others : Brackets!ReadOther(t))
          => \E t, next : \E result \in {"none", "found"} : Brackets!Forward(t, next, result)
      BY Zenon DEF Brackets!ReadLess, Brackets!ReadEqual, Brackets!ReadGreater, Brackets!ReadOpening,
                   Brackets!ReadClosing, Brackets!ReadOther, Brackets!Found
    <3>4. \/ Brackets!ReadLess \/ Brackets!ReadEqual \/ Brackets!ReadGreater \/ Brackets!ReadSemicolon
          \/ \E t \in Brackets!Opening : Brackets!ReadOpening(t)
          \/ \E t \in Brackets!Closing : Brackets!ReadClosing(t)
          \/ \E t \in Brackets!Others : Brackets!ReadOther(t)
      BY <1>2, Zenon DEF Brackets!FindEnd
    <3> QED BY <3>1, <3>2, <3>3, <3>4
  <2> QED BY <2>1, <2>2 DEF ExpressionInv, BackwardInv
<1> QED BY <1>1, <1>2, TurnBackKeeps, FindStartKeeps DEF ExpressionInv

LEMMA ExpressionInvStays == ExpressionInv /\ UNCHANGED expressionVars => ExpressionInv'
<1> SUFFICES ASSUME ExpressionInv, UNCHANGED expressionVars PROVE ExpressionInv'
  OBVIOUS
<1>1. /\ alphabet' = alphabet /\ tokens' = tokens /\ brackets' = brackets /\ phase' = phase
      /\ end' = end /\ pos' = pos /\ begin' = begin
  BY DEF expressionVars
<1> QED BY <1>1 DEF ExpressionInv, ForwardInv, BackwardInv, SearchTypes, Searching, EndFound

(* What is known while the search goes on is what the properties say.         *)
LEMMA PartnerFound ==
  ASSUME NEW j \in Nat, NEW i, Closes(tokens, j, i)
  PROVE  Brackets!Partner(j) = i
<1>1. PICK S : S = {k \in 1 .. j - 1 : tokens[k] \in Brackets!Opening /\ DepthIn(tokens, k) = DepthIn(tokens, j) + 1}
  OBVIOUS
<1>2. i \in S /\ \A k \in S : i >= k
  <2>1. i \in S /\ i \in 1 .. j - 1
    BY <1>1 DEF Closes
  <2>2. ASSUME NEW k \in S, ~(i >= k) PROVE FALSE
    <3>1. k \in i + 1 .. j - 1
      BY <1>1, <2>1, <2>2
    <3> QED BY <1>1, <3>1 DEF Closes
  <2> QED BY <2>1, <2>2
<1>3. \A x \in S : (\A y \in S : x >= y) => x = i
  <2> SUFFICES ASSUME NEW x \in S, \A y \in S : x >= y PROVE x = i
    OBVIOUS
  <2>1. x >= i /\ i >= x /\ x \in Int /\ i \in Int
    BY <1>1, <1>2
  <2> QED BY <2>1
<1>4. Brackets!Max(S) = i
  BY <1>2, <1>3 DEF Brackets!Max
<1>5. Brackets!Partner(j) = Brackets!Max(S)
  BY <1>1, DepthIsThat DEF Brackets!Partner
<1> QED BY <1>4, <1>5

LEMMA ExpressionsAreClosed ==
  ASSUME ExpressionInv
  PROVE  Brackets!BracketsDecide /\ Brackets!ArgumentsAreBalanced /\ Brackets!BackToTheBeginning
<1>1. SearchTypes /\ ForwardInv /\ BackwardInv
  BY DEF ExpressionInv, ForwardInv
<1>2. Len(tokens) \in Nat \ {0} /\ DOMAIN tokens = 1 .. Len(tokens)
  BY <1>1, EmptySeq, LenProperties DEF SearchTypes
<1>3. ASSUME end > 0 PROVE EndFound
  <2>1. phase \in {"found", "backward", "done"}
    BY <1>1, <1>3 DEF SearchTypes, ForwardInv, Searching
  <2> QED BY <1>1, <2>1 DEF ForwardInv
<1>4. ASSUME tokens[1] \in Brackets!Opening
      PROVE  /\ end > 0 => Brackets!Depth(end) = 0 /\ \A i \in 1 .. end - 1 : Brackets!Depth(i) > 0
             /\ phase = "forward" => \A i \in DOMAIN tokens : Brackets!Depth(i) > 0
             /\ phase = "none" => tokens[Len(tokens)] \in Brackets!Closing
                         /\ Brackets!Closer(tokens[Brackets!Partner(Len(tokens))]) # tokens[Len(tokens)]
  <2>1. end > 0 => Brackets!Depth(end) = 0 /\ \A i \in 1 .. end - 1 : Brackets!Depth(i) > 0
    BY <1>3, <1>4, DepthIsThat DEF EndFound
  <2>2. phase = "forward" => \A i \in DOMAIN tokens : Brackets!Depth(i) > 0
    BY <1>1, <1>2, <1>4, DepthIsThat DEF ForwardInv, Searching, Positive
  <2>3. ASSUME phase = "none"
        PROVE  tokens[Len(tokens)] \in Brackets!Closing
               /\ Brackets!Closer(tokens[Brackets!Partner(Len(tokens))]) # tokens[Len(tokens)]
    <3>1. GivenUp(tokens)
      BY <1>1, <1>4, <2>3 DEF ForwardInv
    <3>2. PICK i : Closes(tokens, Len(tokens), i) /\ Brackets!Closer(tokens[i]) # tokens[Len(tokens)]
      BY <3>1 DEF GivenUp
    <3>3. Brackets!Partner(Len(tokens)) = i
      BY <1>2, <3>2, PartnerFound
    <3> QED BY <3>1, <3>2, <3>3 DEF GivenUp
  <2> QED BY <2>1, <2>2, <2>3
<1>5. Brackets!BracketsDecide
  BY <1>4 DEF Brackets!BracketsDecide
<1>6. ASSUME tokens[1] = "<", end > 0
      PROVE  /\ Brackets!Depth(end) = 0 /\ \A i \in 1 .. end : Brackets!Depth(i) >= 0
             /\ \A i \in 1 .. end : EndsStatement(tokens[i]) => Brackets!Depth(i) > 0
  BY <1>3, <1>6, DepthIsThat DEF EndFound, Balanced
<1>7. Brackets!ArgumentsAreBalanced
  BY <1>6, Zenon DEF Brackets!ArgumentsAreBalanced, EndsStatement
<1>8. Brackets!BackToTheBeginning
  BY <1>1 DEF BackwardInv, Brackets!BackToTheBeginning
<1> QED BY <1>5, <1>7, <1>8

-------------------------------------------------------------------------------
(* What each part keeps, while the other parts are left as they are.          *)
EndingsInv ==
  /\ AsmInv
  /\ part = "functions" => FunctionInv
  /\ part = "expressions" => ExpressionInv

LEMMA EndingsInvInit == EndingsInit => EndingsInv
<1> SUFFICES ASSUME EndingsInit PROVE EndingsInv
  OBVIOUS
<1>1. Init /\ (part = "functions" => Functions!Init) /\ (part = "expressions" => Brackets!Init)
  BY Zenon DEF EndingsInit, PartsInit
<1> QED BY <1>1, AsmInvInit, FunctionInvInit, ExpressionInvInit DEF EndingsInv

LEMMA EndingsInvNext == EndingsInv /\ [EndingsNext]_endingsVars => EndingsInv'
<1> SUFFICES ASSUME EndingsInv, [EndingsNext]_endingsVars PROVE EndingsInv'
  OBVIOUS
<1>1. CASE BlocksNext
  <2>1. part' = part /\ part = "blocks" /\ Next
    BY <1>1 DEF BlocksNext
  <2> QED BY <2>1, AsmInvNext DEF EndingsInv
<1>2. CASE FunctionsNext
  <2>1. part' = part /\ part = "functions" /\ Functions!Next /\ UNCHANGED nestingVars
    BY <1>2 DEF FunctionsNext
  <2> QED BY <2>1, AsmInvNext, FunctionInvNext DEF EndingsInv
<1>3. CASE ExpressionsNext
  <2>1. part' = part /\ part = "expressions" /\ Brackets!Next /\ UNCHANGED nestingVars
    BY <1>3 DEF ExpressionsNext
  <2> QED BY <2>1, AsmInvNext, ExpressionInvNext DEF EndingsInv
<1>4. CASE UNCHANGED endingsVars
  <2>1. part' = part /\ UNCHANGED nestingVars /\ UNCHANGED functionVars /\ UNCHANGED expressionVars
    BY <1>4 DEF endingsVars
  <2> QED BY <2>1, AsmInvNext, FunctionInvStays, ExpressionInvStays DEF EndingsInv
<1> QED BY <1>1, <1>2, <1>3, <1>4 DEF EndingsNext

(* For any lines, functions, tokens and bounds: no line is left unchecked as  *)
(* assembly without an open parenthesis, each function is measured once with  *)
(* its own lines, brackets end where they are balanced whatever "<", ">" and  *)
(* ";" stand in between, and the search backwards comes back to where they    *)
(* began (InAsmBlock(), _FunctionState, CloseExpression() and                 *)
(* ReverseCloseExpression()).                                                 *)
THEOREM EveryEndIsFound == EndingsSpec => []EndsAreFound
<1>1. EndingsInv => EndsAreFound
  <2> SUFFICES ASSUME EndingsInv PROVE EndsAreFound
    OBVIOUS
  <2>1. AsmHasOpenParenthesis
    BY AsmFollows DEF EndingsInv
  <2>2. part = "functions" => Functions!FunctionsAreKeptApart /\ Functions!LongFunctionsAreTold
    BY DEF EndingsInv, FunctionInv
  <2>3. part = "expressions" =>
          Brackets!BracketsDecide /\ Brackets!ArgumentsAreBalanced /\ Brackets!BackToTheBeginning
    BY ExpressionsAreClosed DEF EndingsInv
  <2> QED BY <2>1, <2>2, <2>3 DEF EndsAreFound
<1> QED BY <1>1, EndingsInvInit, EndingsInvNext, PTL DEF EndingsSpec

-------------------------------------------------------------------------------
(* CleansedLines.  A reading of s: the state after each token, and what is    *)
(* left of the tokens so far.                                                 *)
IsReading(b, s, keep, st, lf) ==
  /\ st \in [0 .. Len(s) -> States] /\ lf \in [0 .. Len(s) -> Seq(Characters)]
  /\ st[0] = b /\ lf[0] = Begun(b)
  /\ \A i \in 1 .. Len(s) : /\ st[i] = After(st[i - 1], s[i])
                            /\ lf[i] = lf[i - 1] \o Left(st[i - 1], s[i], keep)

(* What the tokens in strings and characters are: expected, other than "//",  *)
(* none at all; and nothing is in a raw string, nothing in a comment.         *)
Plain(s, st) ==
  \A i \in 1 .. Len(s) : InLiteral(st[i - 1], s[i]) =>
    IF st[i - 1] = "string" THEN s[i] \in {"x", "//"} ELSE i > 1 /\ s[i - 1] = "sq"
Unmarked(s, st) == \A i \in 1 .. Len(s) : InLiteral(st[i - 1], s[i]) => s[i] # "//"
Emptied(s, st) == \A i \in 1 .. Len(s) : ~InLiteral(st[i - 1], s[i])
Cooked(s, st) == \A i \in 0 .. Len(s) : st[i] \notin Raw
Uncommented(s, st) == \A i \in 0 .. Len(s) : st[i] # "comment"

(* A text keeps what is known of two that it is made of.                      *)
Inherits(s, st, u, stu, v, stv) ==
  /\ Plain(u, stu) /\ Plain(v, stv) => Plain(s, st)
  /\ Unmarked(u, stu) /\ Unmarked(v, stv) => Unmarked(s, st)
  /\ Emptied(u, stu) /\ Emptied(v, stv) => Emptied(s, st)
  /\ Cooked(u, stu) /\ Cooked(v, stv) => Cooked(s, st)
  /\ Uncommented(u, stu) /\ Uncommented(v, stv) => Uncommented(s, st)

LEMMA Pieces ==
  ASSUME NEW S, NEW s \in Seq(S), NEW i \in 0 .. Len(s)
  PROVE  /\ UpTo(s, i) \in Seq(S) /\ Len(UpTo(s, i)) = i
         /\ \A j \in 1 .. i : UpTo(s, i)[j] = s[j]
         /\ Beyond(s, i) \in Seq(S) /\ Len(Beyond(s, i)) = Len(s) - i
         /\ \A j \in 1 .. Len(s) - i : Beyond(s, i)[j] = s[j + i]
<1>1. i \in Nat /\ Len(s) \in Nat /\ i <= Len(s)
  OBVIOUS
<1>2. UpTo(s, i) \in Seq(S) /\ Len(UpTo(s, i)) = i /\ \A j \in 1 .. i : UpTo(s, i)[j] = s[j]
  BY <1>1 DEF UpTo
<1>3. Beyond(s, i) \in Seq(S) /\ Len(Beyond(s, i)) = Len(s) - i
      /\ \A j \in 1 .. Len(s) - i : Beyond(s, i)[j] = s[j + i]
  BY <1>1 DEF Beyond
<1> QED BY <1>2, <1>3

LEMMA Joined ==
  ASSUME NEW S, NEW u \in Seq(S), NEW v \in Seq(S)
  PROVE  /\ u \o v \in Seq(S) /\ Len(u \o v) = Len(u) + Len(v)
         /\ \A j \in 1 .. Len(u) : (u \o v)[j] = u[j]
         /\ \A j \in Len(u) + 1 .. Len(u) + Len(v) : (u \o v)[j] = v[j - Len(u)]
OBVIOUS

LEMMA LeftType ==
  ASSUME NEW before, NEW t \in Characters, NEW keep \in BOOLEAN
  PROVE  Left(before, t, keep) \in Seq(Characters)
<1>1. EmptyString \in Seq(Characters)
  BY DEF EmptyString, Characters
<1> QED BY <1>1 DEF Left

(* The empty text, a part of a text from its beginning, and a text with a     *)
(* token more.                                                                *)
LEMMA ReadsNothing ==
  ASSUME NEW b \in {"code"} \cup Raw, NEW keep \in BOOLEAN
  PROVE  \E st, lf : /\ IsReading(b, <<>>, keep, st, lf) /\ st[0] = b /\ lf[0] = Begun(b)
                     /\ Plain(<<>>, st) /\ Unmarked(<<>>, st) /\ (b = "code" => Cooked(<<>>, st))
<1> DEFINE st == [i \in 0 .. 0 |-> b]
           lf == [i \in 0 .. 0 |-> Begun(b)]
<1>1. Len(<<>>) = 0 /\ b \in States /\ Begun(b) \in Seq(Characters)
  <2>1. <<>> \in Seq(Characters) /\ EmptyString \in Seq(Characters)
    BY DEF EmptyString, Characters
  <2>2. Begun(b) \in Seq(Characters)
    BY <2>1 DEF Begun
  <2> QED BY <2>2 DEF States, Raw
<1>2. st \in [0 .. 0 -> States] /\ lf \in [0 .. 0 -> Seq(Characters)] /\ st[0] = b /\ lf[0] = Begun(b)
  BY <1>1
<1>3. \A i : i \notin 1 .. 0
  OBVIOUS
<1>4. IsReading(b, <<>>, keep, st, lf)
  <2> HIDE DEF st, lf
  <2> QED BY <1>1, <1>2, <1>3 DEF IsReading
<1>5. Plain(<<>>, st) /\ Unmarked(<<>>, st) /\ (b = "code" => Cooked(<<>>, st))
  <2>1. \A i \in 0 .. 0 : st[i] = b
    OBVIOUS
  <2> HIDE DEF st, lf
  <2> QED BY <1>1, <1>3, <2>1 DEF Plain, Unmarked, Cooked, Raw
<1> HIDE DEF st, lf
<1> QED BY <1>2, <1>4, <1>5

Prefix(b, s, keep, st, lf, n, u, su, lu) ==
  /\ IsReading(b, u, keep, su, lu) /\ Len(u) = n
  /\ \A i \in 0 .. n : su[i] = st[i] /\ lu[i] = lf[i]
  /\ Inherits(u, su, s, st, s, st)

LEMMA ReadsPrefix ==
  ASSUME NEW b, NEW s \in Seq(Characters), NEW keep \in BOOLEAN, NEW st, NEW lf, IsReading(b, s, keep, st, lf),
         NEW n \in 0 .. Len(s)
  PROVE  \E su, lu : Prefix(b, s, keep, st, lf, n, UpTo(s, n), su, lu)
<1> DEFINE u == UpTo(s, n)
           su == [i \in 0 .. n |-> st[i]]
           lu == [i \in 0 .. n |-> lf[i]]
<1>1. Len(u) = n /\ \A j \in 1 .. n : u[j] = s[j]
  BY Pieces
<1>2. n \in Nat /\ Len(s) \in Nat /\ n <= Len(s)
  OBVIOUS
<1>3. \A i \in 0 .. n : su[i] = st[i] /\ lu[i] = lf[i]
  OBVIOUS
<1>4. su \in [0 .. n -> States] /\ lu \in [0 .. n -> Seq(Characters)]
  <2>1. \A i \in 0 .. Len(s) : st[i] \in States /\ lf[i] \in Seq(Characters)
    BY DEF IsReading
  <2>2. \A i \in 0 .. n : i \in 0 .. Len(s)
    BY <1>2
  <2> QED BY <2>1, <2>2
<1> HIDE DEF u, su, lu
<1>5. \A i \in 1 .. n : i \in 1 .. Len(s) /\ i - 1 \in 0 .. n /\ i \in 0 .. n
  BY <1>2
<1>6. IsReading(b, u, keep, su, lu)
  <2>1. st[0] = b /\ lf[0] = Begun(b)
        /\ \A i \in 1 .. Len(s) : st[i] = After(st[i - 1], s[i])
                                 /\ lf[i] = lf[i - 1] \o Left(st[i - 1], s[i], keep)
    BY DEF IsReading
  <2>2. su[0] = b /\ lu[0] = Begun(b)
    BY <1>2, <1>3, <2>1
  <2>3. \A i \in 1 .. n : su[i] = After(su[i - 1], u[i]) /\ lu[i] = lu[i - 1] \o Left(su[i - 1], u[i], keep)
    BY <1>1, <1>3, <1>5, <2>1
  <2> QED BY <1>1, <1>4, <2>2, <2>3 DEF IsReading
<1>7. Plain(s, st) => Plain(u, su)
  <2>1. \A i \in 1 .. n : i > 1 => i - 1 \in 1 .. n
    BY <1>2
  <2> QED BY <1>1, <1>3, <1>5, <2>1 DEF Plain
<1>8. (Unmarked(s, st) => Unmarked(u, su)) /\ (Emptied(s, st) => Emptied(u, su))
  BY <1>1, <1>3, <1>5 DEF Unmarked, Emptied
<1>9. (Cooked(s, st) => Cooked(u, su)) /\ (Uncommented(s, st) => Uncommented(u, su))
  BY <1>1, <1>2, <1>3 DEF Cooked, Uncommented
<1>10. Inherits(u, su, s, st, s, st)
  BY <1>7, <1>8, <1>9 DEF Inherits
<1>11. Prefix(b, s, keep, st, lf, n, u, su, lu)
  BY <1>1, <1>3, <1>6, <1>10 DEF Prefix
<1> QED BY <1>11 DEF u

(* The rest of another text, where that is in the same state, with the same   *)
(* left.                                                                      *)
Continues(b, s, keep, st, lf, u, su, v, sv, lv) ==
  /\ IsReading(b, s, keep, st, lf)
  /\ \A i \in 0 .. Len(u) : st[i] = su[i]
  /\ st[Len(s)] = sv[Len(v)] /\ lf[Len(s)] = lv[Len(v)]
  /\ Inherits(s, st, u, su, v, sv)

LEMMA ReadsOn ==
  ASSUME NEW b, NEW u \in Seq(Characters), NEW keep \in BOOLEAN, NEW su, NEW lu, IsReading(b, u, keep, su, lu),
         NEW c, NEW v \in Seq(Characters), NEW sv, NEW lv, IsReading(c, v, keep, sv, lv),
         NEW q \in 0 .. Len(v),
         su[Len(u)] = sv[q], lu[Len(u)] = lv[q], sv[q] \notin Literal
  PROVE  \E st, lf : Continues(b, u \o Beyond(v, q), keep, st, lf, u, su, v, sv, lv)
<1> DEFINE s == u \o Beyond(v, q)
           n == Len(u)
           d == q - n
           m == n + Len(v) - q
           st == [i \in 0 .. m |-> IF i <= n THEN su[i] ELSE sv[i + d]]
           lf == [i \in 0 .. m |-> IF i <= n THEN lu[i] ELSE lv[i + d]]
<1>1. n \in Nat /\ Len(v) \in Nat /\ q \in Nat /\ q <= Len(v) /\ d \in Int /\ m \in Nat /\ n <= m
      /\ d + m = Len(v) /\ d + n = q
  OBVIOUS
<1>2. Beyond(v, q) \in Seq(Characters) /\ Len(Beyond(v, q)) = Len(v) - q
      /\ \A j \in 1 .. Len(v) - q : Beyond(v, q)[j] = v[j + q]
  BY Pieces
<1>3. s \in Seq(Characters) /\ Len(s) = m
      /\ (\A i \in 1 .. n : s[i] = u[i])
      /\ \A i \in n + 1 .. m : s[i] = v[i + d]
  <2>1. Len(s) = m
    BY <1>2, Joined
  <2>2. \A i \in 1 .. n : s[i] = u[i]
    BY <1>2, Joined
  <2>3. ASSUME NEW i \in n + 1 .. m PROVE s[i] = v[i + d]
    <3>1. s[i] = Beyond(v, q)[i - n]
      BY <1>1, <1>2, Joined
    <3>2. i - n \in 1 .. Len(v) - q /\ (i - n) + q = i + d
      BY <1>1
    <3> QED BY <1>2, <3>1, <3>2
  <2> QED BY <1>2, <2>1, <2>2, <2>3, Joined
<1>4. (\A i \in 0 .. n : st[i] = su[i] /\ lf[i] = lu[i])
      /\ \A i \in n .. m : st[i] = sv[i + d] /\ lf[i] = lv[i + d]
  <2>1. \A i \in 0 .. n : i \in 0 .. m /\ i <= n
    BY <1>1
  <2>2. \A i \in n .. m : i \in 0 .. m /\ (i <= n => i = n)
    BY <1>1
  <2>3. su[n] = sv[n + d] /\ lu[n] = lv[n + d]
    BY <1>1
  <2> QED BY <2>1, <2>2, <2>3
<1>5. st \in [0 .. m -> States] /\ lf \in [0 .. m -> Seq(Characters)]
  <2>1. \A i \in 0 .. m : i <= n => i \in 0 .. n
    BY <1>1
  <2>2. \A i \in 0 .. m : i > n => i + d \in 0 .. Len(v)
    BY <1>1
  <2>3. \A i \in 0 .. n : su[i] \in States /\ lu[i] \in Seq(Characters)
    BY DEF IsReading
  <2>4. \A i \in 0 .. Len(v) : sv[i] \in States /\ lv[i] \in Seq(Characters)
    BY DEF IsReading
  <2>5. \A i \in 0 .. m : st[i] \in States /\ lf[i] \in Seq(Characters)
    BY <1>1, <2>1, <2>2, <2>3, <2>4
  <2> QED BY <2>5
<1> HIDE DEF s, n, d, m, st, lf
<1>6. \A i \in 1 .. m : \/ i \in 1 .. n /\ i - 1 \in 0 .. n /\ i \in 0 .. n
                        \/ /\ i \in n + 1 .. m /\ i - 1 \in n .. m /\ i \in n .. m
                           /\ i + d \in 1 .. Len(v) /\ (i + d) - 1 = (i - 1) + d
  BY <1>1
<1>7. IsReading(b, s, keep, st, lf)
  <2>1. st[0] = b /\ lf[0] = Begun(b)
    BY <1>1, <1>4 DEF IsReading
  <2>2. ASSUME NEW i \in 1 .. m
        PROVE  st[i] = After(st[i - 1], s[i]) /\ lf[i] = lf[i - 1] \o Left(st[i - 1], s[i], keep)
    <3>1. CASE i \in 1 .. n
      <4>1. i - 1 \in 0 .. n /\ i \in 0 .. n
        BY <1>1, <3>1
      <4>2. su[i] = After(su[i - 1], u[i]) /\ lu[i] = lu[i - 1] \o Left(su[i - 1], u[i], keep)
        BY <3>1 DEF IsReading, n
      <4> QED BY <1>3, <1>4, <3>1, <4>1, <4>2
    <3>2. CASE i \in n + 1 .. m
      <4>1. st[i] = sv[i + d] /\ lf[i] = lv[i + d] /\ s[i] = v[i + d]
        BY <1>1, <1>3, <1>4, <3>2
      <4>2. i - 1 \in n .. m /\ i + d \in 1 .. Len(v) /\ (i + d) - 1 = (i - 1) + d
        BY <1>1, <3>2
      <4>3. st[i - 1] = sv[(i + d) - 1] /\ lf[i - 1] = lv[(i + d) - 1]
        BY <1>4, <4>2
      <4> QED BY <4>1, <4>2, <4>3 DEF IsReading
    <3> QED BY <1>6, <3>1, <3>2
  <2> QED BY <1>3, <1>5, <2>1, <2>2 DEF IsReading
<1>10. st[m] = sv[Len(v)] /\ lf[m] = lv[Len(v)]
  <2>1. m \in n .. m /\ m + d = Len(v)
    BY <1>1
  <2> QED BY <1>4, <2>1
<1>11. Inherits(s, st, u, su, v, sv)
  <2>1. \A i \in 1 .. m : \/ /\ i \in 1 .. Len(u) /\ st[i - 1] = su[i - 1] /\ st[i] = su[i] /\ s[i] = u[i]
                             /\ (i > 1 => s[i - 1] = u[i - 1])
                          \/ /\ i + d \in 1 .. Len(v) /\ st[i - 1] = sv[(i + d) - 1] /\ st[i] = sv[i + d]
                             /\ s[i] = v[i + d]
                             /\ (i = n + 1 => st[i - 1] \notin Literal)
                             /\ (i > n + 1 => i + d > 1 /\ s[i - 1] = v[(i + d) - 1])
    <3> TAKE i \in 1 .. m
    <3>1. CASE i \in 1 .. n
      <4>1. i > 1 => i - 1 \in 1 .. n
        BY <3>1, <1>1
      <4> QED BY <1>3, <1>4, <1>6, <3>1, <4>1 DEF n
    <3>2. CASE i \in n + 1 .. m
      <4>1. st[i] = sv[i + d] /\ s[i] = v[i + d]
        BY <1>1, <1>3, <1>4, <3>2
      <4>2. i - 1 \in n .. m /\ i + d \in 1 .. Len(v) /\ (i + d) - 1 = (i - 1) + d
        BY <1>1, <3>2
      <4>3. st[i - 1] = sv[(i + d) - 1]
        BY <1>4, <4>2
      <4>4. i = n + 1 => st[i - 1] = sv[q]
        BY <1>1, <4>2, <4>3
      <4>5. i > n + 1 => i - 1 \in n + 1 .. m /\ i + d > 1
        BY <1>1, <3>2
      <4> QED BY <1>3, <4>1, <4>2, <4>3, <4>4, <4>5
    <3> QED BY <1>6, <3>1, <3>2
  <2>2. Plain(u, su) /\ Plain(v, sv) => Plain(s, st)
    <3> SUFFICES ASSUME Plain(u, su), Plain(v, sv), NEW i \in 1 .. m, InLiteral(st[i - 1], s[i])
                 PROVE  IF st[i - 1] = "string" THEN s[i] \in {"x", "//"} ELSE i > 1 /\ s[i - 1] = "sq"
      BY <1>3 DEF Plain
    <3>1. CASE /\ i \in 1 .. Len(u) /\ st[i - 1] = su[i - 1] /\ st[i] = su[i] /\ s[i] = u[i]
               /\ (i > 1 => s[i - 1] = u[i - 1])
      BY <3>1 DEF Plain
    <3>2. CASE /\ i + d \in 1 .. Len(v) /\ st[i - 1] = sv[(i + d) - 1] /\ st[i] = sv[i + d]
               /\ s[i] = v[i + d]
               /\ (i = n + 1 => st[i - 1] \notin Literal)
               /\ (i > n + 1 => i + d > 1 /\ s[i - 1] = v[(i + d) - 1])
      <4>1. i # n + 1
        BY <3>2 DEF InLiteral
      <4>2. i < n + 1 => i \in 1 .. n /\ i - 1 \in 0 .. n
        BY <1>1
      <4>3. CASE i < n + 1
        <5>1. i > 1 => i - 1 \in 1 .. n
          BY <1>1, <4>3
        <5>2. st[i - 1] = su[i - 1] /\ s[i] = u[i] /\ (i > 1 => s[i - 1] = u[i - 1])
          BY <1>3, <1>4, <4>2, <4>3, <5>1
        <5> QED BY <4>2, <4>3, <5>2 DEF Plain, n
      <4>4. CASE i > n + 1
        <5>1. i > 1
          BY <1>1, <4>4
        <5> QED BY <3>2, <4>4, <5>1 DEF Plain
      <4> QED BY <1>1, <4>1, <4>3, <4>4
    <3> QED BY <2>1, <3>1, <3>2
  <2>3. Unmarked(u, su) /\ Unmarked(v, sv) => Unmarked(s, st)
    BY <1>3, <2>1 DEF Unmarked
  <2>4. Emptied(u, su) /\ Emptied(v, sv) => Emptied(s, st)
    BY <1>3, <2>1 DEF Emptied
  <2>5. /\ Cooked(u, su) /\ Cooked(v, sv) => Cooked(s, st)
        /\ Uncommented(u, su) /\ Uncommented(v, sv) => Uncommented(s, st)
    <3>1. \A i \in 0 .. m : (i \in 0 .. n /\ i \in 0 .. Len(u)) \/ (i \in n .. m /\ i + d \in 0 .. Len(v))
      BY <1>1 DEF n
    <3> QED BY <1>3, <1>4, <3>1 DEF Cooked, Uncommented
  <2> QED BY <2>2, <2>3, <2>4, <2>5 DEF Inherits
<1>12. Continues(b, s, keep, st, lf, u, su, v, sv, lv)
  <2>1. \A i \in 0 .. Len(u) : st[i] = su[i]
    BY <1>4 DEF n
  <2> QED BY <1>3, <1>7, <1>10, <1>11, <2>1 DEF Continues
<1> QED BY <1>12 DEF s

(* A reading of u goes on with a token.                                       *)
ReadsMore(b, u, keep, su, lu, t, st, lf) ==
  /\ IsReading(b, Append(u, t), keep, st, lf)
  /\ \A i \in 0 .. Len(u) : st[i] = su[i] /\ lf[i] = lu[i]
  /\ st[Len(u) + 1] = After(su[Len(u)], t)
  /\ lf[Len(u) + 1] = lu[Len(u)] \o Left(su[Len(u)], t, keep)
  /\ Plain(u, su) /\ (InLiteral(su[Len(u)], t) =>
                        IF su[Len(u)] = "string" THEN t \in {"x", "//"} ELSE Len(u) > 0 /\ u[Len(u)] = "sq")
       => Plain(Append(u, t), st)
  /\ Unmarked(u, su) /\ (InLiteral(su[Len(u)], t) => t # "//") => Unmarked(Append(u, t), st)
  /\ Emptied(u, su) /\ ~InLiteral(su[Len(u)], t) => Emptied(Append(u, t), st)
  /\ Cooked(u, su) /\ After(su[Len(u)], t) \notin Raw => Cooked(Append(u, t), st)
  /\ Uncommented(u, su) /\ After(su[Len(u)], t) # "comment" => Uncommented(Append(u, t), st)

LEMMA ReadsToken ==
  ASSUME NEW b, NEW u \in Seq(Characters), NEW keep \in BOOLEAN, NEW su, NEW lu, IsReading(b, u, keep, su, lu),
         NEW t \in Characters, After(su[Len(u)], t) \in States
  PROVE  \E st, lf : ReadsMore(b, u, keep, su, lu, t, st, lf)
<1> DEFINE n == Len(u)
           s == Append(u, t)
           st == [i \in 0 .. n + 1 |-> IF i <= n THEN su[i] ELSE After(su[n], t)]
           lf == [i \in 0 .. n + 1 |-> IF i <= n THEN lu[i] ELSE lu[n] \o Left(su[n], t, keep)]
<1>1. n \in Nat /\ Len(s) = n + 1 /\ s[n + 1] = t /\ \A i \in 1 .. n : s[i] = u[i]
  OBVIOUS
<1>2. \A i \in 0 .. n : st[i] = su[i] /\ lf[i] = lu[i]
  BY <1>1
<1>3. st[n + 1] = After(su[n], t) /\ lf[n + 1] = lu[n] \o Left(su[n], t, keep)
  BY <1>1
<1>4. st \in [0 .. n + 1 -> States] /\ lf \in [0 .. n + 1 -> Seq(Characters)]
  <2>1. \A i \in 0 .. n : su[i] \in States /\ lu[i] \in Seq(Characters)
    BY DEF IsReading
  <2>2. \A i \in 0 .. n + 1 : i <= n => i \in 0 .. n
    BY <1>1
  <2>3. lu[n] \o Left(su[n], t, keep) \in Seq(Characters)
    BY <1>1, <2>1, LeftType
  <2>4. \A i \in 0 .. n + 1 : st[i] \in States /\ lf[i] \in Seq(Characters)
    BY <2>1, <2>2, <2>3
  <2> QED BY <2>4
<1>0. IsReading(b, u, keep, su, lu) /\ n = Len(u)
  OBVIOUS
<1> HIDE DEF s, st, lf, n
<1>5. \A i \in 1 .. n + 1 : (i \in 1 .. n /\ i - 1 \in 0 .. n /\ i \in 0 .. n) \/ (i = n + 1 /\ i - 1 = n)
  BY <1>1
<1>6. n \in 0 .. n
  BY <1>1
<1>7. IsReading(b, s, keep, st, lf)
  <2>1. su[0] = b /\ lu[0] = Begun(b)
        /\ \A i \in 1 .. n : su[i] = After(su[i - 1], u[i]) /\ lu[i] = lu[i - 1] \o Left(su[i - 1], u[i], keep)
    BY <1>0 DEF IsReading
  <2>2. st[0] = b /\ lf[0] = Begun(b)
    BY <1>1, <1>2, <2>1
  <2>3. \A i \in 1 .. n + 1 : st[i] = After(st[i - 1], s[i]) /\ lf[i] = lf[i - 1] \o Left(st[i - 1], s[i], keep)
    BY <1>1, <1>2, <1>3, <1>5, <1>6, <2>1
  <2> QED BY <1>1, <1>4, <2>2, <2>3 DEF IsReading
<1>8. Plain(u, su) /\ (InLiteral(su[n], t) =>
                         IF su[n] = "string" THEN t \in {"x", "//"} ELSE n > 0 /\ u[n] = "sq")
        => Plain(s, st)
  <2>1. \A i \in 1 .. n : i > 1 => i - 1 \in 1 .. n
    BY <1>1
  <2>2. n > 0 => n \in 1 .. n /\ n + 1 > 1
    BY <1>1
  <2> QED BY <1>0, <1>1, <1>2, <1>5, <1>6, <2>1, <2>2 DEF Plain
<1>9. /\ Unmarked(u, su) /\ (InLiteral(su[n], t) => t # "//") => Unmarked(s, st)
      /\ Emptied(u, su) /\ ~InLiteral(su[n], t) => Emptied(s, st)
  BY <1>0, <1>1, <1>2, <1>5, <1>6 DEF Unmarked, Emptied
<1>10. /\ Cooked(u, su) /\ After(su[n], t) \notin Raw => Cooked(s, st)
       /\ Uncommented(u, su) /\ After(su[n], t) # "comment" => Uncommented(s, st)
  <2>1. \A i \in 0 .. n + 1 : i \in 0 .. n \/ i = n + 1
    BY <1>1
  <2> QED BY <1>0, <1>1, <1>2, <1>3, <2>1 DEF Cooked, Uncommented
<1>11. ReadsMore(b, u, keep, su, lu, t, st, lf)
  <2>1. s = Append(u, t)
    BY DEF s
  <2> QED BY <1>0, <1>2, <1>3, <1>7, <1>8, <1>9, <1>10, <2>1 DEF ReadsMore
<1> QED BY <1>11

(* An empty string or character after code, or within a comment.              *)
HasEmpty(b, u, keep, su, lu, quote, s, st, lf) ==
  /\ IsReading(b, s, keep, st, lf)
  /\ st[Len(s)] = su[Len(u)]
  /\ lf[Len(s)] = IF su[Len(u)] = "code" THEN lu[Len(u)] \o <<quote, quote>> ELSE lu[Len(u)]
  /\ Inherits(s, st, u, su, u, su)

CanHaveEmpty(b, u, keep, su, lu, quote, s) == \E st, lf : HasEmpty(b, u, keep, su, lu, quote, s, st, lf)

LEMMA ReadsEmptyString ==
  ASSUME NEW b, NEW u \in Seq(Characters), NEW keep \in BOOLEAN, NEW su, NEW lu, IsReading(b, u, keep, su, lu),
         NEW quote \in {"dq", "sq"}, su[Len(u)] \in {"code", "comment"}
  PROVE  /\ u \o <<quote, quote>> \in Seq(Characters)
         /\ CanHaveEmpty(b, u, keep, su, lu, quote, u \o <<quote, quote>>)
<1> DEFINE n == Len(u)
           r == Append(u, quote)
           s == Append(r, quote)
           x == IF quote = "dq" THEN "string" ELSE "character"
<1>1. n \in Nat /\ quote \in Characters /\ r \in Seq(Characters) /\ s \in Seq(Characters)
      /\ Len(r) = n + 1 /\ Len(s) = n + 2 /\ s = u \o <<quote, quote>>
  BY DEF Characters
<1>0. Uncommented(u, su) => su[n] = "code"
  BY <1>1 DEF Uncommented
<1>2. /\ su[n] = "code" => After(su[n], quote) = x /\ After(x, quote) = "code"
      /\ su[n] = "comment" => After(su[n], quote) = "comment"
  BY DEF After
<1>3. x \in States /\ "code" \in States /\ "comment" \in States /\ x \in Literal /\ x \notin Raw
      /\ {"code", "comment"} \cap (Raw \cup Literal) = {} /\ x # "code" /\ x # "comment"
  BY DEF States, Literal, Raw
<1>4. After(su[n], quote) \in States
  BY <1>2, <1>3
<1>5. PICK sr, lr : ReadsMore(b, u, keep, su, lu, quote, sr, lr)
  BY <1>1, <1>4, ReadsToken
<1>6. /\ su[n] = "code" => sr[n + 1] = x
      /\ su[n] = "comment" => sr[n + 1] = "comment"
  BY <1>2, <1>5 DEF ReadsMore
<1>7. /\ su[n] = "code" => After(sr[n + 1], quote) = "code"
      /\ su[n] = "comment" => After(sr[n + 1], quote) = "comment"
  BY <1>2, <1>6
<1>8. ~InLiteral(su[n], quote) /\ ~InLiteral(sr[n + 1], quote)
  BY <1>2, <1>3, <1>6, <1>7 DEF InLiteral
<1>9. After(sr[n + 1], quote) \in States
  BY <1>3, <1>7
<1>10. PICK st, lf : ReadsMore(b, r, keep, sr, lr, quote, st, lf)
  <2>1. IsReading(b, r, keep, sr, lr)
    BY <1>5 DEF ReadsMore
  <2> QED BY <1>1, <1>9, <2>1, ReadsToken
<1>11. st[n + 2] = su[n] /\ IsReading(b, s, keep, st, lf)
       /\ lf[n + 2] = lr[n + 1] \o Left(sr[n + 1], quote, keep) /\ lr[n + 1] = lu[n] \o Left(su[n], quote, keep)
  <2>1. (n + 1) + 1 = n + 2
    BY <1>1
  <2> QED BY <1>1, <1>5, <1>7, <1>10, <2>1 DEF ReadsMore
<1>12. Inherits(s, st, u, su, u, su)
  <2>1. /\ Plain(u, su) => Plain(r, sr)
        /\ Unmarked(u, su) => Unmarked(r, sr)
        /\ Emptied(u, su) => Emptied(r, sr)
        /\ Cooked(u, su) => Cooked(r, sr)
        /\ Uncommented(u, su) => su[n] = "code" /\ Uncommented(r, sr)
    BY <1>0, <1>2, <1>3, <1>5, <1>8 DEF ReadsMore
  <2>2. /\ Plain(r, sr) => Plain(s, st)
        /\ Unmarked(r, sr) => Unmarked(s, st)
        /\ Emptied(r, sr) => Emptied(s, st)
        /\ Cooked(r, sr) => Cooked(s, st)
        /\ su[n] = "code" /\ Uncommented(r, sr) => Uncommented(s, st)
    BY <1>1, <1>3, <1>7, <1>8, <1>10 DEF ReadsMore
  <2> QED BY <2>1, <2>2 DEF Inherits
<1>13. lf[n + 2] = IF su[n] = "code" THEN lu[n] \o <<quote, quote>> ELSE lu[n]
  <2>1. lu[n] \in Seq(Characters)
    <3>1. n \in 0 .. Len(u)
      BY <1>1
    <3> HIDE DEF n
    <3> QED BY <3>1 DEF IsReading
  <2>2. su[n] = "code" => Left(su[n], quote, keep) = <<quote>> /\ Left(sr[n + 1], quote, keep) = <<quote>>
    BY <1>2, <1>3, <1>6, <1>7 DEF Left
  <2>3. su[n] = "comment" => Left(su[n], quote, keep) = <<>> /\ Left(sr[n + 1], quote, keep) = <<>>
    BY <1>2, <1>3, <1>6, <1>7 DEF Left
  <2>4. (lu[n] \o <<quote>>) \o <<quote>> = lu[n] \o <<quote, quote>> /\ (lu[n] \o <<>>) \o <<>> = lu[n]
    BY <1>1, <2>1
  <2> QED BY <1>11, <2>2, <2>3, <2>4
<1> HIDE DEF s, r
<1>14. HasEmpty(b, u, keep, su, lu, quote, s, st, lf)
  BY <1>1, <1>11, <1>12, <1>13 DEF HasEmpty, n
<1> QED BY <1>1, <1>14 DEF CanHaveEmpty

(* What tokens do not change stays.                                           *)
Idles(x, s, p, q) == \A i \in p + 1 .. q : After(x, s[i]) \in States => After(x, s[i]) = x
Remains(x, st, lf, p, q) == \A i \in p .. q : st[i] = x /\ lf[i] = lf[p]

LEMMA TextRemains ==
  ASSUME NEW b, NEW s \in Seq(Characters), NEW keep \in BOOLEAN, NEW st, NEW lf, IsReading(b, s, keep, st, lf),
         NEW p \in 0 .. Len(s), NEW q \in p .. Len(s), NEW x, st[p] = x, x # "code",
         x \notin Literal \/ keep = FALSE, Idles(x, s, p, q)
  PROVE  Remains(x, st, lf, p, q)
<1> DEFINE Same(i) == st[i] = x /\ lf[i] = lf[p]
           S == {i \in p .. q : ~Same(i)}
<1>1. p \in Nat /\ q \in Nat /\ Len(s) \in Nat /\ p <= q /\ q <= Len(s)
  OBVIOUS
<1>2. ASSUME S # {} PROVE FALSE
  <2>1. S \in SUBSET Nat
    BY <1>1
  <2>2. PICK i \in S : \A j \in S : i <= j
    BY <1>2, <2>1, LeastNumber
  <2>3. i \in p .. q /\ ~Same(i) /\ i \in Nat
    BY <1>1, <2>2
  <2>4. i # p
    BY <2>3
  <2>5. i - 1 \in p .. q /\ i - 1 < i /\ i \in p + 1 .. q /\ i \in 1 .. Len(s) /\ i - 1 \in 0 .. Len(s)
    BY <1>1, <2>3, <2>4
  <2>6. Same(i - 1)
    BY <2>2, <2>5
  <2>7. st[i] = After(st[i - 1], s[i]) /\ lf[i] = lf[i - 1] \o Left(st[i - 1], s[i], keep)
        /\ lf[i - 1] \in Seq(Characters) /\ st[i] \in States
    <3>1. i \in 0 .. Len(s)
      BY <2>5
    <3> QED BY <2>5, <3>1 DEF IsReading
  <2>8. st[i] = x
    BY <2>5, <2>6, <2>7 DEF Idles
  <2>9. Left(st[i - 1], s[i], keep) = <<>>
    <3>1. After(x, s[i]) = x /\ st[i - 1] = x
      BY <2>6, <2>7, <2>8
    <3> QED BY <3>1 DEF Left
  <2>10. lf[i - 1] \o <<>> = lf[i - 1]
    BY <2>7
  <2> QED BY <2>3, <2>6, <2>7, <2>8, <2>9, <2>10
<1> QED BY <1>2 DEF Remains

(* Comments do not end with the line.                                         *)
LEMMA CommentsStay ==
  ASSUME NEW b, NEW s \in Seq(Characters), NEW keep \in BOOLEAN, NEW st, NEW lf, IsReading(b, s, keep, st, lf),
         NEW p \in 0 .. Len(s), st[p] = "comment"
  PROVE  Remains("comment", st, lf, p, Len(s))
<1>1. \A t : After("comment", t) = "comment"
  BY DEF After
<1>2. "comment" \notin Literal /\ "comment" # "code"
  BY DEF Literal
<1>3. Idles("comment", s, p, Len(s)) /\ Len(s) \in p .. Len(s)
  BY <1>1 DEF Idles
<1> QED BY <1>2, <1>3, TextRemains

(* A state that a text does not begin in is entered.                          *)
EntersAt(T, s, st, j) ==
  st[j] \in T /\ st[j] = After(st[j - 1], s[j]) /\ \A k \in 0 .. j - 1 : st[k] \notin T

LEMMA Entered ==
  ASSUME NEW b, NEW s \in Seq(Characters), NEW keep \in BOOLEAN, NEW st, NEW lf, IsReading(b, s, keep, st, lf),
         NEW T, st[0] \notin T, NEW i \in 0 .. Len(s), st[i] \in T
  PROVE  \E j \in 1 .. i : EntersAt(T, s, st, j)
<1> DEFINE S == {j \in 0 .. i : st[j] \in T}
<1>1. i \in Nat /\ Len(s) \in Nat /\ i <= Len(s) /\ S \in SUBSET Nat /\ S # {}
  OBVIOUS
<1>2. PICK j \in S : \A k \in S : j <= k
  BY <1>1, LeastNumber
<1>3. j \in 0 .. i /\ st[j] \in T /\ j # 0
  BY <1>2
<1>4. j \in 1 .. i /\ j \in 1 .. Len(s)
  BY <1>1, <1>3
<1>5. \A k \in 0 .. j - 1 : k \in 0 .. i /\ ~(j <= k)
  BY <1>1, <1>4
<1>6. \A k \in 0 .. j - 1 : st[k] \notin T
  BY <1>2, <1>5
<1>7. st[j] = After(st[j - 1], s[j])
  BY <1>4 DEF IsReading
<1> QED BY <1>3, <1>4, <1>6, <1>7 DEF EntersAt

-------------------------------------------------------------------------------
(* CleanseRawStrings().  A text that has what is left of the line, and ends   *)
(* as the line does or where its raw string was.                              *)
RawOf(k) == IF k = 1 THEN "raw1" ELSE "raw2"

Opened(s, keep, d, left, last, pl, um) ==
  \E st, lf : /\ IsReading("code", s, keep, st, lf) /\ lf[Len(s)] = left
              /\ IF d = 0 THEN st[Len(s)] = last
                 ELSE st[Len(s)] = "code" /\ last = RawOf(d) /\ Cooked(s, st)
              /\ (pl => Plain(s, st)) /\ (um => Unmarked(s, st))

LEMMA RawTokens ==
  ASSUME NEW k \in {1, 2}, NEW keep \in BOOLEAN
  PROVE  /\ RawOf(k) \in Raw /\ RawOf(k) # "code" /\ RawOf(k) \notin Literal
         /\ After(RawOf(k), End(k)) = "code" /\ Left(RawOf(k), End(k), keep) = <<>>
         /\ \A t : t # End(k) => After(RawOf(k), t) = RawOf(k)
BY DEF RawOf, Raw, Literal, End, After, Left

(* After u, code so far, v goes on in a raw string from the token m on.       *)
IsOpenAfter(u, keep, su, lu, c, v, sv, lv, m, k, pl, um) ==
  /\ u \in Seq(Characters) /\ IsReading("code", u, keep, su, lu) /\ su[Len(u)] = "code" /\ Cooked(u, su)
  /\ v \in Seq(Characters) /\ IsReading(c, v, keep, sv, lv) /\ m \in 0 .. Len(v)
  /\ k \in {1, 2} /\ sv[m] = RawOf(k) /\ lv[m] = lu[Len(u)] \o EmptyString
  /\ (pl => Plain(u, su) /\ Plain(v, sv)) /\ (um => Unmarked(u, su) /\ Unmarked(v, sv))

RawStringEnded(keep, left, last, pl, um) ==
  /\ elided' \in Seq(Characters) /\ delimiter' \in {0, 1, 2}
  /\ Opened(elided', keep, delimiter', left, last, pl, um)

LEMMA RawStringEnds ==
  ASSUME NEW u, NEW keep \in BOOLEAN, NEW su, NEW lu, NEW c, NEW v, NEW sv, NEW lv, NEW m, NEW k,
         NEW pl \in BOOLEAN, NEW um \in BOOLEAN,
         IsOpenAfter(u, keep, su, lu, c, v, sv, lv, m, k, pl, um),
         EndRawString(u, Beyond(v, m), k)
  PROVE  RawStringEnded(keep, lv[Len(v)], sv[Len(v)], pl, um)
<1> DEFINE r == u \o EmptyString
           w == Beyond(v, m)
           ends == EndOfRawString(w, k)
<1>0. /\ u \in Seq(Characters) /\ IsReading("code", u, keep, su, lu) /\ su[Len(u)] = "code" /\ Cooked(u, su)
      /\ v \in Seq(Characters) /\ IsReading(c, v, keep, sv, lv) /\ m \in 0 .. Len(v)
      /\ k \in {1, 2} /\ sv[m] = RawOf(k) /\ lv[m] = lu[Len(u)] \o EmptyString
      /\ (pl => Plain(u, su) /\ Plain(v, sv)) /\ (um => Unmarked(u, su) /\ Unmarked(v, sv))
  BY DEF IsOpenAfter
<1> USE <1>0
<1>1. m \in Nat /\ Len(v) \in Nat /\ m <= Len(v) /\ r \in Seq(Characters) /\ r = u \o <<"dq", "dq">>
  BY DEF EmptyString, Characters
<1>2. PICK sr, lr : /\ IsReading("code", r, keep, sr, lr) /\ sr[Len(r)] = "code"
                    /\ lr[Len(r)] = lu[Len(u)] \o EmptyString /\ Inherits(r, sr, u, su, u, su)
  <2>1. "dq" \in {"dq", "sq"} /\ su[Len(u)] \in {"code", "comment"}
    OBVIOUS
  <2>2. PICK sr, lr : HasEmpty("code", u, keep, su, lu, "dq", r, sr, lr)
    BY <1>1, <2>1, ReadsEmptyString DEF CanHaveEmpty
  <2> QED BY <2>2 DEF HasEmpty, EmptyString
<1>3. w \in Seq(Characters) /\ Len(w) = Len(v) - m /\ \A j \in 1 .. Len(v) - m : w[j] = v[j + m]
  BY Pieces
<1>4. ends = {j \in 1 .. Len(v) - m : w[j] = End(k)}
  BY <1>3 DEF EndOfRawString, Where
<1> HIDE DEF r, w, ends
<1>5. ASSUME NEW q \in m .. Len(v), \A j \in 1 .. q - m : j \notin ends
      PROVE  sv[q] = RawOf(k) /\ lv[q] = lv[m]
  <2>1. ASSUME NEW i \in m + 1 .. q PROVE v[i] # End(k)
    <3>1. i - m \in 1 .. q - m /\ i - m \in 1 .. Len(v) - m /\ (i - m) + m = i
      BY <1>1
    <3> QED BY <1>3, <1>4, <1>5, <3>1
  <2>2. Idles(RawOf(k), v, m, q)
    BY <2>1, RawTokens DEF Idles
  <2>3. Remains(RawOf(k), sv, lv, m, q)
    BY <2>2, RawTokens, TextRemains
  <2>4. q \in m .. q
    BY <1>1
  <2> QED BY <2>3, <2>4 DEF Remains
<1>6. CASE ends = {}
  <2>1. Len(v) \in m .. Len(v)
    BY <1>1
  <2>2. sv[Len(v)] = RawOf(k) /\ lv[Len(v)] = lv[m]
    BY <1>5, <1>6, <2>1
  <2>3. elided' = r /\ delimiter' = k
    BY <1>6 DEF EndRawString, r, w, ends
  <2>4. Opened(r, keep, k, lv[Len(v)], sv[Len(v)], pl, um)
    BY <1>2, <2>2 DEF Opened, Inherits
  <2> QED BY <1>1, <2>3, <2>4 DEF RawStringEnded
<1>7. CASE ends # {}
  <2> DEFINE e == Min(ends)
  <2>1. ends \in SUBSET Nat
    BY <1>1, <1>4
  <2>2. e \in ends /\ \A j \in ends : e <= j
    BY <1>7, <2>1, LeastNumber
  <2>3. e \in 1 .. Len(v) - m /\ w[e] = End(k)
    BY <1>4, <2>2
  <2>4. elided' = r \o Beyond(w, e) /\ delimiter' = 0
    BY <1>7 DEF EndRawString, r, w, ends
  <2> HIDE DEF e
  <2>5. e \in Nat /\ m + e \in 1 .. Len(v) /\ (m + e) - 1 \in m .. Len(v) /\ ((m + e) - 1) - m = e - 1
        /\ m + e \in 0 .. Len(v)
    BY <1>1, <2>3
  <2>6. \A j \in 1 .. e - 1 : j \notin ends
    BY <2>2, <2>5
  <2>7. sv[(m + e) - 1] = RawOf(k) /\ lv[(m + e) - 1] = lv[m]
    BY <1>5, <2>5, <2>6
  <2>8. v[m + e] = End(k)
    BY <1>1, <1>3, <2>3, <2>5
  <2>9. /\ sv[m + e] = After(sv[(m + e) - 1], v[m + e])
        /\ lv[m + e] = lv[(m + e) - 1] \o Left(sv[(m + e) - 1], v[m + e], keep)
        /\ lv[(m + e) - 1] \in Seq(Characters)
    <3>1. (m + e) - 1 \in 0 .. Len(v)
      BY <1>1, <2>5
    <3> QED BY <2>5, <3>1 DEF IsReading
  <2>10. sv[m + e] = "code" /\ lv[m + e] = lv[m]
    <3>1. lv[m] \o <<>> = lv[m]
      BY <2>7, <2>9
    <3> QED BY <2>7, <2>8, <2>9, <3>1, RawTokens
  <2>11. Beyond(w, e) = Beyond(v, m + e)
    <3>1. Beyond(w, e) \in Seq(Characters) /\ Len(Beyond(w, e)) = (Len(v) - m) - e
          /\ \A j \in 1 .. (Len(v) - m) - e : Beyond(w, e)[j] = w[j + e]
      <4>1. e \in 0 .. Len(w) /\ Len(w) = Len(v) - m
        BY <1>3, <2>3, <2>5
      <4>2. /\ Beyond(w, e) \in Seq(Characters) /\ Len(Beyond(w, e)) = Len(w) - e
            /\ \A j \in 1 .. Len(w) - e : Beyond(w, e)[j] = w[j + e]
        BY <1>3, <4>1, Pieces
      <4> QED BY <4>1, <4>2
    <3>2. Beyond(v, m + e) \in Seq(Characters) /\ Len(Beyond(v, m + e)) = Len(v) - (m + e)
          /\ \A j \in 1 .. Len(v) - (m + e) : Beyond(v, m + e)[j] = v[j + (m + e)]
      BY <2>5, Pieces
    <3>3. (Len(v) - m) - e = Len(v) - (m + e)
      BY <1>1, <2>5
    <3>4. \A j \in 1 .. Len(v) - (m + e) : j + e \in 1 .. Len(v) - m /\ (j + e) + m = j + (m + e)
      BY <1>1, <2>5
    <3>5. \A j \in 1 .. Len(v) - (m + e) : Beyond(w, e)[j] = Beyond(v, m + e)[j]
      BY <1>3, <3>1, <3>2, <3>3, <3>4
    <3> QED BY <3>1, <3>2, <3>3, <3>5, SeqEqual
  <2>12. "code" \notin Literal
    BY DEF Literal
  <2>13. PICK st, lf : Continues("code", r \o Beyond(v, m + e), keep, st, lf, r, sr, v, sv, lv)
    <3>1. sr[Len(r)] = sv[m + e] /\ lr[Len(r)] = lv[m + e] /\ sv[m + e] \notin Literal
      BY <1>2, <2>10, <2>12
    <3>2. r \in Seq(Characters) /\ IsReading("code", r, keep, sr, lr) /\ m + e \in 0 .. Len(v)
      BY <1>1, <1>2, <2>5
    <3> QED BY <3>1, <3>2, ReadsOn
  <2>14. Opened(r \o Beyond(v, m + e), keep, 0, lv[Len(v)], sv[Len(v)], pl, um)
    <3>1. (pl => Plain(r \o Beyond(v, m + e), st)) /\ (um => Unmarked(r \o Beyond(v, m + e), st))
      BY <1>2, <2>13 DEF Inherits, Continues
    <3> QED BY <2>13, <3>1 DEF Opened, Continues
  <2>15. r \o Beyond(v, m + e) \in Seq(Characters)
    <3>1. Beyond(v, m + e) \in Seq(Characters)
      BY <2>5, Pieces
    <3> QED BY <1>1, <3>1
  <2> QED BY <2>4, <2>11, <2>14, <2>15 DEF RawStringEnded
<1> QED BY <1>6, <1>7

(* A raw string begins in code.                                               *)
LEMMA RawEntered ==
  ASSUME NEW s \in Seq(Characters), NEW keep \in BOOLEAN, NEW st, NEW lf, IsReading("code", s, keep, st, lf),
         NEW i \in 0 .. Len(s), st[i] \in Raw
  PROVE  \E j \in 1 .. i : j \in RawStrings(s) /\ st[j - 1] = "code" /\ \A k \in 0 .. j - 1 : st[k] \notin Raw
<1>1. st[0] \notin Raw
  BY DEF IsReading, Raw
<1>2. PICK j \in 1 .. i : /\ st[j] \in Raw /\ st[j] = After(st[j - 1], s[j])
                          /\ \A k \in 0 .. j - 1 : st[k] \notin Raw
  <2>1. PICK j \in 1 .. i : EntersAt(Raw, s, st, j)
    BY <1>1, Entered
  <2> QED BY <2>1 DEF EntersAt
<1>3. j - 1 \in 0 .. j - 1 /\ j - 1 \in 0 .. Len(s) /\ j \in 1 .. Len(s)
  OBVIOUS
<1>4. st[j - 1] \in States \ Raw
  BY <1>2, <1>3 DEF IsReading
<1>5. st[j - 1] = "code" /\ s[j] \in {"R1", "R2"}
  BY <1>2, <1>4 DEF After, States, Raw, Quote
<1>6. j \in RawStrings(s)
  BY <1>3, <1>5 DEF RawStrings, Where, Start
<1> QED BY <1>2, <1>5, <1>6

(* What InComment() follows: the quote that a prefix is in after each token.  *)
Follows(quoted, s) ==
  /\ quoted[0] = "no"
  /\ \A i \in 1 .. Len(s) :
       quoted[i] = IF quoted[i - 1] = "no" THEN Quote(s[i])
                   ELSE IF Quote(s[i]) = quoted[i - 1] THEN "no" ELSE quoted[i - 1]

LEMMA QuotesAreFollowed ==
  ASSUME NEW s \in Seq(Characters)
  PROVE  \E quoted : /\ Follows(quoted, s)
                     /\ InComment(s) <=> \E j \in 1 .. Len(s) : s[j] = "//" /\ quoted[j - 1] = "no"
<1> DEFINE Step(quoted, i) ==
             IF i = 0 THEN "no"
             ELSE IF quoted[i - 1] = "no" THEN Quote(s[i])
             ELSE IF Quote(s[i]) = quoted[i - 1] THEN "no" ELSE quoted[i - 1]
           Is(quoted, n) == quoted = [i \in 0 .. n |-> Step(quoted, i)]
           S == {n \in 0 .. Len(s) : ~ \E quoted : Is(quoted, n)}
<1>1. Len(s) \in Nat /\ DOMAIN s = 1 .. Len(s)
  OBVIOUS
<1>2. ASSUME S # {} PROVE FALSE
  <2>1. S \in SUBSET Nat
    BY <1>1
  <2>2. PICK n \in S : \A m \in S : n <= m
    BY <1>2, <2>1, LeastNumber
  <2>3. CASE n = 0
    <3>1. Is([i \in 0 .. 0 |-> "no"], 0)
      OBVIOUS
    <3> QED BY <2>2, <2>3, <3>1
  <2>4. CASE n # 0
    <3>1. n - 1 \in 0 .. Len(s) /\ n - 1 \notin S /\ n \in Nat /\ n - 1 \in Nat
      <4>1. n \in 0 .. Len(s)
        BY <2>2
      <4>2. n \in Nat /\ n - 1 \in Nat /\ n - 1 \in 0 .. Len(s) /\ ~(n <= n - 1)
        BY <1>1, <2>4, <4>1
      <4> HIDE DEF S
      <4> QED BY <2>2, <4>2
    <3>2. PICK f : Is(f, n - 1)
      BY <3>1
    <3> DEFINE g == [i \in 0 .. n |-> IF i = n THEN Step(f, n) ELSE f[i]]
    <3>3. ASSUME NEW i \in 0 .. n PROVE g[i] = Step(g, i)
      <4>1. i # 0 => i - 1 \in 0 .. n /\ i - 1 # n /\ g[i - 1] = f[i - 1]
        BY <3>1
      <4>2. Step(g, i) = Step(f, i)
        BY <4>1
      <4>3. CASE i = n
        BY <4>2, <4>3
      <4>4. CASE i # n
        <5>1. i \in 0 .. n - 1
          BY <3>1, <4>4
        <5>2. f[i] = Step(f, i)
          BY <3>2, <5>1
        <5> QED BY <4>2, <4>4, <5>2
      <4> QED BY <4>3, <4>4
    <3>4. g = [i \in 0 .. n |-> g[i]]
      OBVIOUS
    <3>5. Is(g, n)
      BY <3>3, <3>4
    <3> QED BY <2>2, <3>5
  <2> QED BY <2>3, <2>4
<1>3. Len(s) \in 0 .. Len(s)
  BY <1>1
<1>4. \E quoted : Is(quoted, Len(s))
  BY <1>2, <1>3
<1> DEFINE f == CHOOSE quoted : Is(quoted, Len(s))
<1>5. Is(f, Len(s))
  BY <1>4
<1>6. InComment(s) <=> \E j \in 1 .. Len(s) : s[j] = "//" /\ f[j - 1] = "no"
  BY <1>1 DEF InComment
<1> HIDE DEF f
<1>7. \A i \in 0 .. Len(s) : f[i] = Step(f, i)
  BY <1>5
<1>8. Follows(f, s)
  <2>1. \A i \in 1 .. Len(s) : i \in 0 .. Len(s) /\ i # 0
    OBVIOUS
  <2>2. f[0] = "no"
    BY <1>1, <1>7
  <2>3. \A i \in 1 .. Len(s) :
          f[i] = IF f[i - 1] = "no" THEN Quote(s[i])
                 ELSE IF Quote(s[i]) = f[i - 1] THEN "no" ELSE f[i - 1]
    BY <1>7, <2>1
  <2> QED BY <2>2, <2>3 DEF Follows
<1> QED BY <1>6, <1>8

(* Outside of raw strings that is the quote that C++ is in, until a comment   *)
(* begins.                                                                    *)
QuoteOf(x) == IF x = "string" THEN "dq" ELSE IF x = "character" THEN "sq" ELSE "no"

LEMMA QuotesAgree ==
  ASSUME NEW x \in States \ (Raw \cup {"comment"}), NEW t \in Characters, After(x, t) \in States \ (Raw \cup {"comment"})
  PROVE  QuoteOf(After(x, t)) = IF QuoteOf(x) = "no" THEN Quote(t)
                                ELSE IF Quote(t) = QuoteOf(x) THEN "no" ELSE QuoteOf(x)
<1>1. CASE x = "code"
  BY <1>1 DEF QuoteOf, Quote, After, Characters, States, Raw
<1>2. CASE x = "string"
  BY <1>2 DEF QuoteOf, Quote, After, Characters, States, Raw
<1>3. CASE x = "character"
  BY <1>3 DEF QuoteOf, Quote, After, Characters, States, Raw
<1>4. CASE x = "block"
  BY <1>4, BlocksAssumption DEF QuoteOf, Quote, After, Characters, States, Raw
<1> QED BY <1>1, <1>2, <1>3, <1>4 DEF States, Raw

LEMMA CommentsAreFound ==
  ASSUME NEW s \in Seq(Characters), NEW keep \in BOOLEAN, NEW st, NEW lf, IsReading("code", s, keep, st, lf),
         NEW n \in 0 .. Len(s), \A i \in 0 .. n : st[i] \notin Raw
  PROVE  InComment(UpTo(s, n)) <=> \E i \in 0 .. n : st[i] = "comment"
<1>1. n \in Nat /\ Len(s) \in Nat /\ n <= Len(s)
  OBVIOUS
<1>2. UpTo(s, n) \in Seq(Characters) /\ Len(UpTo(s, n)) = n /\ \A i \in 1 .. n : UpTo(s, n)[i] = s[i]
  BY Pieces
<1>3. PICK quoted : /\ Follows(quoted, UpTo(s, n))
                    /\ InComment(UpTo(s, n)) <=>
                         \E j \in 1 .. n : UpTo(s, n)[j] = "//" /\ quoted[j - 1] = "no"
  BY <1>2, QuotesAreFollowed
<1>4. /\ quoted[0] = "no"
      /\ \A i \in 1 .. n : quoted[i] = IF quoted[i - 1] = "no" THEN Quote(s[i])
                                       ELSE IF Quote(s[i]) = quoted[i - 1] THEN "no" ELSE quoted[i - 1]
  BY <1>2, <1>3 DEF Follows
<1>5. \A i \in 1 .. n : /\ i \in 1 .. Len(s) /\ i - 1 \in 0 .. n /\ i \in 0 .. n
                        /\ st[i] = After(st[i - 1], s[i]) /\ st[i] \in States /\ st[i - 1] \in States
                        /\ s[i] \in Characters
  <2>1. \A i \in 1 .. n : i \in 1 .. Len(s) /\ i - 1 \in 0 .. n /\ i \in 0 .. n /\ i \in 0 .. Len(s) /\ i - 1 \in 0 .. Len(s)
    BY <1>1
  <2>2. \A i \in 1 .. Len(s) : st[i] = After(st[i - 1], s[i])
    BY DEF IsReading
  <2>3. \A i \in 0 .. Len(s) : st[i] \in States
    BY DEF IsReading
  <2>4. \A i \in 1 .. Len(s) : s[i] \in Characters
    OBVIOUS
  <2> QED BY <2>1, <2>2, <2>3, <2>4
<1>6. ASSUME NEW q \in 0 .. n, \A i \in 0 .. q : st[i] # "comment"
      PROVE  quoted[q] = QuoteOf(st[q])
  <2> DEFINE S == {i \in 0 .. q : quoted[i] # QuoteOf(st[i])}
  <2>1. ASSUME S # {} PROVE FALSE
    <3>1. S \in SUBSET Nat /\ q \in Nat
      BY <1>1
    <3>2. PICK i \in S : \A j \in S : i <= j
      BY <2>1, <3>1, LeastNumber
    <3>3. i # 0
      BY <1>4, <3>2 DEF QuoteOf, IsReading
    <3>4. i \in 1 .. n /\ i - 1 \in 0 .. q /\ i \in 0 .. q /\ ~(i <= i - 1) /\ i \in 0 .. n /\ i - 1 \in 0 .. n
      BY <1>1, <3>1, <3>2, <3>3
    <3>5. quoted[i - 1] = QuoteOf(st[i - 1])
      BY <3>2, <3>4
    <3>6. st[i - 1] \in States \ (Raw \cup {"comment"}) /\ st[i] \in States \ (Raw \cup {"comment"})
      BY <1>5, <1>6, <3>4
    <3>7. QuoteOf(st[i]) = IF QuoteOf(st[i - 1]) = "no" THEN Quote(s[i])
                           ELSE IF Quote(s[i]) = QuoteOf(st[i - 1]) THEN "no" ELSE QuoteOf(st[i - 1])
      BY <1>5, <3>4, <3>6, QuotesAgree
    <3>8. quoted[i] = QuoteOf(st[i])
      BY <1>4, <3>4, <3>5, <3>7
    <3> QED BY <3>2, <3>8
  <2>2. q \in 0 .. q
    OBVIOUS
  <2> QED BY <2>1, <2>2
<1>7. ASSUME NEW i \in 0 .. n, st[i] = "comment" PROVE InComment(UpTo(s, n))
  <2>1. i \in 0 .. Len(s) /\ st[0] \notin {"comment"} /\ st[i] \in {"comment"}
    BY <1>1, <1>7 DEF IsReading
  <2>2. PICK j \in 1 .. i : EntersAt({"comment"}, s, st, j)
    BY <2>1, Entered
  <2>3. j \in 1 .. n /\ j - 1 \in 0 .. n /\ j - 1 \in 0 .. j - 1
    BY <1>1
  <2>4. st[j] = "comment" /\ st[j] = After(st[j - 1], s[j]) /\ st[j - 1] # "comment"
        /\ \A k \in 0 .. j - 1 : st[k] # "comment"
    BY <2>2, <2>3 DEF EntersAt
  <2>5. st[j - 1] = "code" /\ s[j] = "//"
    <3>1. st[j - 1] \in States /\ st[j - 1] \notin Raw
      BY <1>5, <2>3
    <3> QED BY <2>4, <3>1 DEF After, States, Raw
  <2>6. quoted[j - 1] = "no"
    BY <1>6, <2>3, <2>4, <2>5 DEF QuoteOf
  <2> QED BY <1>2, <1>3, <2>3, <2>5, <2>6
<1>8. ASSUME InComment(UpTo(s, n)), \A i \in 0 .. n : st[i] # "comment" PROVE FALSE
  <2>1. PICK j \in 1 .. n : s[j] = "//" /\ quoted[j - 1] = "no"
    BY <1>2, <1>3, <1>8
  <2>2. j - 1 \in 0 .. n /\ j \in 0 .. n /\ \A i \in 0 .. j - 1 : i \in 0 .. n
    BY <1>1
  <2>3. QuoteOf(st[j - 1]) = "no"
    BY <1>6, <1>8, <2>1, <2>2
  <2>4. st[j - 1] \in {"code", "block"} /\ st[j] = After(st[j - 1], "//") /\ st[j] \in States /\ st[j] # "comment"
    BY <1>5, <1>8, <2>1, <2>2, <2>3 DEF QuoteOf, States, Raw
  <2> QED BY <2>4, BlocksAssumption DEF After, States
<1> QED BY <1>7, <1>8

(* The first raw string of a text, if it is outside of comments, begins in    *)
(* code, and otherwise no raw string does.                                    *)
LEMMA RawStringBegins ==
  ASSUME NEW s \in Seq(Characters), NEW keep \in BOOLEAN, NEW st, NEW lf, IsReading("code", s, keep, st, lf),
         NEW at, at = Min(RawStrings(s)), RawStrings(s) # {}
  PROVE  /\ at \in 1 .. Len(s) /\ s[at] \in {"R1", "R2"}
         /\ \A i \in 0 .. at - 1 : st[i] \notin Raw
         /\ ~InComment(UpTo(s, at - 1)) =>
              /\ st[at - 1] = "code" /\ st[at] = RawOf(IF s[at] = Start(1) THEN 1 ELSE 2)
              /\ lf[at] = lf[at - 1] \o EmptyString
<1>1. RawStrings(s) = {i \in 1 .. Len(s) : s[i] \in {"R1", "R2"}} /\ Len(s) \in Nat
  BY DEF RawStrings, Where, Start
<1>2. RawStrings(s) \in SUBSET Nat
  BY <1>1
<1>3. at \in RawStrings(s) /\ \A j \in RawStrings(s) : at <= j
  BY <1>2, LeastNumber
<1>4. at \in 1 .. Len(s) /\ s[at] \in {"R1", "R2"} /\ at - 1 \in 0 .. Len(s) /\ at - 1 \in 0 .. at - 1
  BY <1>1, <1>3
<1>5. ASSUME NEW i \in 0 .. at - 1, st[i] \in Raw PROVE FALSE
  <2>1. i \in 0 .. Len(s)
    BY <1>1, <1>4
  <2>2. PICK j \in 1 .. i : j \in RawStrings(s)
    BY <1>5, <2>1, RawEntered
  <2>3. at <= j
    BY <1>3, <2>2
  <2> QED BY <1>4, <2>3
<1>6. ASSUME ~InComment(UpTo(s, at - 1))
      PROVE  /\ st[at - 1] = "code" /\ st[at] = RawOf(IF s[at] = Start(1) THEN 1 ELSE 2)
             /\ lf[at] = lf[at - 1] \o EmptyString
  <2>1. \A i \in 0 .. at - 1 : st[i] # "comment"
    BY <1>4, <1>5, <1>6, CommentsAreFound
  <2>2. st[at - 1] \in States \ (Raw \cup {"comment"}) /\ st[at] \in States
    <3>1. at \in 0 .. Len(s)
      BY <1>4
    <3> QED BY <1>4, <1>5, <2>1, <3>1 DEF IsReading
  <2>3. /\ st[at] = After(st[at - 1], s[at])
        /\ lf[at] = lf[at - 1] \o Left(st[at - 1], s[at], keep)
    BY <1>4 DEF IsReading
  <2>4. st[at - 1] = "code"
    BY <1>4, <2>2, <2>3, BlocksAssumption DEF After, States, Raw, Quote
  <2>5. st[at] = RawOf(IF s[at] = Start(1) THEN 1 ELSE 2) /\ st[at] \in Raw
    BY <1>4, <2>3, <2>4 DEF After, RawOf, Start, Raw
  <2>6. Left("code", s[at], keep) = EmptyString
    BY <2>3, <2>4, <2>5 DEF Left
  <2> QED BY <2>3, <2>4, <2>5, <2>6
<1> QED BY <1>4, <1>5, <1>6

LEMMA NoRawStringBegins ==
  ASSUME NEW s \in Seq(Characters), NEW keep \in BOOLEAN, NEW st, NEW lf, IsReading("code", s, keep, st, lf),
         RawStrings(s) = {} \/ InComment(UpTo(s, Min(RawStrings(s)) - 1))
  PROVE  Cooked(s, st)
<1>1. SUFFICES ASSUME NEW i \in 0 .. Len(s), st[i] \in Raw PROVE FALSE
  BY DEF Cooked
<1>2. PICK j \in 1 .. i : j \in RawStrings(s) /\ st[j - 1] = "code"
  BY <1>1, RawEntered
<1>3. PICK at : at = Min(RawStrings(s))
  OBVIOUS
<1>4. at \in 1 .. Len(s) /\ (\A k \in 0 .. at - 1 : st[k] \notin Raw) /\ at - 1 \in 0 .. Len(s)
  BY <1>2, <1>3, RawStringBegins
<1>5. at <= j
  <2>1. RawStrings(s) \in SUBSET Nat
    BY DEF RawStrings, Where
  <2> QED BY <1>2, <1>3, <2>1, LeastNumber
<1>6. PICK k \in 0 .. at - 1 : st[k] = "comment"
  BY <1>2, <1>3, <1>4, CommentsAreFound
<1>7. k \in 0 .. Len(s) /\ j - 1 \in k .. Len(s)
  BY <1>4, <1>5
<1>8. st[j - 1] = "comment"
  <2>1. Remains("comment", st, lf, k, Len(s))
    BY <1>6, <1>7, CommentsStay
  <2> QED BY <1>7, <2>1 DEF Remains
<1> QED BY <1>2, <1>8

-------------------------------------------------------------------------------
(* CleanseComments().  The quotes that IsCppString() counts, and those in     *)
(* characters that it does not.                                               *)
DoubleQuotes == {"dq", "R1", "R2", ")1", ")2"}
Quoted(s, i) == i > 2 /\ s[i] = "sq" /\ s[i - 1] = "dq" /\ s[i - 2] = "sq"
Single(s) == [i \in Nat |-> IF Quoted(s, i) THEN "dq" ELSE "no"]
Odd(s, i) == (Among(s, i, DoubleQuotes) - Among(Single(s), i, {"dq"})) % 2 = 1

(* None of them begins where another ends.                                    *)
Apart(s, n) == \A i \in 1 .. n : Quoted(s, i) => ~Quoted(s, i - 2)

LEMMA QuotesAreCounted ==
  ASSUME NEW s \in Seq(Characters), NEW n \in 0 .. Len(s), Apart(s, n)
  PROVE  IsCppString(UpTo(s, n)) <=> Odd(s, n)
<1> DEFINE u == UpTo(s, n)
           Counts(i, before) == /\ i > 2 /\ u[i] = "sq" /\ u[i - 1] = "dq" /\ u[i - 2] = "sq"
                                /\ ~before
           Is(f) == f = [i \in DOMAIN u |-> Counts(i, f[i - 2])]
           counted == CHOOSE f : Is(f)
<1>1. n \in Nat /\ Len(s) \in Nat /\ n <= Len(s)
  OBVIOUS
<1>2. DOMAIN u = 1 .. n /\ \A i \in 1 .. n : u[i] = s[i]
  <2>1. u \in Seq(Characters) /\ Len(u) = n /\ \A i \in 1 .. n : u[i] = s[i]
    BY Pieces
  <2> QED BY <2>1
<1> HIDE DEF u
<1>3. \A t : Quote(t) = "dq" <=> t \in DoubleQuotes
  BY DEF Quote, DoubleQuotes
<1>4. {i \in DOMAIN u : Quote(u[i]) = "dq"} = {i \in 1 .. n : s[i] \in DoubleQuotes}
  BY <1>2, <1>3
<1>5. ASSUME NEW i \in 1 .. n, NEW before, before <=> Quoted(s, i - 2) /\ i > 2
      PROVE  Counts(i, before) <=> Quoted(s, i)
  <2>1. i > 2 => i - 1 \in 1 .. n /\ i - 2 \in 1 .. n
    BY <1>1
  <2>2. Quoted(s, i) <=> i > 2 /\ u[i] = "sq" /\ u[i - 1] = "dq" /\ u[i - 2] = "sq"
    BY <1>2, <2>1 DEF Quoted
  <2>3. Quoted(s, i) => ~Quoted(s, i - 2)
    BY DEF Apart
  <2> QED BY <1>5, <2>2, <2>3
<1>6. \E f : Is(f)
  <2> DEFINE f == [i \in 1 .. n |-> Quoted(s, i)]
  <2>1. ASSUME NEW i \in 1 .. n PROVE Counts(i, f[i - 2]) = Quoted(s, i)
    <3>1. CASE i > 2
      <4>1. i - 2 \in 1 .. n
        BY <1>1, <3>1
      <4>2. f[i - 2] <=> Quoted(s, i - 2) /\ i > 2
        BY <3>1, <4>1
      <4> HIDE DEF f
      <4>3. Counts(i, f[i - 2]) <=> Quoted(s, i)
        BY <1>5, <4>2
      <4> QED BY <4>3 DEF Quoted
    <3>2. CASE ~(i > 2)
      <4> HIDE DEF f
      <4>1. Counts(i, f[i - 2]) <=> Quoted(s, i)
        BY <3>2 DEF Quoted
      <4> QED BY <4>1 DEF Quoted
    <3> QED BY <3>1, <3>2
  <2>2. Is(f)
    BY <1>2, <2>1
  <2> QED BY <2>2
<1>7. Is(counted)
  BY <1>6
<1> HIDE DEF counted
<1>8. \A i \in 1 .. n : counted[i] = Counts(i, counted[i - 2])
  BY <1>2, <1>7
<1>9. \A i \in 1 .. n : counted[i] <=> Counts(i, counted[i - 2])
  <2> TAKE i \in 1 .. n
  <2>1. PICK b : b = counted[i - 2]
    OBVIOUS
  <2>2. counted[i] = Counts(i, b)
    BY <1>8, <2>1
  <2>3. Counts(i, b) \in BOOLEAN
    OBVIOUS
  <2> HIDE DEF Counts
  <2>4. counted[i] <=> Counts(i, b)
    BY <2>2, <2>3
  <2> QED BY <2>1, <2>4
<1>10. \A i \in 1 .. n : counted[i] <=> Quoted(s, i)
  <2>1. \A i \in 1 .. n : counted[i] => Quoted(s, i)
    BY <1>2, <1>9 DEF Quoted
  <2> TAKE i \in 1 .. n
  <2>2. CASE i > 2
    <3>1. i - 2 \in 1 .. n
      BY <1>1, <2>2
    <3>2. counted[i - 2] => Quoted(s, i - 2)
      BY <2>1, <3>1
    <3>3. Quoted(s, i) => Counts(i, counted[i - 2])
      BY <1>1, <1>2, <2>2, <3>1, <3>2 DEF Quoted, Apart
    <3> QED BY <1>9, <2>1, <3>3
  <2>3. CASE ~(i > 2)
    BY <1>9, <2>3 DEF Quoted
  <2> QED BY <2>2, <2>3
<1>11. {i \in DOMAIN u : counted[i]} = {i \in 1 .. n : Single(s)[i] \in {"dq"}}
  <2>1. \A i \in 1 .. n : Single(s)[i] \in {"dq"} <=> Quoted(s, i)
    BY <1>1 DEF Single
  <2> QED BY <1>2, <1>10, <2>1
<1> QED BY <1>4, <1>11 DEF IsCppString, Odd, Among, u, counted

(* A double quote between single quotes is a character of C++.                *)
LEMMA QuotedCharacters ==
  ASSUME NEW s \in Seq(Characters), NEW keep \in BOOLEAN, NEW st, NEW lf, IsReading("code", s, keep, st, lf),
         Plain(s, st), NEW i \in 1 .. Len(s), \A j \in 0 .. i : st[j] \notin Raw \cup {"comment"}
  PROVE  Quoted(s, i) <=> i > 1 /\ st[i - 1] = "character" /\ s[i - 1] = "dq" /\ s[i] = "sq"
<1>1. \A j \in 1 .. i : /\ j \in 1 .. Len(s) /\ j \in 0 .. i /\ j - 1 \in 0 .. i
                        /\ st[j] = After(st[j - 1], s[j]) /\ s[j] \in Characters
                        /\ st[j] \in States \ (Raw \cup {"comment"})
                        /\ st[j - 1] \in States \ (Raw \cup {"comment"})
  <2>1. \A j \in 1 .. i : j \in 1 .. Len(s) /\ j \in 0 .. i /\ j - 1 \in 0 .. i /\ j \in 0 .. Len(s) /\ j - 1 \in 0 .. Len(s)
    OBVIOUS
  <2>2. \A j \in 0 .. Len(s) : st[j] \in States
    BY DEF IsReading
  <2>3. \A j \in 1 .. Len(s) : s[j] \in Characters
    OBVIOUS
  <2>4. \A j \in 1 .. Len(s) : st[j] = After(st[j - 1], s[j])
    BY DEF IsReading
  <2> QED BY <2>1, <2>2, <2>3, <2>4
<1>2. Quoted(s, i) <=> i > 2 /\ s[i] = "sq" /\ s[i - 1] = "dq" /\ s[i - 2] = "sq"
  BY DEF Quoted
<1>3. st[0] = "code" /\ i \in Nat /\ i \in 1 .. i
  BY DEF IsReading
<1>4. i > 1 => i - 1 \in 1 .. i /\ i - 1 \in 1 .. Len(s) /\ (i - 1) - 1 = i - 2
  OBVIOUS
<1>5. i > 2 => i - 2 \in 1 .. i /\ (i - 2) - 1 = i - 3 /\ i > 1 /\ i - 2 \in 1 .. Len(s)
  OBVIOUS
<1>6. ASSUME NEW j \in 1 .. i, st[j] = "string", s[j] = "sq" PROVE FALSE
  <2>1. st[j - 1] = "string"
    BY <1>1, <1>6, BlocksAssumption DEF After, States, Quote, Raw
  <2>2. InLiteral(st[j - 1], s[j])
    BY <1>1, <1>6, <2>1 DEF InLiteral, Literal
  <2> QED BY <1>1, <1>6, <2>1, <2>2 DEF Plain
<1>7. ASSUME i > 2, s[i] = "sq", s[i - 1] = "dq", s[i - 2] = "sq"
      PROVE  st[i - 1] = "character"
  <2>1. st[i - 1] # "string"
    <3>1. ASSUME st[i - 1] = "string" PROVE FALSE
      <4>1. st[i] = "string"
        BY <1>1, <1>3, <1>7, <3>1 DEF After, States, Quote, Raw
      <4> QED BY <1>3, <1>6, <1>7, <4>1
    <3> QED BY <3>1
  <2>2. st[i - 1] = After(st[i - 2], "dq") /\ st[i - 2] \in States \ (Raw \cup {"comment"})
        /\ st[i - 1] \in States \ (Raw \cup {"comment"})
    BY <1>1, <1>4, <1>7
  <2>3. st[i - 2] # "string"
    BY <1>5, <1>6, <1>7
  <2> QED BY <2>1, <2>2, <2>3, BlocksAssumption DEF After, States, Raw, Quote
<1>8. ASSUME i > 1, st[i - 1] = "character", s[i - 1] = "dq", s[i] = "sq"
      PROVE  i > 2 /\ s[i - 2] = "sq"
  <2>1. st[i - 1] = After(st[i - 2], "dq") /\ st[i - 2] \in States \ (Raw \cup {"comment"})
    BY <1>1, <1>4, <1>8
  <2>2. st[i - 2] = "character"
    BY <1>8, <2>1, BlocksAssumption DEF After, States, Raw, Quote
  <2>3. InLiteral(st[(i - 1) - 1], s[i - 1])
    BY <1>4, <1>8, <2>1, <2>2 DEF InLiteral, Literal
  <2>4. i - 1 > 1 /\ s[(i - 1) - 1] = "sq"
    <3>1. "character" # "string"
      OBVIOUS
    <3> QED BY <1>4, <1>8, <2>2, <2>3, <3>1 DEF Plain
  <2> QED BY <1>3, <1>4, <2>4
<1> QED BY <1>2, <1>5, <1>7, <1>8

(* So it tells whether C++ is in a string, unless it is in a character.       *)
LEMMA StringsAreFound ==
  ASSUME NEW s \in Seq(Characters), NEW keep \in BOOLEAN, NEW st, NEW lf, IsReading("code", s, keep, st, lf),
         Plain(s, st), NEW n \in 0 .. Len(s), \A j \in 0 .. n : st[j] \notin Raw \cup {"comment"},
         st[n] # "character"
  PROVE  IsCppString(UpTo(s, n)) <=> st[n] = "string"
<1> DEFINE In(i) == st[i] = "string" \/ (st[i] = "character" /\ s[i] = "dq")
           S == {i \in 0 .. n : ~(Odd(s, i) <=> In(i))}
           T(i) == Among(s, i, DoubleQuotes)
           U(i) == Among(Single(s), i, {"dq"})
<1>1. n \in Nat /\ Len(s) \in Nat /\ n <= Len(s) /\ S \in SUBSET Nat
  OBVIOUS
<1>2. ASSUME S # {} PROVE FALSE
  <2>1. PICK i \in S : \A j \in S : i <= j
    BY <1>1, <1>2, LeastNumber
  <2>2. CASE i = 0
    <3>1. st[0] = "code"
      BY DEF IsReading
    <3>2. T(0) = 0 /\ U(0) = 0
      <4>1. 0 \in Nat
        OBVIOUS
      <4> QED BY <4>1, AmongNumbers
    <3>3. ~Odd(s, 0)
      <4> QED BY <3>2 DEF Odd
    <3> QED BY <2>1, <2>2, <3>1, <3>3
  <2>3. CASE i # 0
    <3> DEFINE k == i - 1
    <3>1. k \in Nat /\ i = k + 1 /\ k \in 0 .. n /\ i \in 0 .. n /\ ~(i <= k) /\ i \in 1 .. Len(s) /\ i \in Nat
      BY <1>1, <2>1, <2>3
    <3>2. Odd(s, k) <=> In(k)
      <4> HIDE DEF k
      <4> QED BY <2>1, <3>1
    <3>3. /\ T(k) \in Nat /\ T(i) = T(k) + (IF s[i] \in DoubleQuotes THEN 1 ELSE 0)
          /\ U(k) \in Nat /\ U(i) = U(k) + (IF Quoted(s, i) THEN 1 ELSE 0)
      <4>1. T(k) \in Nat /\ T(k + 1) = T(k) + (IF s[k + 1] \in DoubleQuotes THEN 1 ELSE 0)
        BY <3>1, AmongNumbers
      <4>2. U(k) \in Nat /\ U(k + 1) = U(k) + (IF Single(s)[k + 1] \in {"dq"} THEN 1 ELSE 0)
        BY <3>1, AmongNumbers
      <4>3. Single(s)[i] \in {"dq"} <=> Quoted(s, i)
        BY <3>1 DEF Single
      <4> HIDE DEF k, T, U
      <4> QED BY <3>1, <4>1, <4>2, <4>3
    <3>4. Quoted(s, i) <=> st[k] = "character" /\ s[k] = "dq" /\ s[i] = "sq"
      <4>1. \A j \in 0 .. i : st[j] \notin Raw \cup {"comment"}
        <5>1. \A j \in 0 .. i : j \in 0 .. n
          BY <1>1, <3>1
        <5> QED BY <5>1
      <4>2. Quoted(s, i) <=> i > 1 /\ st[i - 1] = "character" /\ s[i - 1] = "dq" /\ s[i] = "sq"
        BY <3>1, <4>1, QuotedCharacters
      <4>3. st[k] = "character" => k # 0
        BY DEF IsReading
      <4> QED BY <3>1, <4>2, <4>3
    <3>5. /\ st[i] = After(st[k], s[i]) /\ s[i] \in Characters
          /\ st[k] \in States \ (Raw \cup {"comment"}) /\ st[i] \in States \ (Raw \cup {"comment"})
      <4>1. k \in 0 .. Len(s) /\ i \in 0 .. Len(s)
        BY <1>1, <3>1
      <4>2. st[k] \in States /\ st[i] \in States
        BY <4>1 DEF IsReading
      <4>3. st[i] = After(st[k], s[i])
        BY <3>1 DEF IsReading
      <4>4. s[i] \in Characters
        BY <3>1
      <4> HIDE DEF k
      <4> QED BY <3>1, <4>2, <4>3, <4>4
    <3>6. st[k] = "character" /\ s[k] = "dq" /\ st[i] = "character" => FALSE
      <4>1. SUFFICES ASSUME st[k] = "character", s[k] = "dq", st[i] = "character" PROVE FALSE
        OBVIOUS
      <4>2. InLiteral(st[i - 1], s[i])
        BY <3>5, <4>1 DEF InLiteral, Literal
      <4>3. "character" # "string" /\ "dq" # "sq"
        OBVIOUS
      <4> QED BY <3>1, <4>1, <4>2, <4>3 DEF Plain
    <3>7. /\ s[i] \in DoubleQuotes => (In(i) <=> ~In(k))
          /\ Quoted(s, i) => (In(i) <=> ~In(k))
          /\ s[i] \notin DoubleQuotes /\ ~Quoted(s, i) => (In(i) <=> In(k))
      <4> HIDE DEF k
      <4>1. CASE st[k] = "code"
        BY <3>4, <3>5, <4>1 DEF After, States, Raw, Quote, DoubleQuotes, Characters
      <4>2. CASE st[k] = "string"
        BY <3>4, <3>5, <4>2 DEF After, States, Raw, Quote, DoubleQuotes, Characters
      <4>3. CASE st[k] = "character"
        BY <3>4, <3>5, <3>6, <4>3 DEF After, States, Raw, Quote, DoubleQuotes, Characters
      <4>4. CASE st[k] = "block"
        BY <3>4, <3>5, <4>4, BlocksAssumption DEF After, States, Raw, Quote, DoubleQuotes, Characters
      <4> QED BY <3>5, <4>1, <4>2, <4>3, <4>4 DEF States, Raw
    <3>9. ~(s[i] \in DoubleQuotes /\ Quoted(s, i))
      BY <3>4 DEF DoubleQuotes
    <3>10. Odd(s, i) <=> In(i)
      <4>1. (Odd(s, k) <=> (T(k) - U(k)) % 2 = 1) /\ (Odd(s, i) <=> (T(i) - U(i)) % 2 = 1)
        BY DEF Odd
      <4>2. CASE s[i] \in DoubleQuotes /\ ~Quoted(s, i)
        <5>1. T(i) - U(i) = (T(k) - U(k)) + 1 /\ T(k) - U(k) \in Int
          <6> HIDE DEF T, U, k
          <6> QED BY <3>3, <4>2
        <5>2. ((T(k) - U(k)) + 1) % 2 = 1 <=> ~((T(k) - U(k)) % 2 = 1)
          <6> HIDE DEF T, U, k
          <6> QED BY <5>1
        <5> HIDE DEF T, U, k, In
        <5> QED BY <3>2, <3>7, <4>1, <4>2, <5>1, <5>2
      <4>3. CASE ~(s[i] \in DoubleQuotes) /\ Quoted(s, i)
        <5>1. T(i) - U(i) = (T(k) - U(k)) - 1 /\ T(k) - U(k) \in Int
          <6> HIDE DEF T, U, k
          <6> QED BY <3>3, <4>3
        <5>2. ((T(k) - U(k)) - 1) % 2 = 1 <=> ~((T(k) - U(k)) % 2 = 1)
          <6> HIDE DEF T, U, k
          <6> QED BY <5>1
        <5> HIDE DEF T, U, k, In
        <5> QED BY <3>2, <3>7, <4>1, <4>3, <5>1, <5>2
      <4>4. CASE ~(s[i] \in DoubleQuotes) /\ ~Quoted(s, i)
        <5>1. T(i) - U(i) = T(k) - U(k)
          <6> HIDE DEF T, U, k
          <6> QED BY <3>3, <4>4
        <5> HIDE DEF T, U, k, In
        <5> QED BY <3>2, <3>7, <4>1, <4>4, <5>1
      <4> QED BY <3>9, <4>2, <4>3, <4>4
    <3> QED BY <2>1, <3>10
  <2> QED BY <2>2, <2>3
<1>3. Odd(s, n) <=> In(n)
  <2>1. n \in 0 .. n
    BY <1>1
  <2> HIDE DEF In
  <2> QED BY <1>2, <2>1
<1>4. Apart(s, n)
  <2>1. SUFFICES ASSUME NEW i \in 1 .. n, Quoted(s, i), Quoted(s, i - 2) PROVE FALSE
    BY DEF Apart
  <2>2. /\ i \in 1 .. Len(s) /\ i - 2 \in 1 .. Len(s) /\ i - 1 \in 1 .. Len(s) /\ i > 2 /\ i - 2 > 2
        /\ (i - 2) - 1 = i - 3 /\ (i - 1) - 1 = i - 2 /\ s[i - 1] = "dq" /\ s[i - 2] = "sq"
    BY <1>1, <2>1 DEF Quoted
  <2>3. \A j \in 0 .. i : st[j] \notin Raw \cup {"comment"}
    <3>1. \A j \in 0 .. i : j \in 0 .. n
      BY <1>1
    <3> QED BY <3>1
  <2>4. \A j \in 0 .. i - 2 : st[j] \notin Raw \cup {"comment"}
    <3>1. \A j \in 0 .. i - 2 : j \in 0 .. i
      BY <1>1
    <3> QED BY <2>3, <3>1
  <2>5. st[i - 1] = "character"
    BY <2>1, <2>2, <2>3, QuotedCharacters
  <2>6. st[(i - 2) - 1] = "character"
    BY <2>1, <2>2, <2>4, QuotedCharacters
  <2>7. st[i - 2] = After(st[i - 3], s[i - 2]) /\ st[i - 1] = After(st[i - 2], s[i - 1])
    BY <2>2 DEF IsReading
  <2>8. st[i - 2] = "code"
    BY <2>2, <2>6, <2>7 DEF After
  <2> QED BY <2>2, <2>5, <2>7, <2>8 DEF After
<1> QED BY <1>3, <1>4, QuotesAreCounted

(* A text without raw strings that has what is left of the line.  um: no "//" *)
(* is in its strings; em: these are empty.                                    *)
Text(s, keep, left, um, em) ==
  \E st, lf : /\ IsReading("code", s, keep, st, lf) /\ lf[Len(s)] = left
              /\ Cooked(s, st) /\ st[Len(s)] \in {"code", "comment"}
              /\ Plain(s, st) /\ (um => Unmarked(s, st)) /\ (em => Emptied(s, st))

(* The same without a comment up to its end, unless a string has a "//".      *)
Cut(s, keep, st, lf, left, um, em) ==
  /\ IsReading("code", s, keep, st, lf) /\ lf[Len(s)] = left
  /\ Cooked(s, st) /\ st[Len(s)] \in {"code", "comment"}
  /\ Plain(s, st) /\ (um => Uncommented(s, st)) /\ (em => Emptied(s, st))
CutText(s, keep, left, um, em) == \E st, lf : Cut(s, keep, st, lf, left, um, em)

LEMMA CommentsBegin ==
  ASSUME NEW s \in Seq(Characters), NEW keep \in BOOLEAN, NEW st, NEW lf, IsReading("code", s, keep, st, lf),
         Cooked(s, st), NEW x \in {"comment", "block"}, NEW i \in 0 .. Len(s), st[i] = x
  PROVE  \E j \in 1 .. i : /\ EntersAt({x}, s, st, j) /\ st[j - 1] = "code"
                           /\ s[j] = IF x = "block" THEN "/*" ELSE "//"
                           /\ lf[j] = lf[j - 1]
<1>1. st[0] \notin {x} /\ st[i] \in {x}
  BY DEF IsReading
<1>2. PICK j \in 1 .. i : EntersAt({x}, s, st, j)
  BY <1>1, Entered
<1>3. j \in 1 .. Len(s) /\ j - 1 \in 0 .. Len(s) /\ j - 1 \in 0 .. j - 1
  OBVIOUS
<1>4. st[j] = x /\ st[j - 1] # x /\ st[j] = After(st[j - 1], s[j])
  BY <1>2, <1>3 DEF EntersAt
<1>5. /\ st[j - 1] \in States \ Raw
      /\ lf[j] = lf[j - 1] \o Left(st[j - 1], s[j], keep) /\ lf[j - 1] \in Seq(Characters)
  BY <1>3 DEF IsReading, Cooked
<1>6. st[j - 1] = "code"
  BY <1>4, <1>5 DEF After, States, Raw, Quote
<1>7. s[j] = IF x = "block" THEN "/*" ELSE "//"
  BY <1>4, <1>6 DEF After
<1>8. Left(st[j - 1], s[j], keep) = <<>>
  BY <1>4, <1>6 DEF Left, Raw, Literal
<1>9. lf[j] = lf[j - 1]
  BY <1>5, <1>8
<1> QED BY <1>2, <1>6, <1>7, <1>9

(* CutComment() leaves code as it is.                                         *)
LEMMA CommentIsCut ==
  ASSUME NEW s \in Seq(Characters), NEW keep \in BOOLEAN, NEW left, NEW um \in BOOLEAN, NEW em \in BOOLEAN,
         Text(s, keep, left, um, em)
  PROVE  CutComment(s) \in Seq(Characters) /\ CutText(CutComment(s), keep, left, um, em)
<1> DEFINE comments == Where(s, {"//"})
<1>1. comments = {i \in 1 .. Len(s) : s[i] = "//"} /\ comments \in SUBSET Nat /\ Len(s) \in Nat
  BY DEF Where
<1>2. PICK st, lf : /\ IsReading("code", s, keep, st, lf) /\ lf[Len(s)] = left
                    /\ Cooked(s, st) /\ st[Len(s)] \in {"code", "comment"}
                    /\ Plain(s, st) /\ (um => Unmarked(s, st)) /\ (em => Emptied(s, st))
  BY DEF Text
<1> HIDE DEF comments
<1>3. CASE comments = {}
  <2>1. CutComment(s) = s
    BY <1>3 DEF CutComment, comments
  <2>2. Uncommented(s, st)
    <3>1. SUFFICES ASSUME NEW i \in 0 .. Len(s), st[i] = "comment" PROVE FALSE
      BY DEF Uncommented
    <3>2. PICK j \in 1 .. i : s[j] = IF "comment" = "block" THEN "/*" ELSE "//"
      BY <1>2, <3>1, CommentsBegin
    <3>3. j \in 1 .. Len(s) /\ "comment" # "block"
      OBVIOUS
    <3> QED BY <1>1, <1>3, <3>2, <3>3
  <2> QED BY <1>2, <2>1, <2>2 DEF CutText, Cut
<1>4. CASE comments # {}
  <2> DEFINE j == Min(comments)
  <2>1. j \in comments /\ \A i \in comments : j <= i
    BY <1>1, <1>4, LeastNumber
  <2>2. CutComment(s) = IF ~IsCppString(UpTo(s, j - 1)) THEN UpTo(s, j - 1) ELSE s
    BY <1>4 DEF CutComment, comments
  <2> HIDE DEF j
  <2>3. j \in 1 .. Len(s) /\ j \in Nat /\ s[j] = "//" /\ j - 1 \in 0 .. Len(s) /\ j \in 0 .. Len(s)
    BY <1>1, <2>1
  <2>4. \A i \in 0 .. j - 1 : st[i] \notin Raw \cup {"comment"}
    <3>1. TAKE i \in 0 .. j - 1
    <3>2. i \in 0 .. Len(s)
      BY <1>1, <2>3
    <3>3. ASSUME st[i] = "comment" PROVE FALSE
      <4>1. PICK k \in 1 .. i : s[k] = IF "comment" = "block" THEN "/*" ELSE "//"
        BY <1>2, <3>2, <3>3, CommentsBegin
      <4>2. k \in 1 .. Len(s) /\ "comment" # "block" /\ ~(j <= k)
        BY <2>3
      <4> QED BY <1>1, <2>1, <4>1, <4>2
    <3> QED BY <1>2, <3>2, <3>3 DEF Cooked
  <2>5. st[j - 1] \in States \ (Raw \cup {"comment"}) /\ st[j] \in States /\ st[j] = After(st[j - 1], "//")
    <3>1. j - 1 \in 0 .. j - 1
      BY <2>3
    <3> QED BY <1>2, <2>3, <2>4, <3>1 DEF IsReading
  <2>6. st[j - 1] \in {"code", "string"}
    BY <2>5, BlocksAssumption DEF After, States, Raw, Quote
  <2>7. IsCppString(UpTo(s, j - 1)) <=> st[j - 1] = "string"
    BY <1>2, <2>3, <2>4, <2>6, StringsAreFound
  <2>8. CASE st[j - 1] = "string"
    <3>1. InLiteral(st[j - 1], s[j])
      BY <2>3, <2>5, <2>8 DEF After, Quote, InLiteral, Literal
    <3>2. ~um
      BY <1>2, <2>3, <3>1 DEF Unmarked
    <3>3. CutComment(s) = s
      BY <2>2, <2>7, <2>8
    <3> QED BY <1>2, <3>2, <3>3 DEF CutText, Cut
  <2>9. CASE st[j - 1] = "code"
    <3>1. CutComment(s) = UpTo(s, j - 1)
      BY <2>2, <2>7, <2>9
    <3>2. st[j] = "comment" /\ Left("code", "//", keep) = <<>>
      BY <2>5, <2>9 DEF After, Left, Raw, Literal
    <3>3. lf[j] = lf[j - 1]
      <4>1. lf[j] = lf[j - 1] \o Left(st[j - 1], s[j], keep) /\ lf[j - 1] \in Seq(Characters)
        BY <1>2, <2>3 DEF IsReading
      <4> QED BY <2>3, <2>9, <3>2, <4>1
    <3>4. lf[Len(s)] = lf[j]
      <4>1. Remains("comment", st, lf, j, Len(s))
        BY <1>2, <2>3, <3>2, CommentsStay
      <4>2. Len(s) \in j .. Len(s)
        BY <1>1, <2>3
      <4> QED BY <4>1, <4>2 DEF Remains
    <3>5. PICK su, lu : Prefix("code", s, keep, st, lf, j - 1, UpTo(s, j - 1), su, lu)
      <4>1. IsReading("code", s, keep, st, lf)
        BY <1>2
      <4> QED BY <2>3, <4>1, ReadsPrefix
    <3>6. j - 1 \in 0 .. j - 1
      BY <2>3
    <3>7. Uncommented(UpTo(s, j - 1), su)
      BY <2>4, <3>5 DEF Uncommented, Prefix
    <3>8. /\ Cooked(UpTo(s, j - 1), su) /\ Plain(UpTo(s, j - 1), su)
          /\ em => Emptied(UpTo(s, j - 1), su)
      BY <1>2, <3>5 DEF Inherits, Prefix
    <3>9. UpTo(s, j - 1) \in Seq(Characters)
      BY <2>3, Pieces
    <3>10. Cut(UpTo(s, j - 1), keep, su, lu, left, um, em)
      BY <1>2, <2>9, <3>3, <3>4, <3>5, <3>6, <3>7, <3>8 DEF Cut, Prefix
    <3> QED BY <3>1, <3>9, <3>10 DEF CutText
  <2> QED BY <2>6, <2>8, <2>9
<1> QED BY <1>3, <1>4

(* RemoveBlock() does, too.                                                   *)
LEMMA BlocksAreFound ==
  ASSUME NEW s \in Seq(Characters), Blocks(s) # {}
  PROVE  LET p == Min(Blocks(s))
             e == EndOfBlock(s, p)
         IN  /\ p \in 1 .. Len(s) /\ s[p] = "/*" /\ e \in p + 1 .. Len(s) /\ s[e] = "*/"
             /\ \A i \in p + 1 .. e - 1 : s[i] # "*/"
             /\ \A i \in 1 .. p - 1 : s[i] # "/*"
<1> DEFINE p == Min(Blocks(s))
           ends == {j \in Where(s, {"*/"}) : p < j}
           e == Min(ends)
<1>1. Len(s) \in Nat /\ Blocks(s) = {i \in 1 .. Len(s) : s[i] = "/*" /\ \E j \in 1 .. Len(s) : s[j] = "*/" /\ i < j}
  BY DEF Blocks, Where
<1>2. Blocks(s) \in SUBSET Nat
  BY <1>1
<1>3. p \in Blocks(s) /\ \A i \in Blocks(s) : p <= i
  BY <1>2, LeastNumber
<1> HIDE DEF p
<1>4. ends = {j \in 1 .. Len(s) : s[j] = "*/" /\ p < j}
  BY DEF Where
<1> HIDE DEF ends
<1>5. ends # {} /\ ends \in SUBSET Nat
  BY <1>1, <1>3, <1>4
<1>6. e \in ends /\ \A i \in ends : e <= i
  BY <1>5, LeastNumber
<1>7. e = EndOfBlock(s, p)
  BY DEF EndOfBlock, ends
<1> HIDE DEF e
<1>8. p \in 1 .. Len(s) /\ s[p] = "/*" /\ e \in p + 1 .. Len(s) /\ s[e] = "*/" /\ e \in 1 .. Len(s)
  BY <1>1, <1>3, <1>4, <1>6
<1>9. \A i \in p + 1 .. e - 1 : s[i] # "*/"
  <2>1. \A i \in p + 1 .. e - 1 : i \in 1 .. Len(s) /\ p < i /\ ~(e <= i)
    BY <1>1, <1>8
  <2> QED BY <1>4, <1>6, <2>1
<1>10. \A i \in 1 .. p - 1 : s[i] # "/*"
  <2>1. \A i \in 1 .. p - 1 : i \in 1 .. Len(s) /\ i < e /\ ~(p <= i)
    BY <1>1, <1>8
  <2> QED BY <1>1, <1>3, <1>8, <2>1
<1> QED BY <1>7, <1>8, <1>9, <1>10 DEF p

LEMMA BlockIsRemoved ==
  ASSUME NEW s \in Seq(Characters), NEW keep \in BOOLEAN, NEW left, NEW um \in BOOLEAN, NEW em \in BOOLEAN,
         CutText(s, keep, left, um, em), Blocks(s) # {}
  PROVE  RemoveBlock(s) \in Seq(Characters) /\ CutText(RemoveBlock(s), keep, left, um, em)
<1>1. PICK st, lf : Cut(s, keep, st, lf, left, um, em)
  BY DEF CutText
<1>2. /\ IsReading("code", s, keep, st, lf) /\ lf[Len(s)] = left
      /\ Cooked(s, st) /\ st[Len(s)] \in {"code", "comment"}
      /\ Plain(s, st) /\ (um => Uncommented(s, st)) /\ (em => Emptied(s, st))
  BY <1>1 DEF Cut
<1> DEFINE p == Min(Blocks(s))
           e == EndOfBlock(s, p)
<1>3. /\ p \in 1 .. Len(s) /\ s[p] = "/*" /\ e \in p + 1 .. Len(s) /\ s[e] = "*/"
      /\ \A i \in p + 1 .. e - 1 : s[i] # "*/"
      /\ \A i \in 1 .. p - 1 : s[i] # "/*"
  BY BlocksAreFound
<1>4. RemoveBlock(s) = UpTo(s, p - 1) \o Beyond(s, e)
  BY DEF RemoveBlock
<1> HIDE DEF p, e
<1>5. /\ Len(s) \in Nat /\ p \in Nat /\ e \in Nat /\ p - 1 \in 0 .. Len(s) /\ p \in 0 .. Len(s) /\ e \in 0 .. Len(s)
      /\ e - 1 \in p .. Len(s) /\ e \in 1 .. Len(s) /\ e - 1 \in 0 .. Len(s) /\ e \in p - 1 .. Len(s) /\ e - 1 \in p .. e - 1
      /\ e \in p - 1 .. e
  BY <1>3
<1>6. /\ st[p] = After(st[p - 1], "/*") /\ lf[p] = lf[p - 1] \o Left(st[p - 1], "/*", keep)
      /\ st[e] = After(st[e - 1], "*/") /\ lf[e] = lf[e - 1] \o Left(st[e - 1], "*/", keep)
  BY <1>2, <1>3, <1>5 DEF IsReading
<1>7. /\ st[p] \in States /\ st[p - 1] \in States \ Raw /\ lf[p - 1] \in Seq(Characters) /\ lf[e - 1] \in Seq(Characters)
  BY <1>2, <1>5 DEF IsReading, Cooked
<1>8. st[p - 1] # "block"
  <2>1. SUFFICES ASSUME st[p - 1] = "block" PROVE FALSE
    OBVIOUS
  <2>2. PICK j \in 1 .. p - 1 : s[j] = IF "block" = "block" THEN "/*" ELSE "//"
    <3>1. "block" \in {"comment", "block"}
      OBVIOUS
    <3> QED BY <1>2, <1>5, <2>1, <3>1, CommentsBegin
  <2> QED BY <1>3, <2>2
<1>9. st[p - 1] # "string"
  <2>1. SUFFICES ASSUME st[p - 1] = "string" PROVE FALSE
    OBVIOUS
  <2>2. InLiteral(st[p - 1], s[p])
    BY <1>3, <1>6, <2>1 DEF InLiteral, Literal, After, Quote
  <2> QED BY <1>2, <1>3, <2>1, <2>2 DEF Plain
<1>10. st[p - 1] \in {"code", "comment"}
  BY <1>6, <1>7, <1>8, <1>9 DEF After, States, Raw
<1>11. st[e] = st[p - 1] /\ lf[e] = lf[p - 1]
  <2>1. CASE st[p - 1] = "code"
    <3>1. st[p] = "block" /\ Left("code", "/*", keep) = <<>>
      BY <1>6, <2>1 DEF After, Left, Raw, Literal
    <3>2. lf[p] = lf[p - 1]
      BY <1>6, <1>7, <2>1, <3>1
    <3>3. Idles("block", s, p, e - 1)
      <4>1. SUFFICES ASSUME NEW i \in p + 1 .. e - 1, After("block", s[i]) \in States
                     PROVE  After("block", s[i]) = "block"
        BY DEF Idles
      <4>2. s[i] # "*/"
        BY <1>3
      <4> QED BY <4>1, <4>2 DEF After, States
    <3>4. Remains("block", st, lf, p, e - 1)
      <4>1. "block" # "code" /\ "block" \notin Literal
        BY DEF Literal
      <4> QED BY <1>2, <1>5, <3>1, <3>3, <4>1, TextRemains
    <3>5. st[e - 1] = "block" /\ lf[e - 1] = lf[p]
      BY <1>5, <3>4 DEF Remains
    <3>6. st[e] = "code" /\ Left("block", "*/", keep) = <<>>
      BY <1>6, <3>5 DEF After, Left, Literal
    <3>7. lf[e] = lf[e - 1]
      <4>1. lf[e] = lf[e - 1] \o <<>>
        BY <1>6, <3>5, <3>6
      <4> QED BY <1>7, <4>1
    <3> QED BY <2>1, <3>2, <3>5, <3>6, <3>7
  <2>2. CASE st[p - 1] = "comment"
    <3>1. Remains("comment", st, lf, p - 1, Len(s))
      BY <1>2, <1>5, <2>2, CommentsStay
    <3> QED BY <1>5, <2>2, <3>1 DEF Remains
  <2> QED BY <1>10, <2>1, <2>2
<1>12. PICK su, lu : Prefix("code", s, keep, st, lf, p - 1, UpTo(s, p - 1), su, lu)
  <2>1. IsReading("code", s, keep, st, lf)
    BY <1>2
  <2> QED BY <1>5, <2>1, ReadsPrefix
<1>13. UpTo(s, p - 1) \in Seq(Characters) /\ Beyond(s, e) \in Seq(Characters)
  BY <1>5, Pieces
<1>14. PICK sr, lr : Continues("code", RemoveBlock(s), keep, sr, lr, UpTo(s, p - 1), su, s, st, lf)
  <2>1. su[p - 1] = st[e] /\ lu[p - 1] = lf[e] /\ st[e] \notin Literal
    <3>1. p - 1 \in 0 .. p - 1
      BY <1>5
    <3> QED BY <1>10, <1>11, <1>12, <3>1 DEF Literal, Prefix
  <2>2. /\ IsReading("code", s, keep, st, lf) /\ IsReading("code", UpTo(s, p - 1), keep, su, lu)
        /\ Len(UpTo(s, p - 1)) = p - 1
    BY <1>2, <1>12 DEF Prefix
  <2>3. /\ su[Len(UpTo(s, p - 1))] = st[e] /\ lu[Len(UpTo(s, p - 1))] = lf[e] /\ e \in 0 .. Len(s)
    BY <1>5, <2>1, <2>2
  <2>4. \E sr, lr : Continues("code", UpTo(s, p - 1) \o Beyond(s, e), keep, sr, lr, UpTo(s, p - 1), su, s, st, lf)
    BY <1>13, <2>1, <2>2, <2>3, ReadsOn
  <2> QED BY <1>4, <2>4
<1>15. Cut(RemoveBlock(s), keep, sr, lr, left, um, em)
  <2>1. /\ IsReading("code", RemoveBlock(s), keep, sr, lr)
        /\ sr[Len(RemoveBlock(s))] = st[Len(s)] /\ lr[Len(RemoveBlock(s))] = lf[Len(s)]
        /\ Inherits(RemoveBlock(s), sr, UpTo(s, p - 1), su, s, st)
    BY <1>14 DEF Continues
  <2>2. /\ Cooked(RemoveBlock(s), sr) /\ Plain(RemoveBlock(s), sr)
        /\ um => Uncommented(RemoveBlock(s), sr)
        /\ em => Emptied(RemoveBlock(s), sr)
    BY <1>2, <1>12, <2>1 DEF Inherits, Prefix
  <2> QED BY <1>2, <2>1, <2>2 DEF Cut
<1>16. RemoveBlock(s) \in Seq(Characters)
  BY <1>4, <1>13
<1> QED BY <1>15, <1>16 DEF CutText

(* When no comment is left, the text is what is left of the line.             *)
LEMMA TextIsLeft ==
  ASSUME NEW s \in Seq(Characters), NEW keep \in BOOLEAN, NEW left, NEW um \in BOOLEAN, NEW em \in BOOLEAN,
         CutText(s, keep, left, um, em), Blocks(s) = {}, keep \/ em
  PROVE  IsPrefix(left, s) /\ (um => s = left)
<1>1. PICK st, lf : Cut(s, keep, st, lf, left, um, em)
  BY DEF CutText
<1>2. /\ IsReading("code", s, keep, st, lf) /\ lf[Len(s)] = left
      /\ Cooked(s, st) /\ st[Len(s)] \in {"code", "comment"}
      /\ (um => Uncommented(s, st)) /\ (em => Emptied(s, st))
  BY <1>1 DEF Cut
<1>3. Len(s) \in Nat /\ Len(s) \in 0 .. Len(s)
  OBVIOUS
<1>4. ASSUME NEW i \in 0 .. Len(s), st[i] = "block" PROVE FALSE
  <2>1. PICK p \in 1 .. i : EntersAt({"block"}, s, st, p) /\ s[p] = IF "block" = "block" THEN "/*" ELSE "//"
    <3>1. "block" \in {"comment", "block"}
      OBVIOUS
    <3> QED BY <1>2, <1>4, <3>1, CommentsBegin
  <2>2. p \in 0 .. Len(s) /\ p \in 1 .. Len(s) /\ s[p] = "/*" /\ st[p] = "block" /\ Len(s) \in p .. Len(s)
    BY <1>3, <2>1 DEF EntersAt
  <2>3. \A j \in p + 1 .. Len(s) : s[j] # "*/"
    <3>1. SUFFICES ASSUME NEW j \in p + 1 .. Len(s), s[j] = "*/" PROVE FALSE
      OBVIOUS
    <3>2. p \in Where(s, {"/*"}) /\ j \in Where(s, {"*/"}) /\ p < j
      BY <2>2, <3>1 DEF Where
    <3> QED BY <3>2 DEF Blocks
  <2>4. Idles("block", s, p, Len(s))
    BY <2>3 DEF Idles, After, States
  <2>5. Remains("block", st, lf, p, Len(s))
    <3>1. "block" # "code" /\ "block" \notin Literal
      BY DEF Literal
    <3> QED BY <1>2, <2>2, <2>4, <3>1, TextRemains
  <2>6. st[Len(s)] = "block"
    BY <2>2, <2>5 DEF Remains
  <2> QED BY <1>2, <2>6
<1>5. ASSUME NEW n \in 0 .. Len(s), \A i \in 0 .. n : st[i] # "comment"
      PROVE  lf[n] = UpTo(s, n)
  <2> DEFINE S == {i \in 0 .. n : lf[i] # UpTo(s, i)}
  <2>1. ASSUME S # {} PROVE FALSE
    <3>1. S \in SUBSET Nat
      BY <1>3
    <3>2. PICK i \in S : \A j \in S : i <= j
      BY <2>1, <3>1, LeastNumber
    <3>3. i # 0
      <4>1. lf[0] = <<>>
        BY <1>2 DEF IsReading, Begun
      <4>2. UpTo(s, 0) = <<>>
        BY DEF UpTo
      <4> QED BY <3>2, <4>1, <4>2
    <3>4. /\ i \in 1 .. Len(s) /\ i - 1 \in 0 .. n /\ i - 1 \in 0 .. Len(s) /\ i \in 0 .. Len(s) /\ ~(i <= i - 1)
          /\ i \in 0 .. n
      BY <1>3, <3>2, <3>3
    <3>5. lf[i - 1] = UpTo(s, i - 1)
      BY <3>2, <3>4
    <3>6. /\ st[i] = After(st[i - 1], s[i]) /\ lf[i] = lf[i - 1] \o Left(st[i - 1], s[i], keep)
          /\ st[i] \in States \ (Raw \cup {"comment", "block"})
          /\ st[i - 1] \in States \ (Raw \cup {"comment", "block"})
      <4>1. st[i] = After(st[i - 1], s[i]) /\ lf[i] = lf[i - 1] \o Left(st[i - 1], s[i], keep)
        BY <1>2, <3>4 DEF IsReading
      <4>2. st[i] \in States /\ st[i - 1] \in States
        BY <1>2, <3>4 DEF IsReading
      <4>3. st[i] \notin Raw /\ st[i - 1] \notin Raw
        BY <1>2, <3>4 DEF Cooked
      <4> QED BY <1>4, <1>5, <3>4, <4>1, <4>2, <4>3
    <3>7. em => ~InLiteral(st[i - 1], s[i])
      BY <1>2, <3>4 DEF Emptied
    <3>8. Left(st[i - 1], s[i], keep) = <<s[i]>>
      BY <3>6, <3>7 DEF Left, InLiteral, States, Raw, Literal, After, Quote
    <3>9. UpTo(s, i) = UpTo(s, i - 1) \o <<s[i]>>
      BY <3>4 DEF UpTo
    <3> QED BY <3>2, <3>5, <3>6, <3>8, <3>9
  <2>2. n \in 0 .. n
    BY <1>3
  <2> QED BY <2>1, <2>2
<1>6. CASE \A i \in 0 .. Len(s) : st[i] # "comment"
  <2>1. left = UpTo(s, Len(s))
    BY <1>2, <1>3, <1>5, <1>6
  <2>2. UpTo(s, Len(s)) = s
    BY DEF UpTo
  <2> QED BY <2>1, <2>2 DEF IsPrefix
<1>7. ASSUME NEW i \in 0 .. Len(s), st[i] = "comment" PROVE IsPrefix(left, s) /\ ~um
  <2>1. ~um
    BY <1>2, <1>7 DEF Uncommented
  <2>2. PICK j \in 1 .. i : /\ EntersAt({"comment"}, s, st, j) /\ lf[j] = lf[j - 1]
    BY <1>2, <1>7, CommentsBegin
  <2>3. j \in 0 .. Len(s) /\ j - 1 \in 0 .. Len(s) /\ Len(s) \in j .. Len(s)
    BY <1>3
  <2>4. st[j] = "comment" /\ \A k \in 0 .. j - 1 : st[k] # "comment"
    BY <2>2 DEF EntersAt
  <2>5. lf[j - 1] = UpTo(s, j - 1)
    BY <1>5, <2>3, <2>4
  <2>6. Remains("comment", st, lf, j, Len(s))
    BY <1>2, <2>3, <2>4, CommentsStay
  <2>7. left = UpTo(s, j - 1)
    BY <1>2, <2>2, <2>3, <2>5, <2>6 DEF Remains
  <2>8. IsPrefix(UpTo(s, j - 1), s)
    <3> DEFINE n == j - 1
    <3>1. n \in Nat /\ n <= Len(s)
      BY <2>3
    <3> HIDE DEF n
    <3>2. IsPrefix(UpTo(s, n), s)
      <4>1. Len(SubSeq(s, 1, n)) = n
        BY <3>1
      <4>2. SubSeq(SubSeq(s, 1, n), 1, n) = SubSeq(s, 1, n)
        BY <3>1
      <4> QED BY <3>1, <4>1, <4>2 DEF IsPrefix, UpTo
    <3> QED BY <3>2 DEF n
  <2> QED BY <2>1, <2>7, <2>8
<1> QED BY <1>6, <1>7

-------------------------------------------------------------------------------
(* CollapseStrings().  What is collapsed, c, has nothing in strings, and what *)
(* is not yet collapsed, e, goes on with it outside of strings.               *)
Collapses(c, t, st, lf, left) ==
  /\ IsReading("code", t, FALSE, st, lf) /\ lf[Len(t)] = left
  /\ Cooked(t, st) /\ st[Len(t)] \in {"code", "comment"}
  /\ \A i \in 1 .. Len(c) : ~InLiteral(st[i - 1], t[i])
  /\ st[Len(c)] \in {"code", "comment"}
CollapsingText(c, e, left) == \E st, lf : Collapses(c, c \o e, st, lf, left)

(* The first quote, and the next of its kind.                                 *)
IsFirst(t, n, p) == p \in n + 1 .. Len(t) /\ Quote(t[p]) # "no" /\ \A i \in n + 1 .. p - 1 : Quote(t[i]) = "no"
IsNext(t, p, q) ==
  q \in p + 1 .. Len(t) /\ Quote(t[q]) = Quote(t[p]) /\ \A i \in p + 1 .. q - 1 : Quote(t[i]) # Quote(t[p])

LEMMA FirstQuote ==
  ASSUME NEW e \in Seq(Characters)
  PROVE  /\ Quotes(e) = {} => \A i \in 1 .. Len(e) : Quote(e[i]) = "no"
         /\ Quotes(e) # {} => IsFirst(e, 0, Min(Quotes(e)))
<1>1. Quotes(e) = {i \in 1 .. Len(e) : Quote(e[i]) # "no"} /\ Len(e) \in Nat
  BY DEF Quotes
<1>2. CASE Quotes(e) = {}
  BY <1>1, <1>2
<1>3. CASE Quotes(e) # {}
  <2> DEFINE p == Min(Quotes(e))
  <2>1. Quotes(e) \in SUBSET Nat
    BY <1>1
  <2>2. p \in Quotes(e) /\ \A i \in Quotes(e) : p <= i
    BY <1>3, <2>1, LeastNumber
  <2> HIDE DEF p
  <2>3. p \in 0 + 1 .. Len(e) /\ Quote(e[p]) # "no"
    BY <1>1, <2>2
  <2>4. \A i \in 0 + 1 .. p - 1 : Quote(e[i]) = "no"
    <3>1. \A i \in 0 + 1 .. p - 1 : i \in 1 .. Len(e) /\ ~(p <= i)
      BY <1>1, <2>3
    <3> QED BY <1>1, <2>2, <3>1
  <2>5. IsFirst(e, 0, p)
    BY <2>3, <2>4 DEF IsFirst
  <2> QED BY <1>3, <2>5 DEF p
<1> QED BY <1>2, <1>3

LEMMA NextQuote ==
  ASSUME NEW e \in Seq(Characters), NEW p, p = Min(Quotes(e)), IsFirst(e, 0, p)
  PROVE  /\ SecondQuotes(e) = {} => \A i \in p + 1 .. Len(e) : Quote(e[i]) # Quote(e[p])
         /\ SecondQuotes(e) # {} => IsNext(e, p, Min(SecondQuotes(e)))
<1>1. SecondQuotes(e) = {j \in 1 .. Len(e) : j > p /\ Quote(e[j]) = Quote(e[p])} /\ Len(e) \in Nat
  BY DEF SecondQuotes
<1>2. p \in 1 .. Len(e) /\ p \in Nat
  BY DEF IsFirst
<1>3. CASE SecondQuotes(e) = {}
  <2>1. \A i \in p + 1 .. Len(e) : i \in 1 .. Len(e) /\ i > p
    BY <1>2
  <2> QED BY <1>1, <1>3, <2>1
<1>4. CASE SecondQuotes(e) # {}
  <2> DEFINE q == Min(SecondQuotes(e))
  <2>1. SecondQuotes(e) \in SUBSET Nat
    BY <1>1
  <2>2. q \in SecondQuotes(e) /\ \A i \in SecondQuotes(e) : q <= i
    BY <1>4, <2>1, LeastNumber
  <2> HIDE DEF q
  <2>3. q \in p + 1 .. Len(e) /\ Quote(e[q]) = Quote(e[p])
    BY <1>1, <1>2, <2>2
  <2>4. \A i \in p + 1 .. q - 1 : Quote(e[i]) # Quote(e[p])
    <3>1. \A i \in p + 1 .. q - 1 : i \in 1 .. Len(e) /\ i > p /\ ~(q <= i)
      BY <1>1, <1>2, <2>3
    <3> QED BY <1>1, <2>2, <3>1
  <2>5. IsNext(e, p, q)
    BY <2>3, <2>4 DEF IsNext
  <2> QED BY <1>4, <2>5 DEF q
<1> QED BY <1>3, <1>4

(* Until a quote, C++ stays outside of strings.                               *)
LEMMA NothingIsQuoted ==
  ASSUME NEW t \in Seq(Characters), NEW keep \in BOOLEAN, NEW st, NEW lf, IsReading("code", t, keep, st, lf),
         NEW n \in 0 .. Len(t), NEW m \in n .. Len(t), st[n] \in {"code", "comment"},
         \A i \in n + 1 .. m : Quote(t[i]) = "no"
  PROVE  \A i \in n .. m : st[i] \in {"code", "comment", "block"}
<1> DEFINE S == {i \in n .. m : st[i] \notin {"code", "comment", "block"}}
<1>1. n \in Nat /\ m \in Nat /\ Len(t) \in Nat /\ n <= m /\ m <= Len(t) /\ S \in SUBSET Nat
  OBVIOUS
<1>2. ASSUME S # {} PROVE FALSE
  <2>1. PICK i \in S : \A j \in S : i <= j
    BY <1>1, <1>2, LeastNumber
  <2>2. i \in n + 1 .. m /\ i - 1 \in n .. m /\ ~(i <= i - 1) /\ i \in 1 .. Len(t) /\ i \in 0 .. Len(t)
    BY <1>1, <2>1
  <2>3. st[i - 1] \in {"code", "comment", "block"}
    BY <2>1, <2>2
  <2>4. st[i] = After(st[i - 1], t[i]) /\ st[i] \in States /\ Quote(t[i]) = "no"
    BY <2>2 DEF IsReading
  <2>5. st[i] \in {"code", "comment", "block"}
    <3>1. t[i] \notin {"dq", "sq", "R1", "R2", ")1", ")2"}
      BY <2>4 DEF Quote
    <3> QED BY <2>3, <2>4, <3>1 DEF After, States
  <2> QED BY <2>1, <2>5
<1> QED BY <1>2

(* A string or character that begins at a quote goes on to the next one.      *)
QuoteState(quote) == IF quote = "dq" THEN "string" ELSE "character"

LEMMA StringGoesOn ==
  ASSUME NEW t \in Seq(Characters), NEW st, NEW lf, IsReading("code", t, FALSE, st, lf), Cooked(t, st),
         NEW p \in 1 .. Len(t), st[p - 1] \in {"code", "comment", "block"}, Quote(t[p]) # "no",
         NEW m \in p .. Len(t), \A i \in p + 1 .. m : Quote(t[i]) # Quote(t[p])
  PROVE  /\ Quote(t[p]) \in {"dq", "sq"} /\ st[p - 1] \in {"code", "comment"}
         /\ st[p - 1] = "code" => /\ st[m] = QuoteState(Quote(t[p]))
                                  /\ lf[m] = lf[p - 1] \o <<Quote(t[p])>>
<1>1. p \in Nat /\ m \in Nat /\ Len(t) \in Nat /\ p <= m /\ m <= Len(t) /\ p - 1 \in 0 .. Len(t) /\ p \in 0 .. Len(t)
      /\ m \in p .. m
  OBVIOUS
<1>2. /\ st[p] = After(st[p - 1], t[p]) /\ lf[p] = lf[p - 1] \o Left(st[p - 1], t[p], FALSE)
      /\ st[p] \in States \ Raw
  <2>1. /\ st[p] = After(st[p - 1], t[p]) /\ lf[p] = lf[p - 1] \o Left(st[p - 1], t[p], FALSE)
    BY DEF IsReading
  <2>2. st[p] \in States /\ st[p] \notin Raw
    BY <1>1 DEF IsReading, Cooked
  <2> QED BY <2>1, <2>2
<1>3. Quote(t[p]) \in {"dq", "sq"}
  BY DEF Quote
<1>4. t[p] \in {"dq", "sq", "R1", "R2", ")1", ")2"}
  BY DEF Quote
<1>5. st[p - 1] # "block"
  BY <1>2, <1>4, BlocksAssumption DEF After, States
<1>6. ASSUME st[p - 1] = "code"
      PROVE  st[m] = QuoteState(Quote(t[p])) /\ lf[m] = lf[p - 1] \o <<Quote(t[p])>>
  <2>1. t[p] \in {"dq", "sq"} /\ st[p] = QuoteState(t[p]) /\ Quote(t[p]) = t[p]
    BY <1>2, <1>4, <1>6 DEF After, States, Raw, QuoteState, Quote
  <2>2. QuoteState(t[p]) \in Literal /\ QuoteState(t[p]) # "code"
    BY DEF QuoteState, Literal
  <2>3. lf[p] = lf[p - 1] \o <<t[p]>>
    <3>1. Left("code", t[p], FALSE) = <<t[p]>>
      BY <1>2, <1>6, <2>1, <2>2 DEF Left, Raw, Literal
    <3> QED BY <1>2, <1>6, <3>1
  <2>4. Idles(QuoteState(t[p]), t, p, m)
    <3>1. SUFFICES ASSUME NEW i \in p + 1 .. m, After(QuoteState(t[p]), t[i]) \in States
                   PROVE  After(QuoteState(t[p]), t[i]) = QuoteState(t[p])
      BY DEF Idles
    <3>2. Quote(t[i]) # t[p]
      BY <2>1
    <3> QED BY <2>1, <3>1, <3>2 DEF After, QuoteState, Quote, States
  <2>5. Remains(QuoteState(t[p]), st, lf, p, m)
    BY <1>1, <2>1, <2>2, <2>4, TextRemains
  <2> QED BY <1>1, <2>1, <2>3, <2>5 DEF Remains
<1> QED BY <1>3, <1>5, <1>6

LEMMA StringEnds ==
  ASSUME NEW t \in Seq(Characters), NEW st, NEW lf, IsReading("code", t, FALSE, st, lf), Cooked(t, st),
         NEW p \in 1 .. Len(t), st[p - 1] \in {"code", "comment", "block"}, Quote(t[p]) # "no",
         NEW q, IsNext(t, p, q)
  PROVE  /\ Quote(t[p]) \in {"dq", "sq"} /\ st[p - 1] \in {"code", "comment"} /\ st[q] = st[p - 1]
         /\ lf[q] = IF st[p - 1] = "code" THEN lf[p - 1] \o <<Quote(t[p]), Quote(t[p])>> ELSE lf[p - 1]
<1>1. q \in p + 1 .. Len(t) /\ Quote(t[q]) = Quote(t[p]) /\ \A i \in p + 1 .. q - 1 : Quote(t[i]) # Quote(t[p])
  BY DEF IsNext
<1>2. /\ q \in 1 .. Len(t) /\ q \in 0 .. Len(t) /\ q - 1 \in p .. Len(t) /\ p - 1 \in 0 .. Len(t)
      /\ q \in p - 1 .. Len(t) /\ q - 1 \in 0 .. Len(t)
  BY <1>1
<1>3. /\ Quote(t[p]) \in {"dq", "sq"} /\ st[p - 1] \in {"code", "comment"}
      /\ st[p - 1] = "code" => /\ st[q - 1] = QuoteState(Quote(t[p]))
                               /\ lf[q - 1] = lf[p - 1] \o <<Quote(t[p])>>
  <2> DEFINE m == q - 1
  <2>1. m \in p .. Len(t) /\ \A i \in p + 1 .. m : Quote(t[i]) # Quote(t[p])
    BY <1>1, <1>2
  <2> HIDE DEF m
  <2>2. /\ Quote(t[p]) \in {"dq", "sq"} /\ st[p - 1] \in {"code", "comment"}
        /\ st[p - 1] = "code" => /\ st[m] = QuoteState(Quote(t[p]))
                                 /\ lf[m] = lf[p - 1] \o <<Quote(t[p])>>
    BY <2>1, StringGoesOn
  <2> QED BY <2>2 DEF m
<1>4. /\ st[q] = After(st[q - 1], t[q]) /\ lf[q] = lf[q - 1] \o Left(st[q - 1], t[q], FALSE)
      /\ st[q] \in States /\ lf[p - 1] \in Seq(Characters)
  BY <1>2 DEF IsReading
<1>5. CASE st[p - 1] = "code"
  <2>1. st[q] = "code" /\ t[q] = Quote(t[p])
    BY <1>1, <1>3, <1>4, <1>5 DEF QuoteState, After, Quote, States
  <2>2. Left(st[q - 1], t[q], FALSE) = <<t[q]>>
    BY <1>3, <1>4, <1>5, <2>1 DEF Left, QuoteState, Literal, Raw
  <2>3. lf[q] = (lf[p - 1] \o <<Quote(t[p])>>) \o <<Quote(t[p])>>
    BY <1>3, <1>4, <1>5, <2>1, <2>2
  <2>4. (lf[p - 1] \o <<Quote(t[p])>>) \o <<Quote(t[p])>> = lf[p - 1] \o <<Quote(t[p]), Quote(t[p])>>
    <3>1. Quote(t[p]) \in Characters
      BY <1>3 DEF Characters
    <3> QED BY <1>4, <3>1
  <2> QED BY <1>3, <1>5, <2>1, <2>3, <2>4
<1>6. CASE st[p - 1] = "comment"
  <2>1. Remains("comment", st, lf, p - 1, Len(t))
    BY <1>2, <1>6, CommentsStay
  <2>2. st[q] = "comment" /\ lf[q] = lf[p - 1]
    BY <1>2, <2>1 DEF Remains
  <2> QED BY <1>3, <1>6, <2>2
<1> QED BY <1>3, <1>5, <1>6

(* Where tokens of e are in a text that they are l tokens of, from n + 1 on.  *)
Places(n, l, p, q, P, Q, m) ==
  /\ P \in 1 .. m /\ Q \in P + 1 .. m /\ P - 1 \in n .. m /\ P - 1 \in n .. P - 1 /\ P - 1 \in 0 .. P - 1
  /\ P - 1 \in 0 .. m /\ Q \in 0 .. m /\ n \in 0 .. m /\ P - n = p /\ Q - n = q
  /\ P \in n + 1 .. m /\ Q \in n + 1 .. m /\ P - 1 = n + (p - 1) /\ p - 1 \in 0 .. l
  /\ q \in 0 .. l /\ m - Q = l - q
  /\ \A i \in n + 1 .. P - 1 : i \in n + 1 .. m /\ i - n \in 1 .. p - 1
  /\ \A i \in P + 1 .. Q - 1 : i \in n + 1 .. m /\ i - n \in p + 1 .. q - 1
  /\ \A i \in 1 .. l - q : i + Q \in n + 1 .. m /\ (i + Q) - n = i + q
  /\ \A i \in 1 .. P - 1 :
       /\ i - 1 \in 0 .. P - 1
       /\ \/ i \in 1 .. n
          \/ i \in n + 1 .. n + (p - 1) /\ i \in n + 1 .. m /\ i - n \in 1 .. p - 1 /\ i - 1 \in n .. P - 1

LEMMA TokensHavePlaces ==
  ASSUME NEW n \in Nat, NEW l \in Nat, NEW p \in 1 .. l, NEW q \in p + 1 .. l,
         NEW P, P = n + p, NEW Q, Q = n + q, NEW m, m = n + l
  PROVE  Places(n, l, p, q, P, Q, m)
BY DEF Places

(* One turn of the loop of CollapseStrings(), and its end.                    *)
LEMMA StringIsCollapsed ==
  ASSUME NEW c \in Seq(Characters), NEW e \in Seq(Characters), NEW left, CollapsingText(c, e, left),
         HasString(e), NEW p, p = Min(Quotes(e)), NEW q, q = Min(SecondQuotes(e))
  PROVE  /\ (c \o UpTo(e, p - 1) \o <<Quote(e[p]), Quote(e[p])>>) \in Seq(Characters)
         /\ Beyond(e, q) \in Seq(Characters)
         /\ CollapsingText(c \o UpTo(e, p - 1) \o <<Quote(e[p]), Quote(e[p])>>, Beyond(e, q), left)
<1> DEFINE t == c \o e
           n == Len(c)
           quote == Quote(e[p])
           r == c \o UpTo(e, p - 1) \o <<quote, quote>>
<1>1. PICK st, lf : Collapses(c, t, st, lf, left)
  BY DEF CollapsingText
<1>2. /\ t \in Seq(Characters) /\ n \in Nat /\ Len(e) \in Nat /\ Len(t) = n + Len(e)
      /\ \A j \in 1 .. n : t[j] = c[j]
      /\ \A j \in n + 1 .. Len(t) : t[j] = e[j - n]
  BY Joined
<1>3. IsFirst(e, 0, p) /\ IsNext(e, p, q)
  <2>1. IsFirst(e, 0, p)
    BY FirstQuote DEF HasString
  <2> QED BY <2>1, NextQuote DEF HasString
<1>4. /\ p \in 1 .. Len(e) /\ Quote(e[p]) # "no" /\ (\A i \in 1 .. p - 1 : Quote(e[i]) = "no")
      /\ q \in p + 1 .. Len(e) /\ Quote(e[q]) = Quote(e[p]) /\ \A i \in p + 1 .. q - 1 : Quote(e[i]) # Quote(e[p])
  BY <1>3 DEF IsFirst, IsNext
<1>5. PICK P : P = n + p
  OBVIOUS
<1>6. PICK Q : Q = n + q
  OBVIOUS
<1> HIDE DEF t, n
<1>7. Places(n, Len(e), p, q, P, Q, Len(t))
  BY <1>2, <1>4, <1>5, <1>6, TokensHavePlaces
<1>8. /\ t[P] = e[p] /\ t[Q] = e[q]
      /\ \A i \in n + 1 .. P - 1 : Quote(t[i]) = "no"
      /\ \A i \in P + 1 .. Q - 1 : Quote(t[i]) # Quote(t[P])
  <2>1. t[P] = e[p] /\ t[Q] = e[q]
    BY <1>2, <1>7 DEF Places
  <2>2. \A i \in n + 1 .. P - 1 : i \in n + 1 .. Len(t) /\ i - n \in 1 .. p - 1
    BY <1>7 DEF Places
  <2>3. \A i \in P + 1 .. Q - 1 : i \in n + 1 .. Len(t) /\ i - n \in p + 1 .. q - 1
    BY <1>7 DEF Places
  <2> QED BY <1>2, <1>4, <2>1, <2>2, <2>3
<1>9. IsNext(t, P, Q) /\ Quote(t[P]) = quote /\ quote # "no"
  BY <1>4, <1>7, <1>8 DEF IsNext, Places
<1>10. /\ IsReading("code", t, FALSE, st, lf) /\ lf[Len(t)] = left
       /\ Cooked(t, st) /\ st[Len(t)] \in {"code", "comment"}
       /\ (\A i \in 1 .. n : ~InLiteral(st[i - 1], t[i]))
       /\ st[n] \in {"code", "comment"}
  BY <1>1 DEF Collapses, n
<1>11. \A i \in n .. P - 1 : st[i] \in {"code", "comment", "block"}
  <2> DEFINE m == P - 1
  <2>1. m \in n .. Len(t) /\ n \in 0 .. Len(t) /\ \A i \in n + 1 .. m : Quote(t[i]) = "no"
    BY <1>7, <1>8 DEF Places
  <2> HIDE DEF m
  <2>2. \A i \in n .. m : st[i] \in {"code", "comment", "block"}
    BY <1>2, <1>10, <2>1, NothingIsQuoted
  <2> QED BY <2>2 DEF m
<1>12. /\ quote \in {"dq", "sq"} /\ st[P - 1] \in {"code", "comment"} /\ st[Q] = st[P - 1]
       /\ lf[Q] = IF st[P - 1] = "code" THEN lf[P - 1] \o <<quote, quote>> ELSE lf[P - 1]
  <2>1. st[P - 1] \in {"code", "comment", "block"}
    <3>1. P - 1 \in n .. P - 1
      BY <1>7 DEF Places
    <3> QED BY <1>11, <3>1
  <2> HIDE DEF quote
  <2>2. Quote(t[P]) = quote /\ Quote(t[P]) # "no"
    BY <1>9
  <2>4. P \in 1 .. Len(t)
    BY <1>7 DEF Places
  <2>3. /\ Quote(t[P]) \in {"dq", "sq"} /\ st[P - 1] \in {"code", "comment"} /\ st[Q] = st[P - 1]
        /\ lf[Q] = IF st[P - 1] = "code" THEN lf[P - 1] \o <<Quote(t[P]), Quote(t[P])>> ELSE lf[P - 1]
    BY <1>2, <1>9, <1>10, <2>1, <2>2, <2>4, StringEnds
  <2> QED BY <2>2, <2>3
<1> DEFINE u == UpTo(t, P - 1)
<1>13. PICK su, lu : Prefix("code", t, FALSE, st, lf, P - 1, u, su, lu)
  <2>1. IsReading("code", t, FALSE, st, lf) /\ FALSE \in BOOLEAN /\ P - 1 \in 0 .. Len(t)
    BY <1>7, <1>10 DEF Places
  <2> QED BY <1>2, <2>1, ReadsPrefix
<1>14. u \in Seq(Characters) /\ Len(u) = P - 1 /\ \A j \in 1 .. P - 1 : u[j] = t[j]
  <2>1. P - 1 \in 0 .. Len(t)
    BY <1>7 DEF Places
  <2> QED BY <1>2, <2>1, Pieces
<1>15. c \o UpTo(e, p - 1) = u
  <2>1. /\ UpTo(e, p - 1) \in Seq(Characters) /\ Len(UpTo(e, p - 1)) = p - 1
        /\ \A j \in 1 .. p - 1 : UpTo(e, p - 1)[j] = e[j]
    <3>1. p - 1 \in 0 .. Len(e)
      BY <1>7 DEF Places
    <3> QED BY <3>1, Pieces
  <2>2. /\ c \o UpTo(e, p - 1) \in Seq(Characters) /\ Len(c \o UpTo(e, p - 1)) = n + (p - 1)
        /\ \A j \in 1 .. n : (c \o UpTo(e, p - 1))[j] = c[j]
        /\ \A j \in n + 1 .. n + (p - 1) : (c \o UpTo(e, p - 1))[j] = UpTo(e, p - 1)[j - n]
    BY <2>1, Joined DEF n
  <2>3. \A j \in 1 .. P - 1 : \/ j \in 1 .. n
                              \/ j \in n + 1 .. n + (p - 1) /\ j \in n + 1 .. Len(t) /\ j - n \in 1 .. p - 1
    <3> TAKE j \in 1 .. P - 1
    <3> QED BY <1>7 DEF Places
  <2>4. \A j \in 1 .. P - 1 : (c \o UpTo(e, p - 1))[j] = u[j]
    BY <1>2, <1>14, <2>1, <2>2, <2>3
  <2>5. n + (p - 1) = P - 1
    BY <1>7 DEF Places
  <2> HIDE DEF u
  <2> QED BY <1>14, <2>2, <2>4, <2>5, SeqEqual
<1> HIDE DEF u, r, quote
<1>16. r = u \o <<quote, quote>>
  BY <1>15 DEF r
<1>17. /\ su[P - 1] = st[P - 1] /\ lu[P - 1] = lf[P - 1] /\ P - 1 \in 0 .. P - 1
       /\ IsReading("code", u, FALSE, su, lu) /\ Cooked(u, su)
  <2>1. P - 1 \in 0 .. P - 1
    BY <1>7 DEF Places
  <2> QED BY <1>10, <1>13, <2>1 DEF Prefix, Inherits
<1>18. Emptied(u, su)
  <2>1. SUFFICES ASSUME NEW i \in 1 .. P - 1 PROVE ~InLiteral(su[i - 1], u[i])
    BY <1>14 DEF Emptied
  <2>2. i - 1 \in 0 .. P - 1 /\ (i \in 1 .. n \/ i - 1 \in n .. P - 1)
    BY <1>7 DEF Places
  <2>3. su[i - 1] = st[i - 1] /\ u[i] = t[i]
    BY <1>13, <1>14, <2>2 DEF Prefix
  <2> QED BY <1>10, <1>11, <2>2, <2>3 DEF InLiteral, Literal
<1>19. /\ r \in Seq(Characters)
       /\ \E sr, lr : HasEmpty("code", u, FALSE, su, lu, quote, r, sr, lr)
  <2>1. su[Len(u)] \in {"code", "comment"} /\ FALSE \in BOOLEAN
    BY <1>12, <1>14, <1>17
  <2>2. u \in Seq(Characters) /\ IsReading("code", u, FALSE, su, lu) /\ quote \in {"dq", "sq"}
    BY <1>12, <1>14, <1>17
  <2>3. u \o <<quote, quote>> \in Seq(Characters)
    BY <2>2 DEF Characters
  <2>4. \E sr, lr : HasEmpty("code", u, FALSE, su, lu, quote, r, sr, lr)
    <3>1. CanHaveEmpty("code", u, FALSE, su, lu, quote, u \o <<quote, quote>>)
      BY <2>1, <2>2, ReadsEmptyString
    <3> QED BY <1>16, <3>1 DEF CanHaveEmpty
  <2> QED BY <1>16, <2>3, <2>4
<1>20. PICK sr, lr : HasEmpty("code", u, FALSE, su, lu, quote, r, sr, lr)
  BY <1>19
<1>21. /\ IsReading("code", r, FALSE, sr, lr) /\ sr[Len(r)] = st[Q] /\ lr[Len(r)] = lf[Q]
       /\ Emptied(r, sr) /\ Cooked(r, sr)
  <2>1. /\ IsReading("code", r, FALSE, sr, lr)
        /\ sr[Len(r)] = su[Len(u)]
        /\ lr[Len(r)] = IF su[Len(u)] = "code" THEN lu[Len(u)] \o <<quote, quote>> ELSE lu[Len(u)]
        /\ Inherits(r, sr, u, su, u, su)
    BY <1>20 DEF HasEmpty
  <2>2. Emptied(r, sr) /\ Cooked(r, sr)
    BY <1>17, <1>18, <2>1 DEF Inherits
  <2> QED BY <1>12, <1>14, <1>17, <2>1, <2>2
<1>22. Beyond(e, q) = Beyond(t, Q) /\ Beyond(e, q) \in Seq(Characters)
  <2>1. /\ Beyond(e, q) \in Seq(Characters) /\ Len(Beyond(e, q)) = Len(e) - q
        /\ \A j \in 1 .. Len(e) - q : Beyond(e, q)[j] = e[j + q]
    <3>1. q \in 0 .. Len(e)
      BY <1>7 DEF Places
    <3> QED BY <3>1, Pieces
  <2>2. /\ Beyond(t, Q) \in Seq(Characters) /\ Len(Beyond(t, Q)) = Len(t) - Q
        /\ \A j \in 1 .. Len(t) - Q : Beyond(t, Q)[j] = t[j + Q]
    <3>1. Q \in 0 .. Len(t)
      BY <1>7 DEF Places
    <3> QED BY <1>2, <3>1, Pieces
  <2>3. Len(t) - Q = Len(e) - q
    BY <1>7 DEF Places
  <2>4. \A j \in 1 .. Len(e) - q : j + Q \in n + 1 .. Len(t) /\ (j + Q) - n = j + q
    BY <1>7 DEF Places
  <2>5. \A j \in 1 .. Len(e) - q : t[j + Q] = e[j + q]
    BY <1>2, <2>4
  <2>6. \A j \in 1 .. Len(e) - q : Beyond(e, q)[j] = Beyond(t, Q)[j]
    BY <2>1, <2>2, <2>3, <2>5
  <2> QED BY <2>1, <2>2, <2>3, <2>6, SeqEqual
<1>23. PICK sn, ln : Continues("code", r \o Beyond(t, Q), FALSE, sn, ln, r, sr, t, st, lf)
  <2>1. st[Q] \notin Literal
    BY <1>12 DEF Literal
  <2>2. IsReading("code", t, FALSE, st, lf) /\ FALSE \in BOOLEAN /\ Q \in 0 .. Len(t)
    BY <1>7, <1>10 DEF Places
  <2> QED BY <1>2, <1>19, <1>21, <2>1, <2>2, ReadsOn
<1> DEFINE w == r \o Beyond(t, Q)
<1>24. Collapses(r, w, sn, ln, left)
  <2>1. /\ IsReading("code", w, FALSE, sn, ln) /\ ln[Len(w)] = left /\ sn[Len(w)] \in {"code", "comment"}
        /\ \A i \in 0 .. Len(r) : sn[i] = sr[i]
        /\ Inherits(w, sn, r, sr, t, st)
    BY <1>10, <1>23 DEF Continues
  <2>2. Cooked(w, sn)
    BY <1>10, <1>21, <2>1 DEF Inherits
  <2>3. \A i \in 1 .. Len(r) : ~InLiteral(sn[i - 1], w[i])
    <3>1. \A i \in 1 .. Len(r) : w[i] = r[i]
      BY <1>19, <1>22, Joined
    <3>2. \A i \in 1 .. Len(r) : i - 1 \in 0 .. Len(r)
      OBVIOUS
    <3> HIDE DEF w
    <3> QED BY <1>21, <2>1, <3>1, <3>2 DEF Emptied
  <2>4. sn[Len(r)] \in {"code", "comment"}
    <3>1. Len(r) \in 0 .. Len(r)
      BY <1>19
    <3> QED BY <1>12, <1>21, <2>1, <3>1
  <2> HIDE DEF w
  <2> QED BY <2>1, <2>2, <2>3, <2>4 DEF Collapses
<1>25. CollapsingText(r, Beyond(e, q), left)
  BY <1>22, <1>24 DEF CollapsingText
<1> QED BY <1>19, <1>22, <1>25 DEF r, quote

LEMMA StringsAreCollapsed ==
  ASSUME NEW c \in Seq(Characters), NEW e \in Seq(Characters), NEW left, CollapsingText(c, e, left), ~HasString(e)
  PROVE  c \o e \in Seq(Characters) /\ Text(c \o e, FALSE, left, TRUE, TRUE)
<1> DEFINE t == c \o e
           n == Len(c)
<1>1. PICK st, lf : Collapses(c, t, st, lf, left)
  BY DEF CollapsingText
<1>2. /\ t \in Seq(Characters) /\ n \in Nat /\ Len(e) \in Nat /\ Len(t) = n + Len(e)
      /\ \A j \in n + 1 .. n + Len(e) : t[j] = e[j - n]
  BY Joined
<1>3. /\ IsReading("code", t, FALSE, st, lf) /\ lf[Len(t)] = left
      /\ Cooked(t, st) /\ st[Len(t)] \in {"code", "comment"}
      /\ (\A i \in 1 .. n : ~InLiteral(st[i - 1], t[i]))
      /\ st[n] \in {"code", "comment"}
  BY <1>1 DEF Collapses
<1> HIDE DEF t, n
<1>4. n \in 0 .. Len(t) /\ Len(t) \in n .. Len(t) /\ Len(t) \in Nat
  BY <1>2
<1>5. \A i \in n .. Len(t) : st[i] \notin Literal
  <2>1. CASE Quotes(e) = {}
    <3>1. \A i \in 1 .. Len(e) : Quote(e[i]) = "no"
      BY <2>1, FirstQuote
    <3>2. \A i \in n + 1 .. Len(t) : i \in n + 1 .. n + Len(e) /\ i - n \in 1 .. Len(e)
      BY <1>2
    <3>3. \A i \in n + 1 .. Len(t) : Quote(t[i]) = "no"
      BY <1>2, <3>1, <3>2
    <3>4. \A i \in n .. Len(t) : st[i] \in {"code", "comment", "block"}
      BY <1>2, <1>3, <1>4, <3>3, NothingIsQuoted
    <3> QED BY <3>4 DEF Literal
  <2>2. CASE Quotes(e) # {}
    <3>1. PICK p : p = Min(Quotes(e))
      OBVIOUS
    <3>2. IsFirst(e, 0, p)
      BY <2>2, <3>1, FirstQuote
    <3>3. /\ p \in 1 .. Len(e) /\ Quote(e[p]) # "no" /\ (\A i \in 1 .. p - 1 : Quote(e[i]) = "no")
          /\ \A i \in p + 1 .. Len(e) : Quote(e[i]) # Quote(e[p])
      <4>1. \A i \in p + 1 .. Len(e) : Quote(e[i]) # Quote(e[p])
        BY <2>2, <3>1, <3>2, NextQuote DEF HasString
      <4> QED BY <3>2, <4>1 DEF IsFirst
    <3>4. PICK P : P = n + p
      OBVIOUS
    <3>5. PICK m : m = P - 1
      OBVIOUS
    <3>6. /\ P \in 1 .. Len(t) /\ m \in n .. Len(t) /\ P \in n + 1 .. n + Len(e) /\ P - n = p
          /\ Len(t) \in P .. Len(t) /\ m \in 0 .. Len(t) /\ m \in n .. m
      BY <1>2, <3>3, <3>4, <3>5
    <3>7. t[P] = e[p]
      BY <1>2, <3>6
    <3>8. \A i \in n + 1 .. m : Quote(t[i]) = "no"
      <4>1. \A i \in n + 1 .. m : i \in n + 1 .. n + Len(e) /\ i - n \in 1 .. p - 1
        BY <1>2, <3>3, <3>4, <3>5
      <4> QED BY <1>2, <3>3, <4>1
    <3>9. \A i \in P + 1 .. Len(t) : Quote(t[i]) # Quote(t[P])
      <4>1. \A i \in P + 1 .. Len(t) : i \in n + 1 .. n + Len(e) /\ i - n \in p + 1 .. Len(e)
        BY <1>2, <3>3, <3>4
      <4> QED BY <1>2, <3>3, <3>7, <4>1
    <3>10. \A i \in n .. m : st[i] \in {"code", "comment", "block"}
      BY <1>2, <1>3, <1>4, <3>6, <3>8, NothingIsQuoted
    <3>11. st[P - 1] \in {"code", "comment", "block"} /\ Quote(t[P]) # "no"
      BY <3>3, <3>5, <3>6, <3>7, <3>10
    <3>12. /\ Quote(t[P]) \in {"dq", "sq"} /\ st[P - 1] \in {"code", "comment"}
           /\ st[P - 1] = "code" => st[Len(t)] = QuoteState(Quote(t[P]))
      BY <1>2, <1>3, <3>6, <3>9, <3>11, StringGoesOn
    <3>13. st[P - 1] = "comment"
      BY <1>3, <3>12 DEF QuoteState
    <3>14. Remains("comment", st, lf, m, Len(t))
      BY <1>2, <1>3, <3>5, <3>6, <3>13, CommentsStay
    <3>15. \A i \in n .. Len(t) : i \in n .. m \/ i \in m .. Len(t)
      BY <3>6
    <3> QED BY <3>10, <3>14, <3>15 DEF Remains, Literal
  <2> QED BY <2>1, <2>2
<1>6. Emptied(t, st)
  <2>1. SUFFICES ASSUME NEW i \in 1 .. Len(t) PROVE ~InLiteral(st[i - 1], t[i])
    BY DEF Emptied
  <2>2. i \in 1 .. n \/ i - 1 \in n .. Len(t)
    BY <1>2
  <2> QED BY <1>3, <1>5, <2>2 DEF InLiteral
<1>7. Plain(t, st) /\ Unmarked(t, st)
  BY <1>6 DEF Emptied, Plain, Unmarked
<1>8. Text(t, FALSE, left, TRUE, TRUE)
  BY <1>3, <1>6, <1>7 DEF Text
<1> QED BY <1>2, <1>8 DEF t

-------------------------------------------------------------------------------
(* The inductive invariant: what has been made of the line at each stage has  *)
(* what is left of it in C++.                                                 *)
CleansingTypes ==
  /\ line \in Seq(Characters) /\ state \in States
  /\ code \in Seq(Characters) /\ kept \in Seq(Characters) /\ plain \in BOOLEAN /\ marked \in BOOLEAN
  /\ delimiter \in {0, 1, 2} /\ stage \in {"read", "raw", "lines", "strings", "elided"}
  /\ lines \in Seq(Characters) /\ collapsed \in Seq(Characters) /\ elided \in Seq(Characters)

Result(keep) == IF keep THEN kept ELSE code

LineIsRead(keep) ==
  \E st, lf : /\ IsReading(context, line, keep, st, lf)
              /\ st[Len(line)] = state /\ lf[Len(line)] = Result(keep)
              /\ (plain => Plain(line, st)) /\ (~marked => Unmarked(line, st))

IsReadInContext ==
  /\ context = IF delimiter = 0 THEN "code" ELSE RawOf(delimiter)
  /\ LineIsRead(TRUE) /\ LineIsRead(FALSE)

RawStringsAreOpened ==
  /\ state \in {"code", "comment"} \cup Raw
  /\ Opened(elided, TRUE, delimiter, Result(TRUE), state, plain, ~marked)
  /\ Opened(elided, FALSE, delimiter, Result(FALSE), state, plain, ~marked)

DelimiterIsState ==
  /\ delimiter = 0 => state \in {"code", "comment"}
  /\ delimiter # 0 => state = RawOf(delimiter)

LinesKeepStrings == IsPrefix(kept, lines) /\ (~marked => lines = kept)

CleansingInv ==
  /\ CleansingTypes
  /\ stage \in {"read", "raw", "lines", "elided"} => collapsed = <<>>
  /\ stage = "read" => IsReadInContext
  /\ stage = "raw" => RawStringsAreOpened
  /\ stage \in {"lines", "strings", "elided"} => DelimiterIsState
  /\ stage = "lines" /\ plain => CutText(lines, TRUE, kept, ~marked, FALSE)
  /\ stage \in {"lines", "strings"} => CollapsingText(collapsed, elided, code)
  /\ stage \in {"strings", "elided"} /\ plain => LinesKeepStrings
  /\ stage = "elided" => CutText(elided, FALSE, code, TRUE, TRUE)

LEMMA AfterType ==
  ASSUME NEW x \in States, NEW t \in Characters, After(x, t) # "bad"
  PROVE  After(x, t) \in States
BY DEF After, States, Quote

LEMMA CleansingBegins ==
  CleansingInit => CleansingInv
<1> SUFFICES ASSUME CleansingInit PROVE CleansingInv
  OBVIOUS
<1> USE DEF CleansingInit
<1>1. <<>> \in Seq(Characters) /\ "code" \in States
  BY DEF States
<1>2. CleansingTypes
  BY <1>1 DEF CleansingTypes
<1>3. ASSUME NEW keep \in BOOLEAN PROVE LineIsRead(keep)
  <2>1. PICK st, lf : /\ IsReading("code", <<>>, keep, st, lf) /\ st[0] = "code" /\ lf[0] = Begun("code")
                      /\ Plain(<<>>, st) /\ Unmarked(<<>>, st)
    BY ReadsNothing
  <2>2. Len(<<>>) = 0 /\ Begun("code") = Result(keep)
    BY DEF Begun, Result
  <2> QED BY <2>1, <2>2 DEF LineIsRead
<1>4. IsReadInContext
  BY <1>3 DEF IsReadInContext
<1> QED BY <1>2, <1>4 DEF CleansingInv

(* C++ reads a token.                                                         *)
LEMMA TokenIsRead ==
  ASSUME CleansingInv, NEW t \in Characters, ReadToken(t)
  PROVE  CleansingInv'
<1>1. /\ CleansingTypes /\ IsReadInContext /\ stage = "read" /\ collapsed = <<>>
  BY DEF CleansingInv, ReadToken
<1>2. After(state, t) \in States
  BY <1>1, AfterType DEF CleansingTypes, ReadToken
<1>3. CleansingTypes'
  <2>1. code' \in Seq(Characters) /\ kept' \in Seq(Characters)
    <3>1. Left(state, t, FALSE) \in Seq(Characters) /\ Left(state, t, TRUE) \in Seq(Characters)
      BY LeftType
    <3>2. code' = code \o Left(state, t, FALSE) /\ kept' = kept \o Left(state, t, TRUE)
      BY DEF ReadToken
    <3>3. code \in Seq(Characters) /\ kept \in Seq(Characters)
      BY <1>1 DEF CleansingTypes
    <3>4. \A u, v \in Seq(Characters) : u \o v \in Seq(Characters)
      OBVIOUS
    <3> QED BY <3>1, <3>2, <3>3, <3>4
  <2>2. plain' \in BOOLEAN /\ marked' \in BOOLEAN
    BY <1>1 DEF ReadToken, CleansingTypes, IsExpected
  <2>3. line' \in Seq(Characters) /\ state' \in States
    BY <1>1, <1>2 DEF ReadToken, CleansingTypes
  <2> QED BY <1>1, <2>1, <2>2, <2>3 DEF CleansingTypes, ReadToken
<1>4. ASSUME NEW keep \in BOOLEAN, LineIsRead(keep) PROVE LineIsRead(keep)'
  <2>1. PICK su, lu : /\ IsReading(context, line, keep, su, lu)
                      /\ su[Len(line)] = state /\ lu[Len(line)] = Result(keep)
                      /\ (plain => Plain(line, su)) /\ (~marked => Unmarked(line, su))
    BY <1>4 DEF LineIsRead
  <2>2. line \in Seq(Characters)
    BY <1>1 DEF CleansingTypes
  <2>3. PICK st, lf : ReadsMore(context, line, keep, su, lu, t, st, lf)
    <3>1. After(su[Len(line)], t) \in States
      BY <1>2, <2>1
    <3> QED BY <2>1, <2>2, <3>1, ReadsToken
  <2>4. /\ IsReading(context, Append(line, t), keep, st, lf)
        /\ st[Len(line) + 1] = After(state, t) /\ lf[Len(line) + 1] = Result(keep) \o Left(state, t, keep)
    BY <2>1, <2>3 DEF ReadsMore
  <2>5. /\ line' = Append(line, t) /\ context' = context /\ state' = After(state, t)
        /\ Len(line') = Len(line) + 1
    BY <2>2 DEF ReadToken
  <2>6. Result(keep)' = Result(keep) \o Left(state, t, keep)
    BY DEF Result, ReadToken
  <2>7. plain' => Plain(line', st)
    <3>1. SUFFICES ASSUME plain' PROVE Plain(Append(line, t), st)
      BY <2>5
    <3>2. Plain(line, su) /\ IsExpected(t)
      BY <2>1, <3>1 DEF ReadToken
    <3>3. InLiteral(state, t) => IF state = "string" THEN t \in {"x", "//"} ELSE Len(line) > 0 /\ line[Len(line)] = "sq"
      <4>1. ASSUME state \in Literal PROVE Len(line) > 0
        <5>1. su[0] = context /\ context \notin Literal
          BY <1>1, <2>1 DEF IsReading, IsReadInContext, RawOf, Literal
        <5>2. Len(line) # 0 /\ Len(line) \in Nat
          BY <2>1, <2>2, <4>1, <5>1
        <5> QED BY <5>2
      <4> QED BY <3>2, <4>1 DEF IsExpected, InLiteral
    <3> QED BY <2>1, <2>3, <3>2, <3>3 DEF ReadsMore
  <2>8. ~marked' => Unmarked(line', st)
    BY <2>1, <2>3, <2>5 DEF ReadsMore, ReadToken
  <2> QED BY <2>4, <2>5, <2>6, <2>7, <2>8 DEF LineIsRead
<1>5. IsReadInContext'
  <2>1. context' = context /\ delimiter' = delimiter
    BY DEF ReadToken
  <2>2. LineIsRead(TRUE)' /\ LineIsRead(FALSE)'
    BY <1>1, <1>4 DEF IsReadInContext
  <2> QED BY <1>1, <2>1, <2>2 DEF IsReadInContext
<1>6. stage' = "read" /\ collapsed' = collapsed
  BY <1>1 DEF ReadToken
<1> QED BY <1>1, <1>3, <1>5, <1>6 DEF CleansingInv

(* The line ends, and the raw string that it began in may, too.               *)
LEMMA LineEnds ==
  ASSUME CleansingInv, EndLine
  PROVE  CleansingInv'
<1>1. CleansingTypes /\ IsReadInContext /\ stage = "read" /\ collapsed = <<>>
  BY DEF CleansingInv, EndLine
<1>2. /\ line \in Seq(Characters) /\ plain \in BOOLEAN /\ marked \in BOOLEAN
      /\ delimiter \in {0, 1, 2}
  BY <1>1 DEF CleansingTypes
<1>3. UNCHANGED cppVars /\ stage' = "raw" /\ collapsed' = collapsed /\ lines' = lines
      /\ state \in {"code", "comment"} \cup Raw
  BY DEF EndLine
<1>4. ASSUME NEW keep \in BOOLEAN, LineIsRead(keep)
      PROVE  /\ elided' \in Seq(Characters) /\ delimiter' \in {0, 1, 2}
             /\ Opened(elided', keep, delimiter', Result(keep), state, plain, ~marked)
  <2>1. PICK st, lf : /\ IsReading(context, line, keep, st, lf)
                      /\ st[Len(line)] = state /\ lf[Len(line)] = Result(keep)
                      /\ (plain => Plain(line, st)) /\ (~marked => Unmarked(line, st))
    BY <1>4 DEF LineIsRead
  <2>2. CASE delimiter = 0
    <3>1. elided' = line /\ delimiter' = 0 /\ context = "code"
      BY <1>1, <2>2 DEF EndLine, IsReadInContext
    <3> QED BY <1>2, <2>1, <3>1 DEF Opened
  <2>3. CASE delimiter # 0
    <3>1. EndRawString(<<>>, line, delimiter) /\ context = RawOf(delimiter) /\ delimiter \in {1, 2}
      BY <1>1, <1>2, <2>3 DEF EndLine, IsReadInContext
    <3>2. PICK su, lu : /\ IsReading("code", <<>>, keep, su, lu) /\ su[0] = "code" /\ lu[0] = Begun("code")
                        /\ Plain(<<>>, su) /\ Unmarked(<<>>, su) /\ Cooked(<<>>, su)
      BY ReadsNothing
    <3>3. <<>> \in Seq(Characters) /\ Len(<<>>) = 0 /\ 0 \in 0 .. Len(line) /\ Beyond(line, 0) = line
      BY <1>2 DEF Beyond
    <3>4. /\ st[0] = RawOf(delimiter) /\ lf[0] = lu[Len(<<>>)] \o EmptyString
      <4>1. st[0] = RawOf(delimiter) /\ lf[0] = Begun(RawOf(delimiter))
        BY <2>1, <3>1 DEF IsReading
      <4>2. Begun(RawOf(delimiter)) = <<>> \o EmptyString /\ Begun("code") = <<>>
        BY DEF Begun, RawOf, EmptyString
      <4> QED BY <3>2, <3>3, <4>1, <4>2
    <3>5. PICK u : u = <<>>
      OBVIOUS
    <3>6. PICK m : m = 0
      OBVIOUS
    <3>7. PICK um \in BOOLEAN : um = ~marked
      BY <1>2
    <3>8. /\ u \in Seq(Characters) /\ IsReading("code", u, keep, su, lu) /\ su[Len(u)] = "code"
          /\ st[m] = RawOf(delimiter) /\ lf[m] = lu[Len(u)] \o EmptyString /\ Cooked(u, su) /\ m \in 0 .. Len(line)
          /\ Plain(u, su) /\ Unmarked(u, su) /\ EndRawString(u, Beyond(line, m), delimiter)
      BY <3>1, <3>2, <3>3, <3>4, <3>5, <3>6
    <3>9. IsOpenAfter(u, keep, su, lu, context, line, st, lf, m, delimiter, plain, um)
      BY <1>2, <2>1, <3>1, <3>7, <3>8 DEF IsOpenAfter
    <3>10. RawStringEnded(keep, lf[Len(line)], st[Len(line)], plain, um)
      BY <1>2, <3>8, <3>9, RawStringEnds
    <3> QED BY <2>1, <3>7, <3>10 DEF RawStringEnded
  <2> QED BY <2>2, <2>3
<1>5. RawStringsAreOpened' /\ elided' \in Seq(Characters) /\ delimiter' \in {0, 1, 2}
  <2>1. TRUE \in BOOLEAN /\ FALSE \in BOOLEAN /\ LineIsRead(TRUE) /\ LineIsRead(FALSE)
    BY <1>1 DEF IsReadInContext
  <2>2. /\ Opened(elided', TRUE, delimiter', Result(TRUE), state, plain, ~marked)
        /\ Opened(elided', FALSE, delimiter', Result(FALSE), state, plain, ~marked)
    BY <1>4, <2>1
  <2>3. /\ Result(TRUE)' = Result(TRUE) /\ Result(FALSE)' = Result(FALSE) /\ state' = state
        /\ plain' = plain /\ marked' = marked
    BY <1>3 DEF Result, cppVars
  <2>4. elided' \in Seq(Characters) /\ delimiter' \in {0, 1, 2}
    BY <1>4, <2>1
  <2> QED BY <1>3, <2>2, <2>3, <2>4 DEF RawStringsAreOpened
<1>6. CleansingTypes'
  BY <1>1, <1>3, <1>5 DEF CleansingTypes, cppVars
<1> QED BY <1>1, <1>3, <1>5, <1>6 DEF CleansingInv

(* A raw string is replaced.                                                  *)
LEMMA RawStringIsReplaced ==
  ASSUME CleansingInv, ReplaceRawString
  PROVE  CleansingInv'
<1> DEFINE at == Min(RawStrings(elided))
           k == IF elided[at] = Start(1) THEN 1 ELSE 2
<1>1. /\ CleansingTypes /\ RawStringsAreOpened /\ stage = "raw" /\ collapsed = <<>> /\ delimiter = 0
      /\ RawStrings(elided) # {} /\ ~InComment(UpTo(elided, at - 1))
      /\ EndRawString(UpTo(elided, at - 1), Beyond(elided, at), k)
  BY DEF CleansingInv, ReplaceRawString, BeginsRawString
<1>2. k \in {1, 2}
  OBVIOUS
<1>3. UNCHANGED cppVars /\ stage' = stage /\ collapsed' = collapsed /\ lines' = lines
  BY DEF ReplaceRawString
<1>4. /\ elided \in Seq(Characters) /\ plain \in BOOLEAN /\ marked \in BOOLEAN
  BY <1>1 DEF CleansingTypes
<1> HIDE DEF k
<1>5. ASSUME NEW keep \in BOOLEAN, Opened(elided, keep, delimiter, Result(keep), state, plain, ~marked)
      PROVE  /\ elided' \in Seq(Characters) /\ delimiter' \in {0, 1, 2}
             /\ Opened(elided', keep, delimiter', Result(keep), state, plain, ~marked)
  <2>1. PICK st, lf : /\ IsReading("code", elided, keep, st, lf)
                      /\ st[Len(elided)] = state /\ lf[Len(elided)] = Result(keep)
                      /\ (plain => Plain(elided, st)) /\ (~marked => Unmarked(elided, st))
    BY <1>1, <1>5 DEF Opened
  <2>2. /\ at \in 1 .. Len(elided) /\ (\A i \in 0 .. at - 1 : st[i] \notin Raw)
        /\ st[at - 1] = "code" /\ st[at] = RawOf(k) /\ lf[at] = lf[at - 1] \o EmptyString
    BY <1>1, <1>4, <2>1, RawStringBegins DEF k
  <2> HIDE DEF at
  <2>3. PICK m : m = at - 1
    OBVIOUS
  <2>4. m \in 0 .. Len(elided) /\ m \in 0 .. m /\ at \in 0 .. Len(elided)
    BY <2>2, <2>3
  <2>5. PICK u : u = UpTo(elided, m)
    OBVIOUS
  <2>6. PICK su, lu : Prefix("code", elided, keep, st, lf, m, u, su, lu)
    BY <1>4, <2>1, <2>4, <2>5, ReadsPrefix
  <2>7. /\ u \in Seq(Characters) /\ Len(u) = m
    BY <1>4, <2>4, <2>5, Pieces
  <2>8. /\ IsReading("code", u, keep, su, lu) /\ su[Len(u)] = "code" /\ lf[at] = lu[Len(u)] \o EmptyString
    BY <2>2, <2>3, <2>4, <2>6, <2>7 DEF Prefix
  <2>9. Cooked(u, su)
    BY <2>2, <2>3, <2>6, <2>7 DEF Prefix, Cooked
  <2>10. PICK um \in BOOLEAN : um = ~marked
    BY <1>4
  <2>11. (plain => Plain(u, su) /\ Plain(elided, st)) /\ (um => Unmarked(u, su) /\ Unmarked(elided, st))
    BY <2>1, <2>6, <2>10 DEF Prefix, Inherits
  <2>12. EndRawString(u, Beyond(elided, at), k)
    BY <1>1, <2>3, <2>5 DEF at
  <2>13. IsOpenAfter(u, keep, su, lu, "code", elided, st, lf, at, k, plain, um)
    BY <1>2, <1>4, <2>1, <2>2, <2>4, <2>7, <2>8, <2>9, <2>11 DEF IsOpenAfter
  <2>14. RawStringEnded(keep, lf[Len(elided)], st[Len(elided)], plain, um)
    BY <1>4, <2>12, <2>13, RawStringEnds
  <2> QED BY <2>1, <2>10, <2>14 DEF RawStringEnded
<1>6. RawStringsAreOpened' /\ elided' \in Seq(Characters) /\ delimiter' \in {0, 1, 2}
  <2>1. TRUE \in BOOLEAN /\ FALSE \in BOOLEAN
    OBVIOUS
  <2>2. /\ Opened(elided', TRUE, delimiter', Result(TRUE), state, plain, ~marked)
        /\ Opened(elided', FALSE, delimiter', Result(FALSE), state, plain, ~marked)
    BY <1>1, <1>5, <2>1 DEF RawStringsAreOpened
  <2>3. /\ Result(TRUE)' = Result(TRUE) /\ Result(FALSE)' = Result(FALSE) /\ state' = state
        /\ plain' = plain /\ marked' = marked
    BY <1>3 DEF Result, cppVars
  <2>4. elided' \in Seq(Characters) /\ delimiter' \in {0, 1, 2}
    BY <1>1, <1>5, <2>1 DEF RawStringsAreOpened
  <2>5. state \in {"code", "comment"} \cup Raw
    BY <1>1 DEF RawStringsAreOpened
  <2> QED BY <2>2, <2>3, <2>4, <2>5 DEF RawStringsAreOpened
<1>7. CleansingTypes'
  BY <1>1, <1>3, <1>6 DEF CleansingTypes, cppVars
<1> QED BY <1>1, <1>3, <1>6, <1>7 DEF CleansingInv

(* No raw string is left, so nothing is in one.                               *)
HasNoRawString(keep, left, pl, um, st, lf) ==
  /\ IsReading("code", elided, keep, st, lf) /\ lf[Len(elided)] = left /\ Cooked(elided, st)
  /\ IF delimiter = 0 THEN st[Len(elided)] = state
     ELSE st[Len(elided)] = "code" /\ state = RawOf(delimiter)
  /\ (pl => Plain(elided, st)) /\ (um => Unmarked(elided, st))

LEMMA NothingIsRaw ==
  ASSUME CleansingTypes, ~BeginsRawString, NEW keep \in BOOLEAN, NEW left, NEW pl \in BOOLEAN, NEW um \in BOOLEAN,
         Opened(elided, keep, delimiter, left, state, pl, um)
  PROVE  \E st, lf : HasNoRawString(keep, left, pl, um, st, lf)
<1>1. PICK st, lf : /\ IsReading("code", elided, keep, st, lf) /\ lf[Len(elided)] = left
                    /\ IF delimiter = 0 THEN st[Len(elided)] = state
                       ELSE st[Len(elided)] = "code" /\ state = RawOf(delimiter) /\ Cooked(elided, st)
                    /\ (pl => Plain(elided, st)) /\ (um => Unmarked(elided, st))
  BY DEF Opened
<1>2. Cooked(elided, st)
  <2>1. CASE delimiter # 0
    BY <1>1, <2>1
  <2>2. CASE delimiter = 0
    <3>1. RawStrings(elided) = {} \/ InComment(UpTo(elided, Min(RawStrings(elided)) - 1))
      BY <2>2 DEF BeginsRawString
    <3>2. elided \in Seq(Characters)
      BY DEF CleansingTypes
    <3> QED BY <1>1, <3>1, <3>2, NoRawStringBegins
  <2> QED BY <2>1, <2>2
<1> QED BY <1>1, <1>2 DEF HasNoRawString

LEMMA LinesAreCleansed ==
  ASSUME CleansingInv, CleanseLines
  PROVE  CleansingInv'
<1>1. /\ CleansingTypes /\ RawStringsAreOpened /\ stage = "raw" /\ collapsed = <<>> /\ ~BeginsRawString
  BY DEF CleansingInv, CleanseLines
<1>2. /\ UNCHANGED <<cppVars, delimiter, collapsed, elided>> /\ stage' = "lines" /\ lines' = CutComment(elided)
  BY DEF CleanseLines
<1>3. /\ elided \in Seq(Characters) /\ plain \in BOOLEAN /\ marked \in BOOLEAN /\ (~marked) \in BOOLEAN
      /\ delimiter \in {0, 1, 2} /\ Len(elided) \in 0 .. Len(elided)
  BY <1>1 DEF CleansingTypes
<1>4. PICK st, lf : /\ IsReading("code", elided, FALSE, st, lf) /\ lf[Len(elided)] = code /\ Cooked(elided, st)
                    /\ IF delimiter = 0 THEN st[Len(elided)] = state
                       ELSE st[Len(elided)] = "code" /\ state = RawOf(delimiter)
  <2>1. PICK um \in BOOLEAN : um = ~marked
    BY <1>3
  <2>2. FALSE \in BOOLEAN /\ Opened(elided, FALSE, delimiter, code, state, plain, um)
    BY <1>1, <2>1 DEF RawStringsAreOpened, Result
  <2>3. \E st, lf : HasNoRawString(FALSE, code, plain, um, st, lf)
    BY <1>1, <1>3, <2>2, NothingIsRaw
  <2> QED BY <2>3 DEF HasNoRawString
<1>5. PICK sv, lv : /\ IsReading("code", elided, TRUE, sv, lv) /\ lv[Len(elided)] = kept /\ Cooked(elided, sv)
                    /\ IF delimiter = 0 THEN sv[Len(elided)] = state
                       ELSE sv[Len(elided)] = "code" /\ state = RawOf(delimiter)
                    /\ (plain => Plain(elided, sv)) /\ (~marked => Unmarked(elided, sv))
  <2>1. PICK um \in BOOLEAN : um = ~marked
    BY <1>3
  <2>2. TRUE \in BOOLEAN /\ Opened(elided, TRUE, delimiter, kept, state, plain, um)
    BY <1>1, <2>1 DEF RawStringsAreOpened, Result
  <2>3. \E sv, lv : HasNoRawString(TRUE, kept, plain, um, sv, lv)
    BY <1>1, <1>3, <2>2, NothingIsRaw
  <2> QED BY <2>1, <2>3 DEF HasNoRawString
<1>6. DelimiterIsState
  <2>1. ASSUME delimiter = 0 PROVE state \in {"code", "comment"}
    <3>1. state \notin Raw
      BY <1>3, <1>4, <2>1 DEF Cooked
    <3> QED BY <1>1, <3>1 DEF RawStringsAreOpened
  <2> QED BY <1>4, <2>1 DEF DelimiterIsState
<1>7. st[Len(elided)] \in {"code", "comment"} /\ sv[Len(elided)] \in {"code", "comment"}
  BY <1>4, <1>5, <1>6 DEF DelimiterIsState
<1>8. CollapsingText(<<>>, elided, code)
  <2>1. <<>> \o elided = elided /\ Len(<<>>) = 0 /\ \A i : i \notin 1 .. 0
    BY <1>3
  <2>2. st[0] = "code"
    BY <1>4 DEF IsReading
  <2>3. Collapses(<<>>, elided, st, lf, code)
    BY <1>4, <1>7, <2>1, <2>2 DEF Collapses
  <2> QED BY <2>1, <2>3 DEF CollapsingText
<1>9. ASSUME plain PROVE CutText(lines', TRUE, kept, ~marked, FALSE)
  <2>1. PICK um \in BOOLEAN : um = ~marked
    BY <1>3
  <2>2. Text(elided, TRUE, kept, um, FALSE)
    BY <1>5, <1>7, <1>9, <2>1 DEF Text
  <2>3. TRUE \in BOOLEAN /\ FALSE \in BOOLEAN
    OBVIOUS
  <2>4. CutText(CutComment(elided), TRUE, kept, um, FALSE)
    BY <1>3, <2>2, <2>3, CommentIsCut
  <2> QED BY <1>2, <2>1, <2>4
<1>10. lines' \in Seq(Characters)
  <2>1. \A n \in 0 .. Len(elided) : UpTo(elided, n) \in Seq(Characters)
    BY <1>3, Pieces
  <2>2. CASE Where(elided, {"//"}) = {}
    BY <1>2, <1>3, <2>2 DEF CutComment
  <2>3. CASE Where(elided, {"//"}) # {}
    <3>1. Where(elided, {"//"}) \in SUBSET Nat /\ Where(elided, {"//"}) \in SUBSET (1 .. Len(elided))
      BY <1>3 DEF Where
    <3>2. Min(Where(elided, {"//"})) \in 1 .. Len(elided)
      BY <2>3, <3>1, LeastNumber
    <3>3. Min(Where(elided, {"//"})) - 1 \in 0 .. Len(elided)
      BY <3>2
    <3>4. UpTo(elided, Min(Where(elided, {"//"})) - 1) \in Seq(Characters)
      BY <2>1, <3>3
    <3> QED BY <1>2, <1>3, <3>4 DEF CutComment
  <2> QED BY <2>2, <2>3
<1>11. CleansingTypes'
  BY <1>1, <1>2, <1>10 DEF CleansingTypes, cppVars
<1>12. DelimiterIsState'
  BY <1>2, <1>6 DEF DelimiterIsState, cppVars
<1>13. /\ collapsed' = <<>>
       /\ plain' => CutText(lines', TRUE, kept', ~marked', FALSE)
       /\ CollapsingText(collapsed', elided', code')
  BY <1>1, <1>2, <1>8, <1>9 DEF cppVars
<1> QED BY <1>2, <1>11, <1>12, <1>13 DEF CleansingInv

(* A comment within .lines is removed.                                        *)
LEMMA LinesAreShortened ==
  ASSUME CleansingInv, RemoveFromLines
  PROVE  CleansingInv'
<1>1. /\ CleansingTypes /\ stage = "lines" /\ collapsed = <<>> /\ Blocks(lines) # {}
      /\ DelimiterIsState /\ CollapsingText(collapsed, elided, code)
      /\ plain => CutText(lines, TRUE, kept, ~marked, FALSE)
  BY DEF CleansingInv, RemoveFromLines
<1>2. /\ UNCHANGED <<cppVars, delimiter, stage, collapsed, elided>> /\ lines' = RemoveBlock(lines)
  BY DEF RemoveFromLines
<1>3. lines \in Seq(Characters) /\ marked \in BOOLEAN
  BY <1>1 DEF CleansingTypes
<1>4. ASSUME plain PROVE CutText(lines', TRUE, kept, ~marked, FALSE)
  <2>1. PICK um \in BOOLEAN : um = ~marked
    BY <1>3
  <2>2. CutText(lines, TRUE, kept, um, FALSE) /\ TRUE \in BOOLEAN /\ FALSE \in BOOLEAN
    BY <1>1, <1>4, <2>1
  <2>3. CutText(RemoveBlock(lines), TRUE, kept, um, FALSE)
    BY <1>1, <1>3, <2>2, BlockIsRemoved
  <2> QED BY <1>2, <2>1, <2>3
<1>5. lines' \in Seq(Characters)
  <2>1. PICK p : p = Min(Blocks(lines))
    OBVIOUS
  <2>2. PICK e : e = EndOfBlock(lines, p)
    OBVIOUS
  <2>3. p - 1 \in 0 .. Len(lines) /\ e \in 0 .. Len(lines)
    <3>1. p \in 1 .. Len(lines) /\ e \in p + 1 .. Len(lines)
      BY <1>1, <1>3, <2>1, <2>2, BlocksAreFound
    <3> QED BY <3>1
  <2>4. UpTo(lines, p - 1) \in Seq(Characters) /\ Beyond(lines, e) \in Seq(Characters)
    BY <1>3, <2>3, Pieces
  <2>5. \A u, v \in Seq(Characters) : u \o v \in Seq(Characters)
    OBVIOUS
  <2> QED BY <1>2, <2>1, <2>2, <2>4, <2>5 DEF RemoveBlock
<1>6. CleansingTypes'
  BY <1>1, <1>2, <1>5 DEF CleansingTypes, cppVars
<1>7. DelimiterIsState'
  BY <1>1, <1>2 DEF DelimiterIsState, cppVars
<1>8. /\ collapsed' = <<>> /\ stage' = "lines"
      /\ plain' => CutText(lines', TRUE, kept', ~marked', FALSE)
      /\ CollapsingText(collapsed', elided', code')
  BY <1>1, <1>2, <1>4 DEF cppVars
<1> QED BY <1>6, <1>7, <1>8 DEF CleansingInv

LEMMA CollapsingBegins ==
  ASSUME CleansingInv, BeginToCollapse
  PROVE  CleansingInv'
<1>1. /\ CleansingTypes /\ stage = "lines" /\ Blocks(lines) = {}
      /\ DelimiterIsState /\ CollapsingText(collapsed, elided, code)
      /\ plain => CutText(lines, TRUE, kept, ~marked, FALSE)
  BY DEF CleansingInv, BeginToCollapse
<1>2. /\ UNCHANGED <<cppVars, delimiter, lines, collapsed, elided>> /\ stage' = "strings"
  BY DEF BeginToCollapse
<1>3. lines \in Seq(Characters) /\ marked \in BOOLEAN
  BY <1>1 DEF CleansingTypes
<1>4. plain => LinesKeepStrings
  <2>1. SUFFICES ASSUME plain PROVE LinesKeepStrings
    OBVIOUS
  <2>2. PICK um \in BOOLEAN : um = ~marked
    BY <1>3
  <2>3. PICK keep \in BOOLEAN : keep = TRUE
    OBVIOUS
  <2>4. CutText(lines, keep, kept, um, FALSE) /\ FALSE \in BOOLEAN
    BY <1>1, <2>1, <2>2, <2>3
  <2>5. IsPrefix(kept, lines) /\ (um => lines = kept)
    BY <1>1, <1>3, <2>3, <2>4, TextIsLeft
  <2> QED BY <2>2, <2>5 DEF LinesKeepStrings
<1>5. CleansingTypes'
  BY <1>1, <1>2 DEF CleansingTypes, cppVars
<1>6. DelimiterIsState'
  BY <1>1, <1>2 DEF DelimiterIsState, cppVars
<1>7. /\ plain' => LinesKeepStrings'
      /\ CollapsingText(collapsed', elided', code')
  BY <1>1, <1>2, <1>4 DEF cppVars, LinesKeepStrings
<1> QED BY <1>2, <1>5, <1>6, <1>7 DEF CleansingInv

(* A string is collapsed.                                                     *)
LEMMA StringIsEmptied ==
  ASSUME CleansingInv, CollapseString
  PROVE  CleansingInv'
<1>1. /\ CleansingTypes /\ stage = "strings" /\ HasString(elided)
      /\ DelimiterIsState /\ CollapsingText(collapsed, elided, code)
      /\ plain => LinesKeepStrings
  BY DEF CleansingInv, CollapseString
<1>2. PICK p : p = Min(Quotes(elided))
  OBVIOUS
<1>3. PICK q : q = Min(SecondQuotes(elided))
  OBVIOUS
<1>4. /\ UNCHANGED <<cppVars, delimiter, stage, lines>>
      /\ collapsed' = collapsed \o UpTo(elided, p - 1) \o <<Quote(elided[p]), Quote(elided[p])>>
      /\ elided' = Beyond(elided, q)
  BY <1>2, <1>3 DEF CollapseString
<1>5. collapsed \in Seq(Characters) /\ elided \in Seq(Characters)
  BY <1>1 DEF CleansingTypes
<1>6. /\ collapsed' \in Seq(Characters) /\ elided' \in Seq(Characters)
      /\ CollapsingText(collapsed', elided', code)
  BY <1>1, <1>2, <1>3, <1>4, <1>5, StringIsCollapsed
<1>7. CleansingTypes'
  BY <1>1, <1>4, <1>6 DEF CleansingTypes, cppVars
<1>8. DelimiterIsState' /\ (plain' => LinesKeepStrings') /\ code' = code /\ stage' = "strings"
  BY <1>1, <1>4 DEF DelimiterIsState, LinesKeepStrings, cppVars
<1> QED BY <1>6, <1>7, <1>8 DEF CleansingInv

(* All strings are; then what is between "/*" and "*/" is removed.            *)
LEMMA CommentsAreCleansed ==
  ASSUME CleansingInv, CleanseElided
  PROVE  CleansingInv'
<1>1. /\ CleansingTypes /\ stage = "strings" /\ ~HasString(elided)
      /\ DelimiterIsState /\ CollapsingText(collapsed, elided, code)
      /\ plain => LinesKeepStrings
  BY DEF CleansingInv, CleanseElided
<1>2. /\ UNCHANGED <<cppVars, delimiter, lines>> /\ stage' = "elided" /\ collapsed' = <<>>
      /\ elided' = CutComment(collapsed \o elided)
  BY DEF CleanseElided
<1>3. collapsed \in Seq(Characters) /\ elided \in Seq(Characters)
  BY <1>1 DEF CleansingTypes
<1>4. PICK t : t = collapsed \o elided
  OBVIOUS
<1>5. t \in Seq(Characters) /\ Text(t, FALSE, code, TRUE, TRUE)
  BY <1>1, <1>3, <1>4, StringsAreCollapsed
<1>6. elided' \in Seq(Characters) /\ CutText(elided', FALSE, code, TRUE, TRUE)
  <2>1. TRUE \in BOOLEAN /\ FALSE \in BOOLEAN
    OBVIOUS
  <2>2. CutComment(t) \in Seq(Characters) /\ CutText(CutComment(t), FALSE, code, TRUE, TRUE)
    BY <1>5, <2>1, CommentIsCut
  <2> QED BY <1>2, <1>4, <2>2
<1>7. CleansingTypes'
  BY <1>1, <1>2, <1>6 DEF CleansingTypes, cppVars
<1>8. DelimiterIsState' /\ (plain' => LinesKeepStrings') /\ code' = code
  BY <1>1, <1>2 DEF DelimiterIsState, LinesKeepStrings, cppVars
<1> QED BY <1>2, <1>6, <1>7, <1>8 DEF CleansingInv

LEMMA ElidedIsShortened ==
  ASSUME CleansingInv, RemoveFromElided
  PROVE  CleansingInv'
<1>1. /\ CleansingTypes /\ stage = "elided" /\ Blocks(elided) # {} /\ collapsed = <<>>
      /\ DelimiterIsState /\ CutText(elided, FALSE, code, TRUE, TRUE)
      /\ plain => LinesKeepStrings
  BY DEF CleansingInv, RemoveFromElided
<1>2. /\ UNCHANGED <<cppVars, delimiter, stage, lines, collapsed>> /\ elided' = RemoveBlock(elided)
  BY DEF RemoveFromElided
<1>3. elided \in Seq(Characters)
  BY <1>1 DEF CleansingTypes
<1>4. elided' \in Seq(Characters) /\ CutText(elided', FALSE, code, TRUE, TRUE)
  <2>1. TRUE \in BOOLEAN /\ FALSE \in BOOLEAN
    OBVIOUS
  <2> QED BY <1>1, <1>2, <1>3, <2>1, BlockIsRemoved
<1>5. CleansingTypes'
  BY <1>1, <1>2, <1>4 DEF CleansingTypes, cppVars
<1>6. DelimiterIsState' /\ (plain' => LinesKeepStrings') /\ code' = code
  BY <1>1, <1>2 DEF DelimiterIsState, LinesKeepStrings, cppVars
<1> QED BY <1>1, <1>2, <1>4, <1>5, <1>6 DEF CleansingInv

(* The next line begins in the raw string that this one leaves open.          *)
LEMMA NextLineBegins ==
  ASSUME CleansingInv, NextLine
  PROVE  CleansingInv'
<1>1. /\ CleansingTypes /\ stage = "elided" /\ collapsed = <<>> /\ DelimiterIsState
  BY DEF CleansingInv, NextLine, Cleansed
<1>2. /\ line' = <<>> /\ state' = (IF state = "comment" THEN "code" ELSE state) /\ context' = state'
      /\ code' = Begun(state') /\ kept' = Begun(state') /\ plain' = TRUE /\ marked' = FALSE
      /\ stage' = "read" /\ lines' = <<>> /\ elided' = <<>> /\ UNCHANGED <<delimiter, collapsed>>
  BY DEF NextLine
<1>3. state' = IF delimiter' = 0 THEN "code" ELSE RawOf(delimiter')
  BY <1>1, <1>2 DEF DelimiterIsState, RawOf
<1>4. state' \in {"code"} \cup Raw /\ state' \in States
  BY <1>3 DEF RawOf, Raw, States
<1>5. ASSUME NEW keep \in BOOLEAN PROVE LineIsRead(keep)'
  <2>1. PICK st, lf : /\ IsReading(state', <<>>, keep, st, lf) /\ st[0] = state' /\ lf[0] = Begun(state')
                      /\ Plain(<<>>, st) /\ Unmarked(<<>>, st)
    BY <1>4, ReadsNothing
  <2>2. Len(<<>>) = 0 /\ Result(keep)' = Begun(state')
    BY <1>2 DEF Result
  <2> QED BY <1>2, <2>1, <2>2 DEF LineIsRead
<1>6. CleansingTypes'
  <2>1. <<>> \in Seq(Characters) /\ EmptyString \in Seq(Characters)
    BY DEF EmptyString, Characters
  <2>2. Begun(state') \in Seq(Characters)
    BY <2>1 DEF Begun
  <2> QED BY <1>1, <1>2, <1>4, <2>1, <2>2 DEF CleansingTypes
<1>7. IsReadInContext'
  BY <1>2, <1>3, <1>5 DEF IsReadInContext
<1> QED BY <1>1, <1>2, <1>6, <1>7 DEF CleansingInv

LEMMA CleansingStep ==
  CleansingInv /\ [CleansingNext]_cleansingVars => CleansingInv'
<1> SUFFICES ASSUME CleansingInv, [CleansingNext]_cleansingVars PROVE CleansingInv'
  OBVIOUS
<1>1. CASE \E t \in Characters : ReadToken(t)
  BY <1>1, TokenIsRead
<1>2. CASE EndLine
  BY <1>2, LineEnds
<1>3. CASE ReplaceRawString
  BY <1>3, RawStringIsReplaced
<1>4. CASE CleanseLines
  BY <1>4, LinesAreCleansed
<1>5. CASE RemoveFromLines
  BY <1>5, LinesAreShortened
<1>6. CASE BeginToCollapse
  BY <1>6, CollapsingBegins
<1>7. CASE CollapseString
  BY <1>7, StringIsEmptied
<1>8. CASE CleanseElided
  BY <1>8, CommentsAreCleansed
<1>9. CASE RemoveFromElided
  BY <1>9, ElidedIsShortened
<1>10. CASE NextLine
  BY <1>10, NextLineBegins
<1>11. CASE UNCHANGED cleansingVars
  <2>1. /\ line' = line /\ context' = context /\ state' = state /\ code' = code /\ kept' = kept
        /\ plain' = plain /\ marked' = marked /\ delimiter' = delimiter /\ stage' = stage
        /\ lines' = lines /\ collapsed' = collapsed /\ elided' = elided
    BY <1>11 DEF cleansingVars, cppVars
  <2>2. CleansingTypes' = CleansingTypes
    BY <2>1 DEF CleansingTypes
  <2>3. ASSUME NEW keep \in BOOLEAN PROVE LineIsRead(keep)' = LineIsRead(keep)
    BY <2>1 DEF LineIsRead, Result
  <2>4. IsReadInContext' = IsReadInContext
    BY <2>1, <2>3 DEF IsReadInContext
  <2>5. RawStringsAreOpened' = RawStringsAreOpened
    BY <2>1 DEF RawStringsAreOpened, Result
  <2>6. DelimiterIsState' = DelimiterIsState
    BY <2>1 DEF DelimiterIsState
  <2>7. LinesKeepStrings' = LinesKeepStrings
    BY <2>1 DEF LinesKeepStrings
  <2> QED BY <2>1, <2>2, <2>4, <2>5, <2>6, <2>7 DEF CleansingInv
<1> QED BY <1>1, <1>2, <1>3, <1>4, <1>5, <1>6, <1>7, <1>8, <1>9, <1>10, <1>11 DEF CleansingNext

LEMMA CleansingInvariant ==
  CleansingSpec => []CleansingInv
<1> QED BY CleansingBegins, CleansingStep, PTL DEF CleansingSpec

(* CodeIsCleansed, for lines of any length: of a line of C++, as CleansedLines*)
(* leaves it in .elided, that is left which is code, and the raw string that  *)
(* goes on to the next line is the one that C++ is in.                        *)
THEOREM EveryLineIsCleansed ==
  CleansingSpec => []CodeIsCleansed
<1>1. ASSUME CleansingInv PROVE CodeIsCleansed
  <2> SUFFICES ASSUME Cleansed
               PROVE  /\ state \in Raw <=> delimiter # 0
                      /\ delimiter # 0 => state = (IF delimiter = 1 THEN "raw1" ELSE "raw2")
                      /\ elided = code
    BY DEF CodeIsCleansed
  <2>1. /\ DelimiterIsState /\ CutText(elided, FALSE, code, TRUE, TRUE) /\ Blocks(elided) = {}
        /\ elided \in Seq(Characters)
    BY <1>1 DEF CleansingInv, CleansingTypes, Cleansed
  <2>2. elided = code
    <3>1. TRUE \in BOOLEAN /\ FALSE \in BOOLEAN
      OBVIOUS
    <3> QED BY <2>1, <3>1, TextIsLeft
  <2> QED BY <2>1, <2>2 DEF DelimiterIsState, RawOf, Raw
<1> QED BY <1>1, CleansingInvariant, PTL

(* StringsAreKept, for lines of any length: what CleansedLines leaves in      *)
(* .lines is the code with its strings; only a comment after a string with    *)
(* "//" in it is left there.                                                  *)
THEOREM StringsStayInLines ==
  CleansingSpec => []StringsAreKept
<1>1. ASSUME CleansingInv PROVE StringsAreKept
  BY <1>1 DEF CleansingInv, StringsAreKept, LinesKeepStrings, Cleansed
<1> QED BY <1>1, CleansingInvariant, PTL
===============================================================================
