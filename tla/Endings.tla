-------------------------------- MODULE Endings --------------------------------
(***************************************************************************)
(* Where what has begun in a C++ text ends, for cpplint.py: inline         *)
(* assembly among the blocks (BlockNesting), functions (FunctionLength),   *)
(* brackets and template arguments (Expressions).  They share nothing but  *)
(* the text, and each has its own idea of what a line is, so that a        *)
(* behaviour is one of them at work: part says which.  The variables of    *)
(* the others are Idle, or as they are initially.                          *)
(***************************************************************************)
EXTENDS BlockNesting

CONSTANTS
  LineChoices, VerboseLevels, NormalTrigger, TestTrigger, MaxLines,    \* FunctionLength
  Alphabets, MaxTokens                                                 \* Expressions

VARIABLES
  part,
  body, verbose, linenum, inAFunction, linesInFunction, isTest, begun, checks, functionErrors,
  alphabet, tokens, brackets, phase, end, pos, begin

functionVars == <<body, verbose, linenum, inAFunction, linesInFunction, isTest, begun, checks, functionErrors>>
expressionVars == <<alphabet, tokens, brackets, phase, end, pos, begin>>
endingsVars == <<part, nestingVars, functionVars, expressionVars>>

Idle == "idle"

Functions == INSTANCE FunctionLength WITH text <- body, told <- functionErrors

Brackets == INSTANCE Expressions WITH text <- tokens, stack <- brackets

ASSUME EndingsAssumption ==
  /\ Functions!TriggersAssumption /\ Functions!LevelsAssumption /\ Functions!LinesAssumption
  /\ Brackets!TokensAssumption

-------------------------------------------------------------------------------
FunctionsIdle ==
  /\ body = Idle /\ verbose = Idle /\ linenum = Idle /\ inAFunction = Idle /\ linesInFunction = Idle
  /\ isTest = Idle /\ begun = Idle /\ checks = Idle /\ functionErrors = Idle

ExpressionsIdle ==
  /\ alphabet = Idle /\ tokens = Idle /\ brackets = Idle /\ phase = Idle
  /\ end = Idle /\ pos = Idle /\ begin = Idle

PartsInit ==
  /\ Init
  /\ IF part = "functions" THEN Functions!Init ELSE FunctionsIdle
  /\ IF part = "expressions" THEN Brackets!Init ELSE ExpressionsIdle

EndingsInit == part \in {"blocks", "functions", "expressions"} /\ PartsInit

BlocksNext == part = "blocks" /\ Next /\ UNCHANGED <<part, functionVars, expressionVars>>
FunctionsNext ==
  part = "functions" /\ Functions!Next /\ UNCHANGED <<part, nestingVars, expressionVars>>
ExpressionsNext ==
  part = "expressions" /\ Brackets!Next /\ UNCHANGED <<part, nestingVars, functionVars>>

EndingsNext == BlocksNext \/ FunctionsNext \/ ExpressionsNext

EndingsSpec == EndingsInit /\ [][EndingsNext]_endingsVars

-------------------------------------------------------------------------------
(* InAsmBlock(), _FunctionState and CloseExpression(): what has begun ends    *)
(* where it ends in C++.  No line is left unchecked as assembly that is none; *)
(* each function is measured once, with its own lines, and reported if it is  *)
(* too long; brackets end where they are balanced, and the search backwards   *)
(* is the reverse of the one forwards.                                        *)
EndsAreFound ==
  /\ AsmHasOpenParenthesis
  /\ part = "functions" => Functions!FunctionsAreKeptApart /\ Functions!LongFunctionsAreTold
  /\ part = "expressions" =>
       Brackets!BracketsDecide /\ Brackets!ArgumentsAreBalanced /\ Brackets!BackToTheBeginning
===============================================================================
