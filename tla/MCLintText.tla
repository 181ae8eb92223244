------------------------------ MODULE MCLintText ------------------------------
(***************************************************************************)
(* What cpplint.py makes of C++ text, for TLC: where blocks, functions and *)
(* expressions end (Endings), the includes, and strings and comments.      *)
(* Again a behaviour is one of them at work, and part says which.  Blocks  *)
(* have two parts, with lines and bounds of their own.                     *)
(***************************************************************************)
EXTENDS IncludeWhatYouUse, Endings, Cleansing

-------------------------------------------------------------------------------
(* A few lines in conditionals within conditionals that cut two blocks; and   *)
(* all kinds of lines, with parentheses, in conditionals that do not nest.    *)
Only(s) == [pp |-> "", depth |-> 0, asm |-> FALSE, text |-> s]
Directive(pp, s) == [pp |-> pp, depth |-> 0, asm |-> FALSE, text |-> s]
Parens(n, asm, s) == [pp |-> "", depth |-> n, asm |-> asm, text |-> s]

NestedLines ==
  { Directive("if", <<>>),           \* #ifdef X
    Directive("else", <<>>), Directive("else", <<")">>),  \* #else, #elif defined(X)
    Directive("endif", <<>>),
    Only(<<"class">>),               \* class A
    Only(<<"{">>), Only(<<"}">>) }

FlatLines == NestedLines \cup
  { Directive("if", <<")">>),        \* #if defined(X)
    Only(<<"namespace{">>),          \* namespace a {
    Only(<<"class", ";">>),          \* class A;
    Only(<<"public">>),              \*  public:
    Only(<<"asm{">>),                \* asm {
    Only(<<"extern{">>),             \* extern "C" {
    Parens(1, TRUE, <<>>),           \* asm (
    Parens(-1, FALSE, <<")", ";">>) }  \* );

Nested == INSTANCE BlockNesting WITH
  Lines <- NestedLines, MaxBlocks <- 2, MaxConditionals <- 2, MaxParens <- 0

-------------------------------------------------------------------------------
H(angle, list, dirs, stem, ext, upper, alpha) ==
  [angle |-> angle, list |-> list, dir |-> dirs, stem |-> stem, ext |-> ext, upper |-> upper, alpha |-> alpha]
P(dirs, stem, ext) == [dir |-> dirs, stem |-> stem, ext |-> ext]

SourceFile == P(<<"library", "source">>, <<"foo">>, "cc")
InternalFile == P(<<"library", "internal">>, <<"foo">>, "cc")
HeaderItself == P(<<"library">>, <<"foo">>, "h")
OtherFile == P(<<"library", "source">>, <<"mapBar">>, "cc")

TheSpelling == [name \in {"mapBar", "hpp"} |-> IF name = "hpp" THEN <<"h", "pp">> ELSE <<"map", "Bar">>]
TheCheckout == <<"home">>

Map == H(TRUE, "cpp", <<>>, <<"map">>, "", FALSE, 5)
String == H(TRUE, "cpp", <<>>, <<"string">>, "", FALSE, 8)
Stdio == H(TRUE, "c", <<>>, <<"stdio">>, "h", FALSE, 7)
Curl == H(TRUE, "none", <<"curl">>, <<"curl">>, "h", FALSE, 2)
MyPublic == H(FALSE, "none", <<"library", "public">>, <<"foo">>, "h", FALSE, 4)
MyInline == H(FALSE, "none", <<>>, <<"foo", "inl">>, "h", FALSE, 3)
MyHeader == H(FALSE, "none", <<"library">>, <<"foo">>, "h", FALSE, 4)
Beside == H(FALSE, "none", <<>>, <<"foo">>, "hpp", FALSE, 4)
Bar == H(FALSE, "none", <<"library">>, <<"bar">>, "hpp", FALSE, 1)
Upper == H(FALSE, "none", <<>>, <<"Bar">>, "h", TRUE, 1)
Elsewhere == H(FALSE, "none", <<"other">>, <<"baz">>, "cc", FALSE, 6)

Source(path, order, headers, others, lines_) ==
  [path |-> path, public |-> Append(Front(path.dir), "public"), order |-> order, headers |-> headers,
   others |-> others, maxLines |-> lines_]

Blank == [kind |-> "blank"]
Use(needs) == [kind |-> "use", needs |-> needs]
MapPath == P(<<>>, <<"map">>, "")
StringPath == P(<<>>, <<"string">>, "")
Uses == {Use({MapPath}), Use({MapPath, StringPath})}

(* An empty header, for when another part is at work; a source file with      *)
(* headers of every kind and blank lines; with two headers in deep            *)
(* conditionals; with uses of two standard headers and two headers of its     *)
(* own, one of which includes a standard header; a header with uses; and      *)
(* mapBar.cc, whose header's name has "map" and "Bar.h" in it.                *)
EmptySource == Source(HeaderItself, "default", {}, {}, 0)

TheSources ==
  { EmptySource,
    Source(SourceFile, "standardcfirst", {Map, String, Stdio, Curl, MyPublic, MyInline, Bar, Upper, Elsewhere},
           {Blank}, 4),
    Source(SourceFile, "default", {Map, MyPublic}, {}, 6),
    Source(InternalFile, "default", {Map, MyHeader, Beside}, Uses, 4),
    Source(HeaderItself, "default", {Map}, Uses, 5),
    Source(OtherFile, "default", {Map, Upper}, Uses, 4) }

Disk(dirs, stem, ext) == P(<<"library">> \o dirs, <<stem>>, ext)
TheDisk == [p \in {Disk(<<>>, "foo", "h"), Disk(<<"internal">>, "foo", "h"), Disk(<<"internal">>, "foo", "hpp"),
                   Disk(<<"source">>, "mapBar", "h")} |->
              IF p.ext = "hpp" THEN {} ELSE {StringPath}]

-------------------------------------------------------------------------------
(* Texts of up to five lines: "void f() {", "void f()", "TEST(a, b) {",       *)
(* "void f();", "{", "  x;", "" and "}".                                      *)
L(function, ends, opens, form) == [name |-> function, ends |-> ends, opens |-> opens, form |-> form]

FunctionLines ==
  { L("function", FALSE, TRUE, "text"), L("function", FALSE, FALSE, "text"),
    L("test", FALSE, TRUE, "text"), L("function", TRUE, FALSE, "text"),
    L("none", FALSE, TRUE, "text"), L("none", TRUE, FALSE, "text"),
    L("none", FALSE, FALSE, "blank"), L("none", TRUE, FALSE, "close") }

(* Texts of all brackets, and of operators.                                   *)
TheAlphabets ==
  { {"(", ")", "{", "}", "<", ">", ";", "eol"},
    {"(", ")", "<", ">", ";", "=", "-", "op", " ", "x"} }

ASSUME InstancesAssumption == NestedLines \subseteq Lines

-------------------------------------------------------------------------------
LintTextInit ==
  /\ part \in {"blocks", "nested", "includes", "functions", "text", "expressions"}
  /\ PartsInit
  /\ IwyuInit /\ (part # "includes" => source = EmptySource)
  /\ CleansingInit

noEndingsVars == <<iwyuVars, cleansingVars>>

NestedNext ==
  part = "nested" /\ Nested!Next /\ UNCHANGED <<part, functionVars, expressionVars, noEndingsVars>>
IncludesNext ==
  part = "includes" /\ IwyuNext /\ UNCHANGED <<endingsVars, cleansingVars>>
TextNext ==
  part = "text" /\ CleansingNext /\ UNCHANGED <<endingsVars, iwyuVars>>

LintTextNext ==
  \/ EndingsNext /\ UNCHANGED noEndingsVars
  \/ NestedNext \/ IncludesNext \/ TextNext

lintTextVars == <<endingsVars, noEndingsVars>>

LintTextSpec == LintTextInit /\ [][LintTextNext]_lintTextVars
===============================================================================
