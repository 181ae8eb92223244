------------------------------ MODULE IncludeState ------------------------------
(***************************************************************************)
(* The #include lines of a file as cpplint.py reads them: _IncludeState,   *)
(* _ClassifyInclude and CheckIncludeLine.  The text grows by a line at a   *)
(* time; directives reset the section and change the list of lists in      *)
(* which the includes are kept.                                            *)
(*                                                                         *)
(* A path is its directories, the components of its name ("-" comes before *)
(* inl, "_" before the others) and its extension.  Where texts are         *)
(* compared that need not begin and end with a name, a path is a sequence  *)
(* of syllables.  A header is a path, whether angle brackets are used, the *)
(* standard list it is in ("c", "cpp" or "none"), whether its name has an  *)
(* upper-case letter, and its place in the alphabetical order of canonical *)
(* names.                                                                  *)
(***************************************************************************)
EXTENDS Integers, SequencesExt, FiniteSetsExt

HeaderExtensions == {"h", "hpp"}
NonHeaderExtensions == {"cc"}

(* The files that are checked, as records of                                  *)
(*   path       - of the file,                                                *)
(*   public     - path.dir/../public, normalised,                             *)
(*   order      - --includeorder,                                             *)
(*   headers    - that it may include,                                        *)
(*   others     - its lines that are neither includes nor directives,         *)
(*   maxLines   - bound: its lines.                                           *)
CONSTANTS
  Sources,
  Spelling,         \* the syllables of the names that have more than one
  Checkout,         \* the directories that the repository is in
  OnDisk            \* the header files in it, and the paths they include

Conditionals == {"if", "else", "endif"}

ASSUME SourcesAssumption ==
  \A s \in Sources :
    /\ s.path.ext \in HeaderExtensions \cup NonHeaderExtensions
    /\ s.order \in {"default", "standardcfirst"}
    /\ \A h \in s.headers : h.alpha \in Nat
    /\ \A line \in s.others : line.kind \in {"blank", "use"}
    /\ s.maxLines \in Nat

VARIABLES
  source,           \* the file
  text,             \* the lines read
  includeList,      \* include_list: in each list, headers with their lines
  section,          \* _section
  lastHeader,       \* the place in the order of _last_header; 0 for ''
  told              \* the errors reported

includeVars == <<source, text, includeList, section, lastHeader, told>>

File == source.path

Line(kind) == [kind |-> kind]
Path(h) == [dir |-> h.dir, stem |-> h.stem, ext |-> h.ext]
Error(category, n, at) == [category |-> category, line |-> n, at |-> at]

InitialSection == 0
IncludeInit ==
  /\ source \in Sources
  /\ text = <<>> /\ includeList = <<{}>>
  /\ section = InitialSection /\ lastHeader = 0 /\ told = {}

-------------------------------------------------------------------------------
(* A mistake for a run that must fail: an #else keeps the includes of its     *)
(* branch.                                                                    *)
KeepBranch(list, directive) == IF directive = "if" THEN Append(list, {}) ELSE list

-------------------------------------------------------------------------------
(* Classification.                                                            *)
DropCommonSuffixes(path) ==
  IF /\ Len(path.stem) > 1
     /\ \/ Last(path.stem) \in {"test", "regtest", "unittest"} /\ path.ext \in NonHeaderExtensions
        \/ Last(path.stem) \in {"inl", "imp", "internal"} /\ path.ext \in HeaderExtensions
  THEN Front(path.stem) ELSE path.stem

IsSystem(h) == h.angle /\ h.ext # "hpp"

ClassifySystem(h) ==
  IF h.list = "cpp" THEN "cpp"
  ELSE IF source.order = "default" \/ h.list = "c" THEN "c" ELSE "otherSys"

ClassifyInclude(h) ==
  LET target == DropCommonSuffixes(File)
      base == DropCommonSuffixes(h)
  IN  IF IsSystem(h) THEN ClassifySystem(h)
      ELSE IF base = target /\ h.dir \in {File.dir, source.public} THEN "likely"
      ELSE IF Head(base) = Head(target) THEN "possible" ELSE "other"

ThirdParty(h) == h.dir = <<>> /\ h.upper /\ h.ext = "h"

(* The text of a path, and its absolute name.                                 *)
Syllables(name) == IF name \in DOMAIN Spelling THEN Spelling[name] ELSE <<name>>

Spelled(path) ==
  LET separated(i) == CASE i = 1 -> <<>> [] path.stem[i] = "inl" -> <<"-">> [] OTHER -> <<"_">>
  IN  FlattenSeq([i \in DOMAIN path.dir |-> Append(Syllables(path.dir[i]), "/")])
      \o FlattenSeq([i \in DOMAIN path.stem |-> separated(i) \o Syllables(path.stem[i])])
      \o (IF path.ext = "" THEN <<>> ELSE <<".">> \o Syllables(path.ext))

FullName(path) == <<"/">> \o Spelled([path EXCEPT !.dir = Checkout \o @])

Occurs(inner, whole) ==
  \E i \in 0 .. Len(whole) - Len(inner) : \A j \in DOMAIN inner : whole[i + j] = inner[j]

(* One name is in the other: the name of a header of File.  The repository is *)
(* found only from a file that exists: RepositoryName() of another is its     *)
(* absolute name.                                                             *)
HeaderFile(ext) == [dir |-> File.dir, stem |-> File.stem, ext |-> ext]

RepositoryName(path) == IF path \in DOMAIN OnDisk THEN Spelled(path) ELSE FullName(path)

NamesHeader(h, ext) ==
  LET name == RepositoryName(HeaderFile(ext))
  IN  Occurs(name, Spelled(h)) \/ Occurs(Spelled(h), name)

Foreign(h) == h.ext \in NonHeaderExtensions /\ h.dir # File.dir

Kept(h) == ~ThirdParty(h) \/ \E ext \in HeaderExtensions : NamesHeader(h, ext)

-------------------------------------------------------------------------------
FindHeader(h) == {x.line : x \in {y \in UNION Range(includeList) : Path(y.header) = Path(h)}}

(* The list after a directive: "Note that we never pop".                      *)
ListAfter(list, directive) ==
  CASE directive = "if" -> Append(list, {})
    [] directive = "else" -> Front(list) \o <<{}>>
    [] OTHER -> list

(* ResetSection(), which CheckLanguage calls for each directive.              *)
ResetSection(directive) ==
  /\ Len(text) < source.maxLines
  /\ text' = Append(text, Line(directive))
  /\ section' = InitialSection /\ lastHeader' = 0
  /\ includeList' = ListAfter(includeList, directive)
  /\ UNCHANGED <<source, told>>

(* With #elif, a conditional has any number of branches; the nesting is       *)
(* NestingState's business, so these come in any order and number.            *)
OpenConditional == ResetSection("if")
ElseBranch == ResetSection("else")
CloseConditional == ResetSection("endif")

OtherLine(line) ==
  /\ Len(text) < source.maxLines
  /\ text' = Append(text, line)
  /\ UNCHANGED <<source, includeList, section, lastHeader, told>>

-------------------------------------------------------------------------------
(* CheckNextIncludeOrder(): the section a header belongs to, and whether it   *)
(* is too late for it.                                                        *)
SectionOf(kind) ==
  CASE kind = "c" -> 2 [] kind = "cpp" -> 3 [] kind = "otherSys" -> 4 [] kind = "other" -> 5
    [] OTHER -> IF section <= 1 THEN 1 ELSE 5

TooLate(kind) == section > SectionOf(kind)

NextSection(kind) == IF TooLate(kind) THEN section ELSE SectionOf(kind)

LastHeaderBefore(kind) == IF TooLate(kind) \/ NextSection(kind) # section THEN 0 ELSE lastHeader

PreviousLineIncludes == text # <<>> /\ Last(text).kind = "include"

IsInAlphabeticalOrder(h, last) == ~(last > h.alpha /\ PreviousLineIncludes)

(* CheckIncludeLine() for the next line, one action for each of its outcomes. *)
Subdir(h, n) ==
  IF ~h.angle /\ h.dir = <<>> /\ h.ext \in HeaderExtensions /\ ~ThirdParty(h)
  THEN {Error("subdir", n, 0)} ELSE {}

Include(h) ==
  /\ Len(text) < source.maxLines
  /\ text' = Append(text, [kind |-> "include", header |-> h])
  /\ UNCHANGED source

NotRecorded(h, errors) ==
  /\ Include(h)
  /\ told' = told \cup Subdir(h, Len(text) + 1) \cup errors
  /\ UNCHANGED <<includeList, section, lastHeader>>

RepeatedInclude(h) ==
  /\ FindHeader(h) # {}
  /\ NotRecorded(h, {Error("duplicate", Len(text) + 1, Min(FindHeader(h)))})

ForeignInclude(h) ==
  /\ FindHeader(h) = {} /\ Foreign(h)
  /\ NotRecorded(h, {Error("foreign", Len(text) + 1, 0)})

ThirdPartyInclude(h) ==
  /\ FindHeader(h) = {} /\ ~Foreign(h) /\ ~Kept(h)
  /\ NotRecorded(h, {})

OrderedInclude(h) ==
  /\ FindHeader(h) = {} /\ ~Foreign(h) /\ Kept(h)
  /\ Include(h)
  /\ LET n == Len(text) + 1
         kind == ClassifyInclude(h)
     IN  /\ includeList' = Front(includeList) \o <<Last(includeList) \cup {[header |-> h, line |-> n]}>>
         /\ section' = NextSection(kind)
         /\ lastHeader' = h.alpha
         /\ told' = told \cup Subdir(h, n)
                    \cup (IF TooLate(kind) THEN {Error("order", n, 0)} ELSE {})
                    \cup (IF IsInAlphabeticalOrder(h, LastHeaderBefore(kind)) THEN {}
                          ELSE {Error("alpha", n, 0)})

ReadLine ==
  \/ OpenConditional \/ ElseBranch \/ CloseConditional
  \/ \E line \in source.others : OtherLine(line)
  \/ \E h \in source.headers :
       RepeatedInclude(h) \/ ForeignInclude(h) \/ ThirdPartyInclude(h) \/ OrderedInclude(h)

IncludeSpec == IncludeInit /\ [][ReadLine]_includeVars

-------------------------------------------------------------------------------
(* The text, as a reader sees it.                                             *)
LinesOf(kinds) == {n \in DOMAIN text : text[n].kind \in kinds}
Between(m, n, kinds) == {i \in LinesOf(kinds) : m < i /\ i < n}
Told(category) == {e.line : e \in {x \in told : x.category = category}}
Recorded == {n \in LinesOf({"include"}) :
               /\ n \notin Told("duplicate") \cup Told("foreign")
               /\ Kept(text[n].header)}

(* Line n is in another branch than line m of one conditional: an #else of    *)
(* a conditional that is open at m comes before n, and its #endif does not.   *)
Depth(m, i) == Cardinality(Between(m, i, {"if"})) - Cardinality(Between(m, i, {"endif"}))
Stays(m, i) == \A j \in m + 1 .. i : Depth(m, j) >= Depth(m, i)
Exclusive(m, n) ==
  \E e \in Between(m, n, {"else"}) : Stays(m, e) /\ Depth(m, e) <= 0 /\ \A j \in e .. n : Depth(m, j) >= Depth(m, e)

(* An include is reported as repeated only if its header was included before, *)
(* and not in another branch of one conditional, unless that branch has a     *)
(* conditional in it: then the #else has removed the includes of that one.    *)
RepeatsAreReal ==
  \A e \in told : e.category = "duplicate" =>
    /\ Path(text[e.at].header) = Path(text[e.line].header) /\ e.at < e.line
    /\ Exclusive(e.at, e.line) => Between(e.at, e.line, {"if"}) # {}

(* A header recorded twice is an include in two branches: one that is         *)
(* repeated with no #else in between is reported, before and after an #endif. *)
RepeatsAreTold ==
  \A m, n \in Recorded :
    m < n /\ Path(text[m].header) = Path(text[n].header) => Between(m, n, {"else"}) # {}

(* Between two directives, exactly the includes are reported as out of order  *)
(* that come after one of a later section; the header of the file itself is   *)
(* in the first section if all before are, and in the last otherwise.         *)
Region(n) == {m \in Recorded : m < n /\ Between(m, n, Conditionals) = {}}
IsMine(n) == ClassifyInclude(text[n].header) \in {"likely", "possible"}
Rank(n) ==
  CASE IsMine(n) -> IF \A m \in Region(n) : IsMine(m) THEN 1 ELSE 5
    [] ClassifyInclude(text[n].header) = "c" -> 2
    [] ClassifyInclude(text[n].header) = "cpp" -> 3
    [] ClassifyInclude(text[n].header) = "otherSys" -> 4
    [] OTHER -> 5
OrderIsSorted == \A n \in Recorded : n \in Told("order") <=> \E m \in Region(n) : Rank(m) > Rank(n)

(* Of two includes of one section, one right below the other, the second is   *)
(* reported if its name comes first, unless it is in the wrong section.       *)
AlphabeticalOrderIsTold ==
  \A n \in Recorded :
    /\ n - 1 \in Region(n) /\ Rank(n - 1) = Rank(n)
    /\ text[n].header.alpha < text[n - 1].header.alpha
    => n \in Told("alpha") \cup Told("order")
===============================================================================
