--------------------------- MODULE IncludeWhatYouUse ---------------------------
(***************************************************************************)
(* What cpplint.py demands of the includes of a file once all its lines    *)
(* are read: CheckForIncludeWhatYouUse, with the includes of the file's    *)
(* own header, which it opens, and CheckHeaderFileIncluded.  Lines other   *)
(* than includes and directives are [kind |-> "use", needs |-> the paths   *)
(* of the standard headers that what they use is declared in].             *)
(***************************************************************************)
EXTENDS IncludeState

VARIABLES
  ended,            \* the checks at the end are done
  demands           \* errors: the header, the line, and which check wants it

iwyuVars == <<includeVars, ended, demands>>

IwyuInit == IncludeInit /\ ended = FALSE /\ demands = {}

Demand(by, path, n) == [by |-> by, path |-> path, line |-> n]

-------------------------------------------------------------------------------
(* The directories without the parts that make no difference to a module; a   *)
(* relative path keeps its first one.                                         *)
Parts(dir) == SelectSeq(dir, LAMBDA d : d \notin {"public", "internal"})
PartsOfHeader(dir) == IF dir = <<>> THEN dir ELSE <<Head(dir)>> \o Parts(Tail(dir))

IsTest == Len(File.stem) > 1 /\ Last(File.stem) \in {"test", "regtest", "unittest"}

(* The names without what makes no difference to a module; a header is of the *)
(* module of File if the name of File ends with its name, wherever in a name  *)
(* that begins.                                                               *)
ModuleOfFile ==
  <<"/">> \o Spelled([dir |-> Parts(Checkout \o File.dir), ext |-> "",
                   stem |-> IF IsTest THEN Front(File.stem) ELSE File.stem])

ModuleOf(path) ==
  Spelled([dir |-> PartsOfHeader(path.dir), ext |-> "",
        stem |-> IF Len(path.stem) > 1 /\ Last(path.stem) = "inl" THEN Front(path.stem) ELSE path.stem])

FilesBelongToSameModule(path) ==
  /\ File.ext \in NonHeaderExtensions /\ path.ext \in HeaderExtensions
  /\ IsSuffix(ModuleOf(path), ModuleOfFile)

(* common_path and the header's text; the file that this is the name of.      *)
FullPath(path) == SubSeq(ModuleOfFile, 1, Len(ModuleOfFile) - Len(ModuleOf(path))) \o Spelled(path)
FilesAt(path) == {file \in DOMAIN OnDisk : FullName(file) = FullPath(path)}

Included == {Path(x.header) : x \in UNION Range(includeList)}

(* The headers of the same module that can be opened.                         *)
OwnHeaders == {p \in Included : FilesBelongToSameModule(p) /\ FilesAt(p) # {}}

FoundIn(headers) == UNION {OnDisk[file] : file \in UNION {FilesAt(p) : p \in headers}}
UpdateIncludeState(paths) == paths \cup FoundIn(OwnHeaders)

Required == UNION {text[n].needs : n \in LinesOf({"use"})}

(* "only one (the latter in the file)" is given as a reason.                  *)
LastUse(path) == Max({n \in LinesOf({"use"}) : path \in text[n].needs})

GivesUp == File.ext \in NonHeaderExtensions /\ OwnHeaders = {}

IncludeWhatYouUse ==
  IF GivesUp THEN {}
  ELSE {Demand("use", p, LastUse(p)) : p \in Required \ UpdateIncludeState(Included)}

-------------------------------------------------------------------------------
(* CheckHeaderFileIncluded() looks for the header with each extension, which  *)
(* are a set and come in no order, until it finds that one is included.       *)
HeaderFiles == {ext \in HeaderExtensions : HeaderFile(ext) \in DOMAIN OnDisk}
IsIncluded(ext) == \E x \in UNION Range(includeList) : NamesHeader(x.header, ext)

FirstInclude ==
  IF UNION Range(includeList) = {} THEN 0 ELSE Min({x.line : x \in UNION Range(includeList)})

Orders == SetToSeqs(HeaderFiles)
Until(order) == {order[i] : i \in {j \in DOMAIN order : \A k \in 1 .. j : ~IsIncluded(order[k])}}

HeaderFileIncluded(order) ==
  IF IsTest \/ File.ext \notin NonHeaderExtensions THEN {}
  ELSE {Demand("header", HeaderFile(ext), FirstInclude) : ext \in Until(order)}

EndOfFile ==
  /\ ended' = TRUE
  /\ \E order \in Orders : demands' = IncludeWhatYouUse \cup HeaderFileIncluded(order)
  /\ UNCHANGED includeVars

IwyuNext ==
  /\ ~ended
  /\ \/ ReadLine /\ UNCHANGED <<ended, demands>>
     \/ EndOfFile

IwyuSpec == IwyuInit /\ [][IwyuNext]_iwyuVars

-------------------------------------------------------------------------------
(* The includes that an #else takes away are those since the last #if.        *)
Lost(m) == \E e \in LinesOf({"else"}) : m < e /\ Between(m, e, {"if"}) = {}
Seen == {n \in Recorded : ~Lost(n)}
SeenPaths == {Path(text[n].header) : n \in Seen}

(* If the file's own header is found, or it is a header, each standard header *)
(* that something is used of is demanded, at the last use, unless an include  *)
(* in the file or in its own header is seen; otherwise nothing is demanded.   *)
DemandsAreExact ==
  ended =>
    LET own == {p \in SeenPaths : FilesBelongToSameModule(p) /\ FilesAt(p) # {}}
        byOwn == FoundIn(own)
        wanted(p, n) == n \in LinesOf({"use"}) /\ p \in text[n].needs
    IN  \A p \in Required : \A n \in DOMAIN text :
          Demand("use", p, n) \in demands <=>
            /\ File.ext \in HeaderExtensions \/ own # {}
            /\ p \notin SeenPaths \cup byOwn
            /\ wanted(p, n) /\ \A i \in n + 1 .. Len(text) : ~wanted(p, i)

(* A file is told to include its own header only if no include is seen that   *)
(* cpplint.py takes for one of it, and is told so if there is a header and    *)
(* there is no such include.  It takes an include for that whose text is in   *)
(* the header's name or has it in it: <map>, in bitmap.cc, for one.           *)
OwnHeaderIsDemanded ==
  ended /\ ~IsTest /\ File.ext \in NonHeaderExtensions =>
    \A ext \in HeaderFiles :
      LET included(e) == \E n \in Seen : NamesHeader(text[n].header, e)
          told_ == \E d \in demands : d.by = "header" /\ d.path = HeaderFile(ext)
      IN  /\ told_ => ~included(ext)
          /\ (\A e \in HeaderFiles : ~included(e)) => told_

(* CheckIncludeLine, CheckForIncludeWhatYouUse and CheckHeaderFileIncluded:   *)
(* the order of includes, of sections and of names, is judged within what two *)
(* directives enclose; a header that is reported as repeated is, and one that *)
(* is repeated is reported; a header is demanded exactly where it is used     *)
(* last and is not included, and so is the file's own.                        *)
IncludesAreJudged ==
  /\ OrderIsSorted /\ AlphabeticalOrderIsTold
  /\ RepeatsAreReal /\ RepeatsAreTold
  /\ DemandsAreExact /\ OwnHeaderIsDemanded
===============================================================================
