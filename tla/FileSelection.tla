----------------------------- MODULE FileSelection -----------------------------
(***************************************************************************)
(* ParseArguments of cpplint.py: the options from left to right, then the  *)
(* list of files, in which directories are replaced by the files below     *)
(* them and excluded paths are left out.  A path is the sequence of its    *)
(* names; where the code compares texts, its text is spelled out, each     *)
(* name a sequence of characters.                                          *)
(***************************************************************************)
EXTENDS Integers, Sequences, FiniteSets, SequencesExt

CONSTANTS
  Names,          \* names of files and directories, sequences of characters
  Tree,           \* the paths of the files that exist
  Extension,      \* Extension[p]: the extension of each path
  DefaultExtensions,
  OptionSets,     \* the option lists of the command lines
  Arguments       \* the sets of paths of the command lines

Separator == "/"
Option == [name : STRING, paths : SUBSET Seq(Names), extensions : SUBSET STRING]

(* os.path.isdir: what there are files below.                                 *)
IsDirectory(p) == \E f \in Tree : IsPrefix(p, f) /\ p # f

(* Assumed of the constants. *)
TreeAssumption ==
  /\ \A p \in Tree : p \in Seq(Names) \ {<<>>}
  /\ \A p, q \in Tree : IsPrefix(p, q) => p = q
  /\ \A n \in Names : n \in Seq(STRING) \ {<<>>} /\ \A i \in DOMAIN n : n[i] # Separator
  /\ \A options \in OptionSets : options \in Seq(Option)
  /\ \A paths \in Arguments : paths \subseteq Seq(Names)

VARIABLES
  opts,       \* the options that are still to be read
  given,      \* the whole command line
  recursive, excludes, extensions,
  filenames,  \* the files to lint
  phase       \* "options", "expand", "exclude", "done" or "usage"

selectionVars == <<opts, given, recursive, excludes, extensions, filenames, phase>>

Init ==
  /\ given \in [opts : OptionSets, paths : Arguments]
  /\ opts = given.opts /\ filenames = given.paths
  /\ recursive = FALSE /\ excludes = {} /\ extensions = DefaultExtensions
  /\ phase = "options"

-------------------------------------------------------------------------------
(* A mistake for a run that must fail: a path whose text begins with that of  *)
(* an excluded one is left out too.                                           *)
IsTextPrefix(parent, child) == IsPrefix(parent, child)

Text(path) ==
  IF path = <<>> THEN <<Separator>> ELSE FlattenSeq([i \in DOMAIN path |-> <<Separator>> \o path[i]])

(* os.path.commonprefix goes by characters.                                   *)
CommonPrefix(s, t) ==
  LET n == CHOOSE k \in 0 .. Len(s) :
             /\ k <= Len(t) /\ SubSeq(s, 1, k) = SubSeq(t, 1, k)
             /\ k < Len(s) /\ k < Len(t) => s[k + 1] # t[k + 1]
  IN  SubSeq(s, 1, n)

(* Joining with what is left of a child whose name only begins like the       *)
(* parent does not give the child back.                                       *)
StripLeft(s) == IF s # <<>> /\ Head(s) = Separator THEN Tail(s) ELSE s

Join(s, t) == IF s # <<>> /\ Last(s) = Separator THEN s \o t ELSE s \o <<Separator>> \o t

IsParentOrSame(parent, child) ==
  \/ parent = child
  \/ LET prefix == CommonPrefix(parent, child)
         suffix == StripLeft(SubSeq(child, Len(prefix) + 1, Len(child)))
     IN  prefix = parent /\ child = Join(prefix, suffix)

-------------------------------------------------------------------------------
(* An option that is not known, or has a value that is not allowed, prints    *)
(* the usage and exits.                                                       *)
ReadOption ==
  /\ phase = "options" /\ opts # <<>>
  /\ opts' = Tail(opts)
  /\ LET opt == Head(opts)
     IN  /\ phase' = IF opt.name = "invalid" THEN "usage" ELSE phase
         /\ recursive' = (recursive \/ opt.name = "recursive")
         /\ excludes' = IF opt.name = "exclude" THEN excludes \cup opt.paths ELSE excludes
         /\ extensions' = IF opt.name = "extensions" THEN opt.extensions ELSE extensions
  /\ UNCHANGED <<given, filenames>>

OptionsRead ==
  /\ phase = "options" /\ opts = <<>>
  /\ phase' = IF filenames = {} THEN "usage" ELSE IF recursive THEN "expand" ELSE "exclude"
  /\ UNCHANGED <<opts, given, recursive, excludes, extensions, filenames>>

(* What is no directory stays, whether there is such a file or not.           *)
Descending(paths) ==
  {p \in paths : ~IsDirectory(p)} \cup {f \in Tree : \E p \in paths : IsDirectory(p) /\ IsPrefix(p, f)}

ExpandDirectories ==
  /\ phase = "expand"
  /\ filenames' = {f \in Descending(filenames) : Extension[f] \in extensions}
  /\ phase' = "exclude"
  /\ UNCHANGED <<opts, given, recursive, excludes, extensions>>

FilterExcludedFiles ==
  /\ phase = "exclude"
  /\ filenames' = {f \in filenames : ~\E e \in excludes : IsParentOrSame(Text(e), Text(f))}
  /\ phase' = "done"
  /\ UNCHANGED <<opts, given, recursive, excludes, extensions>>

Next == ReadOption \/ OptionsRead \/ ExpandDirectories \/ FilterExcludedFiles

Spec == Init /\ [][Next]_selectionVars

-------------------------------------------------------------------------------
OptionsOf(option) == {i \in DOMAIN given.opts : given.opts[i].name = option}

(* In whatever order the options were given: with --recursive the files below *)
(* the paths, and the paths that are no directories, with a valid extension,  *)
(* without it the paths as they are, less those that are excluded or below an *)
(* excluded directory, and only those.                                        *)
SelectsWhatWasAsked ==
  phase = "done" =>
    LET excluded == UNION {given.opts[i].paths : i \in OptionsOf("exclude")}
        valid == IF OptionsOf("extensions") = {} THEN DefaultExtensions
                 ELSE given.opts[Max(OptionsOf("extensions"))].extensions
        below == {f \in Tree \cup given.paths :
                    /\ ~IsDirectory(f) /\ Extension[f] \in valid
                    /\ \E p \in given.paths : IsPrefix(p, f)}
    IN  filenames = {f \in IF OptionsOf("recursive") = {} THEN given.paths ELSE below :
                       ~\E e \in excluded : IsPrefix(e, f)}
===============================================================================
