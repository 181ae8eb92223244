-------------------------------- MODULE FilePaths --------------------------------
(***************************************************************************)
(* Which name cpplint.py has for a file in its repository                  *)
(* (FileInfo.RepositoryName) and what CheckFilenameFormat makes of it.     *)
(* The file is in directory path; 0 is "/", and directory i is path[1],    *)
(* ..., path[i].  A directory or file name is in lower case or not and has *)
(* an underscore or not.                                                   *)
(***************************************************************************)
EXTENDS Integers, Sequences, FiniteSetsExt

CONSTANTS
  Names,            \* of directories and files: [lower, underscore : BOOLEAN]
  MaxDepth          \* bound: directories above the file

(* Assumed of the constants. *)
DepthAssumption == MaxDepth \in Nat \ {0}
NamesAssumption == Names \subseteq [lower : BOOLEAN, underscore : BOOLEAN]

None == -1
EmptyName == 0      \* what split('/') makes of nothing, or of what is before the first '/'

VARIABLES
  path,             \* the directories above the file
  file,             \* the name of the file
  gits, svns,       \* the directories that have a .git (or .hg), or a .svn
  repository,       \* --repository, if the file is in it
  exempt,           \* a line says NOLINT(build/filename_format)
  phase,
  current,          \* the directory looked at: root_dir, one_up_dir, current_dir
  root,             \* root_dir
  name,             \* the directories in the file's name, by their place in path
  errors            \* the directories that are reported; 0 for the file

pathVars == <<path, file, gits, svns, repository, exempt, phase, current, root, name, errors>>

Depth == Len(path)

Init ==
  /\ \E n \in 1 .. MaxDepth :
       /\ path \in [1 .. n -> Names]
       /\ gits \in SUBSET (0 .. n) /\ svns \in SUBSET (0 .. n)
       /\ repository \in {None} \cup 0 .. n
  /\ file \in Names /\ exempt \in BOOLEAN
  /\ current = Depth /\ root = Depth /\ name = <<>> /\ errors = {}
  /\ phase = CASE exempt                          -> "done"
               [] ~exempt /\ repository # None     -> "repository"
               [] ~exempt /\ repository = None     -> IF Depth \in svns THEN "svn" ELSE "git"

-------------------------------------------------------------------------------
Goto(next) == phase' = next
Unchanged == UNCHANGED <<path, file, gits, svns, repository, exempt>>

(* The name from a directory on; an empty one if the file is right in it.     *)
Below(dir) == IF dir = Depth THEN <<EmptyName>> ELSE [i \in 1 .. Depth - dir |-> dir + i]

Named(parts) == name' = parts /\ current' = 1 /\ Goto("format")

(* The repository that was asked for is looked for upwards; the file is in it.*)
FindRepository ==
  /\ phase = "repository"
  /\ \/ current = repository /\ Named(Below(current))
     \/ current # repository /\ current' = current - 1 /\ UNCHANGED <<name, phase>>
  /\ UNCHANGED <<root, errors>> /\ Unchanged

(* Every directory of an old svn checkout has a .svn.  The one above "/" is   *)
(* "/": with a .svn there this never ends.                                    *)
OneUp(dir) == IF dir = 0 THEN 0 ELSE dir - 1

FindSvn ==
  /\ phase = "svn"
  /\ \/ OneUp(current) \in svns
        /\ current' = OneUp(current) /\ root' = OneUp(current) /\ UNCHANGED <<name, phase>>
     \/ OneUp(current) \notin svns /\ Named(Below(root)) /\ UNCHANGED root
  /\ UNCHANGED errors /\ Unchanged

(* Up to the top, which is not looked at; the last one found is kept.         *)
BelowTheTop == current > 0

FindGit ==
  /\ phase = "git"
  /\ \/ /\ BelowTheTop
        /\ root' = IF current \in gits \cup svns THEN current ELSE root
        /\ current' = current - 1
        /\ UNCHANGED <<name, phase>>
     \/ /\ ~BelowTheTop
        /\ Named(IF root \in gits \cup svns THEN Below(root) ELSE <<EmptyName>> \o Below(0))
        /\ UNCHANGED root
  /\ UNCHANGED errors /\ Unchanged

(* CheckFilenameFormat(): directory[0] is an exception if that is empty.      *)
BadDirectory(part) == ~part.lower \/ part.underscore

CheckDirectory ==
  /\ phase = "format" /\ current <= Len(name)
  /\ \/ name[current] = EmptyName /\ Goto("exception") /\ UNCHANGED <<current, errors>>
     \/ /\ name[current] # EmptyName
        /\ errors' = IF BadDirectory(path[name[current]]) THEN errors \cup {name[current]} ELSE errors
        /\ current' = current + 1 /\ UNCHANGED phase
  /\ UNCHANGED <<root, name>> /\ Unchanged

CheckBasename ==
  /\ phase = "format" /\ current > Len(name)
  /\ errors' = IF file.lower \/ file.underscore THEN errors \cup {0} ELSE errors
  /\ Goto("done")
  /\ UNCHANGED <<root, current, name>> /\ Unchanged

Next == FindRepository \/ FindSvn \/ FindGit \/ CheckDirectory \/ CheckBasename

Spec == Init /\ [][Next]_pathVars

-------------------------------------------------------------------------------
Checkouts == gits \ {0}

(* In a checkout by git or hg, the outermost one if it is within another, and *)
(* in a repository that was asked for, exactly the directories below its root *)
(* are reported that are not named as they should be: where it has been       *)
(* checked out to makes no difference.                                        *)
Root == IF repository # None THEN repository ELSE Min(Checkouts)

OnlyTheCheckoutCounts ==
  phase = "done" /\ ~exempt /\ (repository # None \/ (svns = {} /\ Checkouts # {})) =>
    errors = {i \in Root + 1 .. Depth : ~path[i].lower \/ path[i].underscore}
             \cup (IF file.lower \/ file.underscore THEN {0} ELSE {})
===============================================================================
