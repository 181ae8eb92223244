-------------------------------- MODULE MCScripts --------------------------------
(* Scripts for TLC: the values of its constants that are not in the .cfg.     *)
EXTENDS Scripts, SequencesExt, TLC

Symmetry == Permutations(Spaces)

(* Two directories below the top one, a file in each, and configurations of   *)
(* one or two entries.                                                        *)
Says(plus, covers) == [plus |-> plus, covers |-> covers, valid |-> TRUE]
Entry(entry, fs, excluded, value) ==
  [name |-> entry, filters |-> fs, excludes |-> excluded, value |-> value]
FilterEntry(fs) == Entry("filter", fs, {}, "")
SettingEntry(setting, value) == Entry(setting, <<>>, {}, value)

Entries ==
  { <<>>,
    <<SettingEntry("set noparent", ""), FilterEntry(<<Says(FALSE, {"build"})>>)>>,
    <<FilterEntry(<<Says(FALSE, {"build", "runtime"}), Says(TRUE, {"build"})>>)>>,
    <<FilterEntry(<<Says(TRUE, {"build", "runtime"})>>), FilterEntry(<<Says(FALSE, {"build"})>>)>>,
    <<FilterEntry(<<Says(FALSE, {"build"})>>), Entry("exclude_files", <<>>, {"tests", "lib/a.cpp"}, "")>>,
    <<FilterEntry(<<[Says(TRUE, {"build"}) EXCEPT !.valid = FALSE]>>)>>,
    <<SettingEntry("misspelled", ""), SettingEntry("extensions", "h")>>,
    <<SettingEntry("linelength", "invalid"), SettingEntry("includeorder", "default")>>,
    <<SettingEntry("includeorder", "standardcfirst"), SettingEntry("includeorder", "invalid")>> }

Err(category, confidence) == [category |-> category, confidence |-> confidence]

TheFiles == <<"lib/a.cpp", "tests/b.cpp">>
ThePath == ("lib/a.cpp" :> <<"lib", "top">>) @@ ("tests/b.cpp" :> <<"tests", "top">>)
TheFound == ("lib/a.cpp" :> <<Err("build", 5), Err("runtime", 3)>>)
              @@ ("tests/b.cpp" :> <<Err("build", 4), Err("build", 1)>>)
TheConfigs == [readable : {TRUE}, entries : Entries] \cup {[readable |-> FALSE, entries |-> <<>>]}
TheCommandFilters == <<Says(FALSE, {"runtime"})>>
TheValidExtensions == ("default" :> {"lib/a.cpp", "tests/b.cpp"}) @@ ("h" :> {})

-------------------------------------------------------------------------------
(* Command lines of up to three options over directories one of whose names   *)
(* begins with another's, and a file that is not there.                       *)
a == <<"a">>
ab == <<"a", "b">>
x == <<"x">>
xc == <<"x", "c">>
Missing == <<ab, <<"y">>>>
TheTree == { <<a, x>>, <<a, ab, x>>, <<ab, x>>, <<ab, xc>>, <<x>> }

Opt(option, paths, exts) == [name |-> option, paths |-> paths, extensions |-> exts]
TheOptions ==
  { Opt("recursive", {}, {}), Opt("exclude", {<<a>>}, {}), Opt("exclude", {<<ab, x>>, <<x>>}, {}),
    Opt("exclude", {<<>>}, {}), Opt("extensions", {}, {"txt"}), Opt("extensions", {}, {"cpp", "txt"}),
    Opt("invalid", {}, {}), Opt("other", {}, {}) }

TheNames == {a, ab, x, xc, Missing[2]}
TheExtension == [f \in TheTree \cup {Missing} |-> IF f[Len(f)] = xc THEN "txt" ELSE "cpp"]
TheOptionSets == SeqOf(TheOptions, 3)
TheArguments == SUBSET {<<>>, <<a>>, <<ab>>, <<ab, x>>, Missing}

-------------------------------------------------------------------------------
(* A file of up to two lines of a few kinds, and one of up to three lines of  *)
(* every kind after it.                                                       *)
Plain == [opens |-> FALSE, closes |-> FALSE, scope |-> "none", category |-> "all",
          global |-> FALSE, bad |-> FALSE, found |-> {}]
Nolint(scope, category) == [Plain EXCEPT !.scope = scope, !.category = category]
Ahead == [Plain EXCEPT !.found = {<<"body", -1>>, <<"braces", 1>>}]

AllLines ==
  { Ahead, [Nolint("line", "body") EXCEPT !.found = {<<"body", 0>>}],
    [Nolint("next", "all") EXCEPT !.found = {<<"body", 1>>}],
    Nolint("line", "braces"), Nolint("line", "guard"), Nolint("line", "unknown"),
    Nolint("next", "legacy"), [Nolint("line", "nolint") EXCEPT !.bad = TRUE],
    [Plain EXCEPT !.opens = TRUE], [Plain EXCEPT !.closes = TRUE, !.global = TRUE] }

FewLines ==
  { Ahead, Nolint("line", "braces"), Nolint("next", "all"), Nolint("line", "unknown"),
    [Plain EXCEPT !.opens = TRUE, !.found = {<<"body", 1>>}] }

Of(kinds, max) ==
  {text \in UNION {[1 .. n -> kinds] : n \in 1 .. max} :
     \A i \in DOMAIN text : \A found \in text[i].found : i + found[2] \in DOMAIN text}

TheFileChoices == <<Of(FewLines, 2), Of(AllLines, 3)>>

-------------------------------------------------------------------------------
(* Files called "Abc" or "abc".                                               *)
TheDirectoryNames ==
  {[lower |-> FALSE, underscore |-> FALSE], [lower |-> TRUE, underscore |-> FALSE]}

(* The macros of headers of any length in two namespaces.                     *)
TheGuards == [space : Spaces \cup {NoSpace}, end : {"_"}] \cup [space : {NoSpace}, end : {"__"}]
===============================================================================
