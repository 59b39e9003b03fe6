---------------------------- MODULE MCTpkgsMain ----------------------------
(***************************************************************************)
(* Small command lines, packages and configuration files for               *)
(* model-checking TpkgsMain.                                               *)
(***************************************************************************)
EXTENDS TpkgsMain

MCOrder == <<"/", "etc", "f", "lib", "packages", "usr">>

MCVersions == <<"1", "2", "3">>

Line(set, op, from, to, blanks) ==
    [set |-> set, op |-> op, from |-> from, to |-> to,
     colon |-> set = "INSTALL_PATH_MAP", blanks |-> blanks]
MapLine(op, from, to) == Line("INSTALL_PATH_MAP", op, from, to, {})

MCLines ==
    {MapLine("+=", <<"/", "usr">>, <<"usr">>),
     MapLine("+=", <<"/", "etc">>, <<"usr", "etc">>),
     MapLine("+=", <<"/", "lib">>, <<"etc">>),
     MapLine("=", <<"/", "usr", "etc">>, <<"etc">>),
     MapLine("-=", <<"/">>, <<>>),
     Line("INSTALL_PATH_MAP", "+=", <<"/", "usr">>, <<"usr">>, {"tail"}),
     Line("KEEP_DIRS", "+=", <<"usr">>, <<>>, {"lead", "tail"}),
     Line("MAIN_PACKAGE_DIR", "=", <<"/", "packages">>, <<>>, {"tail"}),
     Line("LANG", "=", <<>>, <<>>, {})}

\* The lines of fs/etc/tpkgs.conf that overlap.
ShippedLines ==
    {MapLine("+=", <<"usr">>, <<"/", "usr">>),
     MapLine("+=", <<"etc">>, <<"/", "etc">>),
     MapLine("+=", <<"usr", "etc">>, <<"/", "etc">>)}

P(V, c) == [versions |-> V, current |-> c]
MCDisks ==
    {("a" :> P({"1", "2"}, "1")) @@ ("b" :> P({}, "")),
     ("a" :> P({"1"}, "")) @@ ("b" :> P({"1", "2", "3"}, "3")),
     ("a" :> P({"1", "2"}, "3")) @@ ("1" :> P({"1"}, ""))}

Word(n) == [name |-> n, colon |-> FALSE, version |-> ""]
Both(n, v) == [name |-> n, colon |-> TRUE, version |-> v]
Words == {Word("a"), Word("b"), Word("1"), Both("a", "2"), Both("b", "3")}
UpTo(n) == UNION {[1 .. k -> Words] : k \in 0 .. n}
MCWordLists ==
    UpTo(2) \cup {<<Word("a"), Word("1"), Word("2")>>, <<Word("b"), Word("3"), Word("1")>>,
                  <<Both("a", "2"), Word("3"), Word("1")>>}
NoWords == {<<>>}

MCUsers ==
    {[root |-> n = "root", logname |-> IF n = "nobody" THEN "" ELSE n, home |-> n = "a"] :
        n \in {"root", "a", "b", "nobody"}}

Items == {Item("dir", <<>>), Item("link", "x"), Item("link", "y"), Item("other", <<>>),
          Item("reg", <<>>), Item("reg", <<1>>), Item("reg", <<2>>), Item("reg", <<1, 2>>)}
MCTrees == UNION {[S -> Items] : S \in SUBSET {"d", "f"}}

MCPlaces == {<<"/", "usr", "f">>, <<"/", "etc", "f">>, <<"/", "usr", "etc">>,
             <<"/", "usr", "etc", "f">>, <<"/", "lib", "f">>, <<"/", "f">>}
MCSources == {<<"usr", "f">>, <<"etc", "f">>, <<"usr", "etc", "f">>, <<"usr", "etc">>,
              <<"etc">>, <<"f">>, <<>>}
=============================================================================
