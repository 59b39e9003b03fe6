------------------------------ MODULE MCTpkgs ------------------------------
(***************************************************************************)
(* A small system for model-checking Tpkgs: two packages, A with two       *)
(* versions and B with one, that share a directory and collide at a path.  *)
(*                                                                         *)
(*      path       A 1          A 2          B 1                           *)
(*      /d         directory    -            directory                     *)
(*      /d/f       file         -            file                          *)
(*      /e         -            directory    -                             *)
(*      /s         file         file         -                             *)
(*      /t         -            link         link                          *)
(***************************************************************************)
EXTENDS TpkgsStore

CONSTANTS someText, dirText, deadText

MCPackages == {"A", "B"}
MCVersions == {"1", "2"}
MCPaths == {"/", "/d", "/d/f", "/e", "/s", "/t"}
MCAbove == [x \in MCPaths |->
    CASE x = "/" -> {}
      [] x = "/d/f" -> {"/", "/d"}
      [] OTHER -> {"/"}]

MCStored == [p \in MCPackages |-> IF p = "A" THEN {"1", "2"} ELSE {"1"}]

KindOf(p, v, x) ==
    CASE x = "/d" /\ v = "1" -> "dir"
      [] x = "/e" /\ v = "2" /\ p = "A" -> "dir"
      [] x = "/d/f" /\ v = "1" -> "reg"
      [] x = "/s" /\ p = "A" -> "reg"
      [] x = "/t" /\ <<p, v>> \in {<<"A", "2">>, <<"B", "1">>} -> "link"
      [] OTHER -> "none"

MCKind == [p \in MCPackages |-> [v \in MCVersions |-> [x \in MCPaths |-> KindOf(p, v, x)]]]
MCText == [p \in MCPackages |-> [v \in MCVersions |-> [x \in MCPaths |-> someText]]]
MCTexts == {someText, dirText, deadText}
MCDangling == {deadText}
MCToDir == {dirText}

MCUsers == MCPackages \cup {"root"}
NoPaths == [u \in MCUsers |-> [p \in MCPackages |-> [c \in MCVersions \cup {""} |-> {}]]]

\* KEEP_DIRS += e in the configuration of the package user of A.
KeepE == [NoPaths EXCEPT !["A"]["A"] = [c \in MCVersions \cup {""} |-> {"/e"}]]

\* A clean system in which package users install into "/".
CleanTree == [x \in MCPaths |-> IF x = "/" THEN InstallDir("root") ELSE Absent]

\* The same with a file in the way of /d, a dangling link in the way of /t and,
\* which is fine, a link to a directory for /e.
BlockedTree ==
    [CleanTree EXCEPT !["/d"] = Regular("root"),
                      !["/t"] = Link("root", deadText),
                      !["/e"] = Link("root", dirText)]

\* The package user of A made its /e a link to a directory.
LinkedTree == [CleanTree EXCEPT !["/e"] = Link("A", dirText)]

\* A dangling link where a directory is to be.
DanglingTree == [CleanTree EXCEPT !["/d"] = Link("root", deadText)]

OnlyClean == {CleanTree}
OnlyDangling == {DanglingTree}
OnlyLinked == {LinkedTree}
CleanOrBlocked == {CleanTree, BlockedTree}

SoloFlags ==
    [a \in Acts |-> IF a = "install"
                    THEN {{}, {"bypass"}, {"bypass", "overWrong"}, {"ignoreErrors"}}
                    ELSE {{}, {"overWrong"}, {"ignoreErrors"}}]

\* Two operators: one version of each package, no flag that switches or skips.
PairStored == [p \in MCPackages |-> {"1"}]

\* The versions that collide at /t, which is in a directory for all package users.
UsersStored == [p \in MCPackages |-> IF p = "A" THEN {"2"} ELSE {"1"}]

PairFlags == [a \in Acts |-> {{}, {"overWrong"}, {"dryRun"}}]

BareFlags == [a \in Acts |-> {{}}]

\* The flags of a plain --install and --uninstall, with a dry run before.
PlainFlags == [a \in Acts |-> {{}, {"dryRun"}}]

\* IGNORE_IN_SOURCE += s in the package user's ~/.tpkgs.conf: root, whose home
\* is another one, does not read it.
HomeIgnores == [NoPaths EXCEPT !["A"]["A"] = [c \in MCVersions \cup {""} |-> {"/s"}]]

\* IGNORE_IN_SOURCE += s in /packages/A/1/.tpkgs.conf
VersionIgnores == [u \in MCUsers |-> [NoPaths[u] EXCEPT !["A"]["1"] = {"/s"}]]

\* One package with a directory in a directory: /d, /d/e and the file /d/e/f.
DeepPaths == {"/", "/d", "/d/e", "/d/e/f"}
DeepAbove == [x \in DeepPaths |->
    CASE x = "/" -> {}
      [] x = "/d" -> {"/"}
      [] x = "/d/e" -> {"/", "/d"}
      [] x = "/d/e/f" -> {"/", "/d", "/d/e"}]
DeepStored == [p \in {"A"} |-> {"1"}]
DeepKind == [p \in {"A"} |-> [v \in {"1"} |-> [x \in DeepPaths |->
    CASE x = "/" -> "none" [] x = "/d/e/f" -> "reg" [] OTHER -> "dir"]]]
DeepText == [p \in {"A"} |-> [v \in {"1"} |-> [x \in DeepPaths |-> someText]]]
DeepNoPaths == [u \in {"A", "root"} |-> [p \in {"A"} |-> [c \in {"1", ""} |-> {}]]]
DeepTrees == {[x \in DeepPaths |-> IF x = "/" THEN InstallDir("root") ELSE Absent]}
=============================================================================
