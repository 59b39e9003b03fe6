------------------------------- MODULE Tpkgs -------------------------------
(***************************************************************************)
(* The tpkgs program: tpkgs --install and tpkgs --uninstall, run by several *)
(* operators on one file system.                                           *)
(*                                                                         *)
(* A version of a package is a tree /packages/p/v of directories, regular  *)
(* files and symbolic links.  Installing it makes the directories in the   *)
(* system and, for every file, a link into the store; uninstalling it      *)
(* removes them again.  The symbolic link /packages/p/Current names the    *)
(* version that is installed.                                              *)
(*                                                                         *)
(* A run of the program goes through the items of the version in passes:   *)
(* a dry run that only looks for errors, the real pass and, to uninstall,  *)
(* a third pass meant to remove the directories the second one emptied.    *)
(* Between two system calls of a run every other run may make a step, and  *)
(* a run may be killed.                                                    *)
(***************************************************************************)
EXTENDS SystemTree

CONSTANTS
    Procs,          \* slots for concurrently running tpkgs processes
    NoVersion,      \* the empty version string
    Stored,         \* Stored[p]: the version directories below /packages/p
    Kind,           \* Kind[p][v][x]: what /packages/p/v/x is
    Text,           \* Text[p][v][x]: what it says if it is a link
    Ignored,        \* Ignored[u][p][c]: the paths the configuration ignores ...
    Kept,           \* Kept[u][p][c]: ... and the directories it keeps, when u
                    \* runs tpkgs and the configuration of version c is loaded
    FlagSets,       \* FlagSets[a]: the flags that may be given to action a
    InitialTrees,   \* what the installed system may be before the first run
    Operators,      \* the users that run tpkgs
    OnePerPackage,  \* TRUE if operators never work on one package at once
    MayCrash        \* TRUE if runs may be killed

Acts == {"install", "uninstall"}
Flags == {"overForeign", "overWrong", "ignoreErrors", "bypass", "dryRun"}

ASSUME VersionsAssumption ==
    /\ NoVersion \notin Versions
    /\ Packages # {} /\ Versions # {}

ASSUME StoreAssumption ==
    /\ Stored \in [Packages -> SUBSET Versions]
    /\ Kind \in [Packages -> [Versions -> [Paths -> {"none", "dir", "link", "reg", "other"}]]]
    /\ Text \in [Packages -> [Versions -> [Paths -> Texts]]]
    /\ \A p \in Packages, v \in Versions : Kind[p][v][Top] = "none"

ASSUME ConfigAssumption ==
    /\ Ignored \in [Users -> [Packages -> [Versions \cup {NoVersion} -> SUBSET Paths]]]
    /\ Kept \in [Users -> [Packages -> [Versions \cup {NoVersion} -> SUBSET Paths]]]

ASSUME FlagAssumption == FlagSets \in [Acts -> SUBSET SUBSET Flags]

\* Nothing is installed at first.
ASSUME InitialTreesAssumption ==
    /\ InitialTrees \subseteq Trees
    /\ \A t \in InitialTrees :
         WellFormed(t) /\ \A x \in Paths : t[x].to \notin StoreFiles

ASSUME OperatorsAssumption == Operators \subseteq Users

ASSUME SwitchAssumption == OnePerPackage \in BOOLEAN /\ MayCrash \in BOOLEAN

VARIABLES
    fs,         \* the installed system
    current,    \* current[p]: the version /packages/p/Current names
    proc,       \* proc[i]: the state of process i
    torn        \* history: the versions whose last run was cut short or
                \* skipped errors
vars == <<fs, current, proc, torn>>

Pcs == {"idle", "item", "remove", "symlink", "setOwner", "mkdir", "rmdir",
        "clearCurrent", "setCurrent"}
Passes == {"dry", "real", "third"}

Jobs == [pc : Pcs,
         act : Acts,                        \* InstallItem::install or ::uninstall
         pass : Passes,
         pkg : Packages,
         ver : Versions,
         next : Versions \cup {NoVersion},  \* to install after an uninstall
         as : Users,                        \* who runs tpkgs
         flags : SUBSET Flags,
         todo : SUBSET Paths,               \* the items left in this pass
         at : Paths,                        \* the item a system call is due for
         err : BOOLEAN,                     \* MXOSet::hasError of the dry run
         bad : BOOLEAN]                     \* the real pass skipped an error

Items(p, v) == {x \in Paths : Kind[p][v][x] # "none"}

NewJob(act, p, v, next, u, f) ==
    [pc |-> "item", act |-> act, pass |-> "dry", pkg |-> p, ver |-> v,
     next |-> next, as |-> u, flags |-> f, todo |-> Items(p, v), at |-> Top,
     err |-> FALSE, bad |-> FALSE]

\* The state of a process slot in which nothing runs: all its other fields are
\* forgotten.
IdleJob ==
    [NewJob("install", CHOOSE p \in Packages : TRUE, CHOOSE v \in Versions : TRUE,
            NoVersion, RootUser, {}) EXCEPT !.pc = "idle", !.todo = {}]

Active(i) == proc[i].pc # "idle"

-----------------------------------------------------------------------------
(* What an item asks for                                                     *)

\* The content of the installed link of an item.
LinkContent_Relative(p, v, x) ==
    IF Kind[p][v][x] = "reg" THEN x ELSE Text[p][v][x]

LinkContent(p, v, x) ==
    IF Kind[p][v][x] = "reg" THEN <<p, v, x>> ELSE Text[p][v][x]

\* Only --uninstall, and the uninstall part of a switch, load the
\* configuration file in the version directory.
ConfigOf(j) == IF j.act = "uninstall" THEN j.ver ELSE NoVersion

Ignore(j, x) == x \in Ignored[j.as][j.pkg][ConfigOf(j)]

Skips(j, x) ==
    \/ Ignore(j, x)
    \/ /\ j.act = "uninstall"
       /\ Kind[j.pkg][j.ver][x] = "dir"
       /\ x \in Kept[j.as][j.pkg][ConfigOf(j)]

Owns(j, x) == fs[x].owner = j.pkg
RightLink(j, x) == fs[x].to = LinkContent(j.pkg, j.ver, x)
MayTouch(j, x) == Owns(j, x) \/ "overForeign" \in j.flags
Vacant(x) == ~IsLink(fs, x) /\ ~Exists(fs, x)

\* What the code does next for an item: nothing, report an error, or a first
\* system call.
InstallLink_AnyLink(j, x) ==
    CASE IsLink(fs, x) -> "fine"
      [] Vacant(x) -> "symlink"
      [] OTHER -> "error"

InstallLink(j, x) ==
    CASE IsLink(fs, x) /\ RightLink(j, x) -> "fine"
      [] /\ IsLink(fs, x) /\ ~RightLink(j, x)
         /\ "overWrong" \in j.flags /\ MayTouch(j, x) -> "remove"
      [] Vacant(x) -> "symlink"
      [] OTHER -> "error"

InstallDirectory_NoCheck(x) == IF IsDirectory(fs, x) THEN "fine" ELSE "mkdir"

InstallDirectory_Always(x) ==
    IF IsDirectory(fs, x) \/ ~Exists(fs, x) THEN "mkdir" ELSE "error"

InstallDirectory(x) ==
    CASE IsDirectory(fs, x) -> "fine"
      [] ~Exists(fs, x) -> "mkdir"
      [] OTHER -> "error"

UninstallLink_AnyOwner(j, x) ==
    CASE /\ IsLink(fs, x)
         /\ RightLink(j, x) \/ "overWrong" \in j.flags -> "remove"
      [] Vacant(x) -> "fine"
      [] OTHER -> "error"

UninstallLink_AnyContent(j, x) ==
    CASE IsLink(fs, x) /\ MayTouch(j, x) -> "remove"
      [] Vacant(x) -> "fine"
      [] OTHER -> "error"

UninstallLink(j, x) ==
    CASE /\ IsLink(fs, x) /\ MayTouch(j, x)
         /\ RightLink(j, x) \/ "overWrong" \in j.flags -> "remove"
      [] Vacant(x) -> "fine"
      [] OTHER -> "error"

UninstallDirectory(j, x) ==
    CASE IsDirectory(fs, x) /\ Owns(j, x) -> "rmdir"
      [] IsDirectory(fs, x) /\ ~Owns(j, x) -> "fine"
      [] fs[x].kind = "none" -> "fine"
      [] OTHER -> "error"

Due(j, x) ==
    CASE Skips(j, x) -> "fine"
      [] ~Skips(j, x) /\ Kind[j.pkg][j.ver][x] = "other" -> "error"
      [] ~Skips(j, x) /\ Kind[j.pkg][j.ver][x] = "dir" ->
           IF j.act = "install" THEN InstallDirectory(x) ELSE UninstallDirectory(j, x)
      [] OTHER ->
           IF j.act = "install" THEN InstallLink(j, x) ELSE UninstallLink(j, x)

\* A directory comes before what it holds; the order within a directory is
\* the file system's.
Ready(j) == {x \in j.todo : Above[x] \cap j.todo = {}}

-----------------------------------------------------------------------------
(* Steps of one process                                                      *)

Step(i, j) == proc' = [proc EXCEPT ![i] = j]

Passed_Again(j, x) == [j EXCEPT !.pc = "item", !.at = Top]

Passed(j, x) == [j EXCEPT !.pc = "item", !.at = Top, !.todo = @ \ {x}]
Tolerant(j) == "ignoreErrors" \in j.flags \/ j.pass = "third"
MarkTorn(j) == torn' = [torn EXCEPT ![j.pkg] = @ \cup {j.ver}]

\* An error or an exception of a system call in the real or the third pass.
Raise(i, x) ==
    LET j == proc[i] IN
    /\ \/ /\ Tolerant(j)
          /\ Step(i, [Passed(j, x) EXCEPT !.bad = @ \/ j.pass = "real"])
          /\ UNCHANGED torn
       \/ /\ ~Tolerant(j)
          /\ Step(i, IdleJob)
          /\ MarkTorn(j)
    /\ UNCHANGED <<fs, current>>

Free(p) == OnePerPackage => \A k \in Procs : Active(k) => proc[k].pkg # p

Install_NoSwitch(i, p, v, u, f) ==
    /\ ~Active(i) /\ Free(p)
    /\ v \in Stored[p] /\ u \in Operators \cap {p, RootUser} /\ f \in FlagSets["install"]
    /\ current[p] # v
    /\ current[p] = NoVersion \/ "bypass" \in f
    /\ Step(i, NewJob("install", p, v, NoVersion, u, f))
    /\ UNCHANGED <<fs, current, torn>>

\* tpkgs --install p v: installing the installed version does nothing, and
\* another version is only replaced with --bypass.
Install(i, p, v, u, f) ==
    /\ ~Active(i) /\ Free(p)
    /\ v \in Stored[p] /\ u \in Operators \cap {p, RootUser} /\ f \in FlagSets["install"]
    /\ current[p] # v
    /\ \/ /\ current[p] = NoVersion
          /\ Step(i, NewJob("install", p, v, NoVersion, u, f))
       \/ /\ current[p] # NoVersion /\ "bypass" \in f
          /\ Step(i, NewJob("uninstall", p, current[p], v, u, f))
    /\ UNCHANGED <<fs, current, torn>>

\* tpkgs --uninstall p v
Uninstall(i, p, v, u, f) ==
    /\ ~Active(i) /\ Free(p)
    /\ v \in Stored[p] /\ u \in Operators \cap {p, RootUser} /\ f \in FlagSets["uninstall"]
    /\ current[p] = v \/ "bypass" \in f
    /\ Step(i, NewJob("uninstall", p, v, NoVersion, u, f))
    /\ UNCHANGED <<fs, current, torn>>

DryItem(i) ==
    /\ proc[i].pc = "item" /\ proc[i].pass = "dry"
    /\ \E x \in Ready(proc[i]) :
         Step(i, [Passed(proc[i], x) EXCEPT !.err = @ \/ Due(proc[i], x) = "error"])
    /\ UNCHANGED <<fs, current, torn>>

DryStop_NoBreak(i) ==
    /\ proc[i].pc = "item" /\ proc[i].pass = "dry" /\ proc[i].todo = {}
    /\ \/ /\ "dryRun" \in proc[i].flags
          /\ Step(i, [proc[i] EXCEPT !.pc = "clearCurrent"])
       \/ /\ "dryRun" \notin proc[i].flags
          /\ proc[i].err /\ "ignoreErrors" \notin proc[i].flags
          /\ Step(i, IdleJob)
    /\ UNCHANGED <<fs, current, torn>>

\* "Dry run failed!", or only a dry run was asked for.
DryStop(i) ==
    /\ proc[i].pc = "item" /\ proc[i].pass = "dry" /\ proc[i].todo = {}
    /\ \/ "dryRun" \in proc[i].flags
       \/ proc[i].err /\ "ignoreErrors" \notin proc[i].flags
    /\ Step(i, IdleJob)
    /\ UNCHANGED <<fs, current, torn>>

DryEnd(i) ==
    /\ proc[i].pc = "item" /\ proc[i].pass = "dry" /\ proc[i].todo = {}
    /\ "dryRun" \notin proc[i].flags
    /\ ~proc[i].err \/ "ignoreErrors" \in proc[i].flags
    /\ Step(i, [proc[i] EXCEPT !.pass = "real", !.todo = Items(proc[i].pkg, proc[i].ver)])
    /\ UNCHANGED <<fs, current, torn>>

\* An item of the real or the third pass: decide what to do with it.
RealItem(i) ==
    /\ proc[i].pc = "item" /\ proc[i].pass # "dry"
    /\ \E x \in Ready(proc[i]) :
         LET due == Due(proc[i], x) IN
         \/ /\ due = "fine"
            /\ Step(i, Passed(proc[i], x))
            /\ UNCHANGED <<fs, current, torn>>
         \/ /\ due = "error"
            /\ Raise(i, x)
         \/ /\ due \in {"remove", "symlink", "mkdir", "rmdir"}
            /\ Step(i, [proc[i] EXCEPT !.pc = due, !.at = x])
            /\ UNCHANGED <<fs, current, torn>>

\* The link of the item is removed; to relink it a symlink call follows.
Remove(i) ==
    LET j == proc[i] IN
    /\ j.pc = "remove"
    /\ \/ /\ CanRemove(fs, j.as, j.at)
          /\ fs' = Removed(fs, j.at)
          /\ Step(i, IF j.act = "install" THEN [j EXCEPT !.pc = "symlink"]
                                          ELSE Passed(j, j.at))
          /\ UNCHANGED <<current, torn>>
       \/ ~CanRemove(fs, j.as, j.at) /\ Raise(i, j.at)

Symlink(i) ==
    LET j == proc[i] IN
    /\ j.pc = "symlink"
    /\ \/ /\ CanSymlink(fs, j.as, j.at)
          /\ fs' = Symlinked(fs, j.as, j.at, LinkContent(j.pkg, j.ver, j.at))
          /\ Step(i, [j EXCEPT !.pc = "setOwner"])
          /\ UNCHANGED <<current, torn>>
       \/ ~CanSymlink(fs, j.as, j.at) /\ Raise(i, j.at)

MakeDirectory(i) ==
    LET j == proc[i] IN
    /\ j.pc = "mkdir"
    /\ \/ /\ CanMakeDirs(fs, j.as, j.at)
          /\ fs' = MadeDirs(fs, j.as, j.at)
          /\ Step(i, [j EXCEPT !.pc = "setOwner"])
          /\ UNCHANGED <<current, torn>>
       \/ ~CanMakeDirs(fs, j.as, j.at) /\ Raise(i, j.at)

SetOwner(i) ==
    LET j == proc[i] IN
    /\ j.pc = "setOwner"
    /\ \/ /\ CanSetOwner(fs, j.as, j.pkg, j.at)
          /\ fs' = OwnerSet(fs, j.pkg, j.at)
          /\ Step(i, Passed(j, j.at))
          /\ UNCHANGED <<current, torn>>
       \/ ~CanSetOwner(fs, j.as, j.pkg, j.at) /\ Raise(i, j.at)

\* A directory that cannot be removed is left, without an error.
RemoveDirectory(i) ==
    LET j == proc[i] IN
    /\ j.pc = "rmdir"
    /\ fs' = IF CanRemove(fs, j.as, j.at) THEN Removed(fs, j.at) ELSE fs
    /\ Step(i, Passed(j, j.at))
    /\ UNCHANGED <<current, torn>>

RealEnd_NoThirdPass(i) ==
    LET j == proc[i] IN
    /\ j.pc = "item" /\ j.pass # "dry" /\ j.todo = {}
    /\ Step(i, [j EXCEPT !.pc = "clearCurrent"])
    /\ UNCHANGED <<fs, current, torn>>

RealEnd(i) ==
    LET j == proc[i] IN
    /\ j.pc = "item" /\ j.pass # "dry" /\ j.todo = {}
    /\ Step(i, IF j.act = "uninstall" /\ j.pass = "real"
               THEN [j EXCEPT !.pass = "third", !.todo = Items(j.pkg, j.ver)]
               ELSE [j EXCEPT !.pc = "clearCurrent"])
    /\ UNCHANGED <<fs, current, torn>>

\* The run of version v is over: errors it skipped are not forgotten.
Settle(j) ==
    torn' = [torn EXCEPT ![j.pkg] = IF j.bad THEN @ \cup {j.ver} ELSE @ \ {j.ver}]

\* Package::setUninstalled, at the end of an uninstall and at the start of
\* Package::setInstalledVersion.
ClearCurrent(i) ==
    LET j == proc[i] IN
    /\ j.pc = "clearCurrent"
    /\ current' = [current EXCEPT ![j.pkg] = NoVersion]
    /\ \/ /\ j.act = "install"
          /\ Step(i, [j EXCEPT !.pc = "setCurrent"])
          /\ UNCHANGED torn
       \/ /\ j.act = "uninstall"
          /\ Step(i, IF j.next = NoVersion THEN IdleJob
                     ELSE NewJob("install", j.pkg, j.next, NoVersion, j.as, j.flags))
          /\ Settle(j)
    /\ UNCHANGED fs

SetCurrent(i) ==
    LET j == proc[i] IN
    /\ j.pc = "setCurrent"
    /\ Step(i, IdleJob)
    /\ \/ /\ current[j.pkg] = NoVersion
          /\ current' = [current EXCEPT ![j.pkg] = j.ver]
          /\ Settle(j)
       \/ /\ current[j.pkg] # NoVersion
          /\ MarkTorn(j)
          /\ UNCHANGED current
    /\ UNCHANGED fs

\* The process is killed: the file system keeps what it did so far.
Crash(i) ==
    /\ MayCrash /\ Active(i)
    /\ Step(i, IdleJob)
    /\ IF proc[i].pass = "dry" THEN UNCHANGED torn ELSE MarkTorn(proc[i])
    /\ UNCHANGED <<fs, current>>

Work(i) ==
    \/ DryItem(i) \/ DryStop(i) \/ DryEnd(i)
    \/ RealItem(i) \/ RealEnd(i)
    \/ Remove(i) \/ Symlink(i) \/ SetOwner(i)
    \/ MakeDirectory(i) \/ RemoveDirectory(i)
    \/ ClearCurrent(i) \/ SetCurrent(i)

Command(i) ==
    \E p \in Packages, v \in Versions, u \in Users :
        \/ \E f \in FlagSets["install"] : Install(i, p, v, u, f)
        \/ \E f \in FlagSets["uninstall"] : Uninstall(i, p, v, u, f)

Init ==
    /\ fs \in InitialTrees
    /\ current = [p \in Packages |-> NoVersion]
    /\ proc = [i \in Procs |-> IdleJob]
    /\ torn = [p \in Packages |-> {}]

Next == \E i \in Procs : Command(i) \/ Work(i) \/ Crash(i)

Spec == Init /\ [][Next]_vars

\* A process that runs is scheduled until it ends.
FairSpec == Spec /\ \A i \in Procs : WF_vars(Work(i))

-----------------------------------------------------------------------------
(* Properties                                                                *)

\* Every variable has its type: in particular each object of the system is a
\* file, a directory or a link with one of the contents tpkgs or others write.
TypeOK ==
    /\ fs \in Trees
    /\ current \in [Packages -> Versions \cup {NoVersion}]
    /\ proc \in [Procs -> Jobs]
    /\ torn \in [Packages -> SUBSET Versions]

Writing(p, v) ==
    \E i \in Procs :
        Active(i) /\ proc[i].pkg = p /\ proc[i].ver = v /\ proc[i].pass # "dry"

\* No link is forgotten: a link into the store belongs to the version Current
\* names, unless a run is at work on its version or the last one was cut short.
\* This is what InstallItem::uninstallLink reverting InstallItem::installLink,
\* the three passes of pexecU and the order of setUninstalled after them amount to.
NoOrphan ==
    \A x \in Paths :
        IsLink(fs, x) /\ fs[x].to \in StoreFiles =>
            LET p == fs[x].to[1]
                v == fs[x].to[2]
            IN  current[p] = v \/ v \in torn[p] \/ Writing(p, v)

\* The files of the version Current names that the package user or root
\* would install are all linked, whatever other packages did since.
Intact ==
    \A p \in Packages :
        LET v == current[p] IN
        v # NoVersion /\ v \notin torn[p] /\ ~Writing(p, v) =>
            \E u \in {p, RootUser} : \A x \in Items(p, v) :
                Kind[p][v][x] = "reg" /\ x \notin Ignored[u][p][NoVersion] =>
                    IsLink(fs, x) /\ fs[x].to = <<p, v, x>>

\* The general rules in InstallItem.cpp: a new object gets the package user as
\* its owner, so that a package user can uninstall what is installed.
OwnedByPackage ==
    \A x \in Paths :
        IsLink(fs, x) /\ fs[x].to \in StoreFiles =>
            LET p == fs[x].to[1]
                v == fs[x].to[2]
            IN  current[p] = v /\ v \notin torn[p] /\ ~Writing(p, v) =>
                    fs[x].owner = p

\* A link of another package is neither removed nor changed without
\* --over-foreign.
ForeignUntouched ==
    [][ \A x \in Paths :
          IsLink(fs, x) /\ fs[x].owner \in Packages /\ fs'[x] # fs[x] =>
            \E i \in Procs :
                /\ proc'[i] # proc[i]
                /\ \/ proc[i].pkg = fs[x].owner
                   \/ "overForeign" \in proc[i].flags ]_vars

\* The general rules in InstallItem.cpp: an install does not change the owner
\* of anything that exists already and belongs to a package.
OwnersKept ==
    [][ \A x \in Paths :
          /\ fs[x].kind # "none" /\ fs[x].owner \in Packages
          /\ fs'[x].kind = fs[x].kind
          => fs'[x].owner = fs[x].owner ]_vars

\* A link is only removed if it says what the item of the run says, or with
\* --over-wrong-target: InstallItem::uninstallLink checks this, and directories
\* "are uninstalled with rmdir", which removes no link.
WrongLinksKept ==
    [][ \A x \in Paths :
          IsLink(fs, x) /\ ~IsLink(fs', x) =>
            \E i \in Procs :
                /\ proc'[i] # proc[i]
                /\ RightLink(proc[i], x) \/ "overWrong" \in proc[i].flags ]_vars

\* What the dry run found possible the real pass does, when root runs tpkgs
\* and nothing else changes the system.
DryRunPredicts ==
    \A i \in Procs :
        LET j == proc[i] IN
        /\ j.as = RootUser /\ j.pass = "real" /\ "ignoreErrors" \notin j.flags
        /\ \A k \in Procs \ {i} : ~Active(k)
        => /\ j.pc = "item" => \A x \in Ready(j) : Due(j, x) # "error"
           /\ j.pc = "remove" => CanRemove(fs, j.as, j.at)
           /\ j.pc = "symlink" => CanSymlink(fs, j.as, j.at)
           /\ j.pc = "mkdir" => CanMakeDirs(fs, j.as, j.at)
           /\ j.pc = "setOwner" => CanSetOwner(fs, j.as, j.pkg, j.at)

\* An uninstall that skipped no error, of a package of which no other version
\* was left half installed, leaves a directory of the package only
\* if something of another owner is inside (the reason the general rules in
\* InstallItem.cpp give, and what the third pass of pexecU is for).
FoldersGone ==
    \A i \in Procs :
        LET j == proc[i] IN
        /\ j.pc = "clearCurrent" /\ j.act = "uninstall"
        /\ ~j.bad /\ torn[j.pkg] \subseteq {j.ver}
        =>
            \A x \in Items(j.pkg, j.ver) :
                IsDir(fs, x) /\ Owns(j, x) /\ ~Skips(j, x) =>
                    \E y \in Paths : x \in Above[y] /\ fs[y].kind # "none" /\ ~Owns(j, y)

\* Every run of tpkgs ends.
Ends == \A i \in Procs : Active(i) ~> ~Active(i)
=============================================================================
