------------------------------ MODULE TpkgsInv ------------------------------
(***************************************************************************)
(* The inductive invariants behind the safety properties of Tpkgs, and the *)
(* conditions under which they hold.                                       *)
(***************************************************************************)
EXTENDS Tpkgs

\* --uninstall is not given --bypass: what is uninstalled is what Current names.
UninstallsCurrent == \A f \in FlagSets["uninstall"] : "bypass" \notin f

\* No run is given --over-foreign.
NeverForeign == \A a \in Acts : \A f \in FlagSets[a] : "overForeign" \notin f

\* No uninstall ignores what some install did not ignore.
ConfigAgrees ==
    \A p \in Packages, v \in Versions, u, w \in Users :
        Ignored[u][p][v] \subseteq Ignored[w][p][NoVersion]

\* At most one process works on a package.
Exclusive ==
    \A i, k \in Procs :
        Active(i) /\ Active(k) /\ proc[i].pkg = proc[k].pkg => i = k

\* What the state j of a process says about its item and about Current.
JobOK(j, cur) ==
    /\ j.as \in {j.pkg, RootUser}
    /\ j.todo \subseteq Items(j.pkg, j.ver)
    /\ j.act = "install" => cur[j.pkg] = NoVersion
    /\ j.act = "uninstall" => cur[j.pkg] = j.ver
    /\ j.pc # "item" => j.pass # "dry"
    /\ j.pass = "third" => j.act = "uninstall"
    /\ j.pc = "clearCurrent" /\ j.act = "uninstall" => j.pass = "third"
    /\ j.pc \in {"symlink", "mkdir", "setOwner", "setCurrent"} => j.act = "install"
    /\ j.pc = "rmdir" => j.act = "uninstall"
    /\ j.pc \in {"mkdir", "rmdir"} => Kind[j.pkg][j.ver][j.at] = "dir"
    /\ j.pc \in {"remove", "symlink"} =>
         /\ Kind[j.pkg][j.ver][j.at] \in {"link", "reg"}
         /\ j.act = "install" => j.at \notin Ignored[j.as][j.pkg][NoVersion]

\* In tree t a link into the store is at the path of a file that some install
\* did not ignore.
LinkOK(t, x) ==
    t[x].to \in StoreFiles =>
        /\ t[x].kind = "link"
        /\ t[x].to[3] = x
        /\ Kind[t[x].to[1]][t[x].to[2]][x] = "reg"
        /\ \E u \in Users : x \notin Ignored[u][t[x].to[1]][NoVersion]

\* How far uninstall j is in tree t: the links of its version are at paths it
\* has yet to visit, and there are none left in the third pass.
UninstallDone(j, t) ==
    j.act = "uninstall" /\ ~j.bad =>
        /\ j.pass = "real" => \A x \in Paths : t[x].to = <<j.pkg, j.ver, x>> => x \in j.todo
        /\ j.pass = "third" => \A x \in Paths : t[x].to # <<j.pkg, j.ver, x>>

JobsOK == \A i \in Procs : Active(i) => JobOK(proc[i], current)
LinksOK == \A x \in Paths : LinkOK(fs, x)
UninstallsDone == \A i \in Procs : Active(i) => UninstallDone(proc[i], fs)

\* NoOrphan without its first condition, which LinksOK makes redundant.
AllAccounted ==
    \A x \in Paths :
        fs[x].to \in StoreFiles =>
            \/ current[fs[x].to[1]] = fs[x].to[2]
            \/ fs[x].to[2] \in torn[fs[x].to[1]]
            \/ Writing(fs[x].to[1], fs[x].to[2])

OrphanInv ==
    TypeOK /\ Exclusive /\ JobsOK /\ LinksOK /\ UninstallsDone /\ AllAccounted

\* No path is a directory in one version and a file or a link in another.
NoKindClash ==
    \A p, q \in Packages, v, w \in Versions, x \in Paths :
        Kind[p][v][x] = "dir" => Kind[q][w][x] \notin {"link", "reg"}

\* In tree t the link a system call of process state j is due for is still the
\* one its check looked at.
HoldsNode(j, t) ==
    /\ j.as \in {j.pkg, RootUser}
    /\ j.todo \subseteq Items(j.pkg, j.ver)
    /\ "overForeign" \notin j.flags
    /\ j.pc = "remove" => IsLink(t, j.at) /\ t[j.at].owner = j.pkg
    /\ j.pc \in {"remove", "symlink"} => Kind[j.pkg][j.ver][j.at] \in {"link", "reg"}
    /\ j.pc \in {"mkdir", "rmdir"} => Kind[j.pkg][j.ver][j.at] = "dir"
    /\ j.pc = "rmdir" /\ IsLink(t, j.at) => t[j.at].owner = j.pkg
    /\ j.pc = "setOwner" =>
         \/ Kind[j.pkg][j.ver][j.at] = "dir" /\ ~IsLink(t, j.at)
         \/ /\ Kind[j.pkg][j.ver][j.at] \in {"link", "reg"}
            /\ IsLink(t, j.at) /\ t[j.at].owner \in {j.pkg, RootUser}

NodesHeld == \A i \in Procs : Active(i) => HoldsNode(proc[i], fs)

\* No two processes are about to own the same new link.
OwnersApart ==
    \A i, k \in Procs :
        /\ proc[i].pc = "setOwner" /\ proc[k].pc = "setOwner"
        /\ proc[i].at = proc[k].at /\ IsLink(fs, proc[i].at)
        => i = k

ForeignInv == TypeOK /\ Exclusive /\ NodesHeld /\ OwnersApart

\* Whoever else wrote it, a link into a version is the package user's or root's.
LinksOwned ==
    \A x \in Paths : fs[x].to \in StoreFiles => fs[x].owner \in {fs[x].to[1], RootUser}

\* A run is about to own no link into a version of another package.
ClaimsOwn ==
    \A i \in Procs :
        LET x == proc[i].at IN
        proc[i].pc = "setOwner" /\ fs[x].to \in StoreFiles => fs[x].to[1] = proc[i].pkg

OwnerInv == ForeignInv /\ LinksOK /\ LinksOwned /\ ClaimsOwn

\* The files of version v of package p that user u would install.
Wanted(u, p, v) ==
    {x \in Items(p, v) : Kind[p][v][x] = "reg" /\ x \notin Ignored[u][p][NoVersion]}

\* How far install j is in tree t: what it wants to link and has not yet to visit
\* is linked, and the link it just made is the one it wanted.
InstallDone(j, t) ==
    j.act = "install" /\ j.pass # "dry" =>
        /\ j.pc \in {"remove", "symlink", "mkdir", "setOwner"} => j.at \in j.todo
        /\ j.pc \in {"clearCurrent", "setCurrent"} => j.todo = {}
        /\ j.pc = "setOwner" /\ Kind[j.pkg][j.ver][j.at] = "reg" =>
             t[j.at].to = <<j.pkg, j.ver, j.at>>
        /\ ~j.bad => \A x \in Wanted(j.as, j.pkg, j.ver) \ j.todo :
                         t[x].to = <<j.pkg, j.ver, x>>

InstallsDone == \A i \in Procs : Active(i) => InstallDone(proc[i], fs)

\* In tree t version v of package p is linked as its package user or root would
\* link it.
Whole(p, v, t) ==
    \E u \in {p, RootUser} : \A x \in Wanted(u, p, v) : t[x].to = <<p, v, x>>

\* Intact in terms of these.
SettledWhole ==
    \A p \in Packages :
        current[p] # NoVersion =>
            current[p] \in torn[p] \/ Writing(p, current[p]) \/ Whole(p, current[p], fs)

IntactInv == OrphanInv /\ OwnerInv /\ InstallsDone /\ SettledWhole

\* No link is a package's own at the path of one of its directories.
NoOwnLink ==
    \A p \in Packages, v \in Versions, x \in Paths :
        Kind[p][v][x] = "dir" /\ IsLink(fs, x) => fs[x].owner # p

\* The link about to be removed is the one of the item, or any will do.
RemovesRight ==
    \A i \in Procs :
        proc[i].pc = "remove" => RightLink(proc[i], proc[i].at) \/ "overWrong" \in proc[i].flags

WrongInv == ForeignInv /\ NoOwnLink /\ RemovesRight

\* What the next call of the only run finds: a directory is made where there is
\* none, and the object that was made is the user's who made it.
NewObject(j) ==
    /\ j.as \in {j.pkg, RootUser}
    /\ j.pc = "mkdir" => ~IsDir(fs, j.at)
    /\ j.pc = "setOwner" => fs[j.at].owner = j.as

NewObjects == TypeOK /\ \A i \in Procs : Active(i) => NewObject(proc[i])

\* A version is a tree: what holds an item is an item, and a directory.
StoreTrees ==
    \A p \in Packages, v \in Versions : \A x \in Items(p, v) : \A y \in Above[x] \ {Top} :
        Kind[p][v][y] = "dir"

\* What is below an ignored directory is ignored when it is installed.
IgnoredBelow ==
    \A u \in Users, p \in Packages : \A y \in Ignored[u][p][NoVersion], x \in Paths :
        y \in Above[x] => x \in Ignored[u][p][NoVersion]

\* In tree t no dangling link is at the path of a directory of a version, nor a link
\* to a directory at the path of one that holds something.
DirsClear(t) ==
    \A p \in Packages, v \in Versions, x \in Paths :
        Kind[p][v][x] = "dir" /\ IsLink(t, x) =>
            /\ t[x].to \notin Dangling
            /\ t[x].to \in ToDir => \A y \in Items(p, v) : x \notin Above[y]

\* The item a call is due for, and the object it finds there.
CallOK(j) ==
    /\ j.todo \subseteq Items(j.pkg, j.ver)
    /\ j.pc \in {"remove", "symlink"} => Kind[j.pkg][j.ver][j.at] \in {"link", "reg"}
    /\ j.pc \in {"mkdir", "rmdir"} => Kind[j.pkg][j.ver][j.at] = "dir"
    /\ j.pc \in {"symlink", "mkdir", "setOwner"} => j.act = "install"
    /\ j.pc = "rmdir" => j.act = "uninstall"
    /\ j.pc \in {"remove", "symlink", "mkdir", "setOwner", "rmdir"} =>
         j.pass # "dry" /\ j.at \in Ready(j) /\ ~Skips(j, j.at)
    /\ j.pc = "remove" => IsLink(fs, j.at)
    /\ j.pc \in {"symlink", "mkdir"} => fs[j.at].kind = "none"
    /\ j.pc = "setOwner" =>
         /\ fs[j.at].kind # "none"
         /\ Kind[j.pkg][j.ver][j.at] = "dir" => IsDir(fs, j.at)

\* What the dry run learnt, and what the real pass did with it.
Foretold(j) ==
    "ignoreErrors" \notin j.flags =>
        /\ j.pass = "dry" /\ ~j.err =>
             \A x \in Items(j.pkg, j.ver) \ j.todo : Due(j, x) # "error"
        /\ j.pass = "real" =>
             \A x \in j.todo : j.pc = "item" \/ x # j.at => Due(j, x) # "error"
        /\ j.pass = "real" /\ j.act = "install" =>
             \A x \in Items(j.pkg, j.ver) \ j.todo :
                Kind[j.pkg][j.ver][x] = "dir" /\ ~Skips(j, x) => IsDirectory(fs, x)

DryInv ==
    /\ TypeOK /\ WellFormed(fs) /\ DirsClear(fs)
    /\ \A i \in Procs : Active(i) => CallOK(proc[i]) /\ Foretold(proc[i])

\* The directories of the packages are directly below the top.
Shallow ==
    \A p \in Packages, v \in Versions, x \in Paths : Kind[p][v][x] = "dir" => Above[x] = {Top}

\* At first all package users may add to the top, and nothing is a package user's.
OpenAtFirst ==
    \A t \in InitialTrees :
        /\ t[Top].kind = "idir"
        /\ \A x \in Paths : t[x].kind # "none" => t[x].owner \notin Packages

\* Version v of package p is current, at work, or left by a run that was cut short.
AccountedFor(p, v) == current[p] = v \/ v \in torn[p] \/ Writing(p, v)

\* Package p has a directory at x, or a version that is accounted for has a link there.
HasAt(p, x) ==
    \/ IsDir(fs, x) /\ \E v \in Versions : Kind[p][v][x] = "dir"
    \/ /\ IsLink(fs, x)
       /\ \E v \in Versions :
            /\ Kind[p][v][x] \in {"link", "reg"} /\ AccountedFor(p, v)
            /\ \E u \in Users : x \notin Ignored[u][p][NoVersion]

\* What is a package user's is of the package.
OwnAccounted ==
    \A x \in Paths : fs[x].kind # "none" /\ fs[x].owner \in Packages => HasAt(fs[x].owner, x)

\* Directory x holds something that is not package p's.
HoldsForeign(p, x) == \E y \in Paths : x \in Above[y] /\ fs[y].kind # "none" /\ fs[y].owner # p

\* How far uninstall j is: where it has been there is no link or file, in the third
\* pass nowhere, and the directories the third pass left hold something of another.
CleanedUp(j) ==
    j.act = "uninstall" /\ ~j.bad /\ j.pass # "dry" =>
        \A x \in Items(j.pkg, j.ver) :
            ~Skips(j, x) =>
                /\ Kind[j.pkg][j.ver][x] # "dir" =>
                     fs[x].kind = "none" \/ (j.pass = "real" /\ x \in j.todo)
                /\ /\ Kind[j.pkg][j.ver][x] = "dir" /\ IsDir(fs, x) /\ fs[x].owner = j.pkg
                   /\ j.pass = "third" /\ x \notin j.todo /\ torn[j.pkg] \subseteq {j.ver}
                   => HoldsForeign(j.pkg, x)

\* The item a call is due for is still to be done, and what was made is what it asks for.
CallDue(j) ==
    /\ j.pc \in {"remove", "symlink", "mkdir", "setOwner", "rmdir"} =>
         j.at \in j.todo /\ ~Skips(j, j.at)
    /\ j.pc = "setOwner" =>
         \/ Kind[j.pkg][j.ver][j.at] = "dir" /\ IsDir(fs, j.at)
         \/ Kind[j.pkg][j.ver][j.at] \in {"link", "reg"} /\ IsLink(fs, j.at)
    /\ j.pc = "clearCurrent" => j.todo = {}

FoldersInv ==
    /\ OrphanInv /\ OwnAccounted /\ fs[Top].kind = "idir"
    /\ \A i \in Procs : Active(i) => CleanedUp(proc[i]) /\ CallDue(proc[i])
=============================================================================
