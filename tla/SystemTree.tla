----------------------------- MODULE SystemTree -----------------------------
(***************************************************************************)
(* The part of the installed file system that tpkgs works on: a tree of    *)
(* directories, symbolic links and regular files, each with an owner, and  *)
(* the system calls tpkgs makes on it (unlink, rmdir, symlink, mkdir,      *)
(* lchown) together with the permissions they need.                        *)
(*                                                                         *)
(* The tree is a function from paths to nodes.  Every operator takes the   *)
(* tree as its first argument t; the guards (Can...) say when the system   *)
(* call succeeds, the operators without Can give the tree it leaves.       *)
(* Paths are canonical: what is below a link to a directory goes by the    *)
(* name it has there.                                                      *)
(***************************************************************************)
EXTENDS FiniteSets

CONSTANTS
    Packages,   \* package names; each is also the name of its package user
    RootUser,   \* the super user
    Versions,   \* version strings
    Paths,      \* absolute installed paths, the top directory included
    Top,        \* "/"
    Above,      \* Above[x]: the proper ancestors of path x
    Texts,      \* contents of links that are not links into the store
    Dangling,   \* the texts that name a file that does not exist
    ToDir,      \* the texts that name a directory
    NoText      \* the content of a node that is no link

Users == Packages \cup {RootUser}

(***************************************************************************)
(* The content of a link to the file at path x of version v of package p   *)
(* is /packages/p/v/x, here the triple of the three.                       *)
(***************************************************************************)
StoreFiles == Packages \X Versions \X Paths
Contents == StoreFiles \cup Texts

Kinds == {"none", "dir", "idir", "link", "reg"}
Node == [kind : Kinds, owner : Users, to : Contents \cup {NoText}]

Absent == [kind |-> "none", owner |-> RootUser, to |-> NoText]
Dir(u) == [kind |-> "dir", owner |-> u, to |-> NoText]
InstallDir(u) == [kind |-> "idir", owner |-> u, to |-> NoText]
Regular(u) == [kind |-> "reg", owner |-> u, to |-> NoText]
Link(u, c) == [kind |-> "link", owner |-> u, to |-> c]

Trees == [Paths -> Node]

ASSUME NamesAssumption == RootUser \notin Packages

ASSUME PathsAssumption ==
    /\ Top \in Paths
    /\ Above \in [Paths -> SUBSET Paths]
    /\ Above[Top] = {}
    /\ \A x \in Paths \ {Top} : Top \in Above[x]

\* Above is the ancestor relation of a tree: a strict order in which the
\* ancestors of a path form a chain.
ASSUME AncestorAssumption ==
    \A x \in Paths :
        /\ x \notin Above[x]
        /\ \A y \in Above[x] : Above[y] \subseteq Above[x]
        /\ \A y, z \in Above[x] : y = z \/ y \in Above[z] \/ z \in Above[y]

ASSUME TextsAssumption ==
    /\ Dangling \subseteq Texts /\ ToDir \subseteq Texts
    /\ Dangling \cap ToDir = {}
    /\ Texts \cap StoreFiles = {}
    /\ NoText \notin Contents

-----------------------------------------------------------------------------

IsLink(t, x) == t[x].kind = "link"
IsDir(t, x) == t[x].kind \in {"dir", "idir"}

\* fs::is_directory follows links.
IsDirectory(t, x) == IsDir(t, x) \/ (IsLink(t, x) /\ t[x].to \in ToDir)

\* fs::exists follows links: it is false for a dangling one.
Exists(t, x) ==
    \/ t[x].kind \in {"dir", "idir", "reg"}
    \/ t[x].kind = "link" /\ t[x].to \notin Dangling

\* The directory that holds x.
DirOf(x) == CHOOSE y \in Above[x] : Above[x] = Above[y] \cup {y}

Reachable(t, x) == \A y \in Above[x] : IsDir(t, y)
IsEmpty(t, x) == \A y \in Paths : x \in Above[y] => t[y].kind = "none"

\* An entry may be added to a directory by its owner and by root, and to an
\* install directory by every package user.
MayAdd(t, u, x) ==
    \/ u = RootUser
    \/ t[DirOf(x)].kind = "idir"
    \/ t[DirOf(x)].owner = u

MayRemove_NotSticky(t, u, x) ==
    \/ u = RootUser
    \/ t[DirOf(x)].kind = "idir"
    \/ t[DirOf(x)].owner = u

\* Install directories are sticky: there a user may only remove what it owns.
MayRemove(t, u, x) ==
    \/ u = RootUser
    \/ t[DirOf(x)].kind = "idir" /\ t[x].owner = u
    \/ t[DirOf(x)].owner = u

\* fs::remove: a missing file is no error, a directory must be empty.
CanRemove(t, u, x) ==
    \/ t[x].kind = "none"
    \/ x # Top /\ MayRemove(t, u, x) /\ IsEmpty(t, x)

Removed(t, x) == [t EXCEPT ![x] = Absent]

CanSymlink(t, u, x) ==
    /\ t[x].kind = "none"
    /\ Reachable(t, x)
    /\ MayAdd(t, u, x)

Symlinked(t, u, x, c) == [t EXCEPT ![x] = Link(u, c)]

\* fs::create_directories makes the missing ancestors too.
Missing(t, x) == {y \in Above[x] \cup {x} : t[y].kind = "none"}

CanMakeDirs(t, u, x) ==
    /\ \A y \in Above[x] \cup {x} : IsDir(t, y) \/ t[y].kind = "none"
    /\ \A y \in Missing(t, x) : IsDir(t, DirOf(y)) => MayAdd(t, u, y)

MadeDirs(t, u, x) ==
    [y \in Paths |-> IF y \in Missing(t, x) THEN Dir(u) ELSE t[y]]

\* Package::setOwner does not call lchown when the owner is right already;
\* only root may change an owner.
CanSetOwner(t, u, o, x) ==
    /\ t[x].kind # "none"
    /\ t[x].owner = o \/ u = RootUser

OwnerSet(t, o, x) == [t EXCEPT ![x].owner = o]

-----------------------------------------------------------------------------

\* Every file is inside directories.
WellFormed(t) ==
    /\ IsDir(t, Top)
    /\ \A x \in Paths : t[x].kind # "none" => Reachable(t, x)
=============================================================================
