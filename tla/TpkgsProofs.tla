----------------------------- MODULE TpkgsProofs -----------------------------
(***************************************************************************)
(* Proofs about Tpkgs, for every store, configuration and number of        *)
(* processes.                                                              *)
(***************************************************************************)
EXTENDS TpkgsInv, TLAPS

-----------------------------------------------------------------------------
(* The operators of SystemTree return trees                                  *)

LEMMA TreeOps ==
    ASSUME NEW t \in Trees, NEW x \in Paths, NEW u \in Users, NEW c \in Contents
    PROVE  /\ Removed(t, x) \in Trees
           /\ Symlinked(t, u, x, c) \in Trees
           /\ MadeDirs(t, u, x) \in Trees
           /\ OwnerSet(t, u, x) \in Trees
<1>1. Absent \in Node /\ Link(u, c) \in Node /\ Dir(u) \in Node
  BY DEF Absent, Link, Dir, Node, Kinds, Users
<1>2. [t[x] EXCEPT !.owner = u] \in Node
  BY DEF Trees, Node
<1>3. Removed(t, x) \in Trees
  BY <1>1 DEF Removed, Trees
<1>4. Symlinked(t, u, x, c) \in Trees
  BY <1>1 DEF Symlinked, Trees
<1>5. MadeDirs(t, u, x) \in Trees
  BY <1>1 DEF MadeDirs, Trees
<1>6. OwnerSet(t, u, x) \in Trees
  BY <1>2 DEF OwnerSet, Trees
<1>7. QED
  BY <1>3, <1>4, <1>5, <1>6

LEMMA NewJobType ==
    ASSUME NEW a \in Acts, NEW p \in Packages, NEW v \in Versions,
           NEW w \in Versions \cup {NoVersion}, NEW u \in Users, NEW f \in SUBSET Flags
    PROVE  NewJob(a, p, v, w, u, f) \in Jobs
BY PathsAssumption DEF NewJob, Jobs, Pcs, Passes, Items

LEMMA IdleJobType == IdleJob \in Jobs /\ IdleJob.pc = "idle"
<1> DEFINE p == CHOOSE p \in Packages : TRUE
           v == CHOOSE v \in Versions : TRUE
<1>1. p \in Packages /\ v \in Versions
  BY VersionsAssumption
<1>2. NewJob("install", p, v, NoVersion, RootUser, {}) \in Jobs
  BY <1>1, NewJobType DEF Acts, Users
<1>3. QED
  BY <1>2 DEF IdleJob, Jobs, Pcs

LEMMA LinkContentType ==
    ASSUME NEW p \in Packages, NEW v \in Versions, NEW x \in Paths
    PROVE  LinkContent(p, v, x) \in Contents
BY StoreAssumption DEF LinkContent, Contents, StoreFiles

LEMMA PassedType ==
    ASSUME NEW j \in Jobs, NEW x \in Paths
    PROVE  Passed(j, x) \in Jobs
BY PathsAssumption DEF Passed, Jobs, Pcs

LEMMA DueType ==
    ASSUME NEW j \in Jobs, NEW x \in Paths
    PROVE  Due(j, x) \in {"fine", "error", "remove", "symlink", "mkdir", "rmdir"}
BY DEF Due, InstallDirectory, UninstallDirectory, InstallLink, UninstallLink, Vacant

-----------------------------------------------------------------------------
(* Type correctness                                                          *)

LEMMA TypeInductive == TypeOK /\ [Next]_vars => TypeOK'
<1> SUFFICES ASSUME TypeOK, [Next]_vars PROVE TypeOK'
  OBVIOUS
<1> USE DEF TypeOK
<1>1. CASE UNCHANGED vars
  BY <1>1 DEF vars
<1>2. ASSUME NEW i \in Procs, Command(i) \/ Work(i) \/ Crash(i)
      PROVE  TypeOK'
  <2> DEFINE j == proc[i]
  <2>j. /\ j \in Jobs
        /\ j.act \in Acts /\ j.pkg \in Packages /\ j.ver \in Versions
        /\ j.next \in Versions \cup {NoVersion} /\ j.as \in Users
        /\ j.flags \in SUBSET Flags /\ j.todo \in SUBSET Paths /\ j.at \in Paths
    BY <1>2 DEF Jobs
  <2>step. ASSUME NEW k \in Jobs, Step(i, k) PROVE proc' \in [Procs -> Jobs]
    BY <2>step, <1>2 DEF Step
  <2>torn. ASSUME MarkTorn(j) \/ Settle(j) PROVE torn' \in [Packages -> SUBSET Versions]
    BY <2>torn, <2>j DEF MarkTorn, Settle
  <2>raise. ASSUME NEW x \in Paths, Raise(i, x) PROVE TypeOK'
    <3>1. [Passed(j, x) EXCEPT !.bad = @ \/ j.pass = "real"] \in Jobs
      BY <2>j, PassedType DEF Jobs
    <3>2. proc' \in [Procs -> Jobs]
      BY <3>1, <2>raise, <2>step, IdleJobType DEF Raise
    <3>3. torn' \in [Packages -> SUBSET Versions]
      BY <2>raise, <2>torn DEF Raise
    <3> QED BY <3>2, <3>3, <2>raise DEF Raise
  <2>1. CASE Command(i)
    <3> PICK p \in Packages, v \in Versions, u \in Users :
           \/ \E f \in FlagSets["install"] : Install(i, p, v, u, f)
           \/ \E f \in FlagSets["uninstall"] : Uninstall(i, p, v, u, f)
      BY <2>1 DEF Command
    <3>1. ASSUME NEW f \in FlagSets["install"], Install(i, p, v, u, f) PROVE TypeOK'
      <4>1. f \in SUBSET Flags
        BY FlagAssumption DEF Acts
      <4>2. NewJob("install", p, v, NoVersion, u, f) \in Jobs
        BY <4>1, NewJobType DEF Acts
      <4>3. current[p] # NoVersion => NewJob("uninstall", p, current[p], v, u, f) \in Jobs
        BY <4>1, NewJobType DEF Acts
      <4> QED BY <3>1, <4>2, <4>3, <2>step DEF Install
    <3>2. ASSUME NEW f \in FlagSets["uninstall"], Uninstall(i, p, v, u, f) PROVE TypeOK'
      <4>1. f \in SUBSET Flags
        BY FlagAssumption DEF Acts
      <4>2. NewJob("uninstall", p, v, NoVersion, u, f) \in Jobs
        BY <4>1, NewJobType DEF Acts
      <4> QED BY <3>2, <4>2, <2>step DEF Uninstall
    <3> QED BY <3>1, <3>2
  <2>2. CASE DryItem(i)
    <3> PICK x \in Ready(j) :
           Step(i, [Passed(j, x) EXCEPT !.err = @ \/ Due(j, x) = "error"])
      BY <2>2 DEF DryItem
    <3>1. x \in Paths
      BY <2>j DEF Ready
    <3>2. [Passed(j, x) EXCEPT !.err = @ \/ Due(j, x) = "error"] \in Jobs
      BY <3>1, <2>j, PassedType DEF Jobs
    <3> QED BY <2>2, <3>2, <2>step DEF DryItem
  <2>3. CASE DryStop(i)
    BY <2>3, <2>step, IdleJobType DEF DryStop
  <2>4. CASE DryEnd(i)
    <3>1. [j EXCEPT !.pass = "real", !.todo = Items(j.pkg, j.ver)] \in Jobs
      BY <2>j DEF Jobs, Items, Passes
    <3> QED BY <2>4, <3>1, <2>step DEF DryEnd
  <2>5. CASE RealItem(i)
    <3> PICK x \in Ready(j) :
           LET due == Due(j, x) IN
           \/ /\ due = "fine"
              /\ Step(i, Passed(j, x))
              /\ UNCHANGED <<fs, current, torn>>
           \/ /\ due = "error"
              /\ Raise(i, x)
           \/ /\ due \in {"remove", "symlink", "mkdir", "rmdir"}
              /\ Step(i, [j EXCEPT !.pc = due, !.at = x])
              /\ UNCHANGED <<fs, current, torn>>
      BY <2>5 DEF RealItem
    <3>1. x \in Paths
      BY <2>j DEF Ready
    <3>2. Passed(j, x) \in Jobs
      BY <3>1, <2>j, PassedType
    <3>3. ASSUME Due(j, x) \in {"remove", "symlink", "mkdir", "rmdir"}
          PROVE  [j EXCEPT !.pc = Due(j, x), !.at = x] \in Jobs
      BY <3>1, <3>3, <2>j DEF Jobs, Pcs
    <3> QED BY <3>1, <3>2, <3>3, <2>step, <2>raise
  <2>6. CASE RealEnd(i)
    <3>1. /\ [j EXCEPT !.pass = "third", !.todo = Items(j.pkg, j.ver)] \in Jobs
          /\ [j EXCEPT !.pc = "clearCurrent"] \in Jobs
      BY <2>j DEF Jobs, Items, Passes, Pcs
    <3> QED BY <2>6, <3>1, <2>step DEF RealEnd
  <2>7. CASE Remove(i)
    <3>1. [j EXCEPT !.pc = "symlink"] \in Jobs /\ Passed(j, j.at) \in Jobs
      BY <2>j, PassedType DEF Jobs, Pcs
    <3>2. \A u \in Users : Removed(fs, j.at) \in Trees
      BY <2>j, TreeOps, LinkContentType
    <3> QED BY <2>7, <2>j, <3>1, <3>2, <2>step, <2>raise DEF Remove
  <2>8. CASE Symlink(i)
    <3>1. [j EXCEPT !.pc = "setOwner"] \in Jobs
      BY <2>j DEF Jobs, Pcs
    <3>2. Symlinked(fs, j.as, j.at, LinkContent(j.pkg, j.ver, j.at)) \in Trees
      BY <2>j, TreeOps, LinkContentType
    <3> QED BY <2>8, <2>j, <3>1, <3>2, <2>step, <2>raise DEF Symlink
  <2>9. CASE SetOwner(i)
    <3>1. j.pkg \in Users
      BY <2>j DEF Users
    <3>2. OwnerSet(fs, j.pkg, j.at) \in Trees
      BY <3>1, <2>j, TreeOps, LinkContentType
    <3> QED BY <2>9, <2>j, <3>2, PassedType, <2>step, <2>raise DEF SetOwner
  <2>10. CASE MakeDirectory(i)
    <3>1. [j EXCEPT !.pc = "setOwner"] \in Jobs
      BY <2>j DEF Jobs, Pcs
    <3>2. MadeDirs(fs, j.as, j.at) \in Trees
      BY <2>j, TreeOps, LinkContentType
    <3> QED BY <2>10, <2>j, <3>1, <3>2, <2>step, <2>raise DEF MakeDirectory
  <2>11. CASE RemoveDirectory(i)
    <3>1. Removed(fs, j.at) \in Trees
      BY <2>j, TreeOps, LinkContentType
    <3> QED BY <2>11, <2>j, <3>1, PassedType, <2>step DEF RemoveDirectory
  <2>12. CASE ClearCurrent(i)
    <3>1. /\ [j EXCEPT !.pc = "setCurrent"] \in Jobs
          /\ j.next # NoVersion =>
               NewJob("install", j.pkg, j.next, NoVersion, j.as, j.flags) \in Jobs
      BY <2>j, NewJobType DEF Jobs, Pcs, Acts
    <3>2. proc' \in [Procs -> Jobs]
      BY <2>12, <3>1, <2>step, IdleJobType DEF ClearCurrent
    <3>3. torn' \in [Packages -> SUBSET Versions]
      BY <2>12, <2>torn DEF ClearCurrent
    <3> QED BY <2>12, <3>2, <3>3 DEF ClearCurrent
  <2>13. CASE SetCurrent(i)
    <3>1. proc' \in [Procs -> Jobs]
      BY <2>13, <2>step, IdleJobType DEF SetCurrent
    <3>2. torn' \in [Packages -> SUBSET Versions]
      BY <2>13, <2>torn DEF SetCurrent
    <3> QED BY <2>13, <2>j, <3>1, <3>2 DEF SetCurrent
  <2>14. CASE Crash(i)
    <3>1. torn' \in [Packages -> SUBSET Versions]
      BY <2>14, <2>torn DEF Crash
    <3> QED BY <2>14, <3>1, <2>step, IdleJobType DEF Crash
  <2> QED BY <1>2, <2>1, <2>2, <2>3, <2>4, <2>5, <2>6, <2>7, <2>8, <2>9, <2>10,
             <2>11, <2>12, <2>13, <2>14 DEF Work
<1> QED BY <1>1, <1>2 DEF Next

LEMMA TypeInit == Init => TypeOK
BY IdleJobType, InitialTreesAssumption DEF Init, TypeOK

\* Every state of tpkgs has its type.
THEOREM TypeCorrect == Spec => []TypeOK
BY TypeInit, TypeInductive, PTL DEF Spec

-----------------------------------------------------------------------------
(* Owners                                                                    *)

\* Only one process runs at a time.
RunsAlone == \A i, k \in Procs : i = k

\* What OwnersKept says of one step.
SameOwners ==
    \A x \in Paths :
      /\ fs[x].kind # "none" /\ fs[x].owner \in Packages
      /\ fs'[x].kind = fs[x].kind
      => fs'[x].owner = fs[x].owner

\* A step that makes no call next.
LEMMA NoCallNext ==
    ASSUME RunsAlone, TypeOK, TypeOK', NEW i \in Procs, NEW k, Step(i, k),
           k.pc # "idle" => k.as \in {k.pkg, RootUser},
           k.pc \notin {"mkdir", "setOwner"}
    PROVE  NewObjects'
<1>1. proc'[i] = k /\ \A m \in Procs : m = i
  BY DEF TypeOK, Step, RunsAlone
<1> QED BY <1>1 DEF NewObjects, NewObject, Active

LEMMA QuietOwners == ASSUME fs' = fs PROVE SameOwners
BY DEF SameOwners

LEMMA RaiseOwners ==
    ASSUME RunsAlone, NewObjects, TypeOK', NEW i \in Procs, Active(i), NEW x, Raise(i, x)
    PROVE  NewObjects' /\ SameOwners
<1> DEFINE j == proc[i]
<1>1. j \in Jobs /\ j.as \in {j.pkg, RootUser}
  BY DEF NewObjects, NewObject, TypeOK
<1>2. CASE Step(i, IdleJob)
  BY <1>2, NoCallNext, IdleJobType, QuietOwners DEF Raise, NewObjects
<1>3. CASE Step(i, [Passed(j, x) EXCEPT !.bad = @ \/ j.pass = "real"])
  <2> DEFINE k == [Passed(j, x) EXCEPT !.bad = @ \/ j.pass = "real"]
  <2>1. k.pc = "item" /\ k.pkg = j.pkg /\ k.as = j.as
    BY <1>1 DEF Passed, Jobs
  <2>2. Step(i, k)
    BY <1>3
  <2> HIDE DEF k
  <2> QED BY <1>1, <2>1, <2>2, NoCallNext, QuietOwners DEF Raise, NewObjects
<1> QED BY <1>2, <1>3 DEF Raise

\* A directory is only to be made where there is none.
LEMMA DueMakes ==
    ASSUME NEW j \in Jobs, NEW x \in Paths, Due(j, x) = "mkdir"
    PROVE  ~IsDir(fs, x)
<1>1. Kind[j.pkg][j.ver][x] \in {"none", "dir", "link", "reg", "other"}
  BY StoreAssumption DEF Jobs
<1>2. IsDirectory(fs, x) => InstallDirectory(x) = "fine"
  <2>1. IsDirectory(fs, x) => Exists(fs, x)
    BY TextsAssumption DEF IsDirectory, IsDir, IsLink, Exists
  <2> QED BY <2>1 DEF InstallDirectory
<1>3. UninstallDirectory(j, x) # "mkdir"
  BY DEF UninstallDirectory
<1>4. InstallLink(j, x) # "mkdir" /\ UninstallLink(j, x) # "mkdir"
  BY DEF InstallLink, UninstallLink
<1>5. ~IsDirectory(fs, x)
  BY <1>1, <1>2, <1>3, <1>4 DEF Due
<1> QED BY <1>5 DEF IsDirectory

\* A call is due for a new object or for none.
LEMMA ItemOwners ==
    ASSUME RunsAlone, NewObjects, TypeOK', NEW i \in Procs, RealItem(i)
    PROVE  NewObjects' /\ SameOwners
<1> DEFINE j == proc[i]
<1>0. Active(i)
  BY DEF RealItem, Active
<1>1. j \in Jobs /\ j.as \in {j.pkg, RootUser}
  BY <1>0 DEF NewObjects, NewObject, TypeOK
<1>2. PICK x \in Ready(j) :
        \/ Step(i, Passed(j, x)) /\ fs' = fs
        \/ Raise(i, x)
        \/ /\ Due(j, x) \in {"remove", "symlink", "mkdir", "rmdir"}
           /\ Step(i, [j EXCEPT !.pc = Due(j, x), !.at = x])
           /\ fs' = fs
  BY DEF RealItem
<1>3. x \in Paths
  BY <1>1 DEF Ready, Jobs
<1>4. CASE Step(i, Passed(j, x)) /\ fs' = fs
  <2>1. Passed(j, x).pc = "item" /\ Passed(j, x).pkg = j.pkg /\ Passed(j, x).as = j.as
    BY <1>1 DEF Passed, Jobs
  <2> QED BY <1>1, <1>4, <2>1, NoCallNext, QuietOwners DEF NewObjects
<1>5. CASE Raise(i, x)
  BY <1>0, <1>5, RaiseOwners
<1>6. CASE /\ Due(j, x) \in {"remove", "symlink", "mkdir", "rmdir"}
           /\ Step(i, [j EXCEPT !.pc = Due(j, x), !.at = x])
           /\ fs' = fs
  <2> DEFINE k == [j EXCEPT !.pc = Due(j, x), !.at = x]
  <2>1. k.pc = Due(j, x) /\ k.at = x /\ k.pkg = j.pkg /\ k.as = j.as
    BY <1>1 DEF Jobs
  <2>2. Step(i, k)
    BY <1>6
  <2> HIDE DEF k
  <2>3. Due(j, x) = "mkdir" => ~IsDir(fs, x)
    BY <1>1, <1>3, DueMakes
  <2>4. proc'[i] = k /\ \A m \in Procs : m = i
    BY <2>2 DEF NewObjects, TypeOK, Step, RunsAlone
  <2>5. NewObjects'
    BY <1>1, <1>6, <2>1, <2>3, <2>4 DEF NewObjects, NewObject, IsDir
  <2> QED BY <1>6, <2>5, QuietOwners
<1> QED BY <1>2, <1>4, <1>5, <1>6

\* The system calls.
LEMMA CallOwners ==
    ASSUME RunsAlone, NewObjects, TypeOK', NEW i \in Procs,
           Remove(i) \/ RemoveDirectory(i) \/ Symlink(i) \/ MakeDirectory(i) \/ SetOwner(i)
    PROVE  NewObjects' /\ SameOwners
<1> DEFINE j == proc[i]
           z == j.at
<1>0. Active(i)
  BY DEF Remove, RemoveDirectory, Symlink, MakeDirectory, SetOwner, Active
<1>1. /\ j \in Jobs /\ j.as \in {j.pkg, RootUser} /\ z \in Paths /\ fs \in Trees
      /\ j.pc = "mkdir" => ~IsDir(fs, z)
      /\ j.pc = "setOwner" => fs[z].owner = j.as
  BY <1>0 DEF NewObjects, NewObject, TypeOK, Jobs
<1>2. SUFFICES ASSUME ~Raise(i, z) PROVE NewObjects' /\ SameOwners
  BY <1>0, RaiseOwners
<1>3. /\ Passed(j, z).pc = "item" /\ Passed(j, z).pkg = j.pkg /\ Passed(j, z).as = j.as
      /\ \A c \in {"symlink", "setOwner"} :
            LET k == [j EXCEPT !.pc = c] IN
            k.pc = c /\ k.at = z /\ k.pkg = j.pkg /\ k.as = j.as
  BY <1>1 DEF Passed, Jobs
<1>4. ASSUME Step(i, Passed(j, z)) \/ Step(i, [j EXCEPT !.pc = "symlink"]) PROVE NewObjects'
  BY <1>1, <1>3, <1>4, NoCallNext DEF NewObjects
<1>5. ASSUME Step(i, [j EXCEPT !.pc = "setOwner"]), fs'[z].owner = j.as PROVE NewObjects'
  <2> DEFINE k == [j EXCEPT !.pc = "setOwner"]
  <2>1. k.pc = "setOwner" /\ k.at = z /\ k.pkg = j.pkg /\ k.as = j.as
    BY <1>1 DEF Jobs
  <2>2. proc'[i] = k /\ \A m \in Procs : m = i
    BY <1>5 DEF NewObjects, TypeOK, Step, RunsAlone
  <2> HIDE DEF k
  <2> QED BY <1>1, <1>5, <2>1, <2>2 DEF NewObjects, NewObject
<1>6. CASE Remove(i) \/ RemoveDirectory(i)
  <2>1. NewObjects'
    BY <1>2, <1>4, <1>6 DEF Remove, RemoveDirectory
  <2>2. fs' = fs \/ fs' = Removed(fs, z)
    BY <1>2, <1>6 DEF Remove, RemoveDirectory
  <2>3. fs' = Removed(fs, z) => SameOwners
    BY <1>1 DEF SameOwners, Removed, Absent, Trees
  <2> QED BY <2>1, <2>2, <2>3, QuietOwners
<1>7. CASE Symlink(i)
  <2>1. /\ fs[z].kind = "none" /\ Step(i, [j EXCEPT !.pc = "setOwner"])
        /\ fs' = Symlinked(fs, j.as, z, LinkContent(j.pkg, j.ver, z))
    BY <1>2, <1>7 DEF Symlink, CanSymlink
  <2>2. fs'[z].owner = j.as /\ \A x \in Paths \ {z} : fs'[x] = fs[x]
    BY <1>1, <2>1 DEF Symlinked, Link, Trees
  <2> QED BY <1>5, <2>1, <2>2 DEF SameOwners
<1>8. CASE MakeDirectory(i)
  <2>1. /\ CanMakeDirs(fs, j.as, z) /\ Step(i, [j EXCEPT !.pc = "setOwner"])
        /\ fs' = MadeDirs(fs, j.as, z) /\ ~IsDir(fs, z)
    BY <1>1, <1>2, <1>8 DEF MakeDirectory
  <2>2. fs'[z].owner = j.as
    BY <1>1, <2>1 DEF CanMakeDirs, MadeDirs, Missing, Dir
  <2>3. \A x \in Paths : fs'[x] = fs[x] \/ fs[x].kind = "none"
    BY <2>1 DEF MadeDirs, Missing
  <2> QED BY <1>5, <2>1, <2>2, <2>3 DEF SameOwners
<1>9. CASE SetOwner(i)
  <2>1. /\ j.pc = "setOwner" /\ fs' = OwnerSet(fs, j.pkg, z) /\ Step(i, Passed(j, z))
    BY <1>2, <1>9 DEF SetOwner
  <2>2. \A x \in Paths : fs'[x].owner = fs[x].owner \/ (x = z /\ fs'[x].owner = j.pkg)
    BY <1>1, <2>1 DEF OwnerSet, Trees, Node
  <2>3. fs[z].owner \in Packages => fs[z].owner = j.pkg
    BY <1>1, <2>1, NamesAssumption
  <2> QED BY <1>4, <2>1, <2>2, <2>3 DEF SameOwners
<1> QED BY <1>6, <1>7, <1>8, <1>9

LEMMA OwnersStep ==
    ASSUME RunsAlone, NewObjects, [Next]_vars
    PROVE  NewObjects' /\ SameOwners
<1>1. TypeOK'
  BY TypeInductive DEF NewObjects
<1>2. CASE UNCHANGED vars
  BY <1>1, <1>2, QuietOwners DEF vars, NewObjects, NewObject, Active, IsDir
<1>3. ASSUME NEW i \in Procs, Command(i) \/ Work(i) \/ Crash(i)
      PROVE  NewObjects' /\ SameOwners
  <2> DEFINE j == proc[i]
  <2>1. ASSUME NEW k, Step(i, k), fs' = fs, k.pc \in {"item", "clearCurrent", "setCurrent"},
               k.as \in {k.pkg, RootUser}
        PROVE  NewObjects' /\ SameOwners
    BY <1>1, <2>1, NoCallNext, QuietOwners DEF NewObjects
  <2>2. ASSUME Step(i, IdleJob), fs' = fs PROVE NewObjects' /\ SameOwners
    BY <1>1, <2>2, NoCallNext, QuietOwners, IdleJobType DEF NewObjects
  <2>3. CASE Command(i)
    <3>1. PICK a, p, w, n, u, f : Step(i, NewJob(a, p, w, n, u, f)) /\ u \in {p, RootUser} /\ fs' = fs
      BY <2>3 DEF Command, Install, Uninstall
    <3>2. /\ NewJob(a, p, w, n, u, f).pc = "item" /\ NewJob(a, p, w, n, u, f).pkg = p
          /\ NewJob(a, p, w, n, u, f).as = u
      BY DEF NewJob
    <3> QED BY <2>1, <3>1, <3>2
  <2>4. CASE RealItem(i)
    BY <1>1, <2>4, ItemOwners
  <2>5. CASE Remove(i) \/ RemoveDirectory(i) \/ Symlink(i) \/ MakeDirectory(i) \/ SetOwner(i)
    BY <1>1, <2>5, CallOwners
  <2>6. CASE DryStop(i) \/ SetCurrent(i) \/ Crash(i)
    BY <2>2, <2>6 DEF DryStop, SetCurrent, Crash
  <2>7. CASE DryItem(i) \/ DryEnd(i) \/ RealEnd(i) \/ ClearCurrent(i)
    <3>0. j.pc \in {"item", "clearCurrent"} /\ fs' = fs
      BY <2>7 DEF DryItem, DryEnd, RealEnd, ClearCurrent
    <3>1. j \in Jobs /\ j.as \in {j.pkg, RootUser}
      BY <3>0 DEF NewObjects, NewObject, TypeOK, Active
    <3>2. CASE DryItem(i)
      <4>1. PICK x : Step(i, [Passed(j, x) EXCEPT !.err = @ \/ Due(j, x) = "error"])
        BY <3>2 DEF DryItem
      <4> DEFINE k == [Passed(j, x) EXCEPT !.err = @ \/ Due(j, x) = "error"]
      <4>2. k.pc = "item" /\ k.pkg = j.pkg /\ k.as = j.as
        BY <3>1 DEF Passed, Jobs
      <4>3. Step(i, k)
        BY <4>1
      <4> HIDE DEF k
      <4> QED BY <2>1, <3>0, <3>1, <4>2, <4>3
    <3>3. CASE DryEnd(i) \/ RealEnd(i)
      <4>1. PICK k : /\ Step(i, k) /\ j.pc = "item"
                     /\ \/ k = [j EXCEPT !.pass = "real", !.todo = Items(j.pkg, j.ver)]
                        \/ k = [j EXCEPT !.pass = "third", !.todo = Items(j.pkg, j.ver)]
                        \/ k = [j EXCEPT !.pc = "clearCurrent"]
        BY <3>3 DEF DryEnd, RealEnd
      <4>2. k.pc \in {"item", "clearCurrent"} /\ k.pkg = j.pkg /\ k.as = j.as
        BY <3>1, <4>1 DEF Jobs
      <4> QED BY <2>1, <3>0, <3>1, <4>1, <4>2
    <3>4. CASE ClearCurrent(i)
      <4>1. /\ [j EXCEPT !.pc = "setCurrent"].pc = "setCurrent"
            /\ [j EXCEPT !.pc = "setCurrent"].pkg = j.pkg
            /\ [j EXCEPT !.pc = "setCurrent"].as = j.as
        BY <3>1 DEF Jobs
      <4>2. \A a, p, w, n, u, f :
              /\ NewJob(a, p, w, n, u, f).pc = "item" /\ NewJob(a, p, w, n, u, f).pkg = p
              /\ NewJob(a, p, w, n, u, f).as = u
        BY DEF NewJob
      <4>3. \/ Step(i, IdleJob)
            \/ Step(i, [j EXCEPT !.pc = "setCurrent"])
            \/ Step(i, NewJob("install", j.pkg, j.next, NoVersion, j.as, j.flags))
        BY <3>4 DEF ClearCurrent
      <4>4. CASE Step(i, [j EXCEPT !.pc = "setCurrent"])
        BY <2>1, <3>0, <3>1, <4>1, <4>4
      <4>5. CASE Step(i, NewJob("install", j.pkg, j.next, NoVersion, j.as, j.flags))
        BY <2>1, <3>0, <3>1, <4>2, <4>5
      <4> QED BY <2>2, <3>0, <4>3, <4>4, <4>5
    <3> QED BY <2>7, <3>2, <3>3, <3>4
  <2> QED BY <1>3, <2>3, <2>4, <2>5, <2>6, <2>7 DEF Work
<1> QED BY <1>2, <1>3 DEF Next

\* Whatever the packages, the system, the flags and the runs that are killed: while
\* one run goes on at a time an install changes the owner of nothing a package
\* owns already. Two runs at once may: what the one finds missing the other may
\* make before the first one calls fs::create_directories, which reports no error.
THEOREM ExistingKeepOwners ==
    ASSUME RunsAlone
    PROVE  Spec => OwnersKept
<1>1. Init => NewObjects
  BY TypeInit, IdleJobType DEF Init, NewObjects, Active
<1>2. NewObjects /\ [Next]_vars => NewObjects'
  BY OwnersStep
<1>3. NewObjects /\ [Next]_vars => [SameOwners]_vars
  BY OwnersStep
<1> QED BY <1>1, <1>2, <1>3, PTL DEF Spec, OwnersKept, SameOwners

-----------------------------------------------------------------------------
(* The system stays a tree                                                   *)

LEMMA RemovedTree ==
    ASSUME NEW t \in Trees, WellFormed(t), NEW u, NEW z \in Paths, CanRemove(t, u, z)
    PROVE  WellFormed(Removed(t, z))
<1> DEFINE s == Removed(t, z)
<1>1. s[z].kind = "none" /\ \A x \in Paths \ {z} : s[x] = t[x]
  BY DEF Removed, Absent, Trees
<1>2. z # Top
  BY DEF WellFormed, CanRemove, IsDir
<1>3. \A x \in Paths : z \in Above[x] => t[x].kind = "none"
  <2>1. CASE t[z].kind = "none"
    BY <2>1 DEF WellFormed, Reachable, IsDir
  <2>2. CASE IsEmpty(t, z)
    BY <2>2 DEF IsEmpty
  <2> QED BY <2>1, <2>2 DEF CanRemove
<1>4. \A x \in Paths : Above[x] \subseteq Paths
  BY PathsAssumption
<1> HIDE DEF s
<1>5. WellFormed(s)
  BY <1>1, <1>2, <1>3, <1>4, PathsAssumption DEF WellFormed, Reachable, IsDir
<1> QED BY <1>5 DEF s

LEMMA SymlinkedTree ==
    ASSUME NEW t \in Trees, WellFormed(t), NEW u, NEW c, NEW z \in Paths, CanSymlink(t, u, z)
    PROVE  WellFormed(Symlinked(t, u, z, c))
<1> DEFINE s == Symlinked(t, u, z, c)
<1>1. /\ t[z].kind = "none" /\ Reachable(t, z)
      /\ \A x \in Paths \ {z} : s[x] = t[x]
  BY DEF Symlinked, CanSymlink, Trees
<1>2. \A x \in Paths : Above[x] \subseteq Paths
  BY PathsAssumption
<1> HIDE DEF s
<1>3. WellFormed(s)
  BY <1>1, <1>2, PathsAssumption DEF WellFormed, Reachable, IsDir
<1> QED BY <1>3 DEF s

LEMMA MadeTree ==
    ASSUME NEW t \in Trees, WellFormed(t), NEW u, NEW z \in Paths, CanMakeDirs(t, u, z)
    PROVE  WellFormed(MadeDirs(t, u, z))
<1> DEFINE s == MadeDirs(t, u, z)
<1>1. \A x \in Paths : s[x] = t[x] \/ (x \in Above[z] \cup {z} /\ IsDir(s, x))
  BY DEF MadeDirs, Missing, Dir, IsDir
<1>2. \A x \in Paths : IsDir(t, x) => IsDir(s, x)
  BY DEF MadeDirs, Missing, IsDir
<1>3. \A x \in Above[z] \cup {z} : IsDir(s, x)
  BY PathsAssumption DEF MadeDirs, Missing, Dir, IsDir, CanMakeDirs
<1>4. \A x \in Above[z] : Above[x] \subseteq Above[z]
  BY AncestorAssumption
<1>5. \A x \in Paths : Above[x] \subseteq Paths
  BY PathsAssumption
<1> HIDE DEF s
<1>6. WellFormed(s)
  BY <1>1, <1>2, <1>3, <1>4, <1>5, PathsAssumption DEF WellFormed, Reachable
<1> QED BY <1>6 DEF s

LEMMA OwnedTree ==
    ASSUME NEW t \in Trees, WellFormed(t), NEW u, NEW z \in Paths
    PROVE  WellFormed(OwnerSet(t, u, z))
<1> DEFINE s == OwnerSet(t, u, z)
<1>1. \A x \in Paths : s[x].kind = t[x].kind
  BY DEF OwnerSet, Trees, Node
<1>2. \A x \in Paths : Above[x] \subseteq Paths
  BY PathsAssumption
<1> HIDE DEF s
<1>3. WellFormed(s)
  BY <1>1, <1>2, PathsAssumption DEF WellFormed, Reachable, IsDir
<1> QED BY <1>3 DEF s

LEMMA TreeStep ==
    ASSUME TypeOK, WellFormed(fs), [Next]_vars
    PROVE  WellFormed(fs)'
<1>1. CASE fs' = fs
  BY <1>1
<1>2. ASSUME NEW i \in Procs, Command(i) \/ Work(i) \/ Crash(i), fs' # fs
      PROVE  WellFormed(fs')
  <2>1. proc[i].at \in Paths /\ fs \in Trees
    BY <1>2 DEF TypeOK, Jobs
  <2>2. \A x : ~Raise(i, x)
    BY <1>2 DEF Raise
  <2>3. Remove(i) \/ RemoveDirectory(i) \/ Symlink(i) \/ MakeDirectory(i) \/ SetOwner(i)
    BY <1>2, <2>2
       DEF Command, Install, Uninstall, Work, DryItem, DryStop, DryEnd, RealItem, RealEnd,
           ClearCurrent, SetCurrent, Crash
  <2>4. CASE Remove(i) \/ RemoveDirectory(i)
    BY <1>2, <2>1, <2>2, <2>4, RemovedTree DEF Remove, RemoveDirectory
  <2>5. CASE Symlink(i)
    BY <2>1, <2>2, <2>5, SymlinkedTree DEF Symlink
  <2>6. CASE MakeDirectory(i)
    BY <2>1, <2>2, <2>6, MadeTree DEF MakeDirectory
  <2>7. CASE SetOwner(i)
    BY <2>1, <2>2, <2>7, OwnedTree DEF SetOwner
  <2> QED BY <2>3, <2>4, <2>5, <2>6, <2>7
<1> QED BY <1>1, <1>2 DEF Next, vars

-----------------------------------------------------------------------------
(* The dry run                                                               *)

\* What DryRunPredicts needs of the versions, the configuration and the system
\* at first.
Plain ==
    /\ StoreTrees /\ IgnoredBelow /\ NoKindClash
    /\ \A t \in InitialTrees : DirsClear(t)

\* Process states j and k are of the same run.
SameRun(j, k) ==
    /\ k.pkg = j.pkg /\ k.ver = j.ver /\ k.act = j.act /\ k.as = j.as /\ k.flags = j.flags

\* What is due for an item depends on the run and on what is at its path.
LEMMA SameDue ==
    ASSUME NEW j, NEW k, SameRun(j, k), NEW x
    PROVE  /\ Due(k, x) = Due(j, x)
           /\ fs'[x] = fs[x] => Due(k, x)' = Due(j, x)
           /\ Skips(k, x) <=> Skips(j, x)
<1>1. Skips(k, x) <=> Skips(j, x)
  BY DEF SameRun, Skips, Ignore, ConfigOf
<1>2. Due(k, x) = Due(j, x)
  BY DEF SameRun, Due, Skips, Ignore, ConfigOf, InstallLink, UninstallLink, UninstallDirectory,
         MayTouch, Owns, RightLink
<1>3. fs'[x] = fs[x] => Due(k, x)' = Due(k, x)
  BY DEF Due, Skips, Ignore, ConfigOf, InstallDirectory, InstallLink, UninstallLink,
         UninstallDirectory, MayTouch, Owns, RightLink, Vacant, IsLink, IsDir, IsDirectory, Exists
<1> QED BY <1>1, <1>2, <1>3

\* The only run goes on with k.
LEMMA DryFrame ==
    ASSUME RunsAlone, DryInv, [Next]_vars, NEW i \in Procs, NEW k, Step(i, k),
           DirsClear(fs'), k.pc # "idle" => CallOK(k)' /\ Foretold(k)'
    PROVE  DryInv'
<1>1. TypeOK' /\ WellFormed(fs)'
  BY TypeInductive, TreeStep DEF DryInv
<1>2. proc'[i] = k /\ \A m \in Procs : m = i
  BY DEF DryInv, TypeOK, Step, RunsAlone
<1> QED BY <1>1, <1>2 DEF DryInv, Active, CallOK, Foretold

\* What an item is due for says what is at its path.
LEMMA DueFinds ==
    ASSUME TypeOK, DirsClear(fs), NEW j \in Jobs, NEW x \in Items(j.pkg, j.ver)
    PROVE  /\ Due(j, x) \in {"remove", "symlink", "mkdir", "rmdir"} => ~Skips(j, x)
           /\ Due(j, x) = "remove" => IsLink(fs, x) /\ Kind[j.pkg][j.ver][x] \in {"link", "reg"}
           /\ Due(j, x) = "symlink" =>
                /\ j.act = "install" /\ Kind[j.pkg][j.ver][x] \in {"link", "reg"}
                /\ fs[x].kind = "none"
           /\ Due(j, x) = "mkdir" =>
                j.act = "install" /\ Kind[j.pkg][j.ver][x] = "dir" /\ fs[x].kind = "none"
           /\ Due(j, x) = "rmdir" => j.act = "uninstall" /\ Kind[j.pkg][j.ver][x] = "dir"
           /\ /\ Due(j, x) = "fine" /\ j.act = "install" /\ ~Skips(j, x)
              /\ Kind[j.pkg][j.ver][x] = "dir"
              => IsDirectory(fs, x)
<1>1. /\ j.pkg \in Packages /\ j.ver \in Versions /\ x \in Paths
      /\ j.act \in {"install", "uninstall"} /\ fs[x].kind \in Kinds
  BY DEF Jobs, Items, Acts, TypeOK, Trees, Node
<1>2. Kind[j.pkg][j.ver][x] \in {"dir", "link", "reg", "other"}
  BY <1>1, StoreAssumption DEF Items
<1>3. Vacant(x) => fs[x].kind = "none"
  BY <1>1 DEF Vacant, IsLink, Exists, Kinds
<1>4. /\ InstallDirectory(x) \in {"fine", "mkdir", "error"}
      /\ InstallDirectory(x) = "mkdir" => ~Exists(fs, x)
      /\ InstallDirectory(x) = "fine" => IsDirectory(fs, x)
  BY DEF InstallDirectory
<1>5. UninstallDirectory(j, x) \in {"fine", "rmdir", "error"}
  BY DEF UninstallDirectory
<1>6. /\ InstallLink(j, x) \in {"fine", "remove", "symlink", "error"}
      /\ InstallLink(j, x) = "remove" => IsLink(fs, x)
      /\ InstallLink(j, x) = "symlink" => Vacant(x)
  BY DEF InstallLink, Vacant
<1>7. /\ UninstallLink(j, x) \in {"fine", "remove", "error"}
      /\ UninstallLink(j, x) = "remove" => IsLink(fs, x)
  BY DEF UninstallLink, Vacant
<1>8. Kind[j.pkg][j.ver][x] = "dir" /\ ~Exists(fs, x) => fs[x].kind = "none"
  BY <1>1 DEF DirsClear, Exists, IsLink, Kinds
<1>9. Skips(j, x) => Due(j, x) = "fine"
  BY DEF Due
<1>10. CASE ~Skips(j, x)
  <2>1. CASE Kind[j.pkg][j.ver][x] = "other"
    BY <1>10, <2>1 DEF Due
  <2>2. CASE Kind[j.pkg][j.ver][x] = "dir"
    <3>1. Due(j, x) = IF j.act = "install" THEN InstallDirectory(x) ELSE UninstallDirectory(j, x)
      BY <1>10, <2>2 DEF Due
    <3> QED BY <1>1, <1>4, <1>5, <1>8, <1>10, <2>2, <3>1
  <2>3. CASE Kind[j.pkg][j.ver][x] \in {"link", "reg"}
    <3>1. Due(j, x) = IF j.act = "install" THEN InstallLink(j, x) ELSE UninstallLink(j, x)
      BY <1>10, <2>3 DEF Due
    <3> QED BY <1>1, <1>3, <1>6, <1>7, <1>10, <2>3, <3>1
  <2> QED BY <1>2, <2>1, <2>2, <2>3
<1> QED BY <1>9, <1>10

\* Nothing is at the path of a directory it does not exclude already.
LEMMA ClearTree ==
    ASSUME NoKindClash, TypeOK, DirsClear(fs), NEW i \in Procs, Active(i), CallOK(proc[i]),
           Work(i) \/ Crash(i)
    PROVE  DirsClear(fs')
<1> DEFINE j == proc[i]
           z == j.at
<1>1. j \in Jobs /\ z \in Paths /\ fs \in Trees /\ j.pkg \in Packages /\ j.ver \in Versions
  BY DEF TypeOK, Jobs
<1>2. \A x : ~(fs' = fs) => ~Raise(i, x)
  BY DEF Raise
<1>3. SUFFICES ASSUME fs' # fs PROVE DirsClear(fs')
  OBVIOUS
<1>4. \/ fs' = Removed(fs, z)
      \/ fs' = MadeDirs(fs, j.as, z)
      \/ fs' = OwnerSet(fs, j.pkg, z)
      \/ j.pc = "symlink" /\ fs' = Symlinked(fs, j.as, z, LinkContent(j.pkg, j.ver, z))
  BY <1>2, <1>3
     DEF Work, DryItem, DryStop, DryEnd, RealItem, RealEnd, Remove, RemoveDirectory, Symlink,
         SetOwner, MakeDirectory, ClearCurrent, SetCurrent, Crash
<1>5. ASSUME NEW x \in Paths, IsLink(fs', x)
      PROVE  \/ IsLink(fs, x) /\ fs'[x].to = fs[x].to
             \/ x = z /\ Kind[j.pkg][j.ver][z] \in {"link", "reg"}
  <2>1. CASE fs' = Removed(fs, z)
    BY <1>1, <1>5, <2>1 DEF Removed, Absent, IsLink, Trees
  <2>2. CASE fs' = MadeDirs(fs, j.as, z)
    BY <1>1, <1>5, <2>2 DEF MadeDirs, Dir, IsLink, Trees
  <2>3. CASE fs' = OwnerSet(fs, j.pkg, z)
    BY <1>1, <1>5, <2>3 DEF OwnerSet, IsLink, Trees, Node
  <2>4. CASE j.pc = "symlink" /\ fs' = Symlinked(fs, j.as, z, LinkContent(j.pkg, j.ver, z))
    <3>1. x # z => fs'[x] = fs[x]
      BY <1>1, <2>4 DEF Symlinked, Trees
    <3>2. Kind[j.pkg][j.ver][z] \in {"link", "reg"}
      BY <2>4 DEF CallOK
    <3> QED BY <1>5, <3>1, <3>2 DEF IsLink
  <2> QED BY <1>4, <2>1, <2>2, <2>3, <2>4
<1> QED BY <1>1, <1>5 DEF DirsClear, NoKindClash

\* An item of the real or the third pass is done with.
LEMMA PassedForetold ==
    ASSUME NEW j \in Jobs, NEW x \in j.todo, CallOK(j), NEW k, SameRun(j, k),
           k.pc = "item", k.pass = j.pass, k.todo = j.todo \ {x},
           j.pass # "dry", j.pc = "item" \/ j.at = x, Foretold(j),
           \A y \in j.todo \ {x} : Due(k, y)' = Due(j, y) \/ Due(k, y)' # "error",
           \A y \in Items(j.pkg, j.ver) \ j.todo :
              Kind[j.pkg][j.ver][y] = "dir" /\ IsDirectory(fs, y) => IsDirectory(fs', y),
           /\ Kind[j.pkg][j.ver][x] = "dir" /\ ~Skips(j, x) /\ j.act = "install"
           /\ j.pass = "real" /\ "ignoreErrors" \notin j.flags
           => IsDirectory(fs', x)
    PROVE  CallOK(k)' /\ Foretold(k)'
<1>1. CallOK(k)'
  BY DEF CallOK, SameRun
<1>2. \A y : Skips(k, y)' <=> Skips(j, y)
  BY DEF SameRun, Skips, Ignore, ConfigOf
<1>3. Foretold(k)'
  BY <1>2 DEF Foretold, SameRun
<1> QED BY <1>1, <1>3

\* The run goes on as foretold, or it stops.
GoesOn(i) == \E k : Step(i, k) /\ (k.pc # "idle" => CallOK(k)' /\ Foretold(k)')

LEMMA StopGoesOn == ASSUME NEW i, Step(i, IdleJob) PROVE GoesOn(i)
BY IdleJobType DEF GoesOn

\* A new run has learnt nothing.
LEMMA NewGoesOn ==
    ASSUME NEW i, NEW a, NEW p, NEW v, NEW w, NEW u, NEW f, Step(i, NewJob(a, p, v, w, u, f))
    PROVE  GoesOn(i)
<1>1. ASSUME NEW k, k = NewJob(a, p, v, w, u, f) PROVE CallOK(k)' /\ Foretold(k)'
  <2>1. /\ k.pc = "item" /\ k.pass = "dry" /\ k.pkg = p /\ k.ver = v /\ k.todo = Items(p, v)
    BY <1>1 DEF NewJob
  <2> QED BY <2>1 DEF CallOK, Foretold
<1> QED BY <1>1 DEF GoesOn

\* An error ends the run, unless errors are ignored.
LEMMA RaiseGoesOn ==
    ASSUME TypeOK, NEW i \in Procs, Active(i), CallOK(proc[i]), Foretold(proc[i]),
           proc[i].pass # "dry", NEW x \in proc[i].todo, Raise(i, x)
    PROVE  GoesOn(i)
<1> DEFINE j == proc[i]
<1>1. j \in Jobs
  BY DEF TypeOK
<1>2. CASE Step(i, IdleJob)
  BY <1>2, StopGoesOn
<1>3. CASE Tolerant(j) /\ Step(i, [Passed(j, x) EXCEPT !.bad = @ \/ j.pass = "real"])
  <2>1. ASSUME NEW k, k = [Passed(j, x) EXCEPT !.bad = @ \/ j.pass = "real"]
        PROVE  CallOK(k)' /\ Foretold(k)'
    <3>1. /\ k.pc = "item" /\ k.pass = j.pass /\ k.pkg = j.pkg /\ k.ver = j.ver
          /\ k.todo = j.todo \ {x} /\ k.flags = j.flags
      BY <1>1, <2>1 DEF Passed, Jobs
    <3>2. "ignoreErrors" \notin j.flags => j.pass = "third"
      BY <1>3 DEF Tolerant
    <3>3. CallOK(k)'
      BY <3>1 DEF CallOK
    <3> QED BY <3>1, <3>2, <3>3 DEF Foretold
  <2> QED BY <1>3, <2>1 DEF GoesOn
<1> QED BY <1>2, <1>3 DEF Raise

LEMMA DryGoesOn ==
    ASSUME TypeOK, NEW i \in Procs, Active(i), CallOK(proc[i]), Foretold(proc[i]),
           DryItem(i) \/ DryEnd(i)
    PROVE  GoesOn(i)
<1> DEFINE j == proc[i]
<1>0. fs' = fs /\ j.pass = "dry" /\ j.pc = "item"
  BY DEF DryItem, DryEnd
<1>1. j \in Jobs
  BY DEF TypeOK
<1>2. CASE DryItem(i)
  <2>1. PICK x \in Ready(j) :
           Step(i, [Passed(j, x) EXCEPT !.err = @ \/ Due(j, x) = "error"])
    BY <1>2 DEF DryItem
  <2>2. ASSUME NEW k, k = [Passed(j, x) EXCEPT !.err = @ \/ Due(j, x) = "error"]
        PROVE  CallOK(k)' /\ Foretold(k)'
    <3>1. /\ k.pc = "item" /\ k.pass = "dry" /\ k.todo = j.todo \ {x} /\ SameRun(j, k)
          /\ k.err <=> (j.err \/ Due(j, x) = "error")
      BY <1>0, <1>1, <2>2 DEF Passed, Jobs, SameRun
    <3>2. CallOK(k)'
      BY <3>1 DEF CallOK, SameRun
    <3>3. \A y : Due(k, y)' = Due(j, y)
      BY <1>0, <3>1, SameDue
    <3>4. Foretold(k)'
      BY <1>0, <3>1, <3>3 DEF Foretold, SameRun
    <3> QED BY <3>2, <3>4
  <2> QED BY <2>1, <2>2 DEF GoesOn
<1>3. CASE DryEnd(i)
  <2>1. Step(i, [j EXCEPT !.pass = "real", !.todo = Items(j.pkg, j.ver)])
    BY <1>3 DEF DryEnd
  <2>2. ASSUME NEW k, k = [j EXCEPT !.pass = "real", !.todo = Items(j.pkg, j.ver)]
        PROVE  CallOK(k)' /\ Foretold(k)'
    <3>1. /\ k.pc = "item" /\ k.pass = "real" /\ k.todo = Items(j.pkg, j.ver) /\ SameRun(j, k)
      BY <1>0, <1>1, <2>2 DEF Jobs, SameRun
    <3>2. CallOK(k)'
      BY <3>1 DEF CallOK, SameRun
    <3>3. \A y : Due(k, y)' = Due(j, y)
      BY <1>0, <3>1, SameDue
    <3>4. "ignoreErrors" \notin j.flags => ~j.err /\ j.todo = {}
      BY <1>3 DEF DryEnd
    <3>5. Foretold(k)'
      BY <1>0, <3>1, <3>3, <3>4 DEF Foretold, SameRun
    <3> QED BY <3>2, <3>5
  <2> QED BY <2>1, <2>2 DEF GoesOn
<1> QED BY <1>2, <1>3

LEMMA ItemGoesOn ==
    ASSUME TypeOK, DirsClear(fs), NEW i \in Procs, Active(i), CallOK(proc[i]), Foretold(proc[i]),
           RealItem(i) \/ RealEnd(i)
    PROVE  GoesOn(i)
<1> DEFINE j == proc[i]
<1>0. j.pass # "dry" /\ j.pc = "item"
  BY DEF RealItem, RealEnd
<1>1. j \in Jobs /\ j.todo \subseteq Items(j.pkg, j.ver)
  BY DEF TypeOK, CallOK
<1>2. CASE RealItem(i)
  <2>1. PICK x \in Ready(j) :
           \/ Due(j, x) = "fine" /\ Step(i, Passed(j, x)) /\ fs' = fs
           \/ Raise(i, x)
           \/ /\ Due(j, x) \in {"remove", "symlink", "mkdir", "rmdir"}
              /\ Step(i, [j EXCEPT !.pc = Due(j, x), !.at = x])
              /\ fs' = fs
    BY <1>2 DEF RealItem
  <2>2. x \in j.todo /\ x \in Items(j.pkg, j.ver)
    BY <1>1 DEF Ready
  <2>3. CASE Due(j, x) = "fine" /\ Step(i, Passed(j, x)) /\ fs' = fs
    <3>1. ASSUME NEW k, k = Passed(j, x) PROVE CallOK(k)' /\ Foretold(k)'
      <4>1. k.pc = "item" /\ k.pass = j.pass /\ k.todo = j.todo \ {x} /\ SameRun(j, k)
        BY <1>1, <3>1 DEF Passed, Jobs, SameRun
      <4>2. \A y : Due(k, y)' = Due(j, y)
        BY <2>3, <4>1, SameDue
      <4>3. Kind[j.pkg][j.ver][x] = "dir" /\ ~Skips(j, x) /\ j.act = "install" => IsDirectory(fs, x)
        BY <1>1, <2>2, <2>3, DueFinds
      <4> QED BY <1>0, <1>1, <2>2, <2>3, <4>1, <4>2, <4>3, PassedForetold
    <3> QED BY <2>3, <3>1 DEF GoesOn
  <2>4. CASE Raise(i, x)
    BY <1>0, <2>2, <2>4, RaiseGoesOn
  <2>5. CASE /\ Due(j, x) \in {"remove", "symlink", "mkdir", "rmdir"}
             /\ Step(i, [j EXCEPT !.pc = Due(j, x), !.at = x])
             /\ fs' = fs
    <3>1. ASSUME NEW k, k = [j EXCEPT !.pc = Due(j, x), !.at = x] PROVE CallOK(k)' /\ Foretold(k)'
      <4>1. /\ k.pc = Due(j, x) /\ k.at = x /\ k.pass = j.pass /\ k.todo = j.todo /\ k.err = j.err
            /\ SameRun(j, k)
        BY <1>1, <3>1 DEF Jobs, SameRun
      <4>2. \A y : Due(k, y)' = Due(j, y) /\ (Skips(k, y)' <=> Skips(j, y))
        BY <2>5, <4>1, SameDue DEF Skips, Ignore, ConfigOf
      <4>3. /\ ~Skips(j, x)
            /\ Due(j, x) = "remove" => IsLink(fs, x) /\ Kind[j.pkg][j.ver][x] \in {"link", "reg"}
            /\ Due(j, x) = "symlink" =>
                 /\ j.act = "install" /\ Kind[j.pkg][j.ver][x] \in {"link", "reg"}
                 /\ fs[x].kind = "none"
            /\ Due(j, x) = "mkdir" =>
                 j.act = "install" /\ Kind[j.pkg][j.ver][x] = "dir" /\ fs[x].kind = "none"
            /\ Due(j, x) = "rmdir" => j.act = "uninstall" /\ Kind[j.pkg][j.ver][x] = "dir"
        BY <1>1, <2>2, <2>5, DueFinds
      <4>4. Ready(k) = Ready(j)
        BY <4>1 DEF Ready
      <4>5. CallOK(k)'
        BY <1>0, <1>1, <2>5, <4>1, <4>2, <4>3, <4>4 DEF CallOK, SameRun, IsLink
      <4>6. Foretold(k)'
        BY <1>0, <2>5, <4>1, <4>2 DEF Foretold, SameRun
      <4> QED BY <4>5, <4>6
    <3> QED BY <2>5, <3>1 DEF GoesOn
  <2> QED BY <2>1, <2>3, <2>4, <2>5
<1>3. CASE RealEnd(i)
  <2>1. PICK k : /\ Step(i, k) /\ fs' = fs
                 /\ \/ k = [j EXCEPT !.pass = "third", !.todo = Items(j.pkg, j.ver)]
                    \/ k = [j EXCEPT !.pc = "clearCurrent"]
    BY <1>3 DEF RealEnd
  <2>2. SameRun(j, k) /\ k.pc \in {"item", "clearCurrent"}
    BY <1>0, <1>1, <2>1 DEF Jobs, SameRun
  <2> /\ j.todo = {}
      /\ \/ k.pass = "third" /\ k.todo = Items(j.pkg, j.ver)
         \/ k.pass = j.pass /\ k.todo = {}
    <3>1. j.todo = {}
      BY <1>3 DEF RealEnd
    <3> QED BY <1>1, <2>1, <3>1 DEF Jobs
  <2>3. CallOK(k)'
    BY <2>2 DEF CallOK, SameRun
  <2>4. \A y : Due(k, y)' = Due(j, y) /\ (Skips(k, y)' <=> Skips(j, y))
    BY <2>1, <2>2, SameDue DEF Skips, Ignore, ConfigOf
  <2>5. Foretold(k)'
    BY <1>0, <2>1, <2>2, <2>4 DEF Foretold, SameRun
  <2> QED BY <2>1, <2>3, <2>5 DEF GoesOn
<1> QED BY <1>2, <1>3

\* A system call other than the first of two ends the work on an item.
LEMMA LastGoesOn ==
    ASSUME TypeOK, NEW i \in Procs, Active(i), CallOK(proc[i]), Foretold(proc[i]),
           proc[i].pc \in {"remove", "rmdir", "setOwner"},
           Step(i, Passed(proc[i], proc[i].at)),
           \A y \in Paths \ {proc[i].at} : fs'[y] = fs[y],
           proc[i].pc = "setOwner" => fs'[proc[i].at].kind = fs[proc[i].at].kind,
           proc[i].pc = "remove" => proc[i].act = "uninstall"
    PROVE  GoesOn(i)
<1> DEFINE j == proc[i]
<1>1. /\ j \in Jobs /\ j.at \in j.todo /\ j.todo \subseteq Items(j.pkg, j.ver) /\ j.pass # "dry"
      /\ j.todo \subseteq Paths
  BY DEF TypeOK, CallOK, Ready, Jobs
<1>2. ASSUME NEW k, k = Passed(j, j.at) PROVE CallOK(k)' /\ Foretold(k)'
  <2>1. k.pc = "item" /\ k.pass = j.pass /\ k.todo = j.todo \ {j.at} /\ SameRun(j, k)
    BY <1>1, <1>2 DEF Passed, Jobs, SameRun
  <2>2. \A y \in j.todo \ {j.at} : Due(k, y)' = Due(j, y)
    BY <1>1, <2>1, SameDue
  <2>3. \A y \in Items(j.pkg, j.ver) \ j.todo : IsDirectory(fs, y) => IsDirectory(fs', y)
    <3>1. \A y \in Items(j.pkg, j.ver) \ j.todo : fs'[y] = fs[y]
      BY <1>1 DEF Items
    <3> QED BY <3>1 DEF IsDirectory, IsDir, IsLink
  <2>4. Kind[j.pkg][j.ver][j.at] = "dir" /\ j.act = "install" => IsDirectory(fs', j.at)
    BY <1>1 DEF CallOK, IsDirectory, IsDir, Jobs, Acts
  <2> QED BY <1>1, <2>1, <2>2, <2>3, <2>4, PassedForetold
<1> QED BY <1>2 DEF GoesOn

\* The first of two system calls leaves the second one to do.
LEMMA FirstGoesOn ==
    ASSUME TypeOK, NEW i \in Procs, Active(i), CallOK(proc[i]), Foretold(proc[i]),
           proc[i].act = "install", NEW c,
           \/ proc[i].pc = "remove" /\ c = "symlink" /\ fs'[proc[i].at].kind = "none"
           \/ proc[i].pc = "symlink" /\ c = "setOwner" /\ fs'[proc[i].at].kind # "none"
           \/ proc[i].pc = "mkdir" /\ c = "setOwner" /\ IsDir(fs', proc[i].at),
           Step(i, [proc[i] EXCEPT !.pc = c]),
           \A y \in Paths \ {proc[i].at} :
              fs'[y] = fs[y] \/ (y \in Above[proc[i].at] /\ IsDir(fs', y))
    PROVE  GoesOn(i)
<1> DEFINE j == proc[i]
<1>1. /\ j \in Jobs /\ j.at \in j.todo /\ j.todo \subseteq Items(j.pkg, j.ver) /\ j.pass # "dry"
      /\ j.todo \subseteq Paths /\ j.at \in Ready(j) /\ ~Skips(j, j.at)
  BY DEF TypeOK, CallOK, Ready, Jobs
<1>2. ASSUME NEW k, k = [j EXCEPT !.pc = c] PROVE CallOK(k)' /\ Foretold(k)'
  <2>1. /\ k.pc = c /\ k.pass = j.pass /\ k.todo = j.todo /\ k.at = j.at /\ SameRun(j, k)
    BY <1>1, <1>2 DEF Jobs, SameRun
  <2>2. \A y \in j.todo \ {j.at} : Due(k, y)' = Due(j, y)
    <3>1. \A y \in j.todo \ {j.at} : fs'[y] = fs[y]
      BY <1>1 DEF Ready
    <3> QED BY <2>1, <3>1, SameDue
  <2>3. \A y \in Items(j.pkg, j.ver) \ j.todo : IsDirectory(fs, y) => IsDirectory(fs', y)
    <3>1. \A y \in Items(j.pkg, j.ver) \ j.todo : fs'[y] = fs[y] \/ IsDir(fs', y)
      BY <1>1 DEF Items
    <3> QED BY <3>1 DEF IsDirectory, IsDir, IsLink
  <2>4. (\A y : Skips(k, y)' <=> Skips(j, y)) /\ Ready(k)' = Ready(j)
    BY <2>1 DEF SameRun, Skips, Ignore, ConfigOf, Ready
  <2>5. CallOK(k)'
    <3>1. c = "symlink" => Kind[j.pkg][j.ver][j.at] \in {"link", "reg"}
      BY DEF CallOK
    <3>2. c = "setOwner" =>
             /\ fs'[j.at].kind # "none"
             /\ Kind[j.pkg][j.ver][j.at] = "dir" => IsDir(fs', j.at)
      BY DEF CallOK, IsDir
    <3> QED BY <1>1, <2>1, <2>4, <3>1, <3>2 DEF CallOK, SameRun
  <2>6. Foretold(k)'
    BY <1>1, <2>1, <2>2, <2>3, <2>4 DEF Foretold, SameRun
  <2> QED BY <2>5, <2>6
<1> QED BY <1>2 DEF GoesOn

LEMMA CallGoesOn ==
    ASSUME TypeOK, NEW i \in Procs, Active(i), CallOK(proc[i]), Foretold(proc[i]),
           Remove(i) \/ RemoveDirectory(i) \/ Symlink(i) \/ MakeDirectory(i) \/ SetOwner(i)
    PROVE  GoesOn(i)
<1> DEFINE j == proc[i]
           z == j.at
<1>1. j \in Jobs /\ z \in j.todo /\ z \in Paths /\ fs \in Trees /\ j.pass # "dry"
  BY DEF TypeOK, Jobs, CallOK, Ready, Remove, RemoveDirectory, Symlink, MakeDirectory, SetOwner
<1>2. CASE Raise(i, z)
  BY <1>1, <1>2, RaiseGoesOn
<1>3. CASE Remove(i) /\ ~Raise(i, z)
  <2>1. j.pc = "remove" /\ fs' = Removed(fs, z)
    BY <1>3 DEF Remove
  <2>2. fs'[z].kind = "none" /\ \A y \in Paths \ {z} : fs'[y] = fs[y]
    BY <1>1, <2>1 DEF Removed, Absent, Trees
  <2>3. CASE j.act = "install"
    BY <1>3, <2>1, <2>2, <2>3, FirstGoesOn DEF Remove
  <2>4. CASE j.act = "uninstall"
    BY <1>3, <2>1, <2>2, <2>4, LastGoesOn DEF Remove
  <2> QED BY <1>1, <2>3, <2>4 DEF Jobs, Acts
<1>4. CASE RemoveDirectory(i)
  BY <1>1, <1>4, LastGoesOn DEF RemoveDirectory, Removed, Trees
<1>5. CASE Symlink(i) /\ ~Raise(i, z)
  <2>1. j.pc = "symlink" /\ j.act = "install"
    BY <1>5 DEF Symlink, CallOK
  <2>2. fs'[z].kind = "link" /\ \A y \in Paths \ {z} : fs'[y] = fs[y]
    BY <1>1, <1>5 DEF Symlink, Symlinked, Link, Trees
  <2>3. Step(i, [j EXCEPT !.pc = "setOwner"])
    BY <1>5 DEF Symlink
  <2> QED BY <2>1, <2>2, <2>3, FirstGoesOn
<1>6. CASE MakeDirectory(i) /\ ~Raise(i, z)
  <2>1. j.pc = "mkdir" /\ j.act = "install"
    BY <1>6 DEF MakeDirectory, CallOK
  <2>2. /\ IsDir(fs', z)
        /\ \A y \in Paths \ {z} : fs'[y] = fs[y] \/ (y \in Above[z] /\ IsDir(fs', y))
    BY <1>1, <1>6 DEF MakeDirectory, MadeDirs, Missing, Dir, IsDir, CanMakeDirs
  <2>3. Step(i, [j EXCEPT !.pc = "setOwner"])
    BY <1>6 DEF MakeDirectory
  <2> QED BY <2>1, <2>2, <2>3, FirstGoesOn
<1>7. CASE SetOwner(i) /\ ~Raise(i, z)
  <2>1. j.pc = "setOwner" /\ fs' = OwnerSet(fs, j.pkg, z) /\ Step(i, Passed(j, z))
    BY <1>7 DEF SetOwner
  <2>2. fs'[z].kind = fs[z].kind /\ \A y \in Paths \ {z} : fs'[y] = fs[y]
    BY <1>1, <2>1 DEF OwnerSet, Trees, Node
  <2> QED BY <2>1, <2>2, LastGoesOn
<1> QED BY <1>2, <1>3, <1>4, <1>5, <1>6, <1>7

LEMMA EndGoesOn ==
    ASSUME TypeOK, NEW i \in Procs, Active(i), CallOK(proc[i]), Foretold(proc[i]),
           DryStop(i) \/ ClearCurrent(i) \/ SetCurrent(i) \/ Crash(i)
    PROVE  GoesOn(i)
<1> DEFINE j == proc[i]
<1>1. j \in Jobs
  BY DEF TypeOK
<1>2. CASE DryStop(i) \/ SetCurrent(i) \/ Crash(i)
  BY <1>2, StopGoesOn DEF DryStop, SetCurrent, Crash
<1>3. CASE ClearCurrent(i)
  <2>1. CASE Step(i, IdleJob)
    BY <2>1, StopGoesOn
  <2>2. CASE Step(i, NewJob("install", j.pkg, j.next, NoVersion, j.as, j.flags))
    BY <2>2, NewGoesOn
  <2>3. CASE Step(i, [j EXCEPT !.pc = "setCurrent"])
    <3>1. ASSUME NEW k, k = [j EXCEPT !.pc = "setCurrent"] PROVE CallOK(k)' /\ Foretold(k)'
      <4>1. /\ k.pc = "setCurrent" /\ k.pass = j.pass /\ k.todo = j.todo /\ k.err = j.err
            /\ k.at = j.at /\ SameRun(j, k)
        BY <1>1, <3>1 DEF Jobs, SameRun
      <4>2. fs' = fs /\ j.pc = "clearCurrent"
        BY <1>3 DEF ClearCurrent
      <4>3. \A y : Due(k, y)' = Due(j, y) /\ (Skips(k, y)' <=> Skips(j, y))
        BY <4>1, <4>2, SameDue DEF Skips, Ignore, ConfigOf
      <4>4. CallOK(k)'
        BY <4>1 DEF CallOK, SameRun
      <4>5. Foretold(k)'
        BY <4>1, <4>2, <4>3 DEF Foretold, SameRun
      <4> QED BY <4>4, <4>5
    <3> QED BY <2>3, <3>1 DEF GoesOn
  <2> QED BY <1>3, <2>1, <2>2, <2>3 DEF ClearCurrent
<1> QED BY <1>2, <1>3

LEMMA DryStep == ASSUME RunsAlone, Plain, DryInv, [Next]_vars PROVE DryInv'
<1>1. CASE UNCHANGED vars
  <2>1. ASSUME NEW k, CallOK(k), Foretold(k) PROVE CallOK(k)' /\ Foretold(k)'
    <3>1. \A y : Due(k, y)' = Due(k, y)
      BY <1>1, SameDue DEF SameRun, vars
    <3> QED BY <1>1, <2>1, <3>1 DEF vars, CallOK, Foretold, Ready, Skips, Ignore, ConfigOf
  <2>2. TypeOK' /\ WellFormed(fs)' /\ DirsClear(fs')
    BY <1>1, TypeInductive, TreeStep DEF vars, DryInv
  <2>3. ASSUME NEW i \in Procs, Active(i)' PROVE (CallOK(proc[i]) /\ Foretold(proc[i]))'
    <3>1. PICK k : k = proc[i]
      OBVIOUS
    <3>2. CallOK(k) /\ Foretold(k) /\ proc'[i] = k
      BY <1>1, <2>3, <3>1 DEF vars, DryInv, Active
    <3>3. CallOK(k)' /\ Foretold(k)'
      BY <2>1, <3>2
    <3> QED BY <3>2, <3>3 DEF CallOK, Foretold
  <2> QED BY <2>2, <2>3 DEF DryInv
<1>2. ASSUME NEW i \in Procs, Command(i) PROVE DryInv'
  <2>1. fs' = fs /\ GoesOn(i)
    BY <1>2, NewGoesOn DEF Command, Install, Uninstall
  <2> QED BY <2>1, DryFrame DEF GoesOn, DryInv
<1>3. ASSUME NEW i \in Procs, Work(i) \/ Crash(i) PROVE DryInv'
  <2>1. Active(i)
    BY <1>3
       DEF Active, Work, DryItem, DryStop, DryEnd, RealItem, RealEnd, Remove, Symlink, SetOwner,
           MakeDirectory, RemoveDirectory, ClearCurrent, SetCurrent, Crash
  <2>2. TypeOK /\ DirsClear(fs) /\ CallOK(proc[i]) /\ Foretold(proc[i])
    BY <2>1 DEF DryInv
  <2>3. DirsClear(fs')
    BY <1>3, <2>1, <2>2, ClearTree DEF Plain
  <2>4. GoesOn(i)
    BY <1>3, <2>1, <2>2, DryGoesOn, ItemGoesOn, CallGoesOn, EndGoesOn DEF Work
  <2> QED BY <2>3, <2>4, DryFrame DEF GoesOn
<1> QED BY <1>1, <1>2, <1>3 DEF Next

\* The directories above an item of a run that is due are there.
LEMMA DueReachable ==
    ASSUME Plain, DryInv, NEW j \in Jobs, CallOK(j), Foretold(j), j.pass = "real",
           "ignoreErrors" \notin j.flags, j.pc \in {"symlink", "mkdir"}
    PROVE  Reachable(fs, j.at)
<1>1. /\ j.pkg \in Packages /\ j.ver \in Versions /\ j.act = "install" /\ j.at \in Items(j.pkg, j.ver)
      /\ ~Skips(j, j.at) /\ Above[j.at] \cap j.todo = {}
  BY DEF Jobs, CallOK, Ready
<1>2. ASSUME NEW y \in Above[j.at], y # Top PROVE IsDir(fs, y)
  <2>1. y \in Paths /\ y \in Items(j.pkg, j.ver) /\ Kind[j.pkg][j.ver][y] = "dir"
    BY <1>1, <1>2, PathsAssumption DEF Plain, StoreTrees, Items
  <2>2. ~Skips(j, y)
    BY <1>1, <2>1 DEF Plain, IgnoredBelow, Skips, Ignore, ConfigOf, Jobs, Items
  <2>3. IsDirectory(fs, y)
    BY <1>1, <1>2, <2>1, <2>2 DEF Foretold
  <2> QED BY <1>1, <1>2, <2>1, <2>3 DEF DryInv, DirsClear, IsDirectory
<1>3. IsDir(fs, Top)
  BY DEF DryInv, WellFormed
<1> QED BY <1>2, <1>3 DEF Reachable

LEMMA ForetoldPredicts == ASSUME RunsAlone, Plain, DryInv PROVE DryRunPredicts
<1> SUFFICES ASSUME NEW i \in Procs, proc[i].as = RootUser, proc[i].pass = "real",
                    "ignoreErrors" \notin proc[i].flags, Active(i)
             PROVE  /\ proc[i].pc = "item" =>
                         \A x \in Ready(proc[i]) : Due(proc[i], x) # "error"
                    /\ proc[i].pc = "remove" => CanRemove(fs, RootUser, proc[i].at)
                    /\ proc[i].pc = "symlink" => CanSymlink(fs, RootUser, proc[i].at)
                    /\ proc[i].pc = "mkdir" => CanMakeDirs(fs, RootUser, proc[i].at)
                    /\ proc[i].pc = "setOwner" =>
                         CanSetOwner(fs, RootUser, proc[i].pkg, proc[i].at)
  BY DEF DryRunPredicts, Active
<1> DEFINE j == proc[i]
<1>1. j \in Jobs /\ CallOK(j) /\ Foretold(j) /\ WellFormed(fs) /\ j.at \in Paths
  BY DEF DryInv, TypeOK, Jobs
<1>2. j.pc = "item" => \A x \in Ready(j) : Due(j, x) # "error"
  BY <1>1 DEF Foretold, Ready
<1>3. ASSUME j.pc = "remove" PROVE CanRemove(fs, RootUser, j.at)
  <2>1. IsLink(fs, j.at)
    BY <1>1, <1>3 DEF CallOK
  <2>2. j.at # Top /\ IsEmpty(fs, j.at)
    BY <1>1, <2>1 DEF WellFormed, Reachable, IsDir, IsLink, IsEmpty
  <2> QED BY <2>2 DEF CanRemove, MayRemove
<1>4. ASSUME j.pc \in {"symlink", "mkdir"}
      PROVE  CanSymlink(fs, RootUser, j.at) /\ CanMakeDirs(fs, RootUser, j.at)
  <2>1. fs[j.at].kind = "none"
    BY <1>1, <1>4 DEF CallOK
  <2>2. Reachable(fs, j.at)
    BY <1>1, <1>4, DueReachable
  <2> QED BY <2>1, <2>2 DEF CanSymlink, CanMakeDirs, MayAdd, Reachable
<1>5. j.pc = "setOwner" => CanSetOwner(fs, RootUser, j.pkg, j.at)
  BY <1>1 DEF CallOK, CanSetOwner
<1> QED BY <1>2, <1>3, <1>4, <1>5

LEMMA DryInit == Plain /\ Init => DryInv
BY TypeInit, IdleJobType, InitialTreesAssumption DEF Plain, Init, DryInv, Active

\* When one process at a time runs tpkgs, on versions that are trees, with a
\* configuration that ignores no directory without what is in it, on a system
\* whose links take the place of no directory of a version (a dangling link, or a
\* link to a directory with items below it), and no path is a directory in one
\* version and a link or file in another, what the dry run of InstallItem::exec
\* found possible the real pass of pexecI or pexecU does for root.
THEOREM DryRunForetells ==
    ASSUME RunsAlone, Plain PROVE Spec => []DryRunPredicts
<1>1. Init => DryInv
  BY DryInit
<1>2. DryInv /\ [Next]_vars => DryInv'
  BY DryStep
<1>3. DryInv => DryRunPredicts
  BY ForetoldPredicts
<1> QED BY <1>1, <1>2, <1>3, PTL DEF Spec
=============================================================================
