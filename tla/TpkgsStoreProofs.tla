-------------------------- MODULE TpkgsStoreProofs --------------------------
(***************************************************************************)
(* Proof that Tpkgs implements PkgStore. Every step of a process maps to   *)
(* one step of PkgStore or to none; that a run only unlinks versions of    *)
(* its own package needs to know, beyond the two invariants proved before, *)
(* who owns the links into a version.                                      *)
(***************************************************************************)
EXTENDS TpkgsOrphanProofs, TpkgsForeignProofs, TpkgsStore

-----------------------------------------------------------------------------
(* Who owns the links                                                        *)

\* What a step of process i may do to the link at path x.
Relink(i, x) ==
    \/ fs'[x].to = fs[x].to /\ fs'[x].owner = fs[x].owner
    \/ fs'[x].to = NoText
    \/ /\ fs[x].kind = "none" /\ IsFile(x)
       /\ fs'[x].to \in StoreFiles =>
            fs'[x].to[1] = proc[i].pkg /\ fs'[x].owner \in {proc[i].pkg, RootUser}
    \/ /\ fs'[x].to = fs[x].to /\ proc[i].pc = "setOwner" /\ proc[i].at = x
       /\ fs'[x].owner = proc[i].pkg

\* Another process about to own a link is not there when a new one is made.
LEMMA NewLinkUnclaimed ==
    ASSUME NoKindClash, ForeignInv, NEW m \in Procs, proc[m].pc = "setOwner",
           fs[proc[m].at].kind = "none"
    PROVE  ~IsFile(proc[m].at)
<1>1. /\ proc[m].pkg \in Packages /\ proc[m].ver \in Versions /\ proc[m].at \in Paths
      /\ HoldsNode(proc[m], fs)
  BY DEF ForeignInv, TypeOK, Jobs, NodesHeld, Active
<1> QED BY <1>1, DirIsNoFile DEF HoldsNode, IsLink

LEMMA OwnerFrame ==
    ASSUME NoKindClash, OwnerInv, ForeignInv', LinksOK', NEW i \in Procs, NEW k \in Jobs,
           Step(i, k), MoveOK(i, k), \A x \in Paths : Relink(i, x)
    PROVE  OwnerInv'
<1>1. proc'[i] = k /\ \A m \in Procs \ {i} : proc'[m] = proc[m]
  BY DEF OwnerInv, ForeignInv, TypeOK, Step
<1>2. NoText \notin StoreFiles
  BY TextsAssumption DEF Contents
<1>3. LinksOwned'
  BY <1>2 DEF Relink, OwnerInv, LinksOwned, ClaimsOwn
<1>4. ASSUME k.pc = "setOwner", fs'[k.at].to \in StoreFiles
      PROVE  fs'[k.at].to[1] = k.pkg
  <2>1. k.at \in Paths
    BY DEF Jobs
  <2>2. IsLink(fs', k.at)
    BY <1>4, <2>1 DEF LinksOK, LinkOK, IsLink
  <2>3. fs[k.at].to \notin StoreFiles /\ k.pkg = proc[i].pkg
    BY <1>4, <2>1, <2>2 DEF MoveOK, OwnerInv, LinksOK, LinkOK
  <2> QED BY <1>2, <1>4, <2>1, <2>3 DEF Relink
<1>5. ASSUME NEW m \in Procs \ {i}, proc[m].pc = "setOwner", fs'[proc[m].at].to \in StoreFiles
      PROVE  fs'[proc[m].at].to[1] = proc[m].pkg
  <2>1. proc[m].at \in Paths
    BY DEF OwnerInv, ForeignInv, TypeOK, Jobs
  <2>2. ~(fs[proc[m].at].kind = "none" /\ IsFile(proc[m].at))
    BY <1>5, NewLinkUnclaimed DEF OwnerInv
  <2> QED BY <1>2, <1>5, <2>1, <2>2 DEF Relink, OwnerInv, ClaimsOwn
<1>6. ClaimsOwn'
  BY <1>1, <1>4, <1>5 DEF ClaimsOwn
<1> QED BY <1>3, <1>6 DEF OwnerInv

\* The nodes of the tree after the calls.
LEMMA NodesAfter ==
    ASSUME NEW t \in Trees, NEW z \in Paths, NEW u, NEW c
    PROVE  /\ Removed(t, z)[z].to = NoText
           /\ \A x \in Paths \ {z} : Removed(t, z)[x] = t[x]
           /\ Symlinked(t, u, z, c)[z] = Link(u, c)
           /\ \A x \in Paths \ {z} : Symlinked(t, u, z, c)[x] = t[x]
           /\ \A x \in Paths : MadeDirs(t, u, z)[x] = t[x] \/ MadeDirs(t, u, z)[x].to = NoText
BY DEF Removed, Symlinked, MadeDirs, Absent, Dir, Link, Trees

LEMMA OwnersAfter ==
    ASSUME NEW t \in Trees, NEW z \in Paths, NEW u
    PROVE  /\ OwnerSet(t, u, z)[z].owner = u
           /\ \A x \in Paths : OwnerSet(t, u, z)[x].to = t[x].to
           /\ \A x \in Paths \ {z} : OwnerSet(t, u, z)[x] = t[x]
BY DEF OwnerSet, Trees, Node

\* Every step of a run is such a step.
LEMMA Relinks ==
    ASSUME ForeignInv, NEW i \in Procs, Active(i), Work(i) \/ Crash(i)
    PROVE  \A x \in Paths : Relink(i, x)
<1> DEFINE j == proc[i]
           z == proc[i].at
<1>1. /\ j \in Jobs /\ z \in Paths /\ fs \in Trees /\ j.pkg \in Packages
      /\ j.ver \in Versions /\ HoldsNode(j, fs)
  BY Holding
<1>2. CASE fs' = fs
  BY <1>2 DEF Relink
<1>3. CASE fs' = Removed(fs, z)
  BY <1>1, <1>3, NodesAfter DEF Relink
<1>4. CASE fs' = MadeDirs(fs, j.as, z)
  <2>1. \A x \in Paths : fs'[x] = fs[x] \/ fs'[x].to = NoText
    BY <1>1, <1>4, NodesAfter
  <2> QED BY <2>1 DEF Relink
<1>5. CASE j.pc = "setOwner" /\ fs' = OwnerSet(fs, j.pkg, z)
  <2>1. /\ OwnerSet(fs, j.pkg, z)[z].owner = j.pkg
        /\ \A x \in Paths : OwnerSet(fs, j.pkg, z)[x].to = fs[x].to
        /\ \A x \in Paths \ {z} : OwnerSet(fs, j.pkg, z)[x] = fs[x]
    BY <1>1, OwnersAfter
  <2> QED BY <1>5, <2>1 DEF Relink
<1>6. CASE /\ j.pc = "symlink" /\ CanSymlink(fs, j.as, z)
           /\ fs' = Symlinked(fs, j.as, z, LinkContent(j.pkg, j.ver, z))
  <2>1. fs[z].kind = "none" /\ IsFile(z) /\ j.as \in {j.pkg, RootUser}
    BY <1>1, <1>6 DEF HoldsNode, IsFile, CanSymlink
  <2>2. /\ fs'[z] = Link(j.as, LinkContent(j.pkg, j.ver, z))
        /\ \A x \in Paths \ {z} : fs'[x] = fs[x]
    BY <1>1, <1>6, NodesAfter
  <2>3. LinkContent(j.pkg, j.ver, z) \in StoreFiles => LinkContent(j.pkg, j.ver, z)[1] = j.pkg
    BY <1>1, StoreAssumption, TextsAssumption DEF LinkContent
  <2> QED BY <2>1, <2>2, <2>3 DEF Relink, Link
<1>7. \A x : Raise(i, x) => fs' = fs
  BY DEF Raise
<1>8. DryItem(i) \/ DryStop(i) \/ DryEnd(i) \/ RealItem(i) \/ RealEnd(i) \/ ClearCurrent(i)
      \/ SetCurrent(i) \/ Crash(i) => fs' = fs
  BY <1>7 DEF DryItem, DryStop, DryEnd, RealItem, RealEnd, ClearCurrent, SetCurrent, Crash
<1>9. CASE Remove(i) \/ RemoveDirectory(i)
  BY <1>2, <1>3, <1>7, <1>9 DEF Remove, RemoveDirectory
<1>10. CASE Symlink(i) \/ MakeDirectory(i) \/ SetOwner(i)
  BY <1>2, <1>4, <1>5, <1>6, <1>7, <1>10 DEF Symlink, MakeDirectory, SetOwner
<1> QED BY <1>2, <1>8, <1>9, <1>10 DEF Work

LEMMA OwnerStep ==
    ASSUME Considerate, OwnerInv, LinksOK', [Next]_vars
    PROVE  OwnerInv'
<1>1. ForeignInv' /\ TypeOK'
  BY ForeignStep DEF OwnerInv, ForeignInv
<1>2. CASE UNCHANGED vars
  BY <1>1, <1>2 DEF vars, OwnerInv, LinksOwned, ClaimsOwn
<1>3. CASE Next
  <2> PICK i \in Procs : Command(i) \/ Work(i) \/ Crash(i)
    BY <1>3 DEF Next
  <2>1. CASE Command(i)
    <3>1. fs' = fs
      BY <1>1, <2>1, ForeignCommand DEF OwnerInv
    <3>2. \A m \in Procs : proc'[m].pc = "setOwner" => proc'[m] = proc[m]
      BY <2>1 DEF Command, Install, Uninstall, Step, NewJob, OwnerInv, ForeignInv, TypeOK
    <3> QED BY <1>1, <3>1, <3>2 DEF OwnerInv, LinksOwned, ClaimsOwn
  <2>2. CASE Work(i) \/ Crash(i)
    <3>1. Active(i) /\ \E k \in Jobs : Step(i, k) /\ MoveOK(i, k)
      BY <2>2, QuietSteps, CallSteps DEF Work, OwnerInv
    <3>2. \A x \in Paths : Relink(i, x)
      BY <2>2, <3>1, Relinks DEF OwnerInv
    <3> QED BY <1>1, <3>1, <3>2, OwnerFrame DEF Considerate
  <2> QED BY <2>1, <2>2
<1> QED BY <1>2, <1>3

-----------------------------------------------------------------------------
(* What PkgStore sees of a step                                              *)

Unseen == UNCHANGED <<current, Linked, Unsettled>>

LEMMA SeenTypes ==
    /\ Linked \in [Packages -> SUBSET Versions]
    /\ Unsettled \in [Packages -> SUBSET Versions]
BY DEF Linked, Unsettled

LEMMA SeenTypesNext ==
    /\ Linked' \in [Packages -> SUBSET Versions]
    /\ Unsettled' \in [Packages -> SUBSET Versions]
BY DEF Linked, Unsettled

LEMMA SameLinks ==
    ASSUME \A x \in Paths :
              \/ fs'[x].to = fs[x].to
              \/ fs'[x].to \notin StoreFiles /\ fs[x].to \notin StoreFiles
    PROVE  Linked' = Linked
<1>1. \A x \in Paths : \A q, w :
        (fs'[x].to \in StoreFiles /\ fs'[x].to[1] = q /\ fs'[x].to[2] = w)
        <=> (fs[x].to \in StoreFiles /\ fs[x].to[1] = q /\ fs[x].to[2] = w)
  OBVIOUS
<1>2. \A q \in Packages :
        {w \in Versions : \E x \in Paths :
            fs'[x].to \in StoreFiles /\ fs'[x].to[1] = q /\ fs'[x].to[2] = w}
        = {w \in Versions : \E x \in Paths :
            fs[x].to \in StoreFiles /\ fs[x].to[1] = q /\ fs[x].to[2] = w}
  BY <1>1
<1> QED BY <1>2 DEF Linked

\* What is unsettled of the package a process works on, before and after its
\* step; of the other packages nothing changes.
LEMMA MyUnsettled ==
    ASSUME TypeOK, Exclusive, NEW i \in Procs, Active(i), NEW k, Step(i, k),
           NEW p, p = proc[i].pkg, k.pc # "idle" => k.pkg = p,
           \A q \in Packages \ {p} : torn'[q] = torn[q]
    PROVE  /\ \A w \in Versions : w \in Unsettled[p] <=>
                 w \in torn[p] \/ (proc[i].ver = w /\ proc[i].pass # "dry")
           /\ \A w \in Versions : w \in Unsettled'[p] <=>
                 w \in torn'[p] \/ (k.pc # "idle" /\ k.ver = w /\ k.pass # "dry")
           /\ \A q \in Packages \ {p} : Unsettled'[q] = Unsettled[q]
<1>1. proc'[i] = k /\ \A m \in Procs \ {i} : proc'[m] = proc[m]
  BY DEF TypeOK, Step
<1>2. \A m \in Procs \ {i} : Active(m) => proc[m].pkg # p
  BY DEF Exclusive
<1>3. p \in Packages
  BY DEF TypeOK, Jobs
<1>4. \A w \in Versions :
        Writing(p, w) <=> proc[i].ver = w /\ proc[i].pass # "dry"
  BY <1>2 DEF Writing
<1>5. \A w \in Versions :
        Writing(p, w)' <=> k.pc # "idle" /\ k.ver = w /\ k.pass # "dry"
  BY <1>1, <1>2 DEF Writing, Active
<1>6. \A q \in Packages \ {p}, w \in Versions : Writing(q, w)' <=> Writing(q, w)
  BY <1>1 DEF Writing, Active
<1> QED BY <1>3, <1>4, <1>5, <1>6 DEF Unsettled

\* The process stays in its version, neither beginning nor ending to change the
\* system.
LEMMA StaysUnsettled ==
    ASSUME OrphanInv, NEW i \in Procs, Active(i), NEW k, Step(i, k), torn' = torn,
           \/ /\ k.pc # "idle" /\ k.pkg = proc[i].pkg /\ k.ver = proc[i].ver
              /\ k.pass = "dry" <=> proc[i].pass = "dry"
           \/ k.pc = "idle" /\ proc[i].pass = "dry"
    PROVE  Unsettled' = Unsettled
<1> DEFINE p == proc[i].pkg
<1>1. p \in Packages
  BY DEF OrphanInv, TypeOK, Jobs
<1>2. /\ \A w \in Versions : w \in Unsettled'[p] <=> w \in Unsettled[p]
      /\ \A q \in Packages \ {p} : Unsettled'[q] = Unsettled[q]
  BY MyUnsettled DEF OrphanInv
<1>3. Unsettled'[p] = Unsettled[p]
  BY <1>1, <1>2, SeenTypes, SeenTypesNext
<1> QED BY <1>1, <1>2, <1>3, SeenTypes, SeenTypesNext

\* The process is stopped while it changes the system: its version is torn.
LEMMA StopsUnsettled ==
    ASSUME OrphanInv, NEW i \in Procs, Active(i), Step(i, IdleJob), MarkTorn(proc[i]),
           proc[i].pass # "dry"
    PROVE  Unsettled' = Unsettled
<1> DEFINE p == proc[i].pkg
<1>1. p \in Packages /\ proc[i].ver \in Versions
  BY DEF OrphanInv, TypeOK, Jobs
<1>2. torn'[p] = torn[p] \cup {proc[i].ver} /\ \A q \in Packages \ {p} : torn'[q] = torn[q]
  BY <1>1 DEF MarkTorn, OrphanInv, TypeOK
<1>3. /\ \A w \in Versions : w \in Unsettled'[p] <=> w \in Unsettled[p]
      /\ \A q \in Packages \ {p} : Unsettled'[q] = Unsettled[q]
  BY <1>1, <1>2, MyUnsettled, IdleJobType DEF OrphanInv
<1>4. Unsettled'[p] = Unsettled[p]
  BY <1>1, <1>3, SeenTypes, SeenTypesNext
<1> QED BY <1>3, <1>4, SeenTypes, SeenTypesNext

LEMMA RaiseUnseen ==
    ASSUME OrphanInv, NEW i \in Procs, Active(i), proc[i].pass # "dry", NEW x \in Paths,
           Raise(i, x)
    PROVE  Unseen
<1> DEFINE j == proc[i]
<1>1. j \in Jobs
  BY DEF OrphanInv, TypeOK
<1>2. Linked' = Linked
  BY SameLinks DEF Raise
<1>3. CASE Step(i, IdleJob) /\ MarkTorn(j)
  BY <1>2, <1>3, StopsUnsettled DEF Raise, Unseen
<1>4. CASE /\ Step(i, [Passed(j, x) EXCEPT !.bad = @ \/ j.pass = "real"])
           /\ UNCHANGED torn
  <2> DEFINE b == Passed(j, x).bad \/ j.pass = "real"
             k == [Passed(j, x) EXCEPT !.bad = b]
  <2>1. Step(i, k)
    BY <1>4
  <2>2. k.pc = "item" /\ k.pkg = j.pkg /\ k.ver = j.ver /\ k.pass = j.pass
    BY <1>1 DEF Passed, Jobs
  <2> HIDE DEF k
  <2> QED BY <1>2, <1>4, <2>1, <2>2, StaysUnsettled DEF Raise, Unseen
<1> QED BY <1>3, <1>4 DEF Raise

-----------------------------------------------------------------------------
(* Every step is one of PkgStore or none                                     *)

Seen == Store!Next \/ Unseen

LEMMA CommandUnseen ==
    ASSUME OrphanInv, NEW i \in Procs, Command(i)
    PROVE  Unseen
<1>1. /\ ~Active(i) /\ UNCHANGED <<fs, current, torn>>
      /\ \E a, p, w, n, u, f : Step(i, NewJob(a, p, w, n, u, f))
  BY DEF Command, Install, Uninstall
<1>2. PICK k : Step(i, k) /\ k.pass = "dry"
  <2>1. \A a, p, w, n, u, f : NewJob(a, p, w, n, u, f).pass = "dry"
    BY DEF NewJob
  <2> QED BY <1>1, <2>1
<1>3. proc'[i] = k /\ \A m \in Procs \ {i} : proc'[m] = proc[m]
  BY <1>2 DEF OrphanInv, TypeOK, Step
<1>4. \A q \in Packages, w \in Versions : Writing(q, w)' <=> Writing(q, w)
  BY <1>1, <1>2, <1>3 DEF Writing, Active
<1>5. Linked' = Linked
  BY <1>1, SameLinks
<1>6. \A q \in Packages : Unsettled'[q] = Unsettled[q]
  BY <1>1, <1>4 DEF Unsettled
<1> QED BY <1>1, <1>5, <1>6, SeenTypes, SeenTypesNext DEF Unseen

\* The dry run changes nothing that PkgStore sees; after it the run begins.
LEMMA DrySeen ==
    ASSUME OrphanInv, NEW i \in Procs, DryItem(i) \/ DryStop(i) \/ DryEnd(i)
    PROVE  Seen
<1> DEFINE j == proc[i]
           p == j.pkg
           v == j.ver
<1>0. Active(i) /\ j.pass = "dry" /\ j.pc = "item" /\ UNCHANGED <<fs, current, torn>>
  BY DEF DryItem, DryStop, DryEnd, Active
<1>1. j \in Jobs /\ p \in Packages /\ v \in Versions
  BY DEF OrphanInv, TypeOK, Jobs
<1>2. Linked' = Linked
  BY <1>0, SameLinks
<1>3. CASE DryItem(i)
  <2>1. PICK x \in Ready(j) :
           Step(i, [Passed(j, x) EXCEPT !.err = @ \/ Due(j, x) = "error"])
    BY <1>3 DEF DryItem
  <2> DEFINE b == Passed(j, x).err \/ Due(j, x) = "error"
             k == [Passed(j, x) EXCEPT !.err = b]
  <2>2. Step(i, k)
    BY <2>1
  <2>3. k.pc = "item" /\ k.pkg = p /\ k.ver = v /\ k.pass = "dry"
    BY <1>0, <1>1 DEF Passed, Jobs
  <2> HIDE DEF k
  <2> QED BY <1>0, <1>2, <2>2, <2>3, StaysUnsettled DEF Unseen, Seen
<1>4. CASE DryStop(i)
  BY <1>0, <1>2, <1>4, StaysUnsettled, IdleJobType DEF DryStop, Unseen, Seen
<1>5. CASE DryEnd(i)
  <2> DEFINE k == [j EXCEPT !.pass = "real", !.todo = Items(p, v)]
  <2>1. Step(i, k)
    BY <1>5 DEF DryEnd
  <2>2. k.pc = "item" /\ k.pkg = p /\ k.ver = v /\ k.pass = "real"
    BY <1>0, <1>1 DEF Jobs
  <2> HIDE DEF k
  <2>3. /\ \A w \in Versions : w \in Unsettled'[p] <=> w \in Unsettled[p] \cup {v}
        /\ \A q \in Packages \ {p} : Unsettled'[q] = Unsettled[q]
    BY <1>0, <2>1, <2>2, MyUnsettled DEF OrphanInv
  <2>4. Unsettled'[p] = Unsettled[p] \cup {v}
    BY <1>1, <2>3, SeenTypes, SeenTypesNext
  <2>5. Unsettled' = [Unsettled EXCEPT ![p] = @ \cup {v}]
    BY <2>3, <2>4, SeenTypes, SeenTypesNext
  <2>6. Store!Begin(p, v)
    BY <1>0, <1>2, <2>5 DEF Store!Begin
  <2> QED BY <1>1, <2>6 DEF Store!Next, Seen
<1> QED BY <1>3, <1>4, <1>5

\* Steps from one item to the next or from one pass to the next.
LEMMA ItemSeen ==
    ASSUME OrphanInv, NEW i \in Procs, RealItem(i) \/ RealEnd(i)
    PROVE  Seen
<1> DEFINE j == proc[i]
<1>0. Active(i) /\ j.pass # "dry" /\ j.pc = "item"
  BY DEF RealItem, RealEnd, Active
<1>1. j \in Jobs /\ JobOK(j, current)
  BY <1>0 DEF OrphanInv, TypeOK, JobsOK
<1>2. ASSUME NEW k, Step(i, k), UNCHANGED <<fs, current, torn>>, k.pc # "idle",
             k.pkg = j.pkg, k.ver = j.ver, k.pass # "dry"
      PROVE  Seen
  BY <1>0, <1>2, SameLinks, StaysUnsettled DEF Unseen, Seen
<1>3. CASE RealItem(i)
  <2>1. PICK x \in Ready(j) :
           \/ Step(i, Passed(j, x)) /\ UNCHANGED <<fs, current, torn>>
           \/ Raise(i, x)
           \/ /\ Due(j, x) \in {"remove", "symlink", "mkdir", "rmdir"}
              /\ Step(i, [j EXCEPT !.pc = Due(j, x), !.at = x])
              /\ UNCHANGED <<fs, current, torn>>
    BY <1>3 DEF RealItem
  <2>2. x \in Paths
    BY <1>1 DEF Ready, Jobs
  <2>3. /\ Passed(j, x).pc = "item" /\ Passed(j, x).pkg = j.pkg
        /\ Passed(j, x).ver = j.ver /\ Passed(j, x).pass = j.pass
    BY <1>1 DEF Passed, Jobs
  <2>4. CASE Raise(i, x)
    BY <1>0, <2>2, <2>4, RaiseUnseen DEF Seen
  <2>5. CASE /\ Due(j, x) \in {"remove", "symlink", "mkdir", "rmdir"}
             /\ Step(i, [j EXCEPT !.pc = Due(j, x), !.at = x])
             /\ UNCHANGED <<fs, current, torn>>
    <3> DEFINE k == [j EXCEPT !.pc = Due(j, x), !.at = x]
    <3>1. k.pc # "idle" /\ k.pkg = j.pkg /\ k.ver = j.ver /\ k.pass = j.pass
      BY <1>1, <2>5 DEF Jobs
    <3>2. Step(i, k)
      BY <2>5
    <3> HIDE DEF k
    <3> QED BY <1>0, <1>2, <2>5, <3>1, <3>2
  <2> QED BY <1>0, <1>2, <2>1, <2>3, <2>4, <2>5
<1>4. CASE RealEnd(i)
  <2>1. PICK k : /\ Step(i, k)
                 /\ \/ k = [j EXCEPT !.pass = "third", !.todo = Items(j.pkg, j.ver)]
                    \/ k = [j EXCEPT !.pc = "clearCurrent"]
    BY <1>4 DEF RealEnd
  <2>2. k.pc # "idle" /\ k.pkg = j.pkg /\ k.ver = j.ver /\ k.pass # "dry"
    BY <1>0, <1>1, <2>1 DEF Jobs
  <2> QED BY <1>2, <1>4, <2>1, <2>2 DEF RealEnd
<1> QED BY <1>3, <1>4

\* The links of the version a call removes are of a version that is unsettled.
LEMMA RemovedUnsettled ==
    ASSUME OrphanInv, NeverForeign => OwnerInv, NEW i \in Procs,
           proc[i].pc \in {"remove", "rmdir"}, NEW z, z = proc[i].at, fs[z].to \in StoreFiles
    PROVE  fs[z].to[2] \in Unsettled[fs[z].to[1]] \/ ~NeverForeign
<1> DEFINE j == proc[i]
<1>1. /\ Active(i) /\ j \in Jobs /\ JobOK(j, current) /\ z \in Paths
      /\ j.ver \in Versions /\ j.pkg \in Packages
  BY DEF OrphanInv, TypeOK, JobsOK, Active, Jobs
<1>2. fs[z].to[1] \in Packages /\ fs[z].to[2] \in Versions /\ fs[z].kind = "link"
  BY <1>1 DEF StoreFiles, OrphanInv, LinksOK, LinkOK
<1>3. SUFFICES ASSUME NeverForeign, current[fs[z].to[1]] = fs[z].to[2]
               PROVE  Writing(fs[z].to[1], fs[z].to[2])
  BY <1>1, <1>2 DEF Unsettled, OrphanInv, AllAccounted
<1>4. fs[z].owner = j.pkg
  BY <1>1, <1>2, <1>3 DEF OwnerInv, ForeignInv, NodesHeld, HoldsNode, IsLink
<1>5. fs[z].to[1] = j.pkg
  BY <1>1, <1>3, <1>4, NamesAssumption DEF OwnerInv, LinksOwned
<1>6. j.act = "uninstall"
  BY <1>1, <1>2, <1>3, <1>5, VersionsAssumption DEF JobOK, Jobs, Acts
<1>7. j.ver = fs[z].to[2] /\ j.pass # "dry"
  BY <1>1, <1>3, <1>5, <1>6 DEF JobOK
<1> QED BY <1>1, <1>5, <1>7 DEF Writing

\* To remove one link is to unlink its version or nothing that PkgStore sees.
LEMMA RemovedSeen ==
    ASSUME OrphanInv, NeverForeign => OwnerInv, NEW i \in Procs,
           proc[i].pc \in {"remove", "rmdir"}, fs' = Removed(fs, proc[i].at),
           current' = current, Unsettled' = Unsettled
    PROVE  Seen
<1> DEFINE z == proc[i].at
           q == fs[z].to[1]
           v == fs[z].to[2]
<1>1. z \in Paths /\ fs \in Trees
  BY DEF OrphanInv, TypeOK, Jobs
<1>2. /\ fs'[z].to = NoText
      /\ \A x \in Paths \ {z} : fs'[x] = fs[x]
  BY <1>1, NodesAfter
<1>3. NoText \notin StoreFiles
  BY TextsAssumption DEF Contents
<1>4. CASE fs[z].to \notin StoreFiles
  BY <1>2, <1>3, <1>4, SameLinks DEF Unseen, Seen
<1>5. CASE fs[z].to \in StoreFiles
  <2>1. q \in Packages /\ v \in Versions
    BY <1>5 DEF StoreFiles
  <2>2. v \in Unsettled[q] \/ ~NeverForeign
    BY <1>5, RemovedUnsettled
  <2>3. \A p \in Packages, w \in Versions :
          w \in Linked[p] <=>
            \/ w \in Linked'[p]
            \/ p = q /\ w = v
    BY <1>1, <1>2, <1>3, <1>5 DEF Linked
  <2>4. CASE v \in Linked'[q]
    <3>1. \A p \in Packages : Linked'[p] = Linked[p]
      BY <2>3, <2>4, SeenTypes, SeenTypesNext
    <3> QED BY <3>1, SeenTypes, SeenTypesNext DEF Unseen, Seen
  <2>5. CASE v \notin Linked'[q]
    <3>1. /\ \A p \in Packages \ {q} : Linked'[p] = Linked[p]
          /\ Linked'[q] = Linked[q] \ {v}
      BY <2>1, <2>3, <2>5, SeenTypes, SeenTypesNext
    <3>2. Linked' = [Linked EXCEPT ![q] = @ \ {v}]
      BY <3>1, SeenTypes, SeenTypesNext
    <3>3. Store!Unlink(q, v)
      BY <2>2, <3>2 DEF Store!Unlink
    <3> QED BY <2>1, <3>3 DEF Store!Next, Seen
  <2> QED BY <2>4, <2>5
<1> QED BY <1>4, <1>5

LEMMA ContentCases ==
    ASSUME NEW p \in Packages, NEW v \in Versions, NEW x \in Paths
    PROVE  LinkContent(p, v, x) \in Texts \/ LinkContent(p, v, x) = <<p, v, x>>
BY StoreAssumption DEF LinkContent

\* A new link into the store is one into the version of the run.
LEMMA SymlinkedSeen ==
    ASSUME OrphanInv, NEW i \in Procs, proc[i].pc = "symlink",
           fs[proc[i].at].kind = "none",
           fs' = Symlinked(fs, proc[i].as, proc[i].at,
                           LinkContent(proc[i].pkg, proc[i].ver, proc[i].at)),
           current' = current, Unsettled' = Unsettled
    PROVE  Seen
<1> DEFINE j == proc[i]
           z == j.at
           p == j.pkg
           v == j.ver
           c == LinkContent(p, v, z)
<1>1. /\ z \in Paths /\ fs \in Trees /\ p \in Packages /\ v \in Versions
      /\ Active(i) /\ JobOK(j, current)
  BY DEF OrphanInv, TypeOK, Jobs, JobsOK, Active
<1>2. fs'[z] = Link(j.as, c) /\ \A x \in Paths \ {z} : fs'[x] = fs[x]
  BY <1>1, NodesAfter
<1>3. fs[z].to \notin StoreFiles
  BY <1>1 DEF OrphanInv, LinksOK, LinkOK
<1>4. c \in StoreFiles => c[1] = p /\ c[2] = v
  <2>1. c \in Texts \/ c = <<p, v, z>>
    BY <1>1, ContentCases
  <2> HIDE DEF c
  <2> QED BY <2>1, TextsAssumption
<1> HIDE DEF c
<1>7. fs'[z].to = c
  BY <1>2 DEF Link
<1>5. CASE c \notin StoreFiles
  BY <1>2, <1>3, <1>5, <1>7, SameLinks DEF Unseen, Seen
<1>6. CASE c \in StoreFiles
  <2>1. \A q \in Packages, w \in Versions :
          w \in Linked'[q] <=> w \in Linked[q] \/ (q = p /\ w = v)
    BY <1>1, <1>2, <1>3, <1>4, <1>6, <1>7 DEF Linked
  <2>2. /\ \A q \in Packages \ {p} : Linked'[q] = Linked[q]
        /\ Linked'[p] = Linked[p] \cup {v}
    BY <1>1, <2>1, SeenTypes, SeenTypesNext
  <2>3. Linked' = [Linked EXCEPT ![p] = @ \cup {v}]
    BY <2>2, SeenTypes, SeenTypesNext
  <2>4. v \in Unsettled[p]
    BY <1>1 DEF Unsettled, Writing, JobOK
  <2>5. Store!Link(p, v)
    BY <2>3, <2>4 DEF Store!Link
  <2> QED BY <1>1, <2>5 DEF Store!Next, Seen
<1> QED BY <1>5, <1>6

LEMMA CallSeen ==
    ASSUME OrphanInv, NeverForeign => OwnerInv, NEW i \in Procs,
           Remove(i) \/ RemoveDirectory(i) \/ Symlink(i) \/ MakeDirectory(i) \/ SetOwner(i)
    PROVE  Seen
<1> DEFINE j == proc[i]
           z == j.at
<1>0. Active(i) /\ j.pc \in {"remove", "rmdir", "symlink", "mkdir", "setOwner"}
  BY DEF Remove, RemoveDirectory, Symlink, MakeDirectory, SetOwner, Active
<1>1. /\ j \in Jobs /\ z \in Paths /\ fs \in Trees /\ JobOK(j, current)
  BY <1>0 DEF OrphanInv, TypeOK, JobsOK, Jobs
<1>2. j.pass # "dry"
  BY <1>0, <1>1 DEF JobOK
<1>3. CASE Raise(i, z)
  BY <1>0, <1>1, <1>2, <1>3, RaiseUnseen DEF Seen
<1>4. ASSUME torn' = torn, NEW k, Step(i, k), k = Passed(j, z) \/ \E c \in {"symlink", "setOwner"} : k = [j EXCEPT !.pc = c]
      PROVE  Unsettled' = Unsettled
  <2>1. k.pc # "idle" /\ k.pkg = j.pkg /\ k.ver = j.ver /\ k.pass = j.pass
    BY <1>1, <1>4 DEF Passed, Jobs
  <2> QED BY <1>0, <1>4, <2>1, StaysUnsettled
<1>5. CASE Remove(i) \/ RemoveDirectory(i)
  <2>1. SUFFICES ASSUME ~Raise(i, z) PROVE Seen
    BY <1>3
  <2>2. /\ j.pc \in {"remove", "rmdir"}
        /\ fs' = Removed(fs, z) \/ fs' = fs
        /\ UNCHANGED <<current, torn>>
    BY <1>5, <2>1 DEF Remove, RemoveDirectory
  <2>3. Unsettled' = Unsettled
    BY <1>4, <1>5, <2>1, <2>2 DEF Remove, RemoveDirectory
  <2>4. fs' = fs => Linked' = Linked
    BY SameLinks
  <2>5. CASE fs' = fs
    BY <2>2, <2>3, <2>4, <2>5 DEF Unseen, Seen
  <2>6. CASE fs' = Removed(fs, z)
    BY <2>2, <2>3, <2>6, RemovedSeen
  <2> QED BY <2>2, <2>5, <2>6
<1>6. CASE Symlink(i)
  <2>1. SUFFICES ASSUME ~Raise(i, z) PROVE Seen
    BY <1>3
  <2>2. /\ j.pc = "symlink" /\ fs[z].kind = "none"
        /\ fs' = Symlinked(fs, j.as, z, LinkContent(j.pkg, j.ver, z))
        /\ Step(i, [j EXCEPT !.pc = "setOwner"])
        /\ UNCHANGED <<current, torn>>
    BY <1>6, <2>1 DEF Symlink, CanSymlink
  <2>3. Unsettled' = Unsettled
    BY <1>4, <2>2
  <2> QED BY <2>2, <2>3, SymlinkedSeen
<1>7. CASE MakeDirectory(i) \/ SetOwner(i)
  <2>1. SUFFICES ASSUME ~Raise(i, z) PROVE Seen
    BY <1>3
  <2>2. /\ fs' = MadeDirs(fs, j.as, z) \/ fs' = OwnerSet(fs, j.pkg, z)
        /\ Step(i, [j EXCEPT !.pc = "setOwner"]) \/ Step(i, Passed(j, z))
        /\ UNCHANGED <<current, torn>>
    BY <1>7, <2>1 DEF MakeDirectory, SetOwner
  <2>3. Unsettled' = Unsettled
    BY <1>4, <2>2
  <2>4. CASE fs' = OwnerSet(fs, j.pkg, z)
    <3>1. \A x \in Paths : fs'[x].to = fs[x].to
      BY <1>1, <2>4, OwnersAfter
    <3> QED BY <2>2, <2>3, <3>1, SameLinks DEF Unseen, Seen
  <2>5. CASE fs' = MadeDirs(fs, j.as, z)
    <3>1. \A x \in Paths : fs'[x] = fs[x] \/ (fs[x].kind = "none" /\ fs'[x].to = NoText)
      BY <1>1, <2>5, PathsAssumption DEF MadeDirs, Missing, Dir
    <3>2. NoText \notin StoreFiles
      BY TextsAssumption DEF Contents
    <3>3. \A x \in Paths : fs[x].kind = "none" => fs[x].to \notin StoreFiles
      BY DEF OrphanInv, LinksOK, LinkOK
    <3> QED BY <2>2, <2>3, <3>1, <3>2, <3>3, SameLinks DEF Unseen, Seen
  <2> QED BY <2>2, <2>4, <2>5
<1> QED BY <1>5, <1>6, <1>7

\* A run ends when it has settled Current.
LEMMA SettledUnsettled ==
    ASSUME OrphanInv, NEW i \in Procs, Active(i), proc[i].pass # "dry", Settle(proc[i]),
           NEW k, Step(i, k), k.pc # "idle" => k.pkg = proc[i].pkg /\ k.pass = "dry"
    PROVE  /\ proc[i].ver \in Unsettled[proc[i].pkg]
           /\ \/ Unsettled' = Unsettled
              \/ /\ ~proc[i].bad
                 /\ Unsettled' = [Unsettled EXCEPT ![proc[i].pkg] = @ \ {proc[i].ver}]
           /\ proc[i].bad => proc[i].ver \in Unsettled'[proc[i].pkg]
<1> DEFINE p == proc[i].pkg
           v == proc[i].ver
<1>1. p \in Packages /\ v \in Versions
  BY DEF OrphanInv, TypeOK, Jobs
<1>2. /\ torn'[p] = IF proc[i].bad THEN torn[p] \cup {v} ELSE torn[p] \ {v}
      /\ \A q \in Packages \ {p} : torn'[q] = torn[q]
  BY <1>1 DEF Settle, OrphanInv, TypeOK
<1>3. /\ \A w \in Versions : w \in Unsettled[p] <=> w \in torn[p] \/ v = w
      /\ \A w \in Versions : w \in Unsettled'[p] <=> w \in torn'[p]
      /\ \A q \in Packages \ {p} : Unsettled'[q] = Unsettled[q]
  BY <1>2, MyUnsettled DEF OrphanInv
<1>4. CASE proc[i].bad
  <2>1. \A w \in Versions : w \in Unsettled'[p] <=> w \in Unsettled[p]
    BY <1>2, <1>3, <1>4
  <2>2. Unsettled'[p] = Unsettled[p]
    BY <1>1, <2>1, SeenTypes, SeenTypesNext
  <2>3. Unsettled' = Unsettled
    BY <1>3, <2>2, SeenTypes, SeenTypesNext
  <2> QED BY <1>1, <1>3, <1>4, <2>1, <2>3
<1>5. CASE ~proc[i].bad
  <2>1. Unsettled'[p] = Unsettled[p] \ {v}
    BY <1>1, <1>2, <1>3, <1>5, SeenTypes, SeenTypesNext
  <2>2. Unsettled' = [Unsettled EXCEPT ![p] = @ \ {v}]
    BY <1>3, <2>1, SeenTypes, SeenTypesNext
  <2> QED BY <1>1, <1>3, <1>5, <2>2
<1> QED BY <1>4, <1>5

LEMMA EndSeen ==
    ASSUME OrphanInv, NEW i \in Procs, ClearCurrent(i) \/ SetCurrent(i) \/ Crash(i)
    PROVE  Seen
<1> DEFINE j == proc[i]
           p == j.pkg
           v == j.ver
<1>0. Active(i) /\ fs' = fs
  BY DEF ClearCurrent, SetCurrent, Crash, Active
<1>1. /\ j \in Jobs /\ p \in Packages /\ v \in Versions /\ JobOK(j, current)
      /\ j.act \in {"install", "uninstall"}
      /\ current \in [Packages -> Versions \cup {NoVersion}]
  BY <1>0 DEF OrphanInv, TypeOK, Jobs, JobsOK, Acts
<1>2. Linked' = Linked
  BY <1>0, SameLinks
<1>3. CASE ClearCurrent(i)
  <2>1. j.pass # "dry"
    BY <1>1, <1>3 DEF ClearCurrent, JobOK
  <2>2. CASE j.act = "install"
    <3> DEFINE k == [j EXCEPT !.pc = "setCurrent"]
    <3>1. k.pc # "idle" /\ k.pkg = p /\ k.ver = v /\ k.pass = j.pass
      BY <1>1 DEF Jobs
    <3>2. Step(i, k) /\ torn' = torn /\ current' = current
      BY <1>1, <1>3, <2>2 DEF ClearCurrent, JobOK
    <3> HIDE DEF k
    <3> QED BY <1>0, <1>2, <3>1, <3>2, StaysUnsettled DEF Unseen, Seen
  <2>3. CASE j.act = "uninstall"
    <3>1. PICK k : Step(i, k) /\ (k.pc # "idle" => k.pkg = p /\ k.pass = "dry")
      BY <1>3, <2>3, IdleJobType DEF ClearCurrent, NewJob
    <3>2. Settle(j) /\ current' = [current EXCEPT ![p] = NoVersion] /\ current[p] = v
      BY <1>1, <1>3, <2>3 DEF ClearCurrent, JobOK
    <3>3. /\ v \in Unsettled[p]
          /\ \/ Unsettled' = Unsettled
             \/ ~j.bad /\ Unsettled' = [Unsettled EXCEPT ![p] = @ \ {v}]
          /\ j.bad => v \in Unsettled'[p]
      BY <1>0, <2>1, <3>1, <3>2, SettledUnsettled
    <3>4. ~j.bad => v \notin Linked[p]
      <4>1. ~j.bad => \A x \in Paths : fs[x].to # <<p, v, x>>
        BY <1>0, <1>1, <1>3, <2>3 DEF OrphanInv, UninstallsDone, UninstallDone, ClearCurrent, JobOK
      <4>2. \A x \in Paths :
              fs[x].to \in StoreFiles /\ fs[x].to[1] = p /\ fs[x].to[2] = v =>
                  fs[x].to = <<p, v, x>>
        BY DEF StoreFiles, OrphanInv, LinksOK, LinkOK
      <4> QED BY <1>1, <4>1, <4>2 DEF Linked
    <3>5. Store!Uninstalled(p, v)
      BY <1>1, <1>2, <3>2, <3>3, <3>4 DEF Store!Uninstalled, Store!Settles
    <3> QED BY <1>1, <3>5 DEF Store!Next, Seen
  <2> QED BY <1>1, <2>2, <2>3
<1>4. CASE SetCurrent(i)
  <2>1. j.pass # "dry" /\ current[p] = NoVersion
    BY <1>1, <1>4 DEF SetCurrent, JobOK
  <2>2. Settle(j) /\ current' = [current EXCEPT ![p] = v] /\ Step(i, IdleJob)
    BY <1>4, <2>1 DEF SetCurrent
  <2>3. /\ v \in Unsettled[p]
        /\ \/ Unsettled' = Unsettled
           \/ Unsettled' = [Unsettled EXCEPT ![p] = @ \ {v}]
    BY <1>0, <2>1, <2>2, SettledUnsettled, IdleJobType
  <2>4. Store!Installed(p, v)
    BY <1>2, <2>1, <2>2, <2>3 DEF Store!Installed, Store!Settles
  <2> QED BY <1>1, <2>4 DEF Store!Next, Seen
<1>5. CASE Crash(i)
  <2>1. CASE j.pass = "dry"
    BY <1>0, <1>2, <1>5, <2>1, StaysUnsettled, IdleJobType DEF Crash, Unseen, Seen
  <2>2. CASE j.pass # "dry"
    BY <1>0, <1>2, <1>5, <2>2, StopsUnsettled DEF Crash, Unseen, Seen
  <2> QED BY <2>1, <2>2
<1> QED BY <1>3, <1>4, <1>5

-----------------------------------------------------------------------------
(* The theorem                                                               *)

\* What the refinement needs of the operators and of the packages.
Orderly == Disciplined /\ (NeverForeign => NoKindClash)

StoreInv == OrphanInv /\ (NeverForeign => OwnerInv)

LEMMA StoreInit == Init => StoreInv /\ Store!Init
<1> SUFFICES ASSUME Init PROVE StoreInv /\ Store!Init
  OBVIOUS
<1>1. OrphanInv /\ ForeignInv
  BY OrphanInit, ForeignInit
<1>2. \A i \in Procs : proc[i].pc = "idle"
  BY DEF Init, IdleJob, NewJob
<1>3. \A x \in Paths : fs[x].to \notin StoreFiles
  BY InitialTreesAssumption DEF Init
<1>4. OwnerInv
  BY <1>1, <1>2, <1>3 DEF OwnerInv, OrphanInv, LinksOwned, ClaimsOwn
<1>5. \A p \in Packages : Linked[p] = {} /\ Unsettled[p] = {}
  BY <1>2, <1>3 DEF Init, Linked, Unsettled, Writing, Active
<1>6. Store!Init
  BY <1>5, SeenTypes DEF Init, Store!Init
<1> QED BY <1>1, <1>4, <1>6 DEF StoreInv

LEMMA StoreStep ==
    ASSUME Orderly, StoreInv, [Next]_vars
    PROVE  StoreInv' /\ [Store!Next]_(Store!vars)
<1>1. OrphanInv'
  BY OrphanInductive DEF Orderly, StoreInv
<1>2. StoreInv'
  <2>1. ASSUME NeverForeign PROVE OwnerInv'
    BY <1>1, <2>1, OwnerStep DEF Orderly, Disciplined, Considerate, StoreInv, OrphanInv
  <2> QED BY <1>1, <2>1 DEF StoreInv
<1>3. CASE UNCHANGED vars
  BY <1>2, <1>3 DEF vars, Store!vars, Linked, Unsettled, Writing, Active
<1>4. CASE Next
  <2>1. PICK i \in Procs : Command(i) \/ Work(i) \/ Crash(i)
    BY <1>4 DEF Next
  <2>2. Seen
    BY <2>1, CommandUnseen, DrySeen, ItemSeen, CallSeen, EndSeen DEF Work, StoreInv, Seen
  <2> QED BY <1>2, <2>2 DEF Seen, Unseen, Store!vars
<1> QED BY <1>3, <1>4

\* Whatever the packages, the system and the order of the steps, and however many
\* runs are killed: what tpkgs does to the files one by one is what PkgStore says
\* of the versions, if no two operators work on one package, --uninstall is not
\* given --bypass and uninstalls ignore no more than installs.
THEOREM StoreImplemented ==
    ASSUME Orderly
    PROVE  Spec => KeepsStore
<1>1. StoreInv /\ [Next]_vars => StoreInv' /\ [Store!Next]_(Store!vars)
  BY StoreStep
<1> QED BY <1>1, StoreInit, PTL DEF Spec, KeepsStore, Store!Spec

-----------------------------------------------------------------------------
(* What the abstract store promises                                          *)

StoreTyped == Store!TypeOK /\ Store!NoneForgotten

LEMMA StoreTypedInductive ==
    ASSUME StoreTyped, [Store!Next]_(Store!vars)
    PROVE  StoreTyped'
<1>0. NoVersion \notin Versions
  BY VersionsAssumption
<1> USE DEF StoreTyped, Store!TypeOK, Store!NoneForgotten
<1>1. CASE UNCHANGED Store!vars
  BY <1>1 DEF Store!vars
<1>2. ASSUME NEW p \in Packages, NEW v \in Versions,
             Store!Begin(p, v) \/ Store!Link(p, v) \/ Store!Unlink(p, v)
      PROVE  StoreTyped'
  <2>1. CASE Store!Begin(p, v)
    BY <2>1 DEF Store!Begin
  <2>2. CASE Store!Link(p, v)
    BY <2>2 DEF Store!Link
  <2>3. CASE Store!Unlink(p, v)
    BY <2>3 DEF Store!Unlink
  <2> QED BY <1>2, <2>1, <2>2, <2>3
<1>3. ASSUME NEW p \in Packages, NEW v \in Versions, Store!Installed(p, v) PROVE StoreTyped'
  <2>1. Linked[p] \subseteq Unsettled[p]
    BY <1>0, <1>3 DEF Store!Installed
  <2> QED BY <1>0, <1>3, <2>1 DEF Store!Installed, Store!Settles
<1>4. ASSUME NEW p \in Packages, NEW v \in Versions, Store!Uninstalled(p, v) PROVE StoreTyped'
  BY <1>0, <1>4 DEF Store!Uninstalled, Store!Settles
<1> QED BY <1>1, <1>2, <1>3, <1>4 DEF Store!Next

\* The abstract store knows the versions the system holds links into, from Current
\* or as ones that are not settled, and so does tpkgs, which implements it.
THEOREM NothingForgotten ==
    /\ Store!Spec => []Store!NoneForgotten
    /\ Orderly => (Spec => []Store!NoneForgotten)
<1>1. Store!Init => StoreTyped
  BY DEF Store!Init, StoreTyped, Store!TypeOK, Store!NoneForgotten
<1>2. StoreTyped /\ [Store!Next]_(Store!vars) => StoreTyped'
  BY StoreTypedInductive
<1>3. StoreTyped => Store!NoneForgotten
  BY DEF StoreTyped
<1>4. Store!Spec => []Store!NoneForgotten
  BY <1>1, <1>2, <1>3, PTL DEF Store!Spec
<1>5. ASSUME Orderly PROVE Spec => Store!Spec
  BY <1>5, StoreImplemented DEF KeepsStore
<1> QED BY <1>4, <1>5

-----------------------------------------------------------------------------
(* What is installed stays whole                                             *)

\* Of a link into the store a step of one package leaves those of the others.
LEMMA StillLinked ==
    ASSUME OwnerInv, NEW i \in Procs, Active(i), Work(i) \/ Crash(i), NEW x \in Paths,
           fs[x].to \in StoreFiles,
           \/ fs[x].to[1] # proc[i].pkg
           \/ proc[i].pc \notin {"remove", "rmdir"}
           \/ proc[i].at # x
    PROVE  fs'[x].to = fs[x].to
<1>1. SUFFICES ASSUME fs'[x].to # fs[x].to PROVE FALSE
  OBVIOUS
<1>2. IsLink(fs, x)
  BY DEF OwnerInv, LinksOK, LinkOK, IsLink
<1>3. proc[i].pc \in {"remove", "rmdir"} /\ proc[i].at = x
  BY <1>1, <1>2, Unlinks DEF OwnerInv
<1>4. fs[x].owner = proc[i].pkg /\ proc[i].pkg # RootUser
  BY <1>2, <1>3, Holding DEF OwnerInv, HoldsNode
<1> QED BY <1>3, <1>4 DEF OwnerInv, LinksOwned

\* An item an install finds nothing to do for is linked if it wants it to be.
LEMMA FineIsLinked ==
    ASSUME NEW j \in Jobs, j.act = "install", NEW x \in Wanted(j.as, j.pkg, j.ver),
           Due(j, x) = "fine"
    PROVE  fs[x].to = <<j.pkg, j.ver, x>>
<1>1. Kind[j.pkg][j.ver][x] = "reg" /\ ~Skips(j, x)
  BY DEF Wanted, Skips, Ignore, ConfigOf
<1>2. InstallLink(j, x) = "fine"
  BY <1>1 DEF Due
<1>3. RightLink(j, x)
  BY <1>2 DEF InstallLink
<1> QED BY <1>1, <1>3 DEF RightLink, LinkContent

\* What a step of process i has to show of its package p, k being its next state.
WholeOK(p, k) ==
    /\ k.pc # "idle" => k.pkg = p /\ InstallDone(k, fs')
    /\ \A q \in Packages \ {p} : current'[q] = current[q] /\ torn'[q] = torn[q]
    /\ current'[p] # NoVersion =>
         \/ current'[p] \in torn'[p]
         \/ k.pc # "idle" /\ k.ver = current'[p] /\ k.pass # "dry"
         \/ Whole(p, current'[p], fs')

LEMMA WholeFrame ==
    ASSUME IntactInv, OrphanInv', OwnerInv', NEW i \in Procs, NEW p \in Packages, NEW k,
           Step(i, k), Active(i) => proc[i].pkg = p,
           \A m \in Procs \ {i} : Active(m) => proc[m].pkg # p,
           \A x \in Paths :
              fs[x].to \in StoreFiles /\ fs[x].to[1] # p => fs'[x].to = fs[x].to,
           WholeOK(p, k)
    PROVE  IntactInv'
<1>1. proc'[i] = k /\ \A m \in Procs \ {i} : proc'[m] = proc[m]
  BY DEF IntactInv, OrphanInv, TypeOK, Step
<1>2. ASSUME NEW q \in Packages \ {p}, NEW w \in Versions, NEW x \in Paths,
             fs[x].to = <<q, w, x>>
      PROVE  fs'[x].to = <<q, w, x>>
  <2>1. fs[x].to \in StoreFiles /\ fs[x].to[1] # p
    BY <1>2 DEF StoreFiles
  <2> QED BY <1>2, <2>1
<1>3. InstallsDone'
  <2>1. ASSUME NEW m \in Procs \ {i}, Active(m)
        PROVE  InstallDone(proc[m], fs')
    <3>1. /\ InstallDone(proc[m], fs)
          /\ proc[m].pkg \in Packages \ {p} /\ proc[m].ver \in Versions /\ proc[m].at \in Paths
      BY <2>1 DEF IntactInv, InstallsDone, OrphanInv, TypeOK, Jobs
    <3>2. \A x \in Wanted(proc[m].as, proc[m].pkg, proc[m].ver) : x \in Paths
      BY DEF Wanted, Items
    <3> QED BY <1>2, <3>1, <3>2 DEF InstallDone
  <2> QED BY <1>1, <2>1 DEF InstallsDone, WholeOK, Active
<1>4. ASSUME NEW q \in Packages \ {p}, NEW w \in Versions
      PROVE  /\ Writing(q, w) => Writing(q, w)'
             /\ Whole(q, w, fs) => Whole(q, w, fs')
  <2>1. Writing(q, w) => Writing(q, w)'
    BY <1>1 DEF Writing, Active
  <2>2. \A u : \A x \in Wanted(u, q, w) : x \in Paths
    BY DEF Wanted, Items
  <2>3. Whole(q, w, fs) => Whole(q, w, fs')
    BY <1>2, <2>2 DEF Whole
  <2> QED BY <2>1, <2>3
<1>5. SettledWhole'
  <2>1. SUFFICES ASSUME NEW q \in Packages, NEW w \in Versions, current'[q] = w
                 PROVE  w \in torn'[q] \/ Writing(q, w)' \/ Whole(q, w, fs')
    BY DEF SettledWhole, OrphanInv, TypeOK
  <2>2. CASE q # p
    <3>1. current[q] = w /\ torn'[q] = torn[q]
      BY <2>1, <2>2 DEF WholeOK
    <3>2. w \in torn[q] \/ Writing(q, w) \/ Whole(q, w, fs)
      BY <3>1, VersionsAssumption DEF IntactInv, SettledWhole
    <3> QED BY <1>4, <2>2, <3>1, <3>2
  <2>3. CASE q = p
    <3>1. w # NoVersion
      BY VersionsAssumption
    <3>2. k.pc # "idle" /\ k.ver = w /\ k.pass # "dry" => Writing(q, w)'
      BY <1>1, <2>3 DEF WholeOK, Writing, Active
    <3>3. Whole(p, current'[p], fs') => Whole(q, w, fs')
      BY <2>1, <2>3 DEF Whole
    <3> QED BY <2>1, <2>3, <3>1, <3>2, <3>3 DEF WholeOK
  <2> QED BY <2>2, <2>3
<1> QED BY <1>3, <1>5 DEF IntactInv

\* The process runs on: what was whole stays so, or is being uninstalled.
LEMMA RunsOn ==
    ASSUME IntactInv, NEW i \in Procs, Active(i), Work(i) \/ Crash(i), NEW k, Step(i, k),
           UNCHANGED <<current, torn>>,
           k.pc # "idle" => /\ k.pkg = proc[i].pkg /\ InstallDone(k, fs')
                            /\ k.ver = proc[i].ver /\ (proc[i].pass # "dry" => k.pass # "dry"),
           proc[i].pass = "dry" => fs' = fs,
           proc[i].pass # "dry" => k.pc # "idle"
    PROVE  WholeOK(proc[i].pkg, k)
<1> DEFINE j == proc[i]
           p == j.pkg
<1>1. p \in Packages /\ j.ver \in Versions /\ j.act \in {"install", "uninstall"}
  BY DEF IntactInv, OrphanInv, TypeOK, Jobs, Acts
<1>2. SUFFICES ASSUME NEW w \in Versions, current[p] = w
               PROVE  \/ w \in torn[p]
                      \/ k.pc # "idle" /\ k.ver = w /\ k.pass # "dry"
                      \/ Whole(p, w, fs')
  <2>1. current[p] \in Versions \cup {NoVersion}
    BY <1>1 DEF IntactInv, OrphanInv, TypeOK
  <2> QED BY <1>2, <2>1 DEF WholeOK
<1>3. JobOK(j, current) /\ w # NoVersion
  BY VersionsAssumption DEF IntactInv, OrphanInv, JobsOK
<1>4. j.act = "uninstall" /\ j.ver = w
  BY <1>1, <1>2, <1>3 DEF JobOK
<1>5. CASE j.pass # "dry"
  BY <1>4, <1>5
<1>6. CASE j.pass = "dry"
  <2>1. ~Writing(p, w)
    BY <1>6 DEF Writing, IntactInv, OrphanInv, Exclusive
  <2>2. w \in torn[p] \/ Whole(p, w, fs)
    BY <1>1, <1>2, <1>3, <2>1 DEF IntactInv, SettledWhole
  <2> QED BY <1>6, <2>2 DEF Whole
<1> QED BY <1>5, <1>6

\* The process is stopped.
LEMMA StopsWhole ==
    ASSUME IntactInv, NEW i \in Procs, Active(i), proc[i].pass # "dry", NEW k, k.pc = "idle",
           MarkTorn(proc[i]), current' = current
    PROVE  WholeOK(proc[i].pkg, k)
<1> DEFINE j == proc[i]
           p == j.pkg
<1>1. p \in Packages /\ j.ver \in Versions /\ j.act \in {"install", "uninstall"}
  BY DEF IntactInv, OrphanInv, TypeOK, Jobs, Acts
<1>2. JobOK(j, current)
  BY DEF IntactInv, OrphanInv, JobsOK
<1>3. /\ j.ver \in torn'[p]
      /\ \A q \in Packages \ {p} : torn'[q] = torn[q]
  BY <1>1 DEF MarkTorn, IntactInv, OrphanInv, TypeOK
<1> QED BY <1>1, <1>2, <1>3 DEF JobOK, WholeOK

LEMMA RaiseWhole ==
    ASSUME IntactInv, NEW i \in Procs, Active(i), Work(i), proc[i].pass # "dry",
           NEW x \in Paths, Raise(i, x)
    PROVE  \E k : Step(i, k) /\ WholeOK(proc[i].pkg, k)
<1> DEFINE j == proc[i]
<1>1. j \in Jobs /\ JobOK(j, current) /\ j.pass \in {"real", "third"}
  BY DEF IntactInv, OrphanInv, TypeOK, JobsOK, Jobs, Passes
<1>2. CASE Step(i, IdleJob) /\ MarkTorn(j)
  BY <1>2, StopsWhole, IdleJobType DEF Raise
<1>3. CASE /\ Step(i, [Passed(j, x) EXCEPT !.bad = @ \/ j.pass = "real"])
           /\ UNCHANGED torn
  <2> DEFINE b == Passed(j, x).bad \/ j.pass = "real"
             k == [Passed(j, x) EXCEPT !.bad = b]
  <2>1. Step(i, k)
    BY <1>3
  <2>2. /\ k.pc = "item" /\ k.pkg = j.pkg /\ k.ver = j.ver /\ k.pass = j.pass
        /\ k.act = j.act /\ k.bad = b
    BY <1>1 DEF Passed, Jobs
  <2>3. j.act = "install" => j.pass = "real" /\ b
    BY <1>1 DEF JobOK
  <2> HIDE DEF k, b
  <2>4. InstallDone(k, fs')
    BY <2>2, <2>3 DEF InstallDone
  <2> QED BY <1>3, <2>1, <2>2, <2>4, RunsOn DEF Raise
<1> QED BY <1>2, <1>3 DEF Raise

\* The steps of the dry run and between items and passes.
LEMMA ItemWhole ==
    ASSUME IntactInv, NEW i \in Procs,
           DryItem(i) \/ DryStop(i) \/ DryEnd(i) \/ RealItem(i) \/ RealEnd(i)
    PROVE  \E k : Step(i, k) /\ WholeOK(proc[i].pkg, k)
<1> DEFINE j == proc[i]
<1>0. Active(i) /\ Work(i) /\ j.pc = "item"
  BY DEF DryItem, DryStop, DryEnd, RealItem, RealEnd, Active, Work
<1>1. j \in Jobs /\ JobOK(j, current) /\ InstallDone(j, fs)
  BY <1>0 DEF IntactInv, OrphanInv, TypeOK, JobsOK, InstallsDone
<1>2. CASE DryItem(i)
  <2>1. PICK x \in Ready(j) :
           Step(i, [Passed(j, x) EXCEPT !.err = @ \/ Due(j, x) = "error"])
    BY <1>2 DEF DryItem
  <2> DEFINE b == Passed(j, x).err \/ Due(j, x) = "error"
             k == [Passed(j, x) EXCEPT !.err = b]
  <2>2. Step(i, k)
    BY <2>1
  <2>3. k.pc = "item" /\ k.pkg = j.pkg /\ k.ver = j.ver /\ k.pass = "dry" /\ j.pass = "dry"
    BY <1>1, <1>2 DEF Passed, Jobs, DryItem
  <2> HIDE DEF k
  <2>4. InstallDone(k, fs')
    BY <2>3 DEF InstallDone
  <2> QED BY <1>0, <1>2, <2>2, <2>3, <2>4, RunsOn DEF DryItem
<1>3. CASE DryStop(i)
  BY <1>0, <1>3, RunsOn, IdleJobType DEF DryStop
<1>4. CASE DryEnd(i)
  <2> DEFINE k == [j EXCEPT !.pass = "real", !.todo = Items(j.pkg, j.ver)]
  <2>2. Step(i, k)
    BY <1>4 DEF DryEnd
  <2>3. /\ k.pc = "item" /\ k.pkg = j.pkg /\ k.ver = j.ver /\ k.pass = "real" /\ k.as = j.as
        /\ k.todo = Items(j.pkg, j.ver)
    BY <1>0, <1>1 DEF Jobs
  <2> HIDE DEF k
  <2>4. InstallDone(k, fs')
    BY <2>3 DEF InstallDone, Wanted
  <2> QED BY <1>0, <1>4, <2>2, <2>3, <2>4, RunsOn DEF DryEnd
<1>5. CASE RealItem(i)
  <2>1. PICK x \in Ready(j) :
           \/ Due(j, x) = "fine" /\ Step(i, Passed(j, x)) /\ UNCHANGED <<fs, current, torn>>
           \/ Raise(i, x)
           \/ /\ Due(j, x) \in {"remove", "symlink", "mkdir", "rmdir"}
              /\ Step(i, [j EXCEPT !.pc = Due(j, x), !.at = x])
              /\ UNCHANGED <<fs, current, torn>>
    BY <1>5 DEF RealItem
  <2>2. x \in Paths /\ x \in j.todo /\ j.pass # "dry"
    BY <1>1, <1>5 DEF Ready, Jobs, RealItem
  <2>3. CASE Due(j, x) = "fine" /\ Step(i, Passed(j, x)) /\ UNCHANGED <<fs, current, torn>>
    <3> DEFINE k == Passed(j, x)
    <3>1. /\ k.pc = "item" /\ k.pkg = j.pkg /\ k.ver = j.ver /\ k.pass = j.pass /\ k.as = j.as
          /\ k.act = j.act /\ k.bad = j.bad /\ k.todo = j.todo \ {x}
      BY <1>1 DEF Passed, Jobs
    <3>2. Step(i, k)
      BY <2>3
    <3>3. j.act = "install" =>
            \A y \in Wanted(j.as, j.pkg, j.ver) : y = x => fs[y].to = <<j.pkg, j.ver, y>>
      BY <1>1, <2>3, FineIsLinked
    <3> HIDE DEF k
    <3>4. InstallDone(k, fs')
      BY <1>1, <2>3, <3>1, <3>3 DEF InstallDone
    <3> QED BY <1>0, <2>2, <2>3, <3>1, <3>2, <3>4, RunsOn
  <2>4. CASE Raise(i, x)
    BY <1>0, <2>2, <2>4, RaiseWhole
  <2>5. CASE /\ Due(j, x) \in {"remove", "symlink", "mkdir", "rmdir"}
             /\ Step(i, [j EXCEPT !.pc = Due(j, x), !.at = x])
             /\ UNCHANGED <<fs, current, torn>>
    <3> DEFINE k == [j EXCEPT !.pc = Due(j, x), !.at = x]
    <3>1. /\ k.pc = Due(j, x) /\ k.at = x /\ k.pkg = j.pkg /\ k.ver = j.ver /\ k.pass = j.pass
          /\ k.as = j.as /\ k.act = j.act /\ k.bad = j.bad /\ k.todo = j.todo
      BY <1>1 DEF Jobs
    <3>2. Step(i, k)
      BY <2>5
    <3> HIDE DEF k
    <3>4. InstallDone(k, fs')
      BY <1>1, <2>2, <2>5, <3>1 DEF InstallDone
    <3> QED BY <1>0, <2>2, <2>5, <3>1, <3>2, <3>4, RunsOn
  <2> QED BY <2>1, <2>3, <2>4, <2>5
<1>6. CASE RealEnd(i)
  <2>1. PICK k : /\ Step(i, k)
                 /\ \/ /\ k = [j EXCEPT !.pass = "third", !.todo = Items(j.pkg, j.ver)]
                       /\ j.act = "uninstall"
                    \/ k = [j EXCEPT !.pc = "clearCurrent"]
    BY <1>6 DEF RealEnd
  <2>2. /\ k.pc \in {"item", "clearCurrent"} /\ k.pkg = j.pkg /\ k.ver = j.ver
        /\ k.pass # "dry" /\ k.as = j.as /\ k.act = j.act /\ k.bad = j.bad /\ j.todo = {}
        /\ j.act # "uninstall" => k.todo = j.todo /\ k.pass = j.pass
    BY <1>0, <1>1, <1>6, <2>1 DEF Jobs, RealEnd
  <2>3. InstallDone(k, fs')
    BY <1>1, <1>6, <2>2 DEF InstallDone, RealEnd
  <2> QED BY <1>0, <1>6, <2>1, <2>2, <2>3, RunsOn DEF RealEnd
<1> QED BY <1>2, <1>3, <1>4, <1>5, <1>6

\* The system calls.
LEMMA CallWhole ==
    ASSUME IntactInv, NEW i \in Procs,
           Remove(i) \/ RemoveDirectory(i) \/ Symlink(i) \/ MakeDirectory(i) \/ SetOwner(i)
    PROVE  \E k : Step(i, k) /\ WholeOK(proc[i].pkg, k)
<1> DEFINE j == proc[i]
           z == j.at
<1>0. Active(i) /\ Work(i)
  BY DEF Remove, RemoveDirectory, Symlink, MakeDirectory, SetOwner, Active, Work
<1>1. /\ j \in Jobs /\ JobOK(j, current) /\ InstallDone(j, fs) /\ fs \in Trees /\ z \in Paths
      /\ j.pkg \in Packages /\ j.ver \in Versions
  BY <1>0 DEF IntactInv, OrphanInv, TypeOK, JobsOK, InstallsDone, Jobs
<1>2. j.pass # "dry"
  BY <1>1
     DEF JobOK, Remove, RemoveDirectory, Symlink, MakeDirectory, SetOwner
<1>3. CASE Raise(i, z)
  BY <1>0, <1>1, <1>2, <1>3, RaiseWhole
<1>4. ASSUME NEW x \in Wanted(j.as, j.pkg, j.ver), fs[x].to = <<j.pkg, j.ver, x>>,
             x # z \/ j.pc \notin {"remove", "rmdir"}
      PROVE  fs'[x].to = <<j.pkg, j.ver, x>>
  <2>1. x \in Paths
    BY DEF Wanted, Items
  <2>2. fs[x].to \in StoreFiles
    BY <1>1, <1>4, <2>1 DEF StoreFiles
  <2> QED BY <1>0, <1>4, <2>1, <2>2, StillLinked DEF IntactInv
<1>5. ASSUME NEW k, Step(i, k), UNCHANGED <<current, torn>>, k = Passed(j, z),
             j.pc \in {"remove", "rmdir", "setOwner"}, j.pc = "setOwner" \/ j.act = "uninstall"
      PROVE  WholeOK(j.pkg, k)
  <2>1. /\ k.pc = "item" /\ k.pkg = j.pkg /\ k.ver = j.ver /\ k.pass = j.pass /\ k.as = j.as
        /\ k.act = j.act /\ k.bad = j.bad /\ k.todo = j.todo \ {z}
    BY <1>1, <1>5 DEF Passed, Jobs
  <2>2. j.act = "install" => j.pc = "setOwner"
    BY <1>5
  <2>3. j.act = "install" /\ z \in Wanted(j.as, j.pkg, j.ver) => fs[z].to = <<j.pkg, j.ver, z>>
    BY <1>1, <1>2, <2>2 DEF InstallDone, Wanted
  <2>4. InstallDone(k, fs')
    BY <1>1, <1>2, <1>4, <2>1, <2>2, <2>3 DEF InstallDone
  <2> QED BY <1>0, <1>2, <1>5, <2>1, <2>4, RunsOn
<1>6. ASSUME NEW c \in {"symlink", "setOwner"}, NEW k, Step(i, k), UNCHANGED <<current, torn>>,
             k = [j EXCEPT !.pc = c], j.pc \in {"remove", "symlink", "mkdir"},
             c = "setOwner" /\ Kind[j.pkg][j.ver][z] = "reg" => fs'[z].to = <<j.pkg, j.ver, z>>
      PROVE  WholeOK(j.pkg, k)
  <2>1. /\ k.pc = c /\ k.pkg = j.pkg /\ k.ver = j.ver /\ k.pass = j.pass /\ k.as = j.as
        /\ k.act = j.act /\ k.bad = j.bad /\ k.todo = j.todo /\ k.at = z
    BY <1>1, <1>6 DEF Jobs
  <2>2. InstallDone(k, fs')
    BY <1>1, <1>2, <1>4, <1>6, <2>1 DEF InstallDone
  <2> QED BY <1>0, <1>2, <1>6, <2>1, <2>2, RunsOn
<1>7. CASE Remove(i) \/ RemoveDirectory(i)
  <2>1. SUFFICES ASSUME ~Raise(i, z) PROVE \E k : Step(i, k) /\ WholeOK(j.pkg, k)
    BY <1>3
  <2>2. CASE Step(i, Passed(j, z)) /\ j.act = "uninstall"
    BY <1>5, <1>7, <2>1, <2>2 DEF Remove, RemoveDirectory
  <2>3. CASE Step(i, [j EXCEPT !.pc = "symlink"]) /\ j.pc = "remove"
    BY <1>6, <1>7, <2>1, <2>3 DEF Remove, RemoveDirectory
  <2>4. j.act \in {"install", "uninstall"}
    BY <1>1 DEF Jobs, Acts
  <2> QED BY <1>1, <1>7, <2>1, <2>2, <2>3, <2>4 DEF Remove, RemoveDirectory, JobOK
<1>8. CASE Symlink(i)
  <2>1. SUFFICES ASSUME ~Raise(i, z) PROVE \E k : Step(i, k) /\ WholeOK(j.pkg, k)
    BY <1>3
  <2>2. /\ j.pc = "symlink" /\ UNCHANGED <<current, torn>>
        /\ fs' = Symlinked(fs, j.as, z, LinkContent(j.pkg, j.ver, z))
        /\ Step(i, [j EXCEPT !.pc = "setOwner"])
    BY <1>8, <2>1 DEF Symlink
  <2>3. fs'[z].to = LinkContent(j.pkg, j.ver, z)
    BY <1>1, <2>2 DEF Symlinked, Link, Trees
  <2> QED BY <1>6, <2>2, <2>3 DEF LinkContent
<1>9. CASE MakeDirectory(i)
  <2>1. SUFFICES ASSUME ~Raise(i, z) PROVE \E k : Step(i, k) /\ WholeOK(j.pkg, k)
    BY <1>3
  <2> QED BY <1>1, <1>6, <1>9, <2>1 DEF MakeDirectory, JobOK
<1>10. CASE SetOwner(i)
  BY <1>3, <1>5, <1>10 DEF SetOwner
<1> QED BY <1>7, <1>8, <1>9, <1>10

\* The end of a run: what it installed is whole, if it skipped no error.
LEMMA EndWhole ==
    ASSUME IntactInv, NEW i \in Procs, ClearCurrent(i) \/ SetCurrent(i) \/ Crash(i)
    PROVE  \E k : Step(i, k) /\ WholeOK(proc[i].pkg, k)
<1> DEFINE j == proc[i]
           p == j.pkg
<1>0. Active(i) /\ (Work(i) \/ Crash(i)) /\ fs' = fs
  BY DEF ClearCurrent, SetCurrent, Crash, Active, Work
<1>1. /\ j \in Jobs /\ JobOK(j, current) /\ InstallDone(j, fs)
      /\ p \in Packages /\ j.ver \in Versions /\ j.act \in {"install", "uninstall"}
      /\ current \in [Packages -> Versions \cup {NoVersion}]
      /\ torn \in [Packages -> SUBSET Versions]
  BY <1>0 DEF IntactInv, OrphanInv, TypeOK, JobsOK, InstallsDone, Jobs, Acts
<1>2. CASE ClearCurrent(i)
  <2>1. current'[p] = NoVersion /\ \A q \in Packages \ {p} : current'[q] = current[q]
    BY <1>1, <1>2 DEF ClearCurrent
  <2>2. CASE j.act = "install"
    <3> DEFINE k == [j EXCEPT !.pc = "setCurrent"]
    <3>1. /\ k.pc = "setCurrent" /\ k.pkg = p /\ k.ver = j.ver /\ k.pass = j.pass /\ k.as = j.as
          /\ k.act = j.act /\ k.bad = j.bad /\ k.todo = j.todo
      BY <1>1 DEF Jobs
    <3>2. Step(i, k) /\ torn' = torn /\ j.pc = "clearCurrent"
      BY <1>2, <2>2 DEF ClearCurrent
    <3> HIDE DEF k
    <3>3. InstallDone(k, fs')
      BY <1>0, <1>1, <3>1, <3>2 DEF InstallDone
    <3> QED BY <2>1, <3>1, <3>2, <3>3 DEF WholeOK
  <2>3. CASE j.act = "uninstall"
    <3>1. PICK k : Step(i, k) /\ (k.pc # "idle" => k.pkg = p /\ k.pass = "dry")
      BY <1>2, <2>3, IdleJobType DEF ClearCurrent, NewJob
    <3>2. \A q \in Packages \ {p} : torn'[q] = torn[q]
      BY <1>1, <1>2, <2>3 DEF ClearCurrent, Settle
    <3> QED BY <2>1, <3>1, <3>2 DEF WholeOK, InstallDone
  <2> QED BY <1>1, <2>2, <2>3
<1>3. CASE SetCurrent(i)
  <2>1. j.act = "install" /\ j.pass # "dry" /\ current[p] = NoVersion /\ j.pc = "setCurrent"
    BY <1>1, <1>3 DEF SetCurrent, JobOK
  <2>2. Settle(j) /\ current' = [current EXCEPT ![p] = j.ver] /\ Step(i, IdleJob)
    BY <1>3, <2>1 DEF SetCurrent
  <2>3. /\ current'[p] = j.ver
        /\ \A q \in Packages \ {p} : current'[q] = current[q] /\ torn'[q] = torn[q]
        /\ j.bad => j.ver \in torn'[p]
    BY <1>1, <2>2 DEF Settle
  <2>4. ~j.bad => \A x \in Wanted(j.as, p, j.ver) : fs'[x].to = <<p, j.ver, x>>
    BY <1>0, <1>1, <2>1 DEF InstallDone
  <2>5. j.as \in {p, RootUser}
    BY <1>1 DEF JobOK
  <2>6. ~j.bad => Whole(p, current'[p], fs')
    BY <2>3, <2>4, <2>5 DEF Whole
  <2> QED BY <2>2, <2>3, <2>6, IdleJobType DEF WholeOK
<1>4. CASE Crash(i)
  <2>1. CASE j.pass = "dry"
    BY <1>0, <1>4, <2>1, RunsOn, IdleJobType DEF Crash
  <2>2. CASE j.pass # "dry"
    BY <1>0, <1>4, <2>2, StopsWhole, IdleJobType DEF Crash
  <2> QED BY <2>1, <2>2
<1> QED BY <1>2, <1>3, <1>4

LEMMA IntactStep ==
    ASSUME Orderly, NeverForeign, IntactInv, [Next]_vars
    PROVE  IntactInv'
<1>1. OrphanInv' /\ OwnerInv'
  BY StoreStep DEF StoreInv, IntactInv
<1>2. CASE UNCHANGED vars
  <2>1. \A p, w : (Writing(p, w)' <=> Writing(p, w)) /\ (Whole(p, w, fs') <=> Whole(p, w, fs))
    BY <1>2 DEF vars, Writing, Whole, Active
  <2>2. SettledWhole'
    BY <1>2, <2>1 DEF vars, IntactInv, SettledWhole, Writing, Whole, Active
  <2> QED BY <1>1, <1>2, <2>2 DEF vars, IntactInv, InstallsDone, InstallDone, Active
<1>3. CASE Next
  <2>1. PICK i \in Procs : Command(i) \/ Work(i) \/ Crash(i)
    BY <1>3 DEF Next
  <2>2. CASE Command(i)
    <3>1. ~Active(i) /\ UNCHANGED <<fs, current, torn>>
      BY <2>2 DEF Command, Install, Uninstall
    <3>2. PICK k : Step(i, k) /\ k.pass = "dry"
      <4>1. \E a, p, w, n, u, f : Step(i, NewJob(a, p, w, n, u, f))
        BY <2>2 DEF Command, Install, Uninstall
      <4>2. \A a, p, w, n, u, f : NewJob(a, p, w, n, u, f).pass = "dry"
        BY DEF NewJob
      <4> QED BY <4>1, <4>2
    <3>3. proc'[i] = k /\ \A m \in Procs \ {i} : proc'[m] = proc[m]
      BY <3>2 DEF IntactInv, OrphanInv, TypeOK, Step
    <3>4. InstallsDone'
      BY <3>1, <3>2, <3>3 DEF IntactInv, InstallsDone, InstallDone, Active
    <3>5. \A p, w : Writing(p, w)' <=> Writing(p, w)
      BY <3>1, <3>2, <3>3 DEF Writing, Active
    <3>6. SettledWhole'
      BY <3>1, <3>5 DEF IntactInv, SettledWhole, Whole
    <3> QED BY <1>1, <3>4, <3>6 DEF IntactInv
  <2>3. CASE Work(i) \/ Crash(i)
    <3>1. Active(i)
      BY <2>3, QuietSteps, CallSteps DEF Work, IntactInv, OwnerInv
    <3>2. PICK k : Step(i, k) /\ WholeOK(proc[i].pkg, k)
      BY <2>3, ItemWhole, CallWhole, EndWhole DEF Work
    <3>3. proc[i].pkg \in Packages /\ \A m \in Procs \ {i} : Active(m) => proc[m].pkg # proc[i].pkg
      BY <3>1 DEF IntactInv, OrphanInv, TypeOK, Jobs, Exclusive
    <3>4. \A x \in Paths :
            fs[x].to \in StoreFiles /\ fs[x].to[1] # proc[i].pkg => fs'[x].to = fs[x].to
      BY <2>3, <3>1, StillLinked DEF IntactInv
    <3> QED BY <1>1, <3>1, <3>2, <3>3, <3>4, WholeFrame
  <2> QED BY <2>1, <2>2, <2>3
<1> QED BY <1>2, <1>3

\* Whatever the packages, the system and the order of the steps, and however many
\* runs are killed: the version Current names is linked as a whole, unless the last
\* run of it was cut short or skipped an error. It needs what StoreImplemented needs
\* and that no run is given --over-foreign, with which any package may take
\* the links of another.
THEOREM InstalledWhole ==
    ASSUME Orderly, NeverForeign
    PROVE  Spec => []Intact
<1>1. Init => IntactInv
  <2>1. SUFFICES ASSUME Init PROVE IntactInv
    OBVIOUS
  <2>2. OrphanInv /\ OwnerInv
    BY <2>1, StoreInit DEF StoreInv
  <2>3. \A i \in Procs : ~Active(i)
    BY <2>1, IdleJobType DEF Init, Active
  <2> QED BY <2>1, <2>2, <2>3 DEF IntactInv, InstallsDone, SettledWhole, Init
<1>2. IntactInv /\ [Next]_vars => IntactInv'
  BY IntactStep
<1>3. IntactInv => Intact
  <2>1. SUFFICES ASSUME IntactInv, NEW p \in Packages, NEW v, v = current[p],
                        v # NoVersion, v \notin torn[p], ~Writing(p, v)
                 PROVE  \E u \in {p, RootUser} : \A x \in Items(p, v) :
                          Kind[p][v][x] = "reg" /\ x \notin Ignored[u][p][NoVersion] =>
                              IsLink(fs, x) /\ fs[x].to = <<p, v, x>>
    BY DEF Intact
  <2>2. Whole(p, v, fs) /\ v \in Versions
    BY <2>1 DEF IntactInv, SettledWhole, OrphanInv, TypeOK
  <2>3. PICK u \in {p, RootUser} : \A x \in Wanted(u, p, v) : fs[x].to = <<p, v, x>>
    BY <2>2 DEF Whole
  <2>4. ASSUME NEW x \in Items(p, v), fs[x].to = <<p, v, x>> PROVE IsLink(fs, x)
    <3>1. x \in Paths
      BY DEF Items
    <3>2. fs[x].to \in StoreFiles
      BY <2>2, <2>4, <3>1 DEF StoreFiles
    <3> QED BY <2>1, <3>1, <3>2 DEF IntactInv, OrphanInv, LinksOK, LinkOK, IsLink
  <2> QED BY <2>3, <2>4 DEF Wanted
<1> QED BY <1>1, <1>2, <1>3, PTL DEF Spec
=============================================================================
