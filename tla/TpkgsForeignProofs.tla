------------------------- MODULE TpkgsForeignProofs -------------------------
(***************************************************************************)
(* Proof that tpkgs leaves the links of other packages alone: ForeignInv   *)
(* is inductive, provided no two operators work on one package, no run is  *)
(* given --over-foreign and no path is a directory in one version and a    *)
(* file in another.                                                        *)
(***************************************************************************)
EXTENDS TpkgsProofs

Considerate == OnePerPackage /\ NeverForeign /\ NoKindClash

\* Path x is a file or a link in some version.
IsFile(x) == \E q \in Packages, v \in Versions : Kind[q][v][x] \in {"link", "reg"}

\* What a step of process i may do to the node at path x.
Change(i, x) ==
    \/ fs'[x] = fs[x]
    \/ ~IsLink(fs, x) /\ ~IsLink(fs', x)
    \/ fs[x].kind = "none" /\ IsFile(x)
    \/ /\ IsLink(fs, x) /\ IsLink(fs', x)
       /\ proc[i].pc = "setOwner" /\ proc[i].at = x
       /\ fs[x].owner \in {proc[i].pkg, RootUser}
    \/ IsLink(fs, x) /\ ~IsLink(fs', x) /\ fs[x].owner = proc[i].pkg

\* What a step has to show of the process it moves, k being its next state.
MoveOK(i, k) ==
    /\ k.pc # "idle" => HoldsNode(k, fs') /\ k.pkg = proc[i].pkg
    /\ k.pc = "setOwner" =>
         \/ ~IsLink(fs', k.at)
         \/ fs[k.at].kind = "none" /\ IsFile(k.at)
    /\ fs' = fs \/ k.pc # proc[i].pc
    /\ \A x \in Paths : Change(i, x)

\* The path of a directory to own is no file.
LEMMA DirIsNoFile ==
    ASSUME NoKindClash, NEW p \in Packages, NEW v \in Versions, NEW x \in Paths,
           Kind[p][v][x] = "dir"
    PROVE  ~IsFile(x)
BY DEF NoKindClash, IsFile

\* The other processes keep hold of their nodes.
LEMMA OthersHold ==
    ASSUME NoKindClash, ForeignInv, NEW i \in Procs, Active(i),
           NEW m \in Procs \ {i}, Active(m), NEW x \in Paths, proc[m].at = x, Change(i, x)
    PROVE  HoldsNode(proc[m], fs')
<1>1. /\ proc[m] \in Jobs /\ HoldsNode(proc[m], fs) /\ proc[m].pkg # proc[i].pkg
      /\ proc[m].pkg \in Packages /\ proc[m].ver \in Versions /\ proc[i].pkg \in Packages
  BY DEF ForeignInv, TypeOK, NodesHeld, Exclusive, Jobs
<1>2. proc[m].pkg # RootUser
  BY <1>1, NamesAssumption
<1>3. CASE fs'[x] = fs[x]
  BY <1>1, <1>3 DEF HoldsNode, IsLink
<1>4. CASE ~IsLink(fs, x) /\ ~IsLink(fs', x)
  BY <1>1, <1>4 DEF HoldsNode
<1>5. CASE fs[x].kind = "none" /\ IsFile(x)
  <2>1. ~IsLink(fs, x) /\ Kind[proc[m].pkg][proc[m].ver][x] # "dir"
    BY <1>1, <1>5, DirIsNoFile DEF IsLink
  <2> QED BY <1>1, <2>1 DEF HoldsNode
<1>6. CASE /\ IsLink(fs, x) /\ proc[i].pc = "setOwner" /\ proc[i].at = x
           /\ fs[x].owner \in {proc[i].pkg, RootUser}
  <2>1. proc[m].pc # "setOwner"
    BY <1>6 DEF ForeignInv, OwnersApart
  <2> QED BY <1>1, <1>2, <1>6, <2>1 DEF HoldsNode
<1>7. CASE IsLink(fs, x) /\ fs[x].owner = proc[i].pkg
  BY <1>1, <1>2, <1>7, NamesAssumption DEF HoldsNode
<1> QED BY <1>3, <1>4, <1>5, <1>6, <1>7 DEF Change

LEMMA ForeignFrame ==
    ASSUME NoKindClash, ForeignInv, TypeOK', NEW i \in Procs, Active(i), NEW k \in Jobs,
           Step(i, k), MoveOK(i, k)
    PROVE  ForeignInv'
<1> USE DEF ForeignInv
<1>1. proc'[i] = k /\ \A m \in Procs \ {i} : proc'[m] = proc[m]
  BY DEF TypeOK, Step
<1>2. Exclusive'
  BY <1>1 DEF Exclusive, Active, MoveOK
<1>3. \A m \in Procs : proc[m].at \in Paths
  BY DEF TypeOK, Jobs
<1>4. NodesHeld'
  <2> SUFFICES ASSUME NEW m \in Procs, Active(m)' PROVE HoldsNode(proc'[m], fs')
    BY DEF NodesHeld
  <2>1. CASE m = i
    BY <2>1, <1>1 DEF MoveOK, Active
  <2>2. CASE m # i
    BY <2>2, <1>1, <1>3, OthersHold DEF MoveOK, Active
  <2> QED BY <2>1, <2>2
<1>5. OwnersApart'
  <2>1. ASSUME NEW m \in Procs \ {i}, NEW n \in Procs \ {i}, m # n,
               proc[m].pc = "setOwner", proc[n].pc = "setOwner", proc[m].at = proc[n].at,
               IsLink(fs', proc[m].at)
        PROVE  FALSE
    <3> DEFINE x == proc[m].at
    <3>1. ~IsLink(fs, x)
      BY <2>1 DEF OwnersApart
    <3>2. /\ proc[m].pkg \in Packages /\ proc[m].ver \in Versions
          /\ HoldsNode(proc[m], fs)
      BY <2>1 DEF TypeOK, Jobs, NodesHeld, Active
    <3>3. ~IsFile(x)
      BY <1>3, <2>1, <3>1, <3>2, DirIsNoFile DEF HoldsNode
    <3>4. Change(i, x)
      BY <1>3 DEF MoveOK
    <3> QED BY <2>1, <3>1, <3>3, <3>4 DEF Change, IsLink
  <2>2. ASSUME NEW m \in Procs \ {i}, k.pc = "setOwner", proc[m].pc = "setOwner",
               proc[m].at = k.at, IsLink(fs', k.at)
        PROVE  FALSE
    <3>1. fs[k.at].kind = "none" /\ IsFile(k.at)
      BY <2>2 DEF MoveOK
    <3>2. /\ proc[m].pkg \in Packages /\ proc[m].ver \in Versions
          /\ HoldsNode(proc[m], fs)
      BY <2>2 DEF TypeOK, Jobs, NodesHeld, Active
    <3>3. Kind[proc[m].pkg][proc[m].ver][k.at] = "dir"
      BY <2>2, <3>1, <3>2 DEF HoldsNode, IsLink
    <3> QED BY <1>3, <2>2, <3>1, <3>2, <3>3, DirIsNoFile
  <2> QED BY <1>1, <2>1, <2>2 DEF OwnersApart
<1> QED BY <1>2, <1>4, <1>5

-----------------------------------------------------------------------------
(* Every step of a run is such a step                                        *)

\* An item is done with: no system call is due.
LEMMA PassedHolds ==
    ASSUME NEW j \in Jobs, NEW x \in Paths, NEW t, HoldsNode(j, t)
    PROVE  /\ Passed(j, x) \in Jobs /\ HoldsNode(Passed(j, x), t)
           /\ Passed(j, x).pc = "item" /\ Passed(j, x).pkg = j.pkg
<1> DEFINE k == Passed(j, x)
<1>1. k \in Jobs
  BY PassedType
<1>2. /\ k.pc = "item" /\ k.pkg = j.pkg /\ k.ver = j.ver /\ k.as = j.as
      /\ k.flags = j.flags /\ k.todo \subseteq j.todo
  BY DEF Passed, Jobs
<1> HIDE DEF k
<1>3. HoldsNode(k, t)
  BY <1>2 DEF HoldsNode
<1> QED BY <1>1, <1>2, <1>3 DEF k

\* Neither does it matter which errors were met.
LEMMA FlagsHold ==
    ASSUME NEW j \in Jobs, NEW t, HoldsNode(j, t), NEW k,
           k \in {[j EXCEPT !.bad = b] : b \in BOOLEAN} \cup {[j EXCEPT !.err = e] : e \in BOOLEAN}
    PROVE  k \in Jobs /\ HoldsNode(k, t) /\ k.pc = j.pc /\ k.pkg = j.pkg
<1>1. k \in Jobs
  BY DEF Jobs
<1>2. /\ k.pc = j.pc /\ k.pkg = j.pkg /\ k.ver = j.ver /\ k.as = j.as /\ k.at = j.at
      /\ k.flags = j.flags /\ k.todo = j.todo
  BY DEF Jobs
<1> QED BY <1>1, <1>2 DEF HoldsNode

\* What the invariant says of an active process.
LEMMA Holding ==
    ASSUME ForeignInv, NEW i \in Procs, Active(i)
    PROVE  /\ proc[i] \in Jobs /\ HoldsNode(proc[i], fs) /\ fs \in Trees
           /\ proc[i].pkg \in Packages /\ proc[i].ver \in Versions /\ proc[i].at \in Paths
           /\ proc[i].bad \in BOOLEAN /\ proc[i].err \in BOOLEAN /\ proc[i].as \in Users
           /\ proc[i].pkg # RootUser
BY NamesAssumption DEF ForeignInv, TypeOK, NodesHeld, Jobs, Active

\* A step that leaves the tree alone.
LEMMA QuietMove ==
    ASSUME NEW i \in Procs, NEW k, fs' = fs, k.pc # "setOwner",
           k.pc # "idle" => HoldsNode(k, fs) /\ k.pkg = proc[i].pkg
    PROVE  MoveOK(i, k)
BY DEF MoveOK, Change

LEMMA RaiseMoves ==
    ASSUME ForeignInv, NEW i \in Procs, Active(i), NEW x \in Paths, Raise(i, x)
    PROVE  \E k \in Jobs : Step(i, k) /\ MoveOK(i, k)
<1> DEFINE j == proc[i]
           d == Passed(j, x)
           k == [d EXCEPT !.bad = @ \/ j.pass = "real"]
<1>1. d \in Jobs /\ HoldsNode(d, fs) /\ d.pc = "item" /\ d.pkg = j.pkg
  BY Holding, PassedHolds
<1>2. CASE Step(i, k)
  <2>1. (d.bad \/ j.pass = "real") \in BOOLEAN
    OBVIOUS
  <2>2. k \in {[d EXCEPT !.bad = b] : b \in BOOLEAN}
    BY <2>1
  <2> HIDE DEF k, d
  <2>3. k \in Jobs /\ HoldsNode(k, fs) /\ k.pc = "item" /\ k.pkg = j.pkg
    BY <1>1, <2>2, FlagsHold
  <2> QED BY <1>2, <2>3, QuietMove DEF Raise
<1>3. CASE Step(i, IdleJob)
  <2>1. IdleJob \in Jobs /\ IdleJob.pc = "idle"
    BY IdleJobType
  <2> QED BY <1>3, <2>1, QuietMove DEF Raise
<1> QED BY <1>2, <1>3 DEF Raise

\* What a system call is due for.
LEMMA DueHolds ==
    ASSUME NEW j \in Jobs, "overForeign" \notin j.flags, NEW x \in Items(j.pkg, j.ver)
    PROVE  /\ Due(j, x) \in {"mkdir", "rmdir"} => Kind[j.pkg][j.ver][x] = "dir"
           /\ Due(j, x) = "rmdir" => fs[x].owner = j.pkg
           /\ Due(j, x) \in {"remove", "symlink"} => Kind[j.pkg][j.ver][x] \in {"link", "reg"}
           /\ Due(j, x) = "remove" => IsLink(fs, x) /\ fs[x].owner = j.pkg
<1>1. /\ j.pkg \in Packages /\ j.ver \in Versions /\ x \in Paths
      /\ j.act \in {"install", "uninstall"}
  BY DEF Jobs, Acts, Items
<1>2. Kind[j.pkg][j.ver][x] \in {"dir", "link", "reg", "other"}
  BY <1>1, StoreAssumption DEF Items
<1>3. InstallDirectory(x) \in {"fine", "mkdir", "error"}
  BY DEF InstallDirectory
<1>4. /\ UninstallDirectory(j, x) \in {"fine", "rmdir", "error"}
      /\ UninstallDirectory(j, x) = "rmdir" => fs[x].owner = j.pkg
  BY DEF UninstallDirectory, Owns
<1>5. /\ InstallLink(j, x) \in {"fine", "remove", "symlink", "error"}
      /\ InstallLink(j, x) = "remove" => IsLink(fs, x) /\ fs[x].owner = j.pkg
  BY DEF InstallLink, Vacant, MayTouch, Owns
<1>6. /\ UninstallLink(j, x) \in {"fine", "remove", "error"}
      /\ UninstallLink(j, x) = "remove" => IsLink(fs, x) /\ fs[x].owner = j.pkg
  BY DEF UninstallLink, Vacant, MayTouch, Owns
<1>7. CASE Skips(j, x)
  BY <1>7 DEF Due
<1>8. CASE ~Skips(j, x)
  <2>1. CASE Kind[j.pkg][j.ver][x] = "other"
    BY <1>8, <2>1 DEF Due
  <2>2. CASE Kind[j.pkg][j.ver][x] = "dir"
    BY <1>1, <1>3, <1>4, <1>8, <2>2 DEF Due
  <2>3. CASE Kind[j.pkg][j.ver][x] \in {"link", "reg"}
    BY <1>1, <1>5, <1>6, <1>8, <2>3 DEF Due
  <2> QED BY <1>2, <2>1, <2>2, <2>3
<1> QED BY <1>7, <1>8

\* The steps that leave the tree alone.
LEMMA QuietSteps ==
    ASSUME ForeignInv, NEW i \in Procs, 
           \/ DryItem(i) \/ DryStop(i) \/ DryEnd(i) \/ RealItem(i) \/ RealEnd(i)
           \/ ClearCurrent(i) \/ SetCurrent(i) \/ Crash(i)
    PROVE  Active(i) /\ \E k \in Jobs : Step(i, k) /\ MoveOK(i, k)
<1> DEFINE j == proc[i]
<1>0. Active(i)
  BY DEF DryItem, DryStop, DryEnd, RealItem, RealEnd, ClearCurrent, SetCurrent, Crash, Active
<1>1. /\ j \in Jobs /\ HoldsNode(j, fs) /\ j.pkg \in Packages /\ j.ver \in Versions
      /\ j.bad \in BOOLEAN /\ j.err \in BOOLEAN /\ j.as \in Users
  BY <1>0, Holding
<1>2. ASSUME NEW k, Step(i, k), fs' = fs, k \in Jobs, HoldsNode(k, fs), k.pkg = j.pkg,
             k.pc # "setOwner"
      PROVE  \E q \in Jobs : Step(i, q) /\ MoveOK(i, q)
  BY <1>2, QuietMove
<1>3. ASSUME Step(i, IdleJob), fs' = fs
      PROVE  \E q \in Jobs : Step(i, q) /\ MoveOK(i, q)
  <2>1. IdleJob \in Jobs /\ IdleJob.pc = "idle"
    BY IdleJobType
  <2> QED BY <1>3, <2>1, QuietMove
<1>4. \A x \in j.todo : x \in Paths /\ x \in Items(j.pkg, j.ver)
  BY <1>1 DEF HoldsNode, Jobs
<1>5. ASSUME DryItem(i) PROVE \E q \in Jobs : Step(i, q) /\ MoveOK(i, q)
  <2>1. PICK x \in Ready(j) :
           Step(i, [Passed(j, x) EXCEPT !.err = @ \/ Due(j, x) = "error"])
    BY <1>5 DEF DryItem
  <2> DEFINE d == Passed(j, x)
             k == [d EXCEPT !.err = @ \/ Due(j, x) = "error"]
  <2>2. d \in Jobs /\ HoldsNode(d, fs) /\ d.pc = "item" /\ d.pkg = j.pkg
    BY <1>1, <1>4, PassedHolds DEF Ready
  <2>3. (d.err \/ Due(j, x) = "error") \in BOOLEAN
    OBVIOUS
  <2>4. k \in {[d EXCEPT !.err = e] : e \in BOOLEAN}
    BY <2>3
  <2>5. Step(i, k) /\ fs' = fs
    BY <1>5, <2>1 DEF DryItem
  <2> HIDE DEF k, d
  <2>6. k \in Jobs /\ HoldsNode(k, fs) /\ k.pc = "item" /\ k.pkg = j.pkg
    BY <2>2, <2>4, FlagsHold
  <2> QED BY <1>2, <2>5, <2>6
<1>6. ASSUME DryEnd(i) \/ RealEnd(i) PROVE \E q \in Jobs : Step(i, q) /\ MoveOK(i, q)
  <2>1. PICK k : /\ Step(i, k) /\ fs' = fs
                 /\ \/ k = [j EXCEPT !.pass = "real", !.todo = Items(j.pkg, j.ver)]
                    \/ k = [j EXCEPT !.pass = "third", !.todo = Items(j.pkg, j.ver)]
                    \/ k = [j EXCEPT !.pc = "clearCurrent"]
    BY <1>6 DEF DryEnd, RealEnd
  <2>2. j.pc = "item"
    BY <1>6 DEF DryEnd, RealEnd
  <2>3. k \in Jobs /\ k.pc \in {"item", "clearCurrent"}
    BY <1>1, <2>1, <2>2 DEF Jobs, Pcs, Passes, Items
  <2>4. /\ k.pkg = j.pkg /\ k.ver = j.ver /\ k.as = j.as /\ k.flags = j.flags
        /\ k.todo \in {j.todo, Items(j.pkg, j.ver)}
    BY <1>1, <2>1 DEF Jobs
  <2>5. HoldsNode(k, fs)
    BY <1>1, <2>3, <2>4 DEF HoldsNode
  <2> QED BY <1>2, <2>1, <2>3, <2>4, <2>5
<1>7. ASSUME RealItem(i) PROVE \E q \in Jobs : Step(i, q) /\ MoveOK(i, q)
  <2>1. PICK x \in Ready(j) :
           \/ Step(i, Passed(j, x)) /\ fs' = fs
           \/ Raise(i, x)
           \/ /\ Due(j, x) \in {"remove", "symlink", "mkdir", "rmdir"}
              /\ Step(i, [j EXCEPT !.pc = Due(j, x), !.at = x]) /\ fs' = fs
    BY <1>7 DEF RealItem
  <2>2. x \in Paths /\ x \in Items(j.pkg, j.ver)
    BY <1>4 DEF Ready
  <2>3. CASE Step(i, Passed(j, x)) /\ fs' = fs
    BY <1>1, <1>2, <2>2, <2>3, PassedHolds
  <2>4. CASE Raise(i, x)
    BY <1>0, <2>2, <2>4, RaiseMoves
  <2>5. CASE /\ Due(j, x) \in {"remove", "symlink", "mkdir", "rmdir"}
             /\ Step(i, [j EXCEPT !.pc = Due(j, x), !.at = x]) /\ fs' = fs
    <3> DEFINE k == [j EXCEPT !.pc = Due(j, x), !.at = x]
    <3>1. k \in Jobs
      BY <1>1, <2>2, <2>5 DEF Jobs, Pcs
    <3>2. /\ k.pc = Due(j, x) /\ k.at = x /\ k.pkg = j.pkg /\ k.ver = j.ver /\ k.as = j.as
          /\ k.flags = j.flags /\ k.todo = j.todo
      BY <1>1 DEF Jobs
    <3>3. Step(i, k)
      BY <2>5
    <3> HIDE DEF k
    <3>4. HoldsNode(k, fs)
      BY <1>1, <2>2, <2>5, <3>2, DueHolds DEF HoldsNode
    <3> QED BY <1>2, <2>5, <3>1, <3>2, <3>3, <3>4
  <2> QED BY <2>1, <2>3, <2>4, <2>5
<1>8. ASSUME ClearCurrent(i) PROVE \E q \in Jobs : Step(i, q) /\ MoveOK(i, q)
  <2>1. CASE Step(i, [j EXCEPT !.pc = "setCurrent"])
    <3> DEFINE k == [j EXCEPT !.pc = "setCurrent"]
    <3>1. k \in Jobs
      BY <1>1 DEF Jobs, Pcs
    <3>2. /\ k.pc = "setCurrent" /\ k.pkg = j.pkg /\ k.ver = j.ver /\ k.as = j.as
          /\ k.flags = j.flags /\ k.todo = j.todo
      BY <1>1 DEF Jobs
    <3>3. Step(i, k)
      BY <2>1
    <3> HIDE DEF k
    <3>4. HoldsNode(k, fs)
      BY <1>1, <3>2 DEF HoldsNode
    <3> QED BY <1>2, <1>8, <3>1, <3>2, <3>3, <3>4 DEF ClearCurrent
  <2>2. CASE Step(i, IdleJob)
    BY <1>3, <1>8, <2>2 DEF ClearCurrent
  <2>3. CASE Step(i, NewJob("install", j.pkg, j.next, NoVersion, j.as, j.flags))
             /\ j.next # NoVersion
    <3> DEFINE k == NewJob("install", j.pkg, j.next, NoVersion, j.as, j.flags)
    <3>1. k \in Jobs
      BY <1>1, <2>3, NewJobType DEF Jobs, Acts
    <3>2. k.pc = "item" /\ k.pkg = j.pkg
      BY DEF NewJob
    <3>3. HoldsNode(k, fs)
      BY <1>1 DEF HoldsNode, NewJob
    <3>4. Step(i, k)
      BY <2>3
    <3> HIDE DEF k
    <3> QED BY <1>2, <1>8, <3>1, <3>2, <3>3, <3>4 DEF ClearCurrent
  <2> QED BY <1>8, <2>1, <2>2, <2>3 DEF ClearCurrent
<1> QED BY <1>0, <1>3, <1>5, <1>6, <1>7, <1>8 DEF DryStop, SetCurrent, Crash

\* The system calls.
LEMMA CallSteps ==
    ASSUME ForeignInv, NEW i \in Procs,
           Remove(i) \/ RemoveDirectory(i) \/ Symlink(i) \/ MakeDirectory(i) \/ SetOwner(i)
    PROVE  Active(i) /\ \E k \in Jobs : Step(i, k) /\ MoveOK(i, k)
<1> DEFINE j == proc[i]
<1>0. Active(i)
  BY DEF Remove, RemoveDirectory, Symlink, MakeDirectory, SetOwner, Active
<1>1. /\ j \in Jobs /\ HoldsNode(j, fs) /\ j.pkg \in Packages /\ j.ver \in Versions
      /\ j.at \in Paths /\ fs \in Trees
  BY <1>0, Holding
<1>2. ASSUME Raise(i, j.at) PROVE \E q \in Jobs : Step(i, q) /\ MoveOK(i, q)
  BY <1>0, <1>1, <1>2, RaiseMoves
<1>3. ASSUME Step(i, Passed(j, j.at)), \A x \in Paths : Change(i, x),
             j.pc \in {"remove", "rmdir", "setOwner"}
      PROVE  \E q \in Jobs : Step(i, q) /\ MoveOK(i, q)
  <2> DEFINE k == Passed(j, j.at)
  <2>1. k \in Jobs /\ HoldsNode(k, fs) /\ k.pc = "item" /\ k.pkg = j.pkg
    BY <1>1, PassedHolds
  <2>2. Step(i, k)
    BY <1>3
  <2> HIDE DEF k
  <2>3. HoldsNode(k, fs')
    BY <2>1 DEF HoldsNode
  <2> QED BY <1>3, <2>1, <2>2, <2>3 DEF MoveOK
<1>4. ASSUME NEW c \in {"symlink", "setOwner"}, Step(i, [j EXCEPT !.pc = c]), j.pc # c,
             \A x \in Paths : Change(i, x),
             c = "symlink" => Kind[j.pkg][j.ver][j.at] \in {"link", "reg"},
             c = "setOwner" =>
                \/ Kind[j.pkg][j.ver][j.at] = "dir" /\ ~IsLink(fs', j.at)
                \/ /\ Kind[j.pkg][j.ver][j.at] \in {"link", "reg"}
                   /\ IsLink(fs', j.at) /\ fs'[j.at].owner \in {j.pkg, RootUser}
                   /\ fs[j.at].kind = "none" /\ IsFile(j.at)
      PROVE  \E q \in Jobs : Step(i, q) /\ MoveOK(i, q)
  <2> DEFINE k == [j EXCEPT !.pc = c]
  <2>1. k \in Jobs
    BY <1>1 DEF Jobs, Pcs
  <2>2. /\ k.pc = c /\ k.pkg = j.pkg /\ k.ver = j.ver /\ k.as = j.as /\ k.at = j.at
        /\ k.flags = j.flags /\ k.todo = j.todo
    BY <1>1 DEF Jobs
  <2>3. Step(i, k)
    BY <1>4
  <2> HIDE DEF k
  <2>4. HoldsNode(k, fs')
    BY <1>1, <1>4, <2>2 DEF HoldsNode
  <2> QED BY <1>4, <2>1, <2>2, <2>3, <2>4 DEF MoveOK
<1>5. ASSUME fs' = Removed(fs, j.at)
      PROVE  /\ ~IsLink(fs', j.at)
             /\ \A x \in Paths \ {j.at} : fs'[x] = fs[x]
  BY <1>1, <1>5 DEF Removed, Absent, IsLink, Trees
<1>6. ASSUME Remove(i) PROVE \E q \in Jobs : Step(i, q) /\ MoveOK(i, q)
  <2>1. CASE Raise(i, j.at)
    BY <1>2, <2>1
  <2>2. CASE /\ fs' = Removed(fs, j.at)
             /\ Step(i, IF j.act = "install" THEN [j EXCEPT !.pc = "symlink"]
                                             ELSE Passed(j, j.at))
    <3>1. /\ j.pc = "remove" /\ IsLink(fs, j.at) /\ fs[j.at].owner = j.pkg
          /\ Kind[j.pkg][j.ver][j.at] \in {"link", "reg"}
      BY <1>1, <1>6 DEF Remove, HoldsNode
    <3>2. \A x \in Paths : Change(i, x)
      BY <1>5, <2>2, <3>1 DEF Change
    <3>3. CASE j.act = "install"
      BY <1>4, <2>2, <3>1, <3>2, <3>3
    <3>4. CASE j.act # "install"
      BY <1>3, <2>2, <3>1, <3>2, <3>4
    <3> QED BY <3>3, <3>4
  <2> QED BY <1>6, <2>1, <2>2 DEF Remove
<1>7. ASSUME RemoveDirectory(i) PROVE \E q \in Jobs : Step(i, q) /\ MoveOK(i, q)
  <2>1. /\ j.pc = "rmdir" /\ Step(i, Passed(j, j.at))
        /\ IsLink(fs, j.at) => fs[j.at].owner = j.pkg
    BY <1>1, <1>7 DEF RemoveDirectory, HoldsNode
  <2>2. \A x \in Paths : Change(i, x)
    <3>1. CASE fs' = Removed(fs, j.at)
      BY <1>5, <2>1, <3>1 DEF Change
    <3>2. CASE fs' = fs
      BY <3>2 DEF Change
    <3> QED BY <1>7, <3>1, <3>2 DEF RemoveDirectory
  <2> QED BY <1>3, <2>1, <2>2
<1>8. ASSUME Symlink(i) PROVE \E q \in Jobs : Step(i, q) /\ MoveOK(i, q)
  <2>1. CASE Raise(i, j.at)
    BY <1>2, <2>1
  <2>2. CASE /\ CanSymlink(fs, j.as, j.at)
             /\ fs' = Symlinked(fs, j.as, j.at, LinkContent(j.pkg, j.ver, j.at))
             /\ Step(i, [j EXCEPT !.pc = "setOwner"])
    <3>1. /\ j.pc = "symlink" /\ fs[j.at].kind = "none" /\ j.as \in {j.pkg, RootUser}
          /\ Kind[j.pkg][j.ver][j.at] \in {"link", "reg"} /\ IsFile(j.at)
      BY <1>1, <1>8, <2>2 DEF Symlink, HoldsNode, CanSymlink, IsFile
    <3>2. /\ IsLink(fs', j.at) /\ fs'[j.at].owner = j.as
          /\ \A x \in Paths \ {j.at} : fs'[x] = fs[x]
      BY <1>1, <2>2 DEF Symlinked, Link, IsLink, Trees
    <3>3. \A x \in Paths : Change(i, x)
      BY <3>1, <3>2 DEF Change
    <3> QED BY <1>4, <2>2, <3>1, <3>2, <3>3
  <2> QED BY <1>8, <2>1, <2>2 DEF Symlink
<1>9. ASSUME MakeDirectory(i) PROVE \E q \in Jobs : Step(i, q) /\ MoveOK(i, q)
  <2>1. CASE Raise(i, j.at)
    BY <1>2, <2>1
  <2>2. CASE /\ CanMakeDirs(fs, j.as, j.at) /\ fs' = MadeDirs(fs, j.as, j.at)
             /\ Step(i, [j EXCEPT !.pc = "setOwner"])
    <3>1. j.pc = "mkdir" /\ Kind[j.pkg][j.ver][j.at] = "dir"
      BY <1>1, <1>9 DEF MakeDirectory, HoldsNode
    <3>2. \A x \in Paths : fs'[x] = fs[x] \/ (~IsLink(fs, x) /\ ~IsLink(fs', x))
      BY <1>1, <2>2, PathsAssumption DEF MadeDirs, Missing, Dir, IsLink
    <3>3. ~IsLink(fs', j.at)
      BY <1>1, <2>2 DEF MadeDirs, Missing, CanMakeDirs, IsDir, IsLink, Dir
    <3>4. \A x \in Paths : Change(i, x)
      BY <3>2 DEF Change
    <3> QED BY <1>4, <2>2, <3>1, <3>3, <3>4
  <2> QED BY <1>9, <2>1, <2>2 DEF MakeDirectory
<1>10. ASSUME SetOwner(i) PROVE \E q \in Jobs : Step(i, q) /\ MoveOK(i, q)
  <2>1. CASE Raise(i, j.at)
    BY <1>2, <2>1
  <2>2. CASE fs' = OwnerSet(fs, j.pkg, j.at) /\ Step(i, Passed(j, j.at))
    <3>1. /\ j.pc = "setOwner"
          /\ ~IsLink(fs, j.at) \/ fs[j.at].owner \in {j.pkg, RootUser}
      BY <1>1, <1>10 DEF SetOwner, HoldsNode
    <3>2. \A x \in Paths : fs'[x].kind = fs[x].kind /\ (x # j.at => fs'[x] = fs[x])
      BY <1>1, <2>2 DEF OwnerSet, Trees, Node
    <3>3. \A x \in Paths : Change(i, x)
      BY <3>1, <3>2 DEF Change, IsLink
    <3> QED BY <1>3, <2>2, <3>1, <3>3
  <2> QED BY <1>10, <2>1, <2>2 DEF SetOwner
<1> QED BY <1>0, <1>6, <1>7, <1>8, <1>9, <1>10

\* A new run starts with a dry run.
LEMMA ForeignCommand ==
    ASSUME Considerate, ForeignInv, TypeOK', NEW i \in Procs, Command(i)
    PROVE  ForeignInv' /\ fs' = fs
<1> PICK p \in Packages, v \in Versions, u \in Users :
       \/ \E f \in FlagSets["install"] : Install(i, p, v, u, f)
       \/ \E f \in FlagSets["uninstall"] : Uninstall(i, p, v, u, f)
  BY DEF Command
<1>1. /\ ~Active(i) /\ fs' = fs /\ u \in {p, RootUser}
      /\ \A m \in Procs \ {i} : Active(m) => proc[m].pkg # p
  BY DEF Install, Uninstall, Free, Considerate
<1>2. PICK a \in Acts, w \in Versions, n \in Versions \cup {NoVersion}, f \in SUBSET Flags :
         Step(i, NewJob(a, p, w, n, u, f)) /\ "overForeign" \notin f
  <2>1. "install" \in Acts /\ "uninstall" \in Acts
    BY DEF Acts
  <2>2. \A a \in Acts : \A f \in FlagSets[a] : "overForeign" \notin f
    BY DEF Considerate, NeverForeign
  <2>3. \A a \in Acts : FlagSets[a] \subseteq SUBSET Flags
    BY FlagAssumption
  <2>4. current[p] \in Versions \cup {NoVersion}
    BY DEF ForeignInv, TypeOK
  <2> QED BY <2>1, <2>2, <2>3, <2>4 DEF Install, Uninstall
<1> DEFINE k == NewJob(a, p, w, n, u, f)
<1>3. k.pc = "item" /\ k.pkg = p /\ HoldsNode(k, fs)
  BY <1>1, <1>2 DEF NewJob, HoldsNode
<1>4. Step(i, k)
  BY <1>2
<1> HIDE DEF k
<1>5. proc'[i] = k /\ \A m \in Procs \ {i} : proc'[m] = proc[m]
  BY <1>4 DEF ForeignInv, TypeOK, Step
<1> USE DEF ForeignInv
<1>6. Exclusive'
  BY <1>1, <1>3, <1>5 DEF Exclusive, Active
<1>7. NodesHeld'
  BY <1>1, <1>3, <1>5 DEF NodesHeld, Active
<1>8. OwnersApart'
  BY <1>1, <1>3, <1>5 DEF OwnersApart
<1> QED BY <1>1, <1>6, <1>7, <1>8

-----------------------------------------------------------------------------
(* The theorem                                                               *)

\* What ForeignUntouched says of one step.
Untouched ==
    \A x \in Paths :
      IsLink(fs, x) /\ fs[x].owner \in Packages /\ fs'[x] # fs[x] =>
        \E i \in Procs :
            /\ proc'[i] # proc[i]
            /\ \/ proc[i].pkg = fs[x].owner
               \/ "overForeign" \in proc[i].flags

LEMMA ForeignStep ==
    ASSUME Considerate, ForeignInv, [Next]_vars
    PROVE  ForeignInv' /\ Untouched
<1>1. TypeOK'
  BY TypeInductive DEF ForeignInv
<1>2. CASE UNCHANGED vars
  <2>1. ForeignInv'
    BY <1>2 DEF vars, ForeignInv, TypeOK, Exclusive, NodesHeld, OwnersApart, Active
  <2> QED BY <1>2, <2>1 DEF vars, Untouched
<1>3. CASE Next
  <2>1. PICK i \in Procs : Command(i) \/ Work(i) \/ Crash(i)
    BY <1>3 DEF Next
  <2>2. CASE Command(i)
    BY <1>1, <2>2, ForeignCommand DEF Untouched
  <2>3. CASE Work(i) \/ Crash(i)
    <3>1. Active(i) /\ \E k \in Jobs : Step(i, k) /\ MoveOK(i, k)
      BY <2>3, QuietSteps, CallSteps DEF Work
    <3>2. PICK k \in Jobs : Step(i, k) /\ MoveOK(i, k)
      BY <3>1
    <3>3. ForeignInv'
      BY <1>1, <3>1, <3>2, ForeignFrame DEF Considerate
    <3>4. ASSUME NEW x \in Paths, IsLink(fs, x), fs[x].owner \in Packages, fs'[x] # fs[x]
          PROVE  proc'[i] # proc[i] /\ proc[i].pkg = fs[x].owner
      <4>1. proc'[i] = k
        BY <3>2 DEF Step, ForeignInv, TypeOK
      <4>2. Change(i, x)
        BY <3>2 DEF MoveOK
      <4> QED BY <3>2, <3>4, <4>1, <4>2, NamesAssumption DEF MoveOK, Change, IsLink
    <3> QED BY <3>3, <3>4 DEF Untouched
  <2> QED BY <2>1, <2>2, <2>3
<1> QED BY <1>2, <1>3

LEMMA ForeignInit == Init => ForeignInv
<1> SUFFICES ASSUME Init PROVE ForeignInv
  OBVIOUS
<1>1. \A i \in Procs : proc[i].pc = "idle"
  BY DEF Init, IdleJob, NewJob
<1> QED BY <1>1, TypeInit DEF ForeignInv, Exclusive, NodesHeld, OwnersApart, Active

\* Whatever the packages, the system and the order of the steps: a link that
\* belongs to a package is removed or changed by a run on that package only.
\* Without OnePerPackage it fails: two runs of root on one package and a third one
\* on another can remove a link that is not the one that was checked.
THEOREM LinksUntouched ==
    ASSUME Considerate
    PROVE  Spec => ForeignUntouched
<1>1. ForeignInv /\ [Next]_vars => ForeignInv'
  BY ForeignStep
<1>2. ForeignInv /\ [Next]_vars => [Untouched]_vars
  BY ForeignStep
<1> QED BY <1>1, <1>2, ForeignInit, PTL DEF Spec, ForeignUntouched, Untouched

-----------------------------------------------------------------------------
(* Only links that say what they should are removed                          *)

\* Where a version of a package has a directory the system holds no link of that
\* package at first.
NoOwnLinkAtFirst ==
    \A t \in InitialTrees, p \in Packages, v \in Versions, x \in Paths :
        Kind[p][v][x] = "dir" /\ IsLink(t, x) => t[x].owner # p

\* What WrongLinksKept says of one step.
WrongKept ==
    \A x \in Paths :
      IsLink(fs, x) /\ ~IsLink(fs', x) =>
        \E i \in Procs :
            /\ proc'[i] # proc[i]
            /\ RightLink(proc[i], x) \/ "overWrong" \in proc[i].flags

\* A link is only about to be removed if it is the right one, or any will do.
LEMMA DueRight ==
    ASSUME NEW j \in Jobs, NEW x \in Items(j.pkg, j.ver), Due(j, x) = "remove"
    PROVE  RightLink(j, x) \/ "overWrong" \in j.flags
<1>1. /\ j.pkg \in Packages /\ j.ver \in Versions /\ x \in Paths
  BY DEF Jobs, Items
<1>2. Kind[j.pkg][j.ver][x] \in {"dir", "link", "reg", "other"}
  BY <1>1, StoreAssumption DEF Items
<1>3. InstallDirectory(x) # "remove" /\ UninstallDirectory(j, x) # "remove"
  BY DEF InstallDirectory, UninstallDirectory
<1>4. InstallLink(j, x) = "remove" => "overWrong" \in j.flags
  BY DEF InstallLink
<1>5. UninstallLink(j, x) = "remove" => RightLink(j, x) \/ "overWrong" \in j.flags
  BY DEF UninstallLink
<1> QED BY <1>2, <1>3, <1>4, <1>5 DEF Due

\* Only RealItem brings a process to remove a link.
LEMMA ToRemove ==
    ASSUME ForeignInv, NEW i \in Procs, Active(i), Work(i) \/ Crash(i), proc'[i].pc = "remove"
    PROVE  /\ fs' = fs
           /\ RightLink(proc[i], proc[i].at)' \/ "overWrong" \in proc'[i].flags
<1> DEFINE j == proc[i]
<1>1. j \in Jobs /\ HoldsNode(j, fs) /\ j.pkg \in Packages /\ j.ver \in Versions
  BY Holding
<1>2. \A k : Step(i, k) => proc'[i] = k
  BY DEF Step, ForeignInv, TypeOK
<1>3. \A x : Passed(j, x).pc = "item"
  BY <1>1 DEF Passed, Jobs
<1>4. ~Step(i, IdleJob)
  BY <1>2, IdleJobType
<1>5. \A x : ~Raise(i, x)
  <2> SUFFICES ASSUME NEW x, Raise(i, x) PROVE FALSE
    OBVIOUS
  <2> DEFINE d == Passed(j, x)
             k == [d EXCEPT !.bad = @ \/ j.pass = "real"]
  <2>1. Step(i, k)
    BY <1>4 DEF Raise
  <2>2. k.pc = "item"
    BY <1>1 DEF Passed, Jobs
  <2> HIDE DEF k
  <2> QED BY <1>2, <2>1, <2>2
<1>6. \A c \in {"symlink", "setOwner", "setCurrent", "clearCurrent"} :
        ~Step(i, [j EXCEPT !.pc = c])
  BY <1>1, <1>2 DEF Jobs
<1>7. ~(Remove(i) \/ Symlink(i) \/ MakeDirectory(i) \/ SetOwner(i) \/ RemoveDirectory(i))
  BY <1>2, <1>3, <1>5, <1>6 DEF Remove, Symlink, MakeDirectory, SetOwner, RemoveDirectory
<1>8. ~(DryStop(i) \/ SetCurrent(i) \/ Crash(i))
  BY <1>4 DEF DryStop, SetCurrent, Crash
<1>9. ~ClearCurrent(i)
  <2>1. \A a, p, v, n, u, f : NewJob(a, p, v, n, u, f).pc = "item"
    BY DEF NewJob
  <2> QED BY <1>2, <1>4, <1>6, <2>1 DEF ClearCurrent
<1>10. ~DryItem(i)
  <2> SUFFICES ASSUME NEW x, Step(i, [Passed(j, x) EXCEPT !.err = @ \/ Due(j, x) = "error"])
               PROVE FALSE
    BY DEF DryItem
  <2> DEFINE d == Passed(j, x)
             k == [d EXCEPT !.err = @ \/ Due(j, x) = "error"]
  <2>1. Step(i, k)
    OBVIOUS
  <2>2. k.pc = "item"
    BY <1>1 DEF Passed, Jobs
  <2> HIDE DEF k
  <2> QED BY <1>2, <2>1, <2>2
<1>11. ~DryEnd(i)
  <2> DEFINE k == [j EXCEPT !.pass = "real", !.todo = Items(j.pkg, j.ver)]
  <2>1. DryEnd(i) => Step(i, k) /\ j.pc = "item"
    BY DEF DryEnd
  <2>2. k.pc = j.pc
    BY <1>1 DEF Jobs
  <2> HIDE DEF k
  <2> QED BY <1>2, <2>1, <2>2
<1>12. ~RealEnd(i)
  <2> DEFINE k == [j EXCEPT !.pass = "third", !.todo = Items(j.pkg, j.ver)]
  <2>1. RealEnd(i) => Step(i, k) /\ j.pc = "item"
    BY <1>6 DEF RealEnd
  <2>2. k.pc = j.pc
    BY <1>1 DEF Jobs
  <2> HIDE DEF k
  <2> QED BY <1>2, <2>1, <2>2
<1>13. RealItem(i)
  BY <1>7, <1>8, <1>9, <1>10, <1>11, <1>12 DEF Work
<1>14. PICK x \in Ready(j) :
         /\ Step(i, [j EXCEPT !.pc = Due(j, x), !.at = x])
         /\ fs' = fs
  BY <1>2, <1>3, <1>5, <1>13 DEF RealItem
<1>15. x \in Paths /\ x \in Items(j.pkg, j.ver)
  BY <1>1 DEF Ready, HoldsNode, Items
<1>16. /\ proc'[i].pc = Due(j, x) /\ proc'[i].at = x /\ proc'[i].pkg = j.pkg
       /\ proc'[i].ver = j.ver /\ proc'[i].flags = j.flags
  BY <1>1, <1>2, <1>14 DEF Jobs
<1>17. RightLink(j, x) \/ "overWrong" \in j.flags
  BY <1>1, <1>15, <1>16, DueRight
<1> QED BY <1>14, <1>16, <1>17 DEF RightLink

\* Only remove and rmdir take a link away or change its content, and only where
\* they are due.
LEMMA Unlinks ==
    ASSUME ForeignInv, NEW i \in Procs, Active(i), Work(i) \/ Crash(i),
           NEW x \in Paths, IsLink(fs, x), ~IsLink(fs', x) \/ fs'[x].to # fs[x].to
    PROVE  proc[i].pc \in {"remove", "rmdir"} /\ proc[i].at = x
<1> DEFINE j == proc[i]
           z == j.at
<1>1. fs \in Trees /\ z \in Paths
  BY Holding
<1>2. fs' # fs
  OBVIOUS
<1>3. ~(CanSymlink(fs, j.as, z) /\ fs' = Symlinked(fs, j.as, z, LinkContent(j.pkg, j.ver, z)))
  <2>1. CanSymlink(fs, j.as, z) => x # z
    BY DEF CanSymlink, IsLink
  <2>2. fs' = Symlinked(fs, j.as, z, LinkContent(j.pkg, j.ver, z)) /\ x # z => fs'[x] = fs[x]
    BY <1>1 DEF Symlinked, Trees
  <2> QED BY <2>1, <2>2 DEF IsLink
<1>4. ~(fs' = MadeDirs(fs, j.as, z))
  BY <1>1 DEF MadeDirs, Missing, IsLink
<1>5. ~(fs' = OwnerSet(fs, j.pkg, z))
  BY <1>1 DEF OwnerSet, IsLink, Trees, Node
<1>6. \A y : ~Raise(i, y)
  BY <1>2 DEF Raise
<1>7. Remove(i) \/ RemoveDirectory(i)
  BY <1>2, <1>3, <1>4, <1>5, <1>6
     DEF Work, DryItem, DryStop, DryEnd, RealItem, RealEnd, Symlink, SetOwner, MakeDirectory,
         ClearCurrent, SetCurrent, Crash
<1>8. j.pc \in {"remove", "rmdir"} /\ fs' = Removed(fs, z)
  BY <1>2, <1>6, <1>7 DEF Remove, RemoveDirectory
<1>9. x # z => fs'[x] = fs[x]
  BY <1>1, <1>8 DEF Removed, Trees
<1> QED BY <1>8, <1>9 DEF IsLink

\* A new link is at the path of a file, and so is one that gets an owner.
LEMMA NoOwnLinkStep ==
    ASSUME NoKindClash, ForeignInv, NoOwnLink, NEW i \in Procs, Active(i),
           \A x \in Paths : Change(i, x)
    PROVE  NoOwnLink'
<1>1. SUFFICES ASSUME NEW p \in Packages, NEW v \in Versions, NEW x \in Paths,
                      Kind[p][v][x] = "dir", IsLink(fs', x), fs'[x].owner = p
               PROVE  FALSE
  BY DEF NoOwnLink
<1>2. ~IsFile(x)
  BY <1>1, DirIsNoFile
<1>3. fs'[x] # fs[x]
  BY <1>1 DEF NoOwnLink, IsLink
<1>4. IsLink(fs, x) /\ proc[i].pc = "setOwner" /\ proc[i].at = x
  BY <1>1, <1>2, <1>3 DEF Change
<1>5. /\ HoldsNode(proc[i], fs) /\ proc[i].pkg \in Packages /\ proc[i].ver \in Versions
  BY Holding
<1> QED BY <1>2, <1>4, <1>5 DEF HoldsNode, IsFile

LEMMA WrongStep ==
    ASSUME Considerate, WrongInv, [Next]_vars
    PROVE  WrongInv' /\ WrongKept
<1> USE DEF WrongInv
<1>1. ForeignInv'
  BY ForeignStep
<1>2. CASE UNCHANGED vars
  <2>1. WrongInv'
    BY <1>1, <1>2 DEF vars, NoOwnLink, RemovesRight, RightLink
  <2> QED BY <1>2, <2>1 DEF vars, WrongKept
<1>3. CASE Next
  <2>1. PICK i \in Procs : Command(i) \/ Work(i) \/ Crash(i)
    BY <1>3 DEF Next
  <2>2. CASE Command(i)
    <3>1. fs' = fs
      BY <2>2, <1>1, ForeignCommand DEF ForeignInv
    <3>2. \A m \in Procs : proc'[m].pc = "remove" => proc'[m] = proc[m]
      BY <2>2 DEF Command, Install, Uninstall, Step, NewJob, ForeignInv, TypeOK
    <3> QED BY <1>1, <3>1, <3>2 DEF NoOwnLink, RemovesRight, RightLink, WrongKept
  <2>3. CASE Work(i) \/ Crash(i)
    <3>1. Active(i) /\ \E k \in Jobs : Step(i, k) /\ MoveOK(i, k)
      BY <2>3, QuietSteps, CallSteps DEF Work
    <3>2. PICK k \in Jobs : Step(i, k) /\ MoveOK(i, k)
      BY <3>1
    <3>3. proc'[i] = k /\ \A m \in Procs \ {i} : proc'[m] = proc[m]
      BY <3>2 DEF Step, ForeignInv, TypeOK
    <3>4. \A x \in Paths : Change(i, x)
      BY <3>2 DEF MoveOK
    <3>5. NoOwnLink'
      BY <3>1, <3>4, NoOwnLinkStep DEF Considerate
    <3>6. RemovesRight'
      <4>1. ASSUME NEW m \in Procs \ {i}, proc[m].pc = "remove"
            PROVE  RightLink(proc[m], proc[m].at)' \/ "overWrong" \in proc'[m].flags
        <5>1. Active(m) /\ proc[m].pkg # proc[i].pkg
          BY <3>1, <4>1 DEF Active, ForeignInv, Exclusive
        <5>2. /\ proc[m].at \in Paths /\ IsLink(fs, proc[m].at)
              /\ fs[proc[m].at].owner = proc[m].pkg /\ proc[m].pkg # RootUser
          BY <4>1, <5>1, Holding DEF HoldsNode
        <5>3. fs'[proc[m].at] = fs[proc[m].at]
          BY <3>4, <5>1, <5>2 DEF Change, IsLink
        <5> QED BY <3>3, <4>1, <5>3 DEF RemovesRight, RightLink
      <4>2. proc'[i].pc = "remove" =>
              RightLink(proc[i], proc[i].at)' \/ "overWrong" \in proc'[i].flags
        BY <2>3, <3>1, ToRemove
      <4> QED BY <3>3, <4>1, <4>2 DEF RemovesRight
    <3>7. WrongKept
      <4>1. SUFFICES ASSUME NEW x \in Paths, IsLink(fs, x), ~IsLink(fs', x)
                     PROVE  /\ proc'[i] # proc[i]
                            /\ RightLink(proc[i], x) \/ "overWrong" \in proc[i].flags
        BY DEF WrongKept
      <4>2. proc'[i] # proc[i]
        BY <3>2, <3>3, <4>1 DEF MoveOK
      <4>3. proc[i].pc \in {"remove", "rmdir"} /\ proc[i].at = x
        BY <2>3, <3>1, <4>1, Unlinks
      <4>4. HoldsNode(proc[i], fs) /\ proc[i].pkg \in Packages /\ proc[i].ver \in Versions
        BY <3>1, Holding
      <4>5. proc[i].pc # "rmdir"
        BY <4>1, <4>3, <4>4 DEF HoldsNode, NoOwnLink
      <4> QED BY <4>2, <4>3, <4>5 DEF RemovesRight
    <3> QED BY <1>1, <3>5, <3>6, <3>7
  <2> QED BY <2>1, <2>2, <2>3
<1> QED BY <1>2, <1>3

\* Whatever the packages, the system and the order of the steps: a link is only
\* removed if it says what the item of the run says, or with --over-wrong-target.
\* It needs NoOwnLinkAtFirst: uninstallDirectory takes a link to a directory for a
\* directory and removes it if the package owns it.
THEOREM OnlyRightLinksRemoved ==
    ASSUME Considerate, NoOwnLinkAtFirst
    PROVE  Spec => WrongLinksKept
<1>1. Init => WrongInv
  <2>1. Init => \A i \in Procs : proc[i].pc # "remove"
    BY IdleJobType DEF Init
  <2> QED BY <2>1, ForeignInit DEF WrongInv, RemovesRight, NoOwnLink, NoOwnLinkAtFirst, Init
<1>2. WrongInv /\ [Next]_vars => WrongInv'
  BY WrongStep
<1>3. WrongInv /\ [Next]_vars => [WrongKept]_vars
  BY WrongStep
<1> QED BY <1>1, <1>2, <1>3, PTL DEF Spec, WrongLinksKept, WrongKept
=============================================================================
