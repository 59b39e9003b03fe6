--------------------------- MODULE TpkgsPackProofs ---------------------------
(***************************************************************************)
(* Proofs about TpkgsPack, for every package, build and set of flags: the  *)
(* variables keep their types; no error leaves a stray copy behind; one    *)
(* run at a time loses no file, packs its whole list, can be repeated and  *)
(* does what its dry run foretold; and a package whose runs were whole is  *)
(* accounted for by the version Current names.                             *)
(***************************************************************************)
EXTENDS TpkgsPack, TLAPS

-----------------------------------------------------------------------------
(* Nodes and their contents                                                  *)

LEMMA NodeKinds ==
    ASSUME NEW n \in Node
    PROVE  /\ n.kind \in {"none", "dir", "link", "reg"} /\ n.mine \in Owners
           /\ n.kind = "reg" => n.is \in Data
           /\ n.kind = "link" => n.is \in Texts \cup StoreFiles
           /\ n.kind \in {"none", "dir"} => n.is = NoContent
           /\ n.kind # "none" =>
                LET m == [n EXCEPT !.mine = "yes"] IN m \in Node /\ m.kind = n.kind /\ m.is = n.is
BY DEF Node, Absent, Dir, Link, Regular, Owners

LEMMA NodeOps ==
    ASSUME NEW m \in Owners, NEW c \in Texts \cup StoreFiles, NEW d \in Data
    PROVE  Absent \in Node /\ Dir(m) \in Node /\ Link(m, c) \in Node /\ Regular(m, d) \in Node
BY DEF Node

LEMMA DataOfType ==
    ASSUME store \in [Versions -> Trees], NEW n \in Node
    PROVE  DataOf(n) \in Data \cup {NoContent}
<1>1. CASE n.kind = "link" /\ n.is \in StoreFiles
  <2>1. n.is[1] \in Versions /\ n.is[2] \in Paths
    BY <1>1 DEF StoreFiles
  <2>2. store[n.is[1]][n.is[2]] \in Node
    BY <2>1 DEF Trees
  <2>3. QED
    BY <1>1, <2>2, NodeKinds DEF DataOf
<1>2. CASE ~(n.kind = "link" /\ n.is \in StoreFiles)
  BY <1>2, NodeKinds DEF DataOf
<1>3. QED
  BY <1>1, <1>2

\* Links into the store name the path they stand at.
StraightAt(n, x) ==
    n.kind = "link" /\ n.is \in StoreFiles => \E w \in Versions : n.is = <<w, x>>

\* What a straight node says is in a regular file for its own path.
LEMMA DataOfStraight ==
    ASSUME store \in [Versions -> Trees], NEW x \in Paths, NEW n \in Node, StraightAt(n, x),
           DataOf(n) # NoContent
    PROVE  \/ n.kind = "reg" /\ n.is = DataOf(n)
           \/ \E w \in Versions : store[w][x].kind = "reg" /\ store[w][x].is = DataOf(n)
<1>1. CASE n.kind = "reg"
  BY <1>1 DEF DataOf
<1>2. CASE n.kind = "link" /\ n.is \in StoreFiles
  <2>1. PICK w \in Versions : n.is = <<w, x>>
    BY <1>2 DEF StraightAt
  <2>2. n.is[1] = w /\ n.is[2] = x
    BY <2>1
  <2>3. QED
    BY <1>2, <2>2 DEF DataOf
<1>3. CASE n.kind # "reg" /\ ~(n.kind = "link" /\ n.is \in StoreFiles)
  BY <1>3 DEF DataOf
<1>4. QED
  BY <1>1, <1>2, <1>3

-----------------------------------------------------------------------------
(* What an item asks for                                                     *)

LEMMA DueFacts ==
    ASSUME store \in [Versions -> Trees], sys \in Trees,
           NEW v \in Versions, NEW f, NEW x \in Paths, NEW was \in Node
    PROVE  /\ Due(v, f, x, was) \in {"fine", "error", "unlinkInstalled", "unlinkSource", "parents", "makeDir"}
           /\ Due(v, f, x, was) = "parents" => store[v][x].kind = "none" /\ was.kind \in {"reg", "link"}
           /\ Due(v, f, x, was) = "unlinkSource" => store[v][x].kind = "link" /\ was.kind = "link"
           /\ Due(v, f, x, was) = "unlinkInstalled" =>
                DataOf(store[v][x]) # NoContent /\ DataOf(store[v][x]) = DataOf(sys[x])
<1> DEFINE s == store[v][x]
           n == sys[x]
<1>1. s \in Node /\ n \in Node
  BY DEF Trees
<1>2. CASE x \in Ignored
  BY <1>2 DEF Due
<1>3. CASE x \notin Ignored /\ was.kind = "reg"
  <2>1. Due(v, f, x, was) = PackReg(n, s)
    BY <1>3 DEF Due
  <2>2. s.kind \in {"dir", "reg"} => Exists(s)
    BY DEF Exists
  <2>3. QED
    BY <1>1, <1>3, <2>1, <2>2, NodeKinds DEF PackReg
<1>4. CASE x \notin Ignored /\ was.kind = "link"
  <2>1. Due(v, f, x, was) = PackLink(was.is, s, <<v, x>>, f)
    BY <1>4 DEF Due
  <2>2. QED
    BY <1>1, <1>4, <2>1, NodeKinds DEF PackLink
<1>5. CASE x \notin Ignored /\ was.kind = "dir"
  <2>1. Due(v, f, x, was) = PackDir(s)
    BY <1>5 DEF Due
  <2>2. QED
    BY <2>1 DEF PackDir
<1>6. CASE x \notin Ignored /\ was.kind \notin {"reg", "link", "dir"}
  BY <1>6 DEF Due
<1>7. QED
  BY <1>2, <1>3, <1>4, <1>5, <1>6

-----------------------------------------------------------------------------
(* Type correctness                                                          *)

\* TypeOK is not inductive: a step writes to the version and the content that an
\* active process holds.
JobOK(j) ==
    /\ j.pc # "idle" => j.ver \in Versions
    /\ j.pc \in {"open", "write", "place"} => j.buf \in Data
    /\ j.pc = "parents" => j.seen[j.at].kind \in {"reg", "link"}
    /\ j.pc \in {"unlinkSource", "linkSource"} => j.seen[j.at].kind = "link"

TypeInv == TypeOK /\ \A i \in Procs : JobOK(proc[i])

LEMMA IdleJobType == IdleJob \in Jobs /\ IdleJob.pc = "idle"
BY TreeAssumption, NodeOps DEF IdleJob, Jobs, Pcs, Trees, Node

LEMMA PassedType ==
    ASSUME NEW j \in Jobs
    PROVE  Passed(j) \in Jobs /\ Passed(j).pc = "item" /\ Passed(j).ver = j.ver
BY DEF Passed, Jobs, Pcs

LEMMA JobsPc ==
    ASSUME NEW j \in Jobs, NEW c \in Pcs, NEW x \in Paths, NEW d \in Data \cup {NoContent}
    PROVE  /\ [j EXCEPT !.pc = c] \in Jobs /\ [j EXCEPT !.at = x] \in Jobs
           /\ [j EXCEPT !.pc = c, !.buf = d] \in Jobs
           /\ [j EXCEPT !.at = x, !.pc = c] \in Jobs
           /\ [j EXCEPT !.bad = TRUE] \in Jobs
BY DEF Jobs

\* A step gives process i a job of the right type.
LEMMA StepType ==
    ASSUME proc \in [Procs -> Jobs], \A k \in Procs : JobOK(proc[k]),
           NEW i \in Procs, NEW j \in Jobs, JobOK(j), Step(i, j)
    PROVE  proc' \in [Procs -> Jobs] /\ \A k \in Procs : JobOK(proc'[k])
<1>1. proc' = [proc EXCEPT ![i] = j]
  BY DEF Step
<1>2. \A k \in Procs : proc'[k] = IF k = i THEN j ELSE proc[k]
  BY <1>1
<1>3. QED
  BY <1>1, <1>2

\* One place of one tree of the store changes.
LEMMA StoreType ==
    ASSUME store \in [Versions -> Trees], NEW v \in Versions, NEW x \in Paths, NEW n \in Node
    PROVE  [store EXCEPT ![v][x] = n] \in [Versions -> Trees]
BY DEF Trees

LEMMA SysType ==
    ASSUME sys \in Trees, NEW x \in Paths
    PROVE  [sys EXCEPT ![x] = Absent] \in Trees
<1>1. Absent \in Node
  BY DEF Node
<1>2. QED
  BY <1>1 DEF Trees

LEMMA DirsMadeType ==
    ASSUME NEW t \in Trees, NEW xs \in SUBSET Paths, NEW m \in Owners
    PROVE  DirsMade(t, xs, m) \in Trees
BY NodeOps DEF DirsMade, Trees, Node

\* An error ends the run or, with --ignore-errors, the item.
LEMMA RaiseType ==
    ASSUME TypeInv, NEW i \in Procs, NEW j \in Jobs, j.ver \in Versions, Raise(i, j)
    PROVE  /\ proc' \in [Procs -> Jobs] /\ \A k \in Procs : JobOK(proc'[k])
           /\ torn' \in BOOLEAN
           /\ UNCHANGED <<sys, store, current, cache, runs, passed>>
<1>1. [Passed(j) EXCEPT !.bad = TRUE] \in Jobs /\ JobOK([Passed(j) EXCEPT !.bad = TRUE])
  BY PassedType DEF Jobs, JobOK
<1>2. IdleJob \in Jobs /\ JobOK(IdleJob)
  BY IdleJobType DEF JobOK
<1>3. CASE "ignoreErrors" \in j.flags
  <2>1. Step(i, [Passed(j) EXCEPT !.bad = TRUE]) /\ UNCHANGED torn
    BY <1>3 DEF Raise
  <2>2. QED
    BY <1>1, <2>1, StepType DEF TypeInv, TypeOK, Raise
<1>4. CASE "ignoreErrors" \notin j.flags
  <2>1. Step(i, IdleJob) /\ torn' = TRUE
    BY <1>4 DEF Raise, Stop
  <2>2. QED
    BY <1>2, <2>1, StepType DEF TypeInv, TypeOK, Raise
<1>5. QED
  BY <1>3, <1>4

LEMMA FoundType ==
    ASSUME NEW f
    PROVE  Found(sys, f) \subseteq Paths
BY DEF Found, InInstallDirs, OnInstallDevice

LEMMA BuildType == ASSUME TypeInv, NEW b \in Builds, Build(b) PROVE TypeInv'
<1>1. sys' \in Trees
  BY BuildsAssumption DEF TypeInv, TypeOK, Build, Trees
<1>2. QED
  BY <1>1 DEF TypeInv, TypeOK, Build

\* A --pack that cannot make the directory of the version changes nothing else.
Quiet == UNCHANGED <<sys, store, tmp, current, proc, torn, passed>>

LEMMA QuietSteps ==
    /\ UNCHANGED vars => Quiet
    /\ \A i, v, as, f : Pack(i, v, as, f) /\ proc' = proc => Quiet
BY DEF vars, Pack, Quiet

LEMMA PackType ==
    ASSUME TypeInv, NEW i \in Procs, NEW v \in Versions, NEW as \in {"yes", "no"},
           NEW f \in SUBSET Flags, Pack(i, v, as, f)
    PROVE  TypeInv'
<1> DEFINE old == "cache" \in f /\ cache # {}
           list == IF old THEN cache ELSE Found(sys, f)
           seen == [x \in Paths |-> IF x \in list THEN sys[x] ELSE Absent]
           j == [IdleJob EXCEPT !.pc = "dry", !.ver = v, !.as = as, !.flags = f,
                    !.list = list, !.todo = list, !.bad = old, !.seen = seen]
<1>1. list \subseteq Paths
  BY FoundType DEF TypeInv, TypeOK
<1>2. seen \in Trees
  BY DEF TypeInv, TypeOK, Trees, Node
<1>3. old \in BOOLEAN
  OBVIOUS
<1>4. j \in Jobs /\ JobOK(j)
  <2> HIDE DEF old, list, seen
  <2>1. QED
    BY <1>1, <1>2, <1>3, IdleJobType DEF Jobs, JobOK, Pcs
<1>5. Step(i, j) \/ proc' = proc
  BY DEF Pack
<1>6. proc' \in [Procs -> Jobs] /\ \A k \in Procs : JobOK(proc'[k])
  <2> HIDE DEF j
  <2>1. QED
    BY <1>4, <1>5, StepType DEF TypeInv, TypeOK
<1>7. cache' \subseteq Paths /\ runs' \in Nat
  BY <1>1 DEF Pack, TypeInv, TypeOK
<1>8. QED
  BY <1>6, <1>7 DEF TypeInv, TypeOK, Pack

\* The job of an active process.
LEMMA ActiveJob ==
    ASSUME TypeInv, NEW i \in Procs, proc[i].pc # "idle"
    PROVE  /\ proc[i] \in Jobs /\ proc[i].ver \in Versions /\ proc[i].at \in Paths
           /\ proc[i].as \in Owners /\ proc[i].flags \subseteq Flags
           /\ store[proc[i].ver] \in Trees /\ store[proc[i].ver][proc[i].at] \in Node
           /\ sys[proc[i].at] \in Node
BY DEF TypeInv, TypeOK, JobOK, Jobs, Owners, Trees

\* A call that fails.
LEMMA FailType ==
    ASSUME TypeInv, NEW i \in Procs, proc[i].pc # "idle", Fail(i)
    PROVE  TypeInv'
<1>1. proc[i] \in Jobs /\ proc[i].ver \in Versions
  BY ActiveJob
<1>2. Raise(i, proc[i]) /\ UNCHANGED tmp
  BY DEF Fail
<1>3. QED
  BY <1>1, <1>2, RaiseType DEF TypeInv, TypeOK

LEMMA DiscardType ==
    ASSUME TypeInv, NEW i \in Procs, proc[i].pc # "idle", Discard(i)
    PROVE  TypeInv'
<1>1. proc[i] \in Jobs /\ proc[i].ver \in Versions
  BY ActiveJob
<1>2. Raise(i, proc[i]) /\ tmp' \subseteq tmp
  BY DEF Discard
<1>3. QED
  BY <1>1, <1>2, RaiseType DEF TypeInv, TypeOK

\* A call that succeeds takes the process to another step.
LEMMA StepTo ==
    ASSUME TypeInv, NEW i \in Procs, proc[i].pc # "idle", NEW c \in Pcs,
           JobOK([proc[i] EXCEPT !.pc = c]), Step(i, [proc[i] EXCEPT !.pc = c])
    PROVE  proc' \in [Procs -> Jobs] /\ \A k \in Procs : JobOK(proc'[k])
<1>1. [proc[i] EXCEPT !.pc = c] \in Jobs
  BY ActiveJob DEF Jobs
<1>2. QED
  BY <1>1, StepType DEF TypeInv, TypeOK

LEMMA StepPassed ==
    ASSUME TypeInv, NEW i \in Procs, proc[i].pc # "idle", Step(i, Passed(proc[i]))
    PROVE  proc' \in [Procs -> Jobs] /\ \A k \in Procs : JobOK(proc'[k])
<1>1. Passed(proc[i]) \in Jobs /\ JobOK(Passed(proc[i]))
  BY ActiveJob, PassedType DEF JobOK
<1>2. QED
  BY <1>1, StepType DEF TypeInv, TypeOK

LEMMA StepIdle ==
    ASSUME TypeInv, NEW i \in Procs, Step(i, IdleJob)
    PROVE  proc' \in [Procs -> Jobs] /\ \A k \in Procs : JobOK(proc'[k])
<1>1. IdleJob \in Jobs /\ JobOK(IdleJob)
  BY IdleJobType DEF JobOK
<1>2. QED
  BY <1>1, StepType DEF TypeInv, TypeOK

LEMMA DryRunType == ASSUME TypeInv, NEW i \in Procs, DryRun(i) PROVE TypeInv'
<1> DEFINE j == proc[i]
<1>1. j.pc = "dry" /\ j.ver \in Versions /\ j.flags \subseteq Flags
  BY ActiveJob DEF DryRun
<1>2. passed' \in {<<>>} \cup (Versions \X SUBSET Flags)
  BY <1>1 DEF DryRun
<1>3. Step(i, IdleJob) \/ Step(i, [j EXCEPT !.pc = "item"])
  BY DEF DryRun
<1>4. JobOK([j EXCEPT !.pc = "item"])
  BY <1>1, ActiveJob DEF JobOK, Jobs
<1>5. proc' \in [Procs -> Jobs] /\ \A k \in Procs : JobOK(proc'[k])
  BY <1>1, <1>3, <1>4, StepIdle, StepTo DEF Pcs
<1>6. QED
  BY <1>2, <1>5 DEF TypeInv, TypeOK, DryRun

LEMMA ItemType == ASSUME TypeInv, NEW i \in Procs, Item(i) PROVE TypeInv'
<1> DEFINE j == proc[i]
<1>1. j.pc = "item" /\ j \in Jobs /\ j.ver \in Versions
  BY ActiveJob DEF Item
<1>2. PICK x \in Ready(j) :
         LET due == Due(j.ver, j.flags, x, j.seen[x])
             k == [j EXCEPT !.at = x] IN
         \/ due = "error" /\ Raise(i, k) /\ UNCHANGED tmp
         \/ /\ due # "error"
            /\ Step(i, IF due = "fine" THEN Passed(k) ELSE [k EXCEPT !.pc = due])
            /\ UNCHANGED <<sys, store, tmp, current, cache, history>>
  BY DEF Item
<1> DEFINE due == Due(j.ver, j.flags, x, j.seen[x])
           k == [j EXCEPT !.at = x]
<1>3. x \in Paths /\ j.seen[x] \in Node
  BY <1>1 DEF Ready, Jobs, Trees
<1>4. k \in Jobs /\ k.ver = j.ver /\ k.pc = "item" /\ k.at = x /\ k.seen = j.seen
  BY <1>1, <1>3 DEF Jobs
<1>5. /\ due \in {"fine", "error", "unlinkInstalled", "unlinkSource", "parents", "makeDir"}
      /\ due = "parents" => j.seen[x].kind \in {"reg", "link"}
      /\ due = "unlinkSource" => j.seen[x].kind = "link"
  BY <1>1, <1>3, DueFacts DEF TypeInv, TypeOK
<1>6. CASE due = "error"
  <2>1. Raise(i, k) /\ UNCHANGED tmp
    BY <1>2, <1>6
  <2>2. QED
    BY <1>1, <1>4, <2>1, RaiseType DEF TypeInv, TypeOK
<1>7. CASE due # "error"
  <2> DEFINE m == IF due = "fine" THEN Passed(k) ELSE [k EXCEPT !.pc = due]
  <2>1. Step(i, m) /\ UNCHANGED <<sys, store, tmp, current, cache, history>>
    BY <1>2, <1>7
  <2>2. m \in Jobs /\ JobOK(m)
    <3> HIDE DEF k, due
    <3>1. CASE due = "fine"
      BY <3>1, <1>1, <1>4, PassedType DEF JobOK
    <3>2. CASE due # "fine"
      BY <3>2, <1>1, <1>4, <1>5, <1>7 DEF JobOK, Jobs, Pcs
    <3>3. QED
      BY <3>1, <3>2
  <2>3. proc' \in [Procs -> Jobs] /\ \A p \in Procs : JobOK(proc'[p])
    <3> HIDE DEF m
    <3>1. QED
      BY <2>1, <2>2, StepType DEF TypeInv, TypeOK
  <2>4. QED
    BY <2>1, <2>3 DEF TypeInv, TypeOK, history
<1>8. QED
  BY <1>6, <1>7

LEMMA InStoreType ==
    ASSUME TypeInv, NEW i \in Procs, proc[i].pc # "idle", NEW can, NEW t \in Trees,
           NEW c \in Pcs, JobOK([proc[i] EXCEPT !.pc = c]), InStore(i, can, t, c)
    PROVE  TypeInv'
<1>1. CASE Fail(i)
  BY <1>1, FailType
<1>2. CASE /\ store' = [store EXCEPT ![proc[i].ver] = t]
           /\ Step(i, [proc[i] EXCEPT !.pc = c])
           /\ UNCHANGED <<sys, tmp, current, cache, history>>
  <2>1. store' \in [Versions -> Trees]
    BY <1>2 DEF TypeInv, TypeOK
  <2>2. proc' \in [Procs -> Jobs] /\ \A k \in Procs : JobOK(proc'[k])
    BY <1>2, StepTo
  <2>3. QED
    BY <1>2, <2>1, <2>2 DEF TypeInv, TypeOK, history
<1>3. QED
  BY <1>1, <1>2 DEF InStore

LEMMA StoreStepsType ==
    ASSUME TypeInv, NEW i \in Procs,
           Parents(i) \/ MakeDir(i) \/ UnlinkSource(i) \/ LinkSource(i)
    PROVE  TypeInv'
<1> DEFINE j == proc[i]
           t == store[j.ver]
<1>1. j.pc # "idle"
  BY DEF Parents, MakeDir, UnlinkSource, LinkSource
<1>2. j \in Jobs /\ j.ver \in Versions /\ j.at \in Paths /\ j.as \in Owners /\ t \in Trees
  BY <1>1, ActiveJob
<1>3. Above[j.at] \subseteq Paths /\ JobOK(j)
  BY <1>2, TreeAssumption DEF TypeInv
<1>4. CASE Parents(i)
  <2> DEFINE c == IF j.seen[j.at].kind = "reg" THEN "rename" ELSE "linkSource"
  <2>1. DirsMade(t, Above[j.at], j.as) \in Trees
    BY <1>2, <1>3, DirsMadeType
  <2>2. JobOK([j EXCEPT !.pc = c])
    BY <1>2, <1>3, <1>4 DEF JobOK, Jobs, Parents
  <2>3. QED
    BY <1>1, <1>4, <2>1, <2>2, InStoreType DEF Parents, Pcs
<1>5. CASE MakeDir(i)
  <2>1. DirsMade(t, Above[j.at] \cup {j.at}, j.as) \in Trees
    BY <1>2, <1>3, DirsMadeType
  <2>2. JobOK([j EXCEPT !.pc = "ownSource"])
    BY <1>2, <1>3, <1>5 DEF JobOK, Jobs, MakeDir
  <2>3. QED
    BY <1>1, <1>5, <2>1, <2>2, InStoreType DEF MakeDir, Pcs
<1>6. CASE UnlinkSource(i)
  <2>1. [t EXCEPT ![j.at] = Absent] \in Trees
    BY <1>2 DEF Trees, Node
  <2>2. JobOK([j EXCEPT !.pc = "linkSource"])
    BY <1>2, <1>3, <1>6 DEF JobOK, Jobs, UnlinkSource
  <2>3. QED
    BY <1>1, <1>6, <2>1, <2>2, InStoreType DEF UnlinkSource, Pcs
<1>7. CASE LinkSource(i)
  <2>1. j.seen[j.at] \in Node /\ j.seen[j.at].kind = "link"
    BY <1>2, <1>3, <1>7 DEF LinkSource, JobOK, Jobs, Trees
  <2>2. Link(j.as, j.seen[j.at].is) \in Node
    BY <1>2, <2>1, NodeKinds DEF Node
  <2>3. [t EXCEPT ![j.at] = Link(j.as, j.seen[j.at].is)] \in Trees
    BY <1>2, <2>2 DEF Trees
  <2>4. JobOK([j EXCEPT !.pc = "ownSource"])
    BY <1>2, <1>3, <1>7 DEF JobOK, Jobs, LinkSource
  <2>5. QED
    BY <1>1, <1>7, <2>3, <2>4, InStoreType DEF LinkSource, Pcs
<1>8. QED
  BY <1>4, <1>5, <1>6, <1>7

\* chown, which keeps what the node is.
LEMMA OwnType ==
    ASSUME TypeInv, NEW i \in Procs, OwnSource(i) \/ OwnInstalled(i)
    PROVE  TypeInv'
<1> DEFINE j == proc[i]
<1>1. j.pc # "idle"
  BY DEF OwnSource, OwnInstalled
<1>2. j.ver \in Versions /\ j.at \in Paths /\ store[j.ver][j.at] \in Node /\ sys[j.at] \in Node
  BY <1>1, ActiveJob
<1>3. CASE Fail(i)
  BY <1>1, <1>3, FailType
<1>4. CASE OwnSource(i) /\ ~Fail(i)
  <2>1. /\ store' = [store EXCEPT ![j.ver][j.at].mine = "yes"]
        /\ store[j.ver][j.at].kind # "none"
        /\ Step(i, Passed(j))
        /\ UNCHANGED <<sys, tmp, current, cache, history>>
    BY <1>4 DEF OwnSource
  <2>2. [store[j.ver][j.at] EXCEPT !.mine = "yes"] \in Node
    BY <1>2, <2>1, NodeKinds
  <2>3. store' = [store EXCEPT ![j.ver][j.at] = [store[j.ver][j.at] EXCEPT !.mine = "yes"]]
    BY <2>1
  <2>4. store' \in [Versions -> Trees]
    BY <1>2, <2>2, <2>3, StoreType DEF TypeInv, TypeOK
  <2>5. proc' \in [Procs -> Jobs] /\ \A k \in Procs : JobOK(proc'[k])
    BY <1>1, <2>1, StepPassed
  <2>6. QED
    BY <2>1, <2>4, <2>5 DEF TypeInv, TypeOK, history
<1>5. CASE OwnInstalled(i) /\ ~Fail(i)
  <2>1. /\ sys' = [sys EXCEPT ![j.at].mine = "yes"]
        /\ sys[j.at].kind # "none"
        /\ Step(i, Passed(j))
        /\ UNCHANGED <<store, tmp, current, cache, history>>
    BY <1>5 DEF OwnInstalled
  <2>2. [sys[j.at] EXCEPT !.mine = "yes"] \in Node
    BY <1>2, <2>1, NodeKinds
  <2>3. sys' \in Trees
    BY <1>2, <2>1, <2>2 DEF TypeInv, TypeOK, Trees
  <2>4. proc' \in [Procs -> Jobs] /\ \A k \in Procs : JobOK(proc'[k])
    BY <1>1, <2>1, StepPassed
  <2>5. QED
    BY <2>1, <2>3, <2>4 DEF TypeInv, TypeOK, history
<1>6. QED
  BY <1>3, <1>4, <1>5

LEMMA CopyType ==
    ASSUME TypeInv, NEW i \in Procs, Rename(i) \/ Open(i) \/ Write(i) \/ Place(i)
    PROVE  TypeInv'
<1> DEFINE j == proc[i]
<1>1. j.pc # "idle"
  BY DEF Rename, Open, Write, Place
<1>2. /\ j \in Jobs /\ j.ver \in Versions /\ j.at \in Paths /\ j.as \in Owners
      /\ sys[j.at] \in Node /\ JobOK(j)
  BY <1>1, ActiveJob DEF TypeInv
<1>3. CASE Fail(i) \/ Discard(i)
  BY <1>1, <1>3, FailType, DiscardType
<1>4. CASE Rename(i) /\ ~Fail(i)
  <2>1. CASE /\ store' = [store EXCEPT ![j.ver][j.at] = sys[j.at]]
             /\ sys' = [sys EXCEPT ![j.at] = Absent]
             /\ Step(i, [j EXCEPT !.pc = "linkInstalled"])
             /\ UNCHANGED <<tmp, current, cache, history>>
    <3>1. store' \in [Versions -> Trees]
      BY <1>2, <2>1, StoreType DEF TypeInv, TypeOK
    <3>2. sys' \in Trees
      BY <1>2, <2>1, SysType DEF TypeInv, TypeOK
    <3>3. JobOK([j EXCEPT !.pc = "linkInstalled"])
      BY <1>2 DEF JobOK, Jobs
    <3>4. QED
      BY <1>1, <2>1, <3>1, <3>2, <3>3, StepTo DEF TypeInv, TypeOK, history, Pcs
  <2>2. CASE /\ DataOf(sys[j.at]) # NoContent
             /\ Step(i, [j EXCEPT !.pc = "open", !.buf = DataOf(sys[j.at])])
             /\ UNCHANGED <<sys, store, tmp, current, cache, history>>
    <3> DEFINE d == DataOf(sys[j.at])
               m == [j EXCEPT !.pc = "open", !.buf = d]
    <3>1. d \in Data
      BY <1>2, <2>2, DataOfType DEF TypeInv, TypeOK
    <3>2. m \in Jobs /\ JobOK(m)
      <4> HIDE DEF d
      <4>1. QED
        BY <1>2, <3>1 DEF JobOK, Jobs, Pcs
    <3>3. proc' \in [Procs -> Jobs] /\ \A k \in Procs : JobOK(proc'[k])
      <4>1. Step(i, m)
        BY <2>2
      <4> HIDE DEF m
      <4>2. QED
        BY <3>2, <4>1, StepType DEF TypeInv, TypeOK
    <3>4. QED
      BY <2>2, <3>3 DEF TypeInv, TypeOK, history
  <2>3. QED
    BY <1>4, <2>1, <2>2 DEF Rename
<1>5. CASE Open(i) /\ ~Fail(i)
  <2>1. /\ tmp' = tmp \cup {<<j.ver, j.at>>} /\ Step(i, [j EXCEPT !.pc = "write"])
        /\ UNCHANGED <<sys, store, current, cache, history>>
    BY <1>5 DEF Open
  <2>2. tmp' \subseteq StoreFiles
    BY <1>2, <2>1 DEF TypeInv, TypeOK, StoreFiles
  <2>3. JobOK([j EXCEPT !.pc = "write"])
    BY <1>2, <1>5 DEF JobOK, Jobs, Open
  <2>4. QED
    BY <1>1, <2>1, <2>2, <2>3, StepTo DEF TypeInv, TypeOK, history, Pcs
<1>6. CASE Write(i) /\ ~Discard(i)
  <2>1. Step(i, [j EXCEPT !.pc = "place"]) /\ UNCHANGED <<sys, store, tmp, current, cache, history>>
    BY <1>6 DEF Write
  <2>2. JobOK([j EXCEPT !.pc = "place"])
    BY <1>2, <1>6 DEF JobOK, Jobs, Write
  <2>3. QED
    BY <1>1, <2>1, <2>2, StepTo DEF TypeInv, TypeOK, history, Pcs
<1>7. CASE Place(i) /\ ~Discard(i)
  <2>1. /\ tmp' = tmp \ {<<j.ver, j.at>>}
        /\ store' = [store EXCEPT ![j.ver][j.at] = Regular(j.as, j.buf)]
        /\ Step(i, [j EXCEPT !.pc = "unlinkInstalled"])
        /\ UNCHANGED <<sys, current, cache, history>>
    BY <1>7 DEF Place
  <2>2. Regular(j.as, j.buf) \in Node
    BY <1>2, <1>7 DEF Node, JobOK, Place
  <2>3. store' \in [Versions -> Trees]
    BY <1>2, <2>1, <2>2, StoreType DEF TypeInv, TypeOK
  <2>4. JobOK([j EXCEPT !.pc = "unlinkInstalled"])
    BY <1>2 DEF JobOK, Jobs
  <2>5. tmp' \subseteq StoreFiles
    BY <2>1 DEF TypeInv, TypeOK
  <2>6. QED
    BY <1>1, <2>1, <2>3, <2>4, <2>5, StepTo DEF TypeInv, TypeOK, history, Pcs
<1>8. QED
  BY <1>3, <1>4, <1>5, <1>6, <1>7

LEMMA InstalledType ==
    ASSUME TypeInv, NEW i \in Procs, UnlinkInstalled(i) \/ LinkInstalled(i)
    PROVE  TypeInv'
<1> DEFINE j == proc[i]
<1>1. j.pc # "idle"
  BY DEF UnlinkInstalled, LinkInstalled
<1>2. j \in Jobs /\ j.ver \in Versions /\ j.at \in Paths /\ j.as \in Owners /\ JobOK(j)
  BY <1>1, ActiveJob DEF TypeInv
<1>3. CASE Fail(i)
  BY <1>1, <1>3, FailType
<1>4. CASE UnlinkInstalled(i) /\ ~Fail(i)
  <2>1. /\ sys' = [sys EXCEPT ![j.at] = Absent] /\ Step(i, [j EXCEPT !.pc = "linkInstalled"])
        /\ UNCHANGED <<store, tmp, current, cache, history>>
    BY <1>4 DEF UnlinkInstalled
  <2>2. sys' \in Trees
    BY <1>2, <2>1, SysType DEF TypeInv, TypeOK
  <2>3. JobOK([j EXCEPT !.pc = "linkInstalled"])
    BY <1>2 DEF JobOK, Jobs
  <2>4. QED
    BY <1>1, <2>1, <2>2, <2>3, StepTo DEF TypeInv, TypeOK, history, Pcs
<1>5. CASE LinkInstalled(i) /\ ~Fail(i)
  <2>1. /\ sys' = [sys EXCEPT ![j.at] = Link(j.as, Content(j))]
        /\ Step(i, [j EXCEPT !.pc = "ownInstalled"])
        /\ UNCHANGED <<store, tmp, current, cache, history>>
    BY <1>5 DEF LinkInstalled
  <2>2. Link(j.as, Content(j)) \in Node
    BY <1>2 DEF Node, Content, StoreFiles
  <2>3. sys' \in Trees
    BY <2>1, <2>2 DEF TypeInv, TypeOK, Trees
  <2>4. JobOK([j EXCEPT !.pc = "ownInstalled"])
    BY <1>2 DEF JobOK, Jobs
  <2>5. QED
    BY <1>1, <2>1, <2>3, <2>4, StepTo DEF TypeInv, TypeOK, history, Pcs
<1>6. QED
  BY <1>3, <1>4, <1>5

LEMMA EndType ==
    ASSUME TypeInv, NEW i \in Procs, End(i) \/ ClearCurrent(i) \/ SetCurrent(i) \/ Crash(i)
    PROVE  TypeInv'
<1> DEFINE j == proc[i]
<1>1. j.pc # "idle"
  BY DEF End, ClearCurrent, SetCurrent, Crash, Active
<1>2. j \in Jobs /\ j.ver \in Versions /\ JobOK(j)
  BY <1>1, ActiveJob DEF TypeInv
<1>3. CASE End(i)
  <2>1. JobOK([j EXCEPT !.pc = "clearCurrent"])
    BY <1>2 DEF JobOK, Jobs
  <2>2. QED
    BY <1>1, <1>3, <2>1, StepTo DEF End, TypeInv, TypeOK, history, Pcs
<1>4. CASE ClearCurrent(i)
  <2>1. JobOK([j EXCEPT !.pc = "setCurrent"])
    BY <1>2 DEF JobOK, Jobs
  <2>2. QED
    BY <1>1, <1>4, <2>1, StepTo DEF ClearCurrent, TypeInv, TypeOK, history, Pcs
<1>5. CASE SetCurrent(i)
  <2>1. Step(i, IdleJob) /\ current' \in Versions \cup {NoVersion} /\ torn' \in BOOLEAN
    BY <1>2, <1>5 DEF SetCurrent, Stop, TypeInv, TypeOK, Jobs
  <2>2. QED
    BY <1>5, <2>1, StepIdle DEF SetCurrent, TypeInv, TypeOK
<1>6. CASE Crash(i)
  BY <1>6, StepIdle DEF Crash, Stop, TypeInv, TypeOK
<1>7. QED
  BY <1>3, <1>4, <1>5, <1>6

LEMMA TypeInit == Init => TypeInv
<1> SUFFICES ASSUME Init PROVE TypeInv
  OBVIOUS
<1>1. sys \in Trees /\ store \in [Versions -> Trees]
  BY BuildsAssumption DEF Init, Trees, Node
<1>2. proc \in [Procs -> Jobs] /\ \A i \in Procs : JobOK(proc[i])
  BY IdleJobType DEF Init, JobOK
<1>3. QED
  BY <1>1, <1>2 DEF Init, TypeInv, TypeOK

LEMMA TypeNext == TypeInv /\ [Next]_vars => TypeInv'
<1> SUFFICES ASSUME TypeInv, [Next]_vars PROVE TypeInv'
  OBVIOUS
<1>1. CASE UNCHANGED vars
  BY <1>1 DEF vars, TypeInv, TypeOK
<1>2. ASSUME NEW b \in Builds, Build(b) PROVE TypeInv'
  BY <1>2, BuildType
<1>3. ASSUME NEW i \in Procs, NEW v \in Versions, NEW as \in {"yes", "no"},
             NEW f \in FlagSets[as], Pack(i, v, as, f)
      PROVE  TypeInv'
  <2>1. f \in SUBSET Flags
    BY NamesAssumption
  <2>2. QED
    BY <1>3, <2>1, PackType
<1>4. ASSUME NEW i \in Procs, Work(i) PROVE TypeInv'
  BY <1>4, DryRunType, ItemType, StoreStepsType, OwnType, CopyType, InstalledType, EndType DEF Work
<1>5. ASSUME NEW i \in Procs, Crash(i) PROVE TypeInv'
  BY <1>5, EndType
<1>6. QED
  BY <1>1, <1>2, <1>3, <1>4, <1>5 DEF Next

\* The variables have their types in every behaviour, with any number of runs at once.
THEOREM TypeCorrect == Spec => []TypeOK
<1>1. TypeInv => TypeOK
  BY DEF TypeInv
<1>2. QED
  BY <1>1, TypeInit, TypeNext, PTL DEF Spec

-----------------------------------------------------------------------------
(* One run at a time loses no file                                           *)

\* What a process with job j knows of the path it works on, in the trees t and st.
Knows(j, t, st) ==
    LET s == st[j.ver][j.at]
        n == t[j.at] IN
    /\ j.pc \in {"parents", "rename", "open", "write", "place"} => s.kind = "none"
    /\ j.pc \in {"open", "write", "place"} /\ n.kind = "reg" => j.buf = n.is
    /\ j.pc = "unlinkInstalled" /\ n.kind = "reg" =>
          \E w \in Versions : st[w][j.at].kind = "reg" /\ st[w][j.at].is = n.is
    /\ j.pc = "unlinkSource" => s.kind = "link"

Straight(t) == \A x \in Paths : StraightAt(t[x], x)

\* NothingLost follows from this: one run is active, it knows what it replaces, and
\* packReg, which follows links, ends at a file for the same path.
SafeInv ==
    /\ \A i, k \in Procs : Active(i) /\ Active(k) => i = k
    /\ \A i \in Procs : Active(i) => Knows(proc[i], sys, store)
    /\ Straight(sys) /\ \A v \in Versions : Straight(store[v])
    /\ \A i \in Procs : Active(i) => Straight(proc[i].seen)

\* No content that a path has in a regular file goes, and no packed file changes.
Kept ==
    \A x \in Paths :
        /\ Held(x) \subseteq Held(x)'
        /\ \A v \in Versions :
             store[v][x].kind = "reg" => store'[v][x].kind = "reg" /\ store'[v][x].is = store[v][x].is

\* Only process i makes a step, and what the others know is nothing.
LEMMA OnlyOne ==
    ASSUME TypeInv, SafeInv, NEW i \in Procs, Active(i), NEW j \in Jobs, Step(i, j),
           j.pc # "idle" => Knows(j, sys', store') /\ Straight(j.seen),
           Straight(sys'), \A v \in Versions : Straight(store'[v])
    PROVE  SafeInv'
<1>1. proc' = [proc EXCEPT ![i] = j] /\ proc \in [Procs -> Jobs]
  BY DEF Step, TypeInv, TypeOK
<1>2. \A k \in Procs : Active(k)' => k = i
  BY <1>1 DEF SafeInv, Active
<1>3. proc'[i] = j
  BY <1>1
<1>4. QED
  BY <1>2, <1>3 DEF SafeInv, Active, Knows, Straight

\* One place of the store changes.
LEMMA StoreStraight ==
    ASSUME TypeInv, SafeInv, NEW v \in Versions, NEW x \in Paths, NEW n \in Node,
           StraightAt(n, x), store' = [store EXCEPT ![v][x] = n]
    PROVE  /\ \A w \in Versions : Straight(store'[w])
           /\ \A w \in Versions, y \in Paths :
                store'[w][y] = IF w = v /\ y = x THEN n ELSE store[w][y]
<1>1. \A w \in Versions, y \in Paths :
        store'[w][y] = IF w = v /\ y = x THEN n ELSE store[w][y]
  BY DEF TypeInv, TypeOK, Trees
<1>2. QED
  BY <1>1 DEF SafeInv, Straight

LEMMA SysStraight ==
    ASSUME TypeInv, SafeInv, NEW x \in Paths, NEW n \in Node,
           StraightAt(n, x), sys' = [sys EXCEPT ![x] = n]
    PROVE  /\ Straight(sys')
           /\ \A y \in Paths : sys'[y] = IF y = x THEN n ELSE sys[y]
<1>1. \A y \in Paths : sys'[y] = IF y = x THEN n ELSE sys[y]
  BY DEF TypeInv, TypeOK, Trees
<1>2. QED
  BY <1>1 DEF SafeInv, Straight

\* Trees that do not change keep what they hold.
LEMMA NoChange ==
    ASSUME UNCHANGED <<sys, store>>
    PROVE  Kept
BY DEF Kept, Held

\* What is in a file before the step is in a file for the same path after it.
LEMMA KeptBy ==
    ASSUME \A y \in Paths :
             sys[y].kind = "reg" =>
                \/ sys'[y].kind = "reg" /\ sys'[y].is = sys[y].is
                \/ \E w \in Versions : store'[w][y].kind = "reg" /\ store'[w][y].is = sys[y].is,
           \A y \in Paths, w \in Versions :
             store[w][y].kind = "reg" => store'[w][y].kind = "reg" /\ store'[w][y].is = store[w][y].is
    PROVE  Kept
BY DEF Kept, Held

LEMMA AbsentStraight == ASSUME NEW x, NEW m PROVE StraightAt(Absent, x) /\ StraightAt(Dir(m), x)
BY DEF StraightAt, Absent, Dir

\* A step that changes neither tree.
LEMMA QuietStep ==
    ASSUME TypeInv, SafeInv, NEW i \in Procs, Active(i), NEW j \in Jobs, Step(i, j),
           j.pc # "idle" => j.seen = proc[i].seen /\ Knows(j, sys, store),
           UNCHANGED <<sys, store>>
    PROVE  SafeInv' /\ Kept
<1>1. Straight(sys') /\ \A v \in Versions : Straight(store'[v])
  BY DEF SafeInv
<1>2. j.pc # "idle" => Knows(j, sys', store') /\ Straight(j.seen)
  BY DEF SafeInv
<1>3. QED
  BY <1>1, <1>2, OnlyOne, NoChange

LEMMA RaiseSafe ==
    ASSUME TypeInv, SafeInv, NEW i \in Procs, Active(i), NEW j \in Jobs, j.seen = proc[i].seen,
           Raise(i, j)
    PROVE  SafeInv' /\ Kept
<1> DEFINE k == [Passed(j) EXCEPT !.bad = TRUE]
<1>1. k \in Jobs /\ k.seen = proc[i].seen /\ k.pc = "item"
  BY PassedType DEF Jobs, Passed
<1>2. Knows(k, sys, store)
  BY <1>1 DEF Knows
<1>3. IdleJob \in Jobs /\ IdleJob.pc = "idle"
  BY IdleJobType
<1>4. Step(i, IdleJob) \/ Step(i, k)
  BY DEF Raise, Stop
<1>5. QED
  <2> HIDE DEF k
  <2>1. UNCHANGED <<sys, store>>
    BY DEF Raise
  <2>2. QED
    BY <1>1, <1>2, <1>3, <1>4, <2>1, QuietStep

LEMMA FailSafe ==
    ASSUME TypeInv, SafeInv, NEW i \in Procs, Active(i), Fail(i) \/ Discard(i)
    PROVE  SafeInv' /\ Kept
BY RaiseSafe DEF Fail, Discard, TypeInv, TypeOK

\* What a process that has made a call goes on with.
LEMMA NextJob ==
    ASSUME TypeInv, NEW i \in Procs, Active(i), NEW c \in Pcs
    PROVE  LET j == [proc[i] EXCEPT !.pc = c] IN
           /\ j \in Jobs /\ j.pc = c /\ j.seen = proc[i].seen
           /\ j.at = proc[i].at /\ j.ver = proc[i].ver /\ j.buf = proc[i].buf
BY DEF Jobs, TypeInv, TypeOK

LEMMA PassedJob ==
    ASSUME TypeInv, NEW i \in Procs, Active(i)
    PROVE  /\ Passed(proc[i]) \in Jobs /\ Passed(proc[i]).pc = "item"
           /\ Passed(proc[i]).seen = proc[i].seen
BY PassedType DEF Passed, Jobs, TypeInv, TypeOK

LEMMA BuildSafe == ASSUME TypeInv, SafeInv, NEW b \in Builds, Build(b) PROVE SafeInv'
<1>1. \A x \in Paths : sys'[x] = IF x \in DOMAIN b THEN b[x] ELSE sys[x]
  BY DEF Build
<1>2. Straight(sys')
  BY <1>1, BuildsAssumption DEF SafeInv, Straight, StraightAt
<1>3. UNCHANGED <<store, proc>> /\ \A i \in Procs : ~Active(i)
  BY DEF Build, AllIdle
<1>4. QED
  BY <1>2, <1>3 DEF SafeInv, Active

LEMMA PackSafe ==
    ASSUME TypeInv, SafeInv, OneAtATime, NEW i \in Procs, NEW v \in Versions,
           NEW as \in {"yes", "no"}, NEW f \in SUBSET Flags, Pack(i, v, as, f), proc' # proc
    PROVE  SafeInv'
<1>1. AllIdle /\ UNCHANGED <<sys, store>>
  BY DEF Pack
<1>2. PICK list : Step(i, [IdleJob EXCEPT !.pc = "dry", !.ver = v, !.as = as, !.flags = f,
                    !.list = list, !.todo = list, !.bad = "cache" \in f /\ cache # {},
                    !.seen = [x \in Paths |-> IF x \in list THEN sys[x] ELSE Absent]])
  BY DEF Pack
<1> DEFINE seen == [x \in Paths |-> IF x \in list THEN sys[x] ELSE Absent]
<1>3. Straight(seen)
  BY AbsentStraight DEF SafeInv, Straight
<1>4. /\ proc'[i].pc = "dry" /\ proc'[i].seen = seen
      /\ \A k \in Procs : k # i => proc'[k] = proc[k]
  BY <1>2, IdleJobType DEF Step, TypeInv, TypeOK, Jobs
<1>5. \A k \in Procs : Active(k)' => k = i
  BY <1>1, <1>4 DEF AllIdle, Active
<1>6. QED
  BY <1>1, <1>3, <1>4, <1>5 DEF SafeInv, Knows, Active

LEMMA ItemSafe == ASSUME TypeInv, SafeInv, NEW i \in Procs, Item(i) PROVE SafeInv' /\ Kept
<1> DEFINE j == proc[i]
<1>1. j.pc = "item" /\ Active(i)
  BY DEF Item, Active
<1>2. PICK x \in Ready(j) :
         LET due == Due(j.ver, j.flags, x, j.seen[x])
             k == [j EXCEPT !.at = x] IN
         \/ due = "error" /\ Raise(i, k) /\ UNCHANGED tmp
         \/ /\ due # "error"
            /\ Step(i, IF due = "fine" THEN Passed(k) ELSE [k EXCEPT !.pc = due])
            /\ UNCHANGED <<sys, store, tmp, current, cache, history>>
  BY DEF Item
<1> DEFINE due == Due(j.ver, j.flags, x, j.seen[x])
           k == [j EXCEPT !.at = x]
           m == IF due = "fine" THEN Passed(k) ELSE [k EXCEPT !.pc = due]
<1>3. /\ j \in Jobs /\ j.ver \in Versions /\ x \in Paths /\ j.seen[x] \in Node
      /\ sys[x] \in Node /\ store[j.ver][x] \in Node
  BY <1>1, ActiveJob DEF Ready, Jobs, Trees, TypeInv, TypeOK
<1>4. k \in Jobs /\ k.ver = j.ver /\ k.seen = j.seen /\ k.at = x
  BY <1>3 DEF Jobs
<1>5. CASE due = "error"
  BY <1>1, <1>2, <1>4, <1>5, RaiseSafe
<1>6. CASE due # "error"
  <2>1. Step(i, m) /\ UNCHANGED <<sys, store>>
    BY <1>2, <1>6
  <2>2. CASE due = "fine"
    <3>1. m \in Jobs /\ m.pc = "item" /\ m.seen = j.seen
      BY <1>4, <2>2, PassedType DEF Passed, Jobs
    <3>2. Knows(m, sys, store)
      BY <3>1 DEF Knows
    <3>3. QED
      <4> HIDE DEF m
      <4>1. QED
        BY <1>1, <2>1, <3>1, <3>2, QuietStep
  <2>3. CASE due # "fine"
    <3>1. /\ due \in {"unlinkInstalled", "unlinkSource", "parents", "makeDir"}
          /\ due = "parents" => store[j.ver][x].kind = "none"
          /\ due = "unlinkSource" => store[j.ver][x].kind = "link"
          /\ due = "unlinkInstalled" =>
               DataOf(store[j.ver][x]) # NoContent /\ DataOf(store[j.ver][x]) = DataOf(sys[x])
      BY <1>3, <1>6, <2>3, DueFacts DEF TypeInv, TypeOK
    <3>2. /\ m \in Jobs /\ m.pc = due /\ m.seen = j.seen /\ m.ver = j.ver /\ m.at = x
      <4> HIDE DEF due
      <4>1. QED
        BY <1>3, <2>3, <3>1 DEF Jobs, Pcs
    <3>3. due = "unlinkInstalled" /\ sys[x].kind = "reg" =>
             \E w \in Versions : store[w][x].kind = "reg" /\ store[w][x].is = sys[x].is
      <4>1. StraightAt(store[j.ver][x], x)
        BY <1>3 DEF SafeInv, Straight
      <4>2. sys[x].kind = "reg" => DataOf(sys[x]) = sys[x].is
        BY DEF DataOf
      <4>3. QED
        BY <1>3, <3>1, <4>1, <4>2, DataOfStraight DEF TypeInv, TypeOK
    <3>4. Knows(m, sys, store)
      <4> HIDE DEF m, due
      <4>1. QED
        BY <3>1, <3>2, <3>3 DEF Knows
    <3>5. QED
      <4> HIDE DEF m
      <4>1. QED
        BY <1>1, <2>1, <3>2, <3>4, QuietStep
  <2>4. QED
    BY <2>2, <2>3
<1>7. QED
  BY <1>5, <1>6

\* A call in the version directory that leaves its regular files alone.
LEMMA InStoreSafe ==
    ASSUME TypeInv, SafeInv, NEW i \in Procs, Active(i), NEW can, NEW t \in Trees, NEW c \in Pcs,
           InStore(i, can, t, c), Straight(t),
           \A y \in Paths : store[proc[i].ver][y].kind = "reg" => t[y] = store[proc[i].ver][y],
           c \notin {"parents", "open", "write", "place", "unlinkInstalled", "unlinkSource"},
           c = "rename" => t[proc[i].at].kind = "none"
    PROVE  SafeInv' /\ Kept
<1> DEFINE j == proc[i]
           k == [j EXCEPT !.pc = c]
<1>1. CASE Fail(i)
  BY <1>1, FailSafe
<1>2. CASE /\ store' = [store EXCEPT ![j.ver] = t]
           /\ Step(i, [j EXCEPT !.pc = c])
           /\ UNCHANGED <<sys, tmp, current, cache, history>>
  <2>1. k \in Jobs /\ k.pc = c /\ k.seen = j.seen /\ k.at = j.at /\ k.ver = j.ver
    BY NextJob
  <2>2. j.ver \in Versions
    BY ActiveJob DEF Active
  <2>3. store'[j.ver] = t /\ \A v \in Versions : store'[v] = IF v = j.ver THEN t ELSE store[v]
    BY <1>2, <2>2 DEF TypeInv, TypeOK
  <2>4. \A v \in Versions : Straight(store'[v])
    BY <2>3 DEF SafeInv
  <2>5. Straight(sys') /\ Straight(j.seen)
    BY <1>2 DEF SafeInv
  <2>6. Knows(k, sys', store')
    <3> HIDE DEF k
    <3>1. QED
      BY <2>1, <2>3 DEF Knows
  <2>7. SafeInv'
    <3>1. Step(i, k)
      BY <1>2
    <3> HIDE DEF k
    <3>2. QED
      BY <2>1, <2>4, <2>5, <2>6, <3>1, OnlyOne
  <2>8. Kept
    BY <1>2, <2>2, <2>3 DEF Kept, Held
  <2>9. QED
    BY <2>7, <2>8
<1>3. QED
  BY <1>1, <1>2 DEF InStore

\* create_directories makes a directory where nothing is.
LEMMA DirsMadeSafe ==
    ASSUME NEW s \in Trees, Straight(s), NEW xs \in SUBSET Paths, NEW m \in Owners
    PROVE  /\ DirsMade(s, xs, m) \in Trees /\ Straight(DirsMade(s, xs, m))
           /\ \A y \in Paths :
                s[y].kind # "none" \/ y \notin xs => DirsMade(s, xs, m)[y] = s[y]
<1> DEFINE t == DirsMade(s, xs, m)
<1>2. \A y \in Paths : t[y] = IF y \in xs /\ s[y].kind = "none" THEN Dir(m) ELSE s[y]
  BY DEF DirsMade
<1>3. t \in Trees
  BY DirsMadeType
<1>4. Straight(t)
  <2> HIDE DEF t
  <2>1. QED
    BY <1>2, AbsentStraight DEF Straight
<1>5. QED
  BY <1>2, <1>3, <1>4

LEMMA StoreStepsSafe ==
    ASSUME TypeInv, SafeInv, NEW i \in Procs,
           Parents(i) \/ MakeDir(i) \/ UnlinkSource(i) \/ LinkSource(i)
    PROVE  SafeInv' /\ Kept
<1> DEFINE j == proc[i]
           s == store[j.ver]
<1>1. Active(i)
  BY DEF Active, Parents, MakeDir, UnlinkSource, LinkSource
<1>2. /\ j \in Jobs /\ j.ver \in Versions /\ j.at \in Paths /\ j.as \in Owners /\ s \in Trees
      /\ JobOK(j) /\ Knows(j, sys, store) /\ Straight(s) /\ Straight(j.seen)
  BY <1>1, ActiveJob DEF Active, TypeInv, SafeInv
<1>3. Above[j.at] \subseteq Paths /\ j.at \notin Above[j.at]
  BY <1>2, TreeAssumption
<1>4. CASE Parents(i)
  <2> DEFINE t == DirsMade(s, Above[j.at], j.as)
             c == IF j.seen[j.at].kind = "reg" THEN "rename" ELSE "linkSource"
             can == \A y \in Above[j.at] : s[y].kind \in {"none", "dir"}
  <2>1. /\ t \in Trees /\ Straight(t)
        /\ \A y \in Paths : s[y].kind # "none" \/ y \notin Above[j.at] => t[y] = s[y]
    <3>1. Above[j.at] \in SUBSET Paths
      BY <1>3
    <3> HIDE DEF j, s
    <3>2. QED
      BY <1>2, <3>1, DirsMadeSafe
  <2>2. t[j.at].kind = "none"
    BY <1>2, <1>3, <1>4, <2>1 DEF Knows, Parents
  <2>3. InStore(i, can, t, c)
    BY <1>4 DEF Parents
  <2>4. QED
    <3> HIDE DEF t, can
    <3>1. QED
      BY <1>1, <1>2, <2>1, <2>2, <2>3, InStoreSafe DEF Pcs
<1>5. CASE MakeDir(i)
  <2> DEFINE t == DirsMade(s, Above[j.at] \cup {j.at}, j.as)
             can == \A y \in Above[j.at] \cup {j.at} : s[y].kind \in {"none", "dir"}
  <2>1. /\ t \in Trees /\ Straight(t)
        /\ \A y \in Paths : s[y].kind # "none" => t[y] = s[y]
    <3>1. Above[j.at] \cup {j.at} \in SUBSET Paths
      BY <1>2, <1>3
    <3> HIDE DEF j, s
    <3>2. QED
      BY <1>2, <3>1, DirsMadeSafe
  <2>2. InStore(i, can, t, "ownSource")
    BY <1>5 DEF MakeDir
  <2>3. QED
    <3> HIDE DEF t, can
    <3>1. QED
      BY <1>1, <1>2, <2>1, <2>2, InStoreSafe DEF Pcs
<1>6. CASE UnlinkSource(i)
  <2> DEFINE t == [s EXCEPT ![j.at] = Absent]
  <2>1. s[j.at].kind = "link"
    BY <1>2, <1>6 DEF Knows, UnlinkSource
  <2>2. t \in Trees /\ \A y \in Paths : t[y] = IF y = j.at THEN Absent ELSE s[y]
    BY <1>2 DEF Trees, Node
  <2>3. Straight(t) /\ InStore(i, TRUE, t, "linkSource")
    BY <1>2, <1>6, <2>2, AbsentStraight DEF Straight, UnlinkSource
  <2>4. QED
    <3> HIDE DEF t
    <3>1. QED
      BY <1>1, <1>2, <2>1, <2>2, <2>3, InStoreSafe DEF Pcs
<1>7. CASE LinkSource(i)
  <2> DEFINE n == Link(j.as, j.seen[j.at].is)
             t == [s EXCEPT ![j.at] = n]
             can == s[j.at].kind = "none"
  <2>1. j.seen[j.at] \in Node /\ j.seen[j.at].kind = "link"
    BY <1>2, <1>7 DEF LinkSource, JobOK, Jobs, Trees
  <2>2. n \in Node /\ StraightAt(n, j.at)
    <3>1. n \in Node
      BY <1>2, <2>1, NodeKinds DEF Node
    <3>2. StraightAt(j.seen[j.at], j.at)
      BY <1>2 DEF Straight
    <3>3. QED
      BY <2>1, <3>1, <3>2 DEF StraightAt, Link
  <2>3. t \in Trees /\ \A y \in Paths : t[y] = IF y = j.at THEN n ELSE s[y]
    BY <1>2, <2>2 DEF Trees
  <2>4. Straight(t) /\ InStore(i, can, t, "ownSource")
    BY <1>2, <1>7, <2>2, <2>3 DEF Straight, LinkSource
  <2>5. CASE can
    <3> HIDE DEF t, n
    <3>1. QED
      BY <1>1, <1>2, <2>3, <2>4, <2>5, InStoreSafe DEF Pcs
  <2>6. CASE ~can
    <3>1. Fail(i)
      BY <1>7, <2>6 DEF LinkSource, InStore
    <3>2. QED
      BY <1>1, <3>1, FailSafe
  <2>7. QED
    BY <2>5, <2>6
<1>8. QED
  BY <1>4, <1>5, <1>6, <1>7

LEMMA OwnSafe ==
    ASSUME TypeInv, SafeInv, NEW i \in Procs, OwnSource(i) \/ OwnInstalled(i)
    PROVE  SafeInv' /\ Kept
<1> DEFINE j == proc[i]
           k == Passed(j)
<1>1. Active(i)
  BY DEF Active, OwnSource, OwnInstalled
<1>2. /\ j.ver \in Versions /\ j.at \in Paths /\ store[j.ver][j.at] \in Node /\ sys[j.at] \in Node
      /\ Straight(j.seen)
  BY <1>1, ActiveJob DEF Active, SafeInv
<1>3. k \in Jobs /\ k.pc = "item" /\ k.seen = j.seen
  BY <1>1, PassedJob
<1>4. Knows(k, sys', store')
  BY <1>3 DEF Knows
<1>5. CASE Fail(i)
  BY <1>1, <1>5, FailSafe
<1>6. CASE OwnSource(i) /\ ~Fail(i)
  <2> DEFINE n == [store[j.ver][j.at] EXCEPT !.mine = "yes"]
  <2>1. /\ store' = [store EXCEPT ![j.ver][j.at].mine = "yes"] /\ store[j.ver][j.at].kind # "none"
        /\ Step(i, k) /\ UNCHANGED sys
    BY <1>6 DEF OwnSource
  <2>2. n \in Node /\ n.kind = store[j.ver][j.at].kind /\ n.is = store[j.ver][j.at].is
    BY <1>2, <2>1, NodeKinds
  <2>3. StraightAt(n, j.at)
    BY <1>2, <2>2 DEF SafeInv, Straight, StraightAt
  <2>4. store' = [store EXCEPT ![j.ver][j.at] = n]
    BY <2>1
  <2>5. /\ \A w \in Versions : Straight(store'[w])
        /\ \A w \in Versions, y \in Paths :
             store'[w][y] = IF w = j.ver /\ y = j.at THEN n ELSE store[w][y]
    <3> HIDE DEF n
    <3>1. QED
      BY <1>2, <2>2, <2>3, <2>4, StoreStraight
  <2>6. Straight(sys')
    BY <2>1 DEF SafeInv
  <2>7. SafeInv'
    <3> HIDE DEF k
    <3>1. QED
      BY <1>1, <1>2, <1>3, <1>4, <2>1, <2>5, <2>6, OnlyOne
  <2>8. Kept
    <3> HIDE DEF n
    <3>1. QED
      <4>1. \A y \in Paths : sys'[y] = sys[y]
        BY <2>1
      <4>2. \A y \in Paths, w \in Versions :
              store'[w][y].kind = store[w][y].kind /\ store'[w][y].is = store[w][y].is
        BY <2>2, <2>5
      <4>3. QED
        BY <4>1, <4>2, KeptBy
  <2>9. QED
    BY <2>7, <2>8
<1>7. CASE OwnInstalled(i) /\ ~Fail(i)
  <2> DEFINE n == [sys[j.at] EXCEPT !.mine = "yes"]
  <2>1. /\ sys' = [sys EXCEPT ![j.at].mine = "yes"] /\ sys[j.at].kind # "none"
        /\ Step(i, k) /\ UNCHANGED store
    BY <1>7 DEF OwnInstalled
  <2>2. n \in Node /\ n.kind = sys[j.at].kind /\ n.is = sys[j.at].is
    BY <1>2, <2>1, NodeKinds
  <2>3. StraightAt(n, j.at)
    BY <1>2, <2>2 DEF SafeInv, Straight, StraightAt
  <2>4. sys' = [sys EXCEPT ![j.at] = n]
    BY <2>1
  <2>5. Straight(sys') /\ \A y \in Paths : sys'[y] = IF y = j.at THEN n ELSE sys[y]
    <3> HIDE DEF n
    <3>1. QED
      BY <1>2, <2>2, <2>3, <2>4, SysStraight
  <2>6. \A w \in Versions : Straight(store'[w])
    BY <2>1 DEF SafeInv
  <2>7. SafeInv'
    <3> HIDE DEF k
    <3>1. QED
      BY <1>1, <1>2, <1>3, <1>4, <2>1, <2>5, <2>6, OnlyOne
  <2>8. Kept
    <3> HIDE DEF n
    <3>1. QED
      BY <1>2, <2>1, <2>2, <2>5, KeptBy
  <2>9. QED
    BY <2>7, <2>8
<1>8. QED
  BY <1>5, <1>6, <1>7

LEMMA CopySafe ==
    ASSUME TypeInv, SafeInv, NEW i \in Procs, Rename(i) \/ Open(i) \/ Write(i) \/ Place(i)
    PROVE  SafeInv' /\ Kept
<1> DEFINE j == proc[i]
<1>1. Active(i)
  BY DEF Active, Rename, Open, Write, Place
<1>2. /\ j \in Jobs /\ j.ver \in Versions /\ j.at \in Paths /\ j.as \in Owners
      /\ sys[j.at] \in Node /\ JobOK(j) /\ Knows(j, sys, store) /\ Straight(j.seen)
  BY <1>1, ActiveJob DEF Active, TypeInv, SafeInv
<1>3. CASE Fail(i) \/ Discard(i)
  BY <1>1, <1>3, FailSafe
<1>4. CASE /\ j.pc = "rename"
           /\ store' = [store EXCEPT ![j.ver][j.at] = sys[j.at]]
           /\ sys' = [sys EXCEPT ![j.at] = Absent]
           /\ Step(i, [j EXCEPT !.pc = "linkInstalled"])
  <2> DEFINE k == [j EXCEPT !.pc = "linkInstalled"]
  <2>1. store[j.ver][j.at].kind = "none" /\ StraightAt(sys[j.at], j.at)
    BY <1>2, <1>4 DEF Knows, SafeInv, Straight
  <2>2. /\ \A w \in Versions : Straight(store'[w])
        /\ \A w \in Versions, y \in Paths :
             store'[w][y] = IF w = j.ver /\ y = j.at THEN sys[j.at] ELSE store[w][y]
    BY <1>2, <1>4, <2>1, StoreStraight
  <2>3. Straight(sys') /\ \A y \in Paths : sys'[y] = IF y = j.at THEN Absent ELSE sys[y]
    <3>1. Absent \in Node /\ StraightAt(Absent, j.at)
      BY AbsentStraight DEF Node
    <3>2. QED
      BY <1>2, <1>4, <3>1, SysStraight
  <2>4. k \in Jobs /\ k.pc = "linkInstalled" /\ k.seen = j.seen
    BY <1>1, NextJob DEF Pcs
  <2>5. Knows(k, sys', store')
    BY <2>4 DEF Knows
  <2>6. SafeInv'
    <3>1. Step(i, k)
      BY <1>4
    <3> HIDE DEF k
    <3>2. QED
      BY <1>1, <1>2, <2>2, <2>3, <2>4, <2>5, <3>1, OnlyOne
  <2>7. Kept
    BY <1>2, <2>1, <2>2, <2>3 DEF Kept, Held, Absent
  <2>8. QED
    BY <2>6, <2>7
<1>5. CASE /\ j.pc = "rename" /\ DataOf(sys[j.at]) # NoContent
           /\ Step(i, [j EXCEPT !.pc = "open", !.buf = DataOf(sys[j.at])])
           /\ UNCHANGED <<sys, store>>
  <2> DEFINE d == DataOf(sys[j.at])
             k == [j EXCEPT !.pc = "open", !.buf = d]
  <2>1. d \in Data /\ (sys[j.at].kind = "reg" => d = sys[j.at].is)
    <3>1. d \in Data
      BY <1>2, <1>5, DataOfType DEF TypeInv, TypeOK
    <3>2. QED
      BY <3>1 DEF DataOf
  <2>2. k \in Jobs /\ k.pc = "open" /\ k.seen = j.seen /\ k.at = j.at /\ k.ver = j.ver /\ k.buf = d
    <3> HIDE DEF d
    <3>1. QED
      BY <1>2, <2>1 DEF Jobs, Pcs
  <2>3. Knows(k, sys, store)
    <3> HIDE DEF k, d
    <3>1. QED
      BY <1>2, <1>5, <2>1, <2>2 DEF Knows
  <2>4. Step(i, k)
    BY <1>5
  <2>5. QED
    <3> HIDE DEF k
    <3>1. QED
      BY <1>1, <1>5, <2>2, <2>3, <2>4, QuietStep
<1>6. CASE /\ (j.pc = "open" /\ Step(i, [j EXCEPT !.pc = "write"]))
              \/ (j.pc = "write" /\ Step(i, [j EXCEPT !.pc = "place"]))
           /\ UNCHANGED <<sys, store>>
  <2>1. PICK c \in {"write", "place"} : Step(i, [j EXCEPT !.pc = c])
    BY <1>6
  <2> DEFINE k == [j EXCEPT !.pc = c]
  <2>2. /\ k \in Jobs /\ k.pc = c /\ k.seen = j.seen /\ k.at = j.at /\ k.ver = j.ver
        /\ k.buf = j.buf
    <3>1. c \in Pcs
      BY DEF Pcs
    <3>2. QED
      BY <1>1, <3>1, NextJob
  <2>3. Knows(k, sys, store)
    <3> HIDE DEF k
    <3>1. QED
      BY <1>2, <1>6, <2>2 DEF Knows
  <2>4. Step(i, k)
    BY <2>1
  <2>5. QED
    <3> HIDE DEF k
    <3>1. QED
      BY <1>1, <1>6, <2>2, <2>3, <2>4, QuietStep
<1>7. CASE /\ j.pc = "place"
           /\ store' = [store EXCEPT ![j.ver][j.at] = Regular(j.as, j.buf)]
           /\ Step(i, [j EXCEPT !.pc = "unlinkInstalled"])
           /\ UNCHANGED sys
  <2> DEFINE n == Regular(j.as, j.buf)
             k == [j EXCEPT !.pc = "unlinkInstalled"]
  <2>1. store[j.ver][j.at].kind = "none" /\ (sys[j.at].kind = "reg" => j.buf = sys[j.at].is)
    BY <1>2, <1>7 DEF Knows
  <2>2. n \in Node /\ n.kind = "reg" /\ n.is = j.buf /\ StraightAt(n, j.at)
    BY <1>2, <1>7 DEF Node, JobOK, Regular, StraightAt
  <2>3. /\ \A w \in Versions : Straight(store'[w])
        /\ \A w \in Versions, y \in Paths :
             store'[w][y] = IF w = j.ver /\ y = j.at THEN n ELSE store[w][y]
    <3>1. store' = [store EXCEPT ![j.ver][j.at] = n]
      BY <1>7
    <3> HIDE DEF n
    <3>2. QED
      BY <1>2, <2>2, <3>1, StoreStraight
  <2>4. k \in Jobs /\ k.pc = "unlinkInstalled" /\ k.seen = j.seen /\ k.at = j.at /\ k.ver = j.ver
    BY <1>1, NextJob DEF Pcs
  <2>5. Knows(k, sys', store')
    <3>1. store'[j.ver][j.at] = n
      BY <1>2, <2>3
    <3> HIDE DEF k, n
    <3>2. QED
      BY <1>2, <1>7, <2>1, <2>2, <2>4, <3>1 DEF Knows
  <2>6. SafeInv'
    <3>1. Step(i, k) /\ Straight(sys')
      BY <1>7 DEF SafeInv
    <3> HIDE DEF k, n
    <3>2. QED
      BY <1>1, <1>2, <2>3, <2>4, <2>5, <3>1, OnlyOne
  <2>7. Kept
    <3> HIDE DEF n
    <3>1. QED
      BY <1>2, <1>7, <2>1, <2>3 DEF Kept, Held
  <2>8. QED
    BY <2>6, <2>7
<1>8. QED
  BY <1>3, <1>4, <1>5, <1>6, <1>7 DEF Rename, Open, Write, Place

LEMMA InstalledSafe ==
    ASSUME TypeInv, SafeInv, NEW i \in Procs, UnlinkInstalled(i) \/ LinkInstalled(i)
    PROVE  SafeInv' /\ Kept
<1> DEFINE j == proc[i]
<1>1. Active(i)
  BY DEF Active, UnlinkInstalled, LinkInstalled
<1>2. /\ j \in Jobs /\ j.ver \in Versions /\ j.at \in Paths /\ j.as \in Owners
      /\ Knows(j, sys, store) /\ Straight(j.seen)
  BY <1>1, ActiveJob DEF Active, TypeInv, SafeInv
<1>3. CASE Fail(i)
  BY <1>1, <1>3, FailSafe
<1>4. ASSUME NEW n \in Node, StraightAt(n, j.at), n.kind # "reg", NEW c \in {"linkInstalled", "ownInstalled"},
             sys' = [sys EXCEPT ![j.at] = n], Step(i, [j EXCEPT !.pc = c]), UNCHANGED store,
             sys[j.at].kind = "reg" =>
                \E w \in Versions : store[w][j.at].kind = "reg" /\ store[w][j.at].is = sys[j.at].is
      PROVE  SafeInv' /\ Kept
  <2> DEFINE k == [j EXCEPT !.pc = c]
  <2>1. Straight(sys') /\ \A y \in Paths : sys'[y] = IF y = j.at THEN n ELSE sys[y]
    BY <1>2, <1>4, SysStraight
  <2>2. \A w \in Versions : Straight(store'[w])
    BY <1>4 DEF SafeInv
  <2>3. k \in Jobs /\ k.pc = c /\ k.seen = j.seen
    <3>1. c \in Pcs
      BY DEF Pcs
    <3>2. QED
      BY <1>1, <3>1, NextJob
  <2>4. Knows(k, sys', store')
    BY <2>3 DEF Knows
  <2>5. SafeInv'
    <3>1. Step(i, k)
      BY <1>4
    <3> HIDE DEF k
    <3>2. QED
      BY <1>1, <1>2, <2>1, <2>2, <2>3, <2>4, <3>1, OnlyOne
  <2>6. Kept
    BY <1>2, <1>4, <2>1 DEF Kept, Held
  <2>7. QED
    BY <2>5, <2>6
<1>5. CASE UnlinkInstalled(i) /\ ~Fail(i)
  <2>1. /\ sys' = [sys EXCEPT ![j.at] = Absent] /\ Step(i, [j EXCEPT !.pc = "linkInstalled"])
        /\ UNCHANGED store /\ j.pc = "unlinkInstalled"
    BY <1>5 DEF UnlinkInstalled
  <2>2. sys[j.at].kind = "reg" =>
           \E w \in Versions : store[w][j.at].kind = "reg" /\ store[w][j.at].is = sys[j.at].is
    BY <1>2, <2>1 DEF Knows
  <2>3. Absent \in Node /\ Absent.kind # "reg" /\ StraightAt(Absent, j.at)
    BY DEF Node, Absent, StraightAt
  <2>4. QED
    BY <1>4, <2>1, <2>2, <2>3
<1>6. CASE LinkInstalled(i) /\ ~Fail(i)
  <2> DEFINE n == Link(j.as, Content(j))
  <2>1. /\ sys' = [sys EXCEPT ![j.at] = n] /\ Step(i, [j EXCEPT !.pc = "ownInstalled"])
        /\ UNCHANGED store /\ sys[j.at].kind = "none"
    BY <1>6 DEF LinkInstalled
  <2>2. n \in Node /\ n.kind # "reg" /\ StraightAt(n, j.at)
    <3>1. n \in Node
      BY <1>2 DEF Node, Content, StoreFiles
    <3>2. QED
      BY <1>2, <3>1 DEF Link, StraightAt, Content
  <2>3. QED
    <3> HIDE DEF n
    <3>1. QED
      BY <1>4, <2>1, <2>2
<1>7. QED
  BY <1>3, <1>5, <1>6

LEMMA EndSafe ==
    ASSUME TypeInv, SafeInv, NEW i \in Procs,
           DryRun(i) \/ End(i) \/ ClearCurrent(i) \/ SetCurrent(i) \/ Crash(i)
    PROVE  SafeInv' /\ Kept
<1>1. Active(i) /\ UNCHANGED <<sys, store>>
  BY DEF Active, DryRun, End, ClearCurrent, SetCurrent, Crash
<1>2. PICK c \in {"item", "clearCurrent", "setCurrent"} :
        Step(i, IdleJob) \/ Step(i, [proc[i] EXCEPT !.pc = c])
  BY DEF DryRun, End, ClearCurrent, SetCurrent, Crash, Stop
<1> DEFINE k == [proc[i] EXCEPT !.pc = c]
<1>3. k \in Jobs /\ k.pc = c /\ k.seen = proc[i].seen
  <2>1. c \in Pcs
    BY DEF Pcs
  <2>2. QED
    BY <1>1, <2>1, NextJob
<1>4. Knows(k, sys, store)
  BY <1>3 DEF Knows
<1>5. IdleJob \in Jobs /\ IdleJob.pc = "idle"
  BY IdleJobType
<1>6. Step(i, IdleJob) \/ Step(i, k)
  BY <1>2
<1>7. QED
  <2> HIDE DEF k
  <2>1. QED
    BY <1>1, <1>3, <1>4, <1>5, <1>6, QuietStep

LEMMA SafeInit == Init => SafeInv
<1> SUFFICES ASSUME Init PROVE SafeInv
  OBVIOUS
<1>1. \A i \in Procs : ~Active(i)
  BY IdleJobType DEF Init, Active
<1>2. Straight(sys) /\ \A v \in Versions : Straight(store[v])
  BY BuildsAssumption, AbsentStraight DEF Init, Straight, StraightAt
<1>3. QED
  BY <1>1, <1>2 DEF SafeInv

LEMMA WorkSafe ==
    ASSUME TypeInv, SafeInv, NEW i \in Procs, Work(i) \/ Crash(i)
    PROVE  SafeInv' /\ Kept
BY ItemSafe, StoreStepsSafe, OwnSafe, CopySafe, InstalledSafe, EndSafe DEF Work

LEMMA SafeNext ==
    ASSUME OneAtATime, TypeInv, SafeInv, [Next]_vars
    PROVE  SafeInv' /\ (proc' # proc => Kept)
<1>1. CASE Quiet
  BY <1>1 DEF Quiet, SafeInv, Active, Knows
<1>2. ASSUME NEW b \in Builds, Build(b) PROVE SafeInv' /\ proc' = proc
  BY <1>2, BuildSafe DEF Build
<1>3. ASSUME NEW i \in Procs, NEW v \in Versions, NEW as \in {"yes", "no"},
             NEW f \in FlagSets[as], Pack(i, v, as, f), proc' # proc
      PROVE  SafeInv' /\ Kept
  <2>1. f \in SUBSET Flags
    BY NamesAssumption
  <2>2. UNCHANGED <<sys, store>>
    BY <1>3 DEF Pack
  <2>3. QED
    BY <1>3, <2>1, <2>2, PackSafe, NoChange
<1>4. ASSUME NEW i \in Procs, Work(i) \/ Crash(i) PROVE SafeInv' /\ Kept
  BY <1>4, WorkSafe
<1>5. QED
  BY <1>1, <1>2, <1>3, <1>4, QuietSteps DEF Next, Quiet

\* One run of --pack at a time loses no file and changes no packed one, whichever call
\* fails and wherever runs are killed.
THEOREM PackLosesNothing == ASSUME OneAtATime PROVE Spec => NothingLost
<1>1. TypeInv /\ SafeInv /\ [Next]_vars => SafeInv'
  BY SafeNext
<1>2. TypeInv /\ SafeInv /\ [Next]_vars => [proc' # proc => Kept]_vars
  BY SafeNext
<1>3. [proc' # proc => Kept]_vars =>
        [proc' # proc =>
           \A x \in Paths :
              /\ Held(x) \subseteq Held(x)'
              /\ \A v \in Versions :
                   store[v][x].kind = "reg" =>
                      store'[v][x].kind = "reg" /\ store'[v][x].is = store[v][x].is]_vars
  BY DEF Kept
<1>4. QED
  BY <1>1, <1>2, <1>3, SafeInit, TypeInit, TypeNext, PTL DEF Spec, NothingLost

-----------------------------------------------------------------------------
(* The steps of a run                                                        *)

Calls == Pcs \ {"idle", "dry", "item", "clearCurrent", "setCurrent"}

\* Process states j and k are of the same run.
SameRun(j, k) ==
    k.ver = j.ver /\ k.as = j.as /\ k.flags = j.flags /\ k.list = j.list /\ k.seen = j.seen

\* A step changes the two trees at path x only, and makes directories above it.
OnlyAt(x, v, m) ==
    /\ \A y \in Paths \ {x} :
         /\ sys'[y] = sys[y]
         /\ \/ store'[v][y] = store[v][y]
            \/ y \in Above[x] /\ store[v][y].kind = "none" /\ store'[v][y] = Dir(m)
    /\ \A w \in Versions \ {v} : store'[w] = store[w]

\* The work on an item starts, and may be done with that.
Starts(j, k) ==
    LET due == Due(j.ver, j.flags, k.at, j.seen[k.at]) IN
    /\ j.pc = "item" /\ k.at \in Ready(j) /\ k.bad = j.bad
    /\ UNCHANGED <<sys, store>>
    /\ \/ due = "fine" /\ k.pc = "item" /\ k.todo = j.todo \ {k.at}
       \/ /\ due \in {"unlinkInstalled", "unlinkSource", "parents", "makeDir"}
          /\ k.pc = due /\ k.todo = j.todo

\* An error is ignored.
GivesUp(j, k) ==
    /\ k.pc = "item" /\ k.bad /\ k.todo = j.todo \ {k.at}
    /\ \/ j.pc = "item" /\ k.at \in Ready(j)
       \/ j.pc \in Calls /\ k.at = j.at
    /\ UNCHANGED <<sys, store>>

\* One place of the run follows another without a system call.
Turns(j, k) ==
    /\ \/ j.pc = "dry" /\ k.pc = "item"
       \/ j.pc = "item" /\ k.pc = "clearCurrent" /\ j.todo = {}
       \/ j.pc = "clearCurrent" /\ k.pc = "setCurrent"
    /\ k.todo = j.todo /\ k.at = j.at /\ k.bad = j.bad
    /\ UNCHANGED <<sys, store>>

\* A system call for path x: n and s are what is there in the system and in the version.
Calling(j, k) ==
    LET x == j.at
        n == sys[x]
        s == store[j.ver][x]
        Then(c, m, t) == k.pc = c /\ sys'[x] = m /\ store'[j.ver][x] = t IN
    /\ k.at = x /\ k.bad = j.bad
    /\ k.todo = IF k.pc = "item" THEN j.todo \ {x} ELSE j.todo
    /\ \/ j.pc = "parents" /\ Then(IF j.seen[x].kind = "reg" THEN "rename" ELSE "linkSource", n, s)
       \/ j.pc = "makeDir" /\ s.kind = "none" /\ Then("ownSource", n, Dir(j.as))
       \/ j.pc = "makeDir" /\ s.kind = "dir" /\ Then("ownSource", n, s)
       \/ j.pc = "unlinkSource" /\ Then("linkSource", n, Absent)
       \/ j.pc = "linkSource" /\ s.kind = "none" /\ Then("ownSource", n, Link(j.as, j.seen[x].is))
       \/ j.pc = "ownSource" /\ s.kind # "none" /\ Then("item", n, [s EXCEPT !.mine = "yes"])
       \/ j.pc = "rename" /\ n.kind \in {"reg", "link"} /\ Then("linkInstalled", Absent, n)
       \/ j.pc = "rename" /\ DataOf(n) # NoContent /\ k.buf = DataOf(n) /\ Then("open", n, s)
       \/ j.pc = "open" /\ k.buf = j.buf /\ Then("write", n, s)
       \/ j.pc = "write" /\ k.buf = j.buf /\ Then("place", n, s)
       \/ j.pc = "place" /\ Then("unlinkInstalled", n, Regular(j.as, j.buf))
       \/ j.pc = "unlinkInstalled" /\ Then("linkInstalled", Absent, s)
       \/ j.pc = "linkInstalled" /\ n.kind = "none" /\ Then("ownInstalled", Link(j.as, Content(j)), s)
       \/ j.pc = "ownInstalled" /\ n.kind # "none" /\ Then("item", [n EXCEPT !.mine = "yes"], s)

Moves(j, k) ==
    /\ SameRun(j, k) /\ OnlyAt(k.at, j.ver, j.as)
    /\ Starts(j, k) \/ GivesUp(j, k) \/ Turns(j, k) \/ Calling(j, k)

LEMMA RaiseMoves ==
    ASSUME TypeInv, NEW i \in Procs, Active(i), NEW x \in Paths, NEW j, j = [proc[i] EXCEPT !.at = x],
           Raise(i, j), NEW k, k = proc'[i], k.pc # "idle",
           (proc[i].pc = "item" /\ x \in Ready(proc[i])) \/ (proc[i].pc \in Calls /\ x = proc[i].at)
    PROVE  Moves(proc[i], k)
<1>1. proc[i] \in Jobs /\ proc \in [Procs -> Jobs]
  BY DEF TypeInv, TypeOK
<1>2. k = [Passed(j) EXCEPT !.bad = TRUE]
  BY <1>1, IdleJobType DEF Raise, Stop, Step
<1>3. SameRun(proc[i], k) /\ k.pc = "item" /\ k.bad /\ k.todo = proc[i].todo \ {x} /\ k.at = x
  BY <1>1, <1>2 DEF Passed, Jobs, SameRun
<1>4. UNCHANGED <<sys, store>>
  BY DEF Raise
<1> QED BY <1>3, <1>4 DEF Moves, OnlyAt, GivesUp

LEMMA FailMoves ==
    ASSUME TypeInv, NEW i \in Procs, proc[i].pc \in Calls, Fail(i) \/ Discard(i),
           NEW k, k = proc'[i], k.pc # "idle"
    PROVE  Moves(proc[i], k)
<1>1. proc[i] \in Jobs /\ proc[i].at \in Paths
  BY DEF TypeInv, TypeOK, Jobs
<1>2. [proc[i] EXCEPT !.at = proc[i].at] = proc[i]
  BY <1>1 DEF Jobs
<1>3. Raise(i, proc[i]) /\ Active(i)
  BY DEF Fail, Discard, Active, Calls
<1> QED BY <1>1, <1>2, <1>3, RaiseMoves

LEMMA ItemMoves ==
    ASSUME TypeInv, NEW i \in Procs, Item(i), NEW k, k = proc'[i], k.pc # "idle"
    PROVE  Moves(proc[i], k)
<1> DEFINE j == proc[i]
<1>1. j.pc = "item" /\ Active(i) /\ j \in Jobs /\ proc \in [Procs -> Jobs] /\ j.ver \in Versions
  BY ActiveJob DEF Item, Active, TypeInv, TypeOK
<1>2. PICK x \in Ready(j) :
         LET due == Due(j.ver, j.flags, x, j.seen[x])
             m == [j EXCEPT !.at = x] IN
         \/ due = "error" /\ Raise(i, m)
         \/ /\ due # "error"
            /\ Step(i, IF due = "fine" THEN Passed(m) ELSE [m EXCEPT !.pc = due])
            /\ UNCHANGED <<sys, store>>
  BY DEF Item
<1> DEFINE due == Due(j.ver, j.flags, x, j.seen[x])
           m == [j EXCEPT !.at = x]
<1>3. x \in Paths /\ x \in j.todo
  BY <1>1 DEF Ready, Jobs
<1>4. CASE due = "error"
  BY <1>1, <1>2, <1>3, <1>4, RaiseMoves
<1>5. CASE due = "fine"
  <2>1. k = Passed(m) /\ UNCHANGED <<sys, store>>
    BY <1>1, <1>2, <1>5 DEF Step
  <2>2. SameRun(j, k) /\ k.pc = "item" /\ k.bad = j.bad /\ k.todo = j.todo \ {x} /\ k.at = x
    BY <1>1, <1>3, <2>1 DEF Passed, Jobs, SameRun
  <2> QED BY <1>1, <1>2, <1>5, <2>1, <2>2 DEF Moves, OnlyAt, Starts
<1>6. CASE due \notin {"fine", "error"}
  <2>1. k = [m EXCEPT !.pc = due] /\ UNCHANGED <<sys, store>>
    BY <1>1, <1>2, <1>6 DEF Step
  <2>2. due \in {"unlinkInstalled", "unlinkSource", "parents", "makeDir"}
    BY <1>1, <1>3, <1>6, DueFacts DEF TypeInv, TypeOK, Jobs, Trees
  <2>3. SameRun(j, k) /\ k.pc = due /\ k.bad = j.bad /\ k.todo = j.todo /\ k.at = x
    <3> HIDE DEF due
    <3> QED BY <1>1, <1>3, <2>1 DEF Jobs, SameRun
  <2> QED BY <1>1, <1>2, <2>1, <2>2, <2>3 DEF Moves, OnlyAt, Starts
<1> QED BY <1>4, <1>5, <1>6

LEMMA TurnMoves ==
    ASSUME TypeInv, NEW i \in Procs,
           DryRun(i) \/ End(i) \/ ClearCurrent(i) \/ SetCurrent(i) \/ Crash(i),
           NEW k, k = proc'[i], k.pc # "idle"
    PROVE  Moves(proc[i], k)
<1> DEFINE j == proc[i]
<1>1. j \in Jobs /\ proc \in [Procs -> Jobs]
  BY DEF TypeInv, TypeOK
<1>2. PICK c :
        /\ Step(i, [j EXCEPT !.pc = c]) /\ UNCHANGED <<sys, store>>
        /\ \/ j.pc = "dry" /\ c = "item"
           \/ j.pc = "item" /\ c = "clearCurrent" /\ j.todo = {}
           \/ j.pc = "clearCurrent" /\ c = "setCurrent"
  <2>1. ~Step(i, IdleJob)
    BY <1>1, IdleJobType DEF Step
  <2> QED BY <2>1 DEF DryRun, End, ClearCurrent, SetCurrent, Crash, Stop
<1>3. SameRun(j, k) /\ k.pc = c /\ k.bad = j.bad /\ k.todo = j.todo /\ k.at = j.at
  BY <1>1, <1>2 DEF Jobs, SameRun, Step
<1> QED BY <1>2, <1>3 DEF Moves, OnlyAt, Turns

\* A call that succeeds.
LEMMA StoreMoves ==
    ASSUME TypeInv, NEW i \in Procs,
           Parents(i) \/ MakeDir(i) \/ UnlinkSource(i) \/ LinkSource(i),
           NEW k, k = proc'[i], k.pc # "idle"
    PROVE  Moves(proc[i], k)
<1> DEFINE j == proc[i]
           s == store[j.ver]
           x == j.at
<1>1. /\ j \in Jobs /\ proc \in [Procs -> Jobs] /\ j.ver \in Versions /\ x \in Paths /\ s \in Trees
      /\ j.pc \in Calls /\ store \in [Versions -> Trees] /\ x \notin Above[x] /\ Above[x] \subseteq Paths
  BY ActiveJob, TreeAssumption
     DEF TypeInv, TypeOK, Calls, Pcs, Parents, MakeDir, UnlinkSource, LinkSource
<1>2. CASE Fail(i)
  BY <1>1, <1>2, FailMoves
<1>3. ASSUME NEW t, NEW c, c # "item", ~Fail(i), NEW can, InStore(i, can, t, c),
             \A y \in Paths \ {x} :
                t[y] = s[y] \/ (y \in Above[x] /\ s[y].kind = "none" /\ t[y] = Dir(j.as))
      PROVE  /\ SameRun(j, k) /\ OnlyAt(x, j.ver, j.as) /\ k.pc = c /\ k.todo = j.todo /\ k.at = x
             /\ k.bad = j.bad /\ sys'[x] = sys[x] /\ store'[j.ver][x] = t[x] /\ can
  <2>1. can /\ store' = [store EXCEPT ![j.ver] = t] /\ UNCHANGED sys /\ k = [j EXCEPT !.pc = c]
    BY <1>1, <1>3 DEF InStore, Step
  <2>2. store'[j.ver] = t /\ \A w \in Versions \ {j.ver} : store'[w] = store[w]
    BY <1>1, <2>1
  <2>3. SameRun(j, k) /\ k.pc = c /\ k.todo = j.todo /\ k.at = x /\ k.bad = j.bad
    BY <1>1, <2>1 DEF Jobs, SameRun
  <2> QED BY <1>3, <2>1, <2>2, <2>3 DEF OnlyAt
<1>4. CASE Parents(i) /\ ~Fail(i)
  <2> DEFINE t == DirsMade(s, Above[x], j.as)
             c == IF j.seen[x].kind = "reg" THEN "rename" ELSE "linkSource"
             can == \A y \in Above[j.at] : store[j.ver][y].kind \in {"none", "dir"}
  <2>1. \A y \in Paths : t[y] = IF y \in Above[x] /\ s[y].kind = "none" THEN Dir(j.as) ELSE s[y]
    BY DEF DirsMade
  <2>2. InStore(i, can, t, c) /\ c # "item" /\ j.pc = "parents"
    BY <1>4 DEF Parents
  <2>3. t[x] = s[x]
    BY <1>1, <2>1
  <2> HIDE DEF t, can
  <2> QED BY <1>1, <1>3, <1>4, <2>1, <2>2, <2>3 DEF Moves, Calling
<1>5. CASE MakeDir(i) /\ ~Fail(i)
  <2> DEFINE t == DirsMade(s, Above[x] \cup {x}, j.as)
             can == \A y \in Above[j.at] \cup {j.at} : store[j.ver][y].kind \in {"none", "dir"}
  <2>1. \A y \in Paths : t[y] = IF y \in Above[x] \cup {x} /\ s[y].kind = "none" THEN Dir(j.as) ELSE s[y]
    BY DEF DirsMade
  <2>2. InStore(i, can, t, "ownSource") /\ j.pc = "makeDir"
    BY <1>5 DEF MakeDir
  <2>3. can => s[x].kind \in {"none", "dir"}
    OBVIOUS
  <2> HIDE DEF t, can
  <2> QED BY <1>1, <1>3, <1>5, <2>1, <2>2, <2>3 DEF Moves, Calling
<1>6. CASE UnlinkSource(i) /\ ~Fail(i)
  <2> DEFINE t == [s EXCEPT ![x] = Absent]
  <2>1. \A y \in Paths : t[y] = IF y = x THEN Absent ELSE s[y]
    BY <1>1 DEF Trees
  <2>2. InStore(i, TRUE, t, "linkSource") /\ j.pc = "unlinkSource"
    BY <1>6 DEF UnlinkSource
  <2> HIDE DEF t
  <2>3. /\ SameRun(j, k) /\ OnlyAt(x, j.ver, j.as) /\ k.pc = "linkSource" /\ k.todo = j.todo
        /\ k.at = x /\ k.bad = j.bad /\ sys'[x] = sys[x] /\ store'[j.ver][x] = Absent
    BY <1>1, <1>3, <1>6, <2>1, <2>2
  <2> QED BY <2>2, <2>3 DEF Moves, Calling
<1>7. CASE LinkSource(i) /\ ~Fail(i)
  <2> DEFINE n == Link(j.as, j.seen[x].is)
             t == [s EXCEPT ![x] = n]
             can == s[x].kind = "none"
  <2>1. \A y \in Paths : t[y] = IF y = x THEN n ELSE s[y]
    BY <1>1 DEF Trees
  <2>2. InStore(i, can, t, "ownSource") /\ j.pc = "linkSource"
    BY <1>7 DEF LinkSource
  <2> HIDE DEF t, n, can
  <2>3. /\ SameRun(j, k) /\ OnlyAt(x, j.ver, j.as) /\ k.pc = "ownSource" /\ k.todo = j.todo
        /\ k.at = x /\ k.bad = j.bad /\ sys'[x] = sys[x] /\ store'[j.ver][x] = n /\ can
    BY <1>1, <1>3, <1>7, <2>1, <2>2
  <2> QED BY <2>2, <2>3 DEF Moves, Calling, n, can
<1> QED BY <1>2, <1>4, <1>5, <1>6, <1>7

LEMMA CallMoves ==
    ASSUME TypeInv, NEW i \in Procs,
           \/ Rename(i) \/ Open(i) \/ Write(i) \/ Place(i)
           \/ UnlinkInstalled(i) \/ LinkInstalled(i) \/ OwnInstalled(i) \/ OwnSource(i),
           NEW k, k = proc'[i], k.pc # "idle"
    PROVE  Moves(proc[i], k)
<1> DEFINE j == proc[i]
           x == j.at
           n == sys[x]
           s == store[j.ver][x]
<1>1. /\ j \in Jobs /\ proc \in [Procs -> Jobs] /\ j.ver \in Versions /\ x \in Paths
      /\ j.pc \in Calls /\ store \in [Versions -> Trees] /\ store[j.ver] \in Trees /\ sys \in Trees
      /\ n \in Node /\ s \in Node
  BY ActiveJob
     DEF TypeInv, TypeOK, Calls, Pcs, Rename, Open, Write, Place, UnlinkInstalled, LinkInstalled,
         OwnInstalled, OwnSource
<1>2. CASE Fail(i) \/ Discard(i)
  BY <1>1, <1>2, FailMoves
<1>4. ASSUME NEW c \in Pcs, k = [j EXCEPT !.pc = c]
      PROVE  k.pc = c /\ k.at = x /\ k.bad = j.bad /\ SameRun(j, k) /\ k.todo = j.todo
  BY <1>1, <1>4 DEF Jobs, SameRun
<1>5. ASSUME k = Passed(j)
      PROVE  k.pc = "item" /\ k.at = x /\ k.bad = j.bad /\ SameRun(j, k) /\ k.todo = j.todo \ {x}
  BY <1>1, <1>5 DEF Jobs, SameRun, Passed
<1>6. \A m : Step(i, m) => k = m
  BY <1>1 DEF Step
<1>7. \A c \in {"linkInstalled", "open", "write", "place", "unlinkInstalled", "ownInstalled", "item"} :
         c \in Pcs
  BY DEF Pcs
<1>8. CASE Rename(i) /\ ~Fail(i)
  <2>1. CASE /\ n.kind \in {"reg", "link"}
             /\ store' = [store EXCEPT ![j.ver][x] = n]
             /\ sys' = [sys EXCEPT ![x] = Absent]
             /\ Step(i, [j EXCEPT !.pc = "linkInstalled"])
    <3>1. /\ k.pc = "linkInstalled" /\ k.at = x /\ k.bad = j.bad /\ SameRun(j, k) /\ k.todo = j.todo
      BY <1>4, <1>6, <1>7, <2>1
    <3>2. sys'[x] = Absent /\ store'[j.ver][x] = n
      BY <1>1, <2>1 DEF Trees
    <3>3. OnlyAt(k.at, j.ver, j.as)
      BY <1>1, <2>1, <3>1, <3>2 DEF OnlyAt, Trees
    <3> QED BY <1>8, <2>1, <3>1, <3>2, <3>3 DEF Moves, Calling, Rename
  <2>2. CASE /\ DataOf(n) # NoContent
             /\ Step(i, [j EXCEPT !.pc = "open", !.buf = DataOf(n)])
             /\ UNCHANGED <<sys, store>>
    <3>1. DataOf(n) \in Data
      BY <1>1, <2>2, DataOfType
    <3>2. /\ k.pc = "open" /\ k.at = x /\ k.bad = j.bad /\ SameRun(j, k) /\ k.todo = j.todo
          /\ k.buf = DataOf(n)
      BY <1>1, <1>6, <2>2, <3>1 DEF Jobs, SameRun
    <3> QED BY <1>8, <2>2, <3>2 DEF Moves, Calling, OnlyAt, Rename
  <2> QED BY <1>8, <2>1, <2>2 DEF Rename
<1>9. CASE (Open(i) \/ Write(i)) /\ ~Fail(i) /\ ~Discard(i)
  <2>1. PICK c \in {"write", "place"} :
           /\ Step(i, [j EXCEPT !.pc = c]) /\ UNCHANGED <<sys, store>>
           /\ (j.pc = "open" /\ c = "write") \/ (j.pc = "write" /\ c = "place")
    BY <1>9 DEF Open, Write
  <2>2. /\ k.pc = c /\ k.at = x /\ k.bad = j.bad /\ SameRun(j, k) /\ k.todo = j.todo /\ k.buf = j.buf
    BY <1>1, <1>6, <2>1 DEF Jobs, SameRun
  <2> QED BY <2>1, <2>2 DEF Moves, Calling, OnlyAt
<1>10. CASE Place(i) /\ ~Discard(i)
  <2> DEFINE t == Regular(j.as, j.buf)
  <2>1. /\ store' = [store EXCEPT ![j.ver][x] = t] /\ sys' = sys /\ j.pc = "place"
        /\ Step(i, [j EXCEPT !.pc = "unlinkInstalled"])
    BY <1>10 DEF Place
  <2>2. k.pc = "unlinkInstalled" /\ k.at = x /\ k.bad = j.bad /\ SameRun(j, k) /\ k.todo = j.todo
    BY <1>4, <1>6, <1>7, <2>1
  <2>3. OnlyAt(k.at, j.ver, j.as) /\ store'[j.ver][x] = t
    <3> HIDE DEF t
    <3> QED BY <1>1, <2>1, <2>2 DEF OnlyAt, Trees
  <2> QED BY <2>1, <2>2, <2>3 DEF Moves, Calling
<1>11. CASE (UnlinkInstalled(i) \/ LinkInstalled(i)) /\ ~Fail(i)
  <2>1. PICK c \in {"linkInstalled", "ownInstalled"}, m \in {Absent, Link(j.as, Content(j))} :
           /\ sys' = [sys EXCEPT ![x] = m] /\ store' = store
           /\ Step(i, [j EXCEPT !.pc = c])
           /\ \/ j.pc = "unlinkInstalled" /\ c = "linkInstalled" /\ m = Absent
              \/ /\ j.pc = "linkInstalled" /\ c = "ownInstalled" /\ m = Link(j.as, Content(j))
                 /\ n.kind = "none"
    BY <1>11 DEF UnlinkInstalled, LinkInstalled
  <2>2. k.pc = c /\ k.at = x /\ k.bad = j.bad /\ SameRun(j, k) /\ k.todo = j.todo
    BY <1>1, <1>6, <2>1 DEF Jobs, SameRun
  <2>3. OnlyAt(k.at, j.ver, j.as) /\ sys'[x] = m
    BY <1>1, <2>1, <2>2 DEF OnlyAt, Trees
  <2> QED BY <2>1, <2>2, <2>3 DEF Moves, Calling
<1>12. CASE OwnInstalled(i) /\ ~Fail(i)
  <2> DEFINE m == [n EXCEPT !.mine = "yes"]
  <2>1. /\ sys' = [sys EXCEPT ![x] = m] /\ store' = store /\ j.pc = "ownInstalled"
        /\ n.kind # "none" /\ Step(i, Passed(j))
    BY <1>12 DEF OwnInstalled
  <2>2. k.pc = "item" /\ k.at = x /\ k.bad = j.bad /\ SameRun(j, k) /\ k.todo = j.todo \ {x}
    BY <1>5, <1>6, <2>1
  <2>3. OnlyAt(k.at, j.ver, j.as) /\ sys'[x] = m
    <3> HIDE DEF m
    <3> QED BY <1>1, <2>1, <2>2 DEF OnlyAt, Trees
  <2> QED BY <2>1, <2>2, <2>3 DEF Moves, Calling
<1>13. CASE OwnSource(i) /\ ~Fail(i)
  <2> DEFINE t == [s EXCEPT !.mine = "yes"]
  <2>1. /\ store' = [store EXCEPT ![j.ver][x] = t] /\ sys' = sys /\ j.pc = "ownSource"
        /\ s.kind # "none" /\ Step(i, Passed(j))
    BY <1>13 DEF OwnSource
  <2>2. k.pc = "item" /\ k.at = x /\ k.bad = j.bad /\ SameRun(j, k) /\ k.todo = j.todo \ {x}
    BY <1>5, <1>6, <2>1
  <2>3. OnlyAt(k.at, j.ver, j.as) /\ store'[j.ver][x] = t
    <3> HIDE DEF t
    <3> QED BY <1>1, <2>1, <2>2 DEF OnlyAt, Trees
  <2> QED BY <2>1, <2>2, <2>3 DEF Moves, Calling
<1> QED BY <1>2, <1>8, <1>9, <1>10, <1>11, <1>12, <1>13

\* Every step of a run that does not end it is one of the moves.
LEMMA WorkMoves ==
    ASSUME TypeInv, NEW i \in Procs, Work(i) \/ Crash(i), NEW k, k = proc'[i], k.pc # "idle"
    PROVE  Moves(proc[i], k)
BY ItemMoves, TurnMoves, StoreMoves, CallMoves DEF Work

\* A step that ends the run changes no tree.
LEMMA EndsQuietly ==
    ASSUME TypeInv, NEW i \in Procs, Work(i) \/ Crash(i), proc'[i].pc = "idle"
    PROVE  UNCHANGED <<sys, store>>
<1>1. proc[i] \in Jobs /\ proc \in [Procs -> Jobs]
  BY DEF TypeInv, TypeOK
<1>2. \A c \in Pcs \ {"idle"} : ~Step(i, [proc[i] EXCEPT !.pc = c])
  BY <1>1 DEF Step, Jobs
<1>3. ASSUME NEW d PROVE ~Step(i, [proc[i] EXCEPT !.pc = "open", !.buf = d])
  <2>1. [proc[i] EXCEPT !.pc = "open", !.buf = d].pc = "open"
    BY <1>1 DEF Jobs
  <2> QED BY <1>1, <2>1 DEF Step
<1>4. ~Step(i, Passed(proc[i]))
  BY <1>1 DEF Step, Jobs, Passed
<1>5. Raise(i, proc[i]) => UNCHANGED <<sys, store>>
  BY DEF Raise
<1>6. CASE Parents(i) \/ MakeDir(i) \/ UnlinkSource(i) \/ LinkSource(i) \/ Rename(i) \/ Open(i)
  BY <1>2, <1>3, <1>5, <1>6
     DEF Parents, MakeDir, UnlinkSource, LinkSource, InStore, Rename, Open, Fail, Pcs
<1>7. CASE Write(i) \/ Place(i) \/ UnlinkInstalled(i) \/ LinkInstalled(i) \/ OwnInstalled(i)
           \/ OwnSource(i)
  BY <1>2, <1>4, <1>5, <1>7
     DEF Write, Place, UnlinkInstalled, LinkInstalled, OwnInstalled, OwnSource, Fail, Discard, Pcs
<1>8. CASE Item(i) \/ DryRun(i) \/ End(i) \/ ClearCurrent(i) \/ SetCurrent(i) \/ Crash(i)
  BY <1>8 DEF Item, DryRun, End, ClearCurrent, SetCurrent, Crash, Raise
<1> QED BY <1>6, <1>7, <1>8 DEF Work

-----------------------------------------------------------------------------
(* No stray copy                                                             *)

\* No error leaves the copy of moveOrCopy behind, for any number of runs at a time:
\* only a kill does.
THEOREM CopyCleared == Spec => NoStray
<1>1. TypeInv /\ [Next]_vars =>
        [\A i \in Procs :
           proc[i].pc \in {"write", "place"} /\ proc'[i].pc \notin {"write", "place"} =>
              Crash(i) \/ <<proc[i].ver, proc[i].at>> \notin tmp']_vars
  <2>1. SUFFICES ASSUME TypeInv, Next, NEW i \in Procs, proc[i].pc \in {"write", "place"},
                        proc'[i].pc \notin {"write", "place"}, ~Crash(i)
                 PROVE  <<proc[i].ver, proc[i].at>> \notin tmp'
    OBVIOUS
  <2>2. proc \in [Procs -> Jobs] /\ proc[i] \in Jobs
    BY <2>1 DEF TypeInv, TypeOK
  <2>3. ASSUME NEW m \in Procs, NEW k, Step(m, k) PROVE m = i
    BY <2>1, <2>2, <2>3 DEF Step
  <2>4. Work(i)
    <3>1. \A b \in Builds : ~Build(b)
      BY <2>1 DEF Build
    <3>2. PICK m \in Procs :
            \/ \E v \in Versions, as \in {"yes", "no"} : \E f \in FlagSets[as] : Pack(m, v, as, f)
            \/ Work(m) \/ Crash(m)
      BY <2>1, <3>1 DEF Next
    <3>3. m # i => proc'[i] = proc[i]
      <4>1. \E k : Step(m, k) \/ proc' = proc
        BY <3>2
           DEF Pack, Work, Crash, Stop, DryRun, Item, Parents, MakeDir, UnlinkSource, LinkSource,
               OwnSource, Rename, Open, Write, Place, UnlinkInstalled, LinkInstalled,
               OwnInstalled, End, ClearCurrent, SetCurrent, InStore, Fail, Discard, Raise
      <4> QED BY <2>1, <2>2, <4>1 DEF Step
    <3>4. \A v, as, f : ~Pack(i, v, as, f)
      BY <2>1 DEF Pack, Active
    <3> QED BY <2>1, <3>2, <3>3, <3>4
  <2>5. CASE Write(i)
    <3>1. ~Step(i, [proc[i] EXCEPT !.pc = "place"])
      BY <2>1, <2>2 DEF Step, Jobs
    <3> QED BY <2>5, <3>1 DEF Write, Discard
  <2>6. CASE Place(i)
    BY <2>6 DEF Place, Discard
  <2> QED BY <2>1, <2>4, <2>5, <2>6
     DEF Work, DryRun, Item, Parents, MakeDir, UnlinkSource, LinkSource, OwnSource, Rename, Open,
         UnlinkInstalled, LinkInstalled, OwnInstalled, End, ClearCurrent, SetCurrent
<1> QED BY <1>1, TypeInit, TypeNext, PTL DEF Spec, NoStray

-----------------------------------------------------------------------------
(* What is packed is packed whole                                            *)

\* What PackedWhole says of one item.
PackedAt(j, x) ==
    LET s == store[j.ver][x] IN
    CASE j.seen[x].kind = "reg" -> DataOf(s) = j.seen[x].is /\ sys[x] = Link("yes", <<j.ver, x>>)
      [] j.seen[x].kind = "link" ->
           /\ sys[x] = j.seen[x]
           /\ \/ s.kind = "link" /\ s.is = sys[x].is
              \/ s.kind = "reg" /\ sys[x].is = <<j.ver, x>>
      [] OTHER -> s.kind = "dir"

\* How far the run with job j is with the item a system call is due for.
Doing(j) ==
    LET seen == j.seen[j.at]
        n == sys[j.at]
        s == store[j.ver][j.at] IN
    /\ j.pc \in {"parents", "unlinkSource", "linkSource", "rename", "open", "write", "place",
                "unlinkInstalled", "makeDir"} => n = seen
    /\ j.pc \in {"parents", "linkSource", "rename", "open", "write", "place"} => s.kind = "none"
    /\ j.pc \in {"rename", "open", "write", "place", "unlinkInstalled", "linkInstalled", "ownInstalled"}
          => seen.kind = "reg"
    /\ j.pc \in {"open", "write", "place"} => j.buf = seen.is
    /\ j.pc \in {"unlinkInstalled", "linkInstalled", "ownInstalled"} => DataOf(s) = seen.is
    /\ j.pc = "unlinkInstalled" => DataOf(n) = seen.is
    /\ j.pc = "linkInstalled" => n.kind = "none"
    /\ j.pc = "ownInstalled" => n = Link(j.as, Content(j))
    /\ j.pc = "makeDir" => seen.kind = "dir" /\ s.kind # "dir"
    /\ j.pc = "unlinkSource" => s.kind = "link" /\ s.is # seen.is
    /\ j.pc = "ownSource" =>
          \/ seen.kind = "link" /\ n = seen /\ s = Link(j.as, seen.is)
          \/ seen.kind = "dir" /\ n = seen /\ s = Dir(j.as)

\* The items still to do are as they were when the list was made, those done are
\* packed.
RunInv(j) ==
    /\ j.todo \subseteq j.list
    /\ j.pc \in {"clearCurrent", "setCurrent"} => j.todo = {}
    /\ j.pc \in Calls =>
          j.at \in j.todo /\ j.at \notin Ignored /\ Above[j.at] \cap j.todo = {} /\ Doing(j)
    /\ \A x \in j.todo : j.pc \notin Calls \/ x # j.at => sys[x] = j.seen[x]
    /\ ~j.bad => \A x \in (j.list \ j.todo) \ Ignored : PackedAt(j, x)

RunsInv == TypeInv /\ SafeInv /\ \A i \in Procs : Active(i) => RunInv(proc[i])

\* What an item asks for, once more.
LEMMA DueSays ==
    ASSUME store \in [Versions -> Trees], sys \in Trees,
           NEW v \in Versions, NEW f, NEW x \in Paths, NEW was \in Node
    PROVE  /\ Due(v, f, x, was) \in {"unlinkInstalled", "unlinkSource", "parents", "makeDir"} =>
                x \notin Ignored
           /\ Due(v, f, x, was) = "unlinkInstalled" => was.kind = "reg"
           /\ Due(v, f, x, was) = "unlinkSource" => store[v][x].is # was.is
           /\ Due(v, f, x, was) = "makeDir" => was.kind = "dir" /\ store[v][x].kind # "dir"
           /\ Due(v, f, x, was) = "fine" /\ x \notin Ignored =>
                \/ was.kind = "link" /\ store[v][x].kind = "link" /\ store[v][x].is = was.is
                \/ was.kind = "link" /\ store[v][x].kind = "reg" /\ was.is = <<v, x>>
                \/ was.kind = "dir" /\ store[v][x].kind = "dir"
<1> DEFINE s == store[v][x]
           n == sys[x]
<1>1. s \in Node /\ n \in Node
  BY DEF Trees
<1>2. CASE x \in Ignored
  BY <1>2 DEF Due
<1>3. CASE x \notin Ignored /\ was.kind = "reg"
  <2>1. Due(v, f, x, was) = PackReg(n, s)
    BY <1>3 DEF Due
  <2>2. PackReg(n, s) \in {"unlinkInstalled", "error", "parents"}
    BY DEF PackReg
  <2> QED BY <1>3, <2>1, <2>2
<1>4. CASE x \notin Ignored /\ was.kind = "link"
  <2>1. Due(v, f, x, was) = PackLink(was.is, s, <<v, x>>, f)
    BY <1>4 DEF Due
  <2> QED BY <1>1, <1>4, <2>1, NodeKinds DEF PackLink
<1>5. CASE x \notin Ignored /\ was.kind = "dir"
  <2>1. Due(v, f, x, was) = PackDir(s)
    BY <1>5 DEF Due
  <2> QED BY <1>5, <2>1 DEF PackDir
<1>6. CASE x \notin Ignored /\ was.kind \notin {"reg", "link", "dir"}
  BY <1>6 DEF Due
<1> QED BY <1>2, <1>3, <1>4, <1>5, <1>6

\* What a node says is in a file stays there.
LEMMA DataStays ==
    ASSUME TypeInv, Kept, NEW n \in Node, DataOf(n) # NoContent
    PROVE  DataOf(n)' = DataOf(n)
<1>1. CASE n.kind = "reg"
  BY <1>1 DEF DataOf
<1>2. CASE n.kind # "reg"
  <2>1. n.kind = "link" /\ n.is \in StoreFiles
    BY <1>2 DEF DataOf
  <2>2. n.is[1] \in Versions /\ n.is[2] \in Paths
    BY <2>1 DEF StoreFiles
  <2>3. store[n.is[1]][n.is[2]].kind = "reg"
    BY <1>2, <2>1 DEF DataOf
  <2>4. /\ store'[n.is[1]][n.is[2]].kind = "reg"
        /\ store'[n.is[1]][n.is[2]].is = store[n.is[1]][n.is[2]].is
    BY <2>2, <2>3 DEF Kept
  <2> QED BY <2>1, <2>3, <2>4 DEF DataOf
<1> QED BY <1>1, <1>2

LEMMA PackedStays ==
    ASSUME TypeInv, Kept, NEW j \in Jobs, j.ver \in Versions, NEW k, SameRun(j, k), NEW x \in Paths,
           PackedAt(j, x), sys'[x] = sys[x], 
           store'[j.ver][x] = store[j.ver][x] \/ (store[j.ver][x].kind = "none" /\ store'[j.ver][x].kind = "dir")
    PROVE  PackedAt(k, x)'
<1> DEFINE s == store[j.ver][x]
           was == j.seen[x]
<1>1. s \in Node /\ was \in Node /\ NoContent \notin Data
  BY NamesAssumption DEF TypeInv, TypeOK, Jobs, Trees
<1>2. CASE was.kind = "reg"
  <2>1. DataOf(s) = was.is /\ sys[x] = Link("yes", <<j.ver, x>>) /\ was.is \in Data
    BY <1>1, <1>2, NodeKinds DEF PackedAt
  <2>2. s.kind # "none"
    BY <1>1, <2>1 DEF DataOf
  <2>3. store'[j.ver][x] = s
    BY <2>2
  <2>4. DataOf(s)' = was.is
    <3>1. PICK m \in Node : m = s
      BY <1>1
    <3>2. DataOf(m)' = was.is
      BY <1>1, <2>1, <3>1, DataStays
    <3>3. store'[j.ver][x] = m
      BY <2>3, <3>1
    <3> QED BY <3>2, <3>3 DEF DataOf
  <2> QED BY <1>2, <2>1, <2>3, <2>4 DEF PackedAt, SameRun
<1>3. CASE was.kind = "link"
  BY <1>3 DEF PackedAt, SameRun
<1>4. CASE was.kind \notin {"reg", "link"}
  BY <1>4 DEF PackedAt, SameRun
<1> QED BY <1>2, <1>3, <1>4

\* What a call leaves is what the next one of the item needs.
LEMMA CallDoing ==
    ASSUME TypeInv, SafeInv, Kept, NEW j \in Jobs, j.ver \in Versions, JobOK(j), j.at \in Paths,
           j.pc \in Calls, Doing(j), j.at \notin Ignored, NEW k, SameRun(j, k), Calling(j, k)
    PROVE  /\ k.pc \in Calls => Doing(k)'
           /\ k.pc = "item" => PackedAt(k, k.at)'
<1> DEFINE x == j.at
           was == j.seen[x]
           n == sys[x]
           s == store[j.ver][x]
<1>1. /\ s \in Node /\ was \in Node /\ n \in Node /\ NoContent \notin Data /\ k.at = x
      /\ k.ver = j.ver /\ k.seen = j.seen /\ k.as = j.as
      /\ was.kind = "reg" => was.is \in Data
      /\ n.kind = "reg" => DataOf(n) = n.is
  <2>1. s \in Node /\ was \in Node /\ n \in Node
    BY DEF TypeInv, TypeOK, Jobs, Trees
  <2> QED BY <2>1, NamesAssumption, NodeKinds DEF Calling, DataOf, SameRun
<1>2. CASE j.pc = "parents"
  <2>1. /\ k.pc = IF was.kind = "reg" THEN "rename" ELSE "linkSource"
        /\ sys'[x] = n /\ store'[j.ver][x] = s
    BY <1>2 DEF Calling
  <2> QED BY <1>1, <1>2, <2>1 DEF Doing, SameRun
<1>3. CASE j.pc = "makeDir"
  <2>1. s.kind = "none" /\ k.pc = "ownSource" /\ sys'[x] = n /\ store'[j.ver][x] = Dir(j.as)
    BY <1>3 DEF Calling, Doing
  <2> QED BY <1>1, <1>3, <2>1 DEF Doing, SameRun
<1>4. CASE j.pc = "unlinkSource"
  <2>1. k.pc = "linkSource" /\ sys'[x] = n /\ store'[j.ver][x] = Absent
    BY <1>4 DEF Calling
  <2> QED BY <1>1, <1>4, <2>1 DEF Doing, SameRun, Absent
<1>5. CASE j.pc = "linkSource"
  <2>1. k.pc = "ownSource" /\ sys'[x] = n /\ store'[j.ver][x] = Link(j.as, was.is)
    BY <1>5 DEF Calling
  <2> QED BY <1>1, <1>5, <2>1 DEF Doing, SameRun, JobOK
<1>6. CASE j.pc = "ownSource"
  <2>1. k.pc = "item" /\ sys'[x] = n /\ store'[j.ver][x] = [s EXCEPT !.mine = "yes"]
    BY <1>6 DEF Calling
  <2>2. CASE was.kind = "link" /\ n = was /\ s = Link(j.as, was.is)
    <3>1. store'[j.ver][x].kind = "link" /\ store'[j.ver][x].is = was.is
      BY <2>1, <2>2 DEF Link
    <3> QED BY <1>1, <2>1, <2>2, <3>1 DEF PackedAt, SameRun, Calls
  <2>3. CASE was.kind = "dir" /\ s = Dir(j.as)
    <3>1. store'[j.ver][x].kind = "dir"
      BY <2>1, <2>3 DEF Dir
    <3> QED BY <1>1, <2>1, <2>3, <3>1 DEF PackedAt, SameRun, Calls
  <2> QED BY <1>6, <2>2, <2>3 DEF Doing
<1>7. CASE j.pc = "rename" /\ k.pc = "linkInstalled"
  <2>1. sys'[x] = Absent /\ store'[j.ver][x] = n
    BY <1>7 DEF Calling
  <2>2. was.kind = "reg" /\ n = was
    BY <1>7 DEF Doing
  <2>3. PICK m : m = n
    OBVIOUS
  <2>4. DataOf(m)' = was.is
    BY <2>2, <2>3 DEF DataOf
  <2>5. store'[k.ver][k.at] = m
    BY <1>1, <2>1, <2>3
  <2> QED BY <1>1, <1>7, <2>1, <2>2, <2>4, <2>5 DEF Doing, Absent
<1>8. CASE j.pc \in {"rename", "open", "write"} /\ k.pc # "linkInstalled"
  <2>1. /\ k.pc \in {"open", "write", "place"} /\ sys'[x] = n /\ store'[j.ver][x] = s
        /\ j.pc = "rename" => k.buf = DataOf(n)
        /\ j.pc # "rename" => k.buf = j.buf
    BY <1>8 DEF Calling
  <2> QED BY <1>1, <1>8, <2>1 DEF Doing, SameRun
<1>9. CASE j.pc = "place"
  <2>1. k.pc = "unlinkInstalled" /\ sys'[x] = n /\ store'[j.ver][x] = Regular(j.as, j.buf)
    BY <1>9 DEF Calling
  <2>2. was.kind = "reg" /\ n = was /\ j.buf = was.is
    BY <1>1, <1>9 DEF Doing, JobOK
  <2>3. PICK m : m = Regular(j.as, j.buf)
    OBVIOUS
  <2>4. PICK o : o = n
    OBVIOUS
  <2>5. DataOf(m)' = was.is /\ DataOf(o)' = was.is
    BY <2>2, <2>3, <2>4 DEF DataOf, Regular
  <2>6. store'[k.ver][k.at] = m /\ sys'[k.at] = o
    BY <1>1, <2>1, <2>3, <2>4
  <2> QED BY <1>1, <1>9, <2>1, <2>2, <2>5, <2>6 DEF Doing
<1>10. CASE j.pc \in {"unlinkInstalled", "linkInstalled", "ownInstalled"}
  <2>1. store'[j.ver][x] = s
    BY <1>10 DEF Calling
  <2>2. PICK m \in Node : m = s /\ store'[k.ver][k.at] = m
    BY <1>1, <2>1
  <2>3. DataOf(m)' = was.is /\ was.kind = "reg"
    <3>1. DataOf(s) = was.is /\ was.kind = "reg"
      BY <1>10 DEF Doing
    <3> QED BY <1>1, <2>2, <3>1, DataStays
  <2>4. CASE j.pc = "unlinkInstalled"
    <3>1. k.pc = "linkInstalled" /\ sys'[x] = Absent
      BY <2>4 DEF Calling
    <3> QED BY <1>1, <2>2, <2>3, <3>1 DEF Doing, Absent
  <2>5. CASE j.pc = "linkInstalled"
    <3>1. k.pc = "ownInstalled" /\ sys'[x] = Link(j.as, Content(j)) /\ Content(k) = Content(j)
      BY <1>1, <2>5 DEF Calling, Content, SameRun
    <3> QED BY <1>1, <2>2, <2>3, <3>1 DEF Doing
  <2>6. CASE j.pc = "ownInstalled"
    <3>1. k.pc = "item" /\ sys'[x] = [n EXCEPT !.mine = "yes"] /\ n = Link(j.as, Content(j))
      BY <2>6 DEF Calling, Doing
    <3>2. sys'[x] = Link("yes", <<j.ver, x>>)
      BY <3>1 DEF Link, Content
    <3> QED BY <1>1, <2>2, <2>3, <3>1, <3>2 DEF PackedAt, Calls
  <2> QED BY <1>10, <2>4, <2>5, <2>6
<1>11. \/ j.pc = "parents" \/ j.pc = "makeDir" \/ j.pc = "unlinkSource" \/ j.pc = "linkSource"
       \/ j.pc = "ownSource" \/ j.pc = "place"
       \/ j.pc = "rename" /\ k.pc = "linkInstalled"
       \/ j.pc \in {"rename", "open", "write"} /\ k.pc # "linkInstalled"
       \/ j.pc \in {"unlinkInstalled", "linkInstalled", "ownInstalled"}
  BY DEF Calls, Pcs, Calling
<1> QED BY <1>2, <1>3, <1>4, <1>5, <1>6, <1>7, <1>8, <1>9, <1>10, <1>11

\* An item that is started is as it was when the list was made.
LEMMA StartDoing ==
    ASSUME TypeInv, NEW j \in Jobs, j.ver \in Versions, RunInv(j), NEW k, SameRun(j, k), Starts(j, k)
    PROVE  /\ k.pc \in Calls => Doing(k)' /\ k.at \notin Ignored
           /\ k.pc = "item" /\ k.at \notin Ignored => PackedAt(k, k.at)'
<1> DEFINE x == k.at
           was == j.seen[x]
           n == sys[x]
           s == store[j.ver][x]
           due == Due(j.ver, j.flags, x, was)
<1>1. x \in j.todo /\ x \in Paths /\ n = was
  BY DEF Starts, Ready, RunInv, Jobs, Calls
<1>2. /\ s \in Node /\ was \in Node /\ sys \in Trees /\ store \in [Versions -> Trees]
      /\ was.kind = "reg" => DataOf(was) = was.is
  BY <1>1 DEF TypeInv, TypeOK, Jobs, Trees, DataOf
<1>3. sys' = sys /\ store' = store
  BY DEF Starts
<1>6. /\ due \in {"unlinkInstalled", "unlinkSource", "parents", "makeDir"} => x \notin Ignored
      /\ due = "unlinkInstalled" => was.kind = "reg"
      /\ due = "unlinkSource" => s.is # was.is
      /\ due = "makeDir" => was.kind = "dir" /\ s.kind # "dir"
      /\ due = "fine" /\ x \notin Ignored =>
           \/ was.kind = "link" /\ s.kind = "link" /\ s.is = was.is
           \/ was.kind = "link" /\ s.kind = "reg" /\ was.is = <<j.ver, x>>
           \/ was.kind = "dir" /\ s.kind = "dir"
  <2>0. PICK f : f = j.flags
    OBVIOUS
  <2>1. PICK v \in Versions, y \in Paths, w \in Node : v = j.ver /\ y = x /\ w = was
    BY <1>1, <1>2
  <2>2. LET d == Due(v, f, y, w)
            p == store[v][y] IN
        /\ d \in {"unlinkInstalled", "unlinkSource", "parents", "makeDir"} => y \notin Ignored
        /\ d = "unlinkInstalled" => w.kind = "reg"
        /\ d = "unlinkSource" => p.is # w.is
        /\ d = "makeDir" => w.kind = "dir" /\ p.kind # "dir"
        /\ d = "fine" /\ y \notin Ignored =>
             \/ w.kind = "link" /\ p.kind = "link" /\ p.is = w.is
             \/ w.kind = "link" /\ p.kind = "reg" /\ w.is = <<v, y>>
             \/ w.kind = "dir" /\ p.kind = "dir"
    <3>1. sys \in Trees /\ store \in [Versions -> Trees]
      BY <1>2
    <3> QED BY <3>1, DueSays, Zenon
  <2> QED BY <2>0, <2>1, <2>2
<1>4. CASE k.pc = "item"
  <2>1. due = "fine"
    BY <1>4 DEF Starts
  <2>2. x \notin Ignored =>
          \/ /\ was.kind = "link"
             /\ (s.kind = "link" /\ s.is = was.is) \/ (s.kind = "reg" /\ was.is = <<j.ver, x>>)
          \/ was.kind = "dir" /\ s.kind = "dir"
    BY <1>6, <2>1
  <2> QED BY <1>1, <1>3, <1>4, <2>2 DEF PackedAt, SameRun, Calls
<1>5. CASE k.pc # "item"
  <2>1. due \in {"unlinkInstalled", "unlinkSource", "parents", "makeDir"} /\ k.pc = due
    BY <1>5 DEF Starts
  <2>2. /\ x \notin Ignored
        /\ due = "parents" => s.kind = "none"
        /\ due = "unlinkSource" => s.kind = "link" /\ s.is # was.is
        /\ due = "makeDir" => was.kind = "dir" /\ s.kind # "dir"
        /\ due = "unlinkInstalled" => was.kind = "reg" /\ DataOf(s) = DataOf(n)
    BY <1>1, <1>2, <1>6, <2>1, DueFacts
  <2>3. PICK m, o : m = s /\ o = n
    OBVIOUS
  <2>6. DataOf(m)' = DataOf(s) /\ DataOf(o)' = DataOf(n)
    BY <1>3, <2>3 DEF DataOf
  <2>4. Doing(k)'
    <3> HIDE DEF due
    <3>1. k.ver = j.ver /\ k.seen = j.seen /\ k.pc = due
      BY <2>1 DEF SameRun
    <3>2. store'[k.ver][x] = m /\ sys'[x] = o
      BY <1>3, <2>3, <3>1
    <3> QED BY <1>1, <1>2, <2>1, <2>2, <2>3, <2>6, <3>1, <3>2 DEF Doing
  <2> QED BY <1>5, <2>2, <2>4
<1> QED BY <1>4, <1>5

LEMMA MoveRun ==
    ASSUME TypeInv, SafeInv, Kept, NEW j \in Jobs, j.ver \in Versions, JobOK(j), RunInv(j),
           NEW k, Moves(j, k)
    PROVE  RunInv(k)'
<1> DEFINE x == k.at
<1>1. SameRun(j, k) /\ OnlyAt(x, j.ver, j.as)
  BY DEF Moves
<1>2. /\ k.todo = j.todo \/ (k.pc = "item" /\ k.todo = j.todo \ {x})
      /\ ~k.bad => ~j.bad
      /\ UNCHANGED <<sys, store>> \/ (x \in j.todo /\ (k.pc \in Calls \/ x \notin k.todo))
      /\ k.pc \in Calls => k.todo = j.todo /\ x \in j.todo /\ Above[x] \cap j.todo = {}
      /\ j.pc \in Calls => x = j.at /\ (k.pc \in Calls \/ x \notin k.todo)
      /\ k.pc \in {"clearCurrent", "setCurrent"} => j.todo = {} /\ k.todo = j.todo
  <2>1. CASE Starts(j, k)
    BY <2>1 DEF Starts, Ready, Calls
  <2>2. CASE GivesUp(j, k)
    BY <2>2 DEF GivesUp, Ready, Calls, RunInv
  <2>3. CASE Turns(j, k)
    BY <2>3 DEF Turns, Calls, RunInv
  <2>4. CASE Calling(j, k)
    <3>1. j.pc \in Calls /\ k.pc \in Calls \cup {"item"}
      BY <2>4 DEF Calling, Calls, Pcs
    <3> QED BY <2>4, <3>1 DEF Calling, Calls, RunInv
  <2> QED BY <2>1, <2>2, <2>3, <2>4 DEF Moves
<1>3. j.todo \subseteq Paths /\ j.list \subseteq Paths
  BY DEF Jobs
<1>4. k.pc \in Calls => Doing(k)' /\ x \notin Ignored
  <2>1. CASE Starts(j, k)
    BY <1>1, <2>1, StartDoing
  <2>2. CASE Calling(j, k)
    <3>1. j.pc \in Calls
      BY <2>2 DEF Calling, Calls, Pcs
    <3>2. j.at \in Paths /\ Doing(j) /\ j.at \notin Ignored /\ k.at = j.at
      BY <2>2, <3>1 DEF RunInv, Jobs, Calling
    <3> QED BY <1>1, <2>2, <3>1, <3>2, CallDoing
  <2> QED BY <2>1, <2>2 DEF Moves, GivesUp, Turns, Calls
<1>5. ASSUME NEW y \in k.todo, k.pc \notin Calls \/ y # x PROVE sys'[y] = j.seen[y]
  <2>1. y \in j.todo /\ y \in Paths
    BY <1>2, <1>3, <1>5
  <2>2. y # x \/ UNCHANGED <<sys, store>>
    BY <1>2, <1>5, <2>1
  <2>3. sys'[y] = sys[y]
    BY <1>1, <2>1, <2>2 DEF OnlyAt
  <2>4. j.pc \notin Calls \/ y # j.at
    BY <1>2, <1>5
  <2> QED BY <2>1, <2>3, <2>4 DEF RunInv
<1>6. ASSUME ~k.bad, NEW y \in (j.list \ k.todo) \ Ignored PROVE PackedAt(k, y)'
  <2>1. CASE y \notin j.todo
    <3>1. PackedAt(j, y) /\ y \in Paths
      BY <1>2, <1>3, <1>6, <2>1 DEF RunInv
    <3>2. UNCHANGED <<sys, store>> \/ y # x
      BY <1>2, <2>1
    <3>3. sys'[y] = sys[y]
      BY <1>1, <3>1, <3>2 DEF OnlyAt
    <3>4. \/ store'[j.ver][y] = store[j.ver][y]
          \/ store[j.ver][y].kind = "none" /\ store'[j.ver][y].kind = "dir"
      BY <1>1, <3>1, <3>2 DEF OnlyAt, Dir
    <3> QED BY <1>1, <3>1, <3>3, <3>4, PackedStays
  <2>2. CASE y \in j.todo
    <3>1. y = x /\ k.pc = "item" /\ k.todo # j.todo /\ y \notin Ignored
      BY <1>2, <1>6, <2>2
    <3>2. CASE Starts(j, k)
      BY <1>1, <3>1, <3>2, StartDoing
    <3>3. CASE Calling(j, k)
      <4>1. j.pc \in Calls
        BY <3>3 DEF Calling, Calls, Pcs
      <4>2. j.at \in Paths /\ Doing(j) /\ j.at \notin Ignored /\ k.at = j.at
        BY <3>3, <4>1 DEF RunInv, Jobs, Calling
      <4> QED BY <1>1, <3>1, <3>3, <4>1, <4>2, CallDoing
    <3> QED BY <1>6, <3>1, <3>2, <3>3 DEF Moves, GivesUp, Turns
  <2> QED BY <2>1, <2>2
<1>7. k.list = j.list /\ k.seen = j.seen
  BY <1>1 DEF SameRun
<1>8. k.todo \subseteq k.list
  BY <1>2, <1>7 DEF RunInv
<1> QED BY <1>2, <1>4, <1>5, <1>6, <1>7, <1>8 DEF RunInv

LEMMA QuietRun ==
    ASSUME NEW k, RunInv(k), UNCHANGED <<sys, store>> PROVE RunInv(k)'
<1>1. ASSUME NEW m PROVE DataOf(m)' = DataOf(m)
  BY DEF DataOf
<1>2. ASSUME Doing(k) PROVE Doing(k)'
  <2>1. PICK s, n : s = store[k.ver][k.at] /\ n = sys[k.at]
    OBVIOUS
  <2>2. DataOf(s)' = DataOf(s) /\ DataOf(n)' = DataOf(n)
    BY <1>1
  <2>3. s = store'[k.ver][k.at] /\ n = sys'[k.at]
    BY <2>1
  <2> QED BY <1>2, <2>1, <2>2, <2>3 DEF Doing, Content
<1>3. ASSUME NEW x, PackedAt(k, x) PROVE PackedAt(k, x)'
  <2>1. PICK s : s = store[k.ver][x]
    OBVIOUS
  <2>2. DataOf(s)' = DataOf(s) /\ s = store'[k.ver][x]
    BY <1>1, <2>1
  <2> QED BY <1>3, <2>1, <2>2 DEF PackedAt
<1> QED BY <1>2, <1>3 DEF RunInv

\* Only the run of process i is there after a step of it.
LEMMA OnlyRun ==
    ASSUME TypeInv', SafeInv', NEW i \in Procs, NEW k, k = proc'[i], k.pc # "idle" => RunInv(k)',
           \A m \in Procs \ {i} : proc'[m].pc = "idle"
    PROVE  RunsInv'
BY DEF RunsInv, Active, RunInv, Doing, PackedAt, Content

\* A step of a run, which is the only one.
LEMMA WorkOf == ASSUME NEW i, Work(i) \/ Crash(i) PROVE Active(i) /\ \E k : Step(i, k)
<1>1. Active(i)
  BY DEF Active, Work, Crash, DryRun, Item, Parents, MakeDir, UnlinkSource, LinkSource, OwnSource,
         Rename, Open, Write, Place, UnlinkInstalled, LinkInstalled, OwnInstalled, End,
         ClearCurrent, SetCurrent
<1>2. \E k : Step(i, k)
  BY DEF Work, Crash, Stop, DryRun, Item, Parents, MakeDir, UnlinkSource, LinkSource,
         OwnSource, Rename, Open, Write, Place, UnlinkInstalled, LinkInstalled,
         OwnInstalled, End, ClearCurrent, SetCurrent, InStore, Fail, Discard, Raise
<1> QED BY <1>1, <1>2

LEMMA WorkAlone ==
    ASSUME RunsInv, NEW i \in Procs, Work(i) \/ Crash(i)
    PROVE  \A m \in Procs \ {i} : proc'[m].pc = "idle"
<1>1. \A m \in Procs \ {i} : ~Active(m)
  BY WorkOf DEF RunsInv, SafeInv
<1> QED BY <1>1, WorkOf DEF Step, Active, RunsInv, TypeInv, TypeOK

LEMMA RunsStep == ASSUME OneAtATime, RunsInv, [Next]_vars PROVE RunsInv'
<1>1. TypeInv' /\ SafeInv' /\ (proc' # proc => Kept)
  BY SafeNext, TypeNext DEF RunsInv
<1>2. ASSUME UNCHANGED <<sys, store, proc>> PROVE RunsInv'
  <2>1. ASSUME NEW m \in Procs, Active(m)' PROVE RunInv(proc[m])'
    <3>1. PICK k : k = proc[m] /\ k = proc'[m]
      BY <1>2
    <3>2. RunInv(k)'
      BY <1>2, <2>1, <3>1, QuietRun DEF RunsInv, Active
    <3> QED BY <3>1, <3>2 DEF RunInv, Doing, PackedAt, Content
  <2> QED BY <1>1, <2>1 DEF RunsInv
<1>3. ASSUME NEW b \in Builds, Build(b) PROVE RunsInv'
  BY <1>1, <1>3 DEF Build, AllIdle, Active, RunsInv
<1>4. ASSUME NEW i \in Procs, NEW v \in Versions, NEW as \in {"yes", "no"},
             NEW f \in FlagSets[as], Pack(i, v, as, f), proc' # proc
      PROVE  RunsInv'
  <2>1. PICK list :
          /\ Step(i, [IdleJob EXCEPT !.pc = "dry", !.ver = v, !.as = as, !.flags = f,
                    !.list = list, !.todo = list, !.bad = "cache" \in f /\ cache # {},
                    !.seen = [x \in Paths |-> IF x \in list THEN sys[x] ELSE Absent]])
          /\ list \subseteq Paths
    BY <1>4, FoundType DEF Pack, RunsInv, TypeInv, TypeOK
  <2>2. PICK k : k = proc'[i]
    OBVIOUS
  <2>3. /\ k.pc = "dry" /\ k.todo = list /\ k.list = list
        /\ k.seen = [x \in Paths |-> IF x \in list THEN sys[x] ELSE Absent]
        /\ \A m \in Procs \ {i} : proc'[m] = proc[m]
    BY <2>1, <2>2, IdleJobType DEF Step, RunsInv, TypeInv, TypeOK, Jobs
  <2>4. sys' = sys /\ \A m \in Procs \ {i} : proc'[m].pc = "idle"
    BY <1>4, <2>3 DEF Pack, AllIdle, Active
  <2>5. RunInv(k)'
    BY <2>1, <2>3, <2>4 DEF RunInv, Calls
  <2> QED BY <1>1, <2>2, <2>4, <2>5, OnlyRun
<1>5. ASSUME NEW i \in Procs, Work(i) \/ Crash(i) PROVE RunsInv'
  <2>1. Active(i)
    BY <1>5, WorkOf
  <2>2. \A m \in Procs \ {i} : proc'[m].pc = "idle"
    BY <1>5, WorkAlone
  <2>3. PICK j, k : j = proc[i] /\ k = proc'[i]
    OBVIOUS
  <2>4. j \in Jobs /\ j.ver \in Versions /\ JobOK(j) /\ RunInv(j)
    BY <2>1, <2>3, ActiveJob DEF RunsInv, Active, TypeInv
  <2>5. CASE k.pc # "idle"
    <3>1. Moves(j, k)
      BY <1>5, <2>3, <2>5, WorkMoves DEF RunsInv
    <3>2. CASE proc' # proc
      BY <1>1, <2>2, <2>3, <2>4, <3>1, <3>2, MoveRun, OnlyRun DEF RunsInv
    <3>3. CASE proc' = proc
      <4>1. k = j
        BY <2>3, <3>3
      <4>2. FALSE
        BY <2>4, <3>1, <4>1
           DEF Moves, Starts, GivesUp, Turns, Calling, Jobs, Calls, Ready, RunInv
      <4> QED BY <4>2
    <3> QED BY <3>2, <3>3
  <2>6. CASE k.pc = "idle"
    BY <1>1, <2>2, <2>3, <2>6, OnlyRun
  <2> QED BY <2>5, <2>6
<1> QED BY <1>2, <1>3, <1>4, <1>5, QuietSteps DEF Next, Quiet

LEMMA RunsInit == Init => RunsInv
<1>1. Init => TypeInv /\ SafeInv /\ \A i \in Procs : ~Active(i)
  BY TypeInit, SafeInit, IdleJobType DEF Init, Active
<1> QED BY <1>1 DEF RunsInv

\* With one --pack at a time, whatever is built, fails, is ignored or is killed: a run
\* that skipped no error has all of its list in the version, and its links are in the
\* place of the files, when it is about to set Current.
THEOREM ListPacked == ASSUME OneAtATime PROVE Spec => []PackedWhole
<1>1. RunsInv => PackedWhole
  BY DEF RunsInv, RunInv, PackedAt, PackedWhole, Active
<1> QED BY <1>1, RunsInit, RunsStep, PTL DEF Spec

-----------------------------------------------------------------------------
(* What a step does to the trees                                             *)

\* A run changes the system where a file is only, and never a directory.
LEMMA MoveSys ==
    ASSUME TypeInv, NEW j \in Jobs, j.ver \in Versions, RunInv(j), NEW k, Moves(j, k)
    PROVE  \/ \A y \in Paths : sys'[y] = sys[y]
           \/ /\ j.pc \in Calls /\ k.at = j.at /\ j.seen[j.at].kind = "reg"
              /\ sys[j.at].kind # "dir" /\ sys'[j.at].kind # "dir"
              /\ sys'[j.at].kind # "none" =>
                    sys'[j.at].kind = "link" /\ sys'[j.at].is = <<j.ver, j.at>>
              /\ \A y \in Paths \ {j.at} : sys'[y] = sys[y]
<1>1. \A y \in Paths \ {k.at} : sys'[y] = sys[y]
  BY DEF Moves, OnlyAt
<1>2. CASE Starts(j, k) \/ GivesUp(j, k) \/ Turns(j, k)
  BY <1>2 DEF Starts, GivesUp, Turns
<1>3. CASE Calling(j, k)
  <2>1. j.pc \in Calls /\ k.at = j.at
    BY <1>3 DEF Calling, Calls, Pcs
  <2>2. Doing(j)
    BY <2>1 DEF RunInv
  <2>3. CASE j.pc \in {"rename", "unlinkInstalled"} /\ k.pc = "linkInstalled"
    BY <1>1, <1>3, <2>1, <2>2, <2>3 DEF Calling, Doing, Absent
  <2>4. CASE j.pc = "linkInstalled"
    BY <1>1, <1>3, <2>1, <2>2, <2>4 DEF Calling, Doing, Link, Content
  <2>5. CASE j.pc = "ownInstalled"
    <3>1. /\ sys[j.at] = Link(j.as, Content(j)) /\ sys'[j.at] = [sys[j.at] EXCEPT !.mine = "yes"]
          /\ j.seen[j.at].kind = "reg"
      BY <1>3, <2>2, <2>5 DEF Calling, Doing
    <3>2. sys'[j.at] = Link("yes", <<j.ver, j.at>>)
      BY <3>1 DEF Link, Content
    <3> QED BY <1>1, <2>1, <3>1, <3>2 DEF Link
  <2>6. CASE /\ j.pc \notin {"linkInstalled", "ownInstalled"}
             /\ j.pc \notin {"rename", "unlinkInstalled"} \/ k.pc # "linkInstalled"
    <3>1. sys'[k.at] = sys[k.at]
      BY <1>3, <2>1, <2>6 DEF Calling
    <3> QED BY <1>1, <3>1
  <2> QED BY <2>3, <2>4, <2>5, <2>6
<1> QED BY <1>2, <1>3 DEF Moves

\* A file or link of the version is one the list has.
LEMMA MoveStore ==
    ASSUME TypeInv, NEW j \in Jobs, j.ver \in Versions, JobOK(j), RunInv(j), NEW k, Moves(j, k),
           NEW v \in Versions, NEW y \in Paths, store'[v][y].kind \in {"reg", "link"}
    PROVE  \/ store[v][y].kind = store'[v][y].kind
           \/ v = j.ver /\ y = j.at /\ j.at \in j.todo /\ j.seen[y].kind = store'[v][y].kind
<1>1. CASE v # j.ver \/ y # k.at
  BY <1>1 DEF Moves, OnlyAt, Dir
<1>2. CASE v = j.ver /\ y = k.at
  <2>1. CASE Starts(j, k) \/ GivesUp(j, k) \/ Turns(j, k)
    BY <2>1 DEF Starts, GivesUp, Turns
  <2>2. CASE Calling(j, k)
    <3>1. j.pc \in Calls /\ k.at = j.at
      BY <2>2 DEF Calling, Calls, Pcs
    <3>2. Doing(j) /\ j.at \in j.todo
      BY <3>1 DEF RunInv
    <3>3. store[v][y] \in Node
      BY DEF TypeInv, TypeOK, Trees
    <3>4. CASE j.pc = "makeDir" \/ j.pc = "unlinkSource"
      BY <1>2, <2>2, <3>1, <3>4 DEF Calling, Dir, Absent
    <3>5. CASE j.pc = "linkSource" \/ j.pc = "place" \/ (j.pc = "rename" /\ k.pc = "linkInstalled")
      BY <1>2, <2>2, <3>1, <3>2, <3>5 DEF Calling, Link, Regular, JobOK, Doing
    <3>6. CASE j.pc = "ownSource"
      <4>1. store'[v][y] = [store[v][y] EXCEPT !.mine = "yes"] /\ store[v][y].kind # "none"
        BY <1>2, <2>2, <3>1, <3>6 DEF Calling
      <4> QED BY <3>3, <4>1, NodeKinds
    <3>7. CASE /\ j.pc \notin {"makeDir", "unlinkSource", "linkSource", "place", "ownSource"}
               /\ j.pc # "rename" \/ k.pc # "linkInstalled"
      BY <1>2, <2>2, <3>1, <3>7 DEF Calling
    <3> QED BY <3>4, <3>5, <3>6, <3>7
  <2> QED BY <2>1, <2>2 DEF Moves
<1> QED BY <1>1, <1>2

-----------------------------------------------------------------------------
(* What the dry run foretells                                                *)

Folders == UNION {Above[x] : x \in Paths}

\* Where a path has others below it no version of the package has a file or a link.
SteadyFolders ==
    \A y \in Folders :
        /\ InitialTree[y].kind \notin {"reg", "link"}
        /\ \A b \in Builds : y \in DOMAIN b => b[y].kind \notin {"reg", "link"}

NoFileAbove(t) == \A y \in Folders : t[y].kind \notin {"reg", "link"}

NoneYet(s) == s.kind = "none" \/ (s.kind = "link" /\ ~Exists(s))

\* What a run that saw no error in its dry run still finds, and what makeDir finds.
Foretold(j) ==
    /\ passed = <<j.ver, j.flags>> /\ j.pc # "dry" =>
         \A x \in j.todo :
            j.pc \notin Calls \/ x # j.at => Due(j.ver, j.flags, x, j.seen[x]) # "error"
    /\ j.pc = "makeDir" => NoneYet(store[j.ver][j.at])

ForetoldInv ==
    /\ RunsInv
    /\ NoFileAbove(sys) /\ \A v \in Versions : NoFileAbove(store[v])
    /\ \A i \in Procs : Active(i) => NoFileAbove(proc[i].seen) /\ Foretold(proc[i])

\* What an item asks for depends on its own path in the trees only.
LEMMA DueStays ==
    ASSUME store \in [Versions -> Trees], sys \in Trees, NEW v \in Versions, NEW f,
           NEW x \in Paths, NEW was \in Node, Straight(sys), Straight(store[v]),
           sys'[x] = sys[x], \A w \in Versions : store'[w][x] = store[w][x]
    PROVE  Due(v, f, x, was)' = Due(v, f, x, was)
<1>1. PICK n \in Node, s \in Node : n = sys[x] /\ s = store[v][x]
  BY DEF Trees
<1>2. ASSUME NEW m \in Node, StraightAt(m, x) PROVE DataOf(m)' = DataOf(m)
  <2>1. CASE m.kind = "link" /\ m.is \in StoreFiles
    <3>1. PICK w \in Versions : m.is = <<w, x>>
      BY <1>2, <2>1 DEF StraightAt
    <3> QED BY <2>1, <3>1 DEF DataOf
  <2>2. CASE ~(m.kind = "link" /\ m.is \in StoreFiles)
    BY <2>2 DEF DataOf
  <2> QED BY <2>1, <2>2
<1>3. DataOf(n)' = DataOf(n) /\ DataOf(s)' = DataOf(s)
  BY <1>1, <1>2 DEF Straight
<1>4. Exists(s)' = Exists(s)
  BY <1>3 DEF Exists
<1>5. PackReg(n, s)' = PackReg(n, s) /\ PackDir(s)' = PackDir(s)
  BY <1>3, <1>4 DEF PackReg, PackDir
<1>6. PackLink(was.is, s, <<v, x>>, f)' = PackLink(was.is, s, <<v, x>>, f)
  BY DEF PackLink
<1>7. n = sys'[x] /\ s = store'[v][x]
  BY <1>1
<1> QED BY <1>1, <1>5, <1>6, <1>7 DEF Due

\* What the other items ask for stays.
LEMMA OtherItems ==
    ASSUME TypeInv, SafeInv, NEW j \in Jobs, j.ver \in Versions, NEW k, Moves(j, k),
           NEW x \in Paths, UNCHANGED <<sys, store>> \/ (x # k.at /\ x \notin Above[k.at]),
           NEW f, NEW was \in Node
    PROVE  Due(j.ver, f, x, was)' = Due(j.ver, f, x, was)
<1>1. sys'[x] = sys[x] /\ \A w \in Versions : store'[w][x] = store[w][x]
  BY DEF Moves, OnlyAt
<1>2. PICK v \in Versions : v = j.ver
  OBVIOUS
<1>3. Due(v, f, x, was)' = Due(v, f, x, was)
  <2>1. store \in [Versions -> Trees] /\ sys \in Trees /\ Straight(sys) /\ Straight(store[v])
    BY DEF SafeInv, TypeInv, TypeOK
  <2> QED BY <1>1, <2>1, DueStays, Zenon
<1> QED BY <1>2, <1>3

\* Where making a directory is due there is none, or a link to nothing.
LEMMA DueMakeDir ==
    ASSUME store \in [Versions -> Trees], NEW v \in Versions, NEW f, NEW x \in Paths,
           NEW was \in Node, Due(v, f, x, was) = "makeDir"
    PROVE  NoneYet(store[v][x])
<1> DEFINE s == store[v][x]
<1>1. s \in Node
  BY DEF Trees
<1>2. x \notin Ignored /\ was.kind = "dir"
  BY DEF Due, PackReg, PackLink
<1>3. PackDir(s) = "makeDir"
  BY <1>2 DEF Due
<1>4. s.kind # "dir" /\ ~Exists(s)
  BY <1>3 DEF PackDir
<1>5. s.kind = "reg" => Exists(s)
  BY DEF Exists
<1> QED BY <1>1, <1>4, <1>5, NodeKinds DEF NoneYet

LEMMA MoveForetold ==
    ASSUME TypeInv, SafeInv, NEW j \in Jobs, j.ver \in Versions, RunInv(j), NEW k, Moves(j, k),
           Foretold(j), j.pc # "dry" => passed' = passed,
           /\ j.pc = "dry" /\ passed' = <<j.ver, j.flags>>
              => \A x \in j.list : Due(j.ver, j.flags, x, j.seen[x]) # "error"
    PROVE  Foretold(k)'
<1>1. SameRun(j, k) /\ j.todo \subseteq j.list /\ j.list \subseteq Paths
  BY DEF Moves, RunInv, Jobs
<1>2. /\ k.todo \subseteq j.todo
      /\ k.pc \in Calls => k.at \in Paths
      /\ UNCHANGED <<sys, store>> \/ (k.at = j.at /\ j.pc \in Calls /\ Above[k.at] \cap j.todo = {}
                                        /\ (k.pc \in Calls \/ k.at \notin k.todo))
      /\ j.pc \in Calls => k.at = j.at /\ (k.pc \in Calls \/ k.at \notin k.todo)
      /\ j.pc # "dry" => k.pc # "dry"
  <2>1. CASE Starts(j, k)
    BY <1>1, <2>1 DEF Starts, Ready, Calls
  <2>2. CASE GivesUp(j, k)
    BY <1>1, <2>2 DEF GivesUp, Ready, Calls
  <2>3. CASE Turns(j, k)
    BY <1>1, <2>3 DEF Turns, Calls
  <2>4. CASE Calling(j, k)
    <3>1. j.pc \in Calls /\ k.pc \in Calls \cup {"item"}
      BY <2>4 DEF Calling, Calls, Pcs
    <3> QED BY <1>1, <2>4, <3>1 DEF Calling, RunInv, Jobs, Calls
  <2> QED BY <2>1, <2>2, <2>3, <2>4 DEF Moves
<1>3. ASSUME passed' = <<k.ver, k.flags>>, k.pc # "dry", NEW x \in k.todo, k.pc \notin Calls \/ x # k.at
      PROVE  Due(k.ver, k.flags, x, k.seen[x])' # "error"
  <2>1. PICK v \in Versions, f \in SUBSET Flags, was \in Node :
          v = j.ver /\ f = j.flags /\ was = j.seen[x]
    BY <1>1, <1>2, <1>3 DEF Jobs, Trees
  <2>2. Due(v, f, x, was) # "error"
    <3>1. CASE j.pc = "dry"
      BY <1>1, <1>2, <1>3, <2>1, <3>1 DEF SameRun
    <3>2. CASE j.pc # "dry"
      BY <1>1, <1>2, <1>3, <2>1, <3>2 DEF SameRun, Foretold
    <3> QED BY <3>1, <3>2
  <2>3. Due(j.ver, f, x, was)' = Due(j.ver, f, x, was)
    <3>1. UNCHANGED <<sys, store>> \/ (x # k.at /\ x \notin Above[k.at])
      BY <1>2, <1>3
    <3>2. x \in Paths
      BY <1>1, <1>2, <1>3
    <3> QED BY <3>1, <3>2, OtherItems, Zenon
  <2>4. v = k.ver /\ f = k.flags /\ was = k.seen[x]
    BY <1>1, <2>1 DEF SameRun
  <2> QED BY <2>1, <2>2, <2>3, <2>4
<1>4. ASSUME k.pc = "makeDir" PROVE NoneYet(store[k.ver][k.at])'
  <2>1. Starts(j, k)
    BY <1>4 DEF Moves, Calling, GivesUp, Turns
  <2>2. Due(j.ver, j.flags, k.at, j.seen[k.at]) = "makeDir" /\ store' = store
    BY <1>4, <2>1 DEF Starts
  <2>3. k.at \in Paths /\ j.seen[k.at] \in Node /\ store \in [Versions -> Trees]
    BY <1>2, <1>4 DEF TypeInv, TypeOK, Jobs, Trees, Calls, Pcs
  <2>4. PICK v \in Versions, f \in SUBSET Flags, x \in Paths, was \in Node :
          v = j.ver /\ f = j.flags /\ x = k.at /\ was = j.seen[k.at]
    BY <2>3 DEF Jobs
  <2>5. PICK s : s = store[v][x]
    OBVIOUS
  <2>6. NoneYet(s)
    <3>1. Due(v, f, x, was) = "makeDir"
      BY <2>2, <2>4
    <3> QED BY <2>3, <2>5, <3>1, DueMakeDir, Zenon
  <2>7. NoneYet(s)'
    BY <2>2, <2>6 DEF NoneYet, Exists, DataOf
  <2> QED BY <1>1, <2>2, <2>4, <2>5, <2>7 DEF SameRun, NoneYet
<1> QED BY <1>3, <1>4 DEF Foretold

\* The dry run decides what passed says, and the other steps of a run leave it.
LEMMA PassedSays ==
    ASSUME TypeInv, NEW i \in Procs, Work(i) \/ Crash(i), NEW j, j = proc[i]
    PROVE  /\ j.pc # "dry" => passed' = passed
           /\ j.pc = "dry" /\ passed' = <<j.ver, j.flags>>
              => \A x \in j.list : Due(j.ver, j.flags, x, j.seen[x]) # "error"
<1>1. CASE DryRun(i)
  BY <1>1 DEF DryRun
<1>2. CASE ~DryRun(i)
  <2>1. j.pc # "dry"
    BY <1>2
       DEF Work, Crash, Item, Parents, MakeDir, UnlinkSource, LinkSource, OwnSource, Rename, Open,
           Write, Place, UnlinkInstalled, LinkInstalled, OwnInstalled, End, ClearCurrent, SetCurrent
  <2>2. passed' = passed
    BY <1>2
       DEF Work, Crash, Item, Parents, MakeDir, UnlinkSource, LinkSource, OwnSource, Rename, Open,
           Write, Place, UnlinkInstalled, LinkInstalled, OwnInstalled, End, ClearCurrent, SetCurrent,
           InStore, Fail, Discard, Raise, history
  <2> QED BY <2>1, <2>2
<1> QED BY <1>1, <1>2

LEMMA MoveFolders ==
    ASSUME TypeInv, NEW j \in Jobs, j.ver \in Versions, JobOK(j), RunInv(j), NEW k, Moves(j, k),
           NoFileAbove(sys), \A v \in Versions : NoFileAbove(store[v]), NoFileAbove(j.seen)
    PROVE  NoFileAbove(sys') /\ (\A v \in Versions : NoFileAbove(store'[v])) /\ NoFileAbove(k.seen)
<1>1. Folders \subseteq Paths
  BY TreeAssumption DEF Folders
<1>2. NoFileAbove(sys')
  BY <1>1, MoveSys DEF NoFileAbove
<1>3. ASSUME NEW v \in Versions, NEW y \in Folders PROVE store'[v][y].kind \notin {"reg", "link"}
  BY <1>1, <1>3, MoveStore DEF NoFileAbove
<1>4. k.seen = j.seen
  BY DEF Moves, SameRun
<1> QED BY <1>2, <1>3, <1>4 DEF NoFileAbove

LEMMA QuietDue ==
    ASSUME UNCHANGED <<sys, store>>, NEW v, NEW f, NEW x, NEW was
    PROVE  Due(v, f, x, was)' = Due(v, f, x, was)
<1>1. ASSUME NEW m PROVE DataOf(m)' = DataOf(m) /\ Exists(m)' = Exists(m)
  BY DEF DataOf, Exists
<1>2. PICK n, s : n = sys[x] /\ s = store[v][x]
  OBVIOUS
<1>3. DataOf(n)' = DataOf(n) /\ DataOf(s)' = DataOf(s) /\ Exists(s)' = Exists(s)
  BY <1>1
<1>4. PackReg(n, s)' = PackReg(n, s) /\ PackDir(s)' = PackDir(s)
  BY <1>3 DEF PackReg, PackDir
<1>5. PackLink(was.is, s, <<v, x>>, f)' = PackLink(was.is, s, <<v, x>>, f)
  BY DEF PackLink
<1>6. n = sys'[x] /\ s = store'[v][x]
  BY <1>2
<1> QED BY <1>2, <1>4, <1>5, <1>6 DEF Due

LEMMA QuietForetold ==
    ASSUME NEW k, Foretold(k), UNCHANGED <<sys, store>>, passed' = passed \/ passed' = <<>> \/ k.pc = "dry"
    PROVE  Foretold(k)'
<1>1. ASSUME NEW m PROVE DataOf(m)' = DataOf(m) /\ Exists(m)' = Exists(m)
  BY DEF DataOf, Exists
<1>2. ASSUME NEW v, NEW f, NEW x, NEW was PROVE Due(v, f, x, was)' = Due(v, f, x, was)
  BY QuietDue
<1>3. ASSUME k.pc = "makeDir" PROVE NoneYet(store[k.ver][k.at])'
  <2>1. PICK s : s = store[k.ver][k.at] /\ s = store'[k.ver][k.at]
    OBVIOUS
  <2>2. NoneYet(s)'
    BY <1>1, <1>3, <2>1 DEF Foretold, NoneYet
  <2> QED BY <2>1, <2>2 DEF NoneYet
<1>4. passed' = <<k.ver, k.flags>> /\ k.pc # "dry" => passed = <<k.ver, k.flags>>
  OBVIOUS
<1>5. ASSUME passed' = <<k.ver, k.flags>>, k.pc # "dry", NEW x \in k.todo, k.pc \notin Calls \/ x # k.at
      PROVE  Due(k.ver, k.flags, x, k.seen[x])' # "error"
  BY <1>2, <1>4, <1>5 DEF Foretold
<1> QED BY <1>3, <1>5 DEF Foretold

LEMMA OnlyForetold ==
    ASSUME RunsInv', NoFileAbove(sys'), \A v \in Versions : NoFileAbove(store'[v]),
           NEW i \in Procs, NEW k, k = proc'[i],
           k.pc # "idle" => Foretold(k)' /\ NoFileAbove(k.seen),
           \A m \in Procs \ {i} : proc'[m].pc = "idle"
    PROVE  ForetoldInv'
BY DEF ForetoldInv, Active, Foretold, NoneYet, Exists, DataOf, NoFileAbove

LEMMA ForetoldStep == ASSUME OneAtATime, SteadyFolders, ForetoldInv, [Next]_vars PROVE ForetoldInv'
<1>1. RunsInv' /\ Folders \subseteq Paths
  BY RunsStep, TreeAssumption DEF ForetoldInv, Folders
<1>2. CASE Quiet
  <2>1. ASSUME NEW m \in Procs, Active(m)' PROVE Foretold(proc[m])' /\ NoFileAbove(proc'[m].seen)
    <3>1. PICK k : k = proc[m] /\ k = proc'[m]
      BY <1>2 DEF Quiet
    <3>2. Foretold(k)' /\ NoFileAbove(k.seen)
      BY <1>2, <2>1, <3>1, QuietForetold DEF ForetoldInv, Active, Quiet
    <3> QED BY <3>1, <3>2 DEF Foretold, NoneYet, Exists, DataOf
  <2> QED BY <1>1, <1>2, <2>1 DEF ForetoldInv, NoFileAbove, Quiet
<1>3. ASSUME NEW b \in Builds, Build(b) PROVE ForetoldInv'
  <2>1. NoFileAbove(sys')
    BY <1>1, <1>3 DEF Build, SteadyFolders, NoFileAbove, ForetoldInv
  <2>2. store' = store /\ \A m \in Procs : ~Active(m)'
    BY <1>3 DEF Build, AllIdle, Active
  <2> QED BY <1>1, <2>1, <2>2 DEF ForetoldInv
<1>4. ASSUME NEW i \in Procs, NEW v \in Versions, NEW as \in {"yes", "no"},
             NEW f \in FlagSets[as], Pack(i, v, as, f), proc' # proc
      PROVE  ForetoldInv'
  <2>1. PICK list :
          Step(i, [IdleJob EXCEPT !.pc = "dry", !.ver = v, !.as = as, !.flags = f,
                    !.list = list, !.todo = list, !.bad = "cache" \in f /\ cache # {},
                    !.seen = [x \in Paths |-> IF x \in list THEN sys[x] ELSE Absent]])
    BY <1>4 DEF Pack
  <2>2. PICK k : k = proc'[i]
    OBVIOUS
  <2>3. /\ k.pc = "dry" /\ k.seen = [x \in Paths |-> IF x \in list THEN sys[x] ELSE Absent]
        /\ \A m \in Procs \ {i} : proc'[m] = proc[m]
    BY <2>1, <2>2, IdleJobType DEF Step, ForetoldInv, RunsInv, TypeInv, TypeOK, Jobs
  <2>4. sys' = sys /\ store' = store /\ \A m \in Procs \ {i} : proc'[m].pc = "idle"
    BY <1>4, <2>3 DEF Pack, AllIdle, Active
  <2>5. Foretold(k)' /\ NoFileAbove(k.seen)
    BY <1>1, <2>3 DEF Foretold, NoFileAbove, ForetoldInv, Absent
  <2> QED BY <1>1, <2>2, <2>4, <2>5, OnlyForetold DEF ForetoldInv
<1>5. ASSUME NEW i \in Procs, Work(i) \/ Crash(i) PROVE ForetoldInv'
  <2>1. Active(i)
    BY <1>5, WorkOf
  <2>2. \A m \in Procs \ {i} : proc'[m].pc = "idle"
    BY <1>5, WorkAlone DEF ForetoldInv
  <2>3. PICK j, k : j = proc[i] /\ k = proc'[i]
    OBVIOUS
  <2>4. j \in Jobs /\ j.ver \in Versions /\ JobOK(j) /\ RunInv(j)
    BY <2>1, <2>3, ActiveJob DEF ForetoldInv, RunsInv, Active, TypeInv
  <2>5. CASE k.pc # "idle"
    <3>1. Moves(j, k) /\ TypeInv /\ SafeInv
      BY <1>5, <2>3, <2>5, WorkMoves DEF ForetoldInv, RunsInv
    <3>2. Foretold(j) /\ NoFileAbove(j.seen)
      BY <2>1, <2>3 DEF ForetoldInv
    <3>3. Foretold(k)'
      BY <1>5, <2>3, <2>4, <3>1, <3>2, PassedSays, MoveForetold
    <3>4. NoFileAbove(sys') /\ (\A v \in Versions : NoFileAbove(store'[v])) /\ NoFileAbove(k.seen)
      BY <2>4, <3>1, <3>2, MoveFolders DEF ForetoldInv
    <3> QED BY <1>1, <2>2, <2>3, <3>3, <3>4, OnlyForetold
  <2>6. CASE k.pc = "idle"
    <3>1. UNCHANGED <<sys, store>>
      BY <1>5, <2>3, <2>6, EndsQuietly DEF ForetoldInv, RunsInv
    <3> QED BY <1>1, <2>2, <2>3, <2>6, <3>1, OnlyForetold DEF ForetoldInv
  <2> QED BY <2>5, <2>6
<1> QED BY <1>2, <1>3, <1>4, <1>5, QuietSteps DEF Next

LEMMA ForetoldInit == ASSUME SteadyFolders PROVE Init => ForetoldInv
<1>1. Init => RunsInv /\ \A i \in Procs : ~Active(i)
  BY RunsInit, IdleJobType DEF Init, Active
<1>2. Folders \subseteq Paths
  BY TreeAssumption DEF Folders
<1> QED BY <1>1, <1>2 DEF Init, ForetoldInv, NoFileAbove, SteadyFolders, Absent

\* With one --pack at a time and a package in which no version has a file or a link
\* where another has a directory with something below: after a dry run without an
\* error the calls of the real pass find what they need, unless a link to nothing
\* stands where a directory is made.
THEOREM PackForetold == ASSUME SteadyFolders PROVE Spec => []PackPredicts
<1>1. ForetoldInv => PackPredicts
  <2>1. SUFFICES ASSUME ForetoldInv, NEW i \in Procs, Active(i),
                        passed = <<proc[i].ver, proc[i].flags>>
                 PROVE  LET j == proc[i]
                            s == store[j.ver]
                            Clear(ys) == \A y \in ys : s[y].kind \in {"none", "dir"} IN
                        /\ j.pc = "item" => \A x \in j.todo : Due(j.ver, j.flags, x, j.seen[x]) # "error"
                        /\ j.pc \in {"parents", "makeDir"} =>
                              \/ Clear(Above[j.at]) /\ (j.pc = "makeDir" => Clear({j.at}))
                              \/ \E y \in Above[j.at] \cup {j.at} : s[y].kind = "link" /\ ~Exists(s[y])
                        /\ j.pc = "linkSource" => s[j.at].kind = "none"
                        /\ j.pc = "rename" => sys[j.at].kind = "reg"
                        /\ j.pc = "linkInstalled" => sys[j.at].kind = "none"
                        /\ j.pc = "ownSource" => s[j.at].mine = "yes" \/ j.as = "no"
                        /\ j.pc = "ownInstalled" => sys[j.at].mine = "yes" \/ j.as = "no"
    BY DEF PackPredicts
  <2> DEFINE j == proc[i]
             s == store[j.ver]
  <2>2. /\ j \in Jobs /\ j.ver \in Versions /\ j.at \in Paths /\ j.as \in {"yes", "no"}
        /\ s \in Trees /\ RunInv(j) /\ Foretold(j)
    BY <2>1, ActiveJob DEF ForetoldInv, RunsInv, Active, Jobs
  <2>3. j.pc = "item" => \A x \in j.todo : Due(j.ver, j.flags, x, j.seen[x]) # "error"
    BY <2>1, <2>2 DEF Foretold, Calls
  <2>4. \A y \in Above[j.at] : s[y].kind \in {"none", "dir"}
    <3>1. ASSUME NEW y \in Above[j.at] PROVE s[y].kind \in {"none", "dir"}
      <4>1. y \in Folders /\ y \in Paths
        BY <2>2, TreeAssumption DEF Folders
      <4>2. s[y] \in Node /\ s[y].kind \notin {"reg", "link"}
        BY <2>1, <2>2, <4>1 DEF ForetoldInv, NoFileAbove, Trees
      <4> QED BY <4>2, NodeKinds
    <3> QED BY <3>1
  <2>5. j.pc = "makeDir" =>
          s[j.at].kind = "none" \/ (s[j.at].kind = "link" /\ ~Exists(s[j.at]))
    BY <2>2 DEF Foretold, NoneYet
  <2>6. j.pc \in Calls => Doing(j)
    BY <2>2 DEF RunInv
  <2>7. /\ j.pc = "linkSource" => s[j.at].kind = "none"
        /\ j.pc = "rename" => sys[j.at].kind = "reg"
        /\ j.pc = "linkInstalled" => sys[j.at].kind = "none"
    BY <2>6 DEF Doing, Calls, Pcs
  <2>8. /\ j.pc = "ownSource" => s[j.at].mine = "yes" \/ j.as = "no"
        /\ j.pc = "ownInstalled" => sys[j.at].mine = "yes" \/ j.as = "no"
    BY <2>2, <2>6 DEF Doing, Calls, Pcs, Link, Dir
  <2> QED BY <2>3, <2>4, <2>5, <2>7, <2>8
<1>2. CASE ~OneAtATime
  <2>1. PackPredicts
    BY <1>2 DEF PackPredicts
  <2> QED BY <2>1, PTL
<1>3. CASE OneAtATime
  BY <1>1, <1>3, ForetoldInit, ForetoldStep, PTL DEF Spec
<1> QED BY <1>2, <1>3

-----------------------------------------------------------------------------
(* A pack can be repeated                                                    *)

Rooted(x) == \A y \in Above[x] : sys[y].kind = "dir"

\* Everything in the system is in a directory.
WellGrown == \A x \in Paths : sys[x].kind # "none" => Rooted(x)

\* What is installed at x is no error for a pack of version v.
Repeats(v, f, x) == Chained(x) \/ \A n \in Node : n = sys[x] => Due(v, f, x, n) # "error"

CanRepeat ==
    \A v \in Versions, f \in SUBSET Flags :
        passed = <<v, f>> /\ "cache" \notin f => \A x \in Found(sys, f) : Repeats(v, f, x)

\* The dry run looks at all there is, and passed is about the run that goes on.
RepeatJob(j) ==
    /\ j.pc \in Calls => Rooted(j.at)
    /\ j.pc = "dry" => j.todo = j.list
    /\ j.pc = "dry" /\ "cache" \notin j.flags => Found(sys, j.flags) \subseteq j.list
    /\ j.pc # "dry" /\ passed # <<>> => passed = <<j.ver, j.flags>>

RepeatInv ==
    /\ RunsInv /\ WellGrown /\ CanRepeat
    /\ \A i \in Procs : Active(i) => RepeatJob(proc[i])

\* Nothing comes to what is found in the system by taking a file away or putting a
\* link in its place.
LEMMA FoundShrinks ==
    ASSUME NEW t, NEW u, NEW z \in Paths, \A y \in Paths \ {z} : u[y] = t[y],
           u[z] = t[z] \/ (t[z].kind # "dir" /\ u[z].kind # "dir"),
           NEW f, NEW x \in Found(u, f), x # z
    PROVE  x \in Found(t, f)
<1>1. x \in Paths /\ \A y \in Above[x] : y \in Paths
  BY TreeAssumption DEF Found, InInstallDirs, OnInstallDevice
<1>2. Mine(u, x) => Mine(t, x)
  BY <1>1 DEF Mine
<1>3. ASSUME NEW r, NEW wide, Walked(u, x, r, wide) PROVE Walked(t, x, r, wide)
  BY <1>1, <1>3 DEF Walked
<1> QED BY <1>1, <1>2, <1>3 DEF Found, InInstallDirs, OnInstallDevice

\* Pairs of what is installed and what is packed that are no error.
LEMMA FineNow ==
    ASSUME store' \in [Versions -> Trees], NEW v \in Versions, NEW f, NEW x \in Paths,
           NEW n \in Node, n = sys'[x], NEW s \in Node, s = store'[v][x],
           \/ n.kind = "link" /\ s.kind = "none"
           \/ n.kind = "link" /\ s.kind = "link" /\ s.is = n.is
           \/ n.kind = "link" /\ s.kind = "reg" /\ n.is = <<v, x>>
           \/ n.kind = "dir" /\ s.kind = "dir"
           \/ n.kind = "reg" /\ (DataOf(s) = DataOf(n) /\ DataOf(n) # NoContent)'
    PROVE  Due(v, f, x, n)' # "error"
<1>1. CASE n.kind = "link"
  <2>1. PackLink(n.is, s, <<v, x>>, f)' # "error"
    BY <1>1 DEF PackLink
  <2> QED BY <1>1, <2>1 DEF Due
<1>2. CASE n.kind = "dir"
  <2>1. PackDir(s)' # "error"
    BY <1>2 DEF PackDir
  <2> QED BY <1>2, <2>1 DEF Due
<1>3. CASE n.kind = "reg"
  <2>1. PackReg(n, s)' # "error"
    BY <1>3 DEF PackReg
  <2> QED BY <1>3, <2>1 DEF Due
<1> QED BY <1>1, <1>2, <1>3

LEMMA ChainStays ==
    ASSUME NEW x, sys'[x] = sys[x], Chained(x),
           \A w \in Versions : store[w][x].kind = "link" => store'[w][x] = store[w][x]
    PROVE  Chained(x)'
BY DEF Chained

\* Where a step changes nothing, or makes a directory above the item.
LEMMA OthersRepeat ==
    ASSUME TypeInv, TypeInv', SafeInv, NEW v \in Versions, NEW f, NEW x \in Paths,
           sys'[x] = sys[x], Repeats(v, f, x),
           \A w \in Versions : \/ store'[w][x] = store[w][x]
                               \/ w = v /\ sys[x].kind = "dir" /\ store[w][x].kind = "none"
                                    /\ store'[w][x].kind = "dir"
    PROVE  Repeats(v, f, x)'
<1>1. store \in [Versions -> Trees] /\ sys \in Trees /\ store' \in [Versions -> Trees]
      /\ Straight(sys) /\ Straight(store[v])
  BY DEF TypeInv, TypeOK, SafeInv
<1>2. CASE Chained(x)
  BY <1>2, ChainStays DEF Repeats
<1>3. CASE ~Chained(x)
  <2>1. ASSUME NEW n \in Node, n = sys'[x] PROVE Due(v, f, x, n)' # "error"
    <3>1. Due(v, f, x, n) # "error"
      BY <1>3, <2>1 DEF Repeats
    <3>2. CASE \A w \in Versions : store'[w][x] = store[w][x]
      BY <1>1, <3>1, <3>2, DueStays
    <3>3. CASE \E w \in Versions : store'[w][x] # store[w][x]
      <4>1. PICK s \in Node : s = store'[v][x]
        BY <1>1 DEF Trees
      <4>2. n.kind = "dir" /\ s.kind = "dir"
        BY <2>1, <3>3, <4>1
      <4> QED BY <1>1, <2>1, <4>1, <4>2, FineNow
    <3> QED BY <3>2, <3>3
  <2> QED BY <2>1 DEF Repeats
<1> QED BY <1>2, <1>3

\* A link that has taken the place of a file is fine, or the link to a link.
LEMMA LinkRepeats ==
    ASSUME store' \in [Versions -> Trees], NEW v \in Versions, NEW f, NEW x \in Paths,
           sys'[x].kind = "link", sys'[x].is = <<v, x>>,
           NEW s \in Node, s = store'[v][x], DataOf(s)' # NoContent
    PROVE  Repeats(v, f, x)'
<1>1. s.kind \in {"link", "reg"}
  BY NodeKinds DEF DataOf
<1>2. CASE s.kind = "link"
  BY <1>2 DEF Repeats, Chained
<1>3. CASE s.kind = "reg"
  BY <1>3, FineNow DEF Repeats
<1> QED BY <1>1, <1>2, <1>3

\* A call for an item leaves it so that it can be packed again.
LEMMA AtRepeats ==
    ASSUME TypeInv, TypeInv', SafeInv, Kept, NEW j \in Jobs, j.ver \in Versions, JobOK(j), RunInv(j),
           NEW k, Moves(j, k), Calling(j, k), NEW f, sys'[j.at].kind # "none",
           sys' = sys => Repeats(j.ver, f, j.at)
    PROVE  Repeats(j.ver, f, j.at)'
<1>1. PICK x \in Paths, v \in Versions : x = j.at /\ v = j.ver
  BY DEF Jobs
<1>2. PICK n \in Node, s \in Node, o \in Node : n = sys'[x] /\ s = store'[v][x] /\ o = store[v][x]
  BY DEF TypeInv, TypeOK, Trees
<1>3. /\ store' \in [Versions -> Trees] /\ sys' \in Trees /\ sys \in Trees /\ NoContent \notin Data
      /\ j.seen[x] \in Node
  BY NamesAssumption DEF TypeInv, TypeOK, Jobs, Trees
<1>4. j.pc \in Calls /\ j.at \notin Ignored /\ Doing(j) /\ k.at = x
  BY <1>1 DEF Calling, Calls, Pcs, RunInv
<1>5. SameRun(j, k) /\ OnlyAt(x, v, j.as)
  BY <1>1, <1>4 DEF Moves
<1>6. /\ k.pc \in Calls => Doing(k)'
      /\ k.pc = "item" => PackedAt(k, k.at)'
  BY <1>4, <1>5, CallDoing DEF Jobs
<1>7. CASE s = o /\ n = sys[x]
  <2>1. \A w \in Versions : store'[w][x] = store[w][x]
    BY <1>1, <1>2, <1>5, <1>7 DEF OnlyAt
  <2>2. \A y \in Paths : sys'[y] = sys[y]
    BY <1>2, <1>5, <1>7 DEF OnlyAt
  <2>3. sys' = sys
    BY <1>3, <2>2 DEF Trees
  <2> QED BY <1>1, <2>1, <2>3, OthersRepeat
<1>8. CASE j.pc \in {"makeDir", "linkSource"}
  <2>1. k.pc = "ownSource" /\ Doing(k)'
    BY <1>6, <1>8 DEF Calling, Calls, Pcs
  <2>2. \/ n.kind = "link" /\ s.kind = "link" /\ s.is = n.is
        \/ n.kind = "dir" /\ s.kind = "dir"
    BY <1>1, <1>2, <1>4, <1>5, <2>1 DEF Doing, Link, Dir, SameRun
  <2> QED BY <1>1, <1>2, <1>3, <2>2, FineNow DEF Repeats
<1>9. CASE j.pc = "unlinkSource"
  <2>1. n.kind = "link" /\ s.kind = "none"
    BY <1>1, <1>2, <1>4, <1>9 DEF Calling, Doing, JobOK, Absent
  <2> QED BY <1>1, <1>2, <1>3, <2>1, FineNow DEF Repeats
<1>10. CASE j.pc = "ownSource"
  <2>1. n = sys[x] /\ s = [o EXCEPT !.mine = "yes"] /\ o.kind # "none"
    BY <1>1, <1>2, <1>10 DEF Calling
  <2>2. s.kind = o.kind /\ s.is = o.is
    BY <1>2, <2>1, NodeKinds
  <2>3. \/ n.kind = "link" /\ o.kind = "link" /\ o.is = n.is
        \/ n.kind = "dir" /\ o.kind = "dir"
    BY <1>1, <1>2, <1>4, <1>10, <2>1 DEF Doing, Link, Dir
  <2> QED BY <1>1, <1>2, <1>3, <2>2, <2>3, FineNow DEF Repeats
<1>11. CASE j.pc = "place"
  <2>1. k.pc = "unlinkInstalled" /\ Doing(k)'
    BY <1>6, <1>11 DEF Calling, Calls, Pcs
  <2>2. n = j.seen[x] /\ n.kind = "reg"
    BY <1>1, <1>2, <1>4, <1>5, <2>1 DEF Doing, SameRun
  <2>3. DataOf(s)' = n.is
    BY <1>1, <1>2, <1>4, <1>5, <2>1, <2>2 DEF Doing, SameRun, DataOf
  <2>4. (DataOf(s) = DataOf(n) /\ DataOf(n) # NoContent)'
    BY <1>2, <1>3, <2>2, <2>3, NodeKinds DEF DataOf
  <2> QED BY <1>1, <1>2, <1>3, <2>2, <2>4, FineNow DEF Repeats
<1>12. CASE j.pc \in {"linkInstalled", "ownInstalled"}
  <2>1. sys'[x].kind = "link" /\ sys'[x].is = <<v, x>> /\ j.seen[x].kind = "reg"
    <3>1. CASE j.pc = "linkInstalled"
      BY <1>1, <1>4, <1>12, <3>1 DEF Calling, Link, Content, Doing
    <3>2. CASE j.pc = "ownInstalled"
      <4>1. /\ sys[x] = Link(j.as, <<v, x>>) /\ sys'[x] = [sys[x] EXCEPT !.mine = "yes"]
            /\ j.seen[x].kind = "reg"
        BY <1>1, <1>4, <3>2 DEF Calling, Content, Doing
      <4> QED BY <4>1 DEF Link
    <3> QED BY <1>12, <3>1, <3>2
  <2>2. DataOf(s) # NoContent
    <3>1. DataOf(o) = j.seen[x].is /\ s = o
      BY <1>1, <1>2, <1>4, <1>12 DEF Doing, Calling
    <3>2. j.seen[x].is \in Data
      BY <1>3, <2>1, NodeKinds
    <3> QED BY <1>3, <3>1, <3>2
  <2>3. DataOf(s)' # NoContent
    BY <2>2, DataStays
  <2>4. Repeats(v, f, x)'
    BY <1>2, <1>3, <2>1, <2>3, LinkRepeats
  <2> QED BY <1>1, <2>4 DEF Repeats, Chained
<1>13. CASE j.pc \in {"rename", "unlinkInstalled"} /\ k.pc = "linkInstalled"
  BY <1>1, <1>13 DEF Calling, Absent
<1>14. \/ s = o /\ n = sys[x]
       \/ j.pc \in {"makeDir", "linkSource"} \/ j.pc = "unlinkSource" \/ j.pc = "ownSource"
       \/ j.pc = "place" \/ j.pc \in {"linkInstalled", "ownInstalled"}
       \/ j.pc \in {"rename", "unlinkInstalled"} /\ k.pc = "linkInstalled"
  BY <1>1, <1>2 DEF Calling
<1> QED BY <1>7, <1>8, <1>9, <1>10, <1>11, <1>12, <1>13, <1>14

\* The step of a run that has made its dry run.
LEMMA MoveRepeats ==
    ASSUME TypeInv, TypeInv', SafeInv, Kept, NEW j \in Jobs, j.ver \in Versions, JobOK(j), RunInv(j),
           NEW k, Moves(j, k), j.pc \in Calls => Rooted(j.at), NEW f,
           \A x \in Found(sys, f) : Repeats(j.ver, f, x), NEW x \in Found(sys', f)
    PROVE  Repeats(j.ver, f, x)'
<1>1. x \in Paths /\ sys'[x].kind # "none"
  BY DEF Found, InInstallDirs, OnInstallDevice, Mine
<1>2. SameRun(j, k) /\ OnlyAt(k.at, j.ver, j.as)
  BY DEF Moves
<1>3. CASE x = k.at /\ Calling(j, k)
  <2>1. k.at = j.at /\ (sys' = sys => Repeats(j.ver, f, x))
    BY <1>3 DEF Calling
  <2>2. sys'[j.at].kind # "none" /\ (sys' = sys => Repeats(j.ver, f, j.at))
    BY <1>1, <1>3, <2>1
  <2>3. Repeats(j.ver, f, j.at)'
    BY <1>3, <2>2, AtRepeats
  <2>4. PICK y : y = j.at /\ y = x
    BY <1>3, <2>1
  <2> QED BY <2>3, <2>4 DEF Repeats, Chained
<1>4. CASE x # k.at \/ ~Calling(j, k)
  <2>1. ASSUME ~Calling(j, k) PROVE UNCHANGED <<sys, store>>
    BY <2>1 DEF Moves, Starts, GivesUp, Turns
  <2>2. x \in Found(sys, f)
    <3>1. CASE Calling(j, k)
      <4>1. j.at \in Paths /\ k.at = j.at /\ x # j.at
        BY <1>4, <3>1 DEF Calling, Jobs
      <4>2. /\ \A y \in Paths \ {j.at} : sys'[y] = sys[y]
            /\ sys'[j.at] = sys[j.at] \/ (sys[j.at].kind # "dir" /\ sys'[j.at].kind # "dir")
        BY <4>1, MoveSys
      <4> QED BY <4>1, <4>2, FoundShrinks
    <3>2. CASE ~Calling(j, k)
      BY <2>1, <3>2
    <3> QED BY <3>1, <3>2
  <2>3. sys'[x] = sys[x]
    BY <1>1, <1>2, <1>4, <2>1 DEF OnlyAt
  <2>4. \A w \in Versions : \/ store'[w][x] = store[w][x]
                            \/ w = j.ver /\ sys[x].kind = "dir" /\ store[w][x].kind = "none"
                                 /\ store'[w][x].kind = "dir"
    <3>1. CASE ~Calling(j, k)
      BY <2>1, <3>1
    <3>2. CASE Calling(j, k)
      <4>1. Rooted(j.at) /\ k.at = j.at /\ x # j.at
        BY <1>4, <3>2 DEF Calling, Calls, Pcs
      <4> QED BY <1>1, <1>2, <4>1 DEF OnlyAt, Rooted, Dir
    <3> QED BY <3>1, <3>2
  <2>5. PICK v \in Versions : v = j.ver
    OBVIOUS
  <2>6. Repeats(v, f, x)
    BY <2>2, <2>5
  <2>7. Repeats(v, f, x)'
    BY <1>1, <2>3, <2>4, <2>5, <2>6, OthersRepeat
  <2> QED BY <2>5, <2>7 DEF Repeats, Chained
<1> QED BY <1>3, <1>4

\* The place of a run in the system stays.
LEMMA MoveRooted ==
    ASSUME TypeInv, NEW j \in Jobs, j.ver \in Versions, RunInv(j), NEW k, Moves(j, k),
           WellGrown, j.pc \in Calls => Rooted(j.at)
    PROVE  WellGrown' /\ (k.pc \in Calls => Rooted(k.at)')
<1>1. ASSUME NEW x \in Paths, NEW y \in Above[x], sys[y].kind = "dir" PROVE sys'[y].kind = "dir"
  <2>1. y \in Paths
    BY TreeAssumption
  <2> QED BY <1>1, <2>1, MoveSys
<1>2. k.pc \in Calls => Rooted(k.at)
  <2>1. CASE Starts(j, k) /\ k.pc \in Calls
    <3>1. k.at \in j.todo /\ sys[k.at] = j.seen[k.at] /\ k.at \in Paths
      BY <2>1 DEF Starts, Ready, RunInv, Jobs, Calls
    <3>2. j.seen[k.at].kind # "none"
      BY <2>1 DEF Starts, Due, Calls
    <3> QED BY <3>1, <3>2 DEF WellGrown
  <2>2. CASE Calling(j, k)
    BY <2>2 DEF Calling, Calls, Pcs
  <2> QED BY <2>1, <2>2 DEF Moves, GivesUp, Turns, Calls
<1>3. ASSUME k.pc \in Calls PROVE Rooted(k.at)'
  <2>1. k.at \in Paths
    BY <1>3 DEF Moves, Starts, GivesUp, Turns, Calling, Ready, Jobs, Calls, Pcs
  <2> QED BY <1>1, <1>2, <1>3, <2>1 DEF Rooted
<1>4. ASSUME NEW x \in Paths, sys'[x].kind # "none" PROVE Rooted(x)'
  <2>1. CASE sys'[x] = sys[x]
    BY <1>1, <1>4, <2>1 DEF WellGrown, Rooted
  <2>2. CASE sys'[x] # sys[x]
    <3>1. x = j.at /\ j.pc \in Calls
      BY <2>2, MoveSys
    <3> QED BY <1>1, <3>1 DEF Rooted
  <2> QED BY <2>1, <2>2
<1> QED BY <1>3, <1>4 DEF WellGrown

LEMMA QuietRepeats ==
    ASSUME UNCHANGED <<sys, store>>, NEW v, NEW f, NEW x, Repeats(v, f, x) PROVE Repeats(v, f, x)'
<1>1. ASSUME NEW n PROVE Due(v, f, x, n)' = Due(v, f, x, n)
  BY QuietDue
<1> QED BY <1>1 DEF Repeats, Chained

LEMMA QuietCan ==
    ASSUME UNCHANGED <<sys, store>>, CanRepeat, passed' = passed \/ passed' = <<>>
    PROVE  CanRepeat'
<1>1. \A v \in Versions, f \in SUBSET Flags : passed' = <<v, f>> => passed = <<v, f>>
  OBVIOUS
<1>2. ASSUME NEW v \in Versions, NEW f \in SUBSET Flags, passed' = <<v, f>>, "cache" \notin f,
             NEW x \in Found(sys', f)
      PROVE  Repeats(v, f, x)'
  <2>1. passed = <<v, f>> /\ x \in Found(sys, f)
    BY <1>1, <1>2
  <2> QED BY <1>2, <2>1, QuietRepeats DEF CanRepeat
<1> QED BY <1>2 DEF CanRepeat

\* What the dry run saw.
LEMMA DryRepeats ==
    ASSUME RunsInv, NEW i \in Procs, DryRun(i), NEW j, j = proc[i], RunInv(j), RepeatJob(j)
    PROVE  CanRepeat'
<1>1. UNCHANGED <<sys, store>> /\ j.pc = "dry" /\ j.todo = j.list /\ j \in Jobs /\ j.list \subseteq Paths
  BY DEF DryRun, RepeatJob, RunsInv, TypeInv, TypeOK, Jobs
<1>2. ASSUME NEW v \in Versions, NEW f \in SUBSET Flags, passed' = <<v, f>>, "cache" \notin f,
             NEW x \in Found(sys', f)
      PROVE  Repeats(v, f, x)'
  <2>1. v = j.ver /\ f = j.flags /\ Due(j.ver, j.flags, x, j.seen[x]) # "error"
    <3>1. /\ passed' # <<>> /\ v = j.ver /\ f = j.flags
          /\ \A y \in j.list : Due(j.ver, j.flags, y, j.seen[y]) # "error"
      BY <1>2 DEF DryRun
    <3>2. x \in j.list
      BY <1>1, <1>2, <3>1 DEF RepeatJob
    <3> QED BY <3>1, <3>2
  <2>2. x \in j.todo /\ sys[x] = j.seen[x]
    BY <1>1, <1>2, <2>1 DEF RepeatJob, RunInv, Calls
  <2>3. Repeats(v, f, x)
    BY <2>1, <2>2 DEF Repeats
  <2> QED BY <1>1, <2>3, QuietRepeats
<1> QED BY <1>2 DEF CanRepeat

LEMMA OnlyRepeat ==
    ASSUME RunsInv', WellGrown', CanRepeat', NEW i \in Procs, NEW k, k = proc'[i],
           k.pc # "idle" => RepeatJob(k)', \A m \in Procs \ {i} : proc'[m].pc = "idle"
    PROVE  RepeatInv'
BY DEF RepeatInv, Active, RepeatJob, Rooted

LEMMA WorkRepeats ==
    ASSUME OneAtATime, RepeatInv, RunsInv', NEW i \in Procs, Work(i) \/ Crash(i)
    PROVE  RepeatInv'
<1>1. Active(i) /\ \A m \in Procs \ {i} : proc'[m].pc = "idle"
  BY WorkOf, WorkAlone DEF RepeatInv
<1>2. PICK j, k : j = proc[i] /\ k = proc'[i]
  OBVIOUS
<1>3. /\ j \in Jobs /\ j.ver \in Versions /\ JobOK(j) /\ RunInv(j) /\ RepeatJob(j)
      /\ TypeInv /\ TypeInv' /\ SafeInv /\ RunsInv /\ WellGrown /\ CanRepeat /\ j.flags \in SUBSET Flags
  BY <1>1, <1>2, ActiveJob DEF RepeatInv, RunsInv, Active, TypeInv
<1>4. /\ j.pc # "dry" => passed' = passed
      /\ j.pc = "dry" => DryRun(i)
  <2>1. j.pc # "dry" => passed' = passed
    BY <1>2, <1>3, PassedSays
  <2>2. j.pc = "dry" => DryRun(i)
    BY <1>2
       DEF Work, Crash, Item, Parents, MakeDir, UnlinkSource, LinkSource, OwnSource, Rename, Open,
           Write, Place, UnlinkInstalled, LinkInstalled, OwnInstalled, End, ClearCurrent, SetCurrent
  <2> QED BY <2>1, <2>2
<1>5. CASE k.pc = "idle"
  <2>1. UNCHANGED <<sys, store>>
    BY <1>2, <1>3, <1>5, EndsQuietly
  <2>2. WellGrown'
    BY <1>3, <2>1 DEF WellGrown, Rooted
  <2>3. CanRepeat'
    BY <1>2, <1>3, <1>4, <2>1, DryRepeats, QuietCan
  <2> QED BY <1>1, <1>2, <1>5, <2>2, <2>3, OnlyRepeat
<1>6. CASE k.pc # "idle"
  <2>1. Moves(j, k)
    BY <1>2, <1>3, <1>6, WorkMoves
  <2>2. WellGrown' /\ (k.pc \in Calls => Rooted(k.at)')
    BY <1>3, <2>1, MoveRooted DEF RepeatJob
  <2>3. j.pc = "dry" => UNCHANGED <<sys, store>> /\ k.pc = "item"
    BY <2>1 DEF Moves, Starts, GivesUp, Turns, Calling, Calls
  <2>4. k.pc # "dry" /\ k.ver = j.ver /\ k.flags = j.flags
    BY <2>1 DEF Moves, SameRun, Starts, GivesUp, Turns, Calling
  <2>5. CanRepeat'
    <3>1. CASE j.pc = "dry"
      BY <1>2, <1>3, <1>4, <3>1, DryRepeats
    <3>2. CASE j.pc # "dry" /\ UNCHANGED <<sys, store>>
      BY <1>3, <1>4, <3>2, QuietCan
    <3>3. CASE j.pc # "dry" /\ ~UNCHANGED <<sys, store>>
      <4>1. Kept
        <5>1. proc' # proc
          BY <1>2, <2>1, <3>3 DEF Moves, Starts, GivesUp, Turns, Calling
        <5>2. [Next]_vars
          BY DEF Next
        <5> QED BY <1>3, <5>1, <5>2, SafeNext DEF RunsInv
      <4>2. ASSUME NEW v \in Versions, NEW f \in SUBSET Flags, passed' = <<v, f>>, "cache" \notin f,
                   NEW x \in Found(sys', f)
            PROVE  Repeats(v, f, x)'
        <5>1. v = j.ver /\ f = j.flags /\ passed = <<v, f>>
          BY <1>3, <1>4, <3>3, <4>2 DEF RepeatJob
        <5>2. \A y \in Found(sys, f) : Repeats(j.ver, f, y)
          BY <1>3, <4>2, <5>1 DEF CanRepeat
        <5>3. j.pc \in Calls => Rooted(j.at)
          BY <1>3 DEF RepeatJob
        <5>4. Repeats(j.ver, f, x)'
          BY <1>3, <2>1, <4>1, <4>2, <5>2, <5>3, MoveRepeats
        <5> QED BY <5>1, <5>4 DEF Repeats, Chained
      <4> QED BY <4>2 DEF CanRepeat
    <3> QED BY <3>1, <3>2, <3>3
  <2>6. passed' # <<>> => passed' = <<k.ver, k.flags>>
    <3>1. CASE j.pc = "dry"
      BY <1>2, <1>4, <2>4, <3>1 DEF DryRun
    <3>2. CASE j.pc # "dry"
      BY <1>3, <1>4, <2>4, <3>2 DEF RepeatJob
    <3> QED BY <3>1, <3>2
  <2>7. RepeatJob(k)'
    BY <2>2, <2>4, <2>6 DEF RepeatJob
  <2> QED BY <1>1, <1>2, <2>2, <2>5, <2>7, OnlyRepeat
<1> QED BY <1>5, <1>6

LEMMA RepeatStep == ASSUME OneAtATime, RepeatInv, [Next]_vars PROVE RepeatInv'
<1>1. RunsInv'
  BY RunsStep DEF RepeatInv
<1>2. CASE Quiet
  <2>1. ASSUME NEW m \in Procs, Active(m)' PROVE RepeatJob(proc[m])'
    <3>1. PICK k : k = proc[m] /\ k = proc'[m]
      BY <1>2 DEF Quiet
    <3>2. RepeatJob(k)'
      BY <1>2, <2>1, <3>1 DEF RepeatInv, Active, RepeatJob, Rooted, Quiet
    <3> QED BY <3>1, <3>2 DEF RepeatJob, Rooted
  <2>2. UNCHANGED <<sys, store, passed>>
    BY <1>2 DEF Quiet
  <2>3. CanRepeat' /\ WellGrown'
    BY <2>2, QuietCan DEF RepeatInv, WellGrown, Rooted
  <2> QED BY <1>1, <2>1, <2>3 DEF RepeatInv
<1>3. ASSUME NEW b \in Builds, Build(b) PROVE RepeatInv'
  <2>1. CanRepeat' /\ \A m \in Procs : ~Active(m)'
    BY <1>3 DEF Build, CanRepeat, AllIdle, Active
  <2>2. WellGrown'
    BY <1>3 DEF Build, WellGrown, Rooted
  <2> QED BY <1>1, <2>1, <2>2 DEF RepeatInv
<1>4. ASSUME NEW i \in Procs, NEW v \in Versions, NEW as \in {"yes", "no"},
             NEW f \in FlagSets[as], Pack(i, v, as, f), proc' # proc
      PROVE  RepeatInv'
  <2>1. PICK list :
          /\ Step(i, [IdleJob EXCEPT !.pc = "dry", !.ver = v, !.as = as, !.flags = f,
                    !.list = list, !.todo = list, !.bad = "cache" \in f /\ cache # {},
                    !.seen = [x \in Paths |-> IF x \in list THEN sys[x] ELSE Absent]])
          /\ "cache" \notin f => list = Found(sys, f)
    BY <1>4 DEF Pack
  <2>2. PICK k : k = proc'[i]
    OBVIOUS
  <2>3. /\ k.pc = "dry" /\ k.todo = list /\ k.list = list /\ k.flags = f
        /\ \A m \in Procs \ {i} : proc'[m] = proc[m]
    BY <2>1, <2>2, IdleJobType DEF Step, RepeatInv, RunsInv, TypeInv, TypeOK, Jobs
  <2>4. UNCHANGED <<sys, store, passed>> /\ \A m \in Procs \ {i} : proc'[m].pc = "idle"
    BY <1>4, <2>3 DEF Pack, AllIdle, Active
  <2>5. RepeatJob(k)'
    BY <2>1, <2>3, <2>4 DEF RepeatJob, Calls
  <2>6. CanRepeat' /\ WellGrown'
    BY <2>4, QuietCan DEF RepeatInv, WellGrown, Rooted
  <2> QED BY <1>1, <2>2, <2>4, <2>5, <2>6, OnlyRepeat
<1>5. ASSUME NEW i \in Procs, Work(i) \/ Crash(i) PROVE RepeatInv'
  BY <1>1, <1>5, WorkRepeats
<1> QED BY <1>2, <1>3, <1>4, <1>5, QuietSteps DEF Next

LEMMA RepeatInit == Init => RepeatInv
<1>1. Init => RunsInv /\ \A i \in Procs : ~Active(i)
  BY RunsInit, IdleJobType DEF Init, Active
<1>2. Init => WellGrown
  BY BuildsAssumption DEF Init, WellGrown, Rooted
<1> QED BY <1>1, <1>2 DEF Init, RepeatInv, CanRepeat

\* With one --pack at a time: however a run ended, by itself, by an error or killed
\* between any two calls, what its dry run found packable still is, so that the pack
\* can be repeated.
THEOREM PackRepeats == ASSUME OneAtATime PROVE Spec => []Repackable
<1>1. RepeatInv => Repackable
  <2>1. SUFFICES ASSUME RepeatInv, passed # <<>>, "cache" \notin passed[2],
                        NEW x \in Found(sys, passed[2]), ~Chained(x)
                 PROVE  Due(passed[1], passed[2], x, sys[x]) # "error"
    BY DEF Repackable
  <2>2. PICK v \in Versions, f \in SUBSET Flags : passed = <<v, f>>
    BY <2>1 DEF RepeatInv, RunsInv, TypeInv, TypeOK
  <2>3. x \in Paths /\ sys[x] \in Node
    BY <2>1 DEF RepeatInv, RunsInv, TypeInv, TypeOK, Trees, Found, InInstallDirs, OnInstallDevice
  <2>4. Repeats(v, f, x)
    BY <2>1, <2>2 DEF RepeatInv, CanRepeat
  <2> QED BY <2>1, <2>2, <2>3, <2>4 DEF Repeats
<1> QED BY <1>1, RepeatInit, RepeatStep, PTL DEF Spec

-----------------------------------------------------------------------------
(* What a package has is accounted for                                       *)

\* The directories some version of the package has, or finds, as another's.
Foreign ==
    {y \in Paths : \/ InitialTree[y].kind = "dir" /\ InitialTree[y].mine = "no"
                   \/ \E b \in Builds : y \in DOMAIN b /\ b[y].kind = "dir" /\ b[y].mine = "no"}

\* No build removes anything or takes a directory over that was another's, or gives
\* one away: the walk through the install directories always gets as far.
SteadyOwners ==
    /\ \A y \in Foreign : InitialTree[y].kind = "dir" => InitialTree[y].mine = "no"
    /\ \A b \in Builds : \A y \in DOMAIN b :
         /\ b[y].kind # "none"
         /\ y \in Foreign /\ b[y].kind = "dir" => b[y].mine = "no"

\* Where the walk through the install directories gets.
Reached ==
    {x \in Paths : \E r \in Roots \cap Above[x] :
        \A y \in Above[x] : r \in Above[y] => y \notin Foreign /\ y \notin Ignored}

SteadySys ==
    \A y \in Paths :
        /\ sys[y].kind = "dir" => (sys[y].mine = "no" <=> y \in Foreign)
        /\ sys[y].kind \notin {"none", "link"} => sys[y].is \notin StoreFiles

\* x is a link into the store.
Stored(x) == sys[x].kind = "link" /\ sys[x].is \in StoreFiles

\* Links into the store are the package's and where the walk gets, and where a file
\* is packed something is installed; not so at the paths zs, which are worked on.
Linked(zs) ==
    \A x \in Paths :
        /\ Stored(x) => x \in Reached /\ (sys[x].mine = "yes" \/ x \in zs)
        /\ \A v \in Versions : store[v][x].kind = "reg" => sys[x].kind # "none" \/ x \in zs

\* What Accounted says of version v, wherever a link stands.
AccountedAt(v) ==
    \A x \in Paths \ Ignored :
        LET s == store[v][x] IN
        ~Chained(x) =>
            /\ Stored(x) => \/ s.kind = "link" /\ s.is = sys[x].is
                            \/ s.kind = "reg" /\ sys[x].is = <<v, x>>
            /\ s.kind = "reg" =>
                  /\ sys[x].kind # "none"
                  /\ sys[x].is \in StoreFiles => sys[x].is = <<v, x>>

\* The list of a run that looks through the install directories has all links.
Sound(j) == ~j.bad /\ "installDevice" \notin j.flags

Listed(j) ==
    /\ j.list \subseteq Reached
    /\ \A x \in j.list :
         j.seen[x].kind # "none" /\ (j.seen[x].kind = "dir" => sys[x].kind = "dir")
    /\ \A x \in Paths : Stored(x) => x \in j.list

\* The file whose place a run is about to fill.
Busy(j) == IF j.pc \in Calls /\ j.seen[j.at].kind = "reg" THEN {j.at} ELSE {}

AccountJob(j) ==
    ~torn => /\ j.pc = "dry" \/ Sound(j) => Linked(Busy(j))
             /\ j.pc = "dry" /\ current # NoVersion => AccountedAt(current)
             /\ Sound(j) => Listed(j)

AccountInv ==
    /\ RepeatInv /\ SteadySys
    /\ \A i \in Procs : Active(i) => AccountJob(proc[i])
    /\ AllIdle /\ ~torn => Linked({}) /\ (current # NoVersion => AccountedAt(current))

\* What the walk finds.
LEMMA FoundReached ==
    ASSUME WellGrown, SteadySys, NEW x \in Paths, sys[x].kind # "none", NEW f,
           "installDevice" \notin f
    PROVE  /\ x \in Found(sys, f) <=> (sys[x].mine # "no" /\ x \in Reached)
           /\ x \in Found(sys, {}) <=> (sys[x].mine # "no" /\ x \in Reached)
<1>1. \A y \in Above[x] : y \in Paths /\ sys[y].kind = "dir" /\ (sys[y].mine = "no" <=> y \in Foreign)
  BY TreeAssumption DEF WellGrown, Rooted, SteadySys
<1>2. Found(sys, f) = InInstallDirs(sys) /\ Found(sys, {}) = InInstallDirs(sys)
  BY DEF Found
<1>3. ASSUME NEW r \in Roots
      PROVE  Walked(sys, x, r, FALSE) <=>
               (r \in Above[x] /\ \A y \in Above[x] : r \in Above[y] => y \notin Foreign /\ y \notin Ignored)
  BY <1>1 DEF Walked
<1> QED BY <1>2, <1>3 DEF InInstallDirs, Mine, Reached

\* At the end of a run that saw everything.
LEMMA EndAccounted ==
    ASSUME TypeInv, SteadySys, NEW j \in Jobs, j.ver \in Versions, RunInv(j), j.todo = {}, ~j.bad,
           Linked({}), Listed(j)
    PROVE  AccountedAt(j.ver)
<1>1. SUFFICES ASSUME NEW x \in Paths \ Ignored, NEW s \in Node, s = store[j.ver][x], ~Chained(x)
               PROVE  /\ Stored(x) => \/ s.kind = "link" /\ s.is = sys[x].is
                                      \/ s.kind = "reg" /\ sys[x].is = <<j.ver, x>>
                      /\ s.kind = "reg" =>
                            /\ sys[x].kind # "none"
                            /\ sys[x].is \in StoreFiles => sys[x].is = <<j.ver, x>>
  <2>1. \A x \in Paths : store[j.ver][x] \in Node
    BY DEF TypeInv, TypeOK, Trees
  <2> QED BY <2>1 DEF AccountedAt
<1>2. s.kind = "reg" => sys[x].kind # "none"
  BY <1>1 DEF Linked
<1>3. sys[x].kind # "none" /\ sys[x].is \in StoreFiles => Stored(x)
  BY <1>1 DEF SteadySys, Stored
<1>4. ASSUME Stored(x)
      PROVE  \/ s.kind = "link" /\ s.is = sys[x].is
             \/ s.kind = "reg" /\ sys[x].is = <<j.ver, x>>
  <2>1. x \in j.list /\ PackedAt(j, x) /\ sys[x].kind = "link" /\ j.seen[x] \in Node
    BY <1>1, <1>4 DEF Listed, Stored, RunInv, Jobs, Trees
  <2>2. CASE j.seen[x].kind = "reg"
    <3>1. DataOf(s) = j.seen[x].is /\ j.seen[x].is \in Data /\ sys[x].is = <<j.ver, x>>
      <4>1. DataOf(store[j.ver][x]) = j.seen[x].is /\ sys[x] = Link("yes", <<j.ver, x>>)
        BY <2>1, <2>2 DEF PackedAt
      <4>2. j.seen[x].is \in Data
        BY <2>1, <2>2, NodeKinds
      <4> QED BY <1>1, <4>1, <4>2 DEF Link
    <3>2. s.kind = "reg" \/ s.kind = "link"
      BY <3>1, NamesAssumption DEF DataOf
    <3> QED BY <1>1, <3>1, <3>2 DEF Chained
  <2>3. CASE j.seen[x].kind = "link"
    BY <1>1, <2>1, <2>3 DEF PackedAt
  <2>4. CASE j.seen[x].kind = "dir"
    BY <2>1, <2>4 DEF Listed
  <2>5. j.seen[x].kind # "none"
    BY <2>1 DEF Listed
  <2> QED BY <2>1, <2>2, <2>3, <2>4, <2>5, NodeKinds
<1> QED BY <1>2, <1>3, <1>4

\* A run starts with everything on its list.
LEMMA StartListed ==
    ASSUME TypeInv, WellGrown, SteadySys, NEW f, "installDevice" \notin f, Linked({}),
           NEW j, j.list = Found(sys, f), \A x \in j.list : j.seen[x] = sys[x]
    PROVE  Listed(j)
<1>1. \A x \in j.list : x \in Paths /\ sys[x].kind # "none" /\ x \in Reached
  <2>1. \A x \in j.list : x \in Paths /\ sys[x].kind # "none"
    BY DEF Found, InInstallDirs, Mine
  <2> QED BY <2>1, FoundReached
<1>2. \A x \in Paths : Stored(x) => x \in j.list
  <2>1. ASSUME NEW x \in Paths, Stored(x) PROVE x \in j.list
    BY <2>1, FoundReached DEF Stored, Linked
  <2> QED BY <2>1
<1> QED BY <1>1, <1>2 DEF Listed

\* A step of a run that goes on.
LEMMA MoveAccount ==
    ASSUME TypeInv, TypeInv', NEW j \in Jobs, j.ver \in Versions, JobOK(j), RunInv(j),
           NEW k, RunInv(k)', Moves(j, k), SteadySys, AccountJob(j), torn' = torn
    PROVE  SteadySys' /\ AccountJob(k)'
<1>1. SameRun(j, k) /\ j.list \subseteq Paths /\ j.todo \subseteq j.list /\ j.at \in Paths
  BY DEF Moves, Jobs, RunInv
<1>2. SteadySys'
  <2>1. ASSUME NEW y \in Paths, sys'[y] # sys[y] PROVE sys'[y].kind \in {"none", "link"}
    <3>1. y = j.at /\ sys'[j.at].kind # "dir" /\ (sys'[j.at].kind # "none" => sys'[j.at].kind = "link")
      BY <2>1, MoveSys
    <3> QED BY <3>1
  <2> QED BY <2>1 DEF SteadySys
<1>3. k.pc # "dry"
  BY DEF Moves, Starts, GivesUp, Turns, Calling
<1>4. SUFFICES ASSUME ~torn, Sound(k) PROVE Linked(Busy(k))' /\ Listed(k)'
  BY <1>2, <1>3 DEF AccountJob, Sound
<1>5. Sound(j) /\ Linked(Busy(j)) /\ Listed(j) /\ ~GivesUp(j, k)
  <2>1. ~k.bad /\ "installDevice" \notin j.flags
    BY <1>1, <1>4 DEF Sound, SameRun
  <2>2. ~GivesUp(j, k) /\ ~j.bad
    BY <2>1 DEF Moves, GivesUp, Starts, Turns, Calling
  <2> QED BY <1>4, <2>1, <2>2 DEF AccountJob, Sound
<1>6. Listed(k)'
  <2>1. ASSUME NEW x \in Paths, sys[x].kind = "dir" PROVE sys'[x].kind = "dir"
    BY <2>1, MoveSys
  <2>2. ASSUME NEW x \in Paths, Stored(x)' PROVE x \in j.list
    <3>1. CASE sys'[x] = sys[x]
      BY <1>5, <2>2, <3>1 DEF Stored, Listed
    <3>2. CASE sys'[x] # sys[x]
      <4>1. x = j.at /\ j.pc \in Calls
        BY <3>2, MoveSys
      <4> QED BY <1>1, <4>1 DEF RunInv
    <3> QED BY <3>1, <3>2
  <2> QED BY <1>1, <1>5, <2>1, <2>2 DEF Listed, SameRun
<1>7. CASE ~Calling(j, k)
  <2>1. j.pc \notin Calls /\ UNCHANGED <<sys, store>>
    BY <1>5, <1>7 DEF Moves, Starts, Turns, Calls
  <2>2. Busy(j) = {}
    BY <2>1 DEF Busy
  <2> QED BY <1>5, <1>6, <2>1, <2>2 DEF Linked, Stored
<1>8. CASE Calling(j, k)
  <2>1. j.pc \in Calls /\ k.at = j.at /\ (k.pc \in Calls \/ k.pc = "item")
        /\ (k.pc = "item" => k.todo = j.todo \ {j.at})
    BY <1>8 DEF Calling, Calls, Pcs
  <2>2. j.at \in j.list /\ j.at \in Reached /\ j.at \notin Ignored
    BY <1>1, <1>5, <2>1 DEF RunInv, Listed
  <2>3. ASSUME NEW x \in Paths, x # j.at \/ j.seen[j.at].kind # "reg"
        PROVE  /\ Stored(x)' => x \in Reached /\ (sys'[x].mine = "yes" \/ x \in Busy(k))
               /\ \A v \in Versions : store'[v][x].kind = "reg" => sys'[x].kind # "none" \/ x \in Busy(k)
    <3>1. sys'[x] = sys[x] /\ x \notin Busy(j)
      BY <2>3, MoveSys DEF Busy
    <3>2. \A v \in Versions : store'[v][x].kind = "reg" => store[v][x].kind = "reg"
      BY <2>3, MoveStore
    <3> QED BY <1>5, <3>1, <3>2 DEF Linked, Stored
  <2>4. ASSUME j.seen[j.at].kind = "reg"
        PROVE  /\ Stored(j.at)' => j.at \in Reached /\ (sys'[j.at].mine = "yes" \/ j.at \in Busy(k))
               /\ \A v \in Versions : store'[v][j.at].kind = "reg" =>
                                        sys'[j.at].kind # "none" \/ j.at \in Busy(k)
    <3>1. CASE k.pc \in Calls
      BY <1>1, <2>1, <2>2, <2>4, <3>1 DEF Busy, SameRun
    <3>2. CASE k.pc = "item"
      <4>1. k.at \in (k.list \ k.todo) \ Ignored /\ ~k.bad
        BY <1>1, <1>4, <2>1, <2>2, <3>2 DEF SameRun, Sound
      <4>2. PackedAt(k, k.at)'
        BY <4>1 DEF RunInv
      <4>3. sys'[k.at] = Link("yes", <<k.ver, k.at>>)
        BY <1>1, <2>1, <2>4, <4>2 DEF PackedAt, SameRun
      <4> QED BY <2>1, <2>2, <4>3 DEF Link
    <3> QED BY <2>1, <3>1, <3>2
  <2>5. ASSUME NEW x \in Paths
        PROVE  /\ Stored(x)' => x \in Reached /\ (sys'[x].mine = "yes" \/ x \in Busy(k))
               /\ \A v \in Versions : store'[v][x].kind = "reg" => sys'[x].kind # "none" \/ x \in Busy(k)
    <3>1. CASE x # j.at \/ j.seen[j.at].kind # "reg"
      BY <2>3, <3>1
    <3>2. CASE x = j.at /\ j.seen[j.at].kind = "reg"
      <4>1. PICK y \in Paths : y = j.at /\ y = x
        BY <3>2
      <4> QED BY <2>4, <3>2, <4>1 DEF Stored
    <3> QED BY <3>1, <3>2
  <2> QED BY <1>6, <2>5 DEF Linked, Busy
<1> QED BY <1>7, <1>8

LEMMA QuietAccount ==
    ASSUME UNCHANGED <<sys, store>>
    PROVE  /\ SteadySys => SteadySys'
           /\ \A zs : Linked(zs) => Linked(zs)'
           /\ \A v \in Versions : AccountedAt(v) => AccountedAt(v)'
           /\ \A j : Listed(j) => Listed(j)'
<1>1. SteadySys => SteadySys'
  BY DEF SteadySys
<1>2. ASSUME NEW zs, Linked(zs) PROVE Linked(zs)'
  BY <1>2 DEF Linked, Stored
<1>3. ASSUME NEW v \in Versions, AccountedAt(v) PROVE AccountedAt(v)'
  BY <1>3 DEF AccountedAt, Stored, Chained
<1>4. ASSUME NEW j, Listed(j) PROVE Listed(j)'
  BY <1>4 DEF Listed, Stored
<1> QED BY <1>1, <1>2, <1>3, <1>4

LEMMA OnlyAccount ==
    ASSUME RepeatInv', SteadySys', NEW i \in Procs, NEW k, k = proc'[i],
           k.pc # "idle" => AccountJob(k)',
           k.pc = "idle" /\ ~torn' => Linked({})' /\ (current' # NoVersion => AccountedAt(current)'),
           \A m \in Procs \ {i} : proc'[m].pc = "idle"
    PROVE  AccountInv'
<1>1. AllIdle' => k.pc = "idle"
  BY DEF AllIdle, Active
<1>2. \A m \in Procs : Active(m)' => m = i
  BY DEF Active
<1>3. ASSUME NEW m \in Procs, Active(m)' PROVE AccountJob(proc[m])'
  BY <1>2, <1>3 DEF Active, AccountJob, Sound, Linked, Busy, Listed, Stored, AccountedAt, Chained
<1> QED BY <1>1, <1>3 DEF AccountInv

\* A run that ends without a trace of trouble ends with its dry run or sets Current.
LEMMA EndsHow ==
    ASSUME TypeInv, NEW i \in Procs, Work(i) \/ Crash(i), NEW j, j = proc[i]
    PROVE  /\ proc'[i].pc # "idle" => torn' = torn
           /\ proc'[i].pc = "idle" /\ ~torn' =>
                \/ j.pc = "dry" /\ torn' = torn /\ current' = current
                \/ j.pc = "setCurrent" /\ ~torn /\ Sound(j) /\ current' = j.ver
<1>1. j \in Jobs /\ proc \in [Procs -> Jobs] /\ torn \in BOOLEAN
  BY DEF TypeInv, TypeOK
<1>2. \A m \in Jobs : Step(i, m) => proc'[i] = m
  BY <1>1 DEF Step
<1>3. Stop(i) => proc'[i].pc = "idle" /\ torn' = TRUE
  BY <1>2, IdleJobType DEF Stop
<1>4. ASSUME NEW c \in Pcs \ {"idle"}, Step(i, [j EXCEPT !.pc = c]) PROVE proc'[i].pc # "idle"
  BY <1>1, <1>4 DEF Step, Jobs
<1>5. CASE Crash(i)
  BY <1>3, <1>5 DEF Crash
<1>6. CASE DryRun(i)
  BY <1>6 DEF DryRun
<1>7. CASE SetCurrent(i)
  <2>1. CASE current = NoVersion
    <3>1. Step(i, IdleJob) /\ torn' = (torn \/ j.bad \/ "installDevice" \in j.flags) /\ current' = j.ver
          /\ j.pc = "setCurrent"
      BY <1>7, <2>1 DEF SetCurrent
    <3>2. proc'[i].pc = "idle" /\ j.bad \in BOOLEAN
      BY <1>1, <1>2, <3>1, IdleJobType DEF Jobs
    <3> QED BY <1>1, <3>1, <3>2 DEF Sound
  <2>2. CASE current # NoVersion
    BY <1>3, <1>7, <2>2 DEF SetCurrent
  <2> QED BY <2>1, <2>2
<1>8. CASE End(i) \/ ClearCurrent(i)
  BY <1>4, <1>8 DEF End, ClearCurrent, history, Pcs
<1>9. ASSUME NEW m \in Jobs, Raise(i, m)
      PROVE  /\ proc'[i].pc # "idle" => torn' = torn
             /\ proc'[i].pc = "idle" => torn' = TRUE
  <2>1. [Passed(m) EXCEPT !.bad = TRUE] \in Jobs /\ [Passed(m) EXCEPT !.bad = TRUE].pc = "item"
    BY DEF Passed, Jobs, Pcs
  <2> QED BY <1>2, <1>3, <1>9, <2>1 DEF Raise
<1>10. Fail(i) \/ Discard(i) =>
         /\ proc'[i].pc # "idle" => torn' = torn
         /\ proc'[i].pc = "idle" => torn' = TRUE
  BY <1>1, <1>9 DEF Fail, Discard
<1>11. CASE Item(i)
  <2>1. PICK x \in Ready(j) :
         LET due == Due(j.ver, j.flags, x, j.seen[x])
             m == [j EXCEPT !.at = x] IN
         \/ due = "error" /\ Raise(i, m)
         \/ /\ due # "error" /\ torn' = torn
            /\ Step(i, IF due = "fine" THEN Passed(m) ELSE [m EXCEPT !.pc = due])
    BY <1>11 DEF Item, history
  <2> DEFINE due == Due(j.ver, j.flags, x, j.seen[x])
             m == [j EXCEPT !.at = x]
  <2>2. m \in Jobs /\ x \in Paths
    BY <1>1, <2>1 DEF Ready, Jobs
  <2>3. CASE due = "error"
    BY <1>9, <2>1, <2>2, <2>3
  <2>4. CASE due # "error"
    <3>1. j.ver \in Versions /\ j.seen[x] \in Node
      BY <1>1, <1>11, <2>2 DEF Item, TypeInv, JobOK, Jobs, Trees
    <3>2. due \in {"fine", "unlinkInstalled", "unlinkSource", "parents", "makeDir"}
      BY <2>2, <2>4, <3>1, DueFacts DEF TypeInv, TypeOK
    <3> HIDE DEF due
    <3>3. Passed(m) \in Jobs /\ Passed(m).pc = "item"
      BY <2>2, PassedType
    <3>4. [m EXCEPT !.pc = due] \in Jobs \/ due = "fine"
      BY <2>2, <3>2 DEF Jobs, Pcs
    <3>5. [m EXCEPT !.pc = due].pc = due
      BY <2>2 DEF Jobs
    <3> QED BY <1>2, <2>1, <2>4, <3>2, <3>3, <3>4, <3>5 DEF due
  <2> QED BY <2>3, <2>4
<1>12. CASE Parents(i) \/ MakeDir(i) \/ UnlinkSource(i) \/ LinkSource(i)
  <2>1. \/ Fail(i)
        \/ torn' = torn /\ \E c \in Pcs \ {"idle"} : Step(i, [j EXCEPT !.pc = c])
    <3>1. {"rename", "linkSource", "ownSource"} \subseteq Pcs \ {"idle"}
      BY DEF Pcs
    <3> QED BY <1>12, <3>1 DEF Parents, MakeDir, UnlinkSource, LinkSource, InStore, history
  <2> QED BY <1>4, <1>10, <2>1
<1>13. CASE OwnSource(i) \/ OwnInstalled(i)
  <2>1. Passed(j) \in Jobs /\ Passed(j).pc = "item"
    BY <1>1, PassedType
  <2> QED BY <1>2, <1>10, <1>13, <2>1 DEF OwnSource, OwnInstalled, history
<1>14. CASE Rename(i)
  <2>1. ASSUME NEW d, Step(i, [j EXCEPT !.pc = "open", !.buf = d]) PROVE proc'[i].pc # "idle"
    BY <1>1, <2>1 DEF Step, Jobs
  <2> QED BY <1>4, <1>10, <1>14, <2>1 DEF Rename, history, Pcs
<1>15. CASE Open(i) \/ Write(i) \/ Place(i) \/ UnlinkInstalled(i) \/ LinkInstalled(i)
  BY <1>4, <1>10, <1>15 DEF Open, Write, Place, UnlinkInstalled, LinkInstalled, history, Pcs
<1> QED BY <1>5, <1>6, <1>7, <1>8, <1>11, <1>12, <1>13, <1>14, <1>15 DEF Work

LEMMA WorkAccount ==
    ASSUME AccountInv, RepeatInv', NEW i \in Procs, Work(i) \/ Crash(i)
    PROVE  AccountInv'
<1>1. Active(i) /\ \A m \in Procs \ {i} : proc'[m].pc = "idle"
  BY WorkOf, WorkAlone DEF AccountInv, RepeatInv
<1>2. PICK j, k : j = proc[i] /\ k = proc'[i]
  OBVIOUS
<1>3. /\ j \in Jobs /\ j.ver \in Versions /\ JobOK(j) /\ RunInv(j) /\ AccountJob(j)
      /\ TypeInv /\ TypeInv' /\ SteadySys /\ torn \in BOOLEAN /\ current \in Versions \cup {NoVersion}
  BY <1>1, <1>2, ActiveJob DEF AccountInv, RepeatInv, RunsInv, Active, TypeInv, TypeOK
<1>4. CASE k.pc # "idle"
  <2>1. Moves(j, k) /\ torn' = torn
    BY <1>2, <1>3, <1>4, WorkMoves, EndsHow
  <2>2. RunInv(k)'
    <3>1. RunInv(proc[i])'
      BY <1>2, <1>4 DEF RepeatInv, RunsInv, Active
    <3> QED BY <1>2, <3>1 DEF RunInv, Doing, PackedAt, Content
  <2>3. SteadySys' /\ AccountJob(k)'
    BY <1>3, <2>1, <2>2, MoveAccount
  <2> QED BY <1>1, <1>2, <1>4, <2>3, OnlyAccount
<1>5. CASE k.pc = "idle"
  <2>1. UNCHANGED <<sys, store>>
    BY <1>2, <1>3, <1>5, EndsQuietly
  <2>2. ASSUME ~torn' PROVE Linked({})' /\ (current' # NoVersion => AccountedAt(current)')
    <3>1. CASE j.pc = "dry" /\ torn' = torn /\ current' = current
      <4>1. Busy(j) = {} /\ Linked(Busy(j)) /\ (current # NoVersion => AccountedAt(current))
        BY <1>3, <2>2, <3>1 DEF AccountJob, Busy, Calls
      <4>2. PICK v : v = current /\ v = current'
        BY <3>1
      <4>3. v # NoVersion => AccountedAt(v)'
        BY <1>3, <2>1, <4>1, <4>2, QuietAccount
      <4> QED BY <2>1, <4>1, <4>2, <4>3, QuietAccount DEF AccountedAt, Stored, Chained
    <3>2. CASE j.pc = "setCurrent" /\ ~torn /\ Sound(j) /\ current' = j.ver
      <4>1. Busy(j) = {} /\ Linked(Busy(j)) /\ Listed(j) /\ j.todo = {} /\ ~j.bad
        BY <1>3, <3>2 DEF AccountJob, Busy, Calls, RunInv, Sound
      <4>2. AccountedAt(j.ver)
        BY <1>3, <4>1, EndAccounted
      <4>3. PICK v \in Versions : v = j.ver /\ v = current'
        BY <1>3, <3>2
      <4>4. AccountedAt(v)'
        BY <2>1, <4>2, <4>3, QuietAccount
      <4> QED BY <2>1, <4>1, <4>3, <4>4, QuietAccount DEF AccountedAt, Stored, Chained
    <3> QED BY <1>2, <1>3, <1>5, <2>2, <3>1, <3>2, EndsHow
  <2> QED BY <1>1, <1>2, <1>3, <1>5, <2>1, <2>2, QuietAccount, OnlyAccount
<1> QED BY <1>4, <1>5

LEMMA BuildAccount ==
    ASSUME SteadyOwners, AccountInv, RepeatInv', NEW b \in Builds, Build(b)
    PROVE  AccountInv'
<1>1. /\ AllIdle /\ UNCHANGED <<store, proc, torn, current>> /\ SteadySys
      /\ sys' = [x \in Paths |-> IF x \in DOMAIN b THEN b[x] ELSE sys[x]]
      /\ current \in Versions \cup {NoVersion}
  BY DEF Build, AccountInv, RepeatInv, RunsInv, TypeInv, TypeOK
<1>2. /\ DOMAIN b \subseteq Paths
      /\ \A x \in DOMAIN b : b[x].is \notin StoreFiles /\ b[x].kind # "none"
      /\ \A x \in DOMAIN b : b[x].kind = "dir" => (b[x].mine = "no" <=> x \in Foreign)
  <2>1. \A x \in DOMAIN b : b[x].kind = "dir" /\ b[x].mine = "no" /\ x \in Paths => x \in Foreign
    BY DEF Foreign
  <2> QED BY <2>1, BuildsAssumption DEF SteadyOwners
<1>3. \A x \in Paths : sys'[x] = IF x \in DOMAIN b THEN b[x] ELSE sys[x]
  BY <1>1
<1>4. SteadySys'
  BY <1>1, <1>2, <1>3 DEF SteadySys
<1>5. ASSUME ~torn PROVE Linked({})' /\ (current # NoVersion => AccountedAt(current))'
  <2>1. Linked({}) /\ (current # NoVersion => AccountedAt(current))
    BY <1>1, <1>5 DEF AccountInv
  <2>2. Linked({})'
    BY <1>1, <1>2, <1>3, <2>1 DEF Linked, Stored
  <2>3. ASSUME NEW v \in Versions, AccountedAt(v) PROVE AccountedAt(v)'
    <3>1. ASSUME NEW x \in Paths \ Ignored, ~Chained(x)'
          PROVE  /\ Stored(x)' => \/ store[v][x].kind = "link" /\ store[v][x].is = sys'[x].is
                                  \/ store[v][x].kind = "reg" /\ sys'[x].is = <<v, x>>
                 /\ store[v][x].kind = "reg" =>
                      /\ sys'[x].kind # "none"
                      /\ sys'[x].is \in StoreFiles => sys'[x].is = <<v, x>>
      <4>1. CASE x \in DOMAIN b
        BY <1>2, <1>3, <4>1 DEF Stored
      <4>2. CASE x \notin DOMAIN b
        <5>1. sys'[x] = sys[x] /\ ~Chained(x)
          BY <1>1, <1>3, <3>1, <4>2 DEF Chained
        <5> QED BY <2>3, <3>1, <5>1 DEF AccountedAt, Stored
      <4> QED BY <4>1, <4>2
    <3> QED BY <1>1, <3>1 DEF AccountedAt, Stored
  <2>4. PICK v : v = current /\ v = current'
    BY <1>1
  <2>5. v # NoVersion => AccountedAt(v)'
    BY <1>1, <2>1, <2>3, <2>4
  <2> QED BY <2>2, <2>4, <2>5 DEF AccountedAt, Stored, Chained
<1>6. \A m \in Procs : ~Active(m)'
  BY <1>1 DEF AllIdle, Active
<1> QED BY <1>1, <1>4, <1>5, <1>6 DEF AccountInv

LEMMA PackAccount ==
    ASSUME OneAtATime, AccountInv, RepeatInv', NEW i \in Procs, NEW v \in Versions,
           NEW as \in {"yes", "no"}, NEW f \in FlagSets[as], Pack(i, v, as, f), proc' # proc
    PROVE  AccountInv'
<1>1. PICK list :
        /\ Step(i, [IdleJob EXCEPT !.pc = "dry", !.ver = v, !.as = as, !.flags = f,
                  !.list = list, !.todo = list, !.bad = "cache" \in f /\ cache # {},
                  !.seen = [x \in Paths |-> IF x \in list THEN sys[x] ELSE Absent]])
        /\ ~("cache" \in f /\ cache # {}) => list = Found(sys, f)
  BY DEF Pack
<1>2. PICK k : k = proc'[i]
  OBVIOUS
<1>3. /\ k.pc = "dry" /\ k.todo = list /\ k.list = list /\ k.flags = f
      /\ k.bad = ("cache" \in f /\ cache # {})
      /\ k.seen = [x \in Paths |-> IF x \in list THEN sys[x] ELSE Absent]
      /\ \A m \in Procs \ {i} : proc'[m] = proc[m]
  BY <1>1, <1>2, IdleJobType DEF Step, AccountInv, RepeatInv, RunsInv, TypeInv, TypeOK, Jobs
<1>4. UNCHANGED <<sys, store, torn, current>> /\ AllIdle /\ \A m \in Procs \ {i} : proc'[m].pc = "idle"
  BY <1>3 DEF Pack, AllIdle, Active
<1>5. TypeInv /\ WellGrown /\ SteadySys /\ (~torn => Linked({}) /\ (current # NoVersion => AccountedAt(current)))
      /\ current \in Versions \cup {NoVersion}
  BY <1>4 DEF AccountInv, RepeatInv, RunsInv, TypeInv, TypeOK
<1>6. ASSUME ~torn, Sound(k) PROVE Listed(k)'
  <2>1. k.list = Found(sys, f) /\ "installDevice" \notin f /\ \A x \in k.list : x \in Paths /\ k.seen[x] = sys[x]
    <3>1. ~("cache" \in f /\ cache # {}) /\ "installDevice" \notin f
      BY <1>3, <1>6 DEF Sound
    <3>2. k.list = Found(sys, f) /\ k.list \subseteq Paths
      BY <1>1, <1>3, <3>1, FoundType
    <3> QED BY <1>3, <3>1, <3>2
  <2>2. Listed(k)
    BY <1>5, <1>6, <2>1, StartListed
  <2> QED BY <1>4, <2>2, QuietAccount
<1>7. AccountJob(k)'
  <2>1. Busy(k) = {}
    BY <1>3 DEF Busy, Calls
  <2>2. ~torn => Linked(Busy(k))'
    BY <1>4, <1>5, <2>1, QuietAccount DEF Linked, Stored
  <2>3. PICK w : w = current /\ w = current'
    BY <1>4
  <2>4. ~torn /\ w # NoVersion => AccountedAt(w)'
    BY <1>4, <1>5, <2>3, QuietAccount
  <2> QED BY <1>3, <1>4, <1>6, <2>2, <2>3, <2>4
          DEF AccountJob, Sound, AccountedAt, Stored, Chained
<1> QED BY <1>2, <1>3, <1>4, <1>5, <1>7, QuietAccount, OnlyAccount

LEMMA AccountStep == ASSUME OneAtATime, SteadyOwners, AccountInv, [Next]_vars PROVE AccountInv'
<1>1. RepeatInv'
  BY RepeatStep DEF AccountInv
<1>2. CASE Quiet
  <2>1. UNCHANGED <<sys, store, proc, torn, current>>
    BY <1>2 DEF Quiet
  <2>2. SteadySys' /\ (Linked({}) => Linked({})')
    BY <2>1, QuietAccount DEF AccountInv
  <2>3. ASSUME NEW m \in Procs, Active(m)' PROVE AccountJob(proc[m])'
    <3>1. AccountJob(proc[m])
      BY <2>1, <2>3 DEF AccountInv, Active
    <3> QED BY <2>1, <3>1 DEF AccountJob, Sound, Linked, Busy, Listed, Stored, AccountedAt, Chained
  <2>4. (current # NoVersion => AccountedAt(current)) => (current # NoVersion => AccountedAt(current))'
    BY <2>1 DEF AccountedAt, Stored, Chained
  <2> QED BY <1>1, <2>1, <2>2, <2>3, <2>4 DEF AccountInv, AllIdle, Active
<1>3. ASSUME NEW b \in Builds, Build(b) PROVE AccountInv'
  BY <1>1, <1>3, BuildAccount
<1>4. ASSUME NEW i \in Procs, NEW v \in Versions, NEW as \in {"yes", "no"},
             NEW f \in FlagSets[as], Pack(i, v, as, f), proc' # proc
      PROVE  AccountInv'
  BY <1>1, <1>4, PackAccount
<1>5. ASSUME NEW i \in Procs, Work(i) \/ Crash(i) PROVE AccountInv'
  BY <1>1, <1>5, WorkAccount
<1> QED BY <1>2, <1>3, <1>4, <1>5, QuietSteps DEF Next

LEMMA AccountInit == ASSUME SteadyOwners PROVE Init => AccountInv
<1>1. ASSUME Init PROVE AccountInv
  <2>1. RepeatInv /\ (\A i \in Procs : ~Active(i)) /\ sys = InitialTree /\ current = NoVersion
    BY <1>1, RepeatInit, IdleJobType DEF Init, Active
  <2>2. ASSUME NEW x \in Paths
        PROVE  /\ sys[x].is \notin StoreFiles
               /\ sys[x].kind = "dir" => (sys[x].mine = "no" <=> x \in Foreign)
               /\ \A v \in Versions : store[v][x].kind = "none"
    <3>1. sys[x].is \notin StoreFiles
      BY <2>1, BuildsAssumption
    <3>2. sys[x].kind = "dir" => (sys[x].mine = "no" <=> x \in Foreign)
      BY <2>1 DEF SteadyOwners, Foreign
    <3>3. \A v \in Versions : store[v][x].kind = "none"
      BY <1>1 DEF Init, Absent
    <3> QED BY <3>1, <3>2, <3>3
  <2>3. SteadySys /\ Linked({})
    BY <2>2 DEF SteadySys, Linked, Stored
  <2> QED BY <2>1, <2>3 DEF AccountInv
<1> QED BY <1>1

\* With one --pack at a time and builds that remove nothing and leave directories
\* with their owners: when Current is set and no run was cut short or skipped an error,
\* every link of the package that a walk through the install directories finds is one
\* of the current version, and every file of that version is linked or was built anew.
THEOREM PackAccounts == ASSUME OneAtATime, SteadyOwners PROVE Spec => []Accounted
<1>1. AccountInv => Accounted
  <2>1. SUFFICES ASSUME AccountInv, current # NoVersion, ~torn, AllIdle PROVE Accounted
    BY DEF Accounted
  <2>2. AccountedAt(current)
    BY <2>1 DEF AccountInv
  <2> QED BY <2>2 DEF Accounted, AccountedAt, Stored
<1> QED BY <1>1, AccountInit, AccountStep, PTL DEF Spec
=============================================================================
