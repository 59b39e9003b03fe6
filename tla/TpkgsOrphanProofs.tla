------------------------- MODULE TpkgsOrphanProofs -------------------------
(***************************************************************************)
(* Proof that no link is orphaned: OrphanInv is inductive, provided no two *)
(* operators work on one package, --uninstall is not given --bypass and    *)
(* uninstalls ignore no more than installs.  On top of that, for one run   *)
(* at a time: FoldersInv, and what directories an uninstall leaves.        *)
(***************************************************************************)
EXTENDS TpkgsProofs

Disciplined == OnePerPackage /\ UninstallsCurrent /\ ConfigAgrees

\* What a step has to show of the one process it moves, on package p, when k
\* is its next state and t, cur and trn are the next tree, Current links and
\* torn versions.
StepOK(p, k, t, cur, trn) ==
    /\ k.pc # "idle" => k.pkg = p /\ JobOK(k, cur) /\ UninstallDone(k, t)
    /\ \A q \in Packages \ {p} : cur[q] = current[q] /\ trn[q] = torn[q]
    /\ \A x \in Paths :
         /\ LinkOK(t, x)
         /\ t[x].to \in StoreFiles /\ t[x].to[1] # p => t[x].to = fs[x].to
         /\ t[x].to \in StoreFiles /\ t[x].to[1] = p =>
              \/ cur[p] = t[x].to[2]
              \/ t[x].to[2] \in trn[p]
              \/ k.pc # "idle" /\ k.ver = t[x].to[2] /\ k.pass # "dry"

\* The processes on other packages keep what they have.
LEMMA Frame ==
    ASSUME OrphanInv, TypeOK', NEW i \in Procs, NEW p \in Packages, NEW k \in Jobs,
           Active(i) => proc[i].pkg = p,
           \A m \in Procs \ {i} : Active(m) => proc[m].pkg # p,
           proc' = [proc EXCEPT ![i] = k],
           StepOK(p, k, fs', current', torn')
    PROVE  OrphanInv'
<1> USE DEF OrphanInv
<1>1. proc'[i] = k /\ \A m \in Procs \ {i} : proc'[m] = proc[m]
  BY DEF TypeOK
<1>2. Exclusive'
  BY <1>1 DEF Exclusive, Active, StepOK
<1>3. \A m \in Procs \ {i} : Active(m) => proc[m].pkg \in Packages \ {p}
  BY DEF TypeOK, Jobs
<1>4. JobsOK'
  <2> SUFFICES ASSUME NEW m \in Procs, Active(m)' PROVE JobOK(proc'[m], current')
    BY DEF JobsOK
  <2>1. CASE m = i
    BY <2>1, <1>1 DEF StepOK, Active
  <2>2. CASE m # i
    <3>1. proc'[m] = proc[m] /\ Active(m) /\ current'[proc[m].pkg] = current[proc[m].pkg]
      BY <2>2, <1>1, <1>3 DEF StepOK, Active
    <3>2. JobOK(proc[m], current)
      BY <3>1 DEF JobsOK
    <3> QED BY <3>1, <3>2 DEF JobOK
  <2> QED BY <2>1, <2>2
<1>5. LinksOK'
  BY DEF LinksOK, StepOK
<1>6. UninstallsDone'
  <2> SUFFICES ASSUME NEW m \in Procs, Active(m)' PROVE UninstallDone(proc'[m], fs')
    BY DEF UninstallsDone
  <2>1. CASE m = i
    BY <2>1, <1>1 DEF StepOK, Active
  <2>2. CASE m # i
    <3>1. proc'[m] = proc[m] /\ Active(m)
      BY <2>2, <1>1 DEF Active
    <3>2. UninstallDone(proc[m], fs)
      BY <3>1 DEF UninstallsDone
    <3>3. proc[m].pkg \in Packages \ {p} /\ proc[m].ver \in Versions
      BY <3>1, <2>2, <1>3 DEF TypeOK, Jobs
    <3>4. ASSUME NEW x \in Paths, fs'[x].to = <<proc[m].pkg, proc[m].ver, x>>
          PROVE  fs[x].to = <<proc[m].pkg, proc[m].ver, x>>
      <4>1. fs'[x].to \in StoreFiles /\ fs'[x].to[1] # p
        BY <3>3, <3>4 DEF StoreFiles
      <4> QED BY <4>1, <3>4 DEF StepOK
    <3> QED BY <3>1, <3>2, <3>4 DEF UninstallDone
  <2> QED BY <2>1, <2>2
<1>7. AllAccounted'
  <2> SUFFICES ASSUME NEW x \in Paths, fs'[x].to \in StoreFiles
               PROVE  \/ current'[fs'[x].to[1]] = fs'[x].to[2]
                      \/ fs'[x].to[2] \in torn'[fs'[x].to[1]]
                      \/ Writing(fs[x].to[1], fs[x].to[2])'
    BY DEF AllAccounted
  <2>0. fs'[x].to[1] \in Packages /\ fs'[x].to[2] \in Versions
    BY DEF StoreFiles
  <2>1. CASE fs'[x].to[1] = p
    <3>1. k.pc # "idle" => k.pkg = p
      BY DEF StepOK
    <3> QED BY <2>1, <3>1, <1>1 DEF StepOK, Writing, Active
  <2>2. CASE fs'[x].to[1] # p
    <3>1. fs'[x].to = fs[x].to
      BY <2>2 DEF StepOK
    <3>2. /\ current'[fs[x].to[1]] = current[fs[x].to[1]]
          /\ torn'[fs[x].to[1]] = torn[fs[x].to[1]]
      BY <2>0, <2>2, <3>1 DEF StepOK
    <3>3. ASSUME Writing(fs[x].to[1], fs[x].to[2])
          PROVE  Writing(fs[x].to[1], fs[x].to[2])'
      <4>1. PICK m \in Procs : /\ Active(m) /\ proc[m].pkg = fs[x].to[1]
                               /\ proc[m].ver = fs[x].to[2] /\ proc[m].pass # "dry"
        BY <3>3 DEF Writing
      <4>2. m # i
        BY <4>1, <2>2, <3>1
      <4> QED BY <4>1, <4>2, <3>1, <1>1 DEF Writing, Active
    <3> QED BY <3>1, <3>2, <3>3 DEF AllAccounted
  <2> QED BY <2>1, <2>2
<1> QED BY <1>2, <1>4, <1>5, <1>6, <1>7

\* The links of the package of an active process.
LEMMA OwnLinks ==
    ASSUME OrphanInv, NEW i \in Procs, Active(i), NEW x \in Paths,
           fs[x].to \in StoreFiles, fs[x].to[1] = proc[i].pkg
    PROVE  \/ current[proc[i].pkg] = fs[x].to[2]
           \/ fs[x].to[2] \in torn[proc[i].pkg]
           \/ proc[i].ver = fs[x].to[2] /\ proc[i].pass # "dry"
<1>1. CASE Writing(fs[x].to[1], fs[x].to[2])
  <2> PICK m \in Procs : /\ Active(m) /\ proc[m].pkg = fs[x].to[1]
                         /\ proc[m].ver = fs[x].to[2] /\ proc[m].pass # "dry"
    BY <1>1 DEF Writing
  <2>1. m = i
    BY DEF OrphanInv, Exclusive
  <2> QED BY <2>1
<1>2. CASE ~Writing(fs[x].to[1], fs[x].to[2])
  BY <1>2 DEF OrphanInv, AllAccounted
<1> QED BY <1>1, <1>2

\* A step of an active process that only changes the process.
LEMMA OnlyProc ==
    ASSUME OrphanInv, NEW i \in Procs, Active(i), NEW k \in Jobs,
           k.pc # "idle", k.pkg = proc[i].pkg, k.ver = proc[i].ver,
           proc[i].pass # "dry" => k.pass # "dry",
           JobOK(k, current), UninstallDone(k, fs)
    PROVE  StepOK(proc[i].pkg, k, fs, current, torn)
BY OwnLinks DEF StepOK, OrphanInv, LinksOK

\* An uninstall ignores no path of a link of its version, so an item it finds
\* nothing to do for has no link.
LEMMA FineIsGone ==
    ASSUME ConfigAgrees, OrphanInv, NEW j \in Jobs, j.act = "uninstall",
           NEW x \in Paths, Due(j, x) = "fine"
    PROVE  fs[x].to # <<j.pkg, j.ver, x>>
<1> SUFFICES ASSUME fs[x].to = <<j.pkg, j.ver, x>> PROVE FALSE
  OBVIOUS
<1>1. j.pkg \in Packages /\ j.ver \in Versions /\ j.as \in Users
  BY DEF Jobs
<1>2. fs[x].to \in StoreFiles
  BY <1>1 DEF StoreFiles
<1>3. LinkOK(fs, x)
  BY DEF OrphanInv, LinksOK
<1>4. /\ fs[x].kind = "link" /\ Kind[j.pkg][j.ver][x] = "reg"
      /\ \E u \in Users : x \notin Ignored[u][j.pkg][NoVersion]
  BY <1>1, <1>2, <1>3 DEF LinkOK
<1>5. ~Skips(j, x)
  BY <1>1, <1>4 DEF Skips, Ignore, ConfigOf, ConfigAgrees
<1>6. IsLink(fs, x) /\ RightLink(j, x) /\ ~Vacant(x)
  BY <1>4 DEF IsLink, RightLink, LinkContent, Vacant
<1>7. Due(j, x) = UninstallLink(j, x)
  BY <1>4, <1>5 DEF Due
<1>8. UninstallLink(j, x) \in {"remove", "error"}
  BY <1>6 DEF UninstallLink
<1> QED BY <1>7, <1>8

\* What a system call is due for.
LEMMA DueFacts ==
    ASSUME NEW j \in Jobs, NEW x \in Items(j.pkg, j.ver)
    PROVE  /\ Due(j, x) = "mkdir" => j.act = "install" /\ Kind[j.pkg][j.ver][x] = "dir"
           /\ Due(j, x) = "rmdir" => j.act = "uninstall" /\ Kind[j.pkg][j.ver][x] = "dir"
           /\ Due(j, x) = "symlink" => j.act = "install"
           /\ Due(j, x) \in {"remove", "symlink"} =>
                /\ Kind[j.pkg][j.ver][x] \in {"link", "reg"}
                /\ j.act = "install" => x \notin Ignored[j.as][j.pkg][NoVersion]
<1>1. /\ j.pkg \in Packages /\ j.ver \in Versions /\ x \in Paths
      /\ j.act \in {"install", "uninstall"}
  BY DEF Jobs, Acts, Items
<1>2. Kind[j.pkg][j.ver][x] \in {"dir", "link", "reg", "other"}
  BY <1>1, StoreAssumption DEF Items
<1>3. InstallDirectory(x) \in {"fine", "mkdir", "error"}
  BY DEF InstallDirectory
<1>4. UninstallDirectory(j, x) \in {"fine", "rmdir", "error"}
  BY DEF UninstallDirectory
<1>5. InstallLink(j, x) \in {"fine", "remove", "symlink", "error"}
  BY DEF InstallLink, Vacant
<1>6. UninstallLink(j, x) \in {"fine", "remove", "error"}
  BY DEF UninstallLink, Vacant
<1>7. CASE Skips(j, x)
  BY <1>7 DEF Due
<1>8. CASE ~Skips(j, x)
  <2>1. j.act = "install" => x \notin Ignored[j.as][j.pkg][NoVersion]
    BY <1>8 DEF Skips, Ignore, ConfigOf
  <2>2. CASE Kind[j.pkg][j.ver][x] = "other"
    BY <1>8, <2>2 DEF Due
  <2>3. CASE Kind[j.pkg][j.ver][x] = "dir"
    BY <1>1, <1>3, <1>4, <1>8, <2>3 DEF Due
  <2>4. CASE Kind[j.pkg][j.ver][x] \in {"link", "reg"}
    BY <1>1, <1>5, <1>6, <1>8, <2>1, <2>4 DEF Due
  <2> QED BY <1>2, <2>2, <2>3, <2>4
<1> QED BY <1>7, <1>8

-----------------------------------------------------------------------------
(* Every step keeps the invariant                                            *)

\* A new run starts with a dry run.
LEMMA CommandStep ==
    ASSUME Disciplined, OrphanInv, TypeOK', NEW i \in Procs, Command(i)
    PROVE  OrphanInv'
<1> PICK p \in Packages, v \in Versions, u \in Users :
       \/ \E f \in FlagSets["install"] : Install(i, p, v, u, f)
       \/ \E f \in FlagSets["uninstall"] : Uninstall(i, p, v, u, f)
  BY DEF Command
<1> USE DEF OrphanInv
<1>1. /\ ~Active(i) /\ UNCHANGED <<fs, current, torn>> /\ u \in {p, RootUser}
      /\ \A m \in Procs \ {i} : Active(m) => proc[m].pkg # p
  BY DEF Install, Uninstall, Free, Disciplined
<1>2. \A x \in Paths : fs[x].to \in StoreFiles /\ fs[x].to[1] = p =>
         current[p] = fs[x].to[2] \/ fs[x].to[2] \in torn[p]
  <2> SUFFICES ASSUME NEW x \in Paths, fs[x].to \in StoreFiles, fs[x].to[1] = p
               PROVE  current[p] = fs[x].to[2] \/ fs[x].to[2] \in torn[p]
    OBVIOUS
  <2>1. ~Writing(fs[x].to[1], fs[x].to[2])
    BY <1>1 DEF Writing
  <2> QED BY <2>1 DEF AllAccounted
<1>3. ASSUME NEW k \in Jobs, Step(i, k), k.pkg = p, k.pass = "dry", JobOK(k, current)
      PROVE  OrphanInv'
  <2>1. UninstallDone(k, fs)
    BY <1>3 DEF UninstallDone
  <2>2. StepOK(p, k, fs', current', torn')
    BY <1>1, <1>2, <1>3, <2>1 DEF StepOK, LinksOK
  <2> QED BY <1>1, <1>3, <2>2, Frame DEF Step
<1>4. ASSUME NEW a \in Acts, NEW w \in Versions, NEW n \in Versions \cup {NoVersion},
             NEW f \in SUBSET Flags, current[p] = IF a = "install" THEN NoVersion ELSE w,
             Step(i, NewJob(a, p, w, n, u, f))
      PROVE  OrphanInv'
  <2>1. NewJob(a, p, w, n, u, f) \in Jobs
    BY NewJobType
  <2>2. JobOK(NewJob(a, p, w, n, u, f), current)
    BY <1>1, <1>4 DEF JobOK, NewJob, Acts
  <2>3. NewJob(a, p, w, n, u, f).pkg = p /\ NewJob(a, p, w, n, u, f).pass = "dry"
    BY DEF NewJob
  <2> QED BY <1>3, <1>4, <2>1, <2>2, <2>3
<1>5. ASSUME NEW f \in FlagSets["install"], Install(i, p, v, u, f) PROVE OrphanInv'
  <2>1. f \in SUBSET Flags /\ "install" \in Acts /\ "uninstall" \in Acts
    BY FlagAssumption DEF Acts
  <2>2. current[p] \in Versions \cup {NoVersion}
    BY DEF TypeOK
  <2>3. CASE current[p] = NoVersion
    BY <1>4, <1>5, <2>1, <2>3 DEF Install
  <2>4. CASE current[p] # NoVersion
    BY <1>4, <1>5, <2>1, <2>2, <2>4 DEF Install
  <2> QED BY <2>3, <2>4
<1>6. ASSUME NEW f \in FlagSets["uninstall"], Uninstall(i, p, v, u, f) PROVE OrphanInv'
  <2>1. f \in SUBSET Flags /\ "uninstall" \in Acts
    BY FlagAssumption DEF Acts
  <2>2. current[p] = v
    BY <1>6 DEF Uninstall, Disciplined, UninstallsCurrent
  <2> QED BY <1>4, <1>6, <2>1, <2>2 DEF Uninstall
<1> QED BY <1>5, <1>6

\* A run stops: what it leaves behind is accounted for.
LEMMA StopStep ==
    ASSUME OrphanInv, TypeOK', NEW i \in Procs, Active(i), Step(i, IdleJob), fs' = fs,
           \A q \in Packages \ {proc[i].pkg} : current'[q] = current[q] /\ torn'[q] = torn[q],
           \A x \in Paths :
              fs[x].to \in StoreFiles /\ fs[x].to[1] = proc[i].pkg =>
                 \/ current'[proc[i].pkg] = fs[x].to[2]
                 \/ fs[x].to[2] \in torn'[proc[i].pkg]
    PROVE  OrphanInv'
<1>1. proc[i].pkg \in Packages
  BY DEF OrphanInv, TypeOK, Jobs
<1>2. \A m \in Procs \ {i} : Active(m) => proc[m].pkg # proc[i].pkg
  BY DEF OrphanInv, Exclusive
<1>3. StepOK(proc[i].pkg, IdleJob, fs', current', torn')
  BY IdleJobType DEF StepOK, OrphanInv, LinksOK
<1> QED BY <1>1, <1>2, <1>3, IdleJobType, Frame DEF Step

\* An aborted run marks its version, unless it was still in its dry run.
LEMMA AbortStep ==
    ASSUME OrphanInv, TypeOK', NEW i \in Procs, Active(i), Step(i, IdleJob),
           UNCHANGED <<fs, current>>,
           MarkTorn(proc[i]) \/ (proc[i].pass = "dry" /\ UNCHANGED torn)
    PROVE  OrphanInv'
<1>1. proc[i].pkg \in Packages /\ torn \in [Packages -> SUBSET Versions]
  BY DEF OrphanInv, TypeOK, Jobs
<1>2. \A q \in Packages \ {proc[i].pkg} : current'[q] = current[q] /\ torn'[q] = torn[q]
  BY <1>1 DEF MarkTorn
<1>3. torn[proc[i].pkg] \subseteq torn'[proc[i].pkg]
  BY <1>1 DEF MarkTorn
<1>4. proc[i].pass # "dry" => proc[i].ver \in torn'[proc[i].pkg]
  BY <1>1 DEF MarkTorn
<1> QED BY <1>2, <1>3, <1>4, OwnLinks, StopStep

\* An item is done with, or its error is skipped.
LEMMA PassedOK ==
    ASSUME NEW j \in Jobs, NEW x \in Paths, JobOK(j, current), NEW b \in BOOLEAN, NEW e \in BOOLEAN,
           j.act = "install" \/ j.pc \in {"item", "remove", "rmdir"},
           NEW k, k = [Passed(j, x) EXCEPT !.bad = b, !.err = e]
    PROVE  k \in Jobs /\ JobOK(k, current)
<1>1. Passed(j, x) \in Jobs
  BY PassedType
<1>2. k \in Jobs
  BY <1>1 DEF Jobs
<1>3. JobOK(k, current)
  BY DEF JobOK, Passed, Jobs
<1> QED BY <1>2, <1>3

\* A step of an active process that keeps Current and the torn versions and adds
\* to the tree no links but its own.
LEMMA MoveStep ==
    ASSUME OrphanInv, TypeOK', NEW i \in Procs, Active(i), NEW k \in Jobs, Step(i, k),
           UNCHANGED <<current, torn>>,
           k.pc # "idle", k.pkg = proc[i].pkg, k.ver = proc[i].ver,
           proc[i].pass # "dry" => k.pass # "dry",
           JobOK(k, current), UninstallDone(k, fs'),
           \A x \in Paths :
              fs'[x].to \in StoreFiles =>
                 /\ LinkOK(fs', x)
                 /\ \/ fs'[x].to = fs[x].to
                    \/ /\ fs'[x].to[1] = k.pkg /\ fs'[x].to[2] = k.ver
                       /\ k.pass # "dry"
    PROVE  OrphanInv'
<1>1. proc[i].pkg \in Packages
  BY DEF OrphanInv, TypeOK, Jobs
<1>2. \A m \in Procs \ {i} : Active(m) => proc[m].pkg # proc[i].pkg
  BY DEF OrphanInv, Exclusive
<1>3. ASSUME NEW x \in Paths
      PROVE  /\ LinkOK(fs', x)
             /\ fs'[x].to \in StoreFiles /\ fs'[x].to[1] # proc[i].pkg => fs'[x].to = fs[x].to
             /\ fs'[x].to \in StoreFiles /\ fs'[x].to[1] = proc[i].pkg =>
                  \/ current'[proc[i].pkg] = fs'[x].to[2]
                  \/ fs'[x].to[2] \in torn'[proc[i].pkg]
                  \/ k.pc # "idle" /\ k.ver = fs'[x].to[2] /\ k.pass # "dry"
  <2>1. CASE fs'[x].to \notin StoreFiles
    BY <2>1 DEF LinkOK
  <2>2. CASE fs'[x].to \in StoreFiles /\ fs'[x].to = fs[x].to
    BY <2>2, OwnLinks
  <2>3. CASE fs'[x].to \in StoreFiles /\ fs'[x].to # fs[x].to
    BY <2>3
  <2> QED BY <2>1, <2>2, <2>3
<1>4. StepOK(proc[i].pkg, k, fs', current', torn')
  BY <1>3 DEF StepOK
<1> QED BY <1>1, <1>2, <1>4, Frame DEF Step

\* The same when the tree is unchanged.
LEMMA QuietStep ==
    ASSUME OrphanInv, TypeOK', NEW i \in Procs, Active(i), NEW k \in Jobs, Step(i, k),
           UNCHANGED <<fs, current, torn>>,
           k.pc # "idle", k.pkg = proc[i].pkg, k.ver = proc[i].ver,
           proc[i].pass # "dry" => k.pass # "dry",
           JobOK(k, current), UninstallDone(k, fs)
    PROVE  OrphanInv'
<1>1. \A x \in Paths : LinkOK(fs, x)
  BY DEF OrphanInv, LinksOK
<1> QED BY <1>1, MoveStep

\* What the invariant says of an active process.
LEMMA ActiveJob ==
    ASSUME OrphanInv, NEW i \in Procs, Active(i)
    PROVE  /\ proc[i] \in Jobs /\ JobOK(proc[i], current) /\ UninstallDone(proc[i], fs)
           /\ proc[i].pc # "idle"
           /\ proc[i].pkg \in Packages /\ proc[i].ver \in Versions /\ proc[i].at \in Paths
           /\ proc[i].bad \in BOOLEAN /\ proc[i].err \in BOOLEAN /\ proc[i].as \in Users
BY DEF OrphanInv, TypeOK, JobsOK, UninstallsDone, Jobs, Active

\* An error that is skipped, or that ends the run.
LEMMA RaiseStep ==
    ASSUME OrphanInv, TypeOK', NEW i \in Procs, Active(i), NEW x \in Paths,
           proc[i].pass # "dry",
           proc[i].act = "install" \/ proc[i].pc \in {"item", "remove", "rmdir"},
           Raise(i, x)
    PROVE  OrphanInv'
<1> DEFINE j == proc[i]
           k == [Passed(j, x) EXCEPT !.bad = @ \/ j.pass = "real"]
<1>1. /\ j \in Jobs /\ JobOK(j, current) /\ UninstallDone(j, fs) /\ j.bad \in BOOLEAN
      /\ j.err \in BOOLEAN
  BY ActiveJob
<1>2. CASE Tolerant(j) /\ Step(i, k) /\ UNCHANGED torn
  <2>1. k = [Passed(j, x) EXCEPT !.bad = j.bad \/ j.pass = "real", !.err = j.err]
    BY <1>1 DEF Passed, Jobs
  <2>2. /\ k.pc = "item" /\ k.pkg = j.pkg /\ k.ver = j.ver /\ k.pass = j.pass
        /\ k.act = j.act /\ k.bad = (j.bad \/ j.pass = "real")
    BY <1>1 DEF Passed, Jobs
  <2> HIDE DEF k
  <2>3. k \in Jobs /\ JobOK(k, current)
    BY <1>1, <2>1, PassedOK
  <2>4. UninstallDone(k, fs)
    BY <1>1, <2>2 DEF UninstallDone
  <2> QED BY <1>2, <2>2, <2>3, <2>4, QuietStep DEF Raise
<1>3. CASE ~Tolerant(j) /\ Step(i, IdleJob) /\ MarkTorn(j)
  BY <1>3, AbortStep DEF Raise
<1> QED BY <1>2, <1>3 DEF Raise

\* The steps of a run that leave the tree and Current alone.
LEMMA ItemSteps ==
    ASSUME Disciplined, OrphanInv, TypeOK', NEW i \in Procs,
           DryItem(i) \/ DryStop(i) \/ DryEnd(i) \/ RealItem(i) \/ RealEnd(i)
    PROVE  OrphanInv'
<1> DEFINE j == proc[i]
<1>0. Active(i) /\ j.pc = "item"
  BY DEF DryItem, DryStop, DryEnd, RealItem, RealEnd, Active
<1>1. /\ j \in Jobs /\ JobOK(j, current) /\ UninstallDone(j, fs)
      /\ j.pkg \in Packages /\ j.ver \in Versions
      /\ j.bad \in BOOLEAN /\ j.err \in BOOLEAN
  BY <1>0, ActiveJob
<1>2. ASSUME DryItem(i) PROVE OrphanInv'
  <2>1. PICK x \in Ready(j) :
           Step(i, [Passed(j, x) EXCEPT !.err = @ \/ Due(j, x) = "error"])
    BY <1>2 DEF DryItem
  <2> DEFINE k == [Passed(j, x) EXCEPT !.err = @ \/ Due(j, x) = "error"]
  <2>2. x \in Paths
    BY <1>1 DEF Ready, Jobs
  <2>3. k = [Passed(j, x) EXCEPT !.bad = j.bad, !.err = (j.err \/ Due(j, x) = "error")]
    BY <1>1 DEF Passed, Jobs
  <2>4. k.pc = "item" /\ k.pkg = j.pkg /\ k.ver = j.ver /\ k.pass = j.pass /\ k.pass = "dry"
    BY <1>1, <1>2 DEF Passed, Jobs, DryItem
  <2>5. Step(i, k) /\ UNCHANGED <<fs, current, torn>>
    BY <1>2, <2>1 DEF DryItem
  <2> HIDE DEF k
  <2>6. k \in Jobs /\ JobOK(k, current)
    <3>1. (j.err \/ Due(j, x) = "error") \in BOOLEAN
      OBVIOUS
    <3> QED BY <1>0, <1>1, <2>2, <2>3, <3>1, PassedOK
  <2>7. UninstallDone(k, fs)
    BY <2>4 DEF UninstallDone
  <2> QED BY <1>0, <2>4, <2>5, <2>6, <2>7, QuietStep
<1>3. ASSUME DryStop(i) PROVE OrphanInv'
  BY <1>0, <1>3, AbortStep DEF DryStop
<1>4. ASSUME DryEnd(i) PROVE OrphanInv'
  <2> DEFINE k == [j EXCEPT !.pass = "real", !.todo = Items(j.pkg, j.ver)]
  <2>1. k \in Jobs
    BY <1>1 DEF Jobs, Items, Passes
  <2>2. k.pc = "item" /\ k.pkg = j.pkg /\ k.ver = j.ver /\ k.pass = "real"
        /\ k.todo = Items(j.pkg, j.ver)
    BY <1>0, <1>1 DEF Jobs
  <2>3. JobOK(k, current)
    BY <1>0, <1>1 DEF JobOK, Jobs
  <2>4. ASSUME NEW x \in Paths, fs[x].to = <<k.pkg, k.ver, x>>
        PROVE  x \in k.todo
    <3>1. fs[x].to \in StoreFiles /\ LinkOK(fs, x)
      BY <1>1, <2>2, <2>4 DEF StoreFiles, OrphanInv, LinksOK
    <3> QED BY <2>2, <2>4, <3>1 DEF LinkOK, Items
  <2>5. UninstallDone(k, fs)
    BY <2>2, <2>4 DEF UninstallDone
  <2>6. Step(i, k) /\ UNCHANGED <<fs, current, torn>>
    BY <1>4 DEF DryEnd
  <2> HIDE DEF k
  <2> QED BY <1>0, <2>1, <2>2, <2>3, <2>5, <2>6, QuietStep
<1>5. ASSUME RealItem(i) PROVE OrphanInv'
  <2>1. j.pass # "dry"
    BY <1>5 DEF RealItem
  <2>2. PICK x \in Ready(j) :
           \/ /\ Due(j, x) = "fine"
              /\ Step(i, Passed(j, x))
              /\ UNCHANGED <<fs, current, torn>>
           \/ /\ Due(j, x) = "error"
              /\ Raise(i, x)
           \/ /\ Due(j, x) \in {"remove", "symlink", "mkdir", "rmdir"}
              /\ Step(i, [j EXCEPT !.pc = Due(j, x), !.at = x])
              /\ UNCHANGED <<fs, current, torn>>
    BY <1>5 DEF RealItem
  <2>3. x \in Paths /\ x \in Items(j.pkg, j.ver) /\ x \in j.todo
    BY <1>1 DEF Ready, Jobs, JobOK
  <2>4. ASSUME Due(j, x) = "fine", Step(i, Passed(j, x)), UNCHANGED <<fs, current, torn>>
        PROVE  OrphanInv'
    <3> DEFINE k == Passed(j, x)
    <3>1. k = [Passed(j, x) EXCEPT !.bad = j.bad, !.err = j.err]
      BY <1>1 DEF Passed, Jobs
    <3>2. /\ k.pc = "item" /\ k.pkg = j.pkg /\ k.ver = j.ver /\ k.pass = j.pass
          /\ k.act = j.act /\ k.bad = j.bad /\ k.todo = j.todo \ {x}
      BY <1>1 DEF Passed, Jobs
    <3>3. Step(i, k) /\ UNCHANGED <<fs, current, torn>>
      BY <2>4
    <3> HIDE DEF k
    <3>4. k \in Jobs /\ JobOK(k, current)
      BY <1>0, <1>1, <2>3, <3>1, PassedOK
    <3>5. j.act = "uninstall" => fs[x].to # <<j.pkg, j.ver, x>>
      BY <1>1, <2>3, <2>4, FineIsGone DEF Disciplined
    <3>6. UninstallDone(k, fs)
      BY <1>1, <3>2, <3>5 DEF UninstallDone
    <3> QED BY <1>0, <3>2, <3>3, <3>4, <3>6, QuietStep
  <2>5. ASSUME Raise(i, x) PROVE OrphanInv'
    BY <1>0, <2>1, <2>3, <2>5, RaiseStep
  <2>6. ASSUME Due(j, x) \in {"remove", "symlink", "mkdir", "rmdir"},
               Step(i, [j EXCEPT !.pc = Due(j, x), !.at = x]), UNCHANGED <<fs, current, torn>>
        PROVE  OrphanInv'
    <3> DEFINE k == [j EXCEPT !.pc = Due(j, x), !.at = x]
    <3>1. k \in Jobs
      BY <1>1, <2>3, <2>6 DEF Jobs, Pcs
    <3>2. /\ k.pc = Due(j, x) /\ k.at = x /\ k.pkg = j.pkg /\ k.ver = j.ver /\ k.as = j.as
          /\ k.pass = j.pass /\ k.act = j.act /\ k.bad = j.bad /\ k.todo = j.todo
      BY <1>1 DEF Jobs
    <3> HIDE DEF k
    <3>3. JobOK(k, current)
      BY <1>1, <2>1, <2>3, <2>6, <3>2, DueFacts DEF JobOK
    <3>4. UninstallDone(k, fs)
      BY <1>1, <3>2 DEF UninstallDone
    <3> QED BY <1>0, <2>6, <3>1, <3>2, <3>3, <3>4, QuietStep DEF k
  <2> QED BY <2>2, <2>4, <2>5, <2>6
<1>6. ASSUME RealEnd(i) PROVE OrphanInv'
  <2>1. j.pass # "dry" /\ j.todo = {}
    BY <1>6 DEF RealEnd
  <2>2. CASE j.act = "uninstall" /\ j.pass = "real"
    <3> DEFINE k == [j EXCEPT !.pass = "third", !.todo = Items(j.pkg, j.ver)]
    <3>1. k \in Jobs
      BY <1>1 DEF Jobs, Items, Passes
    <3>2. /\ k.pc = "item" /\ k.pkg = j.pkg /\ k.ver = j.ver /\ k.pass = "third"
          /\ k.act = j.act /\ k.bad = j.bad
      BY <1>0, <1>1 DEF Jobs
    <3>3. JobOK(k, current)
      BY <1>0, <1>1, <2>2 DEF JobOK, Jobs
    <3>4. UninstallDone(k, fs)
      BY <1>1, <2>1, <2>2, <3>2 DEF UninstallDone
    <3>5. Step(i, k) /\ UNCHANGED <<fs, current, torn>>
      BY <1>6, <2>2 DEF RealEnd
    <3> HIDE DEF k
    <3> QED BY <1>0, <3>1, <3>2, <3>3, <3>4, <3>5, QuietStep
  <2>3. CASE ~(j.act = "uninstall" /\ j.pass = "real")
    <3> DEFINE k == [j EXCEPT !.pc = "clearCurrent"]
    <3>1. k \in Jobs
      BY <1>1 DEF Jobs, Pcs
    <3>2. /\ k.pc = "clearCurrent" /\ k.pkg = j.pkg /\ k.ver = j.ver /\ k.pass = j.pass
          /\ k.act = j.act /\ k.bad = j.bad /\ k.todo = j.todo /\ k.as = j.as
      BY <1>1 DEF Jobs
    <3>3. j.act = "uninstall" => j.pass = "third"
      BY <1>1, <2>1, <2>3 DEF Jobs, Passes
    <3> HIDE DEF k
    <3>4. JobOK(k, current)
      BY <1>1, <2>1, <3>2, <3>3 DEF JobOK
    <3>5. UninstallDone(k, fs)
      BY <1>1, <3>2 DEF UninstallDone
    <3>6. Step(i, k) /\ UNCHANGED <<fs, current, torn>>
      BY <1>6, <2>3 DEF RealEnd, k
    <3> QED BY <1>0, <2>1, <3>1, <3>2, <3>4, <3>5, <3>6, QuietStep
  <2> QED BY <2>2, <2>3
<1> QED BY <1>2, <1>3, <1>4, <1>5, <1>6

\* A node that leaves the tree, or becomes a directory, is no link.
LEMMA NoTextFact == NoText \notin StoreFiles
BY TextsAssumption DEF Contents

\* The system calls that take a link or a directory away.
LEMMA RemoveSteps ==
    ASSUME OrphanInv, TypeOK', NEW i \in Procs, Remove(i) \/ RemoveDirectory(i)
    PROVE  OrphanInv'
<1> DEFINE j == proc[i]
<1>0. Active(i) /\ j.pc \in {"remove", "rmdir"}
  BY DEF Remove, RemoveDirectory, Active
<1>1. /\ j \in Jobs /\ JobOK(j, current) /\ UninstallDone(j, fs) /\ fs \in Trees
      /\ j.pkg \in Packages /\ j.ver \in Versions /\ j.at \in Paths
      /\ j.bad \in BOOLEAN /\ j.err \in BOOLEAN
  BY <1>0, ActiveJob DEF OrphanInv, TypeOK
<1>2. j.pass # "dry"
  BY <1>0, <1>1 DEF JobOK
<1>3. \A x \in Paths : LinkOK(fs, x)
  BY DEF OrphanInv, LinksOK
<1>4. ASSUME fs' = Removed(fs, j.at)
      PROVE  \A x \in Paths : /\ fs'[x].to \in StoreFiles => x # j.at /\ fs'[x] = fs[x]
                              /\ LinkOK(fs', x)
  BY <1>1, <1>3, <1>4, NoTextFact DEF Removed, Absent, Trees, LinkOK
<1>5. ASSUME Step(i, Passed(j, j.at)), UNCHANGED <<current, torn>>,
             \A x \in Paths : /\ fs'[x].to \in StoreFiles => fs'[x] = fs[x]
                              /\ LinkOK(fs', x),
             fs'[j.at].to # <<j.pkg, j.ver, j.at>>
      PROVE  OrphanInv'
  <2> DEFINE k == Passed(j, j.at)
  <2>1. k = [Passed(j, j.at) EXCEPT !.bad = j.bad, !.err = j.err]
    BY <1>1 DEF Passed, Jobs
  <2>2. /\ k.pc = "item" /\ k.pkg = j.pkg /\ k.ver = j.ver /\ k.pass = j.pass
        /\ k.act = j.act /\ k.bad = j.bad /\ k.todo = j.todo \ {j.at}
    BY <1>1 DEF Passed, Jobs
  <2>3. Step(i, k)
    BY <1>5
  <2> HIDE DEF k
  <2>4. k \in Jobs /\ JobOK(k, current)
    BY <1>0, <1>1, <2>1, PassedOK
  <2>5. ASSUME NEW x \in Paths, fs'[x].to = <<j.pkg, j.ver, x>>
        PROVE  fs[x].to = <<j.pkg, j.ver, x>> /\ x # j.at
    <3>1. fs'[x].to \in StoreFiles
      BY <1>1, <2>5 DEF StoreFiles
    <3> QED BY <1>5, <2>5, <3>1
  <2>6. UninstallDone(k, fs')
    BY <1>1, <2>2, <2>5 DEF UninstallDone
  <2> QED BY <1>0, <1>2, <1>5, <2>2, <2>3, <2>4, <2>6, MoveStep
<1>6. ASSUME Remove(i) PROVE OrphanInv'
  <2>1. CASE Raise(i, j.at)
    BY <1>0, <1>1, <1>2, <1>6, <2>1, RaiseStep DEF Remove
  <2>2. CASE /\ fs' = Removed(fs, j.at) /\ j.act = "uninstall"
             /\ Step(i, Passed(j, j.at)) /\ UNCHANGED <<current, torn>>
    <3>1. fs'[j.at].to # <<j.pkg, j.ver, j.at>>
      <4>1. <<j.pkg, j.ver, j.at>> \in StoreFiles
        BY <1>1 DEF StoreFiles
      <4> QED BY <1>1, <1>4, <2>2, <4>1
    <3> QED BY <1>4, <1>5, <2>2, <3>1
  <2>3. CASE /\ fs' = Removed(fs, j.at) /\ j.act = "install"
             /\ Step(i, [j EXCEPT !.pc = "symlink"]) /\ UNCHANGED <<current, torn>>
    <3> DEFINE k == [j EXCEPT !.pc = "symlink"]
    <3>1. k \in Jobs
      BY <1>1 DEF Jobs, Pcs
    <3>2. /\ k.pc = "symlink" /\ k.pkg = j.pkg /\ k.ver = j.ver /\ k.pass = j.pass /\ k.at = j.at
          /\ k.act = j.act /\ k.todo = j.todo /\ k.as = j.as
      BY <1>1 DEF Jobs
    <3>3. Step(i, k)
      BY <2>3
    <3> HIDE DEF k
    <3>4. j.pc = "remove"
      BY <1>6 DEF Remove
    <3>5. JobOK(k, current)
      BY <1>1, <1>2, <2>3, <3>2, <3>4 DEF JobOK
    <3>6. UninstallDone(k, fs')
      BY <2>3, <3>2 DEF UninstallDone
    <3> QED BY <1>0, <1>2, <1>4, <2>3, <3>1, <3>2, <3>3, <3>5, <3>6, MoveStep
  <2> QED BY <1>1, <1>6, <2>1, <2>2, <2>3 DEF Remove, Jobs, Acts
<1>7. ASSUME RemoveDirectory(i) PROVE OrphanInv'
  <2>1. Step(i, Passed(j, j.at)) /\ UNCHANGED <<current, torn>>
    BY <1>7 DEF RemoveDirectory
  <2>2. <<j.pkg, j.ver, j.at>> \in StoreFiles
    BY <1>1 DEF StoreFiles
  <2>3. CASE fs' = Removed(fs, j.at)
    BY <1>1, <1>4, <1>5, <2>1, <2>2, <2>3
  <2>4. CASE fs' = fs
    <3>1. j.pc = "rmdir"
      BY <1>7 DEF RemoveDirectory
    <3>2. Kind[j.pkg][j.ver][j.at] = "dir"
      BY <1>1, <3>1 DEF JobOK
    <3>3. fs[j.at].to # <<j.pkg, j.ver, j.at>>
      BY <1>1, <1>3, <2>2, <3>2 DEF LinkOK
    <3> QED BY <1>3, <1>5, <2>1, <2>4, <3>3
  <2> QED BY <1>7, <2>3, <2>4 DEF RemoveDirectory
<1> QED BY <1>6, <1>7

\* The system calls that make something; only an install gets to them.
LEMMA MakeSteps ==
    ASSUME OrphanInv, TypeOK', NEW i \in Procs, Symlink(i) \/ MakeDirectory(i) \/ SetOwner(i)
    PROVE  OrphanInv'
<1> DEFINE j == proc[i]
<1>0. Active(i) /\ j.pc \in {"symlink", "mkdir", "setOwner"}
  BY DEF Symlink, MakeDirectory, SetOwner, Active
<1>1. /\ j \in Jobs /\ JobOK(j, current) /\ fs \in Trees
      /\ j.pkg \in Packages /\ j.ver \in Versions /\ j.at \in Paths /\ j.as \in Users
      /\ j.bad \in BOOLEAN /\ j.err \in BOOLEAN
  BY <1>0, ActiveJob DEF OrphanInv, TypeOK
<1>2. j.pass # "dry" /\ j.act = "install"
  BY <1>0, <1>1 DEF JobOK
<1>3. \A x \in Paths : LinkOK(fs, x)
  BY DEF OrphanInv, LinksOK
<1>4. ASSUME Raise(i, j.at) PROVE OrphanInv'
  BY <1>0, <1>1, <1>2, <1>4, RaiseStep
<1>5. ASSUME Step(i, [j EXCEPT !.pc = "setOwner"]), UNCHANGED <<current, torn>>,
             \A x \in Paths :
                fs'[x].to \in StoreFiles =>
                   /\ LinkOK(fs', x)
                   /\ \/ fs'[x].to = fs[x].to
                      \/ fs'[x].to[1] = j.pkg /\ fs'[x].to[2] = j.ver
      PROVE  OrphanInv'
  <2> DEFINE k == [j EXCEPT !.pc = "setOwner"]
  <2>1. k \in Jobs
    BY <1>1 DEF Jobs, Pcs
  <2>2. /\ k.pc = "setOwner" /\ k.pkg = j.pkg /\ k.ver = j.ver /\ k.pass = j.pass /\ k.at = j.at
        /\ k.act = j.act /\ k.todo = j.todo /\ k.as = j.as
    BY <1>1 DEF Jobs
  <2>3. Step(i, k)
    BY <1>5
  <2> HIDE DEF k
  <2>4. JobOK(k, current)
    BY <1>1, <1>2, <2>2 DEF JobOK
  <2>5. UninstallDone(k, fs')
    BY <1>2, <2>2 DEF UninstallDone
  <2> QED BY <1>0, <1>2, <1>5, <2>1, <2>2, <2>3, <2>4, <2>5, MoveStep
<1>6. ASSUME Symlink(i) PROVE OrphanInv'
  <2>1. CASE Raise(i, j.at)
    BY <1>4, <2>1
  <2>2. CASE /\ fs' = Symlinked(fs, j.as, j.at, LinkContent(j.pkg, j.ver, j.at))
             /\ Step(i, [j EXCEPT !.pc = "setOwner"]) /\ UNCHANGED <<current, torn>>
    <3>1. /\ Kind[j.pkg][j.ver][j.at] \in {"link", "reg"}
          /\ j.at \notin Ignored[j.as][j.pkg][NoVersion]
      BY <1>1, <1>2, <1>6 DEF JobOK, Symlink
    <3>2. /\ fs'[j.at].kind = "link" /\ fs'[j.at].to = LinkContent(j.pkg, j.ver, j.at)
          /\ \A x \in Paths \ {j.at} : fs'[x] = fs[x]
      BY <1>1, <2>2 DEF Symlinked, Link, Trees
    <3>3. CASE Kind[j.pkg][j.ver][j.at] = "reg"
      <4>1. fs'[j.at].to = <<j.pkg, j.ver, j.at>>
        BY <3>2, <3>3 DEF LinkContent
      <4>2. LinkOK(fs', j.at)
        BY <1>1, <3>1, <3>2, <3>3, <4>1 DEF LinkOK
      <4>3. \A x \in Paths \ {j.at} : LinkOK(fs', x)
        BY <1>3, <3>2 DEF LinkOK
      <4> QED BY <1>5, <2>2, <3>2, <4>1, <4>2, <4>3
    <3>4. CASE Kind[j.pkg][j.ver][j.at] = "link"
      <4>1. fs'[j.at].to \in Texts
        BY <1>1, <3>2, <3>4, StoreAssumption DEF LinkContent
      <4>2. fs'[j.at].to \notin StoreFiles
        BY <4>1, TextsAssumption
      <4>3. \A x \in Paths \ {j.at} : LinkOK(fs', x)
        BY <1>3, <3>2 DEF LinkOK
      <4> QED BY <1>5, <2>2, <3>2, <4>2, <4>3
    <3> QED BY <3>1, <3>3, <3>4
  <2> QED BY <1>6, <2>1, <2>2 DEF Symlink
<1>7. ASSUME MakeDirectory(i) PROVE OrphanInv'
  <2>1. CASE Raise(i, j.at)
    BY <1>4, <2>1
  <2>2. CASE /\ fs' = MadeDirs(fs, j.as, j.at)
             /\ Step(i, [j EXCEPT !.pc = "setOwner"]) /\ UNCHANGED <<current, torn>>
    <3>1. \A x \in Paths : fs'[x].to \in StoreFiles => fs'[x] = fs[x]
      BY <2>2, NoTextFact DEF MadeDirs, Dir
    <3>2. \A x \in Paths : fs'[x].to \in StoreFiles => LinkOK(fs', x)
      BY <1>3, <3>1 DEF LinkOK
    <3> QED BY <1>5, <2>2, <3>1, <3>2
  <2> QED BY <1>7, <2>1, <2>2 DEF MakeDirectory
<1>8. ASSUME SetOwner(i) PROVE OrphanInv'
  <2>1. CASE Raise(i, j.at)
    BY <1>4, <2>1
  <2>2. CASE /\ fs' = OwnerSet(fs, j.pkg, j.at)
             /\ Step(i, Passed(j, j.at)) /\ UNCHANGED <<current, torn>>
    <3> DEFINE k == Passed(j, j.at)
    <3>1. k = [Passed(j, j.at) EXCEPT !.bad = j.bad, !.err = j.err]
      BY <1>1 DEF Passed, Jobs
    <3>2. /\ k.pc = "item" /\ k.pkg = j.pkg /\ k.ver = j.ver /\ k.pass = j.pass
          /\ k.act = j.act
      BY <1>1 DEF Passed, Jobs
    <3>3. Step(i, k)
      BY <2>2
    <3> HIDE DEF k
    <3>4. k \in Jobs /\ JobOK(k, current)
      BY <1>1, <1>2, <3>1, PassedOK
    <3>5. \A x \in Paths : fs'[x].kind = fs[x].kind /\ fs'[x].to = fs[x].to
      BY <1>1, <2>2 DEF OwnerSet, Trees, Node
    <3>6. \A x \in Paths : LinkOK(fs', x)
      BY <1>3, <3>5 DEF LinkOK
    <3>7. UninstallDone(k, fs')
      BY <1>2, <3>2 DEF UninstallDone
    <3> QED BY <1>0, <1>2, <2>2, <3>2, <3>3, <3>4, <3>5, <3>6, <3>7, MoveStep
  <2> QED BY <1>8, <2>1, <2>2 DEF SetOwner
<1> QED BY <1>6, <1>7, <1>8

\* The steps that move Current, and a killed run.
LEMMA EndSteps ==
    ASSUME OrphanInv, TypeOK', NEW i \in Procs, ClearCurrent(i) \/ SetCurrent(i) \/ Crash(i)
    PROVE  OrphanInv'
<1> DEFINE j == proc[i]
           p == proc[i].pkg
<1>0. Active(i)
  BY DEF ClearCurrent, SetCurrent, Crash, Active
<1>1. /\ j \in Jobs /\ JobOK(j, current) /\ UninstallDone(j, fs)
      /\ p \in Packages /\ j.ver \in Versions /\ j.act \in {"install", "uninstall"}
      /\ j.as \in Users /\ j.flags \in SUBSET Flags /\ j.next \in Versions \cup {NoVersion}
  BY <1>0, ActiveJob DEF Jobs, Acts
<1>2. /\ current \in [Packages -> Versions \cup {NoVersion}]
      /\ torn \in [Packages -> SUBSET Versions]
  BY DEF OrphanInv, TypeOK
<1>3. ASSUME NEW x \in Paths, fs[x].to \in StoreFiles, fs[x].to[1] = p
      PROVE  /\ fs[x].to[2] \in Versions
             /\ current[p] = fs[x].to[2] \/ fs[x].to[2] \in torn[p] \/ j.ver = fs[x].to[2]
             /\ fs[x].to[2] = j.ver => fs[x].to = <<p, j.ver, x>>
  <2>1. LinkOK(fs, x)
    BY DEF OrphanInv, LinksOK
  <2>2. fs[x].to[3] = x
    BY <1>3, <2>1 DEF LinkOK
  <2> QED BY <1>0, <1>3, <2>2, OwnLinks DEF StoreFiles
<1>4. ASSUME Settle(j)
      PROVE  /\ \A q \in Packages \ {p} : torn'[q] = torn[q]
             /\ \A v \in torn[p] \ {j.ver} : v \in torn'[p]
             /\ j.bad => j.ver \in torn'[p]
  BY <1>1, <1>2, <1>4 DEF Settle
<1>5. ASSUME ClearCurrent(i), j.act = "install" PROVE OrphanInv'
  <2> DEFINE k == [j EXCEPT !.pc = "setCurrent"]
  <2>1. j.pc = "clearCurrent" /\ Step(i, k) /\ UNCHANGED <<fs, torn>>
    BY <1>5 DEF ClearCurrent
  <2>2. current' = current
    BY <1>1, <1>2, <1>5 DEF ClearCurrent, JobOK
  <2>3. k \in Jobs
    BY <1>1 DEF Jobs, Pcs
  <2>4. /\ k.pc = "setCurrent" /\ k.pkg = p /\ k.ver = j.ver /\ k.pass = j.pass /\ k.act = j.act
        /\ k.todo = j.todo /\ k.as = j.as
    BY <1>1 DEF Jobs
  <2> HIDE DEF k
  <2>5. JobOK(k, current)
    BY <1>1, <1>5, <2>1, <2>4 DEF JobOK
  <2>6. UninstallDone(k, fs)
    BY <1>5, <2>4 DEF UninstallDone
  <2>7. j.pass # "dry"
    BY <1>1, <2>1 DEF JobOK
  <2> QED BY <1>0, <2>1, <2>2, <2>3, <2>4, <2>5, <2>6, <2>7, QuietStep
<1>6. ASSUME ClearCurrent(i), j.act = "uninstall" PROVE OrphanInv'
  <2>1. /\ fs' = fs /\ Settle(j) /\ current' = [current EXCEPT ![p] = NoVersion]
        /\ current[p] = j.ver /\ j.pass = "third"
    BY <1>1, <1>6 DEF ClearCurrent, JobOK
  <2>2. \A q \in Packages \ {p} : current'[q] = current[q] /\ torn'[q] = torn[q]
    BY <1>1, <1>2, <1>4, <2>1
  <2>3. ASSUME NEW x \in Paths, fs[x].to \in StoreFiles, fs[x].to[1] = p
        PROVE  fs[x].to[2] \in torn'[p]
    <3>1. CASE fs[x].to[2] = j.ver
      BY <1>1, <1>3, <1>4, <1>6, <2>1, <2>3, <3>1 DEF UninstallDone
    <3>2. CASE fs[x].to[2] # j.ver
      BY <1>3, <1>4, <2>1, <2>3, <3>2
    <3> QED BY <3>1, <3>2
  <2>4. CASE Step(i, IdleJob)
    BY <1>0, <2>1, <2>2, <2>3, <2>4, StopStep
  <2>5. CASE /\ j.next # NoVersion
             /\ Step(i, NewJob("install", p, j.next, NoVersion, j.as, j.flags))
    <3> DEFINE k == NewJob("install", p, j.next, NoVersion, j.as, j.flags)
    <3>1. k \in Jobs
      BY <1>1, <2>5, NewJobType DEF Acts
    <3>2. k.pkg = p /\ k.act = "install"
      BY DEF NewJob
    <3>3. JobOK(k, current')
      BY <1>1, <1>2, <2>1 DEF JobOK, NewJob
    <3>4. Step(i, k)
      BY <2>5
    <3> HIDE DEF k
    <3>5. UninstallDone(k, fs')
      BY <3>2 DEF UninstallDone
    <3>6. \A x \in Paths : LinkOK(fs', x)
      BY <2>1 DEF OrphanInv, LinksOK
    <3>7. StepOK(p, k, fs', current', torn')
      BY <2>1, <2>2, <2>3, <3>2, <3>3, <3>5, <3>6 DEF StepOK
    <3>8. \A m \in Procs \ {i} : Active(m) => proc[m].pkg # p
      BY <1>0 DEF OrphanInv, Exclusive
    <3>9. proc' = [proc EXCEPT ![i] = k]
      BY <3>4 DEF Step
    <3> QED BY <1>1, <3>1, <3>7, <3>8, <3>9, Frame
  <2> QED BY <1>6, <2>4, <2>5 DEF ClearCurrent
<1>7. ASSUME SetCurrent(i) PROVE OrphanInv'
  <2>1. j.act = "install" /\ current[p] = NoVersion
    BY <1>1, <1>7 DEF SetCurrent, JobOK
  <2>2. /\ fs' = fs /\ Step(i, IdleJob) /\ Settle(j)
        /\ current' = [current EXCEPT ![p] = j.ver]
    BY <1>7, <2>1 DEF SetCurrent
  <2>3. \A q \in Packages \ {p} : current'[q] = current[q] /\ torn'[q] = torn[q]
    BY <1>1, <1>2, <1>4, <2>2
  <2>4. ASSUME NEW x \in Paths, fs[x].to \in StoreFiles, fs[x].to[1] = p
        PROVE  current'[p] = fs[x].to[2] \/ fs[x].to[2] \in torn'[p]
    <3>1. current'[p] = j.ver
      BY <1>1, <1>2, <2>2
    <3> QED BY <1>3, <1>4, <2>1, <2>2, <2>4, <3>1, VersionsAssumption
  <2> QED BY <1>0, <2>2, <2>3, <2>4, StopStep
<1>8. ASSUME Crash(i) PROVE OrphanInv'
  BY <1>0, <1>8, AbortStep DEF Crash
<1> QED BY <1>1, <1>5, <1>6, <1>7, <1>8

-----------------------------------------------------------------------------
(* The theorem                                                               *)

LEMMA OrphanInit == Init => OrphanInv
<1> SUFFICES ASSUME Init PROVE OrphanInv
  OBVIOUS
<1>1. TypeOK
  BY TypeInit
<1>2. \A i \in Procs : ~Active(i)
  BY DEF Init, Active, IdleJob, NewJob
<1>3. \A x \in Paths : fs[x].to \notin StoreFiles
  BY InitialTreesAssumption DEF Init
<1> QED BY <1>1, <1>2, <1>3
       DEF OrphanInv, Exclusive, JobsOK, LinksOK, LinkOK, UninstallsDone, AllAccounted

LEMMA OrphanInductive ==
    ASSUME Disciplined, OrphanInv, [Next]_vars
    PROVE  OrphanInv'
<1>1. TypeOK'
  BY TypeInductive DEF OrphanInv
<1>2. CASE Next
  <2> PICK i \in Procs : Command(i) \/ Work(i) \/ Crash(i)
    BY <1>2 DEF Next
  <2> QED BY <1>1, CommandStep, ItemSteps, RemoveSteps, MakeSteps, EndSteps DEF Work
<1>3. CASE UNCHANGED vars
  BY <1>3 DEF vars, OrphanInv, TypeOK, Exclusive, JobsOK, LinksOK, UninstallsDone, AllAccounted,
              Active, Writing
<1> QED BY <1>2, <1>3

LEMMA OrphanInvImplies == OrphanInv => NoOrphan
BY DEF OrphanInv, AllAccounted, NoOrphan

\* Whatever the packages, the system and the order of the steps, and
\* however many runs are killed: every link into the store belongs to the
\* version Current names, or to one whose last run was cut short or is at
\* work.  The conditions: two operators do not work on the same package,
\* --uninstall is not given --bypass, and no uninstall ignores what some install
\* does not. Without the last one, with the definitions VersionIgnores or
\* HomeIgnores of MCTpkgs for Ignored, TLC finds a forgotten link.
THEOREM NoForgottenLinks ==
    ASSUME Disciplined
    PROVE  Spec => []NoOrphan
<1>1. OrphanInv /\ [Next]_vars => OrphanInv'
  BY OrphanInductive
<1> QED BY <1>1, OrphanInit, OrphanInvImplies, PTL DEF Spec
-----------------------------------------------------------------------------
(* The directories an uninstall leaves                                       *)

\* What the work of a run leaves accounted for: all, but the version an uninstall
\* without errors has finished with.
Finished(i, p, v) ==
    /\ ClearCurrent(i) /\ proc[i].act = "uninstall" /\ ~proc[i].bad
    /\ p = proc[i].pkg /\ v = proc[i].ver

\* A run goes on.
LEMMA OnAccount ==
    ASSUME RunsAlone, TypeOK, NEW i \in Procs, Active(i), NEW k, Step(i, k), k.pc # "idle",
           k.pkg = proc[i].pkg, k.ver = proc[i].ver, proc[i].pass # "dry" => k.pass # "dry",
           UNCHANGED <<current, torn>>, NEW p, NEW v, AccountedFor(p, v)
    PROVE  AccountedFor(p, v)'
<1>1. proc'[i] = k /\ \A m \in Procs : m = i
  BY DEF TypeOK, Step, RunsAlone
<1> QED BY <1>1 DEF AccountedFor, Writing, Active

\* A run stops.
LEMMA StopAccount ==
    ASSUME RunsAlone, TypeOK, NEW i \in Procs, Active(i), current' = current,
           MarkTorn(proc[i]) \/ (proc[i].pass = "dry" /\ UNCHANGED torn),
           NEW p \in Packages, NEW v, AccountedFor(p, v)
    PROVE  AccountedFor(p, v)'
<1>1. /\ proc[i].pkg \in Packages /\ torn \in [Packages -> SUBSET Versions]
      /\ \A m \in Procs : m = i
  BY DEF TypeOK, Jobs, RunsAlone
<1>2. torn[p] \subseteq torn'[p] /\ (Writing(p, v) => v \in torn'[p])
  BY <1>1 DEF Writing, MarkTorn
<1> QED BY <1>2 DEF AccountedFor

LEMMA RaiseAccount ==
    ASSUME RunsAlone, TypeOK, NEW i \in Procs, Active(i), NEW x, Raise(i, x),
           NEW p \in Packages, NEW v, AccountedFor(p, v)
    PROVE  AccountedFor(p, v)'
<1>1. proc[i] \in Jobs
  BY DEF TypeOK
<1>2. CASE MarkTorn(proc[i])
  BY <1>2, StopAccount DEF Raise
<1>3. CASE UNCHANGED torn /\ Step(i, [Passed(proc[i], x) EXCEPT !.bad = @ \/ proc[i].pass = "real"])
  <2>1. PICK k : k = [Passed(proc[i], x) EXCEPT !.bad = @ \/ proc[i].pass = "real"]
    OBVIOUS
  <2>2. k.pc = "item" /\ k.pkg = proc[i].pkg /\ k.ver = proc[i].ver /\ k.pass = proc[i].pass
    BY <1>1, <2>1 DEF Passed, Jobs
  <2> QED BY <1>3, <2>1, <2>2, OnAccount DEF Raise
<1> QED BY <1>2, <1>3 DEF Raise

LEMMA AccountStep ==
    ASSUME RunsAlone, OrphanInv, NEW i \in Procs, Command(i) \/ Work(i) \/ Crash(i),
           NEW p \in Packages, NEW v \in Versions, AccountedFor(p, v), ~Finished(i, p, v)
    PROVE  AccountedFor(p, v)'
<1> DEFINE j == proc[i]
<1> USE DEF OrphanInv
<1>1. CASE Command(i)
  <2>1. ~Active(i) /\ UNCHANGED <<current, torn>>
    BY <1>1 DEF Command, Install, Uninstall
  <2> QED BY <2>1 DEF AccountedFor, Writing, RunsAlone
<1>2. CASE ~Command(i)
  <2>0. Active(i)
    BY <1>2 DEF Work, DryItem, DryStop, DryEnd, RealItem, RealEnd, Remove, RemoveDirectory, Symlink,
             SetOwner, MakeDirectory, ClearCurrent, SetCurrent, Crash, Active
  <2>1. /\ j \in Jobs /\ JobOK(j, current) /\ j.pkg \in Packages /\ j.ver \in Versions
        /\ j.act \in {"install", "uninstall"}
    BY <2>0, ActiveJob DEF Jobs, Acts
  <2>2. ASSUME NEW x, Raise(i, x) PROVE AccountedFor(p, v)'
    BY <2>0, <2>2, RaiseAccount
  <2>3. ASSUME NEW k, Step(i, k), UNCHANGED <<current, torn>>, k.pc # "idle",
               k.pkg = j.pkg, k.ver = j.ver, j.pass # "dry" => k.pass # "dry"
        PROVE  AccountedFor(p, v)'
    BY <2>0, <2>3, OnAccount
  <2>4. CASE DryItem(i)
    <3>1. PICK x, k : k = [Passed(j, x) EXCEPT !.err = @ \/ Due(j, x) = "error"] /\ Step(i, k)
      BY <2>4 DEF DryItem
    <3>2. k.pc = "item" /\ k.pkg = j.pkg /\ k.ver = j.ver /\ k.pass = j.pass
      BY <2>1, <3>1 DEF Passed, Jobs
    <3> QED BY <2>3, <2>4, <3>1, <3>2 DEF DryItem
  <2>5. CASE DryStop(i)
    BY <2>0, <2>5, StopAccount DEF DryStop
  <2>6. CASE DryEnd(i)
    <3>1. PICK k : k = [j EXCEPT !.pass = "real", !.todo = Items(j.pkg, j.ver)]
      OBVIOUS
    <3>2. k.pc = "item" /\ k.pkg = j.pkg /\ k.ver = j.ver /\ k.pass = "real"
      BY <2>1, <2>6, <3>1 DEF DryEnd, Jobs
    <3> QED BY <2>3, <2>6, <3>1, <3>2 DEF DryEnd
  <2>7. CASE RealItem(i)
    <3>1. PICK x : \/ Step(i, Passed(j, x)) /\ UNCHANGED <<current, torn>>
                   \/ Raise(i, x)
                   \/ /\ Due(j, x) \in {"remove", "symlink", "mkdir", "rmdir"}
                      /\ Step(i, [j EXCEPT !.pc = Due(j, x), !.at = x])
                      /\ UNCHANGED <<current, torn>>
      BY <2>7 DEF RealItem
    <3>2. CASE Step(i, Passed(j, x)) /\ UNCHANGED <<current, torn>>
      <4>1. PICK k : k = Passed(j, x)
        OBVIOUS
      <4>2. k.pc = "item" /\ k.pkg = j.pkg /\ k.ver = j.ver /\ k.pass = j.pass
        BY <2>1, <4>1 DEF Passed, Jobs
      <4> QED BY <2>3, <3>2, <4>1, <4>2
    <3>3. CASE /\ Due(j, x) \in {"remove", "symlink", "mkdir", "rmdir"}
               /\ Step(i, [j EXCEPT !.pc = Due(j, x), !.at = x])
               /\ UNCHANGED <<current, torn>>
      <4>1. PICK k : k = [j EXCEPT !.pc = Due(j, x), !.at = x]
        OBVIOUS
      <4>2. k.pc = Due(j, x) /\ k.pkg = j.pkg /\ k.ver = j.ver /\ k.pass = j.pass
        BY <2>1, <4>1 DEF Jobs
      <4> QED BY <2>3, <3>3, <4>1, <4>2
    <3> QED BY <2>2, <3>1, <3>2, <3>3
  <2>8. CASE RealEnd(i)
    <3>1. PICK k : k = IF j.act = "uninstall" /\ j.pass = "real"
                       THEN [j EXCEPT !.pass = "third", !.todo = Items(j.pkg, j.ver)]
                       ELSE [j EXCEPT !.pc = "clearCurrent"]
      OBVIOUS
    <3>2. k.pc # "idle" /\ k.pkg = j.pkg /\ k.ver = j.ver /\ k.pass # "dry"
      BY <2>1, <2>8, <3>1 DEF RealEnd, Jobs
    <3> QED BY <2>3, <2>8, <3>1, <3>2 DEF RealEnd
  <2>9. CASE Remove(i) \/ RemoveDirectory(i) \/ Symlink(i) \/ MakeDirectory(i) \/ SetOwner(i)
    <3>1. CASE Raise(i, j.at)
      BY <2>2, <3>1
    <3>2. CASE ~Raise(i, j.at)
      <4>1. PICK k : /\ k \in {Passed(j, j.at), [j EXCEPT !.pc = "symlink"], [j EXCEPT !.pc = "setOwner"]}
                     /\ Step(i, k) /\ UNCHANGED <<current, torn>>
        BY <2>9, <3>2 DEF Remove, RemoveDirectory, Symlink, MakeDirectory, SetOwner
      <4>2. k.pc # "idle" /\ k.pkg = j.pkg /\ k.ver = j.ver /\ k.pass = j.pass
        BY <2>1, <4>1 DEF Passed, Jobs
      <4> QED BY <2>3, <4>1, <4>2
    <3> QED BY <3>1, <3>2
  <2>10. CASE ClearCurrent(i) /\ j.act = "install"
    <3>1. PICK k : k = [j EXCEPT !.pc = "setCurrent"]
      OBVIOUS
    <3>2. k.pc = "setCurrent" /\ k.pkg = j.pkg /\ k.ver = j.ver /\ k.pass = j.pass
      BY <2>1, <3>1 DEF Jobs
    <3>3. current' = current
      BY <2>1, <2>10 DEF ClearCurrent, JobOK, TypeOK
    <3> QED BY <2>3, <2>10, <3>1, <3>2, <3>3 DEF ClearCurrent
  <2>11. CASE ClearCurrent(i) /\ j.act = "uninstall"
    <3>1. Settle(j) /\ current' = [current EXCEPT ![j.pkg] = NoVersion] /\ current[j.pkg] = j.ver
      BY <2>1, <2>11 DEF ClearCurrent, JobOK
    <3>2. Writing(p, v) => p = j.pkg /\ v = j.ver
      BY DEF Writing, RunsAlone
    <3>3. p = j.pkg /\ v = j.ver => j.bad
      BY <2>11 DEF Finished
    <3>4. torn'[p] = IF p = j.pkg THEN IF j.bad THEN torn[p] \cup {j.ver} ELSE torn[p] \ {j.ver}
                                  ELSE torn[p]
      BY <2>1, <3>1 DEF Settle, TypeOK
    <3>5. p # j.pkg => current'[p] = current[p]
      BY <2>1, <3>1 DEF TypeOK
    <3> QED BY <3>1, <3>2, <3>3, <3>4, <3>5 DEF AccountedFor
  <2>12. CASE SetCurrent(i)
    <3>1. j.act = "install" /\ current[j.pkg] = NoVersion
      BY <2>1, <2>12 DEF SetCurrent, JobOK
    <3>2. Settle(j) /\ current' = [current EXCEPT ![j.pkg] = j.ver]
      BY <2>12, <3>1 DEF SetCurrent
    <3>3. Writing(p, v) => p = j.pkg /\ v = j.ver
      BY DEF Writing, RunsAlone
    <3>4. torn[p] \ torn'[p] \subseteq IF p = j.pkg THEN {j.ver} ELSE {}
      BY <2>1, <3>2 DEF Settle, TypeOK
    <3>5. current'[p] = IF p = j.pkg THEN j.ver ELSE current[p]
      BY <2>1, <3>2 DEF TypeOK
    <3> QED BY <3>1, <3>3, <3>4, <3>5, VersionsAssumption DEF AccountedFor
  <2>13. CASE Crash(i)
    BY <2>0, <2>13, StopAccount DEF Crash
  <2> QED BY <1>2, <2>1, <2>4, <2>5, <2>6, <2>7, <2>8, <2>9, <2>10, <2>11, <2>12, <2>13 DEF Work
<1> QED BY <1>1, <1>2

\* A step that leaves the tree alone.
LEMMA OwnQuiet ==
    ASSUME OwnAccounted, fs' = fs,
           \A x \in Paths, p \in Packages, v \in Versions :
              /\ IsLink(fs, x) /\ fs[x].owner = p /\ AccountedFor(p, v)
              /\ Kind[p][v][x] \in {"link", "reg"} /\ \E u \in Users : x \notin Ignored[u][p][NoVersion]
              => AccountedFor(p, v)'
    PROVE  OwnAccounted'
<1> SUFFICES ASSUME NEW x \in Paths, fs[x].kind # "none", fs[x].owner \in Packages
             PROVE  HasAt(fs[x].owner, x)'
  BY DEF OwnAccounted
<1>1. PICK p \in Packages : p = fs[x].owner
  OBVIOUS
<1>2. HasAt(p, x)
  BY <1>1 DEF OwnAccounted
<1>3. HasAt(p, x)'
  BY <1>1, <1>2 DEF HasAt
<1> QED BY <1>1, <1>3

\* A step that changes the tree at z.
LEMMA OwnCall ==
    ASSUME OwnAccounted, NEW z \in Paths, \A x \in Paths \ {z} : fs'[x] = fs[x],
           \A p \in Packages, v \in Versions : AccountedFor(p, v) => AccountedFor(p, v)',
           \A p \in Packages : fs'[z].kind # "none" /\ fs'[z].owner = p => HasAt(p, z)'
    PROVE  OwnAccounted'
<1> SUFFICES ASSUME NEW x \in Paths, fs'[x].kind # "none", fs'[x].owner \in Packages
             PROVE  HasAt(fs[x].owner, x)'
  BY DEF OwnAccounted
<1>1. PICK p \in Packages : p = fs'[x].owner
  OBVIOUS
<1>2. CASE x = z
  BY <1>1, <1>2
<1>3. CASE x # z
  <2>1. fs'[x] = fs[x]
    BY <1>3
  <2>2. HasAt(p, x)
    BY <1>1, <2>1 DEF OwnAccounted
  <2>3. HasAt(p, x)'
    BY <2>1, <2>2 DEF HasAt, IsLink, IsDir
  <2> QED BY <1>1, <2>3
<1> QED BY <1>2, <1>3

\* The system calls, seen at the path they are for.
LEMMA CallTree ==
    ASSUME Shallow, OrphanInv, fs[Top].kind = "idir", NEW i \in Procs, Active(i), CallDue(proc[i]),
           Work(i), fs' # fs
    PROVE  /\ proc[i].pc \in {"remove", "rmdir", "symlink", "mkdir", "setOwner"}
           /\ proc[i].at # Top
           /\ \A x \in Paths \ {proc[i].at} : fs'[x] = fs[x]
           /\ UNCHANGED <<current, torn>>
           /\ proc[i].pc \in {"remove", "rmdir"} => fs'[proc[i].at].kind = "none"
           /\ proc[i].pc = "symlink" =>
                IsLink(fs', proc[i].at) /\ fs'[proc[i].at].owner = proc[i].as
           /\ proc[i].pc = "mkdir" => IsDir(fs', proc[i].at)
           /\ proc[i].pc = "mkdir" /\ fs[proc[i].at].kind # "none" => fs'[proc[i].at] = fs[proc[i].at]
           /\ proc[i].pc = "mkdir" /\ fs[proc[i].at].kind = "none" => fs'[proc[i].at].owner = proc[i].as
           /\ proc[i].pc = "setOwner" =>
                fs'[proc[i].at].kind = fs[proc[i].at].kind /\ fs'[proc[i].at].owner = proc[i].pkg
<1> DEFINE j == proc[i]
           z == j.at
<1>1. /\ j \in Jobs /\ JobOK(j, current) /\ z \in Paths /\ fs \in Trees
      /\ j.pkg \in Packages /\ j.ver \in Versions
  BY ActiveJob DEF OrphanInv, TypeOK
<1>2. \A x : ~Raise(i, x)
  BY DEF Raise
<1>3. /\ UNCHANGED <<current, torn>>
      /\ \/ j.pc = "remove" /\ fs' = Removed(fs, z)
         \/ j.pc = "rmdir" /\ fs' = Removed(fs, z)
         \/ j.pc = "symlink" /\ fs' = Symlinked(fs, j.as, z, LinkContent(j.pkg, j.ver, z))
         \/ j.pc = "mkdir" /\ CanMakeDirs(fs, j.as, z) /\ fs' = MadeDirs(fs, j.as, z)
         \/ j.pc = "setOwner" /\ fs' = OwnerSet(fs, j.pkg, z)
  BY <1>2 DEF Work, DryItem, DryStop, DryEnd, RealItem, RealEnd, Remove, RemoveDirectory, Symlink,
              SetOwner, MakeDirectory, ClearCurrent, SetCurrent
<1>4. z # Top
  <2>1. z \in Items(j.pkg, j.ver)
    BY <1>1, <1>3 DEF CallDue, JobOK
  <2> QED BY <1>1, <2>1, StoreAssumption DEF Items
<1>5. CASE (j.pc = "remove" \/ j.pc = "rmdir") /\ fs' = Removed(fs, z)
  BY <1>1, <1>3, <1>4, <1>5 DEF Removed, Absent, Trees
<1>6. CASE j.pc = "symlink" /\ fs' = Symlinked(fs, j.as, z, LinkContent(j.pkg, j.ver, z))
  BY <1>1, <1>3, <1>4, <1>6 DEF Symlinked, Link, Trees, IsLink
<1>7. CASE j.pc = "mkdir" /\ CanMakeDirs(fs, j.as, z) /\ fs' = MadeDirs(fs, j.as, z)
  <2>1. Above[z] = {Top}
    BY <1>1, <1>7 DEF Shallow, JobOK
  <2>2. /\ \A x \in Paths : fs'[x] = IF x = z /\ fs[z].kind = "none" THEN Dir(j.as) ELSE fs[x]
        /\ IsDir(fs, z) \/ fs[z].kind = "none"
    BY <1>1, <1>7, <2>1 DEF MadeDirs, Missing, CanMakeDirs
  <2> QED BY <1>1, <1>3, <1>4, <1>7, <2>2 DEF Dir, IsDir
<1>8. CASE j.pc = "setOwner" /\ fs' = OwnerSet(fs, j.pkg, z)
  BY <1>1, <1>3, <1>4, <1>8 DEF OwnerSet, Trees, Node
<1> QED BY <1>3, <1>5, <1>6, <1>7, <1>8

\* A path an install does not skip is one it does not ignore.
LEMMA NotSkipped ==
    ASSUME NEW j, j.act = "install", NEW x, ~Skips(j, x)
    PROVE  x \notin Ignored[j.as][j.pkg][NoVersion]
BY DEF Skips, Ignore, ConfigOf

LEMMA OwnStep ==
    ASSUME Disciplined, RunsAlone, Shallow, FoldersInv, NEW i \in Procs,
           Command(i) \/ Work(i) \/ Crash(i)
    PROVE  OwnAccounted' /\ fs'[Top].kind = "idir"
<1>j. PICK j : j = proc[i]
  OBVIOUS
<1>z. PICK z : z = j.at
  OBVIOUS
<1>0. OrphanInv /\ OwnAccounted /\ fs[Top].kind = "idir" /\ TypeOK
  BY DEF FoldersInv, OrphanInv
<1>1. CASE fs' = fs
  <2> USE <1>j
  <2>1. ASSUME NEW x \in Paths, NEW p \in Packages, NEW v \in Versions,
               IsLink(fs, x), AccountedFor(p, v), Kind[p][v][x] \in {"link", "reg"},
               NEW u \in Users, x \notin Ignored[u][p][NoVersion]
        PROVE  ~Finished(i, p, v)
    <3> SUFFICES ASSUME Finished(i, p, v) PROVE FALSE
      OBVIOUS
    <3>1. /\ Active(i) /\ j.pc = "clearCurrent" /\ j.act = "uninstall" /\ ~j.bad
          /\ p = j.pkg /\ v = j.ver
      BY DEF Finished, ClearCurrent, Active
    <3>2. j.pass = "third" /\ j.as \in Users
      BY <1>0, <3>1, ActiveJob DEF JobOK
    <3>3. CleanedUp(j)
      BY <3>1 DEF FoldersInv
    <3>4. x \in Items(j.pkg, j.ver) /\ Kind[j.pkg][j.ver][x] # "dir"
      BY <2>1, <3>1 DEF Items
    <3>5. ~Skips(j, x)
      BY <2>1, <3>1, <3>2, <3>4 DEF Skips, Ignore, ConfigOf, Disciplined, ConfigAgrees
    <3> QED BY <2>1, <3>1, <3>2, <3>3, <3>4, <3>5 DEF CleanedUp, IsLink
  <2>2. ASSUME NEW x \in Paths, NEW p \in Packages, NEW v \in Versions,
               IsLink(fs, x), AccountedFor(p, v), Kind[p][v][x] \in {"link", "reg"},
               NEW u \in Users, x \notin Ignored[u][p][NoVersion]
        PROVE  AccountedFor(p, v)'
    BY <1>0, <2>1, <2>2, AccountStep
  <2> QED BY <1>0, <1>1, <2>2, OwnQuiet
<1>2. CASE fs' # fs
  <2> USE <1>j, <1>z
  <2>1. Work(i)
    BY <1>2 DEF Command, Install, Uninstall, Crash
  <2>2. Active(i)
    BY <2>1 DEF Work, DryItem, DryStop, DryEnd, RealItem, RealEnd, Remove, RemoveDirectory, Symlink,
             SetOwner, MakeDirectory, ClearCurrent, SetCurrent, Active
  <2>3. /\ j \in Jobs /\ JobOK(j, current) /\ z \in Paths /\ CallDue(j)
        /\ j.pkg \in Packages /\ j.ver \in Versions /\ j.as \in Users
    BY <1>0, <2>2, ActiveJob DEF FoldersInv
  <2>4. /\ j.pc \in {"remove", "rmdir", "symlink", "mkdir", "setOwner"}
        /\ z # Top
        /\ \A x \in Paths \ {z} : fs'[x] = fs[x]
        /\ UNCHANGED <<current, torn>>
    BY <1>0, <1>2, <2>1, <2>2, <2>3, CallTree
  <2>5. ASSUME NEW p \in Packages, NEW v \in Versions, AccountedFor(p, v)
        PROVE  AccountedFor(p, v)'
    <3>1. ~Finished(i, p, v)
      BY <2>4 DEF Finished, ClearCurrent
    <3> QED BY <1>0, <2>1, <2>5, <3>1, AccountStep
  <2>6. fs'[Top].kind = "idir"
    BY <1>0, <2>4, PathsAssumption
  <2>7. j.pass # "dry" => AccountedFor(j.pkg, j.ver)'
    <3>1. j.pass # "dry" => AccountedFor(j.pkg, j.ver)
      BY <2>2 DEF AccountedFor, Writing
    <3> QED BY <2>3, <2>5, <3>1
  <2>8. j.pass # "dry"
    BY <2>3, <2>4 DEF JobOK
  <2>9. ASSUME NEW p \in Packages, fs'[z].kind # "none", fs'[z].owner = p
        PROVE  HasAt(p, z)'
    <3>1. j.pc \notin {"remove", "rmdir"}
      BY <1>0, <1>2, <2>1, <2>2, <2>3, <2>9, CallTree
    <3>2. j.act = "install" /\ z \notin Ignored[j.as][j.pkg][NoVersion]
      BY <2>3, <2>4, <3>1, NotSkipped DEF JobOK, CallDue
    <3>3. CASE j.pc = "symlink"
      <4>1. IsLink(fs', z) /\ p = j.as
        BY <1>0, <1>2, <2>1, <2>2, <2>3, <2>9, <3>3, CallTree
      <4>2. p = j.pkg /\ Kind[p][j.ver][z] \in {"link", "reg"}
        BY <2>3, <3>3, <4>1, NamesAssumption DEF JobOK
      <4> QED BY <2>3, <2>7, <2>8, <3>2, <4>1, <4>2 DEF HasAt
    <3>4. CASE j.pc = "mkdir"
      <4>1. IsDir(fs', z) /\ Kind[j.pkg][j.ver][z] = "dir"
        BY <1>0, <1>2, <2>1, <2>2, <2>3, <3>4, CallTree DEF JobOK
      <4>2. CASE fs[z].kind = "none"
        <5>1. p = j.as
          BY <1>0, <1>2, <2>1, <2>2, <2>3, <2>9, <3>4, <4>2, CallTree
        <5>2. p = j.pkg
          BY <2>3, <5>1, NamesAssumption DEF JobOK
        <5> QED BY <2>3, <4>1, <5>2 DEF HasAt
      <4>3. CASE fs[z].kind # "none"
        <5>1. fs'[z] = fs[z]
          BY <1>0, <1>2, <2>1, <2>2, <2>3, <3>4, <4>3, CallTree
        <5>2. HasAt(p, z)
          BY <1>0, <2>3, <2>9, <4>3, <5>1 DEF OwnAccounted
        <5> QED BY <4>1, <5>1, <5>2 DEF HasAt, IsDir, IsLink
      <4> QED BY <4>2, <4>3
    <3>5. CASE j.pc = "setOwner"
      <4>1. fs'[z].kind = fs[z].kind /\ p = j.pkg
        BY <1>0, <1>2, <2>1, <2>2, <2>3, <2>9, <3>5, CallTree
      <4>2. CASE Kind[j.pkg][j.ver][z] = "dir" /\ IsDir(fs, z)
        BY <2>3, <4>1, <4>2 DEF HasAt, IsDir
      <4>3. CASE Kind[j.pkg][j.ver][z] \in {"link", "reg"} /\ IsLink(fs, z)
        BY <2>3, <2>7, <2>8, <3>2, <4>1, <4>3 DEF HasAt, IsLink
      <4> QED BY <2>3, <3>5, <4>2, <4>3 DEF CallDue
    <3> QED BY <2>4, <3>1, <3>3, <3>4, <3>5
  <2>10. OwnAccounted'
    BY <1>0, <2>3, <2>4, <2>5, <2>9, OwnCall
  <2> QED BY <2>6, <2>10
<1> QED BY <1>1, <1>2

\* What an uninstall finds nothing to do for, or an error, it has cleaned up already.
LEMMA UninstallFinds ==
    ASSUME TypeOK, NEW j \in Jobs, j.act = "uninstall", NEW x \in Items(j.pkg, j.ver), ~Skips(j, x)
    PROVE  /\ Due(j, x) = "fine" /\ Kind[j.pkg][j.ver][x] # "dir" => fs[x].kind = "none"
           /\ Due(j, x) \in {"fine", "error"} /\ Kind[j.pkg][j.ver][x] = "dir" =>
                ~(IsDir(fs, x) /\ fs[x].owner = j.pkg)
<1>1. /\ j.pkg \in Packages /\ j.ver \in Versions /\ x \in Paths /\ fs[x].kind \in Kinds
  BY DEF Jobs, Items, TypeOK, Trees, Node
<1>2. Kind[j.pkg][j.ver][x] \in {"dir", "link", "reg", "other"}
  BY <1>1, StoreAssumption DEF Items
<1>3. CASE Kind[j.pkg][j.ver][x] = "other"
  BY <1>3 DEF Due
<1>4. CASE Kind[j.pkg][j.ver][x] = "dir"
  <2>1. Due(j, x) = UninstallDirectory(j, x)
    BY <1>4 DEF Due
  <2>2. IsDir(fs, x) /\ fs[x].owner = j.pkg => UninstallDirectory(j, x) = "rmdir"
    BY DEF UninstallDirectory, IsDirectory, IsDir, Owns
  <2> QED BY <1>4, <2>1, <2>2
<1>5. CASE Kind[j.pkg][j.ver][x] \in {"link", "reg"}
  <2>1. Due(j, x) = UninstallLink(j, x)
    BY <1>5 DEF Due
  <2>2. UninstallLink(j, x) = "fine" => Vacant(x)
    BY DEF UninstallLink, Vacant
  <2>3. Vacant(x) => fs[x].kind = "none"
    BY <1>1 DEF Vacant, IsLink, Exists, Kinds
  <2> QED BY <1>5, <2>1, <2>2, <2>3
<1> QED BY <1>2, <1>3, <1>4, <1>5

\* A directory with something of another in it keeps that while the third pass
\* goes through the items of the version.
LEMMA ForeignStays ==
    ASSUME Shallow, TypeOK, NEW j \in Jobs, j.act = "uninstall", ~j.bad, j.pass = "third", CleanedUp(j),
           NEW z \in Items(j.pkg, j.ver), ~Skips(j, z),
           \A y \in Paths \ {z} : fs'[y] = fs[y],
           NEW x \in Items(j.pkg, j.ver), HoldsForeign(j.pkg, x)
    PROVE  HoldsForeign(j.pkg, x)'
<1>1. /\ j.pkg \in Packages /\ j.ver \in Versions /\ x \in Paths /\ z \in Paths /\ x # Top
  BY StoreAssumption DEF Jobs, Items
<1>2. PICK y \in Paths : x \in Above[y] /\ fs[y].kind # "none" /\ fs[y].owner # j.pkg
  BY DEF HoldsForeign
<1>3. y # z
  <2>1. CASE Kind[j.pkg][j.ver][z] = "dir"
    BY <1>1, <1>2, <2>1 DEF Shallow
  <2>2. CASE Kind[j.pkg][j.ver][z] # "dir"
    BY <1>2, <2>2 DEF CleanedUp
  <2> QED BY <2>1, <2>2
<1>4. fs'[y] = fs[y]
  BY <1>3
<1> QED BY <1>2, <1>4 DEF HoldsForeign

\* Item z is done with.
LEMMA PassedClean ==
    ASSUME Shallow, TypeOK, NEW j \in Jobs, CleanedUp(j), NEW z \in Items(j.pkg, j.ver), NEW k,
           SameRun(j, k), k.pass = j.pass, k.todo = j.todo \ {z}, j.bad => k.bad,
           \A y \in Paths \ {z} : fs'[y] = fs[y], torn' = torn, fs'[z] = fs[z] \/ ~Skips(j, z),
           fs'[z] = fs[z] \/ fs'[z].kind = "none",
           k.act = "uninstall" /\ k.pass # "dry" /\ ~k.bad /\ ~Skips(j, z) =>
             /\ Kind[j.pkg][j.ver][z] # "dir" => fs'[z].kind = "none"
             /\ /\ Kind[j.pkg][j.ver][z] = "dir" /\ IsDir(fs', z) /\ fs'[z].owner = j.pkg
                /\ j.pass = "third" /\ torn[j.pkg] \subseteq {j.ver}
                => fs' = fs /\ HoldsForeign(j.pkg, z)
    PROVE  CleanedUp(k)'
<1> SUFFICES ASSUME k.act = "uninstall", ~k.bad, k.pass # "dry",
                    NEW x \in Items(k.pkg, k.ver), ~Skips(k, x)
             PROVE  /\ Kind[k.pkg][k.ver][x] # "dir" =>
                         fs'[x].kind = "none" \/ (k.pass = "real" /\ x \in k.todo)
                    /\ /\ Kind[k.pkg][k.ver][x] = "dir" /\ IsDir(fs', x) /\ fs'[x].owner = k.pkg
                       /\ k.pass = "third" /\ x \notin k.todo /\ torn[k.pkg] \subseteq {k.ver}
                       => HoldsForeign(k.pkg, x)'
  BY DEF CleanedUp, Skips, Ignore, ConfigOf
<1>1. /\ j.act = "uninstall" /\ ~j.bad /\ j.pass # "dry" /\ x \in Items(j.pkg, j.ver) /\ ~Skips(j, x)
      /\ k.pkg = j.pkg /\ k.ver = j.ver /\ x \in Paths
  BY SameDue DEF SameRun, Items
<1>2. /\ Kind[j.pkg][j.ver][x] # "dir" => fs[x].kind = "none" \/ (j.pass = "real" /\ x \in j.todo)
      /\ /\ Kind[j.pkg][j.ver][x] = "dir" /\ IsDir(fs, x) /\ fs[x].owner = j.pkg
         /\ j.pass = "third" /\ x \notin j.todo /\ torn[j.pkg] \subseteq {j.ver}
         => HoldsForeign(j.pkg, x)
  BY <1>1 DEF CleanedUp
<1>3. HoldsForeign(j.pkg, x) /\ j.pass = "third" => HoldsForeign(j.pkg, x)'
  <2>1. CASE fs'[z] = fs[z]
    BY <1>1, <2>1 DEF HoldsForeign
  <2>2. CASE ~Skips(j, z)
    BY <1>1, <2>2, ForeignStays
  <2> QED BY <2>1, <2>2
<1>4. CASE x = z
  <2>1. fs' = fs => (HoldsForeign(j.pkg, z) => HoldsForeign(j.pkg, z)')
    BY DEF HoldsForeign
  <2> QED BY <1>1, <1>4, <2>1 DEF IsDir
<1>5. CASE x # z
  <2>1. fs'[x] = fs[x]
    BY <1>1, <1>5
  <2> QED BY <1>1, <1>2, <1>3, <1>5, <2>1 DEF IsDir
<1> QED BY <1>4, <1>5

\* The directory a call of the third pass could not remove holds something of another.
LEMMA LeftHolds ==
    ASSUME RunsAlone, Disciplined, Shallow, FoldersInv, NEW i \in Procs, Active(i), proc[i].act = "uninstall",
           ~proc[i].bad, proc[i].pass = "third",
           NEW z \in Items(proc[i].pkg, proc[i].ver), Kind[proc[i].pkg][proc[i].ver][z] = "dir",
           IsDir(fs, z), fs[z].owner = proc[i].pkg, torn[proc[i].pkg] \subseteq {proc[i].ver},
           ~CanRemove(fs, proc[i].as, z)
    PROVE  HoldsForeign(proc[i].pkg, z)
<1>j. PICK j : j = proc[i]
  OBVIOUS
<1> USE <1>j
<1>0. OrphanInv /\ OwnAccounted /\ fs[Top].kind = "idir" /\ CleanedUp(j) /\ JobOK(j, current)
      /\ j.pkg \in Packages /\ j.ver \in Versions /\ j.as \in {j.pkg, RootUser} /\ j.as \in Users
  BY ActiveJob DEF FoldersInv, JobOK
<1>1. z \in Paths /\ z # Top
  BY <1>0, StoreAssumption DEF Items
<1>2. Above[z] = {Top}
  BY <1>0, <1>1 DEF Shallow
<1>3. DirOf(z) = Top
  <2>1. Top \in Above[z] /\ Above[z] = Above[Top] \cup {Top}
    BY <1>2, PathsAssumption
  <2>2. \E y \in Above[z] : Above[z] = Above[y] \cup {y}
    BY <2>1
  <2>3. DirOf(z) \in Above[z]
    BY <2>2 DEF DirOf
  <2> QED BY <1>2, <2>3
<1>4. MayRemove(fs, j.as, z)
  BY <1>0, <1>3 DEF MayRemove
<1>5. ~IsEmpty(fs, z)
  BY <1>1, <1>4 DEF CanRemove
<1>6. PICK y \in Paths : z \in Above[y] /\ fs[y].kind # "none"
  BY <1>5 DEF IsEmpty
<1>7. fs[y].owner # j.pkg
  <2> SUFFICES ASSUME fs[y].owner = j.pkg PROVE FALSE
    OBVIOUS
  <2>1. HasAt(j.pkg, y)
    BY <1>0, <1>6 DEF OwnAccounted
  <2>2. CASE \E v \in Versions : Kind[j.pkg][v][y] = "dir"
    BY <1>0, <1>1, <1>6, <2>2 DEF Shallow
  <2>3. CASE \E v \in Versions :
               /\ Kind[j.pkg][v][y] \in {"link", "reg"} /\ AccountedFor(j.pkg, v)
               /\ \E u \in Users : y \notin Ignored[u][j.pkg][NoVersion]
    <3>1. PICK v \in Versions :
               /\ Kind[j.pkg][v][y] \in {"link", "reg"} /\ AccountedFor(j.pkg, v)
               /\ \E u \in Users : y \notin Ignored[u][j.pkg][NoVersion]
      BY <2>3
    <3>2. Writing(j.pkg, v) => v = j.ver
      BY DEF Writing, RunsAlone
    <3>3. v = j.ver
      BY <1>0, <3>1, <3>2 DEF AccountedFor, JobOK
    <3>4. y \in Items(j.pkg, j.ver) /\ Kind[j.pkg][j.ver][y] # "dir"
      BY <3>1, <3>3 DEF Items
    <3>5. ~Skips(j, y)
      BY <1>0, <3>1, <3>3, <3>4 DEF Skips, Ignore, ConfigOf, Disciplined, ConfigAgrees
    <3> QED BY <1>0, <1>6, <3>4, <3>5 DEF CleanedUp
  <2> QED BY <2>1, <2>2, <2>3 DEF HasAt
<1> QED BY <1>6, <1>7 DEF HoldsForeign

\* The run goes on in order, or it stops.
Cleans(i) == \E k : Step(i, k) /\ (k.pc # "idle" => CleanedUp(k)' /\ CallDue(k)')

LEMMA StopCleans == ASSUME NEW i, Step(i, IdleJob) PROVE Cleans(i)
BY IdleJobType DEF Cleans

LEMMA NewCleans ==
    ASSUME NEW i, NEW a, NEW p, NEW v, NEW w, NEW u, NEW f, Step(i, NewJob(a, p, v, w, u, f))
    PROVE  Cleans(i)
<1>1. ASSUME NEW k, k = NewJob(a, p, v, w, u, f) PROVE CleanedUp(k)' /\ CallDue(k)'
  <2>1. k.pc = "item" /\ k.pass = "dry"
    BY <1>1 DEF NewJob
  <2> QED BY <2>1 DEF CleanedUp, CallDue
<1> QED BY <1>1 DEF Cleans

\* An error ends the run, or it is noted, or it is one of the third pass.
LEMMA RaiseCleans ==
    ASSUME Shallow, TypeOK, NEW i \in Procs, Active(i), CleanedUp(proc[i]),
           proc[i].pass # "dry", NEW x \in Items(proc[i].pkg, proc[i].ver), Raise(i, x),
           proc[i].act = "uninstall" /\ proc[i].pass = "third" /\ ~Skips(proc[i], x)
             /\ Kind[proc[i].pkg][proc[i].ver][x] = "dir"
             => ~(IsDir(fs, x) /\ fs[x].owner = proc[i].pkg)
    PROVE  Cleans(i)
<1>j. PICK j : j = proc[i]
  OBVIOUS
<1> USE <1>j
<1>1. j \in Jobs /\ fs' = fs
  BY DEF TypeOK, Raise
<1>2. CASE Step(i, IdleJob)
  BY <1>2, StopCleans
<1>3. CASE UNCHANGED torn /\ Step(i, [Passed(j, x) EXCEPT !.bad = @ \/ j.pass = "real"])
  <2>1. PICK k : k = [Passed(j, x) EXCEPT !.bad = @ \/ j.pass = "real"]
    OBVIOUS
  <2>2. /\ k.pc = "item" /\ k.pass = j.pass /\ SameRun(j, k) /\ k.todo = j.todo \ {x}
        /\ k.bad = (j.bad \/ j.pass = "real")
    BY <1>1, <2>1 DEF Passed, Jobs, SameRun
  <2>3. k.act = "uninstall" /\ ~k.bad => j.act = "uninstall" /\ ~j.bad /\ j.pass = "third"
    BY <1>1, <2>2 DEF SameRun, Jobs, Passes
  <2>4. k.act = "uninstall" /\ k.pass # "dry" /\ ~k.bad /\ ~Skips(j, x) =>
          /\ Kind[j.pkg][j.ver][x] # "dir" => fs'[x].kind = "none"
          /\ /\ Kind[j.pkg][j.ver][x] = "dir" /\ IsDir(fs', x) /\ fs'[x].owner = j.pkg
             /\ j.pass = "third" /\ torn[j.pkg] \subseteq {j.ver}
             => fs' = fs /\ HoldsForeign(j.pkg, x)
    BY <1>1, <2>3 DEF CleanedUp
  <2>5. CleanedUp(k)'
    BY <1>1, <1>3, <2>2, <2>4, PassedClean
  <2>6. CallDue(k)'
    BY <2>2 DEF CallDue
  <2> QED BY <1>3, <2>1, <2>5, <2>6 DEF Cleans
<1> QED BY <1>2, <1>3 DEF Raise

\* The state of the process changes, but not where it is in its pass.
LEMMA SameClean ==
    ASSUME NEW j, NEW k, CleanedUp(j), SameRun(j, k), k.pass = j.pass, k.todo = j.todo, k.bad = j.bad,
           fs' = fs, torn' = torn
    PROVE  CleanedUp(k)'
<1>1. \A x : Skips(k, x)' <=> Skips(j, x)
  BY DEF SameRun, Skips, Ignore, ConfigOf
<1> QED BY <1>1 DEF CleanedUp, SameRun, HoldsForeign

LEMMA ItemCleans ==
    ASSUME Shallow, OrphanInv, NEW i \in Procs, CleanedUp(proc[i]), RealItem(i)
    PROVE  Cleans(i)
<1>j. PICK j : j = proc[i]
  OBVIOUS
<1> USE <1>j
<1>0. Active(i) /\ TypeOK
  BY DEF RealItem, Active, OrphanInv
<1>1. j \in Jobs /\ JobOK(j, current) /\ j.act \in {"install", "uninstall"} /\ j.pass # "dry"
  BY <1>0, ActiveJob DEF Jobs, Acts, RealItem
<1>2. PICK x \in Ready(j) :
        \/ Due(j, x) = "fine" /\ Step(i, Passed(j, x)) /\ UNCHANGED <<fs, torn>>
        \/ Due(j, x) = "error" /\ Raise(i, x)
        \/ /\ Due(j, x) \in {"remove", "symlink", "mkdir", "rmdir"}
           /\ Step(i, [j EXCEPT !.pc = Due(j, x), !.at = x])
           /\ UNCHANGED <<fs, torn>>
  BY DEF RealItem
<1>3. x \in Items(j.pkg, j.ver) /\ x \in j.todo
  BY <1>1 DEF Ready, JobOK
<1>4. ASSUME j.act = "uninstall", ~Skips(j, x)
      PROVE  /\ Due(j, x) = "fine" /\ Kind[j.pkg][j.ver][x] # "dir" => fs[x].kind = "none"
             /\ Due(j, x) \in {"fine", "error"} /\ Kind[j.pkg][j.ver][x] = "dir" =>
                  ~(IsDir(fs, x) /\ fs[x].owner = j.pkg)
  BY <1>0, <1>1, <1>3, <1>4, UninstallFinds
<1>5. CASE Due(j, x) = "fine" /\ Step(i, Passed(j, x)) /\ UNCHANGED <<fs, torn>>
  <2>1. PICK k : k = Passed(j, x)
    OBVIOUS
  <2>2. /\ k.pc = "item" /\ k.pass = j.pass /\ SameRun(j, k) /\ k.todo = j.todo \ {x}
        /\ k.bad = j.bad
    BY <1>1, <2>1 DEF Passed, Jobs, SameRun
  <2>3. k.act = "uninstall" /\ k.pass # "dry" /\ ~k.bad /\ ~Skips(j, x) =>
          /\ Kind[j.pkg][j.ver][x] # "dir" => fs'[x].kind = "none"
          /\ /\ Kind[j.pkg][j.ver][x] = "dir" /\ IsDir(fs', x) /\ fs'[x].owner = j.pkg
             /\ j.pass = "third" /\ torn[j.pkg] \subseteq {j.ver}
             => fs' = fs /\ HoldsForeign(j.pkg, x)
    BY <1>4, <1>5, <2>2 DEF SameRun
  <2>4. CleanedUp(k)'
    BY <1>0, <1>1, <1>3, <1>5, <2>2, <2>3, PassedClean
  <2>5. CallDue(k)'
    BY <2>2 DEF CallDue
  <2> QED BY <1>5, <2>1, <2>4, <2>5 DEF Cleans
<1>6. CASE Due(j, x) = "error" /\ Raise(i, x)
  BY <1>0, <1>1, <1>3, <1>4, <1>6, RaiseCleans
<1>7. CASE /\ Due(j, x) \in {"remove", "symlink", "mkdir", "rmdir"}
           /\ Step(i, [j EXCEPT !.pc = Due(j, x), !.at = x])
           /\ UNCHANGED <<fs, torn>>
  <2>1. PICK k : k = [j EXCEPT !.pc = Due(j, x), !.at = x]
    OBVIOUS
  <2>2. /\ k.pc = Due(j, x) /\ k.at = x /\ k.pass = j.pass /\ SameRun(j, k) /\ k.todo = j.todo
        /\ k.bad = j.bad
    BY <1>1, <2>1 DEF Jobs, SameRun
  <2>3. CleanedUp(k)'
    BY <1>7, <2>2, SameClean
  <2>4. ~Skips(j, x)
    BY <1>7 DEF Due
  <2>5. CallDue(k)'
    <3>1. k.pc \in {"remove", "symlink", "mkdir", "rmdir"} /\ k.at = x /\ x \in k.todo
      BY <1>3, <1>7, <2>2
    <3>2. ~Skips(k, x)'
      BY <2>2, <2>4 DEF Skips, Ignore, ConfigOf, SameRun
    <3> QED BY <3>1, <3>2 DEF CallDue
  <2> QED BY <1>7, <2>1, <2>3, <2>5 DEF Cleans
<1> QED BY <1>2, <1>5, <1>6, <1>7

LEMMA PassCleans ==
    ASSUME OrphanInv, NEW i \in Procs, CleanedUp(proc[i]), CallDue(proc[i]),
           DryItem(i) \/ DryStop(i) \/ DryEnd(i) \/ RealEnd(i)
    PROVE  Cleans(i)
<1>j. PICK j : j = proc[i]
  OBVIOUS
<1> USE <1>j
<1>0. Active(i) /\ fs' = fs /\ torn' = torn /\ j.pc = "item"
  BY DEF DryItem, DryStop, DryEnd, RealEnd, Active
<1>1. j \in Jobs
  BY <1>0, ActiveJob
<1>2. CASE DryItem(i)
  <2>1. PICK x, k : k = [Passed(j, x) EXCEPT !.err = @ \/ Due(j, x) = "error"] /\ Step(i, k)
    BY <1>2 DEF DryItem
  <2>2. k.pc = "item" /\ k.pass = "dry"
    BY <1>1, <1>2, <2>1 DEF DryItem, Passed, Jobs
  <2> QED BY <2>1, <2>2 DEF Cleans, CleanedUp, CallDue
<1>3. CASE DryStop(i)
  BY <1>3, StopCleans DEF DryStop
<1>4. CASE DryEnd(i)
  <2>1. PICK k : k = [j EXCEPT !.pass = "real", !.todo = Items(j.pkg, j.ver)]
    OBVIOUS
  <2>2. k.pc = "item" /\ k.pass = "real" /\ k.todo = Items(k.pkg, k.ver) /\ Step(i, k)
    BY <1>1, <1>4, <2>1 DEF DryEnd, Jobs
  <2> QED BY <2>2 DEF Cleans, CleanedUp, CallDue
<1>5. CASE RealEnd(i) /\ j.act = "uninstall" /\ j.pass = "real"
  <2>1. PICK k : k = [j EXCEPT !.pass = "third", !.todo = Items(j.pkg, j.ver)]
    OBVIOUS
  <2>2. /\ k.pc = "item" /\ k.pass = "third" /\ k.todo = Items(j.pkg, j.ver) /\ SameRun(j, k)
        /\ k.bad = j.bad /\ Step(i, k)
    BY <1>1, <1>5, <2>1 DEF RealEnd, Jobs, SameRun
  <2>3. j.todo = {}
    BY <1>5 DEF RealEnd
  <2>4. \A x : Skips(k, x)' <=> Skips(j, x)
    BY <2>2 DEF SameRun, Skips, Ignore, ConfigOf
  <2>5. CleanedUp(k)'
    BY <1>0, <1>5, <2>2, <2>3, <2>4 DEF CleanedUp, SameRun
  <2>6. CallDue(k)'
    BY <2>2 DEF CallDue
  <2> QED BY <2>2, <2>5, <2>6 DEF Cleans
<1>6. CASE RealEnd(i) /\ ~(j.act = "uninstall" /\ j.pass = "real")
  <2>1. PICK k : k = [j EXCEPT !.pc = "clearCurrent"]
    OBVIOUS
  <2>2. /\ k.pc = "clearCurrent" /\ k.pass = j.pass /\ k.todo = j.todo /\ SameRun(j, k)
        /\ k.bad = j.bad /\ Step(i, k)
    BY <1>1, <1>6, <2>1 DEF RealEnd, Jobs, SameRun
  <2>3. CleanedUp(k)'
    BY <1>0, <2>2, SameClean
  <2>4. CallDue(k)'
    BY <1>6, <2>2 DEF CallDue, RealEnd
  <2> QED BY <2>2, <2>3, <2>4 DEF Cleans
<1> QED BY <1>2, <1>3, <1>4, <1>5, <1>6

LEMMA CallCleans ==
    ASSUME RunsAlone, Disciplined, Shallow, FoldersInv, NEW i \in Procs,
           Remove(i) \/ RemoveDirectory(i) \/ Symlink(i) \/ MakeDirectory(i) \/ SetOwner(i)
    PROVE  Cleans(i)
<1>j. PICK j : j = proc[i]
  OBVIOUS
<1>z. PICK z : z = j.at
  OBVIOUS
<1> USE <1>j, <1>z
<1>0. /\ Active(i) /\ Work(i) /\ OrphanInv /\ TypeOK /\ fs[Top].kind = "idir"
      /\ j.pc \in {"remove", "rmdir", "symlink", "mkdir", "setOwner"}
  BY DEF Remove, RemoveDirectory, Symlink, MakeDirectory, SetOwner, Active, Work, FoldersInv, OrphanInv
<1>1. j \in Jobs /\ JobOK(j, current) /\ CleanedUp(j) /\ CallDue(j) /\ j.act \in {"install", "uninstall"}
  BY <1>0, ActiveJob DEF FoldersInv, Jobs, Acts
<1>2. z \in j.todo /\ ~Skips(j, z) /\ z \in Items(j.pkg, j.ver) /\ j.pass # "dry" /\ z \in Paths
  BY <1>0, <1>1 DEF CallDue, JobOK, Items
<1>3. CASE Raise(i, z) /\ j.pc # "rmdir"
  <2>1. j.act = "uninstall" => Kind[j.pkg][j.ver][z] \in {"link", "reg"}
    BY <1>0, <1>1, <1>3 DEF JobOK
  <2> QED BY <1>0, <1>1, <1>2, <1>3, <2>1, RaiseCleans
<1>4. CASE ~Raise(i, z) \/ j.pc = "rmdir"
  <2>1. UNCHANGED torn /\ \A y \in Paths \ {z} : fs'[y] = fs[y]
    <3>1. CASE fs' = fs
      BY <1>4, <3>1 DEF Remove, RemoveDirectory, Symlink, MakeDirectory, SetOwner
    <3>2. CASE fs' # fs
      BY <1>0, <1>1, <3>2, CallTree
    <3> QED BY <3>1, <3>2
  <2>2. CASE j.act = "install"
    <3>1. PICK k : /\ Step(i, k)
                   /\ \/ k = Passed(j, z)
                      \/ k = [j EXCEPT !.pc = "symlink"] /\ j.pc = "remove"
                      \/ /\ k = [j EXCEPT !.pc = "setOwner"]
                         /\ j.pc \in {"symlink", "mkdir"}
      BY <1>4 DEF Remove, RemoveDirectory, Symlink, MakeDirectory, SetOwner
    <3>2. SameRun(j, k) /\ k.act = "install"
      BY <1>1, <2>2, <3>1 DEF Passed, Jobs, SameRun
    <3>3. CleanedUp(k)'
      BY <3>2 DEF CleanedUp
    <3>4. CASE k = Passed(j, z)
      <4>1. k.pc = "item"
        BY <1>1, <3>4 DEF Passed, Jobs
      <4>2. CallDue(k)'
        BY <4>1 DEF CallDue
      <4> QED BY <3>1, <3>3, <4>2 DEF Cleans
    <3>5. CASE k = [j EXCEPT !.pc = "symlink"]
      <4>1. k.pc = "symlink" /\ k.at = z /\ k.todo = j.todo
        BY <1>1, <3>5 DEF Jobs
      <4>2. CallDue(k)'
        BY <1>2, <3>2, <4>1 DEF CallDue, SameRun, Skips, Ignore, ConfigOf
      <4> QED BY <3>1, <3>3, <4>2 DEF Cleans
    <3>6. CASE k = [j EXCEPT !.pc = "setOwner"] /\ j.pc \in {"symlink", "mkdir"}
      <4>1. k.pc = "setOwner" /\ k.at = z /\ k.todo = j.todo
        BY <1>1, <3>6 DEF Jobs
      <4>2. \/ j.pc = "mkdir" /\ IsDir(fs', z)
            \/ j.pc = "symlink" /\ IsLink(fs', z)
        <5>1. CASE fs' # fs
          BY <1>0, <1>1, <3>6, <5>1, CallTree
        <5>2. CASE j.pc = "mkdir"
          <6>1. fs' = MadeDirs(fs, j.as, z) /\ CanMakeDirs(fs, j.as, z)
            BY <1>0, <1>4, <5>2 DEF Remove, RemoveDirectory, Symlink, MakeDirectory, SetOwner
          <6> QED BY <1>2, <5>2, <6>1 DEF MadeDirs, CanMakeDirs, Missing, Dir, IsDir
        <5>3. CASE j.pc = "symlink"
          <6>1. fs' = Symlinked(fs, j.as, z, LinkContent(j.pkg, j.ver, z))
            BY <1>0, <1>4, <5>3 DEF Remove, RemoveDirectory, Symlink, MakeDirectory, SetOwner
          <6> QED BY <1>0, <1>2, <5>3, <6>1 DEF Symlinked, Link, IsLink, TypeOK, Trees
        <5> QED BY <3>6, <5>2, <5>3
      <4>3. CallDue(k)'
        BY <1>1, <1>2, <3>2, <4>1, <4>2 DEF CallDue, SameRun, Skips, Ignore, ConfigOf, JobOK, IsDir, IsLink
      <4> QED BY <3>1, <3>3, <4>3 DEF Cleans
    <3> QED BY <3>1, <3>4, <3>5, <3>6
  <2>3. CASE j.act = "uninstall"
    <3>1. j.pc \in {"remove", "rmdir"} /\ Step(i, Passed(j, z))
      BY <1>0, <1>1, <1>4, <2>3 DEF JobOK, Remove, RemoveDirectory, Symlink, MakeDirectory, SetOwner
    <3>2. PICK k : k = Passed(j, z)
      OBVIOUS
    <3>3. /\ k.pc = "item" /\ k.pass = j.pass /\ SameRun(j, k) /\ k.todo = j.todo \ {z}
          /\ k.bad = j.bad
      BY <1>1, <3>2 DEF Passed, Jobs, SameRun
    <3>4. \/ fs'[z].kind = "none"
          \/ j.pc = "rmdir" /\ fs' = fs /\ ~CanRemove(fs, j.as, z)
      <4>1. fs' = Removed(fs, z) \/ (j.pc = "rmdir" /\ fs' = fs /\ ~CanRemove(fs, j.as, z))
        BY <1>0, <1>4, <3>1 DEF Remove, RemoveDirectory, Symlink, MakeDirectory, SetOwner
      <4>2. fs' = Removed(fs, z) => fs'[z].kind = "none"
        BY <1>0, <1>2 DEF Removed, Absent, TypeOK, Trees
      <4> QED BY <4>1, <4>2
    <3>5. j.pc = "rmdir" => Kind[j.pkg][j.ver][z] = "dir"
      BY <1>1 DEF JobOK
    <3>6. k.act = "uninstall" /\ k.pass # "dry" /\ ~k.bad /\ ~Skips(j, z) =>
            /\ Kind[j.pkg][j.ver][z] # "dir" => fs'[z].kind = "none"
            /\ /\ Kind[j.pkg][j.ver][z] = "dir" /\ IsDir(fs', z) /\ fs'[z].owner = j.pkg
               /\ j.pass = "third" /\ torn[j.pkg] \subseteq {j.ver}
               => fs' = fs /\ HoldsForeign(j.pkg, z)
      <4>1. CASE fs'[z].kind = "none"
        BY <4>1 DEF IsDir
      <4>2. CASE j.pc = "rmdir" /\ fs' = fs /\ ~CanRemove(fs, j.as, z)
        <5>1. ASSUME ~j.bad, IsDir(fs, z), fs[z].owner = j.pkg, j.pass = "third",
                     torn[j.pkg] \subseteq {j.ver}
              PROVE  HoldsForeign(j.pkg, z)
          BY <1>0, <1>2, <2>3, <3>5, <4>2, <5>1, LeftHolds
        <5> QED BY <3>3, <3>5, <4>2, <5>1
      <4> QED BY <3>4, <4>1, <4>2
    <3>7. CleanedUp(k)'
      BY <1>0, <1>1, <1>2, <2>1, <3>3, <3>4, <3>6, PassedClean
    <3>8. CallDue(k)'
      BY <3>3 DEF CallDue
    <3> QED BY <3>1, <3>2, <3>7, <3>8 DEF Cleans
  <2> QED BY <1>1, <2>2, <2>3
<1> QED BY <1>3, <1>4

LEMMA EndCleans ==
    ASSUME OrphanInv, NEW i \in Procs, CleanedUp(proc[i]), CallDue(proc[i]),
           ClearCurrent(i) \/ SetCurrent(i) \/ Crash(i)
    PROVE  Cleans(i)
<1>j. PICK j : j = proc[i]
  OBVIOUS
<1> USE <1>j
<1>1. j \in Jobs
  BY DEF OrphanInv, TypeOK
<1>2. CASE ClearCurrent(i) /\ j.act = "install"
  <2>1. PICK k : k = [j EXCEPT !.pc = "setCurrent"]
    OBVIOUS
  <2>2. k.pc = "setCurrent" /\ k.act = "install" /\ Step(i, k)
    BY <1>1, <1>2, <2>1 DEF ClearCurrent, Jobs
  <2> QED BY <2>2 DEF Cleans, CleanedUp, CallDue
<1>3. CASE ClearCurrent(i) /\ j.act # "install"
  <2>1. \/ Step(i, IdleJob)
        \/ Step(i, NewJob("install", j.pkg, j.next, NoVersion, j.as, j.flags))
    BY <1>3 DEF ClearCurrent
  <2> QED BY <2>1, StopCleans, NewCleans
<1>4. CASE SetCurrent(i) \/ Crash(i)
  BY <1>4, StopCleans DEF SetCurrent, Crash
<1> QED BY <1>2, <1>3, <1>4

LEMMA CommandCleans == ASSUME NEW i, Command(i) PROVE Cleans(i)
BY NewCleans DEF Command, Install, Uninstall

LEMMA FoldersStep ==
    ASSUME RunsAlone, Disciplined, Shallow, FoldersInv, [Next]_vars
    PROVE  FoldersInv'
<1>0. OrphanInv'
  BY OrphanInductive DEF FoldersInv
<1>1. CASE UNCHANGED vars
  BY <1>0, <1>1
     DEF vars, FoldersInv, OwnAccounted, HasAt, AccountedFor, Writing, Active, CleanedUp, CallDue,
         HoldsForeign, Skips, Ignore, ConfigOf
<1>2. ASSUME NEW i \in Procs, Command(i) \/ Work(i) \/ Crash(i) PROVE FoldersInv'
  <2>1. Active(i) => CleanedUp(proc[i]) /\ CallDue(proc[i])
    BY DEF FoldersInv
  <2>2. ~Command(i) => Active(i)
    BY <1>2 DEF Work, DryItem, DryStop, DryEnd, RealItem, RealEnd, Remove, RemoveDirectory, Symlink,
             SetOwner, MakeDirectory, ClearCurrent, SetCurrent, Crash, Active
  <2>3. Cleans(i)
    BY <1>2, <2>1, <2>2, CommandCleans, ItemCleans, PassCleans, CallCleans, EndCleans
       DEF FoldersInv, Work
  <2>4. PICK k : Step(i, k) /\ (k.pc # "idle" => CleanedUp(k)' /\ CallDue(k)')
    BY <2>3 DEF Cleans
  <2>5. proc'[i] = k /\ \A m \in Procs : m = i
    BY <2>4 DEF FoldersInv, OrphanInv, TypeOK, Step, RunsAlone
  <2>6. ASSUME NEW m \in Procs, Active(m)' PROVE CleanedUp(proc[m])' /\ CallDue(proc[m])'
    <3>1. proc'[m] = k /\ k.pc # "idle"
      BY <2>5, <2>6 DEF Active
    <3>2. CleanedUp(k)' /\ CallDue(k)'
      BY <2>4, <3>1
    <3> QED BY <3>1, <3>2
  <2>7. OwnAccounted' /\ fs'[Top].kind = "idir"
    BY <1>2, OwnStep
  <2> QED BY <1>0, <2>6, <2>7 DEF FoldersInv
<1> QED BY <1>1, <1>2 DEF Next

LEMMA FoldersInit == OpenAtFirst /\ Init => FoldersInv
<1> SUFFICES ASSUME OpenAtFirst, Init PROVE FoldersInv
  OBVIOUS
<1>1. OrphanInv /\ \A i \in Procs : ~Active(i)
  BY OrphanInit DEF Init, Active, IdleJob, NewJob
<1> QED BY <1>1 DEF FoldersInv, OwnAccounted, OpenAtFirst, Init

LEMMA FoldersImplies == ASSUME RunsAlone, FoldersInv PROVE FoldersGone
<1> SUFFICES ASSUME NEW i \in Procs, NEW j, j = proc[i],
                    j.pc = "clearCurrent", j.act = "uninstall", ~j.bad, torn[j.pkg] \subseteq {j.ver},
                    NEW x \in Items(j.pkg, j.ver), IsDir(fs, x), Owns(j, x), ~Skips(j, x)
             PROVE  \E y \in Paths : x \in Above[y] /\ fs[y].kind # "none" /\ ~Owns(j, y)
  BY DEF FoldersGone
<1>1. Active(i) /\ OrphanInv /\ CleanedUp(j) /\ CallDue(j)
  BY DEF Active, FoldersInv
<1>2. j.pass = "third" /\ j.todo = {}
  BY <1>1, ActiveJob DEF JobOK, CallDue
<1>3. Kind[j.pkg][j.ver][x] = "dir"
  BY <1>1, <1>2 DEF CleanedUp, IsDir
<1>4. HoldsForeign(j.pkg, x)
  BY <1>1, <1>2, <1>3 DEF CleanedUp, Owns
<1> QED BY <1>4 DEF HoldsForeign, Owns

\* Whatever the versions, the flags and the kills: an uninstall that skipped no error, of
\* a package with no other version left half installed, leaves a directory of the package only
\* if something of another owner is in it; this is what the third pass of pexecU is for.
\* The conditions: one run at a time, as in NoForgottenLinks; at first nothing
\* belongs to a package user and all may add to the top; and no directory of a package is
\* in another one. Where one is, the third pass visits the outer one first and the
\* run folders of MCTpkgs shows it left behind.
THEOREM EmptyFoldersGo ==
    ASSUME RunsAlone, Disciplined, Shallow, OpenAtFirst
    PROVE  Spec => []FoldersGone
<1>1. FoldersInv /\ [Next]_vars => FoldersInv'
  BY FoldersStep
<1>2. Init => FoldersInv
  BY FoldersInit
<1>3. FoldersInv => FoldersGone
  BY FoldersImplies
<1> QED BY <1>1, <1>2, <1>3, PTL DEF Spec
=============================================================================
