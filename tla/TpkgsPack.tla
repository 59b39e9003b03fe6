------------------------------ MODULE TpkgsPack ------------------------------
(***************************************************************************)
(* tpkgs --pack: the files a package's build has just installed are moved  *)
(* into /packages/p/v, and links to them take their place in the system.   *)
(*                                                                         *)
(* A file is in two trees in turn, the system and the store, and for a     *)
(* moment in one of them only: sys and store are the two trees, and every  *)
(* system call of packReg, packLink, packDir and moveOrCopy is a step, so  *)
(* that a run can be killed, or a call can fail, between any two of them.  *)
(* One package is enough: the owner of a file is "yes" if user and group   *)
(* are the package's, "part" if one of them is, "no" otherwise.            *)
(***************************************************************************)
EXTENDS Naturals, FiniteSets

CONSTANTS
    Procs,       \* slots for concurrently running processes
    Versions,    \* version strings
    NoVersion,   \* the empty version string
    Paths,       \* paths below /, and the same paths below a version directory
    Above,       \* Above[x]: the proper ancestors of path x
    Data,        \* contents of regular files
    EmptyFile,   \* the content of length 0
    Texts,       \* contents of links that do not point into the store
    Dangling,    \* the texts that name a file that does not exist
    NoContent,   \* the content of a directory and of nothing
    Far,         \* the paths on another device than /packages
    Roots,       \* the directories listed in /etc/install-dirs
    Ignored,     \* the paths the configuration ignores or does not map
    FlagSets,    \* FlagSets[as]: the flags that may be given to --pack, run by
                 \* as = "yes": the package user, "no": root
    InitialTree, \* the system before the first build
    Builds,      \* what a build may install
    MaxRuns,     \* bound: the number of runs
    OneAtATime,  \* TRUE if there is one run at a time
    MayFail,     \* TRUE if system calls may fail
    MayCrash     \* TRUE if runs may be killed

StoreFiles == Versions \X Paths
Owners == {"yes", "part", "no"}

Absent == [kind |-> "none", mine |-> "no", is |-> NoContent]
Dir(m) == [kind |-> "dir", mine |-> m, is |-> NoContent]
Link(m, c) == [kind |-> "link", mine |-> m, is |-> c]
Regular(m, d) == [kind |-> "reg", mine |-> m, is |-> d]

Node == {Absent} \cup {Dir(m) : m \in Owners}
            \cup {Link(m, c) : m \in Owners, c \in Texts \cup StoreFiles}
            \cup {Regular(m, d) : m \in Owners, d \in Data}
Trees == [Paths -> Node]

Flags == {"overWrong", "ignoreErrors", "bypass", "cache", "dryRun", "installDevice"}

ASSUME NamesAssumption ==
    /\ NoVersion \notin Versions /\ Versions # {}
    /\ Dangling \subseteq Texts /\ Texts \cap StoreFiles = {} /\ NoContent \notin Data
    /\ FlagSets \in [{"yes", "no"} -> SUBSET SUBSET Flags]

ASSUME TreeAssumption ==
    /\ Above \in [Paths -> SUBSET Paths]
    /\ Paths # {}
    /\ \A x \in Paths : x \notin Above[x] /\ \A y \in Above[x] : Above[y] \subseteq Above[x]
    /\ Roots \subseteq Paths /\ Far \subseteq Paths /\ Ignored \subseteq Paths

\* Nothing is packed at first, and a build does not know where it will be packed.
ASSUME BuildsAssumption ==
    /\ InitialTree \in Trees
    /\ \A x \in Paths :
         /\ InitialTree[x].is \notin StoreFiles
         /\ InitialTree[x].kind # "none" => \A y \in Above[x] : InitialTree[y].kind = "dir"
    /\ \A b \in Builds :
         /\ DOMAIN b \subseteq Paths
         /\ \A x \in DOMAIN b : b[x] \in Node /\ b[x].is \notin StoreFiles

ASSUME SwitchAssumption ==
    MaxRuns \in Nat /\ OneAtATime \in BOOLEAN /\ MayFail \in BOOLEAN /\ MayCrash \in BOOLEAN

VARIABLES
    sys,      \* the installed system
    store,    \* store[v]: the tree below /packages/p/v
    tmp,      \* the <<v, x>> for which the file /packages/p/v/x.tmp exists
    current,  \* the version /packages/p/Current names
    cache,    \* the paths in the --cache-file
    runs,     \* the number of runs so far, which MaxRuns bounds
    proc,     \* proc[i]: the state of process i
    torn,     \* history: a run was cut short, skipped an error or did not look
              \* through the install directories
    passed    \* history: the version and flags of the last dry run, if it
              \* found no error and nothing was built since
vars == <<sys, store, tmp, current, cache, runs, proc, torn, passed>>
history == <<runs, torn, passed>>

Pcs == {"idle", "dry", "item", "parents", "rename", "open", "write", "place",
        "unlinkInstalled", "linkInstalled", "ownInstalled", "unlinkSource",
        "linkSource", "ownSource", "makeDir", "clearCurrent", "setCurrent"}

Jobs == [pc : Pcs, ver : Versions \cup {NoVersion}, as : {"yes", "no"}, flags : SUBSET Flags,
         list : SUBSET Paths,        \* the item list
         seen : Trees,               \* what the items were when it was made
         todo : SUBSET Paths, at : Paths,
         buf : Data \cup {NoContent},  \* MMap of the file that is copied
         bad : BOOLEAN]              \* an error was skipped, or an old list used

IdleJob ==
    [pc |-> "idle", ver |-> NoVersion, as |-> "no", flags |-> {},
     list |-> {}, seen |-> [x \in Paths |-> Absent], todo |-> {},
     at |-> CHOOSE x \in Paths : TRUE, buf |-> NoContent, bad |-> FALSE]

Active(i) == proc[i].pc # "idle"
AllIdle == \A i \in Procs : ~Active(i)

Content_NoVersion(j) == <<NoVersion, j.at>>

\* The content of the link that takes the place of a file: the absolute source path.
Content(j) == <<j.ver, j.at>>

Step(i, j) == proc' = [proc EXCEPT ![i] = j]

-----------------------------------------------------------------------------
(* The files of the package that are not packed yet                          *)

\* RecursiveFileIterator comes to x from the directory r; install-dirs stops at
\* directories that are foreign or ignored, install-device at other devices.
Walked(t, x, r, wide) ==
    /\ r \in Above[x] /\ t[r].kind = "dir"
    /\ \A y \in Above[x] :
         r \in Above[y] =>
            /\ t[y].kind = "dir"
            /\ IF wide THEN y \notin Far ELSE t[y].mine # "no" /\ y \notin Ignored

Mine(t, x) == t[x].kind # "none" /\ t[x].mine # "no"

InInstallDirs(t) ==
    {x \in Paths : Mine(t, x) /\ \E r \in Roots : Walked(t, x, r, FALSE)}

OnInstallDevice(t) ==
    {x \in Paths \ Far :
        Mine(t, x) /\ \E r \in {y \in Paths : Above[y] = {}} : Walked(t, x, r, TRUE)}

Found(t, f) ==
    IF "installDevice" \in f THEN OnInstallDevice(t) ELSE InInstallDirs(t)

-----------------------------------------------------------------------------
(* What an item asks for                                                     *)

\* The content of the regular file that node n is or, as a link into the store, names.
DataOf(n) ==
    CASE n.kind = "reg" -> n.is
      [] n.kind = "link" /\ n.is \in StoreFiles ->
           LET m == store[n.is[1]][n.is[2]] IN IF m.kind = "reg" THEN m.is ELSE NoContent
      [] OTHER -> NoContent

Exists(n) ==
    CASE n.kind = "link" /\ n.is \in Texts -> n.is \notin Dangling
      [] n.kind = "link" /\ n.is \notin Texts -> DataOf(n) # NoContent
      [] OTHER -> n.kind # "none"

PackReg_NoCompare(n, s) ==
    CASE DataOf(s) # NoContent -> "unlinkInstalled"
      [] (s.kind = "link" \/ Exists(s)) /\ DataOf(s) = NoContent -> "error"
      [] OTHER -> "parents"

PackReg_Overwrite(n, s) ==
    CASE DataOf(s) # NoContent /\ DataOf(s) = DataOf(n) -> "unlinkInstalled"
      [] OTHER -> "parents"

\* n is what is installed, s what is in its place in the store.
PackReg(n, s) ==
    CASE DataOf(s) # NoContent /\ DataOf(s) = DataOf(n) -> "unlinkInstalled"
      [] (s.kind = "link" \/ Exists(s)) /\ ~(DataOf(s) # NoContent /\ DataOf(s) = DataOf(n)) -> "error"
      [] OTHER -> "parents"

PackLink_Installed(c, s, here, f) ==
    CASE c \in StoreFiles \/ (s.kind = "link" /\ s.is = c) -> "fine"
      [] c \notin StoreFiles /\ s.kind = "link" /\ s.is # c ->
           IF "overWrong" \in f THEN "unlinkSource" ELSE "error"
      [] c \notin StoreFiles /\ s.kind \in {"reg", "dir"} -> "error"
      [] OTHER -> "parents"

PackLink_NoCheck(c, s, here, f) ==
    CASE s.kind = "link" /\ s.is = c -> "fine"
      [] s.kind = "link" /\ s.is # c ->
           IF "overWrong" \in f THEN "unlinkSource" ELSE "error"
      [] s.kind = "reg" /\ c = here -> "fine"
      [] OTHER -> "parents"

\* c is the content of the installed link, here the name of s.
PackLink(c, s, here, f) ==
    CASE s.kind = "link" /\ s.is = c -> "fine"
      [] s.kind = "link" /\ s.is # c ->
           IF "overWrong" \in f THEN "unlinkSource" ELSE "error"
      [] s.kind = "reg" /\ c = here -> "fine"
      [] s.kind \in {"reg", "dir"} /\ ~(s.kind = "reg" /\ c = here) -> "error"
      [] OTHER -> "parents"

PackDir_Strict(s) == IF s.kind = "none" THEN "makeDir" ELSE "error"

PackDir(s) ==
    CASE s.kind = "dir" -> "fine"
      [] s.kind # "dir" /\ Exists(s) -> "error"
      [] OTHER -> "makeDir"

\* The first system call that version v with flags f makes for item x, which was
\* node was when the list was made.
Due(v, f, x, was) ==
    CASE x \in Ignored -> "fine"
      [] x \notin Ignored /\ was.kind = "reg" -> PackReg(sys[x], store[v][x])
      [] x \notin Ignored /\ was.kind = "link" -> PackLink(was.is, store[v][x], <<v, x>>, f)
      [] x \notin Ignored /\ was.kind = "dir" -> PackDir(store[v][x])
      [] OTHER -> "error"

Ready(j) == {x \in j.todo : Above[x] \cap j.todo = {}}

-----------------------------------------------------------------------------
(* Steps                                                                     *)

Passed(j) == [j EXCEPT !.pc = "item", !.todo = @ \ {j.at}, !.buf = NoContent]
Stop(i) == Step(i, IdleJob) /\ torn' = TRUE

\* An exception of a system call or an error of the real pass.
Raise(i, j) ==
    /\ IF "ignoreErrors" \in j.flags
       THEN Step(i, [Passed(j) EXCEPT !.bad = TRUE]) /\ UNCHANGED torn
       ELSE Stop(i)
    /\ UNCHANGED <<sys, store, current, cache, runs, passed>>

Fail(i) == Raise(i, proc[i]) /\ UNCHANGED tmp

\* The package user builds and installs the package.
Build(b) ==
    /\ AllIdle
    /\ LET t == [x \in Paths |-> IF x \in DOMAIN b THEN b[x] ELSE sys[x]] IN
         /\ \A x \in Paths : t[x].kind # "none" => \A y \in Above[x] : t[y].kind = "dir"
         /\ sys' = t
    /\ passed' = <<>>
    /\ UNCHANGED <<store, tmp, current, cache, runs, proc, torn>>

\* tpkgs --pack v up to the dry run. A real run makes the directory of the version,
\* which may fail.
Pack(i, v, as, f) ==
    LET old == "cache" \in f /\ cache # {}
        list == IF old THEN cache ELSE Found(sys, f) IN
    /\ ~Active(i) /\ (OneAtATime => AllIdle)
    /\ runs < MaxRuns /\ runs' = runs + 1
    /\ current = NoVersion \/ "bypass" \in f
    /\ list # {}
    /\ cache' = IF "cache" \in f THEN list ELSE cache
    /\ \/ Step(i, [IdleJob EXCEPT !.pc = "dry", !.ver = v, !.as = as, !.flags = f,
                       !.list = list, !.todo = list, !.bad = old,
                       !.seen = [x \in Paths |-> IF x \in list THEN sys[x] ELSE Absent]])
       \/ MayFail /\ "dryRun" \notin f /\ UNCHANGED proc
    /\ UNCHANGED <<sys, store, tmp, current, torn, passed>>

\* The dry run changes nothing, so that it is one step.
DryRun(i) ==
    LET j == proc[i]
        err == \E x \in j.list : Due(j.ver, j.flags, x, j.seen[x]) = "error" IN
    /\ j.pc = "dry"
    /\ passed' = IF err THEN <<>> ELSE <<j.ver, j.flags>>
    /\ Step(i, IF "dryRun" \in j.flags \/ (err /\ "ignoreErrors" \notin j.flags)
               THEN IdleJob ELSE [j EXCEPT !.pc = "item"])
    /\ UNCHANGED <<sys, store, tmp, current, cache, runs, torn>>

Item(i) ==
    LET j == proc[i] IN
    /\ j.pc = "item"
    /\ \E x \in Ready(j) :
         LET due == Due(j.ver, j.flags, x, j.seen[x])
             k == [j EXCEPT !.at = x] IN
         \/ /\ due = "error"
            /\ Raise(i, k) /\ UNCHANGED tmp
         \/ /\ due # "error"
            /\ Step(i, IF due = "fine" THEN Passed(k) ELSE [k EXCEPT !.pc = due])
            /\ UNCHANGED <<sys, store, tmp, current, cache, history>>

\* fs::create_directories in the version directory.
DirsMade(t, xs, m) ==
    [y \in Paths |-> IF y \in xs /\ t[y].kind = "none" THEN Dir(m) ELSE t[y]]

InStore(i, can, t, pc) ==
    LET j == proc[i] IN
    \/ /\ can
       /\ store' = [store EXCEPT ![j.ver] = t]
       /\ Step(i, [j EXCEPT !.pc = pc])
       /\ UNCHANGED <<sys, tmp, current, cache, history>>
    \/ (~can \/ MayFail) /\ Fail(i)

Parents(i) ==
    LET j == proc[i] IN
    /\ j.pc = "parents"
    /\ InStore(i, \A y \in Above[j.at] : store[j.ver][y].kind \in {"none", "dir"},
               DirsMade(store[j.ver], Above[j.at], j.as),
               IF j.seen[j.at].kind = "reg" THEN "rename" ELSE "linkSource")

MakeDir(i) ==
    LET j == proc[i] IN
    /\ j.pc = "makeDir"
    /\ InStore(i, \A y \in Above[j.at] \cup {j.at} : store[j.ver][y].kind \in {"none", "dir"},
               DirsMade(store[j.ver], Above[j.at] \cup {j.at}, j.as), "ownSource")

UnlinkSource(i) ==
    LET j == proc[i] IN
    /\ j.pc = "unlinkSource"
    /\ InStore(i, TRUE, [store[j.ver] EXCEPT ![j.at] = Absent], "linkSource")

LinkSource(i) ==
    LET j == proc[i] IN
    /\ j.pc = "linkSource"
    /\ InStore(i, store[j.ver][j.at].kind = "none",
               [store[j.ver] EXCEPT ![j.at] = Link(j.as, j.seen[j.at].is)], "ownSource")

\* lchown is called if the owner is another, and only root may do that.
OwnSource(i) ==
    LET j == proc[i]
        s == store[j.ver][j.at]
        can == s.kind # "none" /\ (s.mine = "yes" \/ j.as = "no") IN
    /\ j.pc = "ownSource"
    /\ \/ /\ can
          /\ store' = [store EXCEPT ![j.ver][j.at].mine = "yes"]
          /\ Step(i, Passed(j))
          /\ UNCHANGED <<sys, tmp, current, cache, history>>
       \/ (~can \/ (s.mine # "yes" /\ MayFail)) /\ Fail(i)

\* moveOrCopy: the first try, which moves whatever is there now.
Rename(i) ==
    LET j == proc[i] IN
    /\ j.pc = "rename"
    /\ \/ /\ j.at \notin Far /\ sys[j.at].kind \in {"reg", "link"}
          /\ store' = [store EXCEPT ![j.ver][j.at] = sys[j.at]]
          /\ sys' = [sys EXCEPT ![j.at] = Absent]
          /\ Step(i, [j EXCEPT !.pc = "linkInstalled"])
          /\ UNCHANGED <<tmp, current, cache, history>>
       \/ /\ j.at \in Far \/ MayFail
          /\ DataOf(sys[j.at]) # NoContent
          /\ Step(i, [j EXCEPT !.pc = "open", !.buf = DataOf(sys[j.at])])
          /\ UNCHANGED <<sys, store, tmp, current, cache, history>>
       \/ /\ DataOf(sys[j.at]) = NoContent /\ (j.at \in Far \/ sys[j.at].kind \notin {"reg", "link"})
          /\ Fail(i)

Open(i) ==
    LET j == proc[i] IN
    /\ j.pc = "open"
    /\ \/ /\ tmp' = tmp \cup {<<j.ver, j.at>>}
          /\ Step(i, [j EXCEPT !.pc = "write"])
          /\ UNCHANGED <<sys, store, current, cache, history>>
       \/ MayFail /\ Fail(i)

\* The catch block of moveOrCopy.
Discard_Keep(i) == Fail(i)

Discard(i) ==
    /\ tmp' = tmp \ {<<proc[i].ver, proc[i].at>>}
    /\ Raise(i, proc[i])

\* fwrite of one item of length 0 returns 0, not 1.
Write(i) ==
    LET j == proc[i] IN
    /\ j.pc = "write"
    /\ \/ /\ j.buf # EmptyFile
          /\ Step(i, [j EXCEPT !.pc = "place"])
          /\ UNCHANGED <<sys, store, tmp, current, cache, history>>
       \/ (j.buf = EmptyFile \/ MayFail) /\ Discard(i)

Place_RemoveFirst(i) ==
    LET j == proc[i] IN
    /\ j.pc = "place"
    /\ \/ /\ tmp' = tmp \ {<<j.ver, j.at>>}
          /\ sys' = [sys EXCEPT ![j.at] = Absent]
          /\ store' = [store EXCEPT ![j.ver][j.at] = Regular(j.as, j.buf)]
          /\ Step(i, [j EXCEPT !.pc = "linkInstalled"])
          /\ UNCHANGED <<current, cache, history>>
       \/ /\ MayFail /\ sys' = [sys EXCEPT ![j.at] = Absent]
          /\ tmp' = tmp \ {<<j.ver, j.at>>} /\ Stop(i)
          /\ UNCHANGED <<store, current, cache, runs, passed>>

Place(i) ==
    LET j == proc[i] IN
    /\ j.pc = "place"
    /\ \/ /\ tmp' = tmp \ {<<j.ver, j.at>>}
          /\ store' = [store EXCEPT ![j.ver][j.at] = Regular(j.as, j.buf)]
          /\ Step(i, [j EXCEPT !.pc = "unlinkInstalled"])
          /\ UNCHANGED <<sys, current, cache, history>>
       \/ MayFail /\ Discard(i)

UnlinkInstalled(i) ==
    LET j == proc[i] IN
    /\ j.pc = "unlinkInstalled"
    /\ \/ /\ sys' = [sys EXCEPT ![j.at] = Absent]
          /\ Step(i, [j EXCEPT !.pc = "linkInstalled"])
          /\ UNCHANGED <<store, tmp, current, cache, history>>
       \/ MayFail /\ Fail(i)

LinkInstalled(i) ==
    LET j == proc[i] IN
    /\ j.pc = "linkInstalled"
    /\ \/ /\ sys[j.at].kind = "none"
          /\ sys' = [sys EXCEPT ![j.at] = Link(j.as, Content(j))]
          /\ Step(i, [j EXCEPT !.pc = "ownInstalled"])
          /\ UNCHANGED <<store, tmp, current, cache, history>>
       \/ (sys[j.at].kind # "none" \/ MayFail) /\ Fail(i)

OwnInstalled(i) ==
    LET j == proc[i]
        n == sys[j.at]
        can == n.kind # "none" /\ (n.mine = "yes" \/ j.as = "no") IN
    /\ j.pc = "ownInstalled"
    /\ \/ /\ can
          /\ sys' = [sys EXCEPT ![j.at].mine = "yes"]
          /\ Step(i, Passed(j))
          /\ UNCHANGED <<store, tmp, current, cache, history>>
       \/ (~can \/ (n.mine # "yes" /\ MayFail)) /\ Fail(i)

End(i) ==
    LET j == proc[i] IN
    /\ j.pc = "item" /\ j.todo = {}
    /\ Step(i, [j EXCEPT !.pc = "clearCurrent"])
    /\ UNCHANGED <<sys, store, tmp, current, cache, history>>

\* Package::setInstalledVersion
ClearCurrent(i) ==
    LET j == proc[i] IN
    /\ j.pc = "clearCurrent"
    /\ current' = NoVersion
    /\ Step(i, [j EXCEPT !.pc = "setCurrent"])
    /\ UNCHANGED <<sys, store, tmp, cache, history>>

SetCurrent(i) ==
    LET j == proc[i] IN
    /\ j.pc = "setCurrent"
    /\ IF current = NoVersion
       THEN /\ current' = j.ver
            /\ torn' = (torn \/ j.bad \/ "installDevice" \in j.flags)
            /\ Step(i, IdleJob)
       ELSE Stop(i) /\ UNCHANGED current
    /\ UNCHANGED <<sys, store, tmp, cache, runs, passed>>

Crash(i) ==
    /\ MayCrash /\ Active(i) /\ proc[i].pc # "dry"
    /\ Stop(i)
    /\ UNCHANGED <<sys, store, tmp, current, cache, runs, passed>>

Work(i) ==
    \/ DryRun(i) \/ Item(i) \/ Parents(i) \/ MakeDir(i)
    \/ UnlinkSource(i) \/ LinkSource(i) \/ OwnSource(i)
    \/ Rename(i) \/ Open(i) \/ Write(i) \/ Place(i)
    \/ UnlinkInstalled(i) \/ LinkInstalled(i) \/ OwnInstalled(i)
    \/ End(i) \/ ClearCurrent(i) \/ SetCurrent(i)

Init ==
    /\ sys = InitialTree
    /\ store = [v \in Versions |-> [x \in Paths |-> Absent]]
    /\ tmp = {} /\ current = NoVersion /\ cache = {}
    /\ proc = [i \in Procs |-> IdleJob]
    /\ runs = 0 /\ torn = FALSE /\ passed = <<>>

Next ==
    \/ \E b \in Builds : Build(b)
    \/ \E i \in Procs :
         \/ \E v \in Versions, as \in {"yes", "no"} : \E f \in FlagSets[as] : Pack(i, v, as, f)
         \/ Work(i) \/ Crash(i)

Spec == Init /\ [][Next]_vars

-----------------------------------------------------------------------------
(* Properties                                                                *)

\* Every variable has its type.
TypeOK ==
    /\ sys \in Trees /\ store \in [Versions -> Trees]
    /\ runs \in Nat /\ tmp \subseteq StoreFiles /\ cache \subseteq Paths
    /\ current \in Versions \cup {NoVersion}
    /\ proc \in [Procs -> Jobs]
    /\ torn \in BOOLEAN
    /\ passed \in {<<>>} \cup (Versions \X SUBSET Flags)

\* The contents of path x that a regular file holds, installed or packed.
Held(x) ==
    {d \in Data : sys[x].kind = "reg" /\ sys[x].is = d}
        \cup {d \in Data : \E v \in Versions : store[v][x].kind = "reg" /\ store[v][x].is = d}

\* Packing loses no file: whichever call fails and wherever a run is killed, every
\* content that a path had is still in a file for it, and a file that is packed
\* keeps its content (moveOrCopy and packReg remove or replace nothing else).
NothingLost ==
    [][proc' # proc =>
         \A x \in Paths :
            /\ Held(x) \subseteq Held(x)'
            /\ \A v \in Versions :
                 store[v][x].kind = "reg" =>
                    store'[v][x].kind = "reg" /\ store'[v][x].is = store[v][x].is]_vars

\* When --pack is about to set Current without having skipped an error, every item
\* of its list is in the version, and a link to it stands where a file was.
PackedWhole ==
    \A i \in Procs :
        LET j == proc[i] IN
        j.pc = "clearCurrent" /\ ~j.bad =>
            \A x \in j.list \ Ignored :
                LET s == store[j.ver][x] IN
                CASE j.seen[x].kind = "reg" ->
                       /\ DataOf(s) = j.seen[x].is
                       /\ sys[x] = Link("yes", <<j.ver, x>>)
                  [] j.seen[x].kind = "link" ->
                       /\ sys[x] = j.seen[x]
                       /\ \/ s.kind = "link" /\ s.is = sys[x].is
                          \/ s.kind = "reg" /\ sys[x].is = <<j.ver, x>>
                  [] OTHER -> s.kind = "dir"

\* A link to a link: packReg follows links, so that a file that equals the one a link
\* in the version names counts as packed, and the link to that link as installed.
\* Uninstalling and packing again then find wrong content.
Chained(x) == \E v \in Versions : sys[x].is = <<v, x>> /\ store[v][x].kind = "link"

\* If every run was whole, uninstalling the current version undoes all there is:
\* every link into the store that the package has below the install directories is
\* one it would remove, and its files are linked unless they were built anew.
Accounted ==
    current # NoVersion /\ ~torn /\ AllIdle =>
        \A x \in {y \in Paths \ Ignored : ~Chained(y)} :
            LET s == store[current][x] IN
            /\ sys[x].kind = "link" /\ sys[x].is \in StoreFiles /\ x \in Found(sys, {}) =>
                  \/ s.kind = "link" /\ s.is = sys[x].is
                  \/ s.kind = "reg" /\ sys[x].is = <<current, x>>
            /\ s.kind = "reg" =>
                  /\ sys[x].kind # "none"
                  /\ sys[x].is \in StoreFiles => sys[x].is = <<current, x>>

\* A pack that was killed or that failed can be repeated: if its dry run found no
\* error and nothing was built since, the dry run of the next one finds none.
Repackable ==
    AllIdle /\ passed # <<>> /\ "cache" \notin passed[2] =>
        \A x \in Found(sys, passed[2]) :
            ~Chained(x) => Due(passed[1], passed[2], x, sys[x]) # "error"

\* The copy f.tmp that moveOrCopy makes is renamed or removed unless the run is
\* killed: no error leaves one behind in the version.
NoStray ==
    [][\A i \in Procs :
         proc[i].pc \in {"write", "place"} /\ proc'[i].pc \notin {"write", "place"} =>
            Crash(i) \/ <<proc[i].ver, proc[i].at>> \notin tmp']_vars

\* After a dry run without an error each call of the real pass finds what it needs,
\* so that only the system can make it fail; not so for the copy of an empty file
\* and where a dangling link is packed in the place of a directory.
PackPredicts ==
    \A i \in Procs :
        LET j == proc[i]
            s == store[j.ver]
            Clear(ys) == \A y \in ys : s[y].kind \in {"none", "dir"} IN
        OneAtATime /\ Active(i) /\ passed = <<j.ver, j.flags>> =>
            /\ j.pc = "item" => \A x \in j.todo : Due(j.ver, j.flags, x, j.seen[x]) # "error"
            /\ j.pc \in {"parents", "makeDir"} =>
                  \/ Clear(Above[j.at]) /\ (j.pc = "makeDir" => Clear({j.at}))
                  \/ \E y \in Above[j.at] \cup {j.at} : s[y].kind = "link" /\ ~Exists(s[y])
            /\ j.pc = "linkSource" => s[j.at].kind = "none"
            /\ j.pc = "rename" => sys[j.at].kind = "reg"
            /\ j.pc = "linkInstalled" => sys[j.at].kind = "none"
            /\ j.pc = "ownSource" => s[j.at].mine = "yes" \/ j.as = "no"
            /\ j.pc = "ownInstalled" => sys[j.at].mine = "yes" \/ j.as = "no"
=============================================================================
