------------------------------ MODULE TpkgsMain ------------------------------
(***************************************************************************)
(* One run of tpkgs from its start to the work it settles on: it reads its *)
(* configuration files, finds the package and the versions the command     *)
(* line names, and decides what to install, uninstall, pack, compare or    *)
(* list, with which configuration. What installing and packing then do to  *)
(* the files is in Tpkgs and TpkgsPack; here they succeed or fail.         *)
(***************************************************************************)
EXTENDS TpkgsConfig, TpkgsDiff, TLC

CONSTANTS
    Lines,         \* the lines of configuration files
    MaxLines,      \* bound: the number of lines of all files
    VersionOrder,  \* the versions, in the order of Version::operator<
    Disks,         \* what may be in /packages
    WordLists,     \* the words of command lines
    Users,         \* who runs tpkgs
    Trees,         \* the lists --diff may compare
    Places,        \* paths of files in the system
    Sources        \* paths of files relative to a version directory

ASSUME LinesAssumption == MaxLines \in Nat /\ \A l \in Lines : IsLine(l)

\* No name, no version (Version::EMPTY_VERSION).
Empty == ""

\* "new" is what the files of the system are called that --diff compares a version to.
Versions == {VersionOrder[k] : k \in DOMAIN VersionOrder}
ASSUME VersionsAssumption ==
    /\ VersionOrder \in Seq(STRING \ {Empty, "new"})
    /\ \A k, n \in DOMAIN VersionOrder : VersionOrder[k] = VersionOrder[n] => k = n
ASSUME DisksAssumption ==
    \A d \in Disks : \A n \in DOMAIN d :
        n # Empty /\ d[n] \in [versions : SUBSET Versions, current : STRING]

IsWord(w) == w \in [name : STRING, colon : BOOLEAN, version : STRING]
ASSUME WordsAssumption ==
    \A a \in WordLists : a \in Seq({a[i] : i \in DOMAIN a}) /\ \A i \in DOMAIN a : IsWord(a[i])
ASSUME TreesAssumption == \A t \in Trees : \A x \in DOMAIN t : IsItem(t[x])
ASSUME PathsAssumption == \A p \in Places \cup Sources : IsPath(p)

VARIABLES
    pc,
    packages,  \* /packages: the versions and the Current link of each package
    tp,        \* the configuration, the files it was read from, and those of them
               \* that had a line it stores
    tp2,       \* the copy of tp for the version that is replaced
    lines,     \* the number of lines read so far, which MaxLines bounds
    call,      \* the command line
    args,      \* its words that are still to be looked at
    chosen,    \* what they name
    work       \* the operations done or begun, each with the files its
               \* configuration was read from and stores lines of
vars == <<pc, packages, tp, tp2, lines, call, args, chosen, work>>

Pcs == {"open", "read", "init", "select", "act", "gather", "replace", "run",
        "done", "failed"}
Actions == {"none", "current", "installed", "install", "uninstall", "pack",
            "files", "config", "info", "diff"}
Queries == {"current", "installed", "info"}

Fresh == [versions |-> {}, current |-> Empty]
\* A command line, and the user who types it.
Options == [action : Actions, words : WordLists, bypass : BOOLEAN, dryRun : BOOLEAN,
            user : Users]
NoCall == [action |-> "none", words |-> <<>>, bypass |-> FALSE, dryRun |-> FALSE,
           user |-> [root |-> TRUE, logname |-> Empty, home |-> FALSE]]
NoChoice == [ok |-> FALSE, name |-> Empty, version |-> Empty, second |-> Empty, rest |-> <<>>]

\* The configuration files: the system's, the user's and one of each version.
File(k, v) == [kind |-> k, version |-> v]
StartTP == [conf |-> DefaultConf, read |-> <<File("system", Empty)>>, stored |-> {}]

-----------------------------------------------------------------------------
(* Packages and versions                                                     *)

Pkg(n) == IF n \in DOMAIN packages THEN packages[n] ELSE Fresh
Position(v) == CHOOSE k \in DOMAIN VersionOrder : VersionOrder[k] = v
getRecentVersion(V) ==
    IF V = {} THEN Empty ELSE CHOOSE v \in V : \A w \in V : Position(w) <= Position(v)
getSecondRecentVersion(V) == getRecentVersion(V \ {getRecentVersion(V)})
getInstalledOrRecentVersion(p) ==
    IF p.current # Empty THEN p.current ELSE getRecentVersion(p.versions)

InPackages == tp.conf.dir = DefaultConf.dir

\* The empty name is /packages itself.
hasPackage(n) == InPackages /\ (n = Empty \/ n \in DOMAIN packages)

\* TPKGS::getPackage and Package::init succeed: a package user who has a home makes
\* the directory, and Current names a version.
Opens(n) ==
    /\ InPackages /\ n # Empty
    /\ IF n \in DOMAIN packages
         THEN packages[n].current \in packages[n].versions \cup {Empty}
         ELSE ~call.user.root /\ call.user.home

Made_Forgotten(n) == packages

\* Opening a package made its directory.
Made(n) == [m \in DOMAIN packages \cup ({n} \ {Empty}) |-> Pkg(m)]

-----------------------------------------------------------------------------
(* What the words name                                                       *)

Text(w) == IF w.colon THEN w.name \o ":" \o w.version ELSE w.name
getDefaultPackageName == IF call.user.root THEN Empty ELSE call.user.logname

\* The version getVersion takes if there are no more words.
Default(flag, p) ==
    CASE flag = "INSTALLED" -> p.current
      [] flag = "CURRENT" -> getRecentVersion(p.versions)
      [] flag = "INSTALLED_OR_CURRENT" -> getInstalledOrRecentVersion(p)
      [] OTHER -> Empty

\* A choice that failed may have opened a package.
Refuse(n) == [NoChoice EXCEPT !.name = n]
Take(n, v, rest) ==
    [ok |-> TRUE, name |-> n, version |-> v, second |-> Empty, rest |-> rest]

getVersion(n, rest, flag, mustExist) ==
    LET v == IF rest = <<>> THEN Default(flag, Pkg(n)) ELSE Text(Head(rest))
    IN  IF v = Empty \/ (mustExist /\ v \notin Pkg(n).versions) THEN Refuse(n)
        ELSE Take(n, v, IF rest = <<>> THEN rest ELSE Tail(rest))

PackageAndVersion(n, rest, flag, mustExist) ==
    CASE ~Opens(n) -> Refuse(Empty)
      [] Opens(n) /\ flag = "NONE_NEEDED" -> Take(n, Empty, rest)
      [] OTHER -> getVersion(n, rest, flag, mustExist)

getPackage_NoCheck(a, flag, mustExist) ==
    LET own == getDefaultPackageName
        w == Head(a)
    IN  CASE a = <<>> /\ own # Empty -> PackageAndVersion(own, a, flag, mustExist)
          [] a = <<>> /\ own = Empty -> Refuse(Empty)
          [] a # <<>> /\ w.colon ->
               IF Opens(w.name) THEN Take(w.name, w.version, Tail(a)) ELSE Refuse(Empty)
          [] OTHER -> PackageAndVersion(w.name, Tail(a), flag, mustExist)

getPackage(a, flag, mustExist) ==
    LET own == getDefaultPackageName
        w == Head(a)
    IN  CASE a = <<>> /\ own # Empty -> PackageAndVersion(own, a, flag, mustExist)
          [] a = <<>> /\ own = Empty -> Refuse(Empty)
          [] a # <<>> /\ w.colon ->
               IF ~Opens(w.name) THEN Refuse(Empty)
               ELSE IF mustExist /\ w.version \notin Pkg(w.name).versions THEN Refuse(w.name)
               ELSE Take(w.name, w.version, Tail(a))
          [] /\ a # <<>> /\ ~w.colon /\ ~hasPackage(w.name)
             /\ own # Empty /\ flag # "NONE_NEEDED" /\ hasPackage(own) ->
               \* maybe it is the version only
               PackageAndVersion(own, a, flag, mustExist)
          [] OTHER -> PackageAndVersion(w.name, Tail(a), flag, mustExist)

\* Package and two versions, for --diff
getPackageAndTwo(a) ==
    LET s == getPackage(a, "NONE_NEEDED", FALSE)
        one == IF s.version = Empty THEN getVersion(s.name, s.rest, "NO_DEFAULT", FALSE) ELSE s
        two == getVersion(s.name, one.rest, "NO_DEFAULT", FALSE)
    IN  IF ~s.ok \/ s.rest = <<>> THEN s
        ELSE IF ~one.ok \/ one.rest = <<>> THEN one
        ELSE IF ~two.ok THEN two
        ELSE [two EXCEPT !.version = one.version, !.second = two.version]

\* --pack takes a single word as the version.
getPackage2(a) ==
    IF Len(a) = 1 /\ ~a[1].colon /\ getDefaultPackageName # Empty
    THEN IF Opens(getDefaultPackageName)
         THEN Take(getDefaultPackageName, a[1].name, <<>>) ELSE Refuse(Empty)
    ELSE getPackage(a, "NO_DEFAULT", FALSE)

Selected ==
    CASE call.action = "install" -> getPackage(args, "CURRENT", TRUE)
      [] call.action = "uninstall" -> getPackage(args, "INSTALLED", TRUE)
      [] call.action = "files" -> getPackage(args, "INSTALLED_OR_CURRENT", TRUE)
      [] call.action = "diff" -> getPackageAndTwo(args)
      [] call.action = "pack" -> getPackage2(args)
      [] OTHER -> getPackage(args, "NONE_NEEDED", FALSE)

-----------------------------------------------------------------------------
(* Reading the configuration                                                 *)

Init ==
    /\ pc = "open" /\ packages \in Disks
    /\ tp = StartTP /\ tp2 = StartTP /\ lines = 0
    /\ call = NoCall /\ args = <<>> /\ chosen = NoChoice /\ work = <<>>

Replacing == tp2.read # StartTP.read
Reading == IF Replacing THEN tp2 ELSE tp
Latest(r) == r[Len(r)].kind

\* Where the run goes on when a file has been read, or is not there.
Continue ==
    pc' = IF Replacing THEN "replace"
          ELSE CASE Latest(tp.read) = "system" -> "init"
                 [] Latest(tp.read) = "user" -> "act"
                 [] OTHER -> "gather"

\* loadConfigOptional: the file is not there, can be read, or cannot.
Open ==
    /\ pc = "open"
    /\ Continue \/ pc' = "read" \/ pc' = "failed"
    /\ UNCHANGED <<packages, tp, tp2, lines, call, args, chosen, work>>

\* The copy t of the configuration stores line l of the file that is read.
Store(t, l) ==
    [t EXCEPT !.conf = loadConfigEntry(@, l),
              !.stored = @ \cup {Reading.read[Len(Reading.read)]}]

ReadLine_WrongCopy(l) ==
    /\ pc = "read" /\ lines < MaxLines
    /\ lines' = lines + 1
    /\ IF ~Known(l) THEN pc' = "failed" /\ UNCHANGED tp
       ELSE pc' = pc /\ tp' = Store(tp, l)
    /\ UNCHANGED <<packages, tp2, call, args, chosen, work>>

\* loadLine; an invalid line ends the run. A blank line, or a comment, does nothing.
ReadLine(l) ==
    /\ pc = "read" /\ lines < MaxLines
    /\ lines' = lines + 1
    /\ IF ~Known(l) THEN pc' = "failed" /\ UNCHANGED <<tp, tp2>>
       ELSE /\ pc' = pc
            /\ IF Replacing THEN tp2' = Store(tp2, l) /\ UNCHANGED tp
               ELSE tp' = Store(tp, l) /\ UNCHANGED tp2
    /\ UNCHANGED <<packages, call, args, chosen, work>>

EndOfFile ==
    /\ pc = "read" /\ Continue
    /\ UNCHANGED <<packages, tp, tp2, lines, call, args, chosen, work>>

-----------------------------------------------------------------------------
(* The command line                                                          *)

ParseArguments ==
    /\ pc = "init"
    /\ call' \in Options /\ args' = call'.words
    /\ call'.bypass \/ call'.dryRun => call'.action \in {"install", "uninstall", "pack"}
    /\ pc' = CASE call'.action = "none" -> "failed"
               [] call'.action = "config" /\ args' = <<>> -> "done"
               [] OTHER -> "select"
    /\ UNCHANGED <<packages, tp, tp2, lines, chosen, work>>

Begin(k, v) ==
    /\ pc' = "open"
    /\ tp' = [tp EXCEPT !.read = Append(@, File(k, v))]

Select ==
    /\ pc = "select" /\ call.action \notin Queries
    /\ LET s == Selected IN
         /\ packages' = Made(s.name)
         /\ chosen' = s /\ args' = s.rest
         /\ IF s.ok THEN Begin("user", Empty) ELSE pc' = "failed" /\ UNCHANGED tp
    /\ UNCHANGED <<tp2, lines, call, work>>

\* --current, --installed and --info look at one package after the other.
Did(op, v, w, sys, t) ==
    work' = Append(work, [op |-> op, name |-> chosen'.name, version |-> v, second |-> w,
                          system |-> sys, read |-> t.read, stored |-> t.stored])

Answer(p) == IF call.action = "current" THEN getRecentVersion(p.versions) ELSE p.current

Query_NoPop ==
    /\ pc = "select" /\ call.action \in Queries
    /\ call.action = "info" => args # <<>>
    /\ LET s == Selected IN
         /\ packages' = Made(s.name)
         /\ chosen' = s /\ args' = args
         /\ UNCHANGED work
         /\ pc' = IF ~s.ok THEN "failed" ELSE IF args = <<>> THEN "done" ELSE pc
    /\ UNCHANGED <<tp, tp2, lines, call>>

Query ==
    /\ pc = "select" /\ call.action \in Queries
    /\ call.action = "info" => args # <<>>
    /\ LET s == Selected IN
         /\ packages' = Made(s.name)
         /\ chosen' = s /\ args' = s.rest
         /\ IF s.ok THEN Did("answer", Answer(Pkg(s.name)), Empty, FALSE, tp)
                    ELSE UNCHANGED work
         /\ pc' = IF ~s.ok THEN "failed" ELSE IF s.rest = <<>> THEN "done" ELSE pc
    /\ UNCHANGED <<tp, tp2, lines, call>>

\* --info without words lists every package it can open.
ListAll ==
    /\ pc = "select" /\ call.action = "info" /\ args = <<>>
    /\ pc' = IF InPackages THEN "done" ELSE "failed"
    /\ UNCHANGED <<packages, tp, tp2, lines, call, args, chosen, work>>

-----------------------------------------------------------------------------
(* The commands                                                              *)

TooMany == args # <<>> /\ call.action \notin {"files", "config"}
Is(action) == pc = "act" /\ call.action = action /\ ~TooMany

RefuseWords ==
    /\ pc = "act" /\ TooMany /\ pc' = "failed"
    /\ UNCHANGED <<packages, tp, tp2, lines, call, args, chosen, work>>

Me == packages[chosen.name]

Install ==
    /\ Is("install")
    /\ CASE chosen.version = Me.current -> pc' = "done" /\ UNCHANGED tp2
         [] Me.current = Empty /\ chosen.version # Empty -> pc' = "run" /\ UNCHANGED tp2
         [] Me.current \notin {Empty, chosen.version} /\ call.bypass ->
              pc' = "open" /\ tp2' = [tp EXCEPT !.read = Append(@, File("version", Me.current))]
         [] OTHER -> pc' = "failed" /\ UNCHANGED tp2
    /\ UNCHANGED <<packages, tp, lines, call, args, chosen, work>>

Uninstall ==
    /\ Is("uninstall")
    /\ IF call.bypass \/ chosen.version = Me.current THEN Begin("version", chosen.version)
       ELSE pc' = "failed" /\ UNCHANGED tp
    /\ UNCHANGED <<packages, tp2, lines, call, args, chosen, work>>

Pack ==
    /\ Is("pack")
    /\ IF chosen.version # Empty /\ (call.bypass \/ Me.current = Empty)
       THEN Begin("version", chosen.version) ELSE pc' = "failed" /\ UNCHANGED tp
    /\ UNCHANGED <<packages, tp2, lines, call, args, chosen, work>>

Look ==
    /\ Is("files") \/ (Is("config") /\ chosen.version # Empty)
    /\ Begin("version", chosen.version)
    /\ UNCHANGED <<packages, tp2, lines, call, args, chosen, work>>

ShowConfig ==
    /\ Is("config") /\ chosen.version = Empty
    /\ pc' = IF args = <<>> THEN "done" ELSE "failed"
    /\ UNCHANGED <<packages, tp, tp2, lines, call, args, chosen, work>>

\* The versions --diff compares: <<old, new, new is what is in the system>>
Compared_Unchecked(V, v1, v2) ==
    CASE v1 = Empty /\ Cardinality(V) >= 2 ->
           <<getSecondRecentVersion(V), getRecentVersion(V), FALSE>>
      [] v1 # Empty /\ v2 = Empty -> <<v1, "new", TRUE>>
      [] v1 # Empty /\ v2 # Empty /\ v1 \in V -> <<v1, v2, v2 \notin V>>
      [] OTHER -> <<Empty, Empty, FALSE>>

Compared(V, v1, v2) ==
    CASE v1 = Empty /\ Cardinality(V) >= 2 ->
           <<getSecondRecentVersion(V), getRecentVersion(V), FALSE>>
      [] v1 # Empty /\ v2 = Empty ->
           IF v1 \in V THEN <<v1, "new", TRUE>>
           ELSE <<getInstalledOrRecentVersion(Me), v1, TRUE>>
      [] v1 # Empty /\ v2 # Empty /\ v1 \in V -> <<v1, v2, v2 \notin V>>
      [] OTHER -> <<Empty, Empty, FALSE>>

\* It fails if there is nothing to compare, or no file is found.
Diff ==
    /\ Is("diff") /\ UNCHANGED chosen
    /\ LET c == Compared(Me.versions, chosen.version, chosen.second) IN
         IF Me.versions # {} /\ c[1] # c[2]
         THEN /\ Did("diff", c[1], c[2], c[3], tp)
              /\ pc' = "done" \/ (c[3] /\ pc' = "failed")
         ELSE pc' = "failed" /\ UNCHANGED work
    /\ UNCHANGED <<packages, tp, tp2, lines, call, args>>

\* The files are found. --files and --config have nothing more to decide.
Gather ==
    /\ pc = "gather" /\ UNCHANGED chosen
    /\ CASE call.action = "files" ->
              Did("files", chosen.version, Empty, FALSE, tp) /\ pc' = "done"
         [] call.action = "config" ->
              UNCHANGED work /\ pc' = IF args = <<>> THEN "done" ELSE "failed"
         [] OTHER ->
              UNCHANGED work /\ (pc' = "run" \/ (call.action = "pack" /\ pc' = "failed"))
    /\ UNCHANGED <<packages, tp, tp2, lines, call, args>>

\* pexec, pexecU: a dry run leaves everything as it is; the real one may fail.
Executes(next, p) ==
    CASE call.dryRun -> pc' \in {"done", "failed"} /\ UNCHANGED packages
      [] OTHER ->
           \/ pc' = "failed" /\ UNCHANGED packages
           \/ pc' = next /\ packages' = [packages EXCEPT ![chosen.name] = p]

Replace_Skipped ==
    /\ pc = "replace" /\ pc' = "run"
    /\ UNCHANGED <<packages, tp, tp2, lines, call, args, chosen, work>>

\* Installing over another version: that one goes first.
Replace ==
    /\ pc = "replace" /\ UNCHANGED chosen
    /\ Did("uninstall", Me.current, Empty, FALSE, tp2)
    /\ Executes("run", [Me EXCEPT !.current = Empty])
    /\ UNCHANGED <<tp, tp2, lines, call, args>>

\* Packing may fail before the directory of the version is made, and after Current
\* of another version is removed.
RunPack ==
    LET made == [Me EXCEPT !.versions = @ \cup {chosen.version}]
        Leaves(p) == packages' = [packages EXCEPT ![chosen.name] = p]
    IN  IF call.dryRun THEN Executes("done", Me)
        ELSE \/ pc' = "done" /\ Leaves([made EXCEPT !.current = chosen.version])
             \/ /\ pc' = "failed"
                /\ UNCHANGED packages \/ Leaves(made) \/ Leaves([made EXCEPT !.current = Empty])

Run ==
    /\ pc = "run" /\ UNCHANGED chosen
    /\ Did(call.action, chosen.version, Empty, FALSE, tp)
    /\ CASE call.action = "install" -> Executes("done", [Me EXCEPT !.current = chosen.version])
         [] call.action = "uninstall" -> Executes("done", [Me EXCEPT !.current = Empty])
         [] OTHER -> RunPack
    /\ UNCHANGED <<tp, tp2, lines, call, args>>

Finished == pc \in {"done", "failed"} /\ UNCHANGED vars

Step ==
    \/ Open \/ EndOfFile \/ \E l \in Lines : ReadLine(l)
    \/ ParseArguments \/ Select \/ Query \/ ListAll
    \/ RefuseWords \/ Install \/ Uninstall \/ Pack \/ Look \/ ShowConfig \/ Diff
    \/ Gather \/ Replace \/ Run

Next == Step \/ Finished

\* tpkgs is one process that the kernel lets run.
Spec == Init /\ [][Next]_vars /\ WF_vars(Step)

-----------------------------------------------------------------------------
(* Properties                                                                *)

\* The types of the state.
TypeOK ==
    /\ pc \in Pcs /\ lines \in 0 .. MaxLines
    /\ \A n \in DOMAIN packages : n # Empty /\ DOMAIN packages[n] = {"versions", "current"}
    /\ call.action \in Actions /\ Len(args) <= Len(call.words)
    /\ \A t \in {tp, tp2} :
         /\ \A e \in t.conf.map : IsPath(e[1]) /\ IsPath(e[2])
         /\ \A set \in PathSettings : \A p \in t.conf[set] : IsPath(p)
         /\ Head(t.read).kind = "system"
    /\ \A i \in DOMAIN work : work[i].name \in DOMAIN packages

\* The ways to name package n and a version on the command line, as the texts of
\* its words. A package user need not name the own package. Given is the set of the
\* ways to write the version: no word at all stands for the default.
Spelled(n, given) ==
    {<<n>> \o g : g \in given} \cup (IF getDefaultPackageName = n THEN given ELSE {})
Written(v, default) == {<<v>>} \cup (IF v = default THEN {<<>>} ELSE {})

Documented(n, v, w) ==
    LET joined == IF v = Empty THEN {} ELSE {<<n \o ":" \o v>>} IN
    CASE call.action = "install" ->
           Spelled(n, Written(v, getRecentVersion(Me.versions))) \cup joined
      [] call.action = "uninstall" -> Spelled(n, Written(v, Me.current)) \cup joined
      [] call.action = "pack" -> Spelled(n, {<<v>>}) \cup joined
      [] OTHER ->
           IF w # Empty THEN {<<n, v, w>>} \cup {j \o <<w>> : j \in joined}
           ELSE IF v # Empty THEN {<<n, v>>} \cup joined
           ELSE Spelled(n, {<<>>})

\* The package and the version a command goes on with are the ones its words say:
\* <pkg>:<version>, <pkg> <version>, or less where Popt.h names a default; and
\* install and uninstall go on with a version that exists (Popt.cpp:181).
SelectsAsDocumented ==
    pc = "act" /\ ~TooMany /\ call.action \notin {"files", "config"} =>
        /\ [i \in DOMAIN call.words |-> Text(call.words[i])]
               \in Documented(chosen.name, chosen.version, chosen.second)
        /\ call.action \in {"install", "uninstall"} => chosen.version \in Me.versions

\* --diff compares a version that exists with another one; the files of the system
\* stand for the one that does not. Without words for versions these are the two
\* most recent ones (main.cpp:231).
DiffAsDocumented ==
    \A i \in DOMAIN work : work[i].op = "diff" =>
        LET w == work[i]
            V == packages[w.name].versions
        IN  /\ w.version \in V /\ w.second # w.version /\ w.system = (w.second \notin V)
            /\ chosen.version = Empty =>
                 /\ w.second \in V
                 /\ \A v \in V \ {w.second} : Position(v) <= Position(w.version)
                 /\ Position(w.version) < Position(w.second)
            /\ chosen.second # Empty => w.second = chosen.second
            /\ chosen.version # Empty => chosen.version \in {w.version, w.second}

\* No operation uses the configuration of another version, although installing over
\* a version loads that one's too (main.cpp:345); removing, packing and listing a
\* version use its own. No line of a file is stored in a copy of the configuration
\* that the file was not loaded into.
OwnConfiguration ==
    \A i \in DOMAIN work :
        LET own == {"uninstall", "pack", "files"}
            read == {work[i].read[k] : k \in DOMAIN work[i].read}
        IN  /\ {f \in read : f.kind = "version"} =
                   IF work[i].op \in own THEN {File("version", work[i].version)} ELSE {}
            /\ work[i].stored \subseteq read

\* Current goes from one version to another over none, and only after the links of
\* the first were removed, unless --bypass was given to --pack or --uninstall.
CurrentFollowsWork ==
    [][\A n \in DOMAIN packages :
         LET old == packages[n].current
             new == packages'[n].current
             last == work'[Len(work')]
         IN  old # new /\ old # Empty =>
                \/ call.bypass /\ call.action \in {"pack", "uninstall"}
                \/ new = Empty /\ last.op = "uninstall" /\ last.version = old]_vars

\* A file packed from p is installed at p again, with every map and in every place
\* that no other entry took from it (TPKGS.cpp:164 and 176).
RoundTrip ==
    pc = "read" =>
        LET map == Reading.conf.map IN
        \A p \in Places :
            LET s == getSourcePath(map, p) IN
            s # <<>> /\ ~Shadowed(map, p) => getInstallPath(map, s) = p

\* A file of a version directory goes where the entry of the closest directory
\* around it says, in whatever order the entries are (TPKGS.cpp:141).
ClosestEntry ==
    pc = "read" =>
        LET map == Reading.conf.map IN
        \A p \in Sources :
            LET around == {e \in map : Prefix(e[2], p)}
                e == Closest(map, p)
            IN  /\ around = {} => getInstallPath(map, p) = <<>>
                /\ around # {} /\ (\A f, g \in around : f[2] = g[2] => f = g) =>
                       getInstallPath(map, p) = e[1] \o Rest(e[2], p)

\* A --diff without marks means that no file and no link differs (DiffVersions.cpp:163).
SilentDiffs ==
    pc = "init" /\ lines = 0 =>
        \A old, new \in Trees : \A there \in SUBSET DOMAIN old :
            SilentMeansSame(old, new, there)

\* "newer is smaller (-), newer is greater (+)" (DiffVersions.cpp:176)
SizeMarks ==
    pc = "init" /\ lines = 0 =>
        \A old, new \in Trees : MarksTellSize(old, new, {})

\* Every run ends, whatever the words are: each turn of the loops over the words
\* takes one (main.cpp:309, 322 and 379).
Ends == <>(pc \in {"done", "failed"})

\* /etc/tpkgs.conf maps usr/etc of a version directory to /etc (fs/etc/tpkgs.conf:9).
ShippedMap ==
    pc = "init" /\ <<<<"usr", "etc">>, <<"/", "etc">>>> \in tp.conf.map =>
        getInstallPath(tp.conf.map, <<"usr", "etc", "f">>) = <<"/", "etc", "f">>
=============================================================================
