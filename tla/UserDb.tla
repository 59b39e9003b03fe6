------------------------------- MODULE UserDb -------------------------------
(***************************************************************************)
(* Package user accounts: add_package_user with the useradd and groupadd   *)
(* of /tools/bin, run by several administrators on one /etc/passwd and one *)
(* /etc/group.                                                             *)
(*                                                                         *)
(* useradd and groupadd copy the file to a temporary one with a fixed      *)
(* name, empty it and write it again from the copy; nothing is locked.     *)
(* add_package_user chooses the numbers before it calls them.              *)
(***************************************************************************)
EXTENDS Naturals, FiniteSets, Sequences, Folds

CONSTANTS
    Procs,          \* slots for concurrent runs of add_package_user
    Names,          \* names of package users to add
    Install,        \* the name of the install group
    GroupOf,        \* GroupOf[n]: the name of the group of user n
    MinId, MaxId,   \* the range of uids and gids; MaxId is excluded
    Systems,        \* the initial contents of /etc/passwd and /etc/group
    MayCrash        \* TRUE if runs may be killed

GroupNames == {GroupOf[n] : n \in Names} \cup {Install}
Ids == 0 .. MaxId + 1

ASSUME RangeAssumption == MinId \in Nat /\ MaxId \in Nat /\ MinId < MaxId

\* install_package cuts the name of the user after 16 characters to name its
\* group, so users may share a group. No package is called install.
ASSUME InstallAssumption == \A n \in Names : Install \notin {n, GroupOf[n]}

\* Lines of the two files.
User(n, u, g) == [name |-> n, uid |-> u, gid |-> g]
Group(n, g, ms) == [name |-> n, gid |-> g, members |-> ms]

VARIABLES
    passwd,     \* the lines of /etc/passwd
    group,      \* the lines of /etc/group
    tmpPasswd,  \* /tmp/passwd123456
    tmpGroup,   \* /tmp/group123456
    proc,       \* proc[i]: the state of run i
    served,     \* history: the names for which a run ended with status 0
    torn        \* history: TRUE if a run was killed where it leaves a file emptied
                \* or an account without its place in the install group
vars == <<passwd, group, tmpPasswd, tmpGroup, proc, served, torn>>

Pcs == {"idle", "pickUid", "findInstall", "findOwn",
        "checkGroup", "copyGroup", "emptyGroup", "writeGroup",
        "checkUser", "copyPasswd", "emptyPasswd", "writePasswd",
        "copyMembers", "emptyMembers", "writeMembers"}

Idle == [pc |-> "idle", name |-> Install, uid |-> 0, oldg |-> 0, g |-> 0,
         todo |-> <<>>]

UserNames == {x.name : x \in passwd}
KnownGroups == {x.name : x \in group}
GidOf(n) == (CHOOSE x \in group : x.name = n).gid

-----------------------------------------------------------------------------
(* The choice of a number                                                    *)

Greatest(S) == CHOOSE x \in S : \A y \in S : y <= x

\* The numbers the loops of the script go through: those below MaxId and the
\* next one, at which they break.
LoopIds(used) == {i \in used : ~ \E k \in used : MaxId <= k /\ k < i}

\* The number after the last one of the range in use; without one, or with 0 as
\* the last one, the first of the range.
AfterLast_NoStep(used) ==
    LET inRange == {i \in used : MinId <= i /\ i < MaxId}
    IN  IF inRange \subseteq {0} THEN MinId ELSE Greatest(inRange)

AfterLast(used) ==
    LET inRange == {i \in used : MinId <= i /\ i < MaxId}
    IN  IF inRange \subseteq {0} THEN MinId ELSE Greatest(inRange) + 1

\* The search of the gap for the uid, and for a gid with the one chosen before:
\* one turn for each number of the list, from the least to the greatest one.
FirstGap(used) ==
    MapThenFoldSet(LAMBDA i, u : IF u = i THEN u + 1 ELSE u,
                   MinId, LAMBDA i : i, Greatest, LoopIds(used))

FirstGapBut(used, oldg) ==
    MapThenFoldSet(LAMBDA i, g :
                       LET h == IF g = i THEN g + 1 ELSE g
                       IN  IF h = oldg THEN h + 1 ELSE h,
                   MinId, LAMBDA i : i, Greatest, LoopIds(used))

PickUid_AnyGap(used) == FirstGap(used)

PickUid(used) ==
    IF AfterLast(used) >= MaxId THEN FirstGap(used) ELSE AfterLast(used)

PickGid(used, oldg) ==
    LET next == AfterLast(used)
        g == IF next = oldg THEN next + 1 ELSE next
    IN  IF g >= MaxId THEN FirstGapBut(used, oldg) ELSE g

-----------------------------------------------------------------------------
(* Steps of a run                                                            *)

Step(i, j) == proc' = [proc EXCEPT ![i] = j]
Goto(i, pc) == Step(i, [proc[i] EXCEPT !.pc = pc])
Fail(i) == Step(i, Idle) /\ UNCHANGED <<passwd, group, tmpPasswd, tmpGroup, served>>
Files == <<passwd, group, tmpPasswd, tmpGroup>>

\* add_package_user n: a known user is left as it is.
Start(i, n) ==
    /\ proc[i].pc = "idle"
    /\ \/ /\ n \in UserNames
          /\ served' = served \cup {n}
          /\ UNCHANGED proc
       \/ /\ n \notin UserNames
          /\ Step(i, [Idle EXCEPT !.pc = "pickUid", !.name = n])
          /\ UNCHANGED served
    /\ UNCHANGED Files

ChooseUid(i) ==
    LET u == PickUid({x.uid : x \in passwd}) IN
    /\ proc[i].pc = "pickUid"
    /\ \/ u >= MaxId /\ Fail(i)
       \/ /\ u < MaxId
          /\ Step(i, [proc[i] EXCEPT !.pc = "findInstall", !.uid = u])
          /\ UNCHANGED <<Files, served>>

\* One turn of the loop over the two groups: the gid of group n, which is noted
\* for creation if it does not exist.
FindGroup(i, n, oldg, j) ==
    LET g == IF n \in KnownGroups THEN GidOf(n) ELSE PickGid({x.gid : x \in group}, oldg) IN
    \/ n \notin KnownGroups /\ g >= MaxId /\ Fail(i)
    \/ /\ n \in KnownGroups \/ g < MaxId
       /\ Step(i, [j EXCEPT !.oldg = oldg, !.g = g,
                            !.todo = IF n \in KnownGroups THEN @ ELSE Append(@, <<n, g>>)])
       /\ UNCHANGED <<Files, served>>

FindInstall(i) ==
    /\ proc[i].pc = "findInstall"
    /\ FindGroup(i, Install, 0, [proc[i] EXCEPT !.pc = "findOwn"])

FindOwn(i) ==
    /\ proc[i].pc = "findOwn"
    /\ FindGroup(i, GroupOf[proc[i].name], proc[i].g, [proc[i] EXCEPT !.pc = "checkGroup"])

\* groupadd for the next group to create; after the last one, useradd.
CheckGroup(i) ==
    LET j == proc[i] IN
    /\ j.pc = "checkGroup"
    /\ \/ j.todo = <<>> /\ Goto(i, "checkUser") /\ UNCHANGED <<Files, served>>
       \/ /\ j.todo # <<>> /\ Head(j.todo)[1] \notin KnownGroups
          /\ Goto(i, "copyGroup")
          /\ UNCHANGED <<Files, served>>
       \/ j.todo # <<>> /\ Head(j.todo)[1] \in KnownGroups /\ Fail(i)

CopyGroup(i) ==
    /\ \/ proc[i].pc = "copyGroup" /\ Goto(i, "emptyGroup")
       \/ proc[i].pc = "copyMembers" /\ Goto(i, "emptyMembers")
    /\ tmpGroup' = group
    /\ UNCHANGED <<passwd, group, tmpPasswd, served>>

\* The shell empties the file before sort or sed writes it.
EmptyGroup(i) ==
    /\ \/ proc[i].pc = "emptyGroup" /\ Goto(i, "writeGroup")
       \/ proc[i].pc = "emptyMembers" /\ Goto(i, "writeMembers")
    /\ group' = {}
    /\ UNCHANGED <<passwd, tmpPasswd, tmpGroup, served>>

WriteGroup(i) ==
    LET j == proc[i] IN
    /\ j.pc = "writeGroup"
    /\ group' = tmpGroup \cup {Group(Head(j.todo)[1], Head(j.todo)[2], {})}
    /\ Step(i, [j EXCEPT !.pc = "checkGroup", !.todo = Tail(@)])
    /\ UNCHANGED <<passwd, tmpPasswd, tmpGroup, served>>

\* The checks of useradd, which looks up the gid once more.
CheckUser(i) ==
    LET j == proc[i]
        n == GroupOf[j.name]
    IN
    /\ j.pc = "checkUser"
    /\ \/ /\ j.name \notin UserNames /\ {n, Install} \subseteq KnownGroups
          /\ Step(i, [j EXCEPT !.pc = "copyPasswd", !.g = GidOf(n)])
          /\ UNCHANGED <<Files, served>>
       \/ /\ j.name \in UserNames \/ ~({n, Install} \subseteq KnownGroups)
          /\ Fail(i)

CopyPasswd(i) ==
    /\ proc[i].pc = "copyPasswd" /\ Goto(i, "emptyPasswd")
    /\ tmpPasswd' = passwd
    /\ UNCHANGED <<passwd, group, tmpGroup, served>>

EmptyPasswd(i) ==
    /\ proc[i].pc = "emptyPasswd" /\ Goto(i, "writePasswd")
    /\ passwd' = {}
    /\ UNCHANGED <<group, tmpPasswd, tmpGroup, served>>

WritePasswd(i) ==
    LET j == proc[i] IN
    /\ j.pc = "writePasswd" /\ Goto(i, "copyMembers")
    /\ passwd' = tmpPasswd \cup {User(j.name, j.uid, j.g)}
    /\ UNCHANGED <<group, tmpPasswd, tmpGroup, served>>

WriteMembers_OnlyEmpty(i) ==
    LET j == proc[i] IN
    /\ j.pc = "writeMembers"
    /\ group' = {IF x.name = Install /\ x.members = {}
                 THEN [x EXCEPT !.members = {j.name}] ELSE x : x \in tmpGroup}
    /\ Step(i, Idle)
    /\ served' = served \cup {j.name}
    /\ UNCHANGED <<passwd, tmpPasswd, tmpGroup>>

WriteMembers(i) ==
    LET j == proc[i] IN
    /\ j.pc = "writeMembers"
    /\ group' = {IF x.name = Install
                 THEN [x EXCEPT !.members = @ \cup {j.name}] ELSE x : x \in tmpGroup}
    /\ Step(i, Idle)
    /\ served' = served \cup {j.name}
    /\ UNCHANGED <<passwd, tmpPasswd, tmpGroup>>

Work(i) ==
    /\ \/ \E n \in Names : Start(i, n)
       \/ ChooseUid(i) \/ FindInstall(i) \/ FindOwn(i)
       \/ CheckGroup(i) \/ CopyGroup(i) \/ EmptyGroup(i) \/ WriteGroup(i)
       \/ CheckUser(i) \/ CopyPasswd(i) \/ EmptyPasswd(i) \/ WritePasswd(i)
       \/ WriteMembers(i)
    /\ UNCHANGED torn

\* A killed run leaves the files as they are, an emptied one too.
Crash(i) ==
    /\ MayCrash /\ proc[i].pc # "idle" /\ Fail(i)
    /\ torn' = (torn \/ proc[i].pc \in {"writeGroup", "writePasswd",
                    "copyMembers", "emptyMembers", "writeMembers"})

Init ==
    /\ \E s \in Systems : passwd = s.passwd /\ group = s.group
    /\ tmpPasswd = {} /\ tmpGroup = {}
    /\ proc = [i \in Procs |-> Idle]
    /\ served = {}
    /\ torn = FALSE

Next == \E i \in Procs : Work(i) \/ Crash(i)

Spec == Init /\ [][Next]_vars

-----------------------------------------------------------------------------
(* Properties                                                                *)

Resting == \A i \in Procs : proc[i].pc = "idle"

\* No two users have a uid in common and no two groups a gid, which is what
\* the owner of a file depends on to say which package it belongs to.
UniqueIds ==
    /\ \A x, y \in passwd : x.uid = y.uid => x = y
    /\ \A x, y \in group : x.gid = y.gid => x.name = y.name

\* The choice of number n by the usage text of add_package_user: the number after
\* the greatest one in use or, if the last one of the range is in use, the first
\* unused one. With no number in use it is the first one, as the comments of the
\* two searches say.
Documented(n, used) ==
    LET range == MinId .. MaxId - 1
        taken == used \cap range
    IN
    /\ n \in range \ used
    /\ MaxId - 1 \notin used =>
           IF taken = {} THEN n = MinId
           ELSE n - 1 \in taken /\ \A k \in taken : k < n
    /\ MaxId - 1 \in used => \A k \in range \ used : n <= k

\* The uid and the gids of the groups to create are chosen as documented, the
\* second gid as if the first one were in use already.
PickAsDocumented ==
    \A i \in Procs :
        LET todo == proc[i].todo
            gids == {x.gid : x \in group}
        IN  /\ proc[i].pc = "findInstall" =>
                   Documented(proc[i].uid, {x.uid : x \in passwd})
            /\ proc[i].pc = "checkGroup" =>
                   \A k \in DOMAIN todo :
                       Documented(todo[k][2], gids \cup {todo[l][2] : l \in 1 .. k - 1})

\* When nothing runs, an account that add_package_user reported as done is whole:
\* the user, the group install_package named for it and its place in the install
\* group. Runs that failed or were killed earlier change nothing about that, but
\* for one killed with a file emptied or between the line of a user and its place
\* in the install group (torn): those do break accounts.
AccountsWhole ==
    Resting /\ ~torn =>
        \A n \in served :
            /\ \E x \in passwd, y \in group :
                 x.name = n /\ y.name = GroupOf[n] /\ x.gid = y.gid
            /\ \E y \in group : y.name = Install /\ n \in y.members
=============================================================================
