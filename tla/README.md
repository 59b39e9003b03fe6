# Formal models of the package user tools

This directory holds TLA+ models of the LFS "package user" tools of this
repository, the TLC configurations that check them and TLAPS proofs about them.
A package user is a Unix user that owns the files of one package; `tpkgs` links
the files of a package's version into the system, wrappers in
`/usr/lib/pkgusr` stand in for the commands a `make install` calls, and shell
scripts create the users, build, update and mount.

Contents: [inventory](#1-inventory), [modules](#2-modules-and-how-they-correspond-to-the-code),
[runs](#3-runs), [bounds](#4-bounds-and-why-they-are-enough),
[fairness](#5-fairness), [proofs](#6-what-is-proved),
[findings](#7-where-code-and-text-disagree), [not modelled](#8-what-is-not-modelled-and-why),
[plan](#9-plan).

## 1. Inventory

| Component | State it keeps | Operations | Interacts with | What is hard | What makes it correct |
|---|---|---|---|---|---|
| `tpkgs` install/uninstall (`tpkgs/src/main.cpp`, `InstallItem.cpp`, `Package.cpp`, `MXOSet.cpp`) | links, directories and their owners in the system; `/packages/<p>/Current` | `--install`, `--uninstall`, `--install --bypass` (switch), `--dry-run`, `--ignore-errors`, `--over-*` | other runs of `tpkgs`, package users and root through the file system | check and use of a path are apart; runs are killed; errors half way; three passes | no link is forgotten, the current version is whole, links of other packages are left alone, the dry run tells the truth; version by version it does what an abstract store of versions says |
| `tpkgs --pack` (`main.cpp` 272-306, `InstallItem.cpp` pack*, `FindFiles*.cpp`, `MMap.cpp`) | moves system files into the version and leaves links; a cache of the list of files | `--pack`, `--cache-file`, `--install-device` | the store that install reads | a file is in one of two places at every moment; copies across devices | no content is lost, a packed version is whole, a failed pack can be repeated |
| mapping and configuration (`TPKGS.cpp`, `Config.cpp`) | `INSTALL_PATH_MAP`, ignore and keep lists | `loadConfigEntry`, `makeMapping`, `getSourcePath`, `getInstallPath` | every item | overlapping entries; three configuration files, copies for the replaced version | a file goes back to where it was packed from; each operation has its own configuration |
| command line (`Popt.cpp`, `Version.cpp`, `main.cpp`) | the words left | `getPackage`, `getPackageAndVersion`, `getPackageAndTwoVersions` | working directory, environment | one word can be a package or a version | what is chosen is what the words and the defaults say |
| queries (`main.cpp`, `DiffVersions.cpp`, `RecursiveFileIterator.h`) | none | `--current`, `--installed`, `--info`, `--config`, `--files`, `--diff` | command line, store | empty files, prefixes, directories of others | a silent `--diff` means the same |
| file layer (`File.cpp`, `MMap.cpp`) | file descriptors | wrappers of system calls, path normalisation | - | empty files | - |
| package user commands (`usr/lib/pkgusr/exec` and the wrappers that call it) | `pkg/exec`, `pkg/answer`, `exec-ignore` in the user's home | run, ask, wait, read, forget, decide | an operator at another terminal, other commands of the same `make -j` | two files without an owner, two writes and two removals | an answer reaches the command it was for; a waiting command gets one |
| package user accounts (`add_package_user`, `install_package`, `tools/bin/useradd`, `groupadd`) | `/etc/passwd`, `/etc/group`, two temporary files | choose uid, choose gids, groupadd, useradd | other runs, through the files | ends of the range; copy, empty, write back | numbers are unique and the documented ones; a finished account is whole |
| renaming (`rename-pkg-user.sh`, `ch-install-name`) | the same files, the home | usermod, groupmod, mv | accounts | no way back | - |
| install directories (`make-install-dir`) | permissions | group `install`, sticky | every package user | - | users cannot remove what others own |
| build and update (`usr/bin/cfgc`, `update-package.sh`, `install-xorg-packages.sh`, `mk-ok-tar`) | build trees, version directories | configure, make, install, go back | `tpkgs`, wrappers | one of several steps fails | the old version is back when the new one fails |
| snapshots (`make-snapshot.sh`, `restore-snapshot.sh`) | lists of `Current` links | make, restore | `tpkgs` | - | restore gives what was there |
| kernel (`installkernel`, `auto-install-kernel.sh`, `updatekernel`) | files and links in `/boot` | install, rotate | - | cut short between links | something boots |
| encrypted volumes (`mount-crypto`) | loop devices, luks mappings, mounts | mount, umount | the operating system | a chain of steps up and down | down undoes up |
| data, desktop configuration, patches, documents | - | - | - | - | - |

`PROJECT.json` has the same list with the status of each, and the list of
hazards with the line where each bites and the properties that catch it.

## 2. Modules and how they correspond to the code

### `SystemTree`

The installed system as a function `fs` from paths to nodes (kind, owner, link
content), and the system calls `tpkgs` makes as pairs of a guard and an effect:
`CanRemove`/`Removed` (`fs::remove`), `CanSymlink`/`Symlinked`,
`CanMakeDirs`/`MadeDirs` (`fs::create_directories`, which makes ancestors and
is no error on a directory), `CanSetOwner`/`OwnerSet` (`Package::setOwner`,
which skips `lchown` when the owner is right). `Exists` and `IsDirectory` follow links as
boost does, so a dangling link does not exist and a link to a directory is one.
`MayAdd` and `MayRemove` are the permissions that `make-install-dir` sets up: all
package users may add to an install directory, only the owner may remove. The
content of a link is a member of a small set; a link to a file of the
store is the triple of package, version and path, so `getInstallPath` and
`getSourcePath` are inverse to each other by construction here. Paths are
canonical: what is below a link to a directory is not seen under the name of
the link.

### `Tpkgs`

| Variable | Code |
|---|---|
| `fs` | the installed system |
| `current[p]` | `/packages/p/Current`, `Package::_installedVersion` |
| `proc[i]` | one running process: the pass of `pexec`/`pexecU`, the items left of the `IIList`, the item with a system call due, `MXOSet`'s flags and `hasError` |
| `torn[p]` | history: versions whose last run was killed, threw, or skipped errors |

| Action | Code |
|---|---|
| `Install`, `Uninstall` | `xmain`, `A_INSTALL` (333-361) and `A_UNINSTALL` (362-376) up to the first item; a switch starts as an uninstall that remembers `next` |
| `DryItem`, `DryStop`, `DryEnd` | the dry run of `pexec` (90-103); without `--ignore-errors` an error ends the run after it |
| `RealItem` | one item in the real or third pass up to its first system call: `installLink`, `installDir`, `uninstallLink`, `uninstallDir` |
| `Remove`, `Symlink`, `MakeDirectory`, `SetOwner`, `RemoveDirectory` | the system calls, one step each; a failing one is the exception that `run` (68-87) passes on or notes (`Raise`) |
| `RealEnd` | the end of a pass; an uninstall goes to the third pass of `pexecU` (148-155) |
| `ClearCurrent`, `SetCurrent` | `Package::setUninstalled`, `setInstalledVersion` |
| `Crash` | the process is killed |

`MXOSet::addError` throws in a real run and only counts in the dry run. Between
any two steps of one process every other may make one. Items of one level come
in any order, a directory before its content (`Ready`).

`TpkgsInv` holds the inductive invariants and the conditions used by proofs,
`MCTpkgs` the instances.

### `PkgStore` and `TpkgsStore`

`PkgStore` is the abstract specification: per package the version `Current`
names, the versions the system holds links into, and the ones that are not
settled (at work, or left by a run that was cut short or skipped errors).
A version is linked and unlinked only while it is unsettled, `Current` is set
to it by a run that had installed it, and taken from it only when no link of it is
left or it stays unsettled. `TpkgsStore` states that `Tpkgs` implements it: `linked` is read off the
links in `fs`, `unsettled` off `torn` and the processes' passes, and `KeepsStore` is
`Store!Spec` under that mapping.

### `TpkgsPack`

One package with its versions; what is in the system is `sys`, what is in `/packages/p` is `store`.

| Variable | Code |
|---|---|
| `sys`, `store` | the system and the version directories, with kind, owner (yes, part: user or group only, no) and content |
| `tmp` | the files `f.tmp` of `moveOrCopy` that exist, as pairs of version and path |
| `current`, `cache` | `Current`; the file of `--cache-file` |
| `proc[i]` | one run: its pass, the items left, the item at work with the types asked when the list was made, what `moveOrCopy` has read |
| `runs`, `torn`, `passed` | bound and history: how many runs began, whether one was killed, failed, skipped an error, used an old list or did not look through the install directories, what the last dry run said |

| Action | Code |
|---|---|
| `Build` | `make install` of the package user, between runs (external) |
| `Pack` | `A_PACK` up to the first item: the cache or `FindFilesInInstallDirs`/`FindFilesOnInstallDevice`, and `create_directory` for the version, which may fail |
| `DryRun` | the dry pass over all items |
| `Item` | `packReg`, `packLink`, `packDir`: the decision what is due (`Due`) |
| `Parents`, `MakeDir`, `UnlinkSource`, `LinkSource`, `OwnSource` | the calls of `packLink` and `packDir` and of `createParents` |
| `Rename`, `Open`, `Write`, `Discard`, `Place` | `moveOrCopy`: rename, or across devices `fopen` of `f.tmp`, `fwrite`, remove on error, rename onto the name |
| `UnlinkInstalled`, `LinkInstalled`, `OwnInstalled` | the link that takes the place of a packed file |
| `End`, `ClearCurrent`, `SetCurrent` | the end of a pass, `Package::setInstalledVersion` |
| `Crash` | the run is killed |

### `TpkgsConfig`, `TpkgsDiff`, `TpkgsMain`

`TpkgsConfig` has operators only: what a line of a configuration file changes
(`loadConfigEntry`, with `trim`), and the mapping (`makeMapping`, `getSourcePath`,
`getInstallPath`) over paths that are sequences of components, with the order in
which a `std::map` has its entries. `Closest` is the reference definition the mapping is
checked against. `TpkgsDiff` has the marks of `--diff`
(`compare`, `showDiff`, `listUnique`) over small files.

`TpkgsMain` is one run from its start to what it does. `pc` goes through the places of
`xmain`, `packages` is what `/packages` holds, `tp` and `tp2` are the
configuration and the copy for the version that is replaced, each with the list of files it was read
from (`read`) and the set of files it stores lines of (`stored`), `args` the words left, `chosen` the result of `Popt`, `work` the operations carried out (history).

| Action | Code |
|---|---|
| `Open`, `ReadLine`, `EndOfFile` | `Config::load` of the system's, the user's, the package's and the version's file |
| `ParseArguments`, `Select` | options; `getPackage`, `getPackageAndVersion`, `getPackageAndTwoVersions`, `getVersion` with their defaults |
| `Query`, `ListAll`, `ShowConfig`, `Look`, `RefuseWords` | the queries, the loops over words, the test for words too many |
| `Install`, `Uninstall`, `Pack`, `Diff` | the branches of `xmain` for the actions |
| `Gather`, `Replace`, `Run`, `RunPack` | the lists of files, the switch of `--install --bypass`, `pexec`/`pexecU` as success or failure; a failing `--pack` may stop before the directory of the version is made, after it, or with `Current` of another version removed |

### `UserDb`

`passwd` and `group` are the sets of lines of `/etc/passwd` and `/etc/group`,
`tmpPasswd` and `tmpGroup` the fixed files in `/tmp`, `proc[i]` one run of
`add_package_user`, `served` the names for which a run ended with status 0
(history). The script's choice of numbers is in `AfterLast`, `FirstGap` and `FirstGapBut`
(the loops, as folds that take the numbers in ascending order) and `PickUid`, `PickGid`. The
calls of `groupadd` and `useradd` are steps of their own: check, copy,
empty (the shell's redirection), write. `cp`, and the write of `sort` and
`sed`, are one step each. The arguments are those of `install_package`: the group's
name is the first 16 characters of the user's (`GroupOf`, `install_package:28-33`), so that
packages may share a group, and both ranges are equal. `torn` (history) says that a run was
killed where it leaves a broken account: with a file emptied or between the line of the user
and its place in the install group. Only the `useradd` and
`groupadd` of `/tools/bin` are meant, not the programs that replace them later.
The home directory is left out.

### `PkgExec`

`pc[c]` is the place of a command in `exec`'s loop, `ret[c]` its variable `RET`,
`status[c]` how the last command in slot `c` ended; `question` and
`answer` are the files `pkg/exec` and `pkg/answer`, `dir` and `ignoring` the
directory `pkg` and the file `exec-ignore`. The operator is external: `Open` is
the shell's redirection that makes `pkg/answer` empty, `Write` the word that
follows, and `unanswered` says the operator reacts once to each question. The
history variable `meant` says which commands' open questions were in the file
when the present answer was begun. Whether a command, `cmp` or `mkdir` succeeds is
open. `rm -f answer exec` is two steps.

## 3. Runs

Passing:

| Run | Shows |
|---|---|
| `solo` | one operator at a time, killed anywhere; `--install` without flags, with `--bypass`, with `--bypass --over-wrong-target` and with `--ignore-errors`, `--uninstall` without flags, with `--over-wrong-target` and with `--ignore-errors`; on a clean tree and one with things in the way: `NoOrphan`, `Intact`, `DryRunPredicts`, `FoldersGone`, `ForeignUntouched`, `OwnersKept`, `WrongLinksKept`, `TypeOK`, and the refinement `KeepsStore` |
| `pair` | two operators at once, each on its own package with a shared directory and a shared path: `NoOrphan`, `Intact`, `ForeignUntouched`, `KeepsStore` |
| `users` | two package users that do not coordinate, no root: `ForeignUntouched` (the sticky directories close the gap between check and removal) |
| `ends` | every run of `tpkgs` ends |
| `pack` | builds and packs of two versions after each other, by the package user or root, over one or two devices, every system call may fail and every run may be killed: no content is lost (`NothingLost`), `Current` is set on whole versions only (`PackedWhole`), what the package owns is in the version when a run ends well (`Accounted`), a failed pack can be repeated (`Repackable`), no temporary file becomes a file of the version (`NoStray`), the dry run tells the truth (`PackPredicts`) |
| `startup` | every command line of up to three words by root, two package users and a stranger, on three stores, with configuration files of up to two lines: `SelectsAsDocumented`, `DiffAsDocumented`, `OwnConfiguration`, `RoundTrip`, `ClosestEntry`, `SilentDiffs`, `SizeMarks`, `CurrentFollowsWork`, and `Ends` |
| `accounts` | one `add_package_user` at a time, killed anywhere and repeated, on every use of a range of four numbers, also where the install group takes one of them, for three packages of which two share a group: `UniqueIds`, `PickAsDocumented`, `AccountsWhole` (the last unless a run was killed with a file emptied or a user not yet in the install group) |
| `exec_solo` | one command at a time, with or without a terminal, killed anywhere: `Answered`; and as long as none was killed `AnswersMeant`, `NothingLeft`; `TypeOK` |

Every property of a passing run has a mutant in `PROJECT.json`, a variant of one
definition with a plausible bug (no check of the owner, no third pass,
a link compared not at all...), under which the run fails.

The runs with an expected violation are in [section 7](#7-where-code-and-text-disagree).

## 4. Bounds and why they are enough

* `Tpkgs`: two packages, versions 1 and 2 of A and 1 of B, five paths below `/`:
  a directory both have, a file in it both have (the collision; in `users` the link /t), a file of A's
  two versions (the switch), a directory and a link of A 2 only. Two
  processes; one is enough for the kills of `solo`, since a killed process gives
  its slot back to a new run. `folders` uses a chain of two directories.
  In `pair` each package has one version, which leaves out only the
  switch. Sequences of runs are not bounded.
* `TpkgsPack`: a file beside the store, a directory and a file in it on another device, so that
  both ways of `moveOrCopy` are taken; three builds, which make a file, replace it by a link or by an
  empty file and change an owner. `MaxRuns = 3` bounds the runs: a first one, one that
  fails or is killed, and its repetition. The versions are interchangeable (`Alike`), and the
  run has no liveness property.
* `TpkgsMain`: three words allow every form the help lists (package, version, second
  version) and one word too many; three versions are needed to tell the most recent from the second and from
  the current one; `MaxLines = 2` bounds the lines over all files, since overlap is between
  two entries of the map.
* `UserDb`: a range of four numbers, all 16 uses of it by users times all 16 by
  groups, with 0 and with or without a number above the range; three
  names, two of them with one group, and every number of free places from none to four.
* `PkgExec`: a word of every pattern of `exec:73-74` and one that matches none; one command for what holds, two for what does not; the state space
  is finite without a bound.
* No symmetry is used elsewhere: the two packages have different contents, and the action
  and liveness properties tell them apart.
* `MayCrash` is FALSE where a run is about concurrency alone.
* The history variables `killed` of `PkgExec` and `torn` of `UserDb` let one run check both what
  holds after a kill and what does not.

## 5. Fairness

* `Tpkgs!FairSpec`: weak fairness of each process' own steps (`Work`): a process
  that runs is scheduled. Neither commands nor kills are fair.
* `PkgExec!FairSpec`: the same for each command, and weak fairness of the operator's
  `Answer`: the comment of `exec` (lines 17-19) describes an operator who reads
  `pkg/exec` and answers; the operator is assumed to answer each question that stays
  there, once.
* `TpkgsMain!Spec`: weak fairness of `Step`. It is one process, and the kernel lets it run.

The other specifications have safety properties only and no fairness.

## 6. What is proved

All by `tlapm`, for all values of the constants that satisfy the named
assumptions in the modules that declare them. Those say what the constants are: names, orders
without repetition, ancestors that form chains, versions and words of the right form, a system
that is a tree and holds no link into the store at first. What a theorem needs beyond that is
a hypothesis of the theorem, and each is explained here with what goes wrong without it.
Every safety property of a passing run is stated by a theorem; each invariant was checked
with TLC on the instance of its run before it was proved.

Install and uninstall:

* `TpkgsProofs!TypeCorrect`: `Spec => []TypeOK`. `TypeOK` is inductive as it is; one step per action.
* `TpkgsOrphanProofs!NoForgottenLinks`: `ASSUME Disciplined PROVE Spec => []NoOrphan`,
  for any number of packages, operators and kills. `Disciplined`: at most
  one run at a time works on a package; `--uninstall` is not given `--bypass` (what is
  uninstalled is what `Current` names); no uninstall ignores a path that some install does not
  ignore. With `VersionIgnores` or `HomeIgnores` of `MCTpkgs` for `Ignored`, which the code
  allows, TLC finds a forgotten link: the last condition is needed.
  `NoOrphan` is not inductive: at `ClearCurrent` it needs that the uninstall has
  removed every link of its version. `OrphanInv` therefore adds `UninstallsDone`
  (in the real pass the links that are left are at items still to be visited, in
  the third pass there are none), `LinksOK` (a store link is at the path of a
  file that some install does not ignore, so that the uninstall does visit it), `JobsOK`
  (what a process knows about `Current` stays true) and `Exclusive` (which makes the former
  stable). The proof shows for one process, through `StepOK`, what a step may do to the
  tree and to its own package, and lifts that to all.
* `TpkgsOrphanProofs!EmptyFoldersGo`: `ASSUME RunsAlone, Disciplined, Shallow, OpenAtFirst PROVE
  Spec => []FoldersGone`. `FoldersInv` says that where the uninstall has been there is no link or file (`CleanedUp`) and
  that whatever belongs to a package user is a directory of the package or a link of a version that is
  accounted for (`OwnAccounted`): so what keeps a directory from being removed is another's.
  `Shallow` (no directory of a package is in another) is what the run `folders` shows to be needed. `OpenAtFirst`: a
  package user may remove from the top, and nothing is a package user's before the first run.
* `TpkgsForeignProofs!LinksUntouched`: `ASSUME Considerate PROVE Spec => ForeignUntouched`.
  `Considerate`: one run per package, no `--over-foreign`, and no path that is a
  directory in one version and a file in another. `ForeignInv` says that a link
  whose owner was checked is still the same when it is removed (`NodesHeld`), and
  that two processes never both own the same new link (`OwnersApart`). What happens
  without the first condition is in section 7.
* `TpkgsForeignProofs!OnlyRightLinksRemoved`: `ASSUME Considerate, NoOwnLinkAtFirst PROVE Spec =>
  WrongLinksKept`. `WrongInv` adds to `ForeignInv` that the link about to be removed says what the item says
  (`RemovesRight`), and that no package owns a link where one of its versions has a directory
  (`NoOwnLink`): `uninstallDir` takes a link to a directory for a directory and removes it.
* `TpkgsProofs!ExistingKeepOwners`: `ASSUME RunsAlone PROVE Spec => OwnersKept`. `NewObjects`: what a
  run is about to hand over it has just made. Two runs of root on a shared directory violate it (section 7).
* `TpkgsProofs!DryRunForetells`: `ASSUME RunsAlone, Plain PROVE Spec => []DryRunPredicts`.
  `DryInv` is that the system stays a tree (`WellFormed`), what the dry run learnt (`Foretold`:
  no item still to do is an error, and the directories of those done are there), what a call finds (`CallOK`) and
  `DirsClear`. `Plain`: versions are trees, what is below an ignored directory is ignored, no
  path changes its kind between versions, and at first no dangling link is where a directory is to be, nor a link to
  a directory where one with something in it is to be. The run with `OnlyDangling` is the counterexample to the last.
* `TpkgsStoreProofs!StoreImplemented`: `ASSUME Orderly PROVE Spec => KeepsStore`, the
  refinement: every step of `Tpkgs` is a step of `PkgStore` or a stutter. `Orderly` is
  `Disciplined`, and `NoKindClash` where `--over-foreign` is never given.
  Most steps follow from `OrphanInv`. A step that removes a link must not be one that takes a link of
  another, settled version; where nobody uses `--over-foreign` that needs
  `OwnerInv`: a link into the store is owned by the user of the package it leads to or by
  root (`LinksOwned`), and a run about to set an owner does so on links to its own package only (`ClaimsOwn`).
  Otherwise `PkgStore` allows that step too.
* `TpkgsStoreProofs!NothingForgotten`: the abstract store never forgets a version it
  holds links into, and by the refinement neither does `tpkgs`. That is the reason for `NoForgottenLinks`
  in a form that does not speak of paths and system calls.
* `TpkgsStoreProofs!InstalledWhole`: `ASSUME Orderly, NeverForeign PROVE Spec => []Intact`. `IntactInv` is
  `OrphanInv` and `OwnerInv` with `InstallsDone` (what an install wants to link and need not visit again is
  linked) and `SettledWhole` (the version `Current` names is whole, at work or torn). With
  `--over-foreign` any package may take a link of another.

Pack:

* `TpkgsPackProofs!TypeCorrect`: `Spec => []TypeOK` for any number of runs. `JobOK` adds what the
  place of a run says about its item.
* `TpkgsPackProofs!PackLosesNothing`: `ASSUME OneAtATime PROVE Spec => NothingLost`, for all
  trees, versions, devices, failing calls and kills. `SafeInv` is needed because
  the danger is in the steps that remove or overwrite: what a run
  read or asked before (`Knows`) must still be true then, which holds since no
  other run is there.
* `TpkgsPackProofs!CopyCleared`: `Spec => NoStray`, without a hypothesis: only a kill leaves `f.tmp`.
* `TpkgsPackProofs!ListPacked`: `ASSUME OneAtATime PROVE Spec => []PackedWhole`. `RunsInv` adds to `SafeInv`
  how far a run is in its list: what is done is in the version and linked (`PackedAt`), what is to be done is as it
  was when the list was made.
* `TpkgsPackProofs!PackForetold`: `ASSUME SteadyFolders PROVE Spec => []PackPredicts` (`ForetoldInv`).
  `SteadyFolders`: no build has a file or link at a path below which another has something. Without it a first
  version with a file `m` and a second one that finds `m` a directory of another package with a file of its own
  in it pass the dry run with `--install-device`, and the parents cannot be made.
* `TpkgsPackProofs!PackRepeats`: `ASSUME OneAtATime PROVE Spec => []Repackable`. `RepeatInv` says of every step
  of a run that what is found from then on is part of what was found before, and still packable.
* `TpkgsPackProofs!PackAccounts`: `ASSUME OneAtATime, SteadyOwners PROVE Spec => []Accounted` (`AccountInv`).
  `SteadyOwners`: no build removes anything, and a directory that is once another's stays so. Otherwise links of an older version
  in it are out of reach of the walk through the install directories, come back into reach
  when the directory is the package's again, and lead to another version than `Current`.

The run of `tpkgs` as a whole:

* `TpkgsMainProofs!OwnFiles`: `Spec => []OwnConfiguration`, for any words, files and
  packages. `PhaseInv` says which files are read at each place of `xmain`, `StoredIn` that a copy
  stores lines of files read into it only, `WorkOwn` carries both over to what has been done.
* `TypeCorrect`: `Spec => []TypeOK`. On top of `ConfigInv`, `TypeInv` has the map finite, the
  words words, the packages packages, and what was chosen known.
* `CurrentKept`: `Spec => CurrentFollowsWork`. `CurrentInv`: what the guards of `xmain` found about
  `Current` is still so when the work begins.
* `WordsAsDocumented`: `NamedVersions /\ Spec => []SelectsAsDocumented`. From the choice to the command the
  words still say what is chosen (`ChoiceInv`). `NamedVersions`: no word is a name, a colon and nothing, which the
  help does not list and the code takes for no version.
* `DiffsAsDocumented`: `Spec => []DiffAsDocumented` (`DiffInv`, on `ChoiceInv`). The most recent version is
  the last of a finite set, which `HasLast` shows to exist.
* `SilenceIsSameness` and `MarksAreSizes`: `Spec => []SilentDiffs`, `Spec => []SizeMarks`, for files
  of any length, from `CompareFacts` and `ShownDiff`.
* `ClosestWins`: `Spec => []ClosestEntry`, and `PackedComesBack`: `Spec => []RoundTrip`, for maps
  of any size and paths of any length. The loop over the `std::map` is a fold over a finite set in descending order of
  paths; that the order is total is proved first (`Less`), then by induction on the set what
  the loop finds (`SearchExists`, `OneSearch`, `SearchFinds`).

Package user commands:

* `PkgExecProofs!TypeCorrect`, `FilesRemoved`, `AnswersFit`: types for all
  instances; for one command at a time (`OneAtATime`), as long as none was
  killed, that no file stays behind and every answer read was meant for
  the reader. `Phases` ties the place of the command to which files exist; its core is that while a command waits the
  answer file exists exactly if the operator has reacted.

Package user accounts:

* `UserDbProofs!NumbersUnique`, `NumbersDocumented`, `AccountsStayWhole`: `ASSUME OneAtATime, RoomyRange,
  SoundSystems` prove `UniqueIds`, `PickAsDocumented` and `AccountsWhole`, for ranges of any size and
  any use of them. What the loops return (`AfterLast`, `FirstGap`, `FirstGapBut`) is proved by
  induction on the finite set of numbers. `UserInv` says that the chosen numbers are still free when
  they are written (`UidFree`, `GidsFree`), that the copy in `/tmp` is that of the file it replaces
  (`Copied`), and what of an account is done at each step (`AccountInv`). `RoomyRange`: the range starts above 0, which
  stands for "none in use", and has room for two groups: with an empty `/etc/group` and a range of one
  number the install group and the group of the package get the same one. `SoundSystems`: the files are in
  order at first, and where the install group is missing some group has a number below the range, as root's
  has. Without one, the second search steps over the number just given to the install group only after it has compared
  the first number in use, and can return that one (section 7). Two runs at once violate all three (section 7).

Only model-checked: the liveness properties `Ends` and `Answered`, which like ENABLED are out of the prover's
reach, and what the runs with an expected violation refute.

## 7. Where code and text disagree

Each is a run that TLC must find violated.

| Run | Property | What happens |
|---|---|---|
| `owner` | `OwnedByPackage` | a run of root killed between `create_symlink` and `lchown` leaves a link that no later install hands over |
| `folders` | `FoldersGone` | the third pass visits a directory before what is in it |
| `shipped` | `ShippedMap` | the entries of the configuration file in the repository are the wrong way round for `makeMapping` |
| `exec_parallel` | `Answered` | the question of the other command is removed |

Further ones that a change of the constants or of a property shows:

| Run and change | Violated | What happens |
|---|---|---|
| `pair` with `OnePerPackage = FALSE` and a third process, all root | `ForeignUntouched` | two runs on one package and one on another: the link that is removed (`InstallItem.cpp:213`) is not the one whose owner was checked (`InstallItem.cpp:201`) |
| `solo` with `Ignored <- VersionIgnores` | `NoOrphan` | uninstall reads the configuration file of the version, install does not (`main.cpp:336`; `InstallItem.h:66` says "Reverts #installLink.") |
| `solo` with `Ignored <- HomeIgnores` | `NoOrphan` | root and the package user have different homes and configurations |
| `pair` as root | `OwnersKept` | `create_directories` is content with a directory another run has just made, and `setOwner` takes it |
| `solo` with `InitialTrees <- OnlyLinked` | `WrongLinksKept` | `uninstallDir` removes a link to a directory |
| `solo` with `InitialTrees <- OnlyDangling` | `DryRunPredicts` | a dangling link passes the dry run as "will be created" |
| `solo` with `{"bypass", "ignoreErrors"}` among the flags of `--uninstall` | `NoOrphan` | a version that `Current` does not name is uninstalled (`main.cpp:367`), and `Current` of the other one goes with it: its links are forgotten |
| `solo` with `{"bypass", "overWrong"}` among the flags of `--uninstall` | `Intact` | that uninstall removes links of the version `Current` names |
| `pack` with `OneAtATime = FALSE` and two processes | `NothingLost` | a run acts on what it read before the other one changed it |
| `accounts` with `MinId = 0` | `PickAsDocumented` | 0 stands for "none in use" |
| `accounts` with groups 3, 4, 5 only and no install group | `UniqueIds`, `PickAsDocumented` | the install group gets 2; the search of the next gap (`add_package_user:194-201`) compares 3 with 2, steps over 2 to 3, and 3 is in use |
| `accounts` with `Procs = {p1, p2}` | `UniqueIds`, `PickAsDocumented`, `AccountsWhole` | two runs choose one uid, and overwrite each other's `/etc/group` (`useradd:48`; `add_package_user:24`) |
| `accounts` without `~torn` in the property | `AccountsWhole` | a user line counts as a finished account; an emptied file stays empty |
| `exec_solo` without `~killed` in the property | `AnswersMeant` | an answer given to a killed command is taken by the next one |

What reading the code for the models showed, and the models state as they are:

* Pack. A run killed between the rename and the link can be followed by one that sets `Current`
  on a version with a file that is not linked. A leftover `f.tmp` is a file of the version for a later install.
  A copy made by root stays root's in the store. An empty file cannot be packed
  over a device boundary, after a clean dry run (`InstallItem.cpp:122`). An old cache
  packs the old list.
  `--mapped-dirs` visits places in the version directory, not in the system
  (`FindFilesInMappedDirs.cpp:22`), so it finds nothing to pack.
* Start. `trim` leaves trailing blanks if there are no leading ones (`Config.cpp:31`). `--files`
  ignores words too many. `--current`, `--info`, `--config` and `--diff` of a name that is no package, by
  a user whose home it would be, make `/packages/<name>`. The version's own
  `.tpkgs.conf` is among the files of the version. `HOME` decides the user's file,
  so root reads `/root/.tpkgs.conf`. `--uninstall --bypass` of a version that is not the current
  one clears `Current`. In `--diff` a version called `new` is compared instead of the system.
  `cheapNormalize` makes `../x` of `../../../x` (`File.cpp:201`).
* `exec` takes `i` and what begins with `I` for ignore, `a` and what begins with `A` for abort
  (`exec:73-74`); the words `ignore` and `abort` by which its comment names the choices (`exec:13-16`) match neither,
  and the command is run again. `useradd:42` empties `/etc/passwd` before
  `sort` has written it, which `UserDb` has as a step.
* `install_package:10` says "username and groupname are the same"; lines 28-33 cut the group's name to
  16 characters, where there is a `sed`. Packages whose names begin alike share a group: the second run finds it and makes none.
  `FindFilesInInstallDirs.cpp:53` takes files by user or by group, so that `--pack` of one of
  them also finds what the other has installed.

And of scripts that are not modelled:

* `rename-pkg-user.sh:36` gives `groupmod` its arguments in the wrong order (`ch-install-name:18` has
  the right one); it stops with the user renamed and `/packages/<old>` not moved.
* `update-package.sh:114` reads `$?` after an `if ... fi`, which is 0 then: a failed `make install`
  counts as done and the archive is marked. The same is in `wwget:12`, and line 137 hides a status
  behind `local`.
* `make-snapshot.sh:11` tests `$pkg/Current` relative to the working directory: outside `/packages` the list is empty.
* `mount-crypto:21` says that empty options mean a key from standard input, lines 170 and 179 take `-` for
  that. The `grep -qF` of lines 102 and 134 takes `sda11` for `sda1`, so the latter is skipped as
  mounted.
* `installkernel:92` and `120` replace image and modules of the default kernel when the version is
  the same (`doc/kernel.md:26`: the next boot uses the default). `updatekernel` killed in lines 46-49 leaves
  only `vmlinuz.old`, and it links the running kernel, not `vmlinuz.new`.

## 8. What is not modelled and why

* `tpkgs`: the prefixes `removePrefix` cuts off a word and the option parser popt (a library);
  `--mapped-dirs`, which never gets to its files; the normalisation of paths in `File.cpp` (paths are
  canonical in the models); what `--files` and `--config` print; paths below a link to a directory;
  a store that changes while a run reads it; `gatherInstallItemList` failing half way; messages.
* `PkgExec`: the rewriting of options by the wrappers (each ends in one call of
  `exec`); a variable `RET` that comes in from the environment.
* `UserDb`: the home directory; the `useradd` and `groupadd` of the finished system.
* Install directories: what the `chown` and `chmod` of `make-install-dir` (8-10, 43-44) set is in `SystemTree`
  (`InstallDir`, `MayAdd`, `MayRemove`); the rest of the script, its tests, `mkdir` and the line in a list, is not modelled.
* Renaming a package user, snapshots, kernel scripts, encrypted volumes: sequences of
  calls of external programs (`usermod`, `losetup`, `cryptsetup`, `mount`, the
  kernel's `make`) that share no state with the packages except the accounts and the
  home. A model would mostly be one of those programs. What
  reading them showed is at the end of section 7.
* Build and update: the functions that do the work come from `~/.update.config.sh` of each package user
  and the version 2 of the interface is not in the repository. What `tpkgs` does when they call
  it is modelled.
* Helper scripts, package data, desktop configuration, patches and documents have no
  state of their own.

## 9. Plan

Written: `SystemTree`; `Tpkgs` with `TpkgsInv`, `TpkgsStore`, `PkgStore` and the proofs in
`TpkgsProofs`, `TpkgsOrphanProofs`, `TpkgsForeignProofs`, `TpkgsStoreProofs`; `TpkgsPack` with
`TpkgsPackProofs`; `TpkgsConfig`, `TpkgsDiff`, `TpkgsMain` with `TpkgsMainProofs`; `UserDb` with
`UserDbProofs`; `PkgExec` with `PkgExecProofs`; the instances `MCTpkgs`, `MCTpkgsPack`, `MCTpkgsMain`,
`MCUserDb`, `MCPkgExec`.

Left, in this order:

1. An abstract specification of `TpkgsPack` (a set of files that moves from the system to a
   version), and the refinement step by step as for `PkgStore`.
2. `TpkgsPack` and `Tpkgs` composed: a packed version is installed, switched and packed again.
3. `UserDb` extended by renaming: three steps without a way back.
4. The links of `updatekernel` cut short, and the chain of `mount-crypto` up and down.
