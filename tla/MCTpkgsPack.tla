---------------------------- MODULE MCTpkgsPack ----------------------------
(***************************************************************************)
(* A small package for model-checking TpkgsPack: a file /u/f beside the    *)
(* store, and a file /u/m/h in a directory on another device.              *)
(***************************************************************************)
EXTENDS TpkgsPack, TLC

CONSTANTS d1, d2, dead

MCPaths == {"/u", "/u/f", "/u/m", "/u/m/h"}
MCAbove == [x \in MCPaths |->
    CASE x = "/u" -> {}
      [] x = "/u/m/h" -> {"/u", "/u/m"}
      [] OTHER -> {"/u"}]

MCTree == [x \in MCPaths |-> IF x = "/u" THEN Dir("no") ELSE Absent]

MCFar == {"/u/m", "/u/m/h"}

\* The builds of three versions: a later one replaces what there is.
First == [x \in {"/u/f", "/u/m", "/u/m/h"} |->
    IF x = "/u/m" THEN Dir("yes") ELSE Regular("yes", d1)]
Second == [x \in {"/u/f", "/u/m", "/u/m/h"} |->
    CASE x = "/u/f" -> Link("yes", dead)
      [] x = "/u/m" -> Dir("yes")
      [] OTHER -> Regular("part", d2)]
Third == [x \in {"/u/m/h"} |-> Regular("yes", EmptyFile)]
MCBuilds == {First, Second, Third}

MCFlagSets == [as \in {"yes", "no"} |->
    IF as = "no" THEN {{}, {"bypass", "overWrong"}}
    ELSE {{"dryRun"}, {"ignoreErrors", "cache"}, {"installDevice"}}]

Alike == Permutations(Versions)
=============================================================================
