------------------------------ MODULE TpkgsStore ------------------------------
(***************************************************************************)
(* Tpkgs implements PkgStore: the links of the whole tree, and the passes  *)
(* of the runs, seen as one set of versions each per package.              *)
(***************************************************************************)
EXTENDS TpkgsInv

\* The versions of p the system holds links into
Linked == [p \in Packages |->
    {v \in Versions : \E x \in Paths : fs[x].to \in StoreFiles /\ fs[x].to[1] = p /\ fs[x].to[2] = v}]

Unsettled == [p \in Packages |-> {v \in Versions : v \in torn[p] \/ Writing(p, v)}]

Store == INSTANCE PkgStore WITH
    linked <- Linked, unsettled <- Unsettled, MayTakeOver <- ~NeverForeign

\* Run by run and link by link, tpkgs does what PkgStore says of whole versions:
\* one version of one package at a time, and Current is taken away from a version
\* only when none of its links is left (the order of main.cpp:141 and 364).
KeepsStore == Store!Spec
=============================================================================
