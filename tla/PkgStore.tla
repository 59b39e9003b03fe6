------------------------------ MODULE PkgStore ------------------------------
(***************************************************************************)
(* What tpkgs promises about the versions of the packages, whatever it     *)
(* does to the files one by one: the system holds links into a version     *)
(* only while Current names it or a run of it is not settled yet, and      *)
(* Current names a version only from the end of a run that installed it to *)
(* the end of a run that removed all of its links.                         *)
(***************************************************************************)
CONSTANTS
    Packages,
    Versions,
    NoVersion,
    MayTakeOver  \* TRUE if runs may overwrite links of other packages

VARIABLES
    current,   \* current[p]: the version Current names
    linked,    \* linked[p]: the versions the system holds links into
    unsettled  \* unsettled[p]: the versions a run works on, or the last run of
               \* which was cut short or skipped errors
vars == <<current, linked, unsettled>>

TypeOK ==
    /\ current \in [Packages -> Versions \cup {NoVersion}]
    /\ linked \in [Packages -> SUBSET Versions]
    /\ unsettled \in [Packages -> SUBSET Versions]

Init ==
    /\ current = [p \in Packages |-> NoVersion]
    /\ linked = [p \in Packages |-> {}]
    /\ unsettled = [p \in Packages |-> {}]

\* A run begins to change the system.
Begin(p, v) ==
    /\ unsettled' = [unsettled EXCEPT ![p] = @ \cup {v}]
    /\ UNCHANGED <<current, linked>>

Link(p, v) ==
    /\ v \in unsettled[p]
    /\ linked' = [linked EXCEPT ![p] = @ \cup {v}]
    /\ UNCHANGED <<current, unsettled>>

\* The last link into the version goes.
Unlink(p, v) ==
    /\ v \in unsettled[p] \/ MayTakeOver
    /\ linked' = [linked EXCEPT ![p] = @ \ {v}]
    /\ UNCHANGED <<current, unsettled>>

\* A run ends: it settles the version, or errors were skipped.
Settles(p, v) ==
    \/ UNCHANGED unsettled
    \/ unsettled' = [unsettled EXCEPT ![p] = @ \ {v}]

Installed(p, v) ==
    /\ v \in unsettled[p] /\ current[p] = NoVersion
    /\ current' = [current EXCEPT ![p] = v]
    /\ Settles(p, v) /\ UNCHANGED linked

Uninstalled(p, v) ==
    /\ v \in unsettled[p] /\ current[p] = v
    /\ current' = [current EXCEPT ![p] = NoVersion]
    /\ Settles(p, v) /\ (v \in linked[p] => v \in unsettled'[p])
    /\ UNCHANGED linked

Next ==
    \E p \in Packages, v \in Versions :
        \/ Begin(p, v) \/ Link(p, v) \/ Unlink(p, v)
        \/ Installed(p, v) \/ Uninstalled(p, v)

Spec == Init /\ [][Next]_vars

\* No version is forgotten: what the system holds links into is what Current
\* names, or not settled.
NoneForgotten ==
    \A p \in Packages : linked[p] \subseteq unsettled[p] \cup {current[p]}
=============================================================================
