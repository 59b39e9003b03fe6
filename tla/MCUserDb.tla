------------------------------ MODULE MCUserDb ------------------------------
(***************************************************************************)
(* Small instances of UserDb: the range 2 .. 5 and, outside of it, the     *)
(* number 0, of root, and 6.                                               *)
(***************************************************************************)
EXTENDS UserDb, TLC

\* The groups of three packages, of which two have the same first characters.
Cut == [n \in Names |-> IF n \in {"linux-headers", "linux-modules"} THEN "linux" ELSE n]

InRange == MinId .. MaxId - 1

\* The files when the numbers uids and gids belong to accounts that are no
\* package users, and the install group has one of the numbers of install.
System(uids, gids, install) ==
    [passwd |-> {User(ToString(u), u, u) : u \in uids},
     group |-> {Group(ToString(g), g, {}) : g \in gids \ install}
               \cup {Group(Install, g, {}) : g \in install}]

\* Every use of the range, with the number beyond it where the uids and the gids in
\* use are the same; the install group exists, in the range or below it.
AnyUse ==
    {System(a \cup {0}, b \cup {0}, g) :
         a \in SUBSET InRange, b \in SUBSET InRange, g \in {{1}, {3}}}
    \cup {System(a \cup {0, 6}, a \cup {0, 6}, g) : a \in SUBSET InRange, g \in {{1}, {3}}}

\* Every use of the range by users or groups; the install group may be missing.
FreshUse ==
    {System(a \cup {0}, {0}, g) : a \in SUBSET InRange, g \in {{}, {1}}}
    \cup {System({0}, b \cup {0}, g) : b \in SUBSET InRange, g \in {{}, {1}}}

AnyOrFresh == AnyUse \cup FreshUse
=============================================================================
