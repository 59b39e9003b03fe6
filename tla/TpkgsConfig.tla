----------------------------- MODULE TpkgsConfig -----------------------------
(***************************************************************************)
(* The configuration of tpkgs, and the mapping between the system and a    *)
(* version directory it describes: what a line of a configuration file     *)
(* changes, and where a file goes. Reading the files, one after the other, *)
(* is TpkgsMain's.                                                         *)
(*                                                                         *)
(* A path is the sequence of its components, as boost iterates over them:  *)
(* <<"/", "usr">> is absolute, <<"usr">> relative, <<>> the empty path.    *)
(***************************************************************************)
EXTENDS Naturals, FiniteSets, Sequences, Folds

CONSTANT Order  \* the names of components, in the order of strings

Blank == " "
Names == {Order[k] : k \in DOMAIN Order}
IsPath(p) == p \in Seq(Names \cup {Blank})

ASSUME OrderAssumption ==
    /\ Order \in Seq(STRING) /\ Blank \notin Names /\ "/" \in Names
    /\ \A k, n \in DOMAIN Order : Order[k] = Order[n] => k = n

IsAbsolute(p) == p # <<>> /\ Head(p) = "/"

PathSettings == {"KEEP_DIRS", "IGNORE_IN_SOURCE", "IGNORE_IN_SYSTEM"}
Ops == {"=", "+=", "-="}

\* A line that is not blank: <setting> <op> <from>[:<to>], with the places where
\* there are blanks around the values.
IsLine(l) ==
    /\ DOMAIN l = {"set", "op", "from", "to", "colon", "blanks"}
    /\ l.op \in Ops /\ IsPath(l.from) /\ IsPath(l.to)
    /\ l.colon \in BOOLEAN /\ l.colon => l.set = "INSTALL_PATH_MAP"
    /\ l.blanks \subseteq {"lead", "beforeColon", "afterColon", "tail"}

DefaultConf ==
    [dir |-> <<"/", "packages">>, map |-> {<<<<"/">>, <<>>>>},
     KEEP_DIRS |-> {}, IGNORE_IN_SOURCE |-> {}, IGNORE_IN_SYSTEM |-> {}]

\* trim keeps the blanks at the end of a text that begins with none; of blanks
\* alone it makes the empty text. A blank is a component of its own here: the
\* path is the same as no other.
trim(p, lead, tail) == IF p # <<>> /\ tail /\ ~lead THEN Append(p, Blank) ELSE p

\* loadLine has trimmed the line before loadSetting trims the value, which begins
\* at its first character.
Value(l, p, lead) == trim(p, lead, "tail" \in l.blanks /\ "lead" \notin l.blanks)
From(l) ==
    IF l.colon THEN trim(l.from, FALSE, "beforeColon" \in l.blanks)
    ELSE Value(l, l.from, FALSE)
To(l) == Value(l, l.to, "afterColon" \in l.blanks)

\* loadSetting of a set
Changed(S, op, v) ==
    CASE op = "=" -> {v}
      [] op = "+=" -> S \cup {v}
      [] OTHER -> S \ {v}

\* TC::loadConfigEntry knows the line.
Known(l) ==
    \/ l.set = "MAIN_PACKAGE_DIR" /\ l.op = "="
    \/ l.set = "INSTALL_PATH_MAP" /\ l.colon
    \/ l.set \in PathSettings

loadConfigEntry(conf, l) ==
    CASE l.set = "MAIN_PACKAGE_DIR" -> [conf EXCEPT !.dir = From(l)]
      [] l.set = "INSTALL_PATH_MAP" ->
           [conf EXCEPT !.map = Changed(@, l.op, <<From(l), To(l)>>)]
      [] OTHER -> [conf EXCEPT ![l.set] = Changed(@, l.op, From(l))]

-----------------------------------------------------------------------------
(* Where a file goes                                                         *)

Rank(c) == IF c = Blank THEN 0 ELSE CHOOSE k \in DOMAIN Order : Order[k] = c

Common(p, q) ==
    CHOOSE n \in 0 .. Len(p) :
        /\ n <= Len(q) /\ \A k \in 1 .. n : p[k] = q[k]
        /\ n = Len(p) \/ n = Len(q) \/ p[n + 1] # q[n + 1]

\* operator< of paths, and of pairs of paths
Less(p, q) ==
    LET n == Common(p, q) IN
    IF n = Len(p) \/ n = Len(q) THEN Len(p) < Len(q) ELSE Rank(p[n + 1]) < Rank(q[n + 1])
LessPair(e, f) == Less(e[1], f[1]) \/ (e[1] = f[1] /\ Less(e[2], f[2]))

First(M) == CHOOSE e \in M : \A f \in M \ {e} : LessPair(e, f)
Last(M) == CHOOSE e \in M : \A f \in M \ {e} : LessPair(f, e)

Prefix(p, q) == Common(p, q) = Len(p)
Rest(p, q) == SubSeq(q, Len(p) + 1, Len(q))

\* The state of a search over the map: makeMapping returned TRUE (done), the
\* components the best entry so far matched, and the path it gives.
NoMatch == [done |-> FALSE, best |-> 0, result |-> <<>>]

makeMapping_FirstMatch(src, dst, path, s) ==
    IF s.done \/ ~Prefix(src, path) \/ s.result # <<>> THEN s
    ELSE [done |-> src = path, best |-> Len(src), result |-> dst \o Rest(src, path)]

makeMapping(src, dst, path, s) ==
    IF s.done \/ ~Prefix(src, path) \/ (Len(src) < s.best /\ s.result # <<>>) THEN s
    ELSE [done |-> src = path, best |-> Len(src), result |-> dst \o Rest(src, path)]

\* The fold applies the operator to the entry chosen first last: choosing the
\* last entry makes the search begin with the first.
getSourcePath(map, p) ==
    MapThenFoldSet(LAMBDA e, s : makeMapping(e[1], e[2], p, s), NoMatch,
                   LAMBDA e : e, Last, map).result

getInstallPath_FirstMatch(map, p) ==
    MapThenFoldSet(LAMBDA e, s : makeMapping_FirstMatch(e[2], e[1], p, s), NoMatch,
                   LAMBDA e : e, First, map).result

getInstallPath(map, p) ==
    MapThenFoldSet(LAMBDA e, s : makeMapping(e[2], e[1], p, s), NoMatch,
                   LAMBDA e : e, First, map).result

-----------------------------------------------------------------------------
(* What the mapping should do                                                *)

\* One entry takes a part of another one's source directory for another place:
\* p is in the place that part had.
Shadowed(map, p) ==
    \E e, f \in map :
        LET place == e[1] \o Rest(e[2], f[2]) IN
        Prefix(e[2], f[2]) /\ f[1] # place /\ Prefix(place, p)

\* The entry whose source directory is the closest one around p.
Closest(map, p) ==
    CHOOSE e \in map :
        Prefix(e[2], p) /\ \A f \in map \ {e} : Prefix(f[2], p) => Len(f[2]) < Len(e[2])
=============================================================================
