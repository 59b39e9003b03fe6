------------------------------ MODULE TpkgsDiff ------------------------------
(***************************************************************************)
(* What tpkgs --diff reports of two lists of files. A list is a function   *)
(* from the source paths of its items to what they are: a directory, a     *)
(* link or a regular file with its content, or another type of file. The   *)
(* content of a regular file is the sequence of its bytes.                 *)
(***************************************************************************)
EXTENDS Naturals, Sequences

Item(t, c) == [type |-> t, content |-> c]
IsItem(i) == i = Item(i.type, i.content) /\ (i.type = "reg" => i.content \in Seq(Nat))

Begins(s, t) == Len(s) <= Len(t) /\ SubSeq(t, 1, Len(s)) = s

compare_Swapped(c, d) ==
    CASE c = d -> "EQUAL"
      [] c # d /\ Begins(d, c) -> "EOF_ON_1"
      [] c # d /\ Begins(c, d) -> "EOF_ON_2"
      [] OTHER -> "DIFFERENT"

\* memcmp over the length of the shorter file
compare(c, d) ==
    CASE c = d -> "EQUAL"
      [] c # d /\ Begins(c, d) -> "EOF_ON_1"
      [] c # d /\ Begins(d, c) -> "EOF_ON_2"
      [] OTHER -> "DIFFERENT"

Mark(result) ==
    CASE result = "EQUAL" -> "="
      [] result = "DIFFERENT" -> "~"
      [] result = "EOF_ON_1" -> "+"
      [] result = "EOF_ON_2" -> "-"

\* The mark showDiff puts before a path that is in both lists; "=" for none.
showDiff(ii, oo) ==
    IF ii.type # oo.type THEN "!"
    ELSE IF ii.type = "link" THEN IF ii.content = oo.content THEN "=" ELSE "~"
    ELSE IF ii.type = "reg" THEN Mark(compare(ii.content, oo.content))
    ELSE "="

listUnique_AllKinds(map, other, there) == (DOMAIN map \ DOMAIN other) \ there

\* The paths of one list that are not in the other. Those of the old version leave
\* out the directories that are there in the system.
listUnique(map, other, there) ==
    {x \in DOMAIN map \ DOMAIN other : ~(map[x].type = "dir" /\ x \in there)}

\* The report: the marks, and the paths of one version only. there is the set of
\* the paths that exist in the system.
Report(old, new, there) ==
    [both |-> [x \in DOMAIN old \cap DOMAIN new |-> showDiff(old[x], new[x])],
     onlyOld |-> listUnique(old, new, there),
     onlyNew |-> listUnique(new, old, {})]

Silent(r) == (\A x \in DOMAIN r.both : r.both[x] = "=") /\ r.onlyOld = {} /\ r.onlyNew = {}

-----------------------------------------------------------------------------
\* A report without a mark means that the links and the regular files of the two
\* lists are the same, and that a directory of the old list is still there.
SilentMeansSame(old, new, there) ==
    Silent(Report(old, new, there)) =>
        /\ \A x \in DOMAIN old : old[x].type \in {"link", "reg"} =>
               x \in DOMAIN new /\ new[x] = old[x]
        /\ \A x \in DOMAIN old \ DOMAIN new : old[x].type = "dir" /\ x \in there
        /\ DOMAIN new \subseteq DOMAIN old

\* "newer is smaller (-), newer is greater (+)"
MarksTellSize(old, new, there) ==
    LET both == Report(old, new, there).both IN
    \A x \in DOMAIN both :
        LET c == old[x].content
            d == new[x].content
        IN  /\ both[x] = "-" => Len(d) < Len(c)
            /\ both[x] = "+" => Len(d) > Len(c)
=============================================================================
