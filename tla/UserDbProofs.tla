---------------------------- MODULE UserDbProofs ----------------------------
(***************************************************************************)
(* Proofs about UserDb: one run of add_package_user at a time, killed or   *)
(* not, chooses the numbers it documents, gives no number twice and leaves *)
(* whole accounts.                                                         *)
(***************************************************************************)
EXTENDS UserDb, FiniteSetTheorems, SequenceTheorems, WellFoundedInduction, TLAPS

-----------------------------------------------------------------------------
(* Finite sets of numbers                                                    *)

\* A family of subsets of a finite set has a smallest member: the induction that
\* the proofs about the loops of the script are made by.
LEMMA Smallest ==
    ASSUME NEW S, IsFiniteSet(S), NEW B, B \subseteq SUBSET S, B # {}
    PROVE  \E s \in B : \A t \in B : t \subseteq s => t = s
<1> DEFINE R == StrictSubsetOrdering(S)
<1>1. IsWellFoundedOn(R, SUBSET S)
  BY FS_StrictSubsetOrderingWellFounded, FS_FiniteSubsetsOfFinite
<1> HIDE DEF R
<1>2. PICK s \in B : \A t \in B : ~ (<<t, s>> \in R)
  BY <1>1, WFMin
<1> QED BY <1>2 DEF R, StrictSubsetOrdering

LEMMA HasGreatest ==
    \A S : S \subseteq Nat /\ IsFiniteSet(S) /\ S # {} =>
           Greatest(S) \in S /\ \A y \in S : y <= Greatest(S)
<1>0. SUFFICES ASSUME NEW S, S \subseteq Nat, IsFiniteSet(S), S # {}
               PROVE  \E x \in S : \A y \in S : y <= x
  BY DEF Greatest
<1> DEFINE B == {s \in SUBSET S : s # {} /\ ~ \E x \in s : \A y \in s : y <= x}
<1>1. B = {}
  <2>1. SUFFICES ASSUME B # {} PROVE FALSE
    OBVIOUS
  <2>2. PICK s \in B : \A t \in B : t \subseteq s => t = s
    <3>1. B \subseteq SUBSET S
      OBVIOUS
    <3>2. IsFiniteSet(S)
      BY <1>0
    <3> HIDE DEF B
    <3> QED BY <2>1, <3>1, <3>2, Smallest
  <2>3. PICK e \in s : TRUE
    OBVIOUS
  <2>4. s \ {e} \notin B
    BY <2>2
  <2>5. CASE s = {e}
    BY <2>5, <2>2, <1>0
  <2>6. CASE s # {e}
    <3>1. PICK x \in s \ {e} : \A y \in s \ {e} : y <= x
      BY <2>4, <2>6, <2>2, <2>3
    <3>2. x \in Nat /\ e \in Nat
      BY <2>2, <1>0
    <3>3. CASE e <= x
      BY <3>1, <3>3, <2>2
    <3>4. CASE ~(e <= x)
      <4>1. \A y \in s : y <= e
        BY <3>1, <3>2, <3>4, <2>2, <1>0
      <4> QED BY <4>1, <2>2
    <3> QED BY <3>3, <3>4
  <2> QED BY <2>5, <2>6
<1>2. S \notin B
  BY <1>1
<1> QED BY <1>2, <1>0

\* r is the first number from MinId on that is not in S.
GapAt(S, r) == r \in Nat /\ MinId <= r /\ MinId .. r - 1 \subseteq S /\ r \notin S

LEMMA HasGap ==
    \A S : S \subseteq Nat /\ IsFiniteSet(S) => \E r : GapAt(S, r)
<1>0. SUFFICES ASSUME NEW S, S \subseteq Nat, IsFiniteSet(S) PROVE \E r : GapAt(S, r)
  OBVIOUS
<1>1. PICK top \in Nat : \A y \in S : y < top
  <2>1. CASE S = {}
    BY <2>1
  <2>2. CASE S # {}
    <3>1. PICK x \in S : \A y \in S : y <= x
      BY <2>2, <1>0, HasGreatest
    <3>2. x + 1 \in Nat /\ \A y \in S : y < x + 1
      BY <3>1, <1>0
    <3> QED BY <3>2
  <2> QED BY <2>1, <2>2
<1> DEFINE F == {n \in MinId .. MinId + top : MinId .. n - 1 \subseteq S}
<1>2. F \subseteq Nat /\ IsFiniteSet(F) /\ MinId \in F
  <2>1. IsFiniteSet(MinId .. MinId + top)
    BY FS_Interval, RangeAssumption
  <2>2. IsFiniteSet(F)
    BY <2>1, FS_Subset
  <2> QED BY <2>2, RangeAssumption
<1> DEFINE r == Greatest(F)
<1>3. r \in F /\ \A n \in F : n <= r
  BY <1>2, HasGreatest
<1>4. r \notin S
  <2>1. SUFFICES ASSUME r \in S PROVE FALSE
    OBVIOUS
  <2>2. r + 1 \in F
    BY <2>1, <1>0, <1>1, <1>3, RangeAssumption
  <2> QED BY <2>2, <1>3, RangeAssumption
<1>5. GapAt(S, r)
  BY <1>3, <1>4, RangeAssumption DEF GapAt
<1> QED BY <1>5

LEMMA OneGap ==
    \A S, q, r : GapAt(S, q) /\ GapAt(S, r) => q = r
BY RangeAssumption DEF GapAt

-----------------------------------------------------------------------------
(* The loops over the numbers in use                                         *)

LEMMA LoopIdsType ==
    \A used : used \subseteq Nat /\ IsFiniteSet(used) =>
        /\ LoopIds(used) \subseteq used /\ IsFiniteSet(LoopIds(used))
        /\ \A k \in used : k < MaxId => k \in LoopIds(used)
<1>1. \A used : LoopIds(used) \subseteq used
  BY DEF LoopIds
<1>2. \A used : IsFiniteSet(used) => IsFiniteSet(LoopIds(used))
  BY <1>1, FS_Subset
<1>3. \A used : used \subseteq Nat =>
         \A k \in used : k < MaxId => k \in LoopIds(used)
  BY RangeAssumption DEF LoopIds
<1> QED BY <1>1, <1>2, <1>3

\* The last turn of a loop is about the greatest number.
LEMMA LastTurn ==
    ASSUME NEW S, S \subseteq Nat, IsFiniteSet(S), NEW s \in SUBSET S, s # {}
    PROVE  LET x == Greatest(s) IN
           /\ x \in s /\ x \in Nat /\ s \ {x} \in SUBSET S
           /\ \A y \in s \ {x} : y \in Nat /\ y < x
<1>1. s \subseteq Nat /\ IsFiniteSet(s)
  BY FS_Subset
<1> DEFINE x == Greatest(s)
<1>2. x \in s /\ \A y \in s : y <= x
  BY <1>1, HasGreatest
<1> HIDE DEF x
<1>3. x \in Nat /\ \A y \in s \ {x} : y \in Nat /\ y < x
  BY <1>1, <1>2
<1> QED BY <1>2, <1>3 DEF x

\* What holds before the first turn and after each turn if it held before holds for
\* every part of the list.
LEMMA TurnByTurn ==
    ASSUME NEW S, IsFiniteSet(S), NEW Good, Good \subseteq SUBSET S, {} \in Good,
           \A s \in SUBSET S : s # {} => Greatest(s) \in s,
           \A s \in SUBSET S : s # {} /\ s \ {Greatest(s)} \in Good => s \in Good
    PROVE  Good = SUBSET S
<1> DEFINE B == (SUBSET S) \ Good
<1>1. SUFFICES ASSUME B # {} PROVE FALSE
  OBVIOUS
<1>2. PICK s \in B : \A t \in B : t \subseteq s => t = s
  <2>1. B \subseteq SUBSET S
    OBVIOUS
  <2> HIDE DEF B
  <2> QED BY <1>1, <2>1, Smallest
<1>3. s \in SUBSET S /\ s \notin Good
  OBVIOUS
<1>4. s # {} /\ Greatest(s) \in s
  <2>1. s # {}
    BY <1>3, Zenon
  <2> QED BY <1>3, <2>1
<1>5. s \ {Greatest(s)} \in Good
  BY <1>2, <1>3, <1>4
<1> QED BY <1>3, <1>4, <1>5

LEMMA GapTurn ==
    ASSUME NEW s, NEW x \in s, s \subseteq Nat, \A y \in s \ {x} : y < x,
           NEW q, GapAt(s \ {x}, q)
    PROVE  GapAt(s, IF q = x THEN q + 1 ELSE q)
<1>1. q \in Nat /\ x \in Nat /\ MinId <= q /\ MinId .. q - 1 \subseteq s \ {x} /\ q \notin s \ {x}
  BY DEF GapAt
<1>2. CASE q = x
  <2>1. MinId .. (q + 1) - 1 \subseteq s /\ q + 1 \notin s
    BY <1>1, <1>2, RangeAssumption
  <2> QED BY <1>1, <1>2, <2>1, RangeAssumption DEF GapAt
<1>3. CASE q # x
  BY <1>1, <1>3 DEF GapAt
<1> QED BY <1>2, <1>3

\* The loop for the uid ends at the first gap of the list.
LEMMA FirstGapFound ==
    ASSUME NEW used, used \subseteq Nat, IsFiniteSet(used)
    PROVE  GapAt(LoopIds(used), FirstGap(used))
<1> DEFINE S == LoopIds(used)
           Turn(f, s) == IF s = {} THEN MinId
                         ELSE LET x == Greatest(s)
                              IN  IF f[s \ {x}] = x THEN f[s \ {x}] + 1 ELSE f[s \ {x}]
           loop == CHOOSE f : f = [s \in SUBSET S |-> Turn(f, s)]
<1>1. S \subseteq Nat /\ IsFiniteSet(S)
  BY LoopIdsType
<1>2. FirstGap(used) = loop[S]
  BY DEF FirstGap, MapThenFoldSet
<1> HIDE DEF S
<1>3. loop = [s \in SUBSET S |-> Turn(loop, s)]
  <2> DEFINE gap == [s \in SUBSET S |-> CHOOSE r : GapAt(s, r)]
  <2>1. \A s \in SUBSET S : GapAt(s, gap[s])
    <3>1. \A s \in SUBSET S : s \subseteq Nat /\ IsFiniteSet(s)
      BY <1>1, FS_Subset
    <3> QED BY <3>1, HasGap
  <2>2. ASSUME NEW s \in SUBSET S PROVE gap[s] = Turn(gap, s)
    <3>1. CASE s = {}
      <4>1. GapAt(s, MinId)
        BY <3>1, RangeAssumption DEF GapAt
      <4>2. GapAt(s, gap[s])
        BY <2>1
      <4> HIDE DEF gap
      <4>3. gap[s] = MinId
        BY <4>1, <4>2, OneGap
      <4> QED BY <4>3, <3>1
    <3>2. CASE s # {}
      <4> DEFINE x == Greatest(s)
                 t == s \ {x}
      <4>1. x \in s /\ t \in SUBSET S /\ \A y \in t : y < x
        BY <1>1, <3>2, LastTurn
      <4>2. GapAt(t, gap[t]) /\ GapAt(s, gap[s])
        BY <2>1, <4>1
      <4>3. s \subseteq Nat
        BY <1>1
      <4> HIDE DEF gap, x
      <4>4. GapAt(s, IF gap[t] = x THEN gap[t] + 1 ELSE gap[t])
        BY <4>1, <4>2, <4>3, GapTurn
      <4>5. gap[s] = IF gap[t] = x THEN gap[t] + 1 ELSE gap[t]
        BY <4>2, <4>4, OneGap
      <4> QED BY <3>2, <4>5 DEF x
    <3> QED BY <3>1, <3>2
  <2>3. gap = [s \in SUBSET S |-> Turn(gap, s)]
    BY <2>2
  <2> HIDE DEF gap, Turn
  <2> QED BY <2>3
<1> HIDE DEF loop
<1> DEFINE Good == {s \in SUBSET S : GapAt(s, loop[s])}
<1>4. Good = SUBSET S
  <2>1. {} \in Good
    BY <1>3, RangeAssumption DEF GapAt
  <2>2. ASSUME NEW s \in SUBSET S, s # {}, s \ {Greatest(s)} \in Good PROVE s \in Good
    <3> DEFINE x == Greatest(s)
               t == s \ {x}
    <3>1. x \in s /\ t \in SUBSET S /\ \A y \in t : y < x
      BY <1>1, <2>2, LastTurn
    <3>2. loop[s] = IF loop[t] = x THEN loop[t] + 1 ELSE loop[t]
      BY <1>3, <2>2
    <3>3. s \subseteq Nat /\ GapAt(t, loop[t])
      BY <1>1, <2>2
    <3> HIDE DEF x
    <3>4. GapAt(s, loop[s])
      BY <3>1, <3>2, <3>3, GapTurn
    <3> QED BY <3>4
  <2>3. Good \subseteq SUBSET S
    OBVIOUS
  <2>4. \A s \in SUBSET S : s # {} => Greatest(s) \in s
    BY <1>1, LastTurn
  <2>5. IsFiniteSet(S)
    BY <1>1
  <2> HIDE DEF Good
  <2> QED BY <2>1, <2>2, <2>3, <2>4, <2>5, TurnByTurn
<1>5. GapAt(S, loop[S])
  BY <1>4
<1> QED BY <1>2, <1>5 DEF S

\* What the loop for a second gid arrives at for the list s, with o the gid chosen
\* before: the first gap of both, but for the list of greater numbers alone, where
\* the turn of the first number skips o and is not compared with it again.
GapButAt(s, o, r) ==
    IF s = {} THEN r = MinId
    ELSE IF o = MinId /\ \A k \in s : MinId < k THEN r = MinId + 1
    ELSE GapAt(s \cup {o}, r)

LEMMA GapButTurn ==
    ASSUME NEW o \in Nat, NEW s, NEW x \in s, s \subseteq Nat, \A y \in s \ {x} : y < x,
           NEW q, GapButAt(s \ {x}, o, q)
    PROVE  LET h == IF q = x THEN q + 1 ELSE q
           IN  GapButAt(s, o, IF h = o THEN h + 1 ELSE h)
<1> DEFINE t == s \ {x}
           h == IF q = x THEN q + 1 ELSE q
           r == IF h = o THEN h + 1 ELSE h
<1>0. x \in Nat /\ MinId \in Nat
  BY RangeAssumption
<1>1. CASE t = {}
  <2>1. s = {x} /\ q = MinId
    BY <1>1 DEF GapButAt
  <2>2. CASE o = MinId /\ MinId < x
    BY <1>0, <2>1, <2>2 DEF GapButAt
  <2>3. CASE ~(o = MinId /\ MinId < x)
    <3>1. GapAt(s \cup {o}, r)
      BY <1>0, <2>1, <2>3 DEF GapAt
    <3> QED BY <1>0, <2>1, <2>3, <3>1 DEF GapButAt
  <2> QED BY <2>2, <2>3
<1>2. CASE t # {} /\ o = MinId /\ \A k \in t : MinId < k
  <2>1. q = MinId + 1 /\ MinId + 1 < x
    <3>1. PICK k \in t : MinId < k
      BY <1>2
    <3>2. k < x /\ k \in Nat
      BY <3>1
    <3> QED BY <1>0, <1>2, <3>1, <3>2 DEF GapButAt
  <2> QED BY <1>0, <1>2, <2>1 DEF GapButAt
<1>3. CASE t # {} /\ ~(o = MinId /\ \A k \in t : MinId < k)
  <2>1. GapAt(t \cup {o}, q)
    BY <1>3 DEF GapButAt
  <2>2. q \in Nat /\ MinId <= q /\ MinId .. q - 1 \subseteq t \cup {o} /\ q \notin t \cup {o}
    BY <2>1 DEF GapAt
  <2>3. GapAt(s \cup {o}, r)
    <3>1. CASE q # x
      BY <2>2, <3>1 DEF GapAt
    <3>2. CASE q = x /\ q + 1 # o
      <4>1. MinId .. (q + 1) - 1 \subseteq s \cup {o} /\ q + 1 \notin s \cup {o}
        BY <1>0, <2>2, <3>2
      <4> QED BY <1>0, <2>2, <3>2, <4>1 DEF GapAt
    <3>3. CASE q = x /\ q + 1 = o
      <4>1. MinId .. (q + 2) - 1 \subseteq s \cup {o} /\ q + 2 \notin s \cup {o}
        BY <1>0, <2>2, <3>3
      <4> QED BY <1>0, <2>2, <3>3, <4>1 DEF GapAt
    <3> QED BY <3>1, <3>2, <3>3
  <2> QED BY <1>3, <2>3 DEF GapButAt
<1> QED BY <1>1, <1>2, <1>3

LEMMA FirstGapButFound ==
    ASSUME NEW used, used \subseteq Nat, IsFiniteSet(used), NEW o \in Nat
    PROVE  GapButAt(LoopIds(used), o, FirstGapBut(used, o))
<1> DEFINE S == LoopIds(used)
           Past(g, x) == LET h == IF g = x THEN g + 1 ELSE g IN IF h = o THEN h + 1 ELSE h
           Turn(f, s) == IF s = {} THEN MinId
                         ELSE LET x == Greatest(s) IN Past(f[s \ {x}], x)
           loop == CHOOSE f : f = [s \in SUBSET S |-> Turn(f, s)]
<1>1. S \subseteq Nat /\ IsFiniteSet(S)
  BY LoopIdsType
<1>2. FirstGapBut(used, o) = loop[S]
  BY DEF FirstGapBut, MapThenFoldSet
<1> HIDE DEF S
<1>0. \A s : IsFiniteSet(s) /\ s \subseteq Nat => \E r : GapButAt(s, o, r)
  <2>1. SUFFICES ASSUME NEW s, IsFiniteSet(s), s \subseteq Nat PROVE \E r : GapAt(s \cup {o}, r)
    BY DEF GapButAt
  <2>2. IsFiniteSet(s \cup {o}) /\ s \cup {o} \subseteq Nat
    BY <2>1, FS_AddElement
  <2> QED BY <2>2, HasGap
<1>3. loop = [s \in SUBSET S |-> Turn(loop, s)]
  <2> DEFINE gap == [s \in SUBSET S |-> CHOOSE r : GapButAt(s, o, r)]
  <2>1. \A s \in SUBSET S : GapButAt(s, o, gap[s])
    <3>1. \A s \in SUBSET S : s \subseteq Nat /\ IsFiniteSet(s)
      BY <1>1, FS_Subset
    <3> QED BY <1>0, <3>1
  <2>0. \A s, q, r : GapButAt(s, o, q) /\ GapButAt(s, o, r) => q = r
    BY OneGap DEF GapButAt
  <2>2. ASSUME NEW s \in SUBSET S PROVE gap[s] = Turn(gap, s)
    <3>1. CASE s = {}
      <4>1. GapButAt(s, o, gap[s])
        BY <2>1
      <4> QED BY <3>1, <4>1 DEF GapButAt
    <3>2. CASE s # {}
      <4> DEFINE x == Greatest(s)
                 t == s \ {x}
      <4>1. x \in s /\ t \in SUBSET S /\ \A y \in t : y < x
        BY <1>1, <3>2, LastTurn
      <4>2. GapButAt(t, o, gap[t]) /\ GapButAt(s, o, gap[s])
        BY <2>1, <4>1
      <4>3. s \subseteq Nat
        BY <1>1
      <4> HIDE DEF gap, x
      <4>4. GapButAt(s, o, Past(gap[t], x))
        BY <4>1, <4>2, <4>3, GapButTurn
      <4>5. gap[s] = Past(gap[t], x)
        BY <2>0, <4>2, <4>4
      <4> QED BY <3>2, <4>5 DEF x
    <3> QED BY <3>1, <3>2
  <2>3. gap = [s \in SUBSET S |-> Turn(gap, s)]
    BY <2>2
  <2> HIDE DEF gap, Turn
  <2> QED BY <2>3
<1> HIDE DEF loop
<1> DEFINE Good == {s \in SUBSET S : GapButAt(s, o, loop[s])}
<1>4. Good = SUBSET S
  <2>1. {} \in Good
    BY <1>3 DEF GapButAt
  <2>2. ASSUME NEW s \in SUBSET S, s # {}, s \ {Greatest(s)} \in Good PROVE s \in Good
    <3> DEFINE x == Greatest(s)
               t == s \ {x}
    <3>1. x \in s /\ t \in SUBSET S /\ \A y \in t : y < x
      BY <1>1, <2>2, LastTurn
    <3>2. loop[s] = Past(loop[t], x)
      BY <1>3, <2>2
    <3>3. s \subseteq Nat /\ GapButAt(t, o, loop[t])
      BY <1>1, <2>2
    <3> HIDE DEF x
    <3>4. GapButAt(s, o, Past(loop[t], x))
      BY <3>1, <3>3, GapButTurn
    <3> QED BY <3>2, <3>4
  <2>3. Good \subseteq SUBSET S
    OBVIOUS
  <2>4. \A s \in SUBSET S : s # {} => Greatest(s) \in s
    BY <1>1, LastTurn
  <2>5. IsFiniteSet(S)
    BY <1>1
  <2> HIDE DEF Good
  <2> QED BY <2>1, <2>2, <2>3, <2>4, <2>5, TurnByTurn
<1>5. GapButAt(S, o, loop[S])
  BY <1>4
<1> QED BY <1>2, <1>5 DEF S

-----------------------------------------------------------------------------
(* The choice of a number                                                    *)

\* One run of add_package_user at a time, since nothing is locked.
OneAtATime == \A i, k \in Procs : i = k

\* The range starts above 0, which the script takes for no number, and has room
\* for the two groups of a package user.
RoomyRange == 0 < MinId /\ MinId + 1 < MaxId

InRange(used) == {i \in used : MinId <= i /\ i < MaxId}

LEMMA AfterLastFacts ==
    ASSUME RoomyRange, NEW used, used \subseteq Nat, IsFiniteSet(used)
    PROVE  /\ AfterLast(used) \in MinId .. MaxId
           /\ \A k \in InRange(used) : k < AfterLast(used)
           /\ \/ AfterLast(used) = MinId /\ InRange(used) = {}
              \/ AfterLast(used) - 1 \in InRange(used)
<1> DEFINE S == InRange(used)
<1>1. S \subseteq Nat /\ IsFiniteSet(S)
  BY FS_Subset DEF InRange
<1>2. AfterLast(used) = IF S \subseteq {0} THEN MinId ELSE Greatest(S) + 1
  BY DEF AfterLast, InRange
<1>3. CASE S = {}
  BY <1>2, <1>3, RangeAssumption DEF RoomyRange
<1>4. CASE S # {}
  <2>1. PICK x \in S : x = Greatest(S) /\ \A y \in S : y <= x
    BY <1>1, <1>4, HasGreatest
  <2>2. x \in Nat /\ MinId <= x /\ x < MaxId
    BY <1>1, <2>1 DEF InRange
  <2>3. AfterLast(used) = x + 1
    BY <1>2, <2>1, <2>2, RangeAssumption DEF RoomyRange
  <2>4. \A k \in S : k < x + 1
    BY <1>1, <2>1, <2>2
  <2> HIDE DEF S
  <2>5. x + 1 \in MinId .. MaxId /\ (x + 1) - 1 = x
    BY <2>2, RangeAssumption
  <2> QED BY <2>1, <2>3, <2>4, <2>5 DEF S
<1> QED BY <1>3, <1>4

\* The first gap is the documented choice where the last number is in use.
LEMMA GapDocumented ==
    ASSUME NEW T, NEW used, used \subseteq Nat, NEW r, GapAt(T, r), r < MaxId,
           T \subseteq used, \A k \in used : k < MaxId => k \in T,
           MaxId - 1 \in used
    PROVE  Documented(r, used)
BY RangeAssumption DEF GapAt, Documented

LEMMA PickUidDocumented ==
    ASSUME RoomyRange, NEW used, used \subseteq Nat, IsFiniteSet(used)
    PROVE  /\ PickUid(used) \in Nat
           /\ PickUid(used) < MaxId => Documented(PickUid(used), used)
<1> DEFINE n == AfterLast(used)
<1>0. MinId \in Nat /\ MaxId \in Nat
  BY RangeAssumption
<1>1. /\ n \in MinId .. MaxId
      /\ \A k \in InRange(used) : k < n
      /\ (n = MinId /\ InRange(used) = {}) \/ n - 1 \in InRange(used)
  BY AfterLastFacts
<1> HIDE DEF n
<1>2. CASE n < MaxId
  <2>1. PickUid(used) = n
    BY <1>0, <1>1, <1>2 DEF PickUid, n
  <2>2. Documented(n, used)
    BY <1>0, <1>1, <1>2 DEF Documented, InRange
  <2> QED BY <1>0, <1>1, <2>1, <2>2
<1>3. CASE ~(n < MaxId)
  <2> DEFINE r == FirstGap(used)
  <2>1. PickUid(used) = r
    BY <1>0, <1>1, <1>3 DEF PickUid, n
  <2>2. GapAt(LoopIds(used), r)
    BY FirstGapFound
  <2>3. MaxId - 1 \in used
    BY <1>0, <1>1, <1>3 DEF InRange, RoomyRange
  <2>4. LoopIds(used) \subseteq used /\ \A k \in used : k < MaxId => k \in LoopIds(used)
    BY LoopIdsType
  <2> HIDE DEF r
  <2>5. r < MaxId => Documented(r, used)
    BY <2>2, <2>3, <2>4, GapDocumented
  <2> QED BY <2>1, <2>2, <2>5 DEF GapAt
<1> QED BY <1>2, <1>3

\* The numbers that may have been chosen or found for the install group before the
\* gid of the package is looked for.
Before(used, o) ==
    \/ o = 0 \/ o \in used
    \/ o = PickGid(used, 0) /\ o < MaxId /\ (used = {} \/ \E k \in used : k < MinId)

LEMMA PickGidDocumented ==
    ASSUME RoomyRange, NEW used, used \subseteq Nat, IsFiniteSet(used), NEW o \in Nat, Before(used, o)
    PROVE  /\ PickGid(used, o) \in Nat
           /\ PickGid(used, o) < MaxId => Documented(PickGid(used, o), used \cup {o})
<1> DEFINE n == AfterLast(used)
           g == IF n = o THEN n + 1 ELSE n
<1>0. MinId \in Nat /\ MaxId \in Nat
  BY RangeAssumption
<1>1. /\ n \in MinId .. MaxId
      /\ \A k \in InRange(used) : k < n
      /\ (n = MinId /\ InRange(used) = {}) \/ n - 1 \in InRange(used)
  BY AfterLastFacts
<1>2. PickGid(used, o) = IF g >= MaxId THEN FirstGapBut(used, o) ELSE g
  BY DEF PickGid
<1>3. PickGid(used, 0) = n \/ n = MaxId
  BY <1>0, <1>1 DEF PickGid, RoomyRange
<1> HIDE DEF n
<1>4. CASE g < MaxId
  <2>1. PickGid(used, o) = g
    BY <1>0, <1>1, <1>2, <1>4
  <2>2. CASE n = o
    <3>1. Documented(o + 1, used \cup {o})
      BY <1>0, <1>1, <1>4, <2>2 DEF Documented, InRange
    <3> QED BY <2>1, <2>2, <3>1
  <2>3. CASE n # o
    <3>1. ~(o \in MinId .. MaxId - 1) \/ o < n
      BY <1>0, <1>1, <1>3, <1>4, <2>3 DEF Before, InRange, RoomyRange
    <3>2. Documented(n, used \cup {o})
      BY <1>0, <1>1, <1>4, <2>3, <3>1 DEF Documented, InRange
    <3> QED BY <1>0, <1>1, <2>1, <2>3, <3>2
  <2> QED BY <2>2, <2>3
<1>5. CASE ~(g < MaxId)
  <2> DEFINE r == FirstGapBut(used, o)
             S == LoopIds(used)
  <2>1. PickGid(used, o) = r
    BY <1>0, <1>1, <1>2, <1>5
  <2>2. GapButAt(S, o, r)
    BY FirstGapButFound
  <2>3. S \subseteq used /\ \A k \in used : k < MaxId => k \in S
    BY LoopIdsType
  <2>4. n = MaxId \/ (n = o /\ n = MaxId - 1)
    BY <1>0, <1>1, <1>5
  <2>5. MaxId - 1 \in used \cup {o}
    BY <1>0, <1>1, <2>4 DEF InRange, RoomyRange
  <2>6. PICK k \in used : k \in S /\ ~(o = MinId /\ MinId < k)
    <3>1. CASE o = MinId /\ o \in used
      BY <1>0, <2>3, <3>1, RangeAssumption
    <3>2. CASE o = MinId /\ o \notin used
      <4>1. used # {}
        BY <1>0, <1>1, <2>4, <3>2 DEF InRange, RoomyRange
      <4>2. \E k \in used : k < MinId
        <5>1. o # 0
          BY <1>0, <3>2 DEF RoomyRange
        <5> QED BY <3>2, <4>1, <5>1, Zenon DEF Before
      <4> QED BY <1>0, <2>3, <4>2, RangeAssumption
    <3>3. CASE o # MinId
      <4>1. n - 1 \in used /\ n - 1 < MaxId
        BY <1>0, <1>1, <2>4, <3>3 DEF InRange, RoomyRange
      <4> QED BY <2>3, <3>3, <4>1
    <3> QED BY <3>1, <3>2, <3>3
  <2> HIDE DEF r, S
  <2>7. GapAt(S \cup {o}, r)
    BY <2>2, <2>6 DEF GapButAt
  <2>8. \A l \in used \cup {o} : l < MaxId => l \in S \cup {o}
    BY <2>3
  <2>9. r < MaxId => Documented(r, used \cup {o})
    BY <2>3, <2>5, <2>7, <2>8, GapDocumented
  <2> QED BY <2>1, <2>7, <2>9 DEF GapAt
<1> QED BY <1>4, <1>5
-----------------------------------------------------------------------------
(* Hypotheses                                                                *)

Uids(P) == {x.uid : x \in P}
Gids(G) == {x.gid : x \in G}
NamesIn(F) == {x.name : x \in F}

\* A file of users with an uid each, and a file of groups with a gid each. With
\* no gid below the range and no install group the search of a second gap can end
\* at a gid in use: it steps over the number of the first one only after it has
\* compared the least number of the list.
PasswdOK(P) ==
    /\ IsFiniteSet(P)
    /\ \A x \in P : x = User(x.name, x.uid, x.gid) /\ x.uid \in Nat
    /\ \A x, y \in P : x.uid = y.uid => x = y

GroupOK(G) ==
    /\ IsFiniteSet(G)
    /\ \A x \in G : x = Group(x.name, x.gid, x.members) /\ x.gid \in Nat
    /\ \A x, y \in G : x.gid = y.gid => x.name = y.name
    /\ G # {} /\ Install \notin NamesIn(G) => \E x \in G : x.gid < MinId

\* The account n is whole: the user, its group and its place in the install group.
Whole(P, G, n) ==
    /\ \E x \in P, y \in G : x.name = n /\ y.name = GroupOf[n] /\ x.gid = y.gid
    /\ \E y \in G : y.name = Install /\ n \in y.members

\* The initial files are sound and the package users in them are whole.
SoundSystems ==
    \A s \in Systems :
        /\ PasswdOK(s.passwd) /\ GroupOK(s.group)
        /\ \A n \in Names \cap NamesIn(s.passwd) : Whole(s.passwd, s.group, n)

-----------------------------------------------------------------------------
(* The inductive invariant                                                   *)

Jobs == [pc : Pcs, name : Names \cup {Install}, uid : Nat, oldg : Nat, g : Nat,
         todo : Seq(GroupNames \X Nat)]

TypeOK ==
    /\ proc \in [Procs -> Jobs]
    /\ \A i \in Procs : proc[i].pc # "idle" => proc[i].name \in Names
    /\ torn \in BOOLEAN

FilesOK == PasswdOK(passwd) /\ PasswdOK(tmpPasswd) /\ GroupOK(group) /\ GroupOK(tmpGroup)

\* The uid is free until the line of the user is written.
UidFree ==
    \A i \in Procs :
        LET j == proc[i] IN
        /\ j.pc = "findInstall" => Documented(j.uid, Uids(passwd))
        /\ j.pc \in {"findInstall", "findOwn", "checkGroup", "copyGroup", "emptyGroup",
                     "writeGroup", "checkUser", "copyPasswd", "emptyPasswd"} =>
               j.uid \notin Uids(passwd)
        /\ j.pc \in {"emptyPasswd", "writePasswd"} => j.uid \notin Uids(tmpPasswd)

\* The groups to create have the numbers the usage text promises in a file G.
Ready(todo, G) ==
    /\ \A k \in DOMAIN todo :
           Documented(todo[k][2], Gids(G) \cup {todo[l][2] : l \in 1 .. k - 1})
    /\ Len(todo) <= 2
    /\ todo # <<>> /\ todo[1][1] # Install => Install \in NamesIn(G)

GidsFree ==
    \A i \in Procs :
        LET j == proc[i] IN
        /\ j.pc \in {"pickUid", "findInstall"} => j.todo = <<>>
        /\ j.pc = "findOwn" =>
              \/ j.todo = <<>> /\ \E x \in group : x.name = Install /\ x.gid = j.g
              \/ /\ j.todo = << <<Install, j.g>> >> /\ Install \notin NamesIn(group)
                 /\ j.g = PickGid(Gids(group), 0) /\ j.g < MaxId
        /\ j.pc \in {"checkGroup", "copyGroup", "emptyGroup"} => Ready(j.todo, group)
        /\ j.pc \in {"emptyGroup", "writeGroup"} => Ready(j.todo, tmpGroup)
        /\ j.pc \in {"copyGroup", "emptyGroup", "writeGroup"} => j.todo # <<>>

\* The files as they are or will be when the copy is written back.
Users == IF \E i \in Procs : proc[i].pc = "writePasswd" THEN tmpPasswd ELSE passwd
Groups == IF \E i \in Procs : proc[i].pc \in {"writeGroup", "writeMembers"}
          THEN tmpGroup ELSE group

Copied ==
    \A i \in Procs :
        /\ proc[i].pc = "emptyPasswd" => tmpPasswd = passwd
        /\ proc[i].pc \in {"emptyGroup", "emptyMembers"} => tmpGroup = group

Joining(i) == proc[i].pc \in {"copyMembers", "emptyMembers", "writeMembers"}

AccountInv ==
    ~ torn =>
        /\ served \cap Names \subseteq NamesIn(Users)
        /\ \A n \in Names \cap NamesIn(Users) :
              Whole(Users, Groups, n) \/ \E i \in Procs : Joining(i) /\ proc[i].name = n
        /\ \A i \in Procs :
              /\ proc[i].pc \in {"copyPasswd", "emptyPasswd", "writePasswd"} =>
                     /\ \E y \in Groups : y.name = GroupOf[proc[i].name] /\ y.gid = proc[i].g
                     /\ Install \in NamesIn(Groups)
              /\ Joining(i) =>
                     /\ \E x \in Users, y \in Groups :
                          x.name = proc[i].name /\ y.name = GroupOf[proc[i].name] /\ x.gid = y.gid
                     /\ Install \in NamesIn(Groups)

UserInv == TypeOK /\ FilesOK /\ UidFree /\ GidsFree /\ Copied /\ served \subseteq Names /\ AccountInv

-----------------------------------------------------------------------------
(* New lines                                                                 *)

LEMMA FiniteImage ==
    ASSUME NEW f, IsFiniteSet(DOMAIN f)
    PROVE  IsFiniteSet({f[x] : x \in DOMAIN f})
<1> DEFINE T == {f[x] : x \in DOMAIN f}
           h == [x \in DOMAIN f |-> f[x]]
<1>1. h \in Surjection(DOMAIN f, T)
  BY DEF Surjection
<1> QED BY <1>1, FS_Surjection

LEMMA NumbersType ==
    ASSUME NEW P, PasswdOK(P), NEW G, GroupOK(G)
    PROVE  /\ Uids(P) \subseteq Nat /\ IsFiniteSet(Uids(P))
           /\ Gids(G) \subseteq Nat /\ IsFiniteSet(Gids(G))
<1>1. IsFiniteSet(Uids(P))
  <2> DEFINE f == [x \in P |-> x.uid]
  <2>1. Uids(P) = {f[x] : x \in P} /\ DOMAIN f = P
    BY DEF Uids
  <2> HIDE DEF f
  <2> QED BY <2>1, FiniteImage DEF PasswdOK
<1>2. IsFiniteSet(Gids(G))
  <2> DEFINE f == [x \in G |-> x.gid]
  <2>1. Gids(G) = {f[x] : x \in G} /\ DOMAIN f = G
    BY DEF Gids
  <2> HIDE DEF f
  <2> QED BY <2>1, FiniteImage DEF GroupOK
<1> QED BY <1>1, <1>2 DEF PasswdOK, GroupOK, Uids, Gids

LEMMA EmptyFiles == PasswdOK({}) /\ GroupOK({})
BY FS_EmptySet DEF PasswdOK, GroupOK

LEMMA AddUser ==
    ASSUME NEW P, PasswdOK(P), NEW n, NEW u \in Nat, u \notin Uids(P), NEW g
    PROVE  PasswdOK(P \cup {User(n, u, g)})
<1> DEFINE e == User(n, u, g)
<1>1. e = User(e.name, e.uid, e.gid) /\ e.uid = u
  BY DEF User
<1>2. IsFiniteSet(P \cup {e})
  BY FS_AddElement DEF PasswdOK
<1> HIDE DEF e
<1>3. \A x \in P \cup {e} : x = User(x.name, x.uid, x.gid) /\ x.uid \in Nat
  BY <1>1 DEF PasswdOK
<1>4. \A x, y \in P \cup {e} : x.uid = y.uid => x = y
  BY <1>1 DEF PasswdOK, Uids
<1>5. PasswdOK(P \cup {e})
  BY <1>2, <1>3, <1>4 DEF PasswdOK
<1> QED BY <1>5 DEF e

LEMMA AddGroup ==
    ASSUME NEW G, GroupOK(G), NEW n, NEW g \in Nat, g \notin Gids(G),
           n = Install \/ Install \in NamesIn(G)
    PROVE  GroupOK(G \cup {Group(n, g, {})})
<1> DEFINE e == Group(n, g, {})
<1>1. e = Group(e.name, e.gid, e.members) /\ e.gid = g /\ e.name = n
  BY DEF Group
<1>2. IsFiniteSet(G \cup {e})
  BY FS_AddElement DEF GroupOK
<1> HIDE DEF e
<1>3. Install \in NamesIn(G \cup {e})
  BY <1>1 DEF NamesIn
<1>4. \A x \in G \cup {e} : x = Group(x.name, x.gid, x.members) /\ x.gid \in Nat
  BY <1>1 DEF GroupOK
<1>5. \A x, y \in G \cup {e} : x.gid = y.gid => x.name = y.name
  BY <1>1 DEF GroupOK, Gids
<1>6. GroupOK(G \cup {e})
  BY <1>2, <1>3, <1>4, <1>5 DEF GroupOK
<1> QED BY <1>6 DEF e

\* The install group with one more member.
Joined(G, n) ==
    {IF x.name = Install THEN [x EXCEPT !.members = @ \cup {n}] ELSE x : x \in G}

LEMMA JoinedLines ==
    ASSUME NEW G, GroupOK(G), NEW n
    PROVE  /\ GroupOK(Joined(G, n))
           /\ \A x \in G : \E y \in Joined(G, n) :
                 y.name = x.name /\ y.gid = x.gid /\ x.members \subseteq y.members
           /\ \A x \in G : x.name = Install =>
                 \E y \in Joined(G, n) : y.name = Install /\ n \in y.members
<1> DEFINE New(x) == IF x.name = Install THEN [x EXCEPT !.members = @ \cup {n}] ELSE x
<1>1. ASSUME NEW x \in G
      PROVE  /\ New(x) = Group(New(x).name, New(x).gid, New(x).members)
             /\ New(x).name = x.name /\ New(x).gid = x.gid /\ x.members \subseteq New(x).members
             /\ x.name = Install => n \in New(x).members
  <2>1. x = [name |-> x.name, gid |-> x.gid, members |-> x.members]
    BY DEF GroupOK, Group
  <2>2. CASE x.name # Install
    BY <2>1, <2>2 DEF Group
  <2>3. CASE x.name = Install
    <3>1. New(x) = [name |-> x.name, gid |-> x.gid, members |-> x.members \cup {n}]
      BY <2>1, <2>3
    <3> HIDE DEF New
    <3> QED BY <3>1 DEF Group
  <2> QED BY <2>2, <2>3
<1>2. Joined(G, n) = {New(x) : x \in G}
  BY DEF Joined
<1> HIDE DEF New
<1>3. IsFiniteSet(Joined(G, n))
  <2> DEFINE f == [x \in G |-> New(x)]
  <2>1. Joined(G, n) = {f[x] : x \in G} /\ DOMAIN f = G
    BY <1>2
  <2> HIDE DEF f
  <2> QED BY <2>1, FiniteImage DEF GroupOK
<1>4. \A y \in Joined(G, n) : y = Group(y.name, y.gid, y.members) /\ y.gid \in Nat
  BY <1>1, <1>2 DEF GroupOK
<1>5. \A x, y \in Joined(G, n) : x.gid = y.gid => x.name = y.name
  BY <1>1, <1>2 DEF GroupOK
<1>6. Joined(G, n) # {} /\ Install \notin NamesIn(Joined(G, n)) =>
         \E x \in Joined(G, n) : x.gid < MinId
  <2>1. ASSUME Joined(G, n) # {}, Install \notin NamesIn(Joined(G, n))
        PROVE  G # {} /\ Install \notin NamesIn(G)
    BY <1>1, <1>2, <2>1 DEF NamesIn
  <2>2. ASSUME NEW x \in G, x.gid < MinId PROVE \E y \in Joined(G, n) : y.gid < MinId
    BY <1>1, <1>2, <2>2
  <2> QED BY <2>1, <2>2 DEF GroupOK
<1>7. GroupOK(Joined(G, n))
  BY <1>3, <1>4, <1>5, <1>6 DEF GroupOK
<1> QED BY <1>1, <1>2, <1>7

LEMMA ReadyShapes ==
    ASSUME NEW G, NEW n, NEW a, NEW b
    PROVE  /\ Ready(<<>>, G)
           /\ Documented(a, Gids(G)) /\ (n = Install \/ Install \in NamesIn(G)) =>
                Ready(<< <<n, a>> >>, G)
           /\ Documented(a, Gids(G)) /\ Documented(b, Gids(G) \cup {a}) =>
                Ready(<< <<Install, a>>, <<n, b>> >>, G)
<1>1. Ready(<<>>, G)
  BY DEF Ready
<1>2. ASSUME Documented(a, Gids(G)), n = Install \/ Install \in NamesIn(G)
      PROVE  Ready(<< <<n, a>> >>, G)
  <2> DEFINE t == << <<n, a>> >>
  <2>1. DOMAIN t = 1 .. 1 /\ t[1] = <<n, a>> /\ Len(t) = 1
    OBVIOUS
  <2>0. t[1][1] = n /\ t[1][2] = a
    BY <2>1
  <2> HIDE DEF t
  <2>2. {t[l][2] : l \in 1 .. 1 - 1} = {}
    OBVIOUS
  <2>3. Gids(G) \cup {t[l][2] : l \in 1 .. 1 - 1} = Gids(G)
    BY <2>2
  <2>4. \A k \in DOMAIN t : Documented(t[k][2], Gids(G) \cup {t[l][2] : l \in 1 .. k - 1})
    <3> SUFFICES ASSUME NEW k \in DOMAIN t
                 PROVE  Documented(t[k][2], Gids(G) \cup {t[l][2] : l \in 1 .. k - 1})
      OBVIOUS
    <3>1. k = 1
      BY <2>1
    <3> QED BY <1>2, <2>0, <2>3, <3>1
  <2>5. Ready(t, G)
    BY <1>2, <2>0, <2>1, <2>4 DEF Ready
  <2> QED BY <2>5 DEF t
<1>3. ASSUME Documented(a, Gids(G)), Documented(b, Gids(G) \cup {a})
      PROVE  Ready(<< <<Install, a>>, <<n, b>> >>, G)
  <2> DEFINE t == << <<Install, a>>, <<n, b>> >>
  <2>1. DOMAIN t = 1 .. 2 /\ t[1] = <<Install, a>> /\ t[2] = <<n, b>> /\ Len(t) = 2
    OBVIOUS
  <2>0. t[1][1] = Install /\ t[1][2] = a /\ t[2][2] = b
    BY <2>1
  <2> HIDE DEF t
  <2>2. {t[l][2] : l \in 1 .. 1 - 1} = {} /\ {t[l][2] : l \in 1 .. 2 - 1} = {a}
    BY <2>0
  <2>3. Gids(G) \cup {t[l][2] : l \in 1 .. 1 - 1} = Gids(G)
    BY <2>2
  <2>4. ASSUME NEW k \in DOMAIN t
        PROVE  Documented(t[k][2], Gids(G) \cup {t[l][2] : l \in 1 .. k - 1})
    <3>1. CASE k = 1
      BY <1>3, <2>0, <2>3, <3>1
    <3>2. CASE k = 2
      BY <1>3, <2>0, <2>2, <3>2
    <3> QED BY <2>1, <3>1, <3>2
  <2>5. Ready(t, G)
    BY <2>0, <2>1, <2>4 DEF Ready
  <2> QED BY <2>5 DEF t
<1> QED BY <1>1, <1>2, <1>3

\* groupadd for the first of the groups: its gid is free, and the others are
\* documented with it in use.
LEMMA ReadyTail ==
    ASSUME NEW G, NEW todo \in Seq(GroupNames \X Nat), todo # <<>>, Ready(todo, G)
    PROVE  LET n == Head(todo)[1]
               a == Head(todo)[2]
           IN  /\ a \in Nat /\ a \notin Gids(G) /\ (n = Install \/ Install \in NamesIn(G))
               /\ Ready(Tail(todo), G \cup {Group(n, a, {})})
<1>0. todo \in Seq(GroupNames \X Nat) /\ todo # <<>>
  OBVIOUS
<1>1. /\ Head(todo) = todo[1] /\ DOMAIN todo = 1 .. Len(todo)
      /\ Len(todo) \in Nat /\ Len(todo) # 0 /\ todo[1] \in GroupNames \X Nat
  BY <1>0
<1>2. Len(todo) = 1 \/ Len(todo) = 2
  BY <1>1 DEF Ready
<1> DEFINE n == Head(todo)[1]
           a == Head(todo)[2]
           H == G \cup {Group(n, a, {})}
<1>3. n = todo[1][1] /\ a = todo[1][2] /\ a \in Nat
  BY <1>1
<1>4. Gids(H) = Gids(G) \cup {a} /\ NamesIn(H) = NamesIn(G) \cup {n}
  <2>1. Group(n, a, {}).gid = a /\ Group(n, a, {}).name = n
    BY DEF Group
  <2> HIDE DEF n, a
  <2> QED BY <2>1 DEF Gids, NamesIn
<1>5. n = Install \/ Install \in NamesIn(G)
  BY <1>1, <1>3 DEF Ready
<1> HIDE DEF n, a
<1>6. Documented(a, Gids(G))
  <2>1. Gids(G) \cup {todo[l][2] : l \in 1 .. 1 - 1} = Gids(G)
    OBVIOUS
  <2>2. 1 \in DOMAIN todo
    BY <1>1
  <2> QED BY <1>3, <2>1, <2>2 DEF Ready
<1>7. a \notin Gids(G)
  BY <1>6 DEF Documented
<1>8. Ready(Tail(todo), H)
  <2> DEFINE t == Tail(todo)
  <2>0. t \in Seq(GroupNames \X Nat) /\ Len(t) = Len(todo) - 1
    BY <1>0
  <2>1. \A k \in 1 .. Len(todo) - 1 : t[k] = todo[k + 1]
    BY <1>0
  <2> HIDE DEF t
  <2>2. DOMAIN t = 1 .. Len(t) /\ (Len(t) = 0 => t = <<>>)
    BY <2>0, EmptySeq
  <2>3. CASE Len(todo) = 1
    <3>1. t = <<>>
      BY <2>0, <2>2, <2>3
    <3> QED BY <3>1, ReadyShapes DEF t
  <2>4. CASE Len(todo) = 2
    <3>0. Len(t) = 1
      BY <2>0, <2>4
    <3>1. DOMAIN t = 1 .. 1 /\ t[1] = todo[2]
      BY <2>1, <2>2, <2>4, <3>0
    <3>3. {todo[l][2] : l \in 1 .. 2 - 1} = {a}
      BY <1>3
    <3>4. 2 \in DOMAIN todo
      BY <1>1, <2>4
    <3>5. Documented(t[1][2], Gids(H))
      BY <1>4, <3>1, <3>3, <3>4 DEF Ready
    <3> HIDE DEF H
    <3>6. Gids(H) \cup {t[l][2] : l \in 1 .. 1 - 1} = Gids(H)
      OBVIOUS
    <3>7. ASSUME NEW k \in DOMAIN t
          PROVE  Documented(t[k][2], Gids(H) \cup {t[l][2] : l \in 1 .. k - 1})
      <4>1. k = 1
        BY <3>1
      <4> QED BY <3>5, <3>6, <4>1
    <3>8. Ready(t, H)
      BY <1>4, <1>5, <3>0, <3>7 DEF Ready
    <3> QED BY <3>8 DEF t
  <2> QED BY <1>2, <2>3, <2>4
<1> QED BY <1>3, <1>5, <1>7, <1>8 DEF n, a

-----------------------------------------------------------------------------
(* The steps                                                                 *)

LEMMA JobStep ==
    ASSUME TypeOK, NEW i \in Procs, NEW j \in Jobs, Step(i, j)
    PROVE  proc'[i] = j /\ proc' \in [Procs -> Jobs]
BY DEF TypeOK, Step

LEMMA GotoStep ==
    ASSUME TypeOK, NEW i \in Procs, NEW p \in Pcs, Goto(i, p)
    PROVE  /\ proc' \in [Procs -> Jobs] /\ proc'[i].pc = p
           /\ proc'[i].name = proc[i].name /\ proc'[i].uid = proc[i].uid
           /\ proc'[i].oldg = proc[i].oldg /\ proc'[i].g = proc[i].g
           /\ proc'[i].todo = proc[i].todo
<1>1. proc[i] \in Jobs
  BY DEF TypeOK
<1>2. [proc[i] EXCEPT !.pc = p] \in Jobs
  BY <1>1 DEF Jobs
<1>3. proc'[i] = [proc[i] EXCEPT !.pc = p] /\ proc' \in [Procs -> Jobs]
  BY <1>2, JobStep DEF Goto
<1> QED BY <1>1, <1>3 DEF Jobs

LEMMA StartJob ==
    ASSUME NEW j \in Jobs, NEW n \in Names
    PROVE  LET k == [j EXCEPT !.pc = "pickUid", !.name = n]
           IN  k \in Jobs /\ k.pc = "pickUid" /\ k.name = n /\ k.todo = j.todo
BY DEF Jobs, Pcs

LEMMA AppendShort ==
    ASSUME NEW S, NEW a \in S, NEW b \in S
    PROVE  /\ Append(<<>>, a) = <<a>> /\ Append(<<a>>, b) = <<a, b>>
           /\ <<>> \in Seq(S) /\ <<a>> \in Seq(S) /\ <<a, b>> \in Seq(S)
<1>1. <<>> \in Seq(S) /\ <<a>> \in Seq(S) /\ <<a, b>> \in Seq(S)
  OBVIOUS
<1>2. Append(<<>>, a) = <<a>>
  OBVIOUS
<1>3. Append(<<a>>, b) = <<a, b>>
  <2> DEFINE s == Append(<<a>>, b)
             t == <<a, b>>
             r == <<a>>
  <2>1. r \in Seq(S) /\ Len(r) = 1 /\ r[1] = a
    OBVIOUS
  <2>2. t \in Seq(S) /\ Len(t) = 2 /\ t[1] = a /\ t[2] = b
    OBVIOUS
  <2> HIDE DEF r
  <2>3. /\ Append(r, b) \in Seq(S) /\ Len(Append(r, b)) = Len(r) + 1
        /\ \A k \in 1 .. Len(r) : Append(r, b)[k] = r[k]
        /\ Append(r, b)[Len(r) + 1] = b
    BY <2>1, AppendProperties, Zenon
  <2> HIDE DEF s
  <2>4. s \in Seq(S) /\ Len(s) = 2 /\ s[1] = a /\ s[2] = b
    <3>1. /\ s \in Seq(S) /\ Len(s) = Len(r) + 1
          /\ \A k \in 1 .. Len(r) : s[k] = r[k]
          /\ s[Len(r) + 1] = b
      BY <2>3, Zenon DEF s, r
    <3> QED BY <2>1, <3>1
  <2> HIDE DEF t
  <2>5. \A k \in 1 .. Len(s) : s[k] = t[k]
    BY <2>2, <2>4
  <2>6. s = t
    BY <2>2, <2>4, <2>5, SeqEqual
  <2> QED BY <2>6 DEF s, t
<1> QED BY <1>1, <1>2, <1>3

LEMMA IdleJob == Idle \in Jobs /\ Idle.pc = "idle" /\ Idle.todo = <<>>
BY DEF Idle, Jobs, Pcs

LEMMA UserInit == ASSUME SoundSystems PROVE Init => UserInv
<1> SUFFICES ASSUME Init PROVE UserInv
  OBVIOUS
<1>1. PICK s \in Systems : passwd = s.passwd /\ group = s.group
  BY DEF Init
<1>2. \A i \in Procs : proc[i] = Idle
  BY DEF Init
<1>3. TypeOK
  BY <1>2, IdleJob DEF Init, TypeOK
<1>4. FilesOK
  BY <1>1, EmptyFiles DEF SoundSystems, FilesOK, Init
<1>5. UidFree /\ GidsFree /\ Copied
  BY <1>2, IdleJob DEF UidFree, GidsFree, Copied
<1>6. Users = passwd /\ Groups = group
  BY <1>2, IdleJob DEF Users, Groups
<1>7. AccountInv
  BY <1>1, <1>2, <1>6, IdleJob DEF AccountInv, SoundSystems, Joining, Init
<1>8. served \subseteq Names
  BY DEF Init
<1> QED BY <1>3, <1>4, <1>5, <1>7, <1>8 DEF UserInv

\* A run that fails or is killed leaves the files as they are.
LEMMA FailStep ==
    ASSUME UserInv, NEW i \in Procs, Procs = {i}, Fail(i),
           torn' \in BOOLEAN, torn => torn',
           proc[i].pc \in {"writeGroup", "writePasswd", "copyMembers", "emptyMembers",
                           "writeMembers"} => torn'
    PROVE  UserInv'
<1>1. proc'[i] = Idle /\ proc' \in [Procs -> Jobs]
  BY IdleJob, JobStep DEF Fail, UserInv
<1>2. proc'[i].pc = "idle"
  BY <1>1, IdleJob
<1>3. UNCHANGED <<passwd, group, tmpPasswd, tmpGroup, served>>
  BY DEF Fail
<1>5. TypeOK'
  BY <1>1, <1>2 DEF TypeOK
<1>6. FilesOK'
  BY <1>3 DEF UserInv, FilesOK
<1>7. UidFree' /\ GidsFree' /\ Copied'
  BY <1>2 DEF UidFree, GidsFree, Copied
<1>8. Users' = passwd /\ Groups' = group
  BY <1>2, <1>3 DEF Users, Groups
<1>9. AccountInv'
  <2>1. SUFFICES ASSUME ~ torn' PROVE AccountInv'
    BY DEF AccountInv
  <2>2. Users = passwd /\ Groups = group /\ ~ Joining(i) /\ ~ torn
    BY <2>1 DEF Users, Groups, Joining
  <2> QED BY <1>2, <1>3, <1>8, <2>2 DEF UserInv, AccountInv, Joining
<1> QED BY <1>3, <1>5, <1>6, <1>7, <1>9 DEF UserInv

LEMMA ExitStep ==
    ASSUME UserInv, NEW i \in Procs, Procs = {i}, Fail(i), UNCHANGED torn,
           proc[i].pc \in {"pickUid", "findInstall", "findOwn", "checkGroup", "checkUser"}
    PROVE  UserInv'
<1>1. torn' \in BOOLEAN /\ (torn => torn')
  BY Zenon DEF UserInv, TypeOK
<1>2. ~(proc[i].pc \in {"writeGroup", "writePasswd", "copyMembers", "emptyMembers", "writeMembers"})
  OBVIOUS
<1> QED BY <1>1, <1>2, FailStep

LEMMA StartStep ==
    ASSUME UserInv, NEW i \in Procs, Procs = {i}, NEW n \in Names, Start(i, n), UNCHANGED torn
    PROVE  UserInv'
<1>1. UNCHANGED <<passwd, group, tmpPasswd, tmpGroup>> /\ proc[i].pc = "idle"
  BY DEF Start, Files
<1>2. /\ proc' \in [Procs -> Jobs] /\ proc'[i].pc \in {"idle", "pickUid"}
      /\ proc'[i].pc = "pickUid" => proc'[i].name = n /\ proc'[i].todo = <<>>
      /\ served' = served \/ (n \in UserNames /\ served' = served \cup {n})
  <2>1. CASE UNCHANGED proc /\ n \in UserNames /\ served' = served \cup {n}
    BY <1>1, <2>1 DEF UserInv, TypeOK
  <2>2. CASE Step(i, [Idle EXCEPT !.pc = "pickUid", !.name = n]) /\ served' = served
    <3> DEFINE j == [Idle EXCEPT !.pc = "pickUid", !.name = n]
    <3>1. j \in Jobs /\ j.pc = "pickUid" /\ j.name = n /\ j.todo = <<>>
      BY IdleJob, StartJob
    <3> HIDE DEF j
    <3>2. proc'[i] = j /\ proc' \in [Procs -> Jobs]
      BY <2>2, <3>1, JobStep DEF UserInv, j
    <3>3. served' = served
      BY <2>2
    <3>4. proc'[i].pc = "pickUid" /\ proc'[i].name = n /\ proc'[i].todo = <<>>
      BY <3>1, <3>2
    <3> QED BY <3>2, <3>3, <3>4
  <2> QED BY <2>1, <2>2 DEF Start
<1>3. TypeOK'
  BY <1>1, <1>2 DEF TypeOK, UserInv
<1>4. FilesOK' /\ served' \subseteq Names
  BY <1>1, <1>2 DEF UserInv, FilesOK
<1>5. UidFree' /\ GidsFree' /\ Copied'
  BY <1>1, <1>2 DEF UidFree, GidsFree, Copied
<1>6. Users = passwd /\ Groups = group /\ Users' = passwd /\ Groups' = group
  BY <1>1, <1>2 DEF Users, Groups
<1>7. AccountInv'
  <2>1. NamesIn(passwd) = UserNames
    BY DEF NamesIn, UserNames
  <2> QED BY <1>1, <1>2, <1>6, <2>1 DEF UserInv, AccountInv, Joining
<1> QED BY <1>3, <1>4, <1>5, <1>7 DEF UserInv

\* Steps that leave the files alone keep what is known of them.
LEMMA QuietStep ==
    ASSUME UserInv, NEW i \in Procs, Procs = {i}, UNCHANGED <<Files, served, torn>>,
           proc' \in [Procs -> Jobs], proc'[i].name = proc[i].name,
           proc[i].pc \in {"pickUid", "findInstall", "findOwn", "checkGroup", "checkUser"},
           proc'[i].pc \in {"findInstall", "findOwn", "checkGroup", "copyGroup", "checkUser", "copyPasswd"},
           proc'[i].pc = "copyPasswd" =>
               /\ \E y \in group : y.name = GroupOf[proc[i].name] /\ y.gid = proc'[i].g
               /\ Install \in NamesIn(group)
    PROVE  TypeOK' /\ FilesOK' /\ Copied' /\ served' \subseteq Names /\ AccountInv'
<1>1. UNCHANGED <<passwd, group, tmpPasswd, tmpGroup, served, torn>>
  BY DEF Files
<1>2. TypeOK'
  BY <1>1 DEF UserInv, TypeOK
<1>3. FilesOK' /\ served' \subseteq Names
  BY <1>1 DEF UserInv, FilesOK
<1>4. Copied'
  BY DEF Copied
<1>5. Users = passwd /\ Groups = group /\ Users' = passwd /\ Groups' = group
  BY <1>1 DEF Users, Groups
<1>6. AccountInv'
  <2>1. SUFFICES ASSUME ~ torn PROVE AccountInv'
    BY <1>1 DEF AccountInv
  <2>2. ~ Joining(i) /\ ~ Joining(i)'
    BY DEF Joining
  <2>3. /\ served' \cap Names \subseteq NamesIn(Users')
        /\ \A n \in Names \cap NamesIn(Users') : Whole(Users', Groups', n)
    BY <1>1, <1>5, <2>1, <2>2 DEF UserInv, AccountInv
  <2>4. proc'[i].pc \in {"copyPasswd", "emptyPasswd", "writePasswd"} =>
            /\ \E y \in Groups' : y.name = GroupOf[proc'[i].name] /\ y.gid = proc'[i].g
            /\ Install \in NamesIn(Groups')
    BY <1>1, <1>5
  <2> QED BY <2>2, <2>3, <2>4 DEF AccountInv
<1> QED BY <1>2, <1>3, <1>4, <1>6

LEMMA ChooseUidStep ==
    ASSUME RoomyRange, UserInv, NEW i \in Procs, Procs = {i}, ChooseUid(i), UNCHANGED torn
    PROVE  UserInv'
<1> DEFINE u == PickUid(Uids(passwd))
<1>1. proc[i].pc = "pickUid" /\ proc[i].todo = <<>> /\ proc[i] \in Jobs
  BY DEF ChooseUid, UserInv, TypeOK, GidsFree
<1>2. CASE Fail(i)
  BY <1>1, <1>2, ExitStep
<1>3. CASE ~Fail(i)
  <2>1. /\ u < MaxId /\ UNCHANGED <<Files, served>>
        /\ Step(i, [proc[i] EXCEPT !.pc = "findInstall", !.uid = u])
    BY <1>3 DEF ChooseUid, Uids
  <2>2. u \in Nat /\ Documented(u, Uids(passwd))
    <3>1. Uids(passwd) \subseteq Nat /\ IsFiniteSet(Uids(passwd))
      BY NumbersType DEF UserInv, FilesOK
    <3> QED BY <2>1, <3>1, PickUidDocumented
  <2> HIDE DEF u
  <2>3. /\ proc' \in [Procs -> Jobs] /\ proc'[i].pc = "findInstall" /\ proc'[i].uid = u
        /\ proc'[i].name = proc[i].name /\ proc'[i].todo = <<>>
    <3>1. [proc[i] EXCEPT !.pc = "findInstall", !.uid = u] \in Jobs
      BY <1>1, <2>2 DEF Jobs, Pcs
    <3>2. proc'[i] = [proc[i] EXCEPT !.pc = "findInstall", !.uid = u] /\ proc' \in [Procs -> Jobs]
      BY <2>1, <3>1, JobStep DEF UserInv
    <3> QED BY <1>1, <3>2 DEF Jobs
  <2>4. TypeOK' /\ FilesOK' /\ Copied' /\ served' \subseteq Names /\ AccountInv'
    BY <1>1, <2>1, <2>3, QuietStep DEF Files
  <2>5. UidFree'
    BY <2>1, <2>2, <2>3 DEF UidFree, Documented, Files
  <2>6. GidsFree'
    BY <2>3 DEF GidsFree
  <2> QED BY <2>4, <2>5, <2>6 DEF UserInv
<1> QED BY <1>2, <1>3

LEMMA FindInstallStep ==
    ASSUME RoomyRange, UserInv, NEW i \in Procs, Procs = {i}, FindInstall(i), UNCHANGED torn
    PROVE  UserInv'
<1> DEFINE g == IF Install \in KnownGroups THEN GidOf(Install) ELSE PickGid(Gids(group), 0)
           todo == IF Install \in KnownGroups THEN proc[i].todo
                   ELSE Append(proc[i].todo, <<Install, g>>)
<1>1. proc[i].pc = "findInstall" /\ proc[i].todo = <<>> /\ proc[i] \in Jobs
  BY DEF FindInstall, UserInv, TypeOK, GidsFree
<1>2. CASE Fail(i)
  BY <1>1, <1>2, ExitStep
<1>3. CASE ~Fail(i)
  <2>1. /\ Install \in KnownGroups \/ g < MaxId
        /\ UNCHANGED <<Files, served>>
        /\ Step(i, [proc[i] EXCEPT !.pc = "findOwn", !.oldg = 0, !.g = g, !.todo = todo])
    BY <1>1, <1>3 DEF FindInstall, FindGroup, Gids, Jobs
  <2>2. KnownGroups = NamesIn(group)
    BY DEF KnownGroups, NamesIn
  <2>3. g \in Nat /\ (Install \in KnownGroups => \E x \in group : x.name = Install /\ x.gid = g)
    <3>1. CASE Install \in KnownGroups
      <4>1. \E x \in group : x.name = Install /\ x.gid = GidOf(Install)
        BY <3>1 DEF KnownGroups, GidOf
      <4> QED BY <3>1, <4>1 DEF UserInv, FilesOK, GroupOK
    <3>2. CASE Install \notin KnownGroups
      <4>1. Gids(group) \subseteq Nat /\ IsFiniteSet(Gids(group))
        BY NumbersType DEF UserInv, FilesOK
      <4>2. PickGid(Gids(group), 0) \in Nat
        BY <4>1, PickGidDocumented DEF Before
      <4> QED BY <3>2, <4>2
    <3> QED BY <3>1, <3>2
  <2>4. Install \in KnownGroups \/ g = PickGid(Gids(group), 0)
    OBVIOUS
  <2> HIDE DEF g
  <2>5. /\ todo \in Seq(GroupNames \X Nat)
        /\ todo = IF Install \in KnownGroups THEN <<>> ELSE << <<Install, g>> >>
    <3>1. <<Install, g>> \in GroupNames \X Nat
      BY <2>3 DEF GroupNames
    <3>2. Append(<<>>, <<Install, g>>) = << <<Install, g>> >>
          /\ <<>> \in Seq(GroupNames \X Nat) /\ << <<Install, g>> >> \in Seq(GroupNames \X Nat)
      BY <3>1, AppendShort
    <3> QED BY <1>1, <3>2
  <2> HIDE DEF todo
  <2>6. /\ proc' \in [Procs -> Jobs] /\ proc'[i].pc = "findOwn" /\ proc'[i].uid = proc[i].uid
        /\ proc'[i].name = proc[i].name /\ proc'[i].todo = todo /\ proc'[i].g = g
    <3>1. [proc[i] EXCEPT !.pc = "findOwn", !.oldg = 0, !.g = g, !.todo = todo] \in Jobs
      BY <1>1, <2>3, <2>5 DEF Jobs, Pcs
    <3>2. /\ proc'[i] = [proc[i] EXCEPT !.pc = "findOwn", !.oldg = 0, !.g = g, !.todo = todo]
          /\ proc' \in [Procs -> Jobs]
      BY <2>1, <3>1, JobStep DEF UserInv
    <3> QED BY <1>1, <3>2 DEF Jobs
  <2>7. TypeOK' /\ FilesOK' /\ Copied' /\ served' \subseteq Names /\ AccountInv'
    BY <1>1, <2>1, <2>6, QuietStep DEF Files
  <2>8. UidFree'
    BY <1>1, <2>1, <2>6 DEF UidFree, UserInv, Files
  <2>9. GidsFree'
    BY <2>1, <2>2, <2>3, <2>4, <2>5, <2>6 DEF GidsFree, Files
  <2> QED BY <2>7, <2>8, <2>9 DEF UserInv
<1> QED BY <1>2, <1>3

LEMMA FindOwnStep ==
    ASSUME RoomyRange, UserInv, NEW i \in Procs, Procs = {i}, FindOwn(i), UNCHANGED torn
    PROVE  UserInv'
<1> DEFINE n == GroupOf[proc[i].name]
           o == proc[i].g
           g == IF n \in KnownGroups THEN GidOf(n) ELSE PickGid(Gids(group), o)
           todo == IF n \in KnownGroups THEN proc[i].todo ELSE Append(proc[i].todo, <<n, g>>)
<1>1. proc[i].pc = "findOwn" /\ proc[i] \in Jobs /\ n \in GroupNames
  BY DEF FindOwn, UserInv, TypeOK, GroupNames
<1>2. CASE Fail(i)
  BY <1>1, <1>2, ExitStep
<1>3. CASE ~Fail(i)
  <2>1. /\ n \in KnownGroups \/ g < MaxId
        /\ UNCHANGED <<Files, served>>
        /\ Step(i, [proc[i] EXCEPT !.pc = "checkGroup", !.oldg = o, !.g = g, !.todo = todo])
    BY <1>1, <1>3 DEF FindOwn, FindGroup, Gids, Jobs
  <2>2. KnownGroups = NamesIn(group)
    BY DEF KnownGroups, NamesIn
  <2>3. Gids(group) \subseteq Nat /\ IsFiniteSet(Gids(group)) /\ GroupOK(group)
    BY NumbersType DEF UserInv, FilesOK
  <2>4. \/ proc[i].todo = <<>> /\ o \in Gids(group) /\ Install \in NamesIn(group)
        \/ /\ proc[i].todo = << <<Install, o>> >> /\ Install \notin NamesIn(group)
           /\ o = PickGid(Gids(group), 0) /\ o < MaxId
    BY <1>1 DEF UserInv, GidsFree, Gids, NamesIn
  <2>5. Before(Gids(group), o) /\ o \in Nat
    <3>1. Install \notin NamesIn(group) => Gids(group) = {} \/ \E k \in Gids(group) : k < MinId
      BY <2>3 DEF GroupOK, Gids
    <3> QED BY <1>1, <2>4, <3>1 DEF Before, Jobs
  <2>6. g \in Nat
    <3>1. CASE n \in KnownGroups
      <4>1. \E x \in group : x.name = n /\ x.gid = GidOf(n)
        BY <3>1 DEF KnownGroups, GidOf
      <4> QED BY <2>3, <3>1, <4>1 DEF GroupOK
    <3>2. CASE n \notin KnownGroups
      BY <2>3, <2>5, <3>2, PickGidDocumented
    <3> QED BY <3>1, <3>2
  <2>7. Ready(todo, group) /\ todo \in Seq(GroupNames \X Nat)
    <3>1. Install \notin NamesIn(group) => Documented(o, Gids(group))
      <4>1. ASSUME Install \notin NamesIn(group) PROVE Documented(o, Gids(group))
        <5>1. o = PickGid(Gids(group), 0) /\ o < MaxId
          BY <2>4, <4>1
        <5>2. Documented(o, Gids(group) \cup {0})
          BY <2>3, <5>1, PickGidDocumented DEF Before
        <5> QED BY <5>2, RangeAssumption DEF Documented, RoomyRange
      <4> QED BY <4>1
    <3>2. n \notin KnownGroups => Documented(g, Gids(group) \cup {o})
      BY <2>1, <2>3, <2>5, PickGidDocumented
    <3> HIDE DEF g
    <3>3. <<Install, o>> \in GroupNames \X Nat /\ <<n, g>> \in GroupNames \X Nat
      BY <1>1, <2>5, <2>6 DEF GroupNames, Jobs
    <3>4. CASE n \in KnownGroups
      <4>1. todo = proc[i].todo /\ proc[i].todo \in Seq(GroupNames \X Nat)
        BY <1>1, <3>4 DEF Jobs
      <4>2. Ready(proc[i].todo, group)
        BY <2>4, <3>1, ReadyShapes
      <4> QED BY <4>1, <4>2
    <3>5. CASE n \notin KnownGroups /\ proc[i].todo = <<>> /\ o \in Gids(group) /\ Install \in NamesIn(group)
      <4>1. Gids(group) \cup {o} = Gids(group)
        BY <3>5
      <4>2. Documented(g, Gids(group))
        BY <3>2, <3>5, <4>1
      <4>3. todo = << <<n, g>> >> /\ << <<n, g>> >> \in Seq(GroupNames \X Nat)
        BY <3>3, <3>5, AppendShort
      <4> QED BY <3>5, <4>2, <4>3, ReadyShapes
    <3>6. CASE n \notin KnownGroups /\ proc[i].todo = << <<Install, o>> >> /\ Install \notin NamesIn(group)
      <4> DEFINE t == << <<Install, o>>, <<n, g>> >>
      <4>1. todo = t /\ t \in Seq(GroupNames \X Nat)
        <5>1. Append(<< <<Install, o>> >>, <<n, g>>) = t /\ t \in Seq(GroupNames \X Nat)
          <6> DEFINE a == <<Install, o>>
                     b == <<n, g>>
          <6>1. a \in GroupNames \X Nat /\ b \in GroupNames \X Nat
            BY <3>3
          <6> HIDE DEF a, b
          <6>2. Append(<<a>>, b) = <<a, b>> /\ <<a, b>> \in Seq(GroupNames \X Nat)
            BY <6>1, AppendShort
          <6> QED BY <6>2, Zenon DEF a, b
        <5> QED BY <3>6, <5>1
      <4>2. Ready(t, group)
        BY <3>1, <3>2, <3>6, ReadyShapes
      <4> HIDE DEF t, todo
      <4> QED BY <4>1, <4>2
    <3> QED BY <2>4, <3>4, <3>5, <3>6
  <2> HIDE DEF g, todo
  <2>8. /\ proc' \in [Procs -> Jobs] /\ proc'[i].pc = "checkGroup" /\ proc'[i].uid = proc[i].uid
        /\ proc'[i].name = proc[i].name /\ proc'[i].todo = todo
    <3>1. [proc[i] EXCEPT !.pc = "checkGroup", !.oldg = o, !.g = g, !.todo = todo] \in Jobs
      BY <1>1, <2>5, <2>6, <2>7 DEF Jobs, Pcs
    <3>2. /\ proc'[i] = [proc[i] EXCEPT !.pc = "checkGroup", !.oldg = o, !.g = g, !.todo = todo]
          /\ proc' \in [Procs -> Jobs]
      BY <2>1, <3>1, JobStep DEF UserInv
    <3> QED BY <1>1, <3>2 DEF Jobs
  <2>9. TypeOK' /\ FilesOK' /\ Copied' /\ served' \subseteq Names /\ AccountInv'
    BY <1>1, <2>1, <2>8, QuietStep DEF Files
  <2>10. UidFree'
    BY <1>1, <2>1, <2>8 DEF UidFree, UserInv, Files
  <2>11. GidsFree'
    BY <2>1, <2>7, <2>8 DEF GidsFree, Files
  <2> QED BY <2>9, <2>10, <2>11 DEF UserInv
<1> QED BY <1>2, <1>3

LEMMA CheckGroupStep ==
    ASSUME UserInv, NEW i \in Procs, Procs = {i}, CheckGroup(i), UNCHANGED torn
    PROVE  UserInv'
<1>1. proc[i].pc = "checkGroup" /\ proc[i] \in Jobs
  BY DEF CheckGroup, UserInv, TypeOK
<1>2. CASE Fail(i)
  BY <1>1, <1>2, ExitStep
<1>3. ASSUME NEW p \in {"checkUser", "copyGroup"}, Goto(i, p), UNCHANGED <<Files, served>>,
             p = "copyGroup" => proc[i].todo # <<>>
      PROVE  UserInv'
  <2>1. /\ proc' \in [Procs -> Jobs] /\ proc'[i].pc = p /\ proc'[i].uid = proc[i].uid
        /\ proc'[i].name = proc[i].name /\ proc'[i].todo = proc[i].todo
    BY <1>3, GotoStep DEF UserInv, Pcs
  <2>2. TypeOK' /\ FilesOK' /\ Copied' /\ served' \subseteq Names /\ AccountInv'
    BY <1>1, <1>3, <2>1, QuietStep
  <2>3. UidFree'
    BY <1>1, <1>3, <2>1 DEF UidFree, UserInv, Files
  <2>4. GidsFree'
    BY <1>1, <1>3, <2>1 DEF GidsFree, UserInv, Files
  <2> QED BY <2>2, <2>3, <2>4 DEF UserInv
<1> QED BY <1>2, <1>3 DEF CheckGroup

LEMMA CheckUserStep ==
    ASSUME UserInv, NEW i \in Procs, Procs = {i}, CheckUser(i), UNCHANGED torn
    PROVE  UserInv'
<1>1. proc[i].pc = "checkUser" /\ proc[i] \in Jobs
  BY DEF CheckUser, UserInv, TypeOK
<1>2. CASE Fail(i)
  BY <1>1, <1>2, ExitStep
<1>3. CASE ~Fail(i)
  <2> DEFINE g == GidOf(GroupOf[proc[i].name])
  <2>1. /\ GroupOf[proc[i].name] \in KnownGroups /\ Install \in KnownGroups
        /\ UNCHANGED <<Files, served>>
        /\ Step(i, [proc[i] EXCEPT !.pc = "copyPasswd", !.g = g])
    BY <1>3 DEF CheckUser
  <2>2. g \in Nat /\ \E y \in group : y.name = GroupOf[proc[i].name] /\ y.gid = g
    <3>1. \E y \in group : y.name = GroupOf[proc[i].name] /\ y.gid = g
      BY <2>1 DEF KnownGroups, GidOf
    <3> QED BY <3>1 DEF UserInv, FilesOK, GroupOK
  <2> HIDE DEF g
  <2>3. /\ proc' \in [Procs -> Jobs] /\ proc'[i].pc = "copyPasswd" /\ proc'[i].g = g
        /\ proc'[i].name = proc[i].name /\ proc'[i].uid = proc[i].uid
    <3>1. [proc[i] EXCEPT !.pc = "copyPasswd", !.g = g] \in Jobs
      BY <1>1, <2>2 DEF Jobs, Pcs
    <3>2. proc'[i] = [proc[i] EXCEPT !.pc = "copyPasswd", !.g = g] /\ proc' \in [Procs -> Jobs]
      BY <2>1, <3>1, JobStep DEF UserInv
    <3> QED BY <1>1, <3>2 DEF Jobs
  <2>4. Install \in NamesIn(group)
    BY <2>1 DEF KnownGroups, NamesIn
  <2>5. TypeOK' /\ FilesOK' /\ Copied' /\ served' \subseteq Names /\ AccountInv'
    BY <1>1, <2>1, <2>2, <2>3, <2>4, QuietStep
  <2>6. UidFree'
    BY <1>1, <2>1, <2>3 DEF UidFree, UserInv, Files
  <2>7. GidsFree'
    BY <2>3 DEF GidsFree
  <2> QED BY <2>5, <2>6, <2>7 DEF UserInv
<1> QED BY <1>2, <1>3

LEMMA CopyGroupStep ==
    ASSUME UserInv, NEW i \in Procs, Procs = {i}, CopyGroup(i), UNCHANGED torn
    PROVE  UserInv'
<1>1. /\ UNCHANGED <<passwd, group, tmpPasswd, served, torn>> /\ tmpGroup' = group
      /\ proc[i].pc \in {"copyGroup", "copyMembers"}
  BY DEF CopyGroup
<1>2. /\ proc' \in [Procs -> Jobs] /\ proc'[i].name = proc[i].name
      /\ proc'[i].uid = proc[i].uid /\ proc'[i].todo = proc[i].todo
      /\ proc[i].pc = "copyGroup" => proc'[i].pc = "emptyGroup"
      /\ proc[i].pc = "copyMembers" => proc'[i].pc = "emptyMembers"
  <2>1. CASE proc[i].pc = "copyGroup" /\ Goto(i, "emptyGroup")
    BY <2>1, GotoStep DEF UserInv, Pcs
  <2>2. CASE proc[i].pc = "copyMembers" /\ Goto(i, "emptyMembers")
    BY <2>2, GotoStep DEF UserInv, Pcs
  <2> QED BY <2>1, <2>2 DEF CopyGroup
<1>3. TypeOK'
  BY <1>1, <1>2 DEF UserInv, TypeOK
<1>4. FilesOK' /\ served' \subseteq Names
  BY <1>1 DEF UserInv, FilesOK
<1>5. UidFree'
  BY <1>1, <1>2 DEF UserInv, UidFree
<1>6. GidsFree' /\ Copied'
  BY <1>1, <1>2 DEF UserInv, GidsFree, Copied
<1>7. Users = passwd /\ Groups = group /\ Users' = passwd /\ Groups' = group
  BY <1>1, <1>2 DEF Users, Groups
<1>8. AccountInv'
  BY <1>1, <1>2, <1>7 DEF UserInv, AccountInv, Joining
<1> QED BY <1>3, <1>4, <1>5, <1>6, <1>8 DEF UserInv

LEMMA EmptyGroupStep ==
    ASSUME UserInv, NEW i \in Procs, Procs = {i}, EmptyGroup(i), UNCHANGED torn
    PROVE  UserInv'
<1>1. /\ UNCHANGED <<passwd, tmpGroup, tmpPasswd, served, torn>> /\ group' = {}
      /\ proc[i].pc \in {"emptyGroup", "emptyMembers"}
  BY DEF EmptyGroup
<1>2. /\ proc' \in [Procs -> Jobs] /\ proc'[i].name = proc[i].name
      /\ proc'[i].uid = proc[i].uid /\ proc'[i].todo = proc[i].todo
      /\ proc[i].pc = "emptyGroup" => proc'[i].pc = "writeGroup"
      /\ proc[i].pc = "emptyMembers" => proc'[i].pc = "writeMembers"
  <2>1. CASE proc[i].pc = "emptyGroup" /\ Goto(i, "writeGroup")
    BY <2>1, GotoStep DEF UserInv, Pcs
  <2>2. CASE proc[i].pc = "emptyMembers" /\ Goto(i, "writeMembers")
    BY <2>2, GotoStep DEF UserInv, Pcs
  <2> QED BY <2>1, <2>2 DEF EmptyGroup
<1>3. TypeOK'
  BY <1>1, <1>2 DEF UserInv, TypeOK
<1>4. FilesOK' /\ served' \subseteq Names
  BY <1>1, EmptyFiles DEF UserInv, FilesOK
<1>5. UidFree'
  BY <1>1, <1>2 DEF UserInv, UidFree
<1>6. GidsFree' /\ Copied'
  BY <1>1, <1>2 DEF UserInv, GidsFree, Copied
<1>7. Users = passwd /\ Groups = group /\ Users' = passwd /\ Groups' = group
  BY <1>1, <1>2 DEF Users, Groups, UserInv, Copied
<1>8. AccountInv'
  BY <1>1, <1>2, <1>7 DEF UserInv, AccountInv, Joining
<1> QED BY <1>3, <1>4, <1>5, <1>6, <1>8 DEF UserInv

LEMMA WriteGroupStep ==
    ASSUME UserInv, NEW i \in Procs, Procs = {i}, WriteGroup(i), UNCHANGED torn
    PROVE  UserInv'
<1> DEFINE todo == proc[i].todo
           n == Head(todo)[1]
           a == Head(todo)[2]
           H == tmpGroup \cup {Group(n, a, {})}
<1>1. /\ UNCHANGED <<passwd, tmpGroup, tmpPasswd, served, torn>> /\ group' = H
      /\ proc[i].pc = "writeGroup" /\ proc[i] \in Jobs /\ todo # <<>> /\ todo \in Seq(GroupNames \X Nat)
      /\ Step(i, [proc[i] EXCEPT !.pc = "checkGroup", !.todo = Tail(todo)])
  BY DEF WriteGroup, UserInv, TypeOK, GidsFree, Jobs
<1>2. /\ a \in Nat /\ a \notin Gids(tmpGroup) /\ (n = Install \/ Install \in NamesIn(tmpGroup))
      /\ Ready(Tail(todo), H)
  BY <1>1, ReadyTail DEF UserInv, GidsFree
<1>3. GroupOK(H)
  BY <1>2, AddGroup DEF UserInv, FilesOK
<1>4. Tail(todo) \in Seq(GroupNames \X Nat)
  BY <1>1
<1>5. /\ proc' \in [Procs -> Jobs] /\ proc'[i].name = proc[i].name /\ proc'[i].pc = "checkGroup"
      /\ proc'[i].uid = proc[i].uid /\ proc'[i].todo = Tail(todo)
  <2> DEFINE t == Tail(todo)
  <2>0. t \in Seq(GroupNames \X Nat) /\ Step(i, [proc[i] EXCEPT !.pc = "checkGroup", !.todo = t])
    BY <1>1, <1>4
  <2> HIDE DEF t
  <2>1. [proc[i] EXCEPT !.pc = "checkGroup", !.todo = t] \in Jobs
    BY <1>1, <2>0 DEF Jobs, Pcs
  <2>2. proc'[i] = [proc[i] EXCEPT !.pc = "checkGroup", !.todo = t] /\ proc' \in [Procs -> Jobs]
    BY <2>0, <2>1, JobStep DEF UserInv
  <2>3. /\ proc' \in [Procs -> Jobs] /\ proc'[i].name = proc[i].name /\ proc'[i].pc = "checkGroup"
        /\ proc'[i].uid = proc[i].uid /\ proc'[i].todo = t
    BY <1>1, <2>2 DEF Jobs
  <2> QED BY <2>3 DEF t
<1>6. tmpGroup \subseteq H
  OBVIOUS
<1> HIDE DEF H, n, a
<1>7. TypeOK'
  BY <1>1, <1>5 DEF UserInv, TypeOK
<1>8. FilesOK' /\ served' \subseteq Names
  BY <1>1, <1>3 DEF UserInv, FilesOK
<1>9. UidFree'
  BY <1>1, <1>5 DEF UserInv, UidFree
<1>10. GidsFree' /\ Copied'
  BY <1>1, <1>2, <1>5 DEF GidsFree, Copied
<1>11. Users = passwd /\ Groups = tmpGroup /\ Users' = passwd /\ Groups' = H
  BY <1>1, <1>5 DEF Users, Groups
<1>12. AccountInv'
  BY <1>1, <1>5, <1>6, <1>11 DEF UserInv, AccountInv, Joining, Whole
<1> QED BY <1>7, <1>8, <1>9, <1>10, <1>12 DEF UserInv

LEMMA CopyPasswdStep ==
    ASSUME UserInv, NEW i \in Procs, Procs = {i}, CopyPasswd(i), UNCHANGED torn
    PROVE  UserInv'
<1>1. /\ UNCHANGED <<passwd, group, tmpGroup, served, torn>> /\ tmpPasswd' = passwd
      /\ proc[i].pc = "copyPasswd"
  BY DEF CopyPasswd
<1>2. /\ proc' \in [Procs -> Jobs] /\ proc'[i].name = proc[i].name /\ proc'[i].pc = "emptyPasswd"
      /\ proc'[i].uid = proc[i].uid /\ proc'[i].g = proc[i].g
  BY GotoStep DEF CopyPasswd, UserInv, Pcs
<1>3. TypeOK'
  BY <1>1, <1>2 DEF UserInv, TypeOK
<1>4. FilesOK' /\ served' \subseteq Names
  BY <1>1 DEF UserInv, FilesOK
<1>5. UidFree' /\ GidsFree' /\ Copied'
  BY <1>1, <1>2 DEF UserInv, UidFree, GidsFree, Copied
<1>7. Users = passwd /\ Groups = group /\ Users' = passwd /\ Groups' = group
  BY <1>1, <1>2 DEF Users, Groups
<1>8. AccountInv'
  BY <1>1, <1>2, <1>7 DEF UserInv, AccountInv, Joining
<1> QED BY <1>3, <1>4, <1>5, <1>8 DEF UserInv

LEMMA EmptyPasswdStep ==
    ASSUME UserInv, NEW i \in Procs, Procs = {i}, EmptyPasswd(i), UNCHANGED torn
    PROVE  UserInv'
<1>1. /\ UNCHANGED <<group, tmpPasswd, tmpGroup, served, torn>> /\ passwd' = {}
      /\ proc[i].pc = "emptyPasswd"
  BY DEF EmptyPasswd
<1>2. /\ proc' \in [Procs -> Jobs] /\ proc'[i].name = proc[i].name /\ proc'[i].pc = "writePasswd"
      /\ proc'[i].uid = proc[i].uid /\ proc'[i].g = proc[i].g
  BY GotoStep DEF EmptyPasswd, UserInv, Pcs
<1>3. TypeOK'
  BY <1>1, <1>2 DEF UserInv, TypeOK
<1>4. FilesOK' /\ served' \subseteq Names
  BY <1>1, EmptyFiles DEF UserInv, FilesOK
<1>5. UidFree' /\ GidsFree' /\ Copied'
  BY <1>1, <1>2 DEF UserInv, UidFree, GidsFree, Copied
<1>7. Users = passwd /\ Groups = group /\ Users' = passwd /\ Groups' = group
  BY <1>1, <1>2 DEF Users, Groups, UserInv, Copied
<1>8. AccountInv'
  BY <1>1, <1>2, <1>7 DEF UserInv, AccountInv, Joining
<1> QED BY <1>3, <1>4, <1>5, <1>8 DEF UserInv

LEMMA WritePasswdStep ==
    ASSUME UserInv, NEW i \in Procs, Procs = {i}, WritePasswd(i), UNCHANGED torn
    PROVE  UserInv'
<1> DEFINE e == User(proc[i].name, proc[i].uid, proc[i].g)
<1>1. /\ UNCHANGED <<group, tmpPasswd, tmpGroup, served, torn>> /\ passwd' = tmpPasswd \cup {e}
      /\ proc[i].pc = "writePasswd" /\ proc[i] \in Jobs
  BY DEF WritePasswd, UserInv, TypeOK
<1>2. /\ proc' \in [Procs -> Jobs] /\ proc'[i].name = proc[i].name /\ proc'[i].pc = "copyMembers"
  BY GotoStep DEF WritePasswd, UserInv, Pcs
<1>3. PasswdOK(tmpPasswd \cup {e})
  <2>1. proc[i].uid \in Nat /\ proc[i].uid \notin Uids(tmpPasswd)
    BY <1>1 DEF Jobs, UserInv, UidFree
  <2> QED BY <2>1, AddUser DEF UserInv, FilesOK
<1>4. e.name = proc[i].name /\ e.gid = proc[i].g
  BY DEF User
<1> HIDE DEF e
<1>5. TypeOK'
  BY <1>1, <1>2 DEF UserInv, TypeOK
<1>6. FilesOK' /\ served' \subseteq Names
  BY <1>1, <1>3 DEF UserInv, FilesOK
<1>7. UidFree' /\ GidsFree' /\ Copied'
  BY <1>1, <1>2 DEF UidFree, GidsFree, Copied
<1>8. Users = tmpPasswd /\ Groups = group /\ Users' = tmpPasswd \cup {e} /\ Groups' = group
  BY <1>1, <1>2 DEF Users, Groups
<1>9. AccountInv'
  BY <1>1, <1>2, <1>4, <1>8 DEF UserInv, AccountInv, Joining, Whole, NamesIn
<1> QED BY <1>5, <1>6, <1>7, <1>9 DEF UserInv

LEMMA WriteMembersStep ==
    ASSUME UserInv, NEW i \in Procs, Procs = {i}, WriteMembers(i), UNCHANGED torn
    PROVE  UserInv'
<1> DEFINE n == proc[i].name
           H == Joined(tmpGroup, n)
<1>1. /\ UNCHANGED <<passwd, tmpPasswd, tmpGroup, torn>> /\ group' = H
      /\ proc[i].pc = "writeMembers" /\ n \in Names /\ served' = served \cup {n}
  BY DEF WriteMembers, UserInv, TypeOK, Joined
<1>2. proc' \in [Procs -> Jobs] /\ proc'[i].pc = "idle"
  BY IdleJob, JobStep DEF WriteMembers, UserInv
<1>3. /\ GroupOK(H)
      /\ \A x \in tmpGroup : \E y \in H : y.name = x.name /\ y.gid = x.gid /\ x.members \subseteq y.members
      /\ \A x \in tmpGroup : x.name = Install => \E y \in H : y.name = Install /\ n \in y.members
  BY JoinedLines DEF UserInv, FilesOK
<1> HIDE DEF H
<1>4. TypeOK'
  BY <1>1, <1>2 DEF UserInv, TypeOK
<1>5. FilesOK' /\ served' \subseteq Names
  BY <1>1, <1>3 DEF UserInv, FilesOK
<1>6. UidFree' /\ GidsFree' /\ Copied'
  BY <1>1, <1>2 DEF UidFree, GidsFree, Copied
<1>7. Users = passwd /\ Groups = tmpGroup /\ Users' = passwd /\ Groups' = H
  BY <1>1, <1>2 DEF Users, Groups
<1>8. AccountInv'
  <2>1. SUFFICES ASSUME ~ torn PROVE AccountInv'
    BY <1>1 DEF AccountInv
  <2>2. /\ served \cap Names \subseteq NamesIn(passwd)
        /\ \A m \in Names \cap NamesIn(passwd) : Whole(passwd, tmpGroup, m) \/ m = n
        /\ \E x \in passwd, y \in tmpGroup : x.name = n /\ y.name = GroupOf[n] /\ x.gid = y.gid
        /\ Install \in NamesIn(tmpGroup)
    BY <1>1, <1>7, <2>1 DEF UserInv, AccountInv, Joining
  <2>3. \A m : Whole(passwd, tmpGroup, m) => Whole(passwd, H, m)
    BY <1>3 DEF Whole
  <2>4. Whole(passwd, H, n)
    BY <1>3, <2>2 DEF Whole, NamesIn
  <2>5. served' \cap Names \subseteq NamesIn(passwd)
    BY <1>1, <2>2 DEF NamesIn
  <2> QED BY <1>2, <1>7, <2>2, <2>3, <2>4, <2>5 DEF AccountInv, Joining
<1> QED BY <1>4, <1>5, <1>6, <1>8 DEF UserInv

LEMMA UserStep == ASSUME OneAtATime, RoomyRange PROVE UserInv /\ [Next]_vars => UserInv'
<1>1. ASSUME UserInv, UNCHANGED vars PROVE UserInv'
  BY <1>1 DEF vars, UserInv, TypeOK, FilesOK, UidFree, GidsFree, Copied, AccountInv, Users,
     Groups, Joining
<1>2. ASSUME UserInv, NEW i \in Procs, Work(i) PROVE UserInv'
  <2>1. Procs = {i}
    BY DEF OneAtATime
  <2>2. UNCHANGED torn
    BY <1>2 DEF Work
  <2>3. \/ \E n \in Names : Start(i, n)
        \/ ChooseUid(i) \/ FindInstall(i) \/ FindOwn(i)
        \/ CheckGroup(i) \/ CopyGroup(i) \/ EmptyGroup(i) \/ WriteGroup(i)
        \/ CheckUser(i) \/ CopyPasswd(i) \/ EmptyPasswd(i) \/ WritePasswd(i)
        \/ WriteMembers(i)
    BY <1>2 DEF Work
  <2> QED BY <1>2, <2>1, <2>2, <2>3, StartStep, ChooseUidStep, FindInstallStep, FindOwnStep,
             CheckGroupStep, CopyGroupStep, EmptyGroupStep, WriteGroupStep, CheckUserStep,
             CopyPasswdStep, EmptyPasswdStep, WritePasswdStep, WriteMembersStep
<1>3. ASSUME UserInv, NEW i \in Procs, Crash(i) PROVE UserInv'
  <2>1. Procs = {i}
    BY DEF OneAtATime
  <2>2. /\ Fail(i) /\ torn' \in BOOLEAN /\ (torn => torn')
        /\ proc[i].pc \in {"writeGroup", "writePasswd", "copyMembers", "emptyMembers",
                           "writeMembers"} => torn'
    BY <1>3, Zenon DEF Crash, UserInv, TypeOK
  <2> QED BY <1>3, <2>1, <2>2, FailStep
<1> QED BY <1>1, <1>2, <1>3 DEF Next

LEMMA UserAlways == ASSUME OneAtATime, RoomyRange, SoundSystems PROVE Spec => []UserInv
<1> QED BY UserInit, UserStep, PTL DEF Spec

\* One run at a time, killed or not, gives no uid and no gid twice.
THEOREM NumbersUnique == ASSUME OneAtATime, RoomyRange, SoundSystems PROVE Spec => []UniqueIds
<1>1. UserInv => UniqueIds
  BY DEF UserInv, FilesOK, PasswdOK, GroupOK, UniqueIds
<1> QED BY <1>1, UserAlways, PTL

\* One run at a time, killed or not, chooses the numbers that the usage text and
\* the comments of add_package_user promise.
THEOREM NumbersDocumented ==
    ASSUME OneAtATime, RoomyRange, SoundSystems PROVE Spec => []PickAsDocumented
<1>1. UserInv => PickAsDocumented
  BY DEF UserInv, UidFree, GidsFree, Ready, Uids, Gids, PickAsDocumented
<1> QED BY <1>1, UserAlways, PTL

\* One run at a time leaves every account whole that add_package_user reported as
\* done, as long as none was killed with a file emptied or between the line of a
\* user and its place in the install group.
THEOREM AccountsStayWhole ==
    ASSUME OneAtATime, RoomyRange, SoundSystems PROVE Spec => []AccountsWhole
<1>1. UserInv => AccountsWhole
  <2> SUFFICES ASSUME UserInv, Resting, ~ torn, NEW n \in served
               PROVE  /\ \E x \in passwd, y \in group :
                            x.name = n /\ y.name = GroupOf[n] /\ x.gid = y.gid
                      /\ \E y \in group : y.name = Install /\ n \in y.members
    BY DEF AccountsWhole
  <2>1. Users = passwd /\ Groups = group /\ ~ \E i \in Procs : Joining(i)
    BY DEF Resting, Users, Groups, Joining
  <2>2. n \in Names
    BY DEF UserInv
  <2>3. n \in Names \cap NamesIn(passwd)
    BY <2>1, <2>2 DEF UserInv, AccountInv
  <2>4. Whole(passwd, group, n)
    BY <2>1, <2>3 DEF UserInv, AccountInv
  <2> QED BY <2>4 DEF Whole
<1> QED BY <1>1, UserAlways, PTL
=============================================================================
