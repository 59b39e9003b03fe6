--------------------------- MODULE TpkgsMainProofs ---------------------------
(***************************************************************************)
(* Proofs about a run of tpkgs: the types of its state, which files its    *)
(* configuration is read from, what it takes the words of the command line *)
(* for, what may become of Current, and what the operators on paths, marks *)
(* and versions compute. The parts on the words and the types follow the   *)
(* order of the model.                                                     *)
(***************************************************************************)
EXTENDS TpkgsMain, FiniteSetTheorems, SequenceTheorems, WellFoundedInduction, TLAPS

IsSeq(s) == \E S : s \in Seq(S)

\* The versions whose configuration file is among the files r.
Files(r) == {r[k] : k \in DOMAIN r}
VersionFiles(r) == {f \in Files(r) : f.kind = "version"}

OwnFile(w) ==
    /\ VersionFiles(w.read) =
           IF w.op \in {"uninstall", "pack", "files"} THEN {File("version", w.version)} ELSE {}
    /\ w.stored \subseteq Files(w.read)

Loading == pc \in {"open", "read"}
Mine == VersionFiles(tp.read) = {File("version", chosen.version)}

\* What has been read in each phase of a run: up to the command no version's file;
\* then, in tp, that of the version it names and, in tp2, that of the version
\* it replaces.
PhaseInv ==
    /\ (Loading /\ ~Replacing /\ Latest(tp.read) \in {"system", "user"})
       \/ pc \in {"init", "select", "act"}
         => VersionFiles(tp.read) = {} /\ ~Replacing
    /\ Loading /\ ~Replacing => Latest(tp.read) \in {"system", "user", "version"}
    /\ (Loading /\ ~Replacing /\ Latest(tp.read) = "version") \/ pc = "gather"
         => Mine /\ call.action \in {"uninstall", "pack", "files", "config"}
    /\ (Loading /\ Replacing) \/ pc = "replace"
         => /\ call.action = "install" /\ VersionFiles(tp.read) = {}
            /\ VersionFiles(tp2.read) = {File("version", Me.current)}
    /\ pc = "run"
         => \/ call.action = "install" /\ VersionFiles(tp.read) = {}
            \/ call.action \in {"uninstall", "pack"} /\ Mine

\* A copy of the configuration stores lines of files that were read into it.
StoredIn(t) == IsSeq(t.read) /\ Len(t.read) \in DOMAIN t.read /\ t.stored \subseteq Files(t.read)

SeqInv ==
    /\ IsSeq(tp.read) /\ IsSeq(work)
    /\ tp = [conf |-> tp.conf, read |-> tp.read, stored |-> tp.stored]
    /\ tp2 = [conf |-> tp2.conf, read |-> tp2.read, stored |-> tp2.stored]
    /\ StoredIn(tp) /\ StoredIn(tp2)

WorkOwn == \A i \in DOMAIN work : OwnFile(work[i])

ConfigInv == PhaseInv /\ SeqInv /\ WorkOwn

-----------------------------------------------------------------------------
(* What one more file and one more operation change                          *)

LEMMA AppendFacts ==
    ASSUME NEW S, NEW s \in Seq(S), NEW e
    PROVE  /\ IsSeq(Append(s, e))
           /\ DOMAIN Append(s, e) = 1 .. (Len(s) + 1)
           /\ DOMAIN s = 1 .. Len(s) /\ Len(s) \in Nat
           /\ Append(s, e)[Len(s) + 1] = e
           /\ Len(Append(s, e)) = Len(s) + 1
           /\ \A k \in 1 .. Len(s) : Append(s, e)[k] = s[k]
<1>1. s \in Seq(S \cup {e}) /\ e \in S \cup {e}
  OBVIOUS
<1>2. Append(s, e) \in Seq(S \cup {e})
  BY <1>1
<1>3. IsSeq(Append(s, e))
  BY <1>2 DEF IsSeq
<1> QED BY <1>1, <1>2, <1>3

LEMMA OneMoreFile ==
    ASSUME NEW r, IsSeq(r), NEW f
    PROVE  /\ IsSeq(Append(r, f)) /\ Latest(Append(r, f)) = f.kind
           /\ Len(Append(r, f)) \in DOMAIN Append(r, f)
           /\ Files(Append(r, f)) = Files(r) \cup {f}
<1> PICK S : r \in Seq(S)
  BY DEF IsSeq
<1>1. PICK q : q = Append(r, f)
  OBVIOUS
<1>2. /\ IsSeq(q)
      /\ DOMAIN q = 1 .. (Len(r) + 1)
      /\ DOMAIN r = 1 .. Len(r) /\ Len(r) \in Nat
      /\ q[Len(r) + 1] = f
      /\ Len(q) = Len(r) + 1
      /\ \A n \in 1 .. Len(r) : q[n] = r[n]
  BY <1>1, AppendFacts
<1>3. Files(q) = Files(r) \cup {f}
  BY <1>2 DEF Files
<1>4. Len(q) \in DOMAIN q /\ Latest(q) = f.kind
  BY <1>2 DEF Latest
<1> QED BY <1>1, <1>2, <1>3, <1>4

\* A file is read into the copy t of configuration c.
LEMMA StoredMore ==
    ASSUME NEW c, StoredIn(c), NEW t, NEW f, t.read = Append(c.read, f), t.stored = c.stored
    PROVE  StoredIn(t) /\ Latest(t.read) = f.kind
<1>1. IsSeq(c.read) /\ c.stored \subseteq Files(c.read)
  BY DEF StoredIn
<1>2. /\ IsSeq(t.read) /\ Latest(t.read) = f.kind /\ Len(t.read) \in DOMAIN t.read
      /\ Files(t.read) = Files(c.read) \cup {f}
  BY <1>1, OneMoreFile
<1> QED BY <1>1, <1>2 DEF StoredIn

LEMMA NoMoreVersion ==
    ASSUME NEW r, IsSeq(r), NEW v, NEW q, q = Append(r, File("user", v))
    PROVE  VersionFiles(q) = VersionFiles(r)
<1>1. PICK f : f = File("user", v)
  OBVIOUS
<1>2. Files(q) = Files(r) \cup {f}
  BY <1>1, OneMoreFile
<1>3. f.kind = "user"
  BY <1>1 DEF File
<1> QED BY <1>2, <1>3 DEF VersionFiles

LEMMA OneMoreVersion ==
    ASSUME NEW r, IsSeq(r), NEW v, NEW q, q = Append(r, File("version", v))
    PROVE  VersionFiles(q) = VersionFiles(r) \cup {File("version", v)}
<1>1. PICK f : f = File("version", v)
  OBVIOUS
<1>2. Files(q) = Files(r) \cup {f}
  BY <1>1, OneMoreFile
<1>3. f.kind = "version"
  BY <1>1 DEF File
<1> QED BY <1>1, <1>2, <1>3 DEF VersionFiles

LEMMA OneMoreWork ==
    ASSUME WorkOwn, SeqInv, NEW w, OwnFile(w), work' = Append(work, w)
    PROVE  WorkOwn' /\ IsSeq(work')
<1> PICK S : work \in Seq(S)
  BY DEF SeqInv, IsSeq
<1>1. /\ IsSeq(work')
      /\ DOMAIN work' = 1 .. (Len(work) + 1)
      /\ DOMAIN work = 1 .. Len(work) /\ Len(work) \in Nat
      /\ work'[Len(work) + 1] = w
      /\ \A n \in 1 .. Len(work) : work'[n] = work[n]
  BY AppendFacts
<1>2. ASSUME NEW n \in DOMAIN work' PROVE OwnFile(work'[n])
  <2>1. CASE n = Len(work) + 1
    BY <1>1, <2>1
  <2>2. CASE n \in DOMAIN work
    BY <1>1, <2>2 DEF WorkOwn
  <2> QED BY <1>1, <2>1, <2>2
<1> QED BY <1>1, <1>2 DEF WorkOwn

LEMMA StartFiles ==
    VersionFiles(StartTP.read) = {} /\ Latest(StartTP.read) = "system"
<1> DEFINE e == File("system", Empty)
<1>1. StartTP.read = <<e>> /\ e.kind = "system"
  BY DEF StartTP, File
<1> HIDE DEF e
<1>2. /\ Len(<<e>>) = 1 /\ <<e>>[1] = e
      /\ {<<e>>[k] : k \in DOMAIN <<e>>} = {e}
  OBVIOUS
<1> QED BY <1>1, <1>2 DEF VersionFiles, Files, Latest

\* Loading another file.
LEMMA BeginFacts ==
    ASSUME SeqInv, NEW k, NEW v, Begin(k, v), UNCHANGED <<tp2, work>>
    PROVE  /\ SeqInv' /\ pc' = "open" /\ Latest(tp'.read) = k /\ Replacing' = Replacing
           /\ tp'.read = Append(tp.read, File(k, v))
<1>1. /\ tp'.read = Append(tp.read, File(k, v))
      /\ tp' = [conf |-> tp'.conf, read |-> tp'.read, stored |-> tp'.stored]
      /\ tp'.stored = tp.stored
  BY DEF Begin, SeqInv
<1>2. IsSeq(tp.read) /\ StoredIn(tp)
  BY DEF SeqInv
<1>3. IsSeq(tp'.read) /\ Latest(tp'.read) = k /\ StoredIn(tp')
  <2>1. PICK f : f = File(k, v)
    OBVIOUS
  <2>2. PICK t : t = tp'
    OBVIOUS
  <2>3. StoredIn(t) /\ Latest(t.read) = f.kind
    BY <1>1, <1>2, <2>1, <2>2, StoredMore
  <2> QED BY <2>1, <2>2, <2>3 DEF StoredIn, File
<1>4. SeqInv'
  BY <1>1, <1>3 DEF SeqInv
<1> QED BY <1>1, <1>3, <1>4 DEF Begin, Replacing

-----------------------------------------------------------------------------
(* The steps                                                                 *)

LEMMA LoadSteps ==
    ASSUME ConfigInv, Open \/ EndOfFile \/ \E l \in Lines : ReadLine(l)
    PROVE  ConfigInv'
<1> USE DEF ConfigInv
<1>1. Loading /\ UNCHANGED <<packages, call, chosen, work>>
  BY DEF Open, EndOfFile, ReadLine, Loading
<1>2. tp'.read = tp.read /\ tp2'.read = tp2.read /\ SeqInv'
  <2>1. CASE Open \/ EndOfFile
    BY <2>1 DEF Open, EndOfFile, SeqInv
  <2>2. ASSUME NEW l \in Lines, ReadLine(l) PROVE tp'.read = tp.read /\ tp2'.read = tp2.read /\ SeqInv'
    <3>1. ASSUME NEW t, StoredIn(t), t = [conf |-> t.conf, read |-> t.read, stored |-> t.stored],
                 Reading = t, NEW q, q = Store(t, l)
          PROVE  /\ StoredIn(q) /\ q.read = t.read
                 /\ q = [conf |-> q.conf, read |-> q.read, stored |-> q.stored]
      <4>1. q.read = t.read /\ q.stored = t.stored \cup {t.read[Len(t.read)]}
            /\ q = [conf |-> q.conf, read |-> q.read, stored |-> q.stored]
        BY <3>1 DEF Store
      <4> QED BY <3>1, <4>1 DEF StoredIn, Files
    <3>2. \/ tp' = tp /\ tp2' = tp2
          \/ Reading = tp2 /\ tp2' = Store(tp2, l) /\ tp' = tp
          \/ Reading = tp /\ tp' = Store(tp, l) /\ tp2' = tp2
      BY <2>2 DEF ReadLine, Reading
    <3> QED BY <1>1, <3>1, <3>2 DEF SeqInv
  <2> QED BY <2>1, <2>2
<1>3. WorkOwn'
  BY <1>1 DEF WorkOwn
<1>4. Continue \/ pc' \in {"read", "failed"}
  BY DEF Open, EndOfFile, ReadLine
<1>5. PhaseInv'
  <2>1. Me' = Me /\ (Mine <=> Mine') /\ (Replacing <=> Replacing')
        /\ VersionFiles(tp'.read) = VersionFiles(tp.read)
        /\ VersionFiles(tp2'.read) = VersionFiles(tp2.read)
    BY <1>1, <1>2 DEF Me, Mine, Replacing
  <2>3. CASE Continue
    <3>1. CASE Replacing /\ pc' = "replace"
      BY <1>1, <2>1, <3>1 DEF PhaseInv, Loading
    <3>2. CASE ~Replacing /\ Latest(tp.read) = "system" /\ pc' = "init"
      BY <1>1, <2>1, <3>2 DEF PhaseInv, Loading
    <3>3. CASE ~Replacing /\ Latest(tp.read) = "user" /\ pc' = "act"
      BY <1>1, <2>1, <3>3 DEF PhaseInv, Loading
    <3>4. CASE ~Replacing /\ Latest(tp.read) = "version" /\ pc' = "gather"
      BY <1>1, <2>1, <3>4 DEF PhaseInv, Loading
    <3>5. ~Replacing => Latest(tp.read) \in {"system", "user", "version"}
      BY <1>1 DEF PhaseInv, ConfigInv
    <3> QED BY <2>3, <3>1, <3>2, <3>3, <3>4, <3>5 DEF Continue
  <2>2. CASE pc' \in {"read", "failed"}
    BY <1>1, <1>2, <2>1, <2>2 DEF PhaseInv, Loading
  <2> QED BY <1>4, <2>2, <2>3
<1> QED BY <1>2, <1>3, <1>5

\* Steps that read no file and work on nothing.
LEMMA PlainSteps ==
    ASSUME ConfigInv, UNCHANGED <<tp, tp2, work>>,
           \/ pc' \in {"done", "failed"}
           \/ pc \in {"init", "select"} /\ pc' = "select"
    PROVE  ConfigInv'
<1>1. SeqInv' /\ WorkOwn'
  BY DEF ConfigInv, SeqInv, WorkOwn
<1>2. PhaseInv'
  BY DEF ConfigInv, PhaseInv, Loading, Replacing
<1> QED BY <1>1, <1>2 DEF ConfigInv

LEMMA SelectStep ==
    ASSUME ConfigInv, Select
    PROVE  ConfigInv'
<1> USE DEF ConfigInv
<1>1. pc = "select" /\ UNCHANGED <<tp2, work>>
  BY DEF Select
<1>2. CASE pc' = "failed" /\ UNCHANGED tp
  BY <1>1, <1>2, PlainSteps
<1>3. CASE Begin("user", Empty)
  <2>1. VersionFiles(tp.read) = {} /\ ~Replacing
    BY <1>1 DEF PhaseInv
  <2>2. /\ SeqInv' /\ pc' = "open" /\ Latest(tp'.read) = "user" /\ ~Replacing'
        /\ tp'.read = Append(tp.read, File("user", Empty))
    BY <1>1, <1>3, <2>1, BeginFacts
  <2>4. VersionFiles(tp'.read) = {}
    <3>1. IsSeq(tp.read)
      BY DEF SeqInv
    <3>2. VersionFiles(tp'.read) = VersionFiles(tp.read)
      BY <2>2, <3>1, NoMoreVersion
    <3> QED BY <2>1, <3>2
  <2>3. PhaseInv'
    BY <2>2, <2>4 DEF PhaseInv, Loading
  <2> QED BY <1>1, <2>2, <2>3 DEF WorkOwn
<1> QED BY <1>2, <1>3 DEF Select

\* An operation is done, or begun: it is entered with the files of copy t.
LEMMA DidOwn ==
    ASSUME ConfigInv, NEW op, NEW v, NEW w, NEW sys, NEW t, Did(op, v, w, sys, t), StoredIn(t),
           VersionFiles(t.read) =
               IF op \in {"uninstall", "pack", "files"} THEN {File("version", v)} ELSE {}
    PROVE  WorkOwn' /\ IsSeq(work')
<1> DEFINE d == [op |-> op, name |-> chosen'.name, version |-> v, second |-> w,
                 system |-> sys, read |-> t.read, stored |-> t.stored]
<1>1. OwnFile(d) /\ work' = Append(work, d)
  BY DEF Did, OwnFile, StoredIn
<1> HIDE DEF d
<1> QED BY <1>1, OneMoreWork DEF ConfigInv

LEMMA QueryStep ==
    ASSUME ConfigInv, Query
    PROVE  ConfigInv'
<1>1. pc = "select" /\ UNCHANGED <<tp, tp2>> /\ pc' \in {"done", "failed", "select"}
  BY DEF Query
<1>2. VersionFiles(tp.read) = {}
  BY <1>1 DEF ConfigInv, PhaseInv
<1>3. (\E v : Did("answer", v, Empty, FALSE, tp)) \/ work' = work
  BY DEF Query
<1>4. WorkOwn' /\ IsSeq(work')
  <2>1. CASE work' = work
    BY <2>1 DEF ConfigInv, WorkOwn, SeqInv
  <2>2. ASSUME NEW v, Did("answer", v, Empty, FALSE, tp) PROVE WorkOwn' /\ IsSeq(work')
    BY <1>2, <2>2, DidOwn DEF ConfigInv, SeqInv
  <2> QED BY <1>3, <2>1, <2>2
<1>5. PhaseInv'
  BY <1>1 DEF ConfigInv, PhaseInv, Loading, Replacing
<1> QED BY <1>1, <1>4, <1>5 DEF ConfigInv, SeqInv

\* The commands that load the file of the version they name.
LEMMA OwnFileSteps ==
    ASSUME ConfigInv, Uninstall \/ Pack \/ Look
    PROVE  ConfigInv'
<1> USE DEF ConfigInv
<1>1. /\ pc = "act" /\ UNCHANGED <<tp2, call, chosen, work>>
      /\ call.action \in {"uninstall", "pack", "files", "config"}
  BY DEF Uninstall, Pack, Look, Is
<1>2. CASE pc' = "failed" /\ UNCHANGED tp
  BY <1>1, <1>2, PlainSteps
<1>3. CASE Begin("version", chosen.version)
  <2>1. VersionFiles(tp.read) = {} /\ ~Replacing
    BY <1>1 DEF PhaseInv
  <2>2. /\ SeqInv' /\ pc' = "open" /\ Latest(tp'.read) = "version" /\ ~Replacing'
        /\ tp'.read = Append(tp.read, File("version", chosen.version))
    BY <1>1, <1>3, <2>1, BeginFacts
  <2>4. VersionFiles(tp'.read) = {File("version", chosen.version)}
    <3>1. IsSeq(tp.read)
      BY DEF SeqInv
    <3>2. VersionFiles(tp'.read) = VersionFiles(tp.read) \cup {File("version", chosen.version)}
      BY <2>2, <3>1, OneMoreVersion
    <3> QED BY <2>1, <3>2
  <2>3. PhaseInv'
    BY <1>1, <2>2, <2>4 DEF PhaseInv, Loading, Mine
  <2> QED BY <1>1, <2>2, <2>3 DEF WorkOwn
<1> QED BY <1>2, <1>3 DEF Uninstall, Pack, Look

\* Installing over a version loads the file of that one, in a copy of the
\* configuration.
LEMMA InstallStep ==
    ASSUME ConfigInv, Install
    PROVE  ConfigInv'
<1> USE DEF ConfigInv
<1>1. /\ pc = "act" /\ UNCHANGED <<packages, tp, call, chosen, work>>
      /\ call.action = "install"
  BY DEF Install, Is
<1>2. VersionFiles(tp.read) = {} /\ ~Replacing
  BY <1>1 DEF PhaseInv
<1>3. CASE pc' \in {"done", "failed"} /\ UNCHANGED tp2
  BY <1>1, <1>3, PlainSteps
<1>4. CASE pc' = "run" /\ UNCHANGED tp2
  <2>1. PhaseInv'
    BY <1>1, <1>2, <1>4 DEF PhaseInv, Loading
  <2> QED BY <1>1, <1>4, <2>1 DEF SeqInv, WorkOwn
<1>5. CASE /\ pc' = "open"
           /\ tp2' = [tp EXCEPT !.read = Append(@, File("version", Me.current))]
  <2>1. /\ tp2'.read = Append(tp.read, File("version", Me.current))
        /\ tp2' = [conf |-> tp2'.conf, read |-> tp2'.read, stored |-> tp2'.stored]
        /\ tp2'.stored = tp.stored
    BY <1>5 DEF SeqInv
  <2>0. StoredIn(tp2')
    BY <2>1, StoredMore DEF SeqInv
  <2>2. VersionFiles(tp2'.read) = {File("version", Me.current)}
    <3>1. IsSeq(tp.read)
      BY DEF SeqInv
    <3>2. VersionFiles(tp2'.read) = VersionFiles(tp.read) \cup {File("version", Me.current)}
      BY <2>1, <3>1, OneMoreVersion
    <3> QED BY <1>2, <3>2
  <2>3. Replacing'
    BY <2>2, StartFiles DEF Replacing
  <2>4. Me' = Me
    BY <1>1 DEF Me
  <2>5. PhaseInv'
    BY <1>1, <1>2, <1>5, <2>2, <2>3, <2>4 DEF PhaseInv, Loading
  <2> QED BY <1>1, <2>0, <2>1, <2>5 DEF SeqInv, WorkOwn
<1> QED BY <1>3, <1>4, <1>5 DEF Install

LEMMA DiffStep ==
    ASSUME ConfigInv, Diff
    PROVE  ConfigInv'
<1>1. /\ pc = "act" /\ UNCHANGED <<packages, tp, tp2, call, chosen>>
      /\ pc' \in {"done", "failed"}
  BY DEF Diff, Is
<1>2. VersionFiles(tp.read) = {}
  BY <1>1 DEF ConfigInv, PhaseInv
<1>3. WorkOwn' /\ IsSeq(work')
  <2>1. (\E v, w, sys : Did("diff", v, w, sys, tp)) \/ work' = work
    BY DEF Diff
  <2>2. ASSUME NEW v, NEW w, NEW sys, Did("diff", v, w, sys, tp)
        PROVE  WorkOwn' /\ IsSeq(work')
    BY <1>2, <2>2, DidOwn DEF ConfigInv, SeqInv
  <2>3. CASE work' = work
    BY <2>3 DEF ConfigInv, WorkOwn, SeqInv
  <2> QED BY <2>1, <2>2, <2>3
<1>4. PhaseInv'
  BY <1>1 DEF ConfigInv, PhaseInv, Loading
<1> QED BY <1>1, <1>3, <1>4 DEF ConfigInv, SeqInv

LEMMA GatherStep ==
    ASSUME ConfigInv, Gather
    PROVE  ConfigInv'
<1>1. pc = "gather" /\ UNCHANGED <<packages, tp, tp2, call, chosen>>
  BY DEF Gather
<1>2. Mine /\ call.action \in {"uninstall", "pack", "files", "config"}
  BY <1>1 DEF ConfigInv, PhaseInv
<1>3. CASE call.action = "files"
  <2>1. Did("files", chosen.version, Empty, FALSE, tp) /\ pc' = "done"
    BY <1>3 DEF Gather
  <2>2. WorkOwn' /\ IsSeq(work')
    BY <1>2, <2>1, DidOwn DEF Mine, ConfigInv, SeqInv
  <2>3. PhaseInv'
    BY <2>1 DEF PhaseInv, Loading
  <2> QED BY <1>1, <2>2, <2>3 DEF ConfigInv, SeqInv
<1>4. CASE call.action # "files"
  <2>1. /\ work' = work
        /\ \/ pc' \in {"done", "failed"}
           \/ pc' = "run" /\ call.action # "config"
    BY <1>4 DEF Gather
  <2>2. CASE pc' \in {"done", "failed"}
    BY <1>1, <2>1, <2>2, PlainSteps
  <2>3. CASE pc' = "run" /\ call.action # "config"
    <3>1. Mine' /\ call'.action \in {"uninstall", "pack"}
      BY <1>1, <1>2, <1>4, <2>3 DEF Mine
    <3>2. PhaseInv'
      BY <2>3, <3>1 DEF PhaseInv, Loading
    <3> QED BY <1>1, <2>1, <3>2 DEF ConfigInv, SeqInv, WorkOwn
  <2> QED BY <2>1, <2>2, <2>3
<1> QED BY <1>3, <1>4

LEMMA ReplaceStep ==
    ASSUME ConfigInv, Replace
    PROVE  ConfigInv'
<1>1. /\ pc = "replace" /\ UNCHANGED <<tp, tp2, call, chosen>>
      /\ Did("uninstall", Me.current, Empty, FALSE, tp2)
      /\ pc' \in {"done", "failed", "run"}
  BY DEF Replace, Executes
<1>2. /\ call.action = "install" /\ VersionFiles(tp.read) = {}
      /\ VersionFiles(tp2.read) = {File("version", Me.current)}
  BY <1>1 DEF ConfigInv, PhaseInv
<1>3. WorkOwn' /\ IsSeq(work')
  BY <1>1, <1>2, DidOwn DEF ConfigInv, SeqInv
<1>4. PhaseInv'
  BY <1>1, <1>2 DEF PhaseInv, Loading
<1> QED BY <1>1, <1>3, <1>4 DEF ConfigInv, SeqInv

LEMMA RunStep ==
    ASSUME ConfigInv, Run
    PROVE  ConfigInv'
<1>1. /\ pc = "run" /\ UNCHANGED <<tp, tp2, call, chosen>>
      /\ Did(call.action, chosen.version, Empty, FALSE, tp)
      /\ pc' \in {"done", "failed"}
  BY DEF Run, RunPack, Executes
<1>2. VersionFiles(tp.read) =
          IF call.action \in {"uninstall", "pack", "files"}
          THEN {File("version", chosen.version)} ELSE {}
  BY <1>1 DEF ConfigInv, PhaseInv, Mine
<1>3. WorkOwn' /\ IsSeq(work')
  BY <1>1, <1>2, DidOwn DEF ConfigInv, SeqInv
<1>4. PhaseInv'
  BY <1>1 DEF PhaseInv, Loading
<1> QED BY <1>1, <1>3, <1>4 DEF ConfigInv, SeqInv

-----------------------------------------------------------------------------
(* The theorem                                                               *)

LEMMA ConfigInit == Init => ConfigInv
<1> SUFFICES ASSUME Init PROVE ConfigInv
  OBVIOUS
<1>1. IsSeq(StartTP.read) /\ IsSeq(<<>>)
  <2>1. StartTP.read \in Seq({File("system", Empty)}) /\ <<>> \in Seq({})
    BY DEF StartTP
  <2> QED BY <2>1 DEF IsSeq
<1>2. /\ StartTP = [conf |-> StartTP.conf, read |-> StartTP.read, stored |-> StartTP.stored]
      /\ StoredIn(StartTP)
  <2>1. Len(StartTP.read) \in DOMAIN StartTP.read /\ StartTP.stored = {}
    BY DEF StartTP
  <2> QED BY <1>1, <2>1 DEF StartTP, StoredIn
<1>3. SeqInv /\ WorkOwn
  BY <1>1, <1>2 DEF Init, SeqInv, WorkOwn
<1>4. PhaseInv
  BY StartFiles DEF Init, PhaseInv, Loading, Replacing
<1> QED BY <1>3, <1>4 DEF ConfigInv

LEMMA ConfigInductive ==
    ASSUME ConfigInv, [Next]_vars
    PROVE  ConfigInv'
<1>1. CASE UNCHANGED vars
  BY <1>1 DEF vars, ConfigInv, PhaseInv, SeqInv, WorkOwn, Loading, Replacing, Mine, Me
<1>2. CASE Next
  <2>1. Finished => UNCHANGED vars
    BY DEF Finished
  <2>2. ParseArguments \/ ListAll \/ RefuseWords \/ ShowConfig => ConfigInv'
    <3>1. ParseArguments \/ ListAll \/ RefuseWords \/ ShowConfig =>
            /\ UNCHANGED <<tp, tp2, work>>
            /\ \/ pc' \in {"done", "failed"}
               \/ pc \in {"init", "select"} /\ pc' = "select"
      BY DEF ParseArguments, ListAll, RefuseWords, ShowConfig
    <3> QED BY <3>1, PlainSteps
  <2> QED BY <1>1, <1>2, <2>1, <2>2, LoadSteps, SelectStep, QueryStep, OwnFileSteps,
             InstallStep, DiffStep, GatherStep, ReplaceStep, RunStep DEF Next, Step
<1> QED BY <1>1, <1>2

LEMMA WorkOwnImplies == WorkOwn => OwnConfiguration
BY DEF WorkOwn, OwnFile, VersionFiles, Files, OwnConfiguration

\* Whatever the packages, the words, the lines of the files and their number: an
\* operation that removes, packs or lists a version has read the configuration file
\* of that version and of no other one, and the other operations of none; and lines
\* are stored in no copy but the one the file was read into.
THEOREM OwnFiles == Spec => []OwnConfiguration
BY ConfigInit, ConfigInductive, WorkOwnImplies, PTL DEF Spec, ConfigInv

-----------------------------------------------------------------------------
(* What the words name                                                       *)

Word == [name : STRING, colon : BOOLEAN, version : STRING]
Own == getDefaultPackageName

\* getVersion takes the next word, or the default if there is none.
NextVersion(s, n, rest, flag) ==
    /\ s.version # Empty
    /\ IF rest = <<>> THEN s.version = Default(flag, Pkg(n)) /\ s.rest = <<>>
       ELSE s.version = Text(Head(rest)) /\ s.rest = Tail(rest)

LEMMA NextWords ==
    ASSUME NEW a \in Seq(Word), a # <<>>
    PROVE  Head(a) \in Word /\ Tail(a) \in Seq(Word) /\ Len(Tail(a)) <= Len(a) /\ Head(a) = a[1]
OBVIOUS

LEMMA RefuseFacts ==
    ASSUME NEW n
    PROVE  Refuse(n).ok = FALSE /\ Refuse(n).rest = <<>> /\ Refuse(n).name = n /\ Refuse(n).second = Empty
BY DEF Refuse, NoChoice

\* What every choice is, whatever the words a are.
Choice(s, a) ==
    /\ s.ok \in BOOLEAN /\ s.second = Empty /\ s.rest \in Seq(Word) /\ Len(s.rest) <= Len(a)
    /\ s.ok => s = Take(s.name, s.version, s.rest)

LEMMA RefusedChoice ==
    ASSUME NEW n, NEW a \in Seq(Word), NEW s, s = Refuse(n)
    PROVE  Choice(s, a) /\ ~s.ok /\ s.name = n
<1>1. s.ok = FALSE /\ s.rest = <<>> /\ s.name = n /\ s.second = Empty
  BY RefuseFacts
<1>2. Len(s.rest) <= Len(a)
  BY <1>1
<1>3. s.rest \in Seq(Word)
  BY <1>1
<1> QED BY <1>1, <1>2, <1>3 DEF Choice

LEMMA TakenChoice ==
    ASSUME NEW n, NEW v, NEW a, NEW r \in Seq(Word), Len(r) <= Len(a), NEW s, s = Take(n, v, r)
    PROVE  Choice(s, a) /\ s.ok /\ s.name = n /\ s.version = v /\ s.rest = r
<1>1. s.ok = TRUE /\ s.name = n /\ s.version = v /\ s.rest = r /\ s.second = Empty
  BY DEF Take
<1> QED BY <1>1 DEF Choice

LEMMA ShorterChoice ==
    ASSUME NEW a \in Seq(Word), NEW b \in Seq(Word), Len(b) <= Len(a), NEW s, Choice(s, b)
    PROVE  Choice(s, a)
<1>1. s.rest \in Seq(Word) /\ Len(s.rest) <= Len(b)
  BY DEF Choice
<1>2. Len(s.rest) \in Nat /\ Len(a) \in Nat /\ Len(b) \in Nat
  BY <1>1
<1>3. Len(s.rest) <= Len(a)
  BY <1>1, <1>2
<1> QED BY <1>3 DEF Choice

\* The version that is taken from the words rest exists if it must.
Versioned(s, n, rest, flag, must) ==
    NextVersion(s, n, rest, flag) /\ (must => s.version \in Pkg(n).versions)

LEMMA GetVersionFacts ==
    ASSUME NEW n, NEW rest \in Seq(Word), NEW flag, NEW must,
           NEW s, s = getVersion(n, rest, flag, must)
    PROVE  Choice(s, rest) /\ s.name = n /\ (s.ok => Versioned(s, n, rest, flag, must))
<1> DEFINE v == IF rest = <<>> THEN Default(flag, Pkg(n)) ELSE Text(Head(rest))
           r == IF rest = <<>> THEN rest ELSE Tail(rest)
<1>1. s = IF v = Empty \/ (must /\ v \notin Pkg(n).versions) THEN Refuse(n) ELSE Take(n, v, r)
  BY DEF getVersion
<1>2. r \in Seq(Word) /\ Len(r) <= Len(rest) /\ Len(rest) \in Nat
  BY NextWords
<1>3. v = IF rest = <<>> THEN Default(flag, Pkg(n)) ELSE Text(Head(rest))
  OBVIOUS
<1>4. r = IF rest = <<>> THEN <<>> ELSE Tail(rest)
  OBVIOUS
<1> HIDE DEF v, r
<1>5. CASE s = Refuse(n)
  BY <1>5, RefusedChoice
<1>6. CASE s = Take(n, v, r) /\ v # Empty /\ (must => v \in Pkg(n).versions)
  <2>1. Choice(s, rest) /\ s.ok /\ s.name = n /\ s.version = v /\ s.rest = r
    BY <1>2, <1>6, TakenChoice
  <2> QED BY <1>3, <1>4, <1>6, <2>1 DEF NextVersion, Versioned
<1> QED BY <1>1, <1>5, <1>6

\* The package n was opened and the version taken from the words rest.
Opened(s, n, rest, flag, must) ==
    /\ s.name = n /\ Opens(n)
    /\ flag = "NONE_NEEDED" => s.version = Empty /\ s.rest = rest
    /\ flag # "NONE_NEEDED" => Versioned(s, n, rest, flag, must)

LEMMA PackageVersionFacts ==
    ASSUME NEW n, NEW rest \in Seq(Word), NEW flag, NEW must,
           NEW s, s = PackageAndVersion(n, rest, flag, must)
    PROVE  /\ Choice(s, rest)
           /\ s.ok => Opened(s, n, rest, flag, must)
<1>1. CASE ~Opens(n)
  <2>1. s = Refuse(Empty)
    BY <1>1 DEF PackageAndVersion
  <2> QED BY <2>1, RefusedChoice
<1>2. CASE Opens(n) /\ flag = "NONE_NEEDED"
  <2>1. s = Take(n, Empty, rest)
    BY <1>2 DEF PackageAndVersion
  <2>2. Len(rest) <= Len(rest)
    OBVIOUS
  <2>3. Choice(s, rest) /\ s.name = n /\ s.version = Empty /\ s.rest = rest
    BY <2>1, <2>2, TakenChoice
  <2> QED BY <1>2, <2>3 DEF Opened
<1>3. CASE Opens(n) /\ flag # "NONE_NEEDED"
  <2>1. s = getVersion(n, rest, flag, must)
    BY <1>3 DEF PackageAndVersion
  <2>2. Choice(s, rest) /\ s.name = n /\ (s.ok => Versioned(s, n, rest, flag, must))
    BY <2>1, GetVersionFacts
  <2> QED BY <1>3, <2>2 DEF Opened
<1> QED BY <1>1, <1>2, <1>3

\* The ways in which the words a name a package and a version.
Says(s, a, flag) ==
    LET w == Head(a) IN
    \/ /\ a = <<>> /\ Own # Empty /\ s.name = Own
       /\ IF flag = "NONE_NEEDED" THEN s.version = Empty /\ s.rest = <<>>
          ELSE NextVersion(s, Own, <<>>, flag)
    \/ /\ a # <<>> /\ w.colon /\ s.name = w.name /\ s.version = w.version /\ s.rest = Tail(a)
    \/ /\ a # <<>> /\ ~w.colon /\ flag # "NONE_NEEDED" /\ Own # Empty /\ s.name = Own
       /\ NextVersion(s, Own, a, flag)
    \/ /\ a # <<>> /\ ~w.colon /\ s.name = w.name
       /\ IF flag = "NONE_NEEDED" THEN s.version = Empty /\ s.rest = Tail(a)
          ELSE NextVersion(s, w.name, Tail(a), flag)

LEMMA GetPackageFacts ==
    ASSUME NEW a \in Seq(Word), NEW flag, NEW must,
           NEW s, s = getPackage(a, flag, must)
    PROVE  /\ Choice(s, a)
           /\ s.ok => /\ Opens(s.name) /\ Says(s, a, flag)
                      /\ must /\ flag # "NONE_NEEDED" => s.version \in Pkg(s.name).versions
<1>1. CASE a = <<>>
  <2>1. CASE Own # Empty
    <3>1. s = PackageAndVersion(Own, <<>>, flag, must)
      BY <1>1, <2>1 DEF getPackage, Own
    <3>2. <<>> \in Seq(Word)
      OBVIOUS
    <3>3. /\ Choice(s, a)
          /\ s.ok => Opened(s, Own, a, flag, must)
      BY <1>1, <3>1, <3>2, PackageVersionFacts
    <3> QED BY <1>1, <2>1, <3>3 DEF Says, Opened, Versioned
  <2>2. CASE Own = Empty
    <3>1. s = Refuse(Empty)
      BY <1>1, <2>2 DEF getPackage, Own
    <3> QED BY <3>1, RefusedChoice
  <2> QED BY <2>1, <2>2
<1>2. ASSUME a # <<>>, NEW w, w = Head(a), NEW t, t = Tail(a)
      PROVE  /\ Choice(s, a)
             /\ s.ok => /\ Opens(s.name) /\ Says(s, a, flag)
                        /\ must /\ flag # "NONE_NEEDED" => s.version \in Pkg(s.name).versions
  <2>0. t \in Seq(Word) /\ Len(t) <= Len(a)
    BY <1>2, NextWords
  <2>1. CASE w.colon
    <3>1. \/ s = Refuse(Empty) \/ s = Refuse(w.name)
          \/ /\ s = Take(w.name, w.version, t) /\ Opens(w.name)
             /\ must => w.version \in Pkg(w.name).versions
      BY <1>2, <2>1 DEF getPackage
    <3>2. CASE s = Refuse(Empty) \/ s = Refuse(w.name)
      BY <3>2, RefusedChoice
    <3>3. CASE /\ s = Take(w.name, w.version, t) /\ Opens(w.name)
               /\ must => w.version \in Pkg(w.name).versions
      <4>1. Choice(s, a) /\ s.name = w.name /\ s.version = w.version /\ s.rest = t
        BY <2>0, <3>3, TakenChoice
      <4> QED BY <1>2, <2>1, <3>3, <4>1 DEF Says
    <3> QED BY <3>1, <3>2, <3>3
  <2>2. CASE ~w.colon
    <3>1. \/ s = PackageAndVersion(Own, a, flag, must) /\ Own # Empty /\ flag # "NONE_NEEDED"
          \/ s = PackageAndVersion(w.name, t, flag, must)
      BY <1>2, <2>2 DEF getPackage, Own
    <3>2. CASE s = PackageAndVersion(Own, a, flag, must) /\ Own # Empty /\ flag # "NONE_NEEDED"
      <4>1. /\ Choice(s, a)
            /\ s.ok => Opened(s, Own, a, flag, must)
        BY <3>2, PackageVersionFacts
      <4> QED BY <1>2, <2>2, <3>2, <4>1 DEF Says, Opened, Versioned
    <3>3. CASE s = PackageAndVersion(w.name, t, flag, must)
      <4>1. /\ Choice(s, t)
            /\ s.ok => Opened(s, w.name, t, flag, must)
        BY <2>0, <3>3, PackageVersionFacts
      <4>2. Choice(s, a)
        BY <2>0, <4>1, ShorterChoice
      <4> QED BY <1>2, <2>2, <4>1, <4>2 DEF Says, Opened, Versioned
    <3> QED BY <3>1, <3>2, <3>3
  <2> QED BY <2>1, <2>2
<1> QED BY <1>1, <1>2

Texts(a) == [i \in DOMAIN a |-> Text(a[i])]

LEMMA NoTexts ==
    ASSUME NEW a, a = <<>>
    PROVE  Texts(a) = <<>>
BY DEF Texts

LEMMA TailLength ==
    ASSUME NEW W, NEW a \in Seq(W), a # <<>>
    PROVE  /\ Tail(a) \in Seq(W) /\ Len(a) \in Nat /\ Len(a) = Len(Tail(a)) + 1
           /\ Head(a) = a[1] /\ \A i \in 1 .. Len(Tail(a)) : Tail(a)[i] = a[i + 1]
<1>1. Tail(a) \in Seq(W) /\ Len(Tail(a)) = Len(a) - 1
      /\ \A i \in 1 .. Len(Tail(a)) : Tail(a)[i] = a[i + 1]
  BY HeadTailProperties
<1>2. Len(a) \in Nat /\ Head(a) = a[1]
  OBVIOUS
<1> QED BY <1>1, <1>2

LEMMA SingleLength ==
    ASSUME NEW W, NEW a \in Seq(W), a # <<>>, Tail(a) = <<>>
    PROVE  Len(a) = 1 /\ Head(a) = a[1]
<1>0. \A s : s = <<>> => Len(s) = 0
  OBVIOUS
<1>1. Len(Tail(a)) = 0
  BY <1>0
<1>2. Len(a) = Len(Tail(a)) + 1 /\ Head(a) = a[1]
  BY TailLength
<1> QED BY <1>1, <1>2

LEMMA OneText ==
    ASSUME NEW W, NEW a \in Seq(W), a # <<>>, Tail(a) = <<>>
    PROVE  Texts(a) = <<Text(Head(a))>>
<1>1. Len(a) = 1 /\ Head(a) = a[1] /\ DOMAIN a = 1 .. Len(a)
  BY SingleLength, LenProperties
<1> QED BY <1>1 DEF Texts

LEMMA TwoTexts ==
    ASSUME NEW W, NEW a \in Seq(W), a # <<>>, Tail(a) # <<>>, Tail(Tail(a)) = <<>>
    PROVE  Texts(a) = <<Text(Head(a)), Text(Head(Tail(a)))>>
<1> DEFINE b == Tail(a)
<1>1. b \in Seq(W) /\ Len(a) = Len(b) + 1 /\ Head(a) = a[1] /\ b[1] = a[2] /\ DOMAIN a = 1 .. Len(a)
  BY TailLength, EmptySeq, LenProperties
<1>2. Len(b) = 1 /\ Head(b) = b[1]
  BY <1>1, SingleLength
<1> HIDE DEF b
<1>3. Len(a) = 2 /\ Head(a) = a[1] /\ Head(b) = a[2] /\ DOMAIN a = 1 .. 2
  BY <1>1, <1>2
<1>4. Texts(a) = <<Text(Head(a)), Text(Head(b))>>
  BY <1>3 DEF Texts
<1> QED BY <1>4 DEF b

LEMMA ThreeTexts ==
    ASSUME NEW W, NEW a \in Seq(W), a # <<>>, Tail(a) # <<>>, Tail(Tail(a)) # <<>>,
           Tail(Tail(Tail(a))) = <<>>
    PROVE  Texts(a) = <<Text(Head(a)), Text(Head(Tail(a))), Text(Head(Tail(Tail(a))))>>
<1> DEFINE b == Tail(a)
           c == Tail(b)
<1>1. b \in Seq(W) /\ Len(a) = Len(b) + 1 /\ Head(a) = a[1] /\ DOMAIN a = 1 .. Len(a)
      /\ \A i \in 1 .. Len(b) : b[i] = a[i + 1]
  BY TailLength, LenProperties
<1>2. c \in Seq(W) /\ Len(b) = Len(c) + 1 /\ Head(b) = b[1]
      /\ \A i \in 1 .. Len(c) : c[i] = b[i + 1]
  BY <1>1, TailLength
<1>3. Len(c) = 1 /\ Head(c) = c[1]
  BY <1>2, SingleLength
<1> HIDE DEF b, c
<1>4. Len(a) = 3 /\ Head(a) = a[1] /\ Head(b) = a[2] /\ Head(c) = a[3] /\ DOMAIN a = 1 .. 3
  BY <1>1, <1>2, <1>3
<1>5. Texts(a) = <<Text(Head(a)), Text(Head(b)), Text(Head(c))>>
  BY <1>4 DEF Texts
<1> QED BY <1>5 DEF b, c

LEMMA Joins ==
    ASSUME NEW x, NEW y
    PROVE  <<x>> \o <<>> = <<x>> /\ <<x>> \o <<y>> = <<x, y>>
<1> DEFINE S == {x, y}
<1>1. <<x>> \in Seq(S) /\ <<y>> \in Seq(S)
  OBVIOUS
<1>2. <<x>> \o <<>> = <<x>>
  BY <1>1, ConcatEmptySeq
<1>3. /\ <<x>> \o <<y>> \in Seq(S) /\ Len(<<x>> \o <<y>>) = 2
      /\ (<<x>> \o <<y>>)[1] = x /\ (<<x>> \o <<y>>)[2] = y
  BY <1>1, ConcatProperties
<1>4. <<x, y>> \in Seq(S) /\ Len(<<x, y>>) = 2 /\ <<x, y>>[1] = x /\ <<x, y>>[2] = y
  OBVIOUS
<1> HIDE DEF S
<1>5. \A s, t \in Seq(S) : Len(s) = 2 /\ Len(t) = 2 /\ s[1] = t[1] /\ s[2] = t[2] => s = t
  BY SeqEqual
<1>6. <<x>> \o <<y>> = <<x, y>>
  BY <1>3, <1>4, <1>5
<1> QED BY <1>2, <1>6

\* What every command's choice is.
Chosen(s, a) ==
    /\ s.ok \in BOOLEAN /\ s.rest \in Seq(Word) /\ Len(s.rest) <= Len(a)
    /\ s.ok => Opens(s.name)

\* --pack takes a single word as the version.
SaysPack(s, a) ==
    \/ /\ a # <<>> /\ Tail(a) = <<>> /\ ~Head(a).colon /\ Own # Empty
       /\ s = Take(Own, Head(a).name, <<>>)
    \/ Says(s, a, "NO_DEFAULT") /\ s.second = Empty

\* --diff takes what follows the package: the version that was not in its word, and
\* the second version.
SaysTwo(s, a) ==
    \E t, v, r :
       /\ t.ok /\ Choice(t, a) /\ Says(t, a, "NONE_NEEDED") /\ s.name = t.name
       /\ \/ s = t /\ t.rest = <<>>
          \/ /\ t.rest # <<>>
             /\ IF t.version = Empty THEN v = Text(Head(t.rest)) /\ r = Tail(t.rest)
                ELSE v = t.version /\ r = t.rest
             /\ v # Empty /\ s.version = v
             /\ \/ r = <<>> /\ s.second = Empty /\ s.rest = r
                \/ /\ r # <<>> /\ s.second # Empty
                   /\ s.second = Text(Head(r)) /\ s.rest = Tail(r)

LEMMA PackFacts ==
    ASSUME NEW a \in Seq(Word), NEW s, s = getPackage2(a)
    PROVE  Chosen(s, a) /\ (s.ok => SaysPack(s, a))
<1>1. CASE Len(a) = 1 /\ ~a[1].colon /\ Own # Empty
  <2>1. a # <<>> /\ Tail(a) = <<>> /\ Head(a) = a[1]
    <3>1. a # <<>>
      BY <1>1, EmptySeq
    <3>2. Tail(a) \in Seq(Word) /\ Len(Tail(a)) = 0 /\ Head(a) = a[1]
      BY <1>1, <3>1, TailLength
    <3> QED BY <3>1, <3>2, EmptySeq
  <2>2. s = IF Opens(Own) THEN Take(Own, Head(a).name, <<>>) ELSE Refuse(Empty)
    BY <1>1, <2>1 DEF getPackage2, Own
  <2>3. CASE Opens(Own)
    <3>1. PICK r : r = <<>>
      OBVIOUS
    <3>2. r \in Seq(Word) /\ Len(r) <= Len(a)
      BY <1>1, <3>1, EmptySeq
    <3>4. s = Take(Own, Head(a).name, r)
      BY <2>2, <2>3, <3>1
    <3>3. Choice(s, a) /\ s.ok /\ s.name = Own
      BY <3>4, <3>2, TakenChoice
    <3> QED BY <1>1, <2>1, <2>3, <3>1, <3>4, <3>3 DEF Chosen, Choice, SaysPack
  <2>4. CASE ~Opens(Own)
    BY <2>2, <2>4, RefusedChoice DEF Chosen, Choice
  <2> QED BY <2>3, <2>4
<1>2. CASE ~(Len(a) = 1 /\ ~a[1].colon /\ Own # Empty)
  <2>1. s = getPackage(a, "NO_DEFAULT", FALSE)
    BY <1>2 DEF getPackage2, Own
  <2>2. Choice(s, a) /\ (s.ok => Opens(s.name) /\ Says(s, a, "NO_DEFAULT"))
    BY <2>1, GetPackageFacts
  <2> QED BY <2>2 DEF Chosen, Choice, SaysPack
<1> QED BY <1>1, <1>2

LEMMA Lengths ==
    ASSUME NEW a \in Seq(Word), NEW b \in Seq(Word), NEW c \in Seq(Word),
           Len(c) <= Len(b), Len(b) <= Len(a)
    PROVE  Len(c) <= Len(a)
<1>1. Len(a) \in Nat /\ Len(b) \in Nat /\ Len(c) \in Nat
  OBVIOUS
<1> QED BY <1>1

LEMMA TwoFacts ==
    ASSUME NEW a \in Seq(Word), NEW s, s = getPackageAndTwo(a)
    PROVE  Chosen(s, a) /\ (s.ok => SaysTwo(s, a))
<1>1. PICK t : t = getPackage(a, "NONE_NEEDED", FALSE)
  OBVIOUS
<1>2. Choice(t, a) /\ (t.ok => Opens(t.name) /\ Says(t, a, "NONE_NEEDED"))
  BY <1>1, GetPackageFacts
<1>3. t.ok \in BOOLEAN /\ t.rest \in Seq(Word) /\ Len(t.rest) <= Len(a) /\ t.second = Empty
  BY <1>2 DEF Choice
<1>4. PICK b : b = t.rest
  OBVIOUS
<1>5. PICK n : n = t.name
  OBVIOUS
<1>6. PICK q : q = getVersion(n, b, "NO_DEFAULT", FALSE)
  OBVIOUS
<1>7. Choice(q, b) /\ q.name = n /\ (q.ok => Versioned(q, n, b, "NO_DEFAULT", FALSE))
  <2>1. b \in Seq(Word)
    BY <1>3, <1>4
  <2> QED BY <1>6, <2>1, GetVersionFacts
<1>8. PICK one : one = IF t.version = Empty THEN q ELSE t
  OBVIOUS
<1>9. one.ok \in BOOLEAN /\ one.rest \in Seq(Word) /\ Len(one.rest) <= Len(a)
  BY <1>3, <1>4, <1>7, <1>8, Lengths DEF Choice
<1>10. PICK c : c = one.rest
  OBVIOUS
<1>11. PICK two : two = getVersion(n, c, "NO_DEFAULT", FALSE)
  OBVIOUS
<1>12. Choice(two, c) /\ two.name = n /\ (two.ok => Versioned(two, n, c, "NO_DEFAULT", FALSE))
  <2>1. c \in Seq(Word)
    BY <1>9, <1>10
  <2> QED BY <1>11, <2>1, GetVersionFacts
<1>13. s = IF ~t.ok \/ b = <<>> THEN t
           ELSE IF ~one.ok \/ c = <<>> THEN one
           ELSE IF ~two.ok THEN two
           ELSE [two EXCEPT !.version = one.version, !.second = two.version]
  BY <1>1, <1>4, <1>5, <1>6, <1>8, <1>10, <1>11 DEF getPackageAndTwo
<1>14. CASE ~t.ok \/ b = <<>>
  BY <1>2, <1>3, <1>4, <1>13, <1>14 DEF Chosen, SaysTwo
<1>15. CASE t.ok /\ b # <<>> /\ ~one.ok
  <2>1. s = one
    BY <1>13, <1>15
  <2> QED BY <1>9, <1>15, <2>1 DEF Chosen
<1>16. CASE t.ok /\ b # <<>> /\ one.ok
  <2>1. PICK v : v = one.version
    OBVIOUS
  <2>2. /\ v # Empty /\ Opens(n) /\ one.name = n /\ one.second = Empty
        /\ IF t.version = Empty THEN v = Text(Head(b)) /\ c = Tail(b) ELSE v = t.version /\ c = b
    <3>1. CASE t.version = Empty
      BY <1>2, <1>5, <1>7, <1>8, <1>10, <1>16, <2>1, <3>1 DEF Versioned, NextVersion, Choice
    <3>2. CASE t.version # Empty
      BY <1>2, <1>3, <1>4, <1>5, <1>8, <1>10, <1>16, <2>1, <3>2
    <3> QED BY <3>1, <3>2
  <2>3. CASE c = <<>>
    <3>1. s = one
      BY <1>13, <1>16, <2>3
    <3>2. Chosen(s, a)
      BY <1>9, <2>2, <3>1 DEF Chosen
    <3> QED BY <1>2, <1>4, <1>5, <1>10, <1>16, <2>1, <2>2, <2>3, <3>1, <3>2 DEF SaysTwo
  <2>4. CASE c # <<>> /\ ~two.ok
    <3>1. s = two
      BY <1>13, <1>16, <2>4
    <3>2. two.ok \in BOOLEAN /\ two.rest \in Seq(Word) /\ Len(two.rest) <= Len(c)
      BY <1>12 DEF Choice
    <3>3. Len(two.rest) <= Len(a)
      BY <1>9, <1>10, <3>2, Lengths
    <3> QED BY <2>4, <3>1, <3>2, <3>3 DEF Chosen
  <2>5. CASE c # <<>> /\ two.ok
    <3>1. s = [two EXCEPT !.version = v, !.second = two.version]
      BY <1>13, <1>16, <2>1, <2>5
    <3>2. two = Take(n, two.version, two.rest)
      BY <1>12, <2>5 DEF Choice
    <3>3. /\ s.ok = TRUE /\ s.name = n /\ s.version = v /\ s.second = two.version
          /\ s.rest = two.rest
      BY <3>1, <3>2 DEF Take
    <3>4. two.version # Empty /\ two.version = Text(Head(c)) /\ two.rest = Tail(c)
      BY <1>12, <2>5 DEF Versioned, NextVersion
    <3>5. two.rest \in Seq(Word) /\ Len(two.rest) <= Len(c)
      BY <1>12 DEF Choice
    <3>6. Chosen(s, a)
      BY <1>9, <1>10, <2>2, <3>3, <3>5, Lengths DEF Chosen
    <3> QED BY <1>2, <1>4, <1>5, <1>16, <2>2, <2>5, <3>3, <3>4, <3>6 DEF SaysTwo
  <2> QED BY <2>3, <2>4, <2>5
<1> QED BY <1>14, <1>15, <1>16

\* The words a say what the command chose.
SaysSelected(s, a) ==
    CASE call.action = "install" ->
           Says(s, a, "CURRENT") /\ s.second = Empty /\ s.version \in Pkg(s.name).versions
      [] call.action = "uninstall" ->
           Says(s, a, "INSTALLED") /\ s.second = Empty /\ s.version \in Pkg(s.name).versions
      [] call.action = "files" -> TRUE
      [] call.action = "diff" -> SaysTwo(s, a)
      [] call.action = "pack" -> SaysPack(s, a)
      [] OTHER -> Says(s, a, "NONE_NEEDED") /\ s.second = Empty

LEMMA SelectedFacts ==
    ASSUME args \in Seq(Word), NEW s, s = Selected
    PROVE  Chosen(s, args) /\ (s.ok => SaysSelected(s, args))
<1>1. ASSUME NEW flag, NEW must, s = getPackage(args, flag, must)
      PROVE  /\ Chosen(s, args) /\ s.second = Empty
             /\ s.ok => /\ Says(s, args, flag)
                        /\ must /\ flag # "NONE_NEEDED" => s.version \in Pkg(s.name).versions
  <2>1. /\ Choice(s, args)
        /\ s.ok => /\ Opens(s.name) /\ Says(s, args, flag)
                   /\ must /\ flag # "NONE_NEEDED" => s.version \in Pkg(s.name).versions
    BY <1>1, GetPackageFacts
  <2> QED BY <2>1 DEF Choice, Chosen
<1>8. ASSUME NEW flag, flag # "NONE_NEEDED", NEW must, must, s = getPackage(args, flag, must)
      PROVE  s.ok => s.version \in Pkg(s.name).versions
  BY <1>1, <1>8
<1>9. PICK yes : yes = TRUE
  OBVIOUS
<1>2. CASE call.action = "install"
  <2>1. s = getPackage(args, "CURRENT", yes)
    BY <1>9, <1>2 DEF Selected
  <2>2. s.ok => s.version \in Pkg(s.name).versions
    BY <1>8, <1>9, <2>1
  <2> QED BY <1>1, <1>2, <2>1, <2>2 DEF SaysSelected
<1>3. CASE call.action = "uninstall"
  <2>1. s = getPackage(args, "INSTALLED", yes)
    BY <1>9, <1>3 DEF Selected
  <2>2. s.ok => s.version \in Pkg(s.name).versions
    BY <1>8, <1>9, <2>1
  <2> QED BY <1>1, <1>3, <2>1, <2>2 DEF SaysSelected
<1>4. CASE call.action = "files"
  <2>1. s = getPackage(args, "INSTALLED_OR_CURRENT", TRUE)
    BY <1>4 DEF Selected
  <2> QED BY <1>1, <1>4, <2>1 DEF SaysSelected
<1>5. CASE call.action = "diff"
  BY <1>5, TwoFacts DEF SaysSelected, Selected
<1>6. CASE call.action = "pack"
  BY <1>6, PackFacts DEF SaysSelected, Selected
<1>7. CASE call.action \notin {"install", "uninstall", "files", "diff", "pack"}
  <2>1. s = getPackage(args, "NONE_NEEDED", FALSE)
    BY <1>7 DEF Selected
  <2> QED BY <1>1, <1>7, <2>1 DEF SaysSelected
<1> QED BY <1>2, <1>3, <1>4, <1>5, <1>6, <1>7

\* A word <pkg>:<version> has a version.
NamedVersions == \A a \in WordLists : \A i \in DOMAIN a : a[i].colon => a[i].version # Empty
Named(a) == \A i \in DOMAIN a : a[i].colon => a[i].version # Empty

Joined(n, v) == IF v = Empty THEN {} ELSE {<<n \o ":" \o v>>}

LEMMA Spellings ==
    ASSUME NEW n, NEW given, NEW g \in given
    PROVE  /\ <<n>> \o g \in Spelled(n, given)
           /\ n = Own => g \in Spelled(n, given)
BY DEF Spelled, Own

LEMMA HeadNamed ==
    ASSUME NEW a \in Seq(Word), a # <<>>, Named(a), Head(a).colon
    PROVE  Head(a).version # Empty /\ Text(Head(a)) = Head(a).name \o ":" \o Head(a).version
<1>1. Head(a) = a[1] /\ 1 \in DOMAIN a
  BY TailLength
<1> QED BY <1>1 DEF Named, Text

LEMMA PlainText == ASSUME NEW w, ~w.colon PROVE Text(w) = w.name
BY DEF Text

\* Words that name one package and one version, or leave out what has a default.
LEMMA OneVersion ==
    ASSUME NEW a \in Seq(Word), Named(a), NEW s, NEW flag, flag # "NONE_NEEDED",
           Says(s, a, flag), s.rest = <<>>, NEW given, <<s.version>> \in given,
           s.version # Empty /\ s.version = Default(flag, Pkg(s.name)) => <<>> \in given
    PROVE  Texts(a) \in Spelled(s.name, given) \cup Joined(s.name, s.version)
<1>1. CASE a = <<>>
  <2>1. s.name = Own /\ NextVersion(s, Own, <<>>, flag)
    BY <1>1 DEF Says
  <2>2. <<>> \in given
    BY <2>1 DEF NextVersion
  <2> QED BY <1>1, <2>1, <2>2, NoTexts, Spellings
<1>2. CASE a # <<>> /\ Head(a).colon /\ s.name = Head(a).name /\ s.version = Head(a).version
           /\ s.rest = Tail(a)
  <2>1. Texts(a) = <<Text(Head(a))>>
    BY <1>2, OneText
  <2>2. s.version # Empty /\ Texts(a) = <<s.name \o ":" \o s.version>>
    BY <1>2, <2>1, HeadNamed
  <2> QED BY <2>2 DEF Joined
<1>3. CASE a # <<>> /\ ~Head(a).colon /\ s.name = Own /\ NextVersion(s, Own, a, flag)
  <2>1. Tail(a) = <<>> /\ s.version = Text(Head(a))
    BY <1>3 DEF NextVersion
  <2>2. Texts(a) = <<s.version>>
    BY <1>3, <2>1, OneText
  <2> QED BY <1>3, <2>2, Spellings
<1>4. CASE a # <<>> /\ ~Head(a).colon /\ s.name = Head(a).name
           /\ NextVersion(s, Head(a).name, Tail(a), flag)
  <2>0. Text(Head(a)) = s.name
    BY <1>4, PlainText
  <2>1. CASE Tail(a) = <<>>
    <3>1. <<>> \in given
      BY <1>4, <2>1 DEF NextVersion
    <3>2. Texts(a) = <<s.name>>
      BY <1>4, <2>0, <2>1, OneText
    <3>3. <<s.name>> \o <<>> = <<s.name>>
      BY Joins
    <3>4. <<s.name>> \o <<>> \in Spelled(s.name, given)
      BY <3>1, Spellings
    <3> QED BY <3>2, <3>3, <3>4
  <2>2. CASE Tail(a) # <<>>
    <3>1. Tail(Tail(a)) = <<>> /\ s.version = Text(Head(Tail(a)))
      BY <1>4, <2>2 DEF NextVersion
    <3>2. Texts(a) = <<s.name, s.version>>
      BY <1>4, <2>0, <2>2, <3>1, TwoTexts
    <3>3. <<s.name>> \o <<s.version>> = <<s.name, s.version>>
      BY Joins
    <3>4. <<s.name>> \o <<s.version>> \in Spelled(s.name, given)
      BY Spellings
    <3> QED BY <3>2, <3>3, <3>4
  <2> QED BY <2>1, <2>2
<1> QED BY <1>1, <1>2, <1>3, <1>4 DEF Says

\* Words that name a package only, or a package and a version in one word; and those
\* that are left over.
LEMMA PackageOnly ==
    ASSUME NEW a \in Seq(Word), Named(a), NEW t, Says(t, a, "NONE_NEEDED")
    PROVE  \/ t.version = Empty /\ t.rest = <<>> /\ Texts(a) \in Spelled(t.name, {<<>>})
           \/ /\ a # <<>> /\ t.rest = Tail(a)
              /\ \/ t.version = Empty /\ Text(Head(a)) = t.name
                 \/ t.version # Empty /\ Text(Head(a)) = t.name \o ":" \o t.version
<1>1. CASE a = <<>>
  BY <1>1, NoTexts, Spellings DEF Says
<1>2. CASE a # <<>> /\ Head(a).colon
  BY <1>2, HeadNamed DEF Says
<1>3. CASE a # <<>> /\ ~Head(a).colon
  BY <1>3, PlainText DEF Says
<1> QED BY <1>1, <1>2, <1>3

LEMMA PackageAlone ==
    ASSUME NEW a \in Seq(Word), Named(a), NEW t, Says(t, a, "NONE_NEEDED"), t.rest = <<>>
    PROVE  Texts(a) \in IF t.version # Empty
                        THEN {<<t.name, t.version>>} \cup Joined(t.name, t.version)
                        ELSE Spelled(t.name, {<<>>})
<1>1. CASE a # <<>> /\ Tail(a) = <<>> /\ t.version = Empty /\ Text(Head(a)) = t.name
  <2>1. Texts(a) = <<t.name>>
    BY <1>1, OneText
  <2>2. <<t.name>> \o <<>> \in Spelled(t.name, {<<>>})
    BY Spellings
  <2>3. <<t.name>> \o <<>> = <<t.name>>
    BY Joins
  <2> QED BY <1>1, <2>1, <2>2, <2>3
<1>2. CASE a # <<>> /\ Tail(a) = <<>> /\ t.version # Empty
           /\ Text(Head(a)) = t.name \o ":" \o t.version
  BY <1>2, OneText DEF Joined
<1> QED BY <1>1, <1>2, PackageOnly

LEMMA TwoVersions ==
    ASSUME NEW a \in Seq(Word), Named(a), NEW s, SaysTwo(s, a), s.rest = <<>>
    PROVE  Texts(a) \in IF s.second # Empty
                        THEN {<<s.name, s.version, s.second>>}
                             \cup {j \o <<s.second>> : j \in Joined(s.name, s.version)}
                        ELSE IF s.version # Empty
                        THEN {<<s.name, s.version>>} \cup Joined(s.name, s.version)
                        ELSE Spelled(s.name, {<<>>})
<1>1. PICK t, v, r :
       /\ t.ok /\ Choice(t, a) /\ Says(t, a, "NONE_NEEDED") /\ s.name = t.name
       /\ \/ s = t /\ t.rest = <<>>
          \/ /\ t.rest # <<>>
             /\ IF t.version = Empty THEN v = Text(Head(t.rest)) /\ r = Tail(t.rest)
                ELSE v = t.version /\ r = t.rest
             /\ v # Empty /\ s.version = v
             /\ \/ r = <<>> /\ s.second = Empty /\ s.rest = r
                \/ /\ r # <<>> /\ s.second # Empty
                   /\ s.second = Text(Head(r)) /\ s.rest = Tail(r)
  BY DEF SaysTwo
<1>2. CASE s = t /\ t.rest = <<>>
  <2>1. s.second = Empty
    BY <1>1, <1>2 DEF Choice
  <2> QED BY <1>1, <1>2, <2>1, PackageAlone
<1>3. CASE t.rest # <<>>
  <2>1. a # <<>> /\ t.rest = Tail(a)
    BY <1>1, <1>3, PackageOnly
  <2>2. CASE t.version = Empty
    <3>1. v = Text(Head(Tail(a))) /\ r = Tail(Tail(a)) /\ Text(Head(a)) = s.name
      BY <1>1, <1>3, <2>1, <2>2, PackageOnly
    <3>2. CASE r = <<>>
      <4>1. Texts(a) = <<s.name, v>>
        BY <1>3, <2>1, <3>1, <3>2, TwoTexts
      <4> QED BY <1>1, <1>3, <2>1, <3>2, <4>1
    <3>3. CASE r # <<>>
      <4>1. s.second = Text(Head(r)) /\ Tail(r) = <<>> /\ s.second # Empty /\ s.version = v
        BY <1>1, <1>3, <3>3
      <4>2. Texts(a) = <<s.name, s.version, s.second>>
        BY <1>3, <2>1, <3>1, <3>3, <4>1, ThreeTexts
      <4> QED BY <4>1, <4>2
    <3> QED BY <3>2, <3>3
  <2>3. CASE t.version # Empty
    <3>1. s.version = t.version /\ r = Tail(a) /\ s.second # Empty /\ s.second = Text(Head(Tail(a)))
          /\ Tail(Tail(a)) = <<>> /\ Text(Head(a)) = s.name \o ":" \o s.version
      BY <1>1, <1>3, <2>1, <2>3, PackageOnly
    <3>2. Texts(a) = <<s.name \o ":" \o s.version, s.second>>
      BY <1>3, <2>1, <3>1, TwoTexts
    <3>3. <<s.name \o ":" \o s.version>> \o <<s.second>> = Texts(a)
      BY <3>2, Joins
    <3>4. <<s.name \o ":" \o s.version>> \in Joined(s.name, s.version)
      BY <2>3, <3>1 DEF Joined
    <3> QED BY <3>1, <3>3, <3>4
  <2> QED BY <2>2, <2>3
<1> QED BY <1>1, <1>2, <1>3

-----------------------------------------------------------------------------
(* The types of the state                                                    *)

AnyPath == Seq(Names \cup {Blank})

ConfOK(c) ==
    /\ c \in [dir : {c.dir}, map : SUBSET (AnyPath \X AnyPath), KEEP_DIRS : SUBSET AnyPath,
              IGNORE_IN_SOURCE : SUBSET AnyPath, IGNORE_IN_SYSTEM : SUBSET AnyPath]
    /\ IsFiniteSet(c.map)

LEMMA ValueType ==
    ASSUME NEW l \in Lines
    PROVE  From(l) \in AnyPath /\ To(l) \in AnyPath
<1>1. l.from \in AnyPath /\ l.to \in AnyPath
  BY LinesAssumption DEF IsLine, IsPath, AnyPath
<1>2. ASSUME NEW p \in AnyPath, NEW lead, NEW tail PROVE trim(p, lead, tail) \in AnyPath
  <2>1. Append(p, Blank) \in AnyPath
    BY DEF AnyPath
  <2> QED BY <2>1 DEF trim
<1> HIDE DEF AnyPath
<1> QED BY <1>1, <1>2 DEF From, To, Value

LEMMA ChangedType ==
    ASSUME NEW T, NEW S \in SUBSET T, NEW v \in T, NEW op
    PROVE  /\ Changed(S, op, v) \in SUBSET T
           /\ IsFiniteSet(S) => IsFiniteSet(Changed(S, op, v))
<1>1. Changed(S, op, v) \in {{v}, S \cup {v}, S \ {v}}
  BY DEF Changed
<1>2. IsFiniteSet({v}) /\ (IsFiniteSet(S) => IsFiniteSet(S \cup {v}) /\ IsFiniteSet(S \ {v}))
  BY FS_Singleton, FS_AddElement, FS_RemoveElement
<1> QED BY <1>1, <1>2

LEMMA EntryType ==
    ASSUME NEW c, ConfOK(c), NEW l \in Lines, Known(l)
    PROVE  ConfOK(loadConfigEntry(c, l))
<1>1. From(l) \in AnyPath /\ To(l) \in AnyPath
  BY ValueType
<1>2. CASE l.set = "MAIN_PACKAGE_DIR"
  <2>1. loadConfigEntry(c, l) = [c EXCEPT !.dir = From(l)]
    BY <1>2 DEF loadConfigEntry
  <2> QED BY <1>1, <2>1 DEF ConfOK
<1>3. CASE l.set = "INSTALL_PATH_MAP"
  <2>1. PICK m : m = Changed(c.map, l.op, <<From(l), To(l)>>)
    OBVIOUS
  <2>2. loadConfigEntry(c, l) = [c EXCEPT !.map = m]
    BY <1>3, <2>1 DEF loadConfigEntry
  <2>3. m \in SUBSET (AnyPath \X AnyPath) /\ IsFiniteSet(m)
    <3>1. c.map \in SUBSET (AnyPath \X AnyPath) /\ IsFiniteSet(c.map)
      BY DEF ConfOK
    <3>2. PICK T : T = AnyPath \X AnyPath
      OBVIOUS
    <3>3. PICK v : v = <<From(l), To(l)>>
      OBVIOUS
    <3>4. v \in T /\ c.map \in SUBSET T /\ m = Changed(c.map, l.op, v)
      BY <1>1, <2>1, <3>1, <3>2, <3>3
    <3>5. m \in SUBSET T /\ IsFiniteSet(m)
      BY <3>1, <3>4, ChangedType
    <3> QED BY <3>2, <3>5
  <2> QED BY <2>2, <2>3 DEF ConfOK
<1>4. CASE l.set \in PathSettings
  <2>1. PICK m : m = Changed(c[l.set], l.op, From(l))
    OBVIOUS
  <2>2. loadConfigEntry(c, l) = [c EXCEPT ![l.set] = m]
    BY <1>4, <2>1 DEF loadConfigEntry, PathSettings
  <2>3. m \in SUBSET AnyPath
    <3>1. c[l.set] \in SUBSET AnyPath
      BY <1>4 DEF ConfOK, PathSettings
    <3> QED BY <1>1, <2>1, <3>1, ChangedType
  <2> QED BY <1>4, <2>2, <2>3 DEF ConfOK, PathSettings
<1> QED BY <1>2, <1>3, <1>4, LinesAssumption DEF Known, IsLine

LEMMA DefaultType == ConfOK(DefaultConf)
<1>1. <<"/">> \in AnyPath /\ <<>> \in AnyPath
  BY OrderAssumption DEF AnyPath
<1>2. {<<<<"/">>, <<>>>>} \in SUBSET (AnyPath \X AnyPath)
  BY <1>1
<1>3. IsFiniteSet({<<<<"/">>, <<>>>>})
  BY FS_Singleton
<1> QED BY <1>1, <1>2, <1>3 DEF ConfOK, DefaultConf

\* A package was opened for the command.
Settled ==
    \/ pc \in {"act", "gather", "replace", "run"}
    \/ Loading /\ (Replacing \/ Latest(tp.read) \in {"user", "version"})

Starts(r) == IsSeq(r) /\ r # <<>> /\ Head(r).kind = "system"

PackagesOK ==
    \A n \in DOMAIN packages :
       /\ n # Empty
       /\ packages[n] = [versions |-> packages[n].versions, current |-> packages[n].current]

WordsOK ==
    /\ call.action \in Actions /\ call.words \in WordLists \cup {<<>>}
    /\ args \in Seq(Word) /\ Len(args) <= Len(call.words)

KnownPackages ==
    /\ Settled => chosen.name \in DOMAIN packages
    /\ \A i \in DOMAIN work : work[i].name \in DOMAIN packages

TypeInv ==
    /\ pc \in Pcs /\ lines \in 0 .. MaxLines
    /\ PackagesOK /\ WordsOK /\ KnownPackages
    /\ ConfOK(tp.conf) /\ ConfOK(tp2.conf) /\ Starts(tp.read) /\ Starts(tp2.read)

LEMMA WordListType ==
    ASSUME NEW a \in WordLists \cup {<<>>}
    PROVE  a \in Seq(Word) /\ (NamedVersions => Named(a))
<1>1. CASE a \in WordLists
  <2>1. {a[i] : i \in DOMAIN a} \subseteq Word /\ a \in Seq({a[i] : i \in DOMAIN a})
    BY <1>1, WordsAssumption DEF IsWord, Word
  <2>2. a \in Seq(Word)
    BY <2>1, SeqMonotonic
  <2> QED BY <1>1, <2>2 DEF NamedVersions, Named
<1>2. CASE a = <<>>
  <2>1. DOMAIN a = {}
    BY <1>2
  <2> QED BY <1>2, <2>1 DEF Named
<1> QED BY <1>1, <1>2

LEMMA TypeImplies == TypeInv => TypeOK
<1> SUFFICES ASSUME TypeInv PROVE TypeOK
  OBVIOUS
<1>1. \A n \in DOMAIN packages : n # Empty /\ DOMAIN packages[n] = {"versions", "current"}
  <2>1. \A v, c : DOMAIN [versions |-> v, current |-> c] = {"versions", "current"}
    OBVIOUS
  <2> QED BY <2>1 DEF TypeInv, PackagesOK
<1>2. ASSUME NEW t \in {tp, tp2}
      PROVE  /\ \A e \in t.conf.map : IsPath(e[1]) /\ IsPath(e[2])
             /\ \A set \in PathSettings : \A p \in t.conf[set] : IsPath(p)
             /\ Head(t.read).kind = "system"
  <2>1. ConfOK(t.conf) /\ Starts(t.read)
    BY <1>2 DEF TypeInv
  <2>2. ASSUME NEW c, ConfOK(c)
        PROVE  /\ \A e \in c.map : IsPath(e[1]) /\ IsPath(e[2])
               /\ \A set \in PathSettings : \A p \in c[set] : IsPath(p)
    BY <2>2 DEF ConfOK, AnyPath, IsPath, PathSettings
  <2> QED BY <2>1, <2>2 DEF Starts
<1> QED BY <1>1, <1>2 DEF TypeInv, TypeOK, WordsOK, KnownPackages

LEMMA MadeFacts ==
    ASSUME NEW n, packages' = Made(n)
    PROVE  /\ DOMAIN packages' = DOMAIN packages \cup ({n} \ {Empty})
           /\ \A m \in DOMAIN packages' : packages'[m] = Pkg(m)
           /\ \A m : Pkg(m)' = Pkg(m)
<1>1. /\ DOMAIN packages' = DOMAIN packages \cup ({n} \ {Empty})
      /\ \A m \in DOMAIN packages' : packages'[m] = Pkg(m)
  BY DEF Made
<1> QED BY <1>1 DEF Pkg

LEMMA MadeOK ==
    ASSUME PackagesOK, NEW n, packages' = Made(n)
    PROVE  PackagesOK'
<1>1. Fresh = [versions |-> Fresh.versions, current |-> Fresh.current]
  BY DEF Fresh
<1>2. \A m \in DOMAIN packages' : packages'[m] = Pkg(m) /\ (m \in DOMAIN packages \/ m # Empty)
  BY MadeFacts
<1> QED BY <1>1, <1>2 DEF PackagesOK, Pkg

LEMMA StartsMore ==
    ASSUME NEW r, Starts(r), NEW k, NEW v, NEW q, q = Append(r, File(k, v))
    PROVE  Starts(q)
<1> PICK S : r \in Seq(S)
  BY DEF Starts, IsSeq
<1>1. /\ IsSeq(q) /\ q[Len(r) + 1] = File(k, v) /\ Len(q) = Len(r) + 1
      /\ \A n \in 1 .. Len(r) : q[n] = r[n]
  BY AppendFacts
<1>2. r # <<>> /\ Head(r).kind = "system" /\ Head(r) = r[1] /\ Len(r) \in Nat /\ Len(r) # 0
  BY EmptySeq DEF Starts
<1>3. q # <<>> /\ Head(q) = q[1] /\ q[1] = r[1]
  <2>1. PICK T : q \in Seq(T)
    BY <1>1 DEF IsSeq
  <2>2. q # <<>>
    BY <1>1, <1>2, EmptySeq
  <2> QED BY <1>1, <1>2, <2>1, <2>2
<1> QED BY <1>1, <1>2, <1>3 DEF Starts

\* Steps after which no other package is chosen.
LEMMA SameTypes ==
    ASSUME TypeInv, UNCHANGED <<packages, call, args, chosen, work, lines>>,
           pc' \in Pcs, ConfOK(tp'.conf), ConfOK(tp2'.conf), Starts(tp'.read), Starts(tp2'.read),
           Settled' => Settled
    PROVE  TypeInv'
BY DEF TypeInv, PackagesOK, WordsOK, KnownPackages

LEMMA LoadTypes ==
    ASSUME TypeInv, ConfigInv, Open \/ EndOfFile \/ \E l \in Lines : ReadLine(l)
    PROVE  TypeInv'
<1>1. Loading /\ UNCHANGED <<packages, call, args, chosen, work>>
  BY DEF Open, EndOfFile, ReadLine, Loading
<1>2. /\ tp'.read = tp.read /\ tp2'.read = tp2.read /\ lines' \in 0 .. MaxLines
      /\ ConfOK(tp'.conf) /\ ConfOK(tp2'.conf)
  <2>1. CASE Open \/ EndOfFile
    BY <2>1 DEF Open, EndOfFile, TypeInv
  <2>2. ASSUME NEW l \in Lines, ReadLine(l)
        PROVE  /\ tp'.read = tp.read /\ tp2'.read = tp2.read /\ lines' \in 0 .. MaxLines
               /\ ConfOK(tp'.conf) /\ ConfOK(tp2'.conf)
    <3>0. /\ ConfOK(tp.conf) /\ ConfOK(tp2.conf) /\ lines \in 0 .. MaxLines
          /\ tp = [conf |-> tp.conf, read |-> tp.read, stored |-> tp.stored]
          /\ tp2 = [conf |-> tp2.conf, read |-> tp2.read, stored |-> tp2.stored]
      BY DEF TypeInv, ConfigInv, SeqInv
    <3>1. lines' \in 0 .. MaxLines
      BY <2>2, <3>0, LinesAssumption DEF ReadLine
    <3>2. CASE ~Known(l)
      BY <2>2, <3>0, <3>1, <3>2 DEF ReadLine
    <3>3. CASE Known(l)
      <4>1. ASSUME NEW t, ConfOK(t.conf), t = [conf |-> t.conf, read |-> t.read, stored |-> t.stored],
                   NEW q, q = Store(t, l)
            PROVE  ConfOK(q.conf) /\ q.read = t.read
        <5>1. q.conf = loadConfigEntry(t.conf, l) /\ q.read = t.read
          BY <4>1 DEF Store
        <5> QED BY <3>3, <4>1, <5>1, EntryType
      <4>2. \/ tp2' = Store(tp2, l) /\ tp' = tp
            \/ tp' = Store(tp, l) /\ tp2' = tp2
        BY <2>2, <3>3 DEF ReadLine
      <4> QED BY <3>0, <3>1, <4>1, <4>2
    <3> QED BY <3>2, <3>3
  <2> QED BY <2>1, <2>2
<1>3. Continue \/ pc' \in {"read", "failed"}
  BY DEF Open, EndOfFile, ReadLine
<1>4. pc' \in Pcs /\ (Settled' => Settled)
  <2>1. Replacing' = Replacing /\ Latest(tp'.read) = Latest(tp.read)
    BY <1>2 DEF Replacing
  <2>2. Continue => \/ Replacing /\ pc' = "replace"
                    \/ ~Replacing /\ Latest(tp.read) = "system" /\ pc' = "init"
                    \/ ~Replacing /\ Latest(tp.read) = "user" /\ pc' = "act"
                    \/ ~Replacing /\ Latest(tp.read) \notin {"system", "user"} /\ pc' = "gather"
    BY DEF Continue
  <2>3. ~Replacing => Latest(tp.read) \in {"system", "user", "version"}
    BY <1>1 DEF ConfigInv, PhaseInv
  <2> QED BY <1>1, <1>3, <2>1, <2>2, <2>3 DEF Settled, Loading, Pcs
<1> QED BY <1>1, <1>2, <1>4 DEF TypeInv, PackagesOK, WordsOK, KnownPackages

LEMMA ParseTypes ==
    ASSUME TypeInv, ParseArguments
    PROVE  TypeInv'
<1>1. /\ pc' \in {"failed", "done", "select"} /\ call' \in Options /\ args' = call'.words
      /\ UNCHANGED <<packages, tp, tp2, lines, chosen, work>>
  BY DEF ParseArguments
<1>2. call'.action \in Actions /\ call'.words \in WordLists
  BY <1>1 DEF Options
<1>3. WordsOK'
  <2>1. args' \in Seq(Word)
    BY <1>1, <1>2, WordListType
  <2>2. Len(args') <= Len(call'.words)
    BY <1>1, <2>1
  <2> QED BY <1>2, <2>1, <2>2 DEF WordsOK
<1>4. ~Settled'
  BY <1>1 DEF Settled, Loading
<1> QED BY <1>1, <1>3, <1>4 DEF TypeInv, PackagesOK, KnownPackages, Pcs

\* What a choice leaves behind.
LEMMA ChosenWords ==
    ASSUME WordsOK, NEW s, Chosen(s, args), UNCHANGED call, args' = s.rest
    PROVE  WordsOK'
<1>1. s.rest \in Seq(Word) /\ Len(s.rest) <= Len(args)
  BY DEF Chosen
<1>2. call.words \in Seq(Word) /\ args \in Seq(Word)
  BY WordListType DEF WordsOK
<1>3. Len(s.rest) <= Len(call.words)
  BY <1>1, <1>2, Lengths DEF WordsOK
<1> QED BY <1>1, <1>3 DEF WordsOK

LEMMA SelectTypes ==
    ASSUME TypeInv, ConfigInv, Select
    PROVE  TypeInv'
<1>1. PICK s : s = Selected
  OBVIOUS
<1>2. /\ pc = "select" /\ packages' = Made(s.name) /\ chosen' = s /\ args' = s.rest
      /\ IF s.ok THEN Begin("user", Empty) ELSE pc' = "failed" /\ UNCHANGED tp
      /\ UNCHANGED <<tp2, lines, call, work>>
  BY <1>1 DEF Select
<1>3. Chosen(s, args)
  BY <1>1, SelectedFacts DEF TypeInv, WordsOK
<1>4. PackagesOK' /\ WordsOK'
  BY <1>2, <1>3, MadeOK, ChosenWords DEF TypeInv
<1>5. ConfOK(tp'.conf) /\ Starts(tp'.read) /\ pc' \in {"open", "failed"}
  <2>1. CASE s.ok
    <3>1. tp' = [tp EXCEPT !.read = Append(@, File("user", Empty))] /\ pc' = "open"
      BY <1>2, <2>1 DEF Begin
    <3>2. tp'.conf = tp.conf /\ tp'.read = Append(tp.read, File("user", Empty))
      BY <3>1 DEF ConfigInv, SeqInv
    <3> QED BY <3>1, <3>2, StartsMore DEF TypeInv
  <2>2. CASE ~s.ok
    BY <1>2, <2>2 DEF TypeInv
  <2> QED BY <2>1, <2>2
<1>6. DOMAIN packages \subseteq DOMAIN packages' /\ (s.name # Empty => s.name \in DOMAIN packages')
  BY <1>2, MadeFacts
<1>7. KnownPackages'
  <2>1. Settled' => s.ok
    BY <1>2 DEF Settled, Loading
  <2>2. s.ok => s.name # Empty
    BY <1>3 DEF Chosen, Opens
  <2> QED BY <1>2, <1>6, <2>1, <2>2 DEF KnownPackages, TypeInv
<1> QED BY <1>2, <1>4, <1>5, <1>7 DEF TypeInv, Pcs

\* The entry that an operation makes.
Entry(op, v, w, sys, t) ==
    [op |-> op, name |-> chosen'.name, version |-> v, second |-> w, system |-> sys,
     read |-> t.read, stored |-> t.stored]

LEMMA DidFacts ==
    ASSUME SeqInv, NEW op, NEW v, NEW w, NEW sys, NEW r, Did(op, v, w, sys, r)
    PROVE  /\ DOMAIN work' = 1 .. (Len(work) + 1) /\ DOMAIN work = 1 .. Len(work)
           /\ Len(work) \in Nat /\ Len(work') = Len(work) + 1
           /\ \A i \in 1 .. Len(work) : work'[i] = work[i]
           /\ LET e == work'[Len(work) + 1] IN
              e.op = op /\ e.name = chosen'.name /\ e.version = v /\ e.second = w /\ e.system = sys
<1> PICK S : work \in Seq(S)
  BY DEF SeqInv, IsSeq
<1> PICK d : d = Entry(op, v, w, sys, r)
  OBVIOUS
<1>1. work' = Append(work, d)
  BY DEF Did, Entry
<1>2. /\ d.op = op /\ d.name = chosen'.name /\ d.version = v /\ d.second = w /\ d.system = sys
  BY DEF Entry
<1> QED BY <1>1, <1>2, AppendFacts

LEMMA DidKnown ==
    ASSUME SeqInv, \A i \in DOMAIN work : work[i].name \in DOMAIN packages,
           DOMAIN packages \subseteq DOMAIN packages', chosen'.name \in DOMAIN packages',
           NEW op, NEW v, NEW w, NEW sys, NEW r, Did(op, v, w, sys, r)
    PROVE  (\A i \in DOMAIN work : work[i].name \in DOMAIN packages)'
<1>1. /\ DOMAIN work' = 1 .. (Len(work) + 1) /\ DOMAIN work = 1 .. Len(work)
      /\ Len(work) \in Nat /\ \A i \in 1 .. Len(work) : work'[i] = work[i]
      /\ work'[Len(work) + 1].name = chosen'.name
  BY DidFacts
<1>2. ASSUME NEW i \in DOMAIN work' PROVE work'[i].name \in DOMAIN packages'
  <2>1. CASE i = Len(work) + 1
    BY <1>1, <2>1
  <2>2. CASE i \in 1 .. Len(work)
    BY <1>1, <2>2
  <2> QED BY <1>1, <2>1, <2>2
<1> QED BY <1>2

LEMMA QueryTypes ==
    ASSUME TypeInv, ConfigInv, Query
    PROVE  TypeInv'
<1>1. PICK s : s = Selected
  OBVIOUS
<1>2. /\ pc = "select" /\ packages' = Made(s.name) /\ chosen' = s /\ args' = s.rest
      /\ UNCHANGED <<tp, tp2, lines, call>> /\ pc' \in {"failed", "done", "select"}
      /\ IF s.ok THEN Did("answer", Answer(Pkg(s.name)), Empty, FALSE, tp)
         ELSE UNCHANGED work
  BY <1>1 DEF Query
<1>3. Chosen(s, args)
  BY <1>1, SelectedFacts DEF TypeInv, WordsOK
<1>4. PackagesOK' /\ WordsOK'
  BY <1>2, <1>3, MadeOK, ChosenWords DEF TypeInv
<1>5. DOMAIN packages \subseteq DOMAIN packages' /\ (s.name # Empty => s.name \in DOMAIN packages')
  BY <1>2, MadeFacts
<1>6. (\A i \in DOMAIN work : work[i].name \in DOMAIN packages)'
  <2>1. CASE s.ok
    <3>1. chosen'.name \in DOMAIN packages'
      BY <1>2, <1>3, <1>5, <2>1 DEF Chosen, Opens
    <3>2. PICK v : v = Answer(Pkg(s.name))
      OBVIOUS
    <3>3. PICK r : r = tp
      OBVIOUS
    <3>4. PICK no : no = FALSE
      OBVIOUS
    <3>5. Did("answer", v, Empty, no, r)
      BY <1>2, <2>1, <3>2, <3>3, <3>4
    <3>6. SeqInv /\ \A i \in DOMAIN work : work[i].name \in DOMAIN packages
      BY DEF ConfigInv, TypeInv, KnownPackages
    <3> QED BY <1>5, <3>1, <3>5, <3>6, DidKnown
  <2>2. CASE ~s.ok
    BY <1>2, <1>5, <2>2 DEF TypeInv, KnownPackages
  <2> QED BY <2>1, <2>2
<1>7. ~Settled'
  BY <1>2 DEF Settled, Loading
<1> QED BY <1>2, <1>4, <1>6, <1>7 DEF TypeInv, KnownPackages, Pcs

LEMMA QuietTypes ==
    ASSUME TypeInv, ListAll \/ RefuseWords \/ ShowConfig
    PROVE  TypeInv'
<1>1. /\ UNCHANGED <<packages, tp, tp2, lines, call, args, chosen, work>>
      /\ pc' \in {"done", "failed"}
  BY DEF ListAll, RefuseWords, ShowConfig
<1>2. ~Settled'
  BY <1>1 DEF Settled, Loading
<1> QED BY <1>1, <1>2, SameTypes DEF TypeInv, Pcs

\* The commands that go on to the files of a version, or give up.
LEMMA CommandTypes ==
    ASSUME TypeInv, ConfigInv, Install \/ Uninstall \/ Pack \/ Look
    PROVE  TypeInv'
<1>1. /\ pc = "act" /\ UNCHANGED <<packages, lines, call, args, chosen, work>>
      /\ pc' \in {"done", "failed", "run", "open"}
      /\ \/ tp' = tp
         \/ tp' = [tp EXCEPT !.read = Append(@, File("version", chosen.version))]
      /\ \/ tp2' = tp2
         \/ tp2' = [tp EXCEPT !.read = Append(@, File("version", Me.current))]
  BY DEF Install, Uninstall, Pack, Look, Begin, Is
<1>2. /\ tp = [conf |-> tp.conf, read |-> tp.read, stored |-> tp.stored] /\ ConfOK(tp.conf) /\ Starts(tp.read)
      /\ ConfOK(tp2.conf) /\ Starts(tp2.read)
  BY DEF ConfigInv, SeqInv, TypeInv
<1>3. ConfOK(tp'.conf) /\ Starts(tp'.read)
  <2>1. CASE tp' = [tp EXCEPT !.read = Append(@, File("version", chosen.version))]
    <3>1. tp'.conf = tp.conf /\ tp'.read = Append(tp.read, File("version", chosen.version))
      BY <1>2, <2>1
    <3> QED BY <1>2, <3>1, StartsMore
  <2> QED BY <1>1, <1>2, <2>1
<1>4. ConfOK(tp2'.conf) /\ Starts(tp2'.read)
  <2>1. CASE tp2' = [tp EXCEPT !.read = Append(@, File("version", Me.current))]
    <3>1. tp2'.conf = tp.conf /\ tp2'.read = Append(tp.read, File("version", Me.current))
      BY <1>2, <2>1
    <3> QED BY <1>2, <3>1, StartsMore
  <2> QED BY <1>1, <1>2, <2>1
<1>5. Settled /\ pc' \in Pcs
  BY <1>1 DEF Settled, Pcs
<1> QED BY <1>1, <1>3, <1>4, <1>5, SameTypes

LEMMA DiffTypes ==
    ASSUME TypeInv, ConfigInv, Diff \/ Gather
    PROVE  TypeInv'
<1>1. /\ pc \in {"act", "gather"} /\ UNCHANGED <<packages, tp, tp2, lines, call, args, chosen>>
      /\ pc' \in {"done", "failed", "run"}
      /\ work' = work \/ \E op, v, w, sys : Did(op, v, w, sys, tp)
  BY DEF Diff, Gather, Is
<1>2. chosen'.name \in DOMAIN packages' /\ Settled
  BY <1>1 DEF TypeInv, KnownPackages, Settled
<1>3. (\A i \in DOMAIN work : work[i].name \in DOMAIN packages)'
  <2>1. SeqInv /\ (\A i \in DOMAIN work : work[i].name \in DOMAIN packages)
        /\ DOMAIN packages \subseteq DOMAIN packages'
    BY <1>1 DEF ConfigInv, TypeInv, KnownPackages
  <2>2. CASE work' = work
    BY <1>1, <2>1, <2>2
  <2>3. ASSUME NEW op, NEW v, NEW w, NEW sys, Did(op, v, w, sys, tp)
        PROVE  (\A i \in DOMAIN work : work[i].name \in DOMAIN packages)'
    BY <1>2, <2>1, <2>3, DidKnown
  <2> QED BY <1>1, <2>2, <2>3
<1> QED BY <1>1, <1>2, <1>3 DEF TypeInv, PackagesOK, WordsOK, KnownPackages, Pcs

LEMMA WorkTypes ==
    ASSUME TypeInv, ConfigInv, Replace \/ Run
    PROVE  TypeInv'
<1>1. /\ pc \in {"replace", "run"} /\ UNCHANGED <<tp, tp2, lines, call, args, chosen>>
      /\ pc' \in {"done", "failed", "run"}
      /\ \E op, v, r : Did(op, v, Empty, FALSE, r)
  BY DEF Replace, Run, RunPack, Executes
<1>2. /\ Me = [versions |-> Me.versions, current |-> Me.current]
      /\ chosen.name \in DOMAIN packages
  BY <1>1 DEF TypeInv, PackagesOK, KnownPackages, Settled, Me
<1>3. \/ packages' = packages
      \/ \E p : /\ packages' = [packages EXCEPT ![chosen.name] = p]
               /\ p = [versions |-> p.versions, current |-> p.current]
  <2>0. \A q, c : q = [versions |-> q.versions, current |-> q.current] =>
           LET p == [q EXCEPT !.current = c] IN p = [versions |-> p.versions, current |-> p.current]
    OBVIOUS
  <2>1. CASE Replace
    <3>1. packages' = packages
          \/ packages' = [packages EXCEPT ![chosen.name] = [Me EXCEPT !.current = Empty]]
      BY <2>1 DEF Replace, Executes
    <3> QED BY <1>2, <2>0, <3>1
  <2>2. CASE Run
    <3>1. PICK made : made = [Me EXCEPT !.versions = @ \cup {chosen.version}]
      OBVIOUS
    <3>2. \/ packages' = packages
          \/ \E c : packages' = [packages EXCEPT ![chosen.name] = [Me EXCEPT !.current = c]]
          \/ packages' = [packages EXCEPT ![chosen.name] = made]
          \/ \E c : packages' = [packages EXCEPT ![chosen.name] = [made EXCEPT !.current = c]]
      BY <2>2, <3>1 DEF Run, RunPack, Executes
    <3>3. made = [versions |-> made.versions, current |-> made.current]
      BY <1>2, <3>1
    <3>4. ASSUME NEW q, q = [versions |-> q.versions, current |-> q.current],
                 packages' = [packages EXCEPT ![chosen.name] = q]
          PROVE  \E p : /\ packages' = [packages EXCEPT ![chosen.name] = p]
                        /\ p = [versions |-> p.versions, current |-> p.current]
      BY <3>4
    <3>5. ASSUME NEW c, packages' = [packages EXCEPT ![chosen.name] = [Me EXCEPT !.current = c]]
          PROVE  \E p : /\ packages' = [packages EXCEPT ![chosen.name] = p]
                        /\ p = [versions |-> p.versions, current |-> p.current]
      <4>1. PICK q : q = [Me EXCEPT !.current = c]
        OBVIOUS
      <4> QED BY <1>2, <2>0, <3>4, <3>5, <4>1
    <3>6. ASSUME NEW c, packages' = [packages EXCEPT ![chosen.name] = [made EXCEPT !.current = c]]
          PROVE  \E p : /\ packages' = [packages EXCEPT ![chosen.name] = p]
                        /\ p = [versions |-> p.versions, current |-> p.current]
      <4>1. PICK q : q = [made EXCEPT !.current = c]
        OBVIOUS
      <4> QED BY <2>0, <3>3, <3>4, <3>6, <4>1
    <3> QED BY <3>2, <3>3, <3>4, <3>5, <3>6
  <2> QED BY <1>1, <2>1, <2>2
<1>4. PackagesOK' /\ DOMAIN packages' = DOMAIN packages
  BY <1>3 DEF PackagesOK, TypeInv
<1>5. (\A i \in DOMAIN work : work[i].name \in DOMAIN packages)'
  <2>1. PICK op, v, r : Did(op, v, Empty, FALSE, r)
    BY <1>1
  <2>2. SeqInv /\ \A i \in DOMAIN work : work[i].name \in DOMAIN packages
    BY DEF ConfigInv, TypeInv, KnownPackages
  <2> QED BY <1>1, <1>2, <1>4, <2>1, <2>2, DidKnown
<1> QED BY <1>1, <1>2, <1>4, <1>5 DEF TypeInv, WordsOK, KnownPackages, Pcs

LEMMA TypeInit == Init => TypeInv
<1> SUFFICES ASSUME Init PROVE TypeInv
  OBVIOUS
<1>1. Starts(StartTP.read)
  <2>1. StartTP.read = <<File("system", Empty)>> /\ File("system", Empty).kind = "system"
    BY DEF StartTP, File
  <2>2. ASSUME NEW e PROVE IsSeq(<<e>>) /\ <<e>> # <<>> /\ Head(<<e>>) = e
    <3>1. <<e>> \in Seq({e}) /\ Len(<<e>>) = 1 /\ DOMAIN <<e>> = {1} /\ <<e>>[1] = e
      OBVIOUS
    <3>2. {<<e>>[k] : k \in DOMAIN <<e>>} = {e}
      BY <3>1
    <3>3. <<e>> # <<>>
      BY <3>1
    <3>4. Head(<<e>>) = e
      BY <3>1
    <3> QED BY <3>1, <3>2, <3>3, <3>4 DEF IsSeq
  <2> QED BY <2>1, <2>2 DEF Starts
<1>2. ConfOK(StartTP.conf)
  BY DefaultType DEF StartTP
<1>3. WordsOK
  BY DEF Init, WordsOK, NoCall, Actions
<1>4. ~Settled
  BY StartFiles DEF Init, Settled, Loading, Replacing
<1>5. PackagesOK
  BY DisksAssumption DEF Init, PackagesOK
<1>6. lines \in 0 .. MaxLines
  BY LinesAssumption DEF Init
<1> QED BY <1>1, <1>2, <1>3, <1>4, <1>5, <1>6 DEF Init, TypeInv, KnownPackages, Pcs

LEMMA TypeNext == ASSUME TypeInv, ConfigInv, [Next]_vars PROVE TypeInv'
<1>1. CASE UNCHANGED vars
  <2>1. Settled' = Settled
    BY <1>1 DEF vars, Settled, Loading, Replacing
  <2> QED BY <1>1, <2>1 DEF vars, TypeInv, PackagesOK, WordsOK, KnownPackages
<1>2. CASE Next
  <2>1. Finished => UNCHANGED vars
    BY DEF Finished
  <2> QED BY <1>1, <1>2, <2>1, LoadTypes, ParseTypes, SelectTypes, QueryTypes, QuietTypes,
             CommandTypes, DiffTypes, WorkTypes DEF Next, Step
<1> QED BY <1>1, <1>2

\* The variables have their types, whatever the files and the words are: no line
\* makes a path or a set of something else, no choice goes beyond the words, and
\* every operation is about a package there is.
THEOREM TypeCorrect == Spec => []TypeOK
BY ConfigInit, ConfigInductive, TypeInit, TypeNext, TypeImplies, PTL DEF Spec

-----------------------------------------------------------------------------
(* The Current link                                                          *)

\* The file of the version the command names is read, or was.
VersionPhase ==
    \/ Loading /\ ~Replacing /\ Latest(tp.read) = "version"
    \/ pc \in {"gather", "run"}

\* What the guards of the commands found is still true when the work begins.
CurrentInv ==
    /\ pc = "run" /\ call.action = "install" => Me.current = Empty
    /\ VersionPhase /\ call.action = "uninstall" => call.bypass \/ chosen.version = Me.current
    /\ VersionPhase /\ call.action = "pack" => call.bypass \/ Me.current = Empty

CurrentStep ==
    \A n \in DOMAIN packages :
        LET old == packages[n].current
            new == packages'[n].current
            last == work'[Len(work')]
        IN  old # new /\ old # Empty =>
               \/ call.bypass /\ call.action \in {"pack", "uninstall"}
               \/ new = Empty /\ last.op = "uninstall" /\ last.version = old

LEMMA LoadCurrent ==
    ASSUME CurrentInv, ConfigInv, Open \/ EndOfFile \/ \E l \in Lines : ReadLine(l)
    PROVE  CurrentInv' /\ CurrentStep
<1>1. Loading /\ UNCHANGED <<packages, call, chosen>>
  BY DEF Open, EndOfFile, ReadLine, Loading
<1>2. tp'.read = tp.read /\ tp2'.read = tp2.read
  <2>1. CASE Open \/ EndOfFile
    BY <2>1 DEF Open, EndOfFile
  <2>2. ASSUME NEW l \in Lines, ReadLine(l) PROVE tp'.read = tp.read /\ tp2'.read = tp2.read
    <3>1. /\ tp' = tp \/ tp' = Store(tp, l)
          /\ tp2' = tp2 \/ tp2' = Store(tp2, l)
      BY <2>2 DEF ReadLine
    <3> QED BY <3>1 DEF ConfigInv, SeqInv, Store
  <2> QED BY <2>1, <2>2
<1>3. Continue \/ pc' \in {"read", "failed"}
  BY DEF Open, EndOfFile, ReadLine
<1>4. pc' # "run" /\ (VersionPhase' => VersionPhase)
  <2>1. Replacing' = Replacing /\ Latest(tp'.read) = Latest(tp.read)
    BY <1>2 DEF Replacing
  <2>2. Continue => \/ Replacing /\ pc' = "replace"
                    \/ ~Replacing /\ Latest(tp.read) \in {"system", "user"} /\ pc' \in {"init", "act"}
                    \/ ~Replacing /\ Latest(tp.read) \notin {"system", "user"} /\ pc' = "gather"
    BY DEF Continue
  <2>3. ~Replacing => Latest(tp.read) \in {"system", "user", "version"}
    BY <1>1 DEF ConfigInv, PhaseInv
  <2> QED BY <1>1, <1>3, <2>1, <2>2, <2>3 DEF VersionPhase, Loading
<1>5. CurrentInv'
  BY <1>1, <1>4 DEF CurrentInv, Me
<1>6. CurrentStep
  BY <1>1 DEF CurrentStep
<1> QED BY <1>5, <1>6

LEMMA StartCurrent ==
    ASSUME TypeInv, ConfigInv, ParseArguments \/ Select \/ Query \/ ListAll \/ RefuseWords \/ ShowConfig
    PROVE  CurrentInv' /\ CurrentStep
<1>1. ~VersionPhase' /\ pc' # "run"
  <2>1. CASE Select
    <3>1. pc' = "failed" \/ Begin("user", Empty)
      BY <2>1 DEF Select
    <3>2. CASE Begin("user", Empty)
      <4>1. SeqInv /\ UNCHANGED <<tp2, work>>
        BY <2>1 DEF Select, ConfigInv
      <4>2. pc' = "open" /\ Latest(tp'.read) = "user"
        BY <3>2, <4>1, BeginFacts
      <4> QED BY <4>2 DEF VersionPhase, Loading
    <3>3. CASE pc' = "failed"
      BY <3>3 DEF VersionPhase, Loading
    <3> QED BY <3>1, <3>2, <3>3
  <2>2. CASE ParseArguments \/ Query \/ ListAll \/ RefuseWords \/ ShowConfig
    <3>1. pc' \in {"failed", "done", "select"}
      BY <2>2 DEF ParseArguments, Query, ListAll, RefuseWords, ShowConfig
    <3> QED BY <3>1 DEF VersionPhase, Loading
  <2> QED BY <2>1, <2>2
<1>2. packages' = packages \/ \E n : packages' = Made(n)
  BY DEF ParseArguments, Select, Query, ListAll, RefuseWords, ShowConfig
<1>3. \A n \in DOMAIN packages : packages'[n] = packages[n]
  BY <1>2, MadeFacts DEF Pkg
<1> QED BY <1>1, <1>3 DEF CurrentInv, CurrentStep

LEMMA CommandCurrent ==
    ASSUME CurrentInv, ConfigInv, Install \/ Uninstall \/ Pack \/ Look \/ Diff \/ Gather
    PROVE  CurrentInv' /\ CurrentStep
<1>1. UNCHANGED <<packages, call, chosen>> /\ Me' = Me
  BY DEF Install, Uninstall, Pack, Look, Diff, Gather, Me
<1>2. CurrentInv'
  <2>1. CASE Install
    BY <1>1, <2>1 DEF Install, Is, CurrentInv
  <2>2. CASE Uninstall
    BY <1>1, <2>2 DEF Uninstall, Is, CurrentInv, Begin, VersionPhase, Loading
  <2>3. CASE Pack
    BY <1>1, <2>3 DEF Pack, Is, CurrentInv, Begin, VersionPhase, Loading
  <2>4. CASE Look
    BY <1>1, <2>4 DEF Look, Is, CurrentInv, Begin
  <2>5. CASE Diff
    BY <1>1, <2>5 DEF Diff, CurrentInv, VersionPhase, Loading
  <2>6. CASE Gather
    <3>1. pc = "gather" /\ pc' \in {"done", "failed", "run"} /\ call.action # "install"
      BY <2>6 DEF Gather, ConfigInv, PhaseInv
    <3> QED BY <1>1, <3>1 DEF CurrentInv, VersionPhase, Loading
  <2> QED BY <2>1, <2>2, <2>3, <2>4, <2>5, <2>6
<1> QED BY <1>1, <1>2 DEF CurrentStep

LEMMA ReplaceCurrent ==
    ASSUME TypeInv, ConfigInv, Replace
    PROVE  CurrentInv' /\ CurrentStep
<1>1. /\ pc = "replace" /\ UNCHANGED <<call, chosen>> /\ call.action = "install"
      /\ Did("uninstall", Me.current, Empty, FALSE, tp2)
      /\ \/ pc' \in {"done", "failed"} /\ packages' = packages
         \/ pc' = "run" /\ packages' = [packages EXCEPT ![chosen.name] = [Me EXCEPT !.current = Empty]]
  BY DEF Replace, Executes, ConfigInv, PhaseInv
<1>2. /\ Me = [versions |-> Me.versions, current |-> Me.current]
      /\ chosen.name \in DOMAIN packages
  BY <1>1 DEF TypeInv, PackagesOK, KnownPackages, Settled, Me
<1>3. work'[Len(work')].op = "uninstall" /\ work'[Len(work')].version = Me.current
  BY <1>1, DidFacts DEF ConfigInv
<1>4. CASE pc' \in {"done", "failed"} /\ packages' = packages
  BY <1>4 DEF CurrentInv, VersionPhase, Loading, CurrentStep
<1>5. CASE /\ pc' = "run"
           /\ packages' = [packages EXCEPT ![chosen.name] = [Me EXCEPT !.current = Empty]]
  <2>1. [Me EXCEPT !.current = Empty].current = Empty
    BY <1>2
  <2>2. /\ packages'[chosen.name].current = Empty
        /\ \A n \in DOMAIN packages \ {chosen.name} : packages'[n] = packages[n]
    BY <1>2, <1>5, <2>1
  <2>3. Me'.current = Empty
    BY <1>1, <2>2 DEF Me
  <2>4. CurrentStep
    BY <1>3, <2>2 DEF CurrentStep, Me
  <2> QED BY <1>1, <2>3, <2>4 DEF CurrentInv
<1> QED BY <1>1, <1>4, <1>5

LEMMA RunCurrent ==
    ASSUME TypeInv, ConfigInv, CurrentInv, Run
    PROVE  CurrentInv' /\ CurrentStep
<1>1. /\ pc = "run" /\ UNCHANGED <<call, chosen>> /\ pc' \in {"done", "failed"}
      /\ call.action \in {"install", "uninstall", "pack"}
      /\ Did(call.action, chosen.version, Empty, FALSE, tp)
  BY DEF Run, RunPack, Executes, ConfigInv, PhaseInv
<1>2. /\ Me = [versions |-> Me.versions, current |-> Me.current]
      /\ chosen.name \in DOMAIN packages
  BY <1>1 DEF TypeInv, PackagesOK, KnownPackages, Settled, Me
<1>3. work'[Len(work')].op = call.action /\ work'[Len(work')].version = chosen.version
  BY <1>1, DidFacts DEF ConfigInv
<1>4. CurrentInv'
  BY <1>1 DEF CurrentInv, VersionPhase, Loading
<1>5. packages' = packages \/ \E p : packages' = [packages EXCEPT ![chosen.name] = p]
  BY DEF Run, RunPack, Executes
<1>6. \A n \in DOMAIN packages \ {chosen.name} : packages'[n] = packages[n]
  BY <1>5
<1>7. CASE call.action = "uninstall"
  <2>1. packages' = packages
        \/ packages' = [packages EXCEPT ![chosen.name] = [Me EXCEPT !.current = Empty]]
    BY <1>7 DEF Run, Executes
  <2>2. [Me EXCEPT !.current = Empty].current = Empty
    BY <1>2
  <2>3. packages'[chosen.name] = Me \/ packages'[chosen.name].current = Empty
    BY <1>2, <2>1, <2>2 DEF Me
  <2>4. call.bypass \/ chosen.version = Me.current
    BY <1>1, <1>7 DEF CurrentInv, VersionPhase
  <2> QED BY <1>3, <1>4, <1>6, <1>7, <2>3, <2>4 DEF CurrentStep, Me
<1>8. CASE call.action = "install"
  <2>1. Me.current = Empty
    BY <1>1, <1>8 DEF CurrentInv
  <2> QED BY <1>4, <1>6, <2>1 DEF CurrentStep, Me
<1>9. CASE call.action = "pack"
  <2>1. call.bypass \/ Me.current = Empty
    BY <1>1, <1>9 DEF CurrentInv, VersionPhase
  <2> QED BY <1>4, <1>6, <1>9, <2>1 DEF CurrentStep, Me
<1> QED BY <1>1, <1>7, <1>8, <1>9

LEMMA CurrentNext ==
    ASSUME TypeInv, ConfigInv, CurrentInv, [Next]_vars
    PROVE  CurrentInv' /\ [CurrentStep]_vars
<1>1. CASE UNCHANGED vars
  <2>1. VersionPhase' = VersionPhase /\ Me' = Me
    BY <1>1 DEF vars, VersionPhase, Loading, Replacing, Me
  <2> QED BY <1>1, <2>1 DEF vars, CurrentInv
<1>2. CASE Next
  <2>1. Finished => UNCHANGED vars
    BY DEF Finished
  <2> QED BY <1>1, <1>2, <2>1, LoadCurrent, StartCurrent, CommandCurrent, ReplaceCurrent,
             RunCurrent DEF Next, Step
<1> QED BY <1>1, <1>2

\* Whatever the command, the words and the files are: no run of tpkgs takes Current
\* from one version to another without --bypass, unless it removed the links of the
\* first one in the step before.
THEOREM CurrentKept == Spec => CurrentFollowsWork
<1>1. Init => CurrentInv
  BY StartFiles DEF Init, CurrentInv, VersionPhase, Loading, Replacing
<1>2. TypeInv /\ ConfigInv /\ CurrentInv /\ [Next]_vars => CurrentInv'
  BY CurrentNext
<1>3. TypeInv /\ ConfigInv /\ CurrentInv /\ [Next]_vars => [CurrentStep]_vars
  BY CurrentNext
<1>4. CurrentFollowsWork <=> [][CurrentStep]_vars
  BY DEF CurrentFollowsWork, CurrentStep
<1> QED BY <1>1, <1>2, <1>3, <1>4, ConfigInit, ConfigInductive, TypeInit, TypeNext, PTL DEF Spec

-----------------------------------------------------------------------------
(* The words and the choice                                                  *)

\* The package is opened, and the file of a version is not read yet.
Choosing ==
    \/ pc = "act"
    \/ Loading /\ ~Replacing /\ Latest(tp.read) = "user"

\* Until the work begins the package is as the words found it.
ChoiceInv ==
    /\ pc = "select" /\ call.action \notin Queries => args = call.words
    /\ Choosing => /\ SaysSelected(chosen, call.words) /\ args = chosen.rest
                   /\ Pkg(chosen.name).current \in Pkg(chosen.name).versions \cup {Empty}

\* What words say depends on the packages only.
LEMMA SameWords ==
    ASSUME UNCHANGED call, \A m : Pkg(m)' = Pkg(m), NEW s, NEW a
    PROVE  SaysSelected(s, a)' <=> SaysSelected(s, a)
<1>1. Own' = Own
  BY DEF Own, getDefaultPackageName
<1>2. ASSUME NEW t, NEW n, NEW rest, NEW flag
      PROVE  NextVersion(t, n, rest, flag)' <=> NextVersion(t, n, rest, flag)
  BY DEF NextVersion
<1>3. ASSUME NEW t, NEW b, NEW flag
      PROVE  Says(t, b, flag)' <=> Says(t, b, flag)
  BY <1>1, <1>2 DEF Says
<1>4. SaysPack(s, a)' <=> SaysPack(s, a)
  BY <1>1, <1>3 DEF SaysPack
<1>5. SaysTwo(s, a)' <=> SaysTwo(s, a)
  BY <1>3 DEF SaysTwo
<1> QED BY <1>3, <1>4, <1>5 DEF SaysSelected

LEMMA KeepsChoice ==
    ASSUME ChoiceInv, UNCHANGED <<packages, call, args, chosen>>,
           Choosing' => Choosing, pc' # "select" \/ pc = "select"
    PROVE  ChoiceInv'
<1>1. \A m : Pkg(m)' = Pkg(m)
  BY DEF Pkg
<1>2. PICK s, a : s = chosen /\ a = call.words
  OBVIOUS
<1>3. SaysSelected(s, a)' <=> SaysSelected(s, a)
  BY <1>1, SameWords
<1>4. SaysSelected(chosen, call.words)' <=> SaysSelected(chosen, call.words)
  BY <1>2, <1>3
<1>5. Pkg(chosen.name)' = Pkg(chosen.name)
  BY DEF Pkg
<1> QED BY <1>4, <1>5 DEF ChoiceInv

LEMMA LoadChoice ==
    ASSUME ChoiceInv, ConfigInv, Open \/ EndOfFile \/ \E l \in Lines : ReadLine(l)
    PROVE  ChoiceInv'
<1>1. Loading /\ UNCHANGED <<packages, call, args, chosen>>
  BY DEF Open, EndOfFile, ReadLine, Loading
<1>2. tp'.read = tp.read /\ tp2'.read = tp2.read
  <2>1. CASE Open \/ EndOfFile
    BY <2>1 DEF Open, EndOfFile
  <2>2. ASSUME NEW l \in Lines, ReadLine(l) PROVE tp'.read = tp.read /\ tp2'.read = tp2.read
    <3>1. /\ tp' = tp \/ tp' = Store(tp, l)
          /\ tp2' = tp2 \/ tp2' = Store(tp2, l)
      BY <2>2 DEF ReadLine
    <3> QED BY <3>1 DEF ConfigInv, SeqInv, Store
  <2> QED BY <2>1, <2>2
<1>3. Continue \/ pc' \in {"read", "failed"}
  BY DEF Open, EndOfFile, ReadLine
<1>4. (Choosing' => Choosing) /\ pc' # "select"
  <2>1. Replacing' = Replacing /\ Latest(tp'.read) = Latest(tp.read)
    BY <1>2 DEF Replacing
  <2>2. Continue => \/ Replacing /\ pc' = "replace"
                    \/ ~Replacing /\ Latest(tp.read) = "system" /\ pc' = "init"
                    \/ ~Replacing /\ Latest(tp.read) = "user" /\ pc' = "act"
                    \/ ~Replacing /\ Latest(tp.read) \notin {"system", "user"} /\ pc' = "gather"
    BY DEF Continue
  <2> QED BY <1>1, <1>3, <2>1, <2>2 DEF Choosing, Loading
<1> QED BY <1>1, <1>4, KeepsChoice

LEMMA SelectChoice ==
    ASSUME ChoiceInv, TypeInv, Select
    PROVE  ChoiceInv'
<1>1. PICK s : s = Selected
  OBVIOUS
<1>2. /\ pc = "select" /\ packages' = Made(s.name) /\ chosen' = s /\ args' = s.rest
      /\ IF s.ok THEN Begin("user", Empty) ELSE pc' = "failed" /\ UNCHANGED tp
      /\ UNCHANGED call /\ call.action \notin Queries /\ pc' # "select"
  BY <1>1 DEF Select, Begin
<1>3. Chosen(s, args) /\ (s.ok => SaysSelected(s, args)) /\ args = call.words
  BY <1>1, <1>2, SelectedFacts DEF TypeInv, WordsOK, ChoiceInv
<1>4. \A m : Pkg(m)' = Pkg(m)
  BY <1>2, MadeFacts
<1>5. CASE ~s.ok
  BY <1>2, <1>5 DEF ChoiceInv, Choosing, Loading
<1>6. CASE s.ok
  <2>1. PICK a : a = call.words
    OBVIOUS
  <2>2. SaysSelected(s, a)'
    <3>1. SaysSelected(s, a)
      BY <1>3, <1>6, <2>1
    <3> QED BY <1>2, <1>4, <3>1, SameWords
  <2>3. SaysSelected(chosen, call.words)'
    BY <1>2, <2>1, <2>2
  <2>4. PICK n : n = s.name
    OBVIOUS
  <2>5. Pkg(n)' = Pkg(n) /\ Pkg(n).current \in Pkg(n).versions \cup {Empty}
    BY <1>3, <1>4, <1>6, <2>4 DEF Chosen, Opens, Pkg, Fresh
  <2>6. (Pkg(chosen.name).current \in Pkg(chosen.name).versions \cup {Empty})'
    BY <1>2, <2>4, <2>5
  <2> QED BY <1>2, <2>3, <2>6 DEF ChoiceInv
<1> QED BY <1>5, <1>6

LEMMA OtherChoice ==
    ASSUME ChoiceInv, ConfigInv,
           \/ ParseArguments \/ Query \/ ListAll \/ RefuseWords \/ ShowConfig
           \/ Install \/ Uninstall \/ Pack \/ Look \/ Diff \/ Gather \/ Replace \/ Run
    PROVE  ChoiceInv'
<1>1. CASE ParseArguments
  BY <1>1 DEF ParseArguments, ChoiceInv, Choosing, Loading
<1>2. CASE Query
  <2>1. pc' \in {"done", "failed", "select"} /\ call' = call /\ call.action \in Queries
    BY <1>2 DEF Query
  <2> QED BY <2>1 DEF ChoiceInv, Choosing, Loading
<1>3. CASE pc' \in {"done", "failed", "run"}
  BY <1>3 DEF ChoiceInv, Choosing, Loading
<1>4. CASE Uninstall \/ Pack \/ Look
  <2>1. CASE pc' = "failed"
    BY <1>3, <2>1
  <2>2. CASE Begin("version", chosen.version)
    <3>1. SeqInv /\ UNCHANGED <<tp2, work>>
      BY <1>4 DEF Uninstall, Pack, Look, ConfigInv
    <3>2. pc' = "open" /\ Latest(tp'.read) = "version"
      BY <2>2, <3>1, BeginFacts
    <3> QED BY <3>2 DEF ChoiceInv, Choosing, Loading
  <2> QED BY <1>4, <2>1, <2>2 DEF Uninstall, Pack, Look
<1>5. CASE Install /\ pc' = "open"
  <2>1. /\ pc = "act" /\ UNCHANGED <<packages, tp, call, args, chosen>>
        /\ tp2' = [tp EXCEPT !.read = Append(@, File("version", Me.current))]
    BY <1>5 DEF Install, Is
  <2>2. tp2'.read = Append(tp.read, File("version", Me.current)) /\ IsSeq(tp.read)
    BY <2>1 DEF ConfigInv, SeqInv
  <2>3. Latest(tp2'.read) = "version"
    <3>1. PICK f : f = File("version", Me.current)
      OBVIOUS
    <3>2. Latest(tp2'.read) = f.kind
      BY <2>2, <3>1, OneMoreFile
    <3> QED BY <3>1, <3>2 DEF File
  <2>4. Replacing'
    BY <2>3, StartFiles DEF Replacing
  <2> QED BY <1>5, <2>4 DEF ChoiceInv, Choosing, Loading
<1>6. CASE Install \/ ListAll \/ RefuseWords \/ ShowConfig \/ Diff \/ Gather \/ Replace \/ Run
  <2>1. pc' \in {"done", "failed", "run"} \/ (Install /\ pc' = "open")
    BY <1>6 DEF Install, ListAll, RefuseWords, ShowConfig, Diff, Gather, Replace, Run, RunPack,
                Executes
  <2> QED BY <1>3, <1>5, <2>1
<1> QED BY <1>1, <1>2, <1>4, <1>6

LEMMA ChoiceNext == ASSUME ChoiceInv, ConfigInv, TypeInv, [Next]_vars PROVE ChoiceInv'
<1>1. CASE UNCHANGED vars
  <2>1. Choosing' = Choosing
    BY <1>1 DEF vars, Choosing, Loading, Replacing
  <2>2. UNCHANGED <<pc, packages, call, args, chosen>>
    BY <1>1 DEF vars
  <2> QED BY <2>1, <2>2, KeepsChoice
<1>2. CASE Next
  <2>1. Finished => UNCHANGED vars
    BY DEF Finished
  <2> QED BY <1>1, <1>2, <2>1, LoadChoice, SelectChoice, OtherChoice DEF Next, Step
<1> QED BY <1>1, <1>2

LEMMA ChoiceImplies == ASSUME NamedVersions, TypeInv, ChoiceInv PROVE SelectsAsDocumented
<1> SUFFICES ASSUME pc = "act", ~TooMany, call.action \notin {"files", "config"}
             PROVE  /\ Texts(call.words) \in Documented(chosen.name, chosen.version, chosen.second)
                    /\ call.action \in {"install", "uninstall"} => chosen.version \in Me.versions
  BY DEF SelectsAsDocumented, Texts
<1> PICK s : s = chosen
  OBVIOUS
<1> PICK a : a = call.words
  OBVIOUS
<1>1. SaysSelected(s, a) /\ s.rest = <<>>
  BY DEF ChoiceInv, Choosing, TooMany
<1>2. a \in Seq(Word) /\ Named(a)
  BY WordListType DEF TypeInv, WordsOK
<1>3. Me = Pkg(s.name)
  BY DEF TypeInv, KnownPackages, Settled, Me, Pkg
<1>4. CASE call.action = "install"
  <2>1. Says(s, a, "CURRENT") /\ s.version \in Me.versions
    BY <1>1, <1>3, <1>4 DEF SaysSelected
  <2>2. PICK given : given = Written(s.version, getRecentVersion(Me.versions))
    OBVIOUS
  <2>3. <<s.version>> \in given /\ (s.version = getRecentVersion(Me.versions) => <<>> \in given)
    BY <2>2 DEF Written
  <2>4. Default("CURRENT", Pkg(s.name)) = getRecentVersion(Me.versions)
    BY <1>3 DEF Default
  <2>5. Texts(a) \in Spelled(s.name, given) \cup Joined(s.name, s.version)
    BY <1>1, <1>2, <2>1, <2>3, <2>4, OneVersion
  <2> QED BY <1>4, <2>1, <2>2, <2>5 DEF Documented, Joined
<1>5. CASE call.action = "uninstall"
  <2>1. Says(s, a, "INSTALLED") /\ s.version \in Me.versions
    BY <1>1, <1>3, <1>5 DEF SaysSelected
  <2>2. PICK given : given = Written(s.version, Me.current)
    OBVIOUS
  <2>3. <<s.version>> \in given /\ (s.version = Me.current => <<>> \in given)
    BY <2>2 DEF Written
  <2>4. Default("INSTALLED", Pkg(s.name)) = Me.current
    BY <1>3 DEF Default
  <2>5. Texts(a) \in Spelled(s.name, given) \cup Joined(s.name, s.version)
    BY <1>1, <1>2, <2>1, <2>3, <2>4, OneVersion
  <2> QED BY <1>5, <2>1, <2>2, <2>5 DEF Documented, Joined
<1>6. CASE call.action = "pack"
  <2>1. PICK given : given = {<<s.version>>}
    OBVIOUS
  <2>2. Texts(a) \in Spelled(s.name, given) \cup Joined(s.name, s.version)
    <3>1. CASE /\ a # <<>> /\ Tail(a) = <<>> /\ ~Head(a).colon /\ Own # Empty
               /\ s = Take(Own, Head(a).name, <<>>)
      <4>1. s.name = Own /\ s.version = Head(a).name
        BY <3>1 DEF Take
      <4>2. Texts(a) = <<s.version>>
        BY <1>2, <3>1, <4>1, OneText, PlainText
      <4>3. <<s.version>> \in given
        BY <2>1
      <4> QED BY <4>1, <4>2, <4>3, Spellings
    <3>2. CASE Says(s, a, "NO_DEFAULT")
      <4>1. Default("NO_DEFAULT", Pkg(s.name)) = Empty
        BY DEF Default
      <4>2. <<s.version>> \in given
        BY <2>1
      <4> QED BY <1>1, <1>2, <3>2, <4>1, <4>2, OneVersion
    <3> QED BY <1>1, <1>6, <3>1, <3>2 DEF SaysSelected, SaysPack
  <2> QED BY <1>6, <2>1, <2>2 DEF Documented, Joined
<1>7. CASE call.action = "diff"
  <2>1. SaysTwo(s, a)
    BY <1>1, <1>7 DEF SaysSelected
  <2> QED BY <1>1, <1>2, <1>7, <2>1, TwoVersions DEF Documented, Joined
<1>8. CASE call.action \notin {"install", "uninstall", "pack", "diff"}
  <2>1. Says(s, a, "NONE_NEEDED") /\ s.second = Empty
    BY <1>1, <1>8 DEF SaysSelected
  <2> QED BY <1>1, <1>2, <1>8, <2>1, PackageAlone DEF Documented, Joined
<1> QED BY <1>4, <1>5, <1>6, <1>7, <1>8

\* For every command line whose words <pkg>:<version> have a version: the package and
\* the versions an operation goes on with are what the manual says the words mean, and
\* install and uninstall go on with a version that exists.
THEOREM WordsAsDocumented == NamedVersions /\ Spec => []SelectsAsDocumented
<1>1. Init => ChoiceInv
  BY StartFiles DEF Init, ChoiceInv, Choosing, Loading, Replacing
<1>2. ChoiceInv /\ ConfigInv /\ TypeInv /\ [Next]_vars => ChoiceInv'
  BY ChoiceNext
<1>3. CASE NamedVersions
  <2>1. TypeInv /\ ChoiceInv => SelectsAsDocumented
    BY <1>3, ChoiceImplies
  <2> QED BY <1>1, <1>2, <2>1, ConfigInit, ConfigInductive, TypeInit, TypeNext, PTL DEF Spec
<1> QED BY <1>3

-----------------------------------------------------------------------------
(* The comparison of versions                                                *)

\* The smallest counterexample, for the proofs by induction on a finite set.
LEMMA Smallest ==
    ASSUME NEW S, IsFiniteSet(S), NEW B, B \subseteq SUBSET S, B # {}
    PROVE  \E s \in B : \A t \in B : t \subseteq s => t = s
<1> DEFINE R == StrictSubsetOrdering(S)
<1>1. IsWellFoundedOn(R, SUBSET S)
  BY FS_StrictSubsetOrderingWellFounded, FS_FiniteSubsetsOfFinite
<1> HIDE DEF R
<1>2. PICK s \in B : \A t \in B : ~ (<<t, s>> \in R)
  BY <1>1, WFMin
<1> QED BY <1>2 DEF R, StrictSubsetOrdering

\* A finite set that is not empty has a last element in every total order.
LEMMA HasLast ==
    ASSUME NEW S, IsFiniteSet(S), S # {}, NEW R,
           \A x, y \in S : x = y \/ <<x, y>> \in R \/ <<y, x>> \in R,
           \A x, y, z \in S : <<x, y>> \in R /\ <<y, z>> \in R => <<x, z>> \in R
    PROVE  \E x \in S : \A y \in S \ {x} : <<y, x>> \in R
<1> DEFINE Good(s) == \E x \in s : \A y \in s \ {x} : <<y, x>> \in R
           B == {s \in SUBSET S : s # {} /\ ~Good(s)}
<1>1. B = {}
  <2>1. SUFFICES ASSUME B # {} PROVE FALSE
    OBVIOUS
  <2>2. PICK s \in B : \A t \in B : t \subseteq s => t = s
    <3>1. B \subseteq SUBSET S
      OBVIOUS
    <3> HIDE DEF B
    <3> QED BY <2>1, <3>1, Smallest
  <2>3. s \subseteq S /\ s # {} /\ ~Good(s)
    OBVIOUS
  <2>4. PICK e \in s : TRUE
    BY <2>3
  <2>5. s # {e}
    BY <2>3
  <2>6. PICK x \in s \ {e} : \A y \in (s \ {e}) \ {x} : <<y, x>> \in R
    <3>1. s \ {e} \notin B
      <4>1. s \ {e} # s /\ s \ {e} \subseteq s
        BY <2>4
      <4> HIDE DEF B
      <4> QED BY <2>2, <4>1
    <3> QED BY <2>3, <2>5, <3>1
  <2>7. CASE <<e, x>> \in R
    <3>1. \A y \in s \ {x} : <<y, x>> \in R
      BY <2>6, <2>7
    <3> QED BY <2>3, <2>6, <3>1
  <2>8. CASE <<x, e>> \in R
    <3>1. \A y \in s \ {e} : <<y, e>> \in R
      BY <2>3, <2>4, <2>6, <2>8
    <3> QED BY <2>3, <2>4, <3>1
  <2>9. x \in S /\ e \in S /\ x # e
    BY <2>3, <2>4, <2>6
  <2> QED BY <2>7, <2>8, <2>9
<1>2. S \in SUBSET S
  OBVIOUS
<1> HIDE DEF Good
<1>3. Good(S)
  BY <1>1, <1>2
<1> QED BY <1>3 DEF Good

LEMMA PositionFacts ==
    /\ \A v \in Versions : Position(v) \in Nat
    /\ \A v, w \in Versions : Position(v) = Position(w) => v = w
    /\ "new" \notin Versions /\ Empty \notin Versions /\ IsFiniteSet(Versions)
<1>1. /\ DOMAIN VersionOrder = 1 .. Len(VersionOrder) /\ Len(VersionOrder) \in Nat
      /\ \A k \in DOMAIN VersionOrder : VersionOrder[k] \in STRING \ {Empty, "new"}
  BY VersionsAssumption
<1>2. \A v \in Versions : Position(v) \in DOMAIN VersionOrder /\ VersionOrder[Position(v)] = v
  BY DEF Versions, Position
<1>3. IsFiniteSet(Versions)
  <2>1. IsFiniteSet(DOMAIN VersionOrder)
    BY <1>1, FS_Interval
  <2>2. PICK f : f \in Surjection(DOMAIN VersionOrder, Versions)
    <3>1. VersionOrder \in [DOMAIN VersionOrder -> Versions]
      BY VersionsAssumption DEF Versions
    <3>2. VersionOrder \in Surjection(DOMAIN VersionOrder, Versions)
      BY <3>1 DEF Surjection, Versions
    <3> QED BY <3>2
  <2> QED BY <2>1, <2>2, FS_Surjection
<1> QED BY <1>1, <1>2, <1>3 DEF Versions

LEMMA RecentFacts ==
    ASSUME NEW V, V \subseteq Versions, V # {}
    PROVE  /\ getRecentVersion(V) \in V
           /\ \A v \in V : Position(v) <= Position(getRecentVersion(V))
<1> DEFINE R == {e \in V \X V : Position(e[1]) < Position(e[2])}
<1>1. \A x, y \in V : <<x, y>> \in R <=> Position(x) < Position(y)
  OBVIOUS
<1>2. \A x \in V : Position(x) \in Nat
  BY PositionFacts
<1>3. IsFiniteSet(V)
  BY PositionFacts, FS_Subset
<1>4. \A x, y \in V : x = y \/ <<x, y>> \in R \/ <<y, x>> \in R
  <2>1. \A x, y \in V : Position(x) = Position(y) => x = y
    BY PositionFacts
  <2> SUFFICES ASSUME NEW x \in V, NEW y \in V PROVE x = y \/ <<x, y>> \in R \/ <<y, x>> \in R
    OBVIOUS
  <2>2. Position(x) < Position(y) \/ Position(y) < Position(x) \/ Position(x) = Position(y)
    BY <1>2
  <2> HIDE DEF R
  <2> QED BY <1>1, <2>1, <2>2
<1> HIDE DEF R
<1>5. \A x, y, z \in V : <<x, y>> \in R /\ <<y, z>> \in R => <<x, z>> \in R
  BY <1>1, <1>2
<1>6. PICK x \in V : \A y \in V \ {x} : <<y, x>> \in R
  BY <1>3, <1>4, <1>5, HasLast
<1>7. ASSUME NEW y \in V PROVE Position(y) <= Position(x)
  <2>1. Position(x) \in Nat /\ Position(y) \in Nat
    BY <1>2
  <2>2. y = x \/ Position(y) < Position(x)
    BY <1>1, <1>6
  <2> QED BY <2>1, <2>2
<1> QED BY <1>7 DEF getRecentVersion

\* The two most recent of at least two versions.
LEMMA SecondFacts ==
    ASSUME NEW V, V \subseteq Versions, Cardinality(V) >= 2,
           NEW r, r = getRecentVersion(V), NEW s, s = getSecondRecentVersion(V)
    PROVE  /\ r \in V /\ s \in V /\ r # s /\ Position(s) < Position(r)
           /\ \A v \in V \ {r} : Position(v) <= Position(s)
<1>1. V # {} /\ \A x \in V : V \ {x} # {}
  <2>1. V # {}
    BY FS_EmptySet
  <2>2. ASSUME NEW x \in V, V \ {x} = {} PROVE FALSE
    <3>1. V = {x}
      BY <2>2
    <3>2. Cardinality(V) = 1
      BY <3>1, FS_Singleton
    <3> QED BY <3>2
  <2> QED BY <2>1, <2>2
<1>2. r \in V /\ \A v \in V : Position(v) <= Position(r)
  BY <1>1, RecentFacts
<1>3. s \in V \ {r} /\ \A v \in V \ {r} : Position(v) <= Position(s)
  <2>1. PICK U : U = V \ {r}
    OBVIOUS
  <2>2. U \subseteq Versions /\ U # {} /\ s = getRecentVersion(U)
    BY <1>1, <1>2, <2>1 DEF getSecondRecentVersion
  <2> QED BY <2>1, <2>2, RecentFacts
<1>4. Position(s) \in Nat /\ Position(r) \in Nat /\ (Position(s) = Position(r) => s = r)
  BY <1>2, <1>3, PositionFacts
<1> QED BY <1>2, <1>3, <1>4

NoDiff == \A i \in DOMAIN work : work[i].op # "diff"

\* Until the run ends there are only versions that have a place in the order, and
\* nothing was compared.
DiffInv ==
    /\ pc \notin {"done", "failed"} =>
          NoDiff /\ \A n \in DOMAIN packages : packages[n].versions \subseteq Versions
    /\ NoDiff \/ DiffAsDocumented

\* What the comparison of the two versions of c says, where --diff names v1 and v2.
ComparesWell(c, V, v1, v2) ==
    /\ c[1] \in V /\ c[2] # c[1] /\ c[3] = (c[2] \notin V)
    /\ v1 = Empty =>
         /\ c[2] \in V
         /\ \A v \in V \ {c[2]} : Position(v) <= Position(c[1])
         /\ Position(c[1]) < Position(c[2])
    /\ v2 # Empty => c[2] = v2
    /\ v1 # Empty => v1 \in {c[1], c[2]}

LEMMA ComparedFacts ==
    ASSUME NEW V, V = Me.versions, V \subseteq Versions, V # {},
           Me.current \in V \cup {Empty}, NEW v1, NEW v2, v2 # Empty => v1 # Empty,
           NEW c, c = Compared(V, v1, v2), c[1] # c[2]
    PROVE  ComparesWell(c, V, v1, v2)
<1>1. ASSUME NEW a, NEW b, NEW s, c = <<a, b, s>>
      PROVE  c[1] = a /\ c[2] = b /\ c[3] = s
  BY <1>1
<1>2. CASE v1 = Empty /\ Cardinality(V) >= 2
  <2>1. PICK r : r = getRecentVersion(V)
    OBVIOUS
  <2>2. PICK s : s = getSecondRecentVersion(V)
    OBVIOUS
  <2>3. /\ r \in V /\ s \in V /\ r # s /\ Position(s) < Position(r)
        /\ \A v \in V \ {r} : Position(v) <= Position(s)
    BY <1>2, <2>1, <2>2, SecondFacts
  <2>4. c = <<s, r, FALSE>>
    BY <1>2, <2>1, <2>2 DEF Compared
  <2> QED BY <1>1, <1>2, <2>3, <2>4 DEF ComparesWell
<1>3. CASE v1 # Empty /\ v2 = Empty /\ v1 \in V
  <2>1. c = <<v1, "new", TRUE>>
    BY <1>3 DEF Compared
  <2>2. "new" \notin V
    BY PositionFacts
  <2> QED BY <1>1, <1>3, <2>1, <2>2 DEF ComparesWell
<1>4. CASE v1 # Empty /\ v2 = Empty /\ v1 \notin V
  <2>1. PICK o : o = getInstalledOrRecentVersion(Me)
    OBVIOUS
  <2>2. c = <<o, v1, TRUE>>
    BY <1>4, <2>1 DEF Compared
  <2>3. o \in V
    BY <2>1, RecentFacts DEF getInstalledOrRecentVersion
  <2> QED BY <1>1, <1>4, <2>2, <2>3 DEF ComparesWell
<1>5. CASE v1 # Empty /\ v2 # Empty /\ v1 \in V
  <2>1. c = <<v1, v2, v2 \notin V>>
    BY <1>5 DEF Compared
  <2> QED BY <1>1, <1>5, <2>1 DEF ComparesWell
<1>6. CASE \/ v1 = Empty /\ ~(Cardinality(V) >= 2)
           \/ v1 # Empty /\ v2 # Empty /\ v1 \notin V
  <2>1. c = <<Empty, Empty, FALSE>>
    BY <1>6 DEF Compared
  <2> QED BY <1>1, <2>1
<1> QED BY <1>2, <1>3, <1>4, <1>5, <1>6

\* Only --diff compares.
LEMMA DidOther ==
    ASSUME SeqInv, NoDiff, NEW op, op # "diff", NEW v, NEW w, NEW sys, NEW r,
           Did(op, v, w, sys, r)
    PROVE  NoDiff'
<1>1. /\ DOMAIN work' = 1 .. (Len(work) + 1) /\ DOMAIN work = 1 .. Len(work)
      /\ Len(work) \in Nat /\ \A i \in 1 .. Len(work) : work'[i] = work[i]
      /\ work'[Len(work) + 1].op = op
  BY DidFacts
<1>2. ASSUME NEW i \in DOMAIN work' PROVE work'[i].op # "diff"
  <2>1. CASE i = Len(work) + 1
    BY <1>1, <2>1
  <2>2. CASE i \in 1 .. Len(work)
    BY <1>1, <2>2 DEF NoDiff
  <2> QED BY <1>1, <2>1, <2>2
<1> QED BY <1>2 DEF NoDiff

LEMMA DiffWell ==
    ASSUME DiffInv, ChoiceInv, ConfigInv, TypeInv, Diff
    PROVE  DiffInv'
<1>1. /\ pc = "act" /\ UNCHANGED <<packages, call, chosen>> /\ pc' \in {"done", "failed"}
      /\ call.action = "diff"
  BY DEF Diff, Is
<1>2. CASE work' = work
  BY <1>1, <1>2 DEF DiffInv, NoDiff
<1>3. CASE work' # work
  <2>1. PICK c : c = Compared(Me.versions, chosen.version, chosen.second)
    OBVIOUS
  <2>2. Me.versions # {} /\ c[1] # c[2] /\ Did("diff", c[1], c[2], c[3], tp)
    BY <1>3, <2>1 DEF Diff
  <2>3. Me = Pkg(chosen.name) /\ chosen.name \in DOMAIN packages
    BY <1>1 DEF TypeInv, KnownPackages, Settled, Me, Pkg
  <2>4. Me.versions \subseteq Versions /\ Me.current \in Me.versions \cup {Empty} /\ NoDiff
    BY <1>1, <2>3 DEF DiffInv, ChoiceInv, Choosing, Me
  <2>5. chosen.second # Empty => chosen.version # Empty
    BY <1>1 DEF ChoiceInv, Choosing, SaysSelected, SaysTwo, Choice
  <2>6. ComparesWell(c, Me.versions, chosen.version, chosen.second)
    BY <2>1, <2>2, <2>4, <2>5, ComparedFacts
  <2>7. SeqInv
    BY DEF ConfigInv
  <2>8. /\ DOMAIN work' = 1 .. (Len(work) + 1) /\ DOMAIN work = 1 .. Len(work)
        /\ Len(work) \in Nat /\ \A i \in 1 .. Len(work) : work'[i] = work[i]
        /\ LET e == work'[Len(work) + 1] IN
           /\ e.name = chosen'.name /\ e.version = c[1] /\ e.second = c[2] /\ e.system = c[3]
    BY <2>2, <2>7, DidFacts
  <2>9. ASSUME NEW i \in DOMAIN work', work'[i].op = "diff" PROVE i = Len(work) + 1
    BY <2>4, <2>8, <2>9 DEF NoDiff
  <2>10. DiffAsDocumented'
    BY <1>1, <2>6, <2>8, <2>9 DEF DiffAsDocumented, ComparesWell, Me
  <2> QED BY <1>1, <2>10 DEF DiffInv
<1> QED BY <1>2, <1>3

LEMMA OtherDiff ==
    ASSUME DiffInv, ConfigInv, TypeInv,
           \/ Open \/ EndOfFile \/ \E l \in Lines : ReadLine(l)
           \/ ParseArguments \/ Select \/ Query \/ ListAll \/ RefuseWords \/ ShowConfig
           \/ Install \/ Uninstall \/ Pack \/ Look \/ Gather \/ Replace \/ Run
    PROVE  DiffInv'
<1>1. pc \notin {"done", "failed"} /\ NoDiff /\ SeqInv
      /\ \A n \in DOMAIN packages : packages[n].versions \subseteq Versions
  BY DEF Open, EndOfFile, ReadLine, ParseArguments, Select, Query, ListAll, RefuseWords,
         ShowConfig, Install, Uninstall, Pack, Look, Gather, Replace, Run, Is, DiffInv, ConfigInv
<1>2. NoDiff'
  <2>1. CASE work' = work
    BY <1>1, <2>1 DEF NoDiff
  <2>2. CASE work' # work
    <3>1. \E op, v, r : op # "diff" /\ Did(op, v, Empty, FALSE, r)
      <4>1. CASE Query
        BY <2>2, <4>1 DEF Query
      <4>2. CASE Gather
        BY <2>2, <4>2 DEF Gather
      <4>3. CASE Replace
        BY <4>3 DEF Replace
      <4>4. CASE Run
        <5>1. Did(call.action, chosen.version, Empty, FALSE, tp)
              /\ call.action \in {"install", "uninstall", "pack"}
          BY <4>4 DEF Run, ConfigInv, PhaseInv
        <5> QED BY <5>1
      <4> QED BY <2>2, <4>1, <4>2, <4>3, <4>4
              DEF Open, EndOfFile, ReadLine, ParseArguments, Select, ListAll, RefuseWords,
                  ShowConfig, Install, Uninstall, Pack, Look
    <3> QED BY <1>1, <3>1, DidOther
  <2> QED BY <2>1, <2>2
<1>3. pc' \in {"done", "failed"} \/ \A n \in DOMAIN packages' : packages'[n].versions \subseteq Versions
  <2>1. CASE packages' = packages
    BY <1>1, <2>1
  <2>2. CASE Select \/ Query
    <3>1. PICK n : packages' = Made(n)
      BY <2>2 DEF Select, Query
    <3>2. \A m \in DOMAIN packages' : packages'[m] = Pkg(m)
      BY <3>1, MadeFacts
    <3> QED BY <1>1, <3>2 DEF Pkg, Fresh
  <2>3. CASE Replace
    <3>1. /\ Me = [versions |-> Me.versions, current |-> Me.current]
          /\ chosen.name \in DOMAIN packages
      BY <2>3 DEF Replace, TypeInv, PackagesOK, KnownPackages, Settled, Me
    <3>2. packages' = packages
          \/ packages' = [packages EXCEPT ![chosen.name] = [Me EXCEPT !.current = Empty]]
      BY <2>3 DEF Replace, Executes
    <3>3. [Me EXCEPT !.current = Empty].versions = Me.versions
      BY <3>1
    <3> QED BY <1>1, <3>1, <3>2, <3>3 DEF Me
  <2>4. CASE Run
    BY <2>4 DEF Run, RunPack, Executes
  <2> QED BY <2>1, <2>2, <2>3, <2>4
          DEF Open, EndOfFile, ReadLine, ParseArguments, ListAll, RefuseWords,
              ShowConfig, Install, Uninstall, Pack, Look, Gather
<1> QED BY <1>2, <1>3 DEF DiffInv

LEMMA DiffNext ==
    ASSUME DiffInv, ChoiceInv, ConfigInv, TypeInv, [Next]_vars
    PROVE  DiffInv'
<1>1. CASE UNCHANGED vars
  BY <1>1 DEF vars, DiffInv, NoDiff, DiffAsDocumented
<1>2. CASE Next
  <2>1. Finished => UNCHANGED vars
    BY DEF Finished
  <2> QED BY <1>1, <1>2, <2>1, DiffWell, OtherDiff DEF Next, Step
<1> QED BY <1>1, <1>2

LEMMA DiffInit == Init => DiffInv
<1> SUFFICES ASSUME Init PROVE DiffInv
  OBVIOUS
<1>1. NoDiff
  <2>1. DOMAIN work = {}
    BY DEF Init
  <2> QED BY <2>1 DEF NoDiff
<1>2. packages \in Disks
  BY DEF Init
<1> QED BY <1>1, <1>2, DisksAssumption DEF DiffInv

\* In every store and for every command line: --diff compares a version that exists
\* with another one or with the system, and without words for versions the two most
\* recent ones, the older first.
THEOREM DiffsAsDocumented == Spec => []DiffAsDocumented
<1>1. Init => ChoiceInv
  BY StartFiles DEF Init, ChoiceInv, Choosing, Loading, Replacing
<1>2. ChoiceInv /\ ConfigInv /\ TypeInv /\ [Next]_vars => ChoiceInv'
  BY ChoiceNext
<1>3. DiffInv /\ ChoiceInv /\ ConfigInv /\ TypeInv /\ [Next]_vars => DiffInv'
  BY DiffNext
<1>4. DiffInv => DiffAsDocumented
  BY DEF DiffInv, NoDiff, DiffAsDocumented
<1> QED BY <1>1, <1>2, <1>3, <1>4, DiffInit, ConfigInit, ConfigInductive, TypeInit, TypeNext,
           PTL DEF Spec

-----------------------------------------------------------------------------
(* The marks of --diff                                                       *)

LEMMA CompareFacts ==
    ASSUME NEW c \in Seq(Nat), NEW d \in Seq(Nat)
    PROVE  /\ Mark(compare(c, d)) = "=" => c = d
           /\ Mark(compare(c, d)) = "-" => Len(d) < Len(c)
           /\ Mark(compare(c, d)) = "+" => Len(d) > Len(c)
<1>1. SubSeq(c, 1, Len(c)) = c /\ SubSeq(d, 1, Len(d)) = d
  BY SubSeqFull
<1>2. Len(c) \in Nat /\ Len(d) \in Nat
  OBVIOUS
<1>3. CASE c = d
  BY <1>3 DEF compare, Mark
<1>4. CASE c # d /\ Begins(c, d)
  <2>2. Len(c) # Len(d)
    BY <1>1, <1>4 DEF Begins
  <2>3. Len(c) < Len(d) /\ ~Begins(d, c)
    BY <1>2, <1>4, <2>2 DEF Begins
  <2>1. Mark(compare(c, d)) = "+"
    BY <1>4, <2>3 DEF compare, Mark
  <2> QED BY <1>2, <2>1, <2>3
<1>5. CASE c # d /\ ~Begins(c, d) /\ Begins(d, c)
  <2>1. Mark(compare(c, d)) = "-"
    BY <1>5 DEF compare, Mark
  <2>2. Len(c) # Len(d)
    BY <1>1, <1>5 DEF Begins
  <2> QED BY <1>2, <1>5, <2>1, <2>2 DEF Begins
<1>6. CASE c # d /\ ~Begins(c, d) /\ ~Begins(d, c)
  <2>1. Mark(compare(c, d)) = "~"
    BY <1>6 DEF compare, Mark
  <2> QED BY <2>1
<1> QED BY <1>3, <1>4, <1>5, <1>6

LEMMA ShownDiff ==
    ASSUME NEW i, NEW o, IsItem(i), IsItem(o)
    PROVE  /\ showDiff(i, o) = "=" /\ i.type \in {"link", "reg"} => o = i
           /\ showDiff(i, o) = "=" => o.type = i.type
           /\ showDiff(i, o) = "-" => Len(o.content) < Len(i.content)
           /\ showDiff(i, o) = "+" => Len(o.content) > Len(i.content)
<1>1. i = Item(i.type, i.content) /\ o = Item(o.type, o.content)
  BY DEF IsItem
<1>2. CASE i.type # o.type
  BY <1>2 DEF showDiff
<1>3. CASE i.type = o.type /\ i.type = "reg"
  <2>1. i.content \in Seq(Nat) /\ o.content \in Seq(Nat)
    BY <1>3 DEF IsItem
  <2>2. showDiff(i, o) = Mark(compare(i.content, o.content))
    BY <1>3 DEF showDiff
  <2> QED BY <1>1, <1>3, <2>1, <2>2, CompareFacts
<1>4. CASE i.type = o.type /\ i.type # "reg"
  <2>1. showDiff(i, o) \in {"=", "~"} /\ (i.type = "link" /\ showDiff(i, o) = "=" => i.content = o.content)
    BY <1>4 DEF showDiff
  <2> QED BY <1>1, <1>4, <2>1
<1> QED BY <1>2, <1>3, <1>4

\* The marks of a report.
LEMMA ReportFacts ==
    ASSUME NEW old, NEW new, NEW there
    PROVE  /\ DOMAIN Report(old, new, there).both = DOMAIN old \cap DOMAIN new
           /\ \A x \in DOMAIN old \cap DOMAIN new :
                 Report(old, new, there).both[x] = showDiff(old[x], new[x])
           /\ Report(old, new, there).onlyOld = listUnique(old, new, there)
           /\ Report(old, new, there).onlyNew = listUnique(new, old, {})
BY DEF Report

\* For all lists of files: a report without marks means that no link and no regular
\* file differs, and that the directories of one list only are there.
THEOREM SilenceIsSameness == Spec => []SilentDiffs
<1>1. ASSUME NEW old \in Trees, NEW new \in Trees, NEW there \in SUBSET DOMAIN old
      PROVE  SilentMeansSame(old, new, there)
  <2> SUFFICES ASSUME Silent(Report(old, new, there)) PROVE SilentMeansSame(old, new, there)
    BY DEF SilentMeansSame
  <2>1. /\ \A x \in DOMAIN old \cap DOMAIN new : showDiff(old[x], new[x]) = "="
        /\ listUnique(old, new, there) = {} /\ listUnique(new, old, {}) = {}
    BY ReportFacts DEF Silent
  <2>2. \A x \in DOMAIN old \ DOMAIN new : old[x].type = "dir" /\ x \in there
    BY <2>1 DEF listUnique
  <2>3. DOMAIN new \subseteq DOMAIN old
    BY <2>1 DEF listUnique
  <2>4. ASSUME NEW x \in DOMAIN old, old[x].type \in {"link", "reg"}
        PROVE  x \in DOMAIN new /\ new[x] = old[x]
    <3>1. x \in DOMAIN new
      BY <2>2, <2>4
    <3>2. IsItem(old[x]) /\ IsItem(new[x])
      BY <3>1, TreesAssumption
    <3> QED BY <2>1, <2>4, <3>1, <3>2, ShownDiff
  <2> QED BY <2>2, <2>3, <2>4 DEF SilentMeansSame
<1>2. SilentDiffs
  BY <1>1 DEF SilentDiffs
<1> QED BY <1>2, PTL

\* For all lists of files: a "-" means that the newer file is the smaller one, and a
\* "+" that it is the greater one.
THEOREM MarksAreSizes == Spec => []SizeMarks
<1>1. ASSUME NEW old \in Trees, NEW new \in Trees
      PROVE  MarksTellSize(old, new, {})
  <2> SUFFICES ASSUME NEW x \in DOMAIN Report(old, new, {}).both
               PROVE  /\ Report(old, new, {}).both[x] = "-" => Len(new[x].content) < Len(old[x].content)
                      /\ Report(old, new, {}).both[x] = "+" => Len(new[x].content) > Len(old[x].content)
    BY DEF MarksTellSize
  <2>1. x \in DOMAIN old /\ x \in DOMAIN new /\ Report(old, new, {}).both[x] = showDiff(old[x], new[x])
    BY ReportFacts
  <2>2. IsItem(old[x]) /\ IsItem(new[x])
    BY <2>1, TreesAssumption
  <2> QED BY <2>1, <2>2, ShownDiff
<1>2. SizeMarks
  BY <1>1 DEF SizeMarks
<1> QED BY <1>2, PTL

-----------------------------------------------------------------------------
(* The order of paths                                                        *)

\* The first n components of p and q are the same.
Agree(p, q, n) ==
    n \in Nat /\ n <= Len(p) /\ n <= Len(q) /\ \A k \in 1 .. n : p[k] = q[k]

LEMMA PathLength ==
    ASSUME NEW p \in AnyPath
    PROVE  /\ Len(p) \in Nat /\ \A k \in 1 .. Len(p) : p[k] \in Names \cup {Blank}
BY DEF AnyPath

LEMMA CommonFacts ==
    ASSUME NEW p \in AnyPath, NEW q \in AnyPath, NEW n, n = Common(p, q)
    PROVE  /\ Agree(p, q, n)
           /\ n = Len(p) \/ n = Len(q) \/ p[n + 1] # q[n + 1]
<1>1. Len(p) \in Nat /\ Len(q) \in Nat
  BY PathLength
<1> DEFINE N == {k \in 0 .. Len(p) : Agree(p, q, k)}
           R == {e \in N \X N : e[1] < e[2]}
<1>2. IsFiniteSet(N) /\ N \subseteq Nat
  <2>1. IsFiniteSet(0 .. Len(p)) /\ N \subseteq 0 .. Len(p)
    BY <1>1, FS_Interval
  <2>2. N \subseteq Nat
    BY <1>1
  <2> HIDE DEF N
  <2> QED BY <2>1, <2>2, FS_Subset
<1>3. 0 \in N
  BY <1>1 DEF Agree
<1>4. \A x, y \in N : <<x, y>> \in R <=> x < y
  OBVIOUS
<1>5. \A k \in 0 .. Len(p) : k \in N <=> Agree(p, q, k)
  OBVIOUS
<1> HIDE DEF N, R
<1>6. PICK m \in N : \A y \in N \ {m} : <<y, m>> \in R
  <2>1. ASSUME NEW x \in N, NEW y \in N
        PROVE  x = y \/ <<x, y>> \in R \/ <<y, x>> \in R
    <3>1. x < y \/ y < x \/ x = y
      BY <1>2
    <3> QED BY <1>4, <3>1
  <2>2. \A x, y, z \in N : <<x, y>> \in R /\ <<y, z>> \in R => <<x, z>> \in R
    BY <1>2, <1>4
  <2> QED BY <1>2, <1>3, <2>1, <2>2, HasLast
<1>7. m \in 0 .. Len(p) /\ Agree(p, q, m) /\ m + 1 \notin N
  <2>1. m \in 0 .. Len(p) /\ Agree(p, q, m)
    BY DEF N
  <2>2. ~(m + 1 < m) /\ m + 1 # m
    BY <2>1
  <2>3. m + 1 \notin N
    BY <1>4, <1>6, <2>2
  <2> QED BY <2>1, <2>3
<1>8. m = Len(p) \/ m = Len(q) \/ p[m + 1] # q[m + 1]
  <2>1. SUFFICES ASSUME m # Len(p), m # Len(q), p[m + 1] = q[m + 1] PROVE FALSE
    OBVIOUS
  <2>2. m + 1 \in 0 .. Len(p) /\ m + 1 <= Len(q) /\ \A k \in 1 .. m + 1 : k \in 1 .. m \/ k = m + 1
    BY <1>1, <1>7, <2>1 DEF Agree
  <2>3. Agree(p, q, m + 1)
    BY <1>7, <2>1, <2>2 DEF Agree
  <2> QED BY <1>5, <1>7, <2>2, <2>3
<1>9. \E k \in 0 .. Len(p) :
         /\ k <= Len(q) /\ \A i \in 1 .. k : p[i] = q[i]
         /\ k = Len(p) \/ k = Len(q) \/ p[k + 1] # q[k + 1]
  BY <1>7, <1>8 DEF Agree
<1>10. /\ n \in 0 .. Len(p)
       /\ n <= Len(q) /\ \A k \in 1 .. n : p[k] = q[k]
       /\ n = Len(p) \/ n = Len(q) \/ p[n + 1] # q[n + 1]
  BY <1>9 DEF Common
<1> QED BY <1>1, <1>10 DEF Agree

LEMMA PrefixFacts ==
    ASSUME NEW p \in AnyPath, NEW q \in AnyPath
    PROVE  Prefix(p, q) <=> Agree(p, q, Len(p))
<1>1. PICK n : n = Common(p, q)
  OBVIOUS
<1>2. /\ Agree(p, q, n) /\ Len(p) \in Nat /\ Len(q) \in Nat
      /\ n = Len(p) \/ n = Len(q) \/ p[n + 1] # q[n + 1]
  BY <1>1, CommonFacts, PathLength
<1>3. ASSUME Agree(p, q, Len(p)) PROVE n = Len(p)
  <2>1. n <= Len(p) /\ Len(p) <= Len(q) /\ n \in Nat
    BY <1>2, <1>3 DEF Agree
  <2>2. n + 1 \in 1 .. Len(p) => p[n + 1] = q[n + 1]
    BY <1>3 DEF Agree
  <2> QED BY <1>2, <2>1, <2>2
<1> QED BY <1>1, <1>2, <1>3 DEF Prefix

\* Where p comes before q.
Before(p, q, n) ==
    /\ Agree(p, q, n)
    /\ \/ n = Len(p) /\ n < Len(q)
       \/ n < Len(p) /\ n < Len(q) /\ Rank(p[n + 1]) < Rank(q[n + 1])

LEMMA RankFacts ==
    /\ \A c \in Names \cup {Blank} : Rank(c) \in Nat
    /\ \A c, d \in Names \cup {Blank} : Rank(c) = Rank(d) => c = d
<1>1. DOMAIN Order = 1 .. Len(Order) /\ Len(Order) \in Nat /\ Blank \notin Names
  BY OrderAssumption
<1>2. \A c \in Names : (CHOOSE k \in DOMAIN Order : Order[k] = c) \in DOMAIN Order
                       /\ Order[CHOOSE k \in DOMAIN Order : Order[k] = c] = c
  BY DEF Names
<1>3. \A c \in Names : Rank(c) \in 1 .. Len(Order) /\ Order[Rank(c)] = c
  BY <1>1, <1>2 DEF Rank
<1>4. Rank(Blank) = 0
  BY DEF Rank
<1> QED BY <1>1, <1>3, <1>4

LEMMA LessFacts ==
    ASSUME NEW p \in AnyPath, NEW q \in AnyPath
    PROVE  /\ Less(p, q) <=> \E n : Before(p, q, n)
           /\ p = q \/ Less(p, q) \/ Less(q, p)
<1>1. PICK n : n = Common(p, q)
  OBVIOUS
<1>2. PICK m : m = Common(q, p)
  OBVIOUS
<1>3. /\ Agree(p, q, n) /\ Len(p) \in Nat /\ Len(q) \in Nat
      /\ n = Len(p) \/ n = Len(q) \/ p[n + 1] # q[n + 1]
  BY <1>1, CommonFacts, PathLength
<1>4. /\ Agree(q, p, m)
      /\ m = Len(p) \/ m = Len(q) \/ p[m + 1] # q[m + 1]
  BY <1>2, CommonFacts
<1>5. \A k : Agree(p, q, k) /\ (k = Len(p) \/ k = Len(q) \/ p[k + 1] # q[k + 1]) => k = n
  <2> SUFFICES ASSUME NEW k, Agree(p, q, k), k = Len(p) \/ k = Len(q) \/ p[k + 1] # q[k + 1]
               PROVE  k = n
    OBVIOUS
  <2>1. k \in Nat /\ n \in Nat /\ k <= Len(p) /\ k <= Len(q) /\ n <= Len(p) /\ n <= Len(q)
    BY <1>3 DEF Agree
  <2>2. ~(k < n)
    <3>1. k < n => k + 1 \in 1 .. n
      BY <2>1
    <3> QED BY <1>3, <2>1, <3>1 DEF Agree
  <2>3. ~(n < k)
    <3>1. n < k => n + 1 \in 1 .. k
      BY <2>1
    <3> QED BY <1>3, <2>1, <3>1 DEF Agree
  <2> QED BY <2>1, <2>2, <2>3
<1>6. m = n
  <2>1. Agree(p, q, m)
    BY <1>4 DEF Agree
  <2> QED BY <1>4, <1>5, <2>1
<1>7. Less(p, q) <=> IF n = Len(p) \/ n = Len(q) THEN Len(p) < Len(q)
                     ELSE Rank(p[n + 1]) < Rank(q[n + 1])
  BY <1>1 DEF Less
<1>8. Less(q, p) <=> IF n = Len(p) \/ n = Len(q) THEN Len(q) < Len(p)
                     ELSE Rank(q[n + 1]) < Rank(p[n + 1])
  BY <1>2, <1>6 DEF Less
<1>9. n \in Nat /\ n <= Len(p) /\ n <= Len(q)
  BY <1>3 DEF Agree
<1>10. n < Len(p) /\ n < Len(q) =>
         /\ p[n + 1] \in Names \cup {Blank} /\ q[n + 1] \in Names \cup {Blank}
         /\ Rank(p[n + 1]) \in Nat /\ Rank(q[n + 1]) \in Nat
  <2>1. n < Len(p) /\ n < Len(q) => n + 1 \in 1 .. Len(p) /\ n + 1 \in 1 .. Len(q)
    BY <1>3, <1>9
  <2> QED BY <2>1, PathLength, RankFacts
<1>11. Less(p, q) => Before(p, q, n)
  BY <1>3, <1>7, <1>9 DEF Before
<1>12. ASSUME NEW k, Before(p, q, k) PROVE Less(p, q)
  <2>1. k < Len(p) /\ k < Len(q) /\ Rank(p[k + 1]) < Rank(q[k + 1]) => p[k + 1] # q[k + 1]
    <3>1. k \in Nat
      BY <1>12 DEF Before, Agree
    <3>2. k < Len(p) /\ k < Len(q) =>
            Rank(p[k + 1]) \in Nat /\ Rank(q[k + 1]) \in Nat
      <4>1. k < Len(p) /\ k < Len(q) => k + 1 \in 1 .. Len(p) /\ k + 1 \in 1 .. Len(q)
        BY <1>3, <3>1
      <4> QED BY <4>1, PathLength, RankFacts
    <3> QED BY <3>2
  <2>2. k = n
    BY <1>5, <1>12, <2>1 DEF Before
  <2> QED BY <1>3, <1>7, <1>9, <1>12, <2>2 DEF Before
<1>13. p = q \/ Less(p, q) \/ Less(q, p)
  <2>1. CASE n < Len(p) /\ n < Len(q)
    <3>1. Rank(p[n + 1]) # Rank(q[n + 1])
      BY <1>3, <1>10, <2>1, RankFacts
    <3> QED BY <1>7, <1>8, <1>10, <2>1, <3>1
  <2>2. CASE n = Len(p) /\ n = Len(q)
    <3>1. p = q
      BY <1>3, <2>2, SeqEqual DEF Agree, AnyPath
    <3> QED BY <3>1
  <2>3. CASE (n = Len(p) \/ n = Len(q)) /\ Len(p) # Len(q)
    BY <1>3, <1>7, <1>8, <2>3
  <2> QED BY <1>3, <1>9, <2>1, <2>2, <2>3
<1> QED BY <1>11, <1>12, <1>13

LEMMA LessOrder ==
    ASSUME NEW p \in AnyPath, NEW q \in AnyPath, NEW r \in AnyPath
    PROVE  ~Less(p, p) /\ (Less(p, q) /\ Less(q, r) => Less(p, r))
<1>0. Len(p) \in Nat /\ Len(q) \in Nat /\ Len(r) \in Nat
  BY PathLength
<1>1. ~Less(p, p)
  <2>1. ASSUME NEW n, Before(p, p, n) PROVE FALSE
    <3>1. n \in Nat /\ n < Len(p) /\ Rank(p[n + 1]) < Rank(p[n + 1])
      BY <1>0, <2>1 DEF Before, Agree
    <3>2. n + 1 \in 1 .. Len(p)
      BY <1>0, <3>1
    <3>3. Rank(p[n + 1]) \in Nat
      BY <3>2, PathLength, RankFacts
    <3> QED BY <3>1, <3>3
  <2> QED BY <2>1, LessFacts
<1>2. ASSUME Less(p, q), Less(q, r) PROVE Less(p, r)
  <2>1. PICK n : Before(p, q, n)
    BY <1>2, LessFacts
  <2>2. PICK m : Before(q, r, m)
    BY <1>2, LessFacts
  <2>3. /\ n \in Nat /\ n <= Len(p) /\ n < Len(q)
        /\ m \in Nat /\ m <= Len(q) /\ m < Len(r)
    BY <1>0, <2>1, <2>2 DEF Before, Agree
  <2>4. \A k \in 1 .. n : p[k] = q[k]
    BY <2>1 DEF Before, Agree
  <2>5. \A k \in 1 .. m : q[k] = r[k]
    BY <2>2 DEF Before, Agree
  <2>6. n = Len(p) \/ (n < Len(p) /\ Rank(p[n + 1]) < Rank(q[n + 1]))
    BY <2>1, <2>3 DEF Before
  <2>7. m = Len(q) \/ (m < Len(q) /\ Rank(q[m + 1]) < Rank(r[m + 1]))
    BY <2>2, <2>3 DEF Before
  <2>8. CASE n < m
    <3>1. n < Len(r) /\ n + 1 \in 1 .. m
      BY <1>0, <2>3, <2>8
    <3>2. q[n + 1] = r[n + 1]
      BY <2>5, <3>1
    <3>3. Agree(p, r, n)
      <4>1. \A k \in 1 .. n : k \in 1 .. m
        BY <2>3, <2>8
      <4> QED BY <1>0, <2>3, <2>4, <2>5, <3>1, <4>1 DEF Agree
    <3>4. Before(p, r, n)
      BY <2>6, <3>1, <3>2, <3>3 DEF Before
    <3> QED BY <3>4, LessFacts
  <2>9. CASE m < n
    <3>1. m < Len(p) /\ m < Len(q) /\ m + 1 \in 1 .. n
      BY <1>0, <2>3, <2>9
    <3>2. p[m + 1] = q[m + 1] /\ Rank(q[m + 1]) < Rank(r[m + 1])
      BY <2>3, <2>4, <2>7, <2>9, <3>1
    <3>3. Agree(p, r, m)
      <4>1. \A k \in 1 .. m : k \in 1 .. n
        BY <2>3, <2>9
      <4> QED BY <1>0, <2>3, <2>4, <2>5, <3>1, <4>1 DEF Agree
    <3>4. Before(p, r, m)
      BY <2>3, <3>1, <3>2, <3>3 DEF Before
    <3> QED BY <3>4, LessFacts
  <2>10. CASE n = m
    <3>1. Agree(p, r, n)
      BY <1>0, <2>3, <2>4, <2>5, <2>10 DEF Agree
    <3>2. Rank(q[n + 1]) < Rank(r[n + 1]) /\ n < Len(r)
      BY <2>3, <2>7, <2>10
    <3>3. CASE n = Len(p)
      <4>1. Before(p, r, n)
        BY <3>1, <3>2, <3>3 DEF Before
      <4> QED BY <4>1, LessFacts
    <3>4. CASE n < Len(p) /\ Rank(p[n + 1]) < Rank(q[n + 1])
      <4>1. n + 1 \in 1 .. Len(p) /\ n + 1 \in 1 .. Len(q) /\ n + 1 \in 1 .. Len(r)
        BY <1>0, <2>3, <3>2, <3>4
      <4>2. Rank(p[n + 1]) \in Nat /\ Rank(q[n + 1]) \in Nat /\ Rank(r[n + 1]) \in Nat
        BY <4>1, PathLength, RankFacts
      <4>3. Rank(p[n + 1]) < Rank(r[n + 1])
        BY <3>2, <3>4, <4>2
      <4>4. Before(p, r, n)
        BY <3>1, <3>2, <3>4, <4>3 DEF Before
      <4> QED BY <4>4, LessFacts
    <3> QED BY <2>6, <3>3, <3>4
  <2> QED BY <2>3, <2>8, <2>9, <2>10
<1> QED BY <1>1, <1>2

Entries == AnyPath \X AnyPath

LEMMA PairOrder ==
    /\ \A e, f \in Entries : e = f \/ LessPair(e, f) \/ LessPair(f, e)
    /\ \A e, f, g \in Entries : LessPair(e, f) /\ LessPair(f, g) => LessPair(e, g)
<1>0. \A e \in Entries : e[1] \in AnyPath /\ e[2] \in AnyPath /\ e = <<e[1], e[2]>>
  BY DEF Entries
<1>1. ASSUME NEW e \in Entries, NEW f \in Entries
      PROVE  e = f \/ LessPair(e, f) \/ LessPair(f, e)
  <2>1. e[1] = f[1] \/ Less(e[1], f[1]) \/ Less(f[1], e[1])
    BY <1>0, LessFacts
  <2>2. e[2] = f[2] \/ Less(e[2], f[2]) \/ Less(f[2], e[2])
    BY <1>0, LessFacts
  <2> QED BY <1>0, <2>1, <2>2 DEF LessPair
<1>2. ASSUME NEW e \in Entries, NEW f \in Entries, NEW g \in Entries,
             LessPair(e, f), LessPair(f, g)
      PROVE  LessPair(e, g)
  <2>1. Less(e[1], f[1]) /\ Less(f[1], g[1]) => Less(e[1], g[1])
    BY <1>0, LessOrder
  <2>2. Less(e[2], f[2]) /\ Less(f[2], g[2]) => Less(e[2], g[2])
    BY <1>0, LessOrder
  <2> QED BY <1>2, <2>1, <2>2 DEF LessPair
<1> QED BY <1>1, <1>2

\* The map has a first and a last entry.
LEMMA HasEnds ==
    ASSUME NEW M \in SUBSET Entries, IsFiniteSet(M), M # {}
    PROVE  First(M) \in M /\ Last(M) \in M
<1> DEFINE R == {e \in M \X M : LessPair(e[1], e[2])}
           Q == {e \in M \X M : LessPair(e[2], e[1])}
<1>1. \A e, f \in M : <<e, f>> \in R <=> LessPair(e, f)
  OBVIOUS
<1>2. \A e, f \in M : <<e, f>> \in Q <=> LessPair(f, e)
  OBVIOUS
<1>3. \A e, f \in M : e = f \/ LessPair(e, f) \/ LessPair(f, e)
  BY PairOrder
<1>4. \A e, f, g \in M : LessPair(e, f) /\ LessPair(f, g) => LessPair(e, g)
  <2>1. M \subseteq Entries
    OBVIOUS
  <2> QED BY <2>1, PairOrder
<1> HIDE DEF R, Q
<1>5. \E x \in M : \A y \in M \ {x} : <<y, x>> \in R
  <2>1. \A x, y \in M : x = y \/ <<x, y>> \in R \/ <<y, x>> \in R
    BY <1>1, <1>3
  <2>2. \A x, y, z \in M : <<x, y>> \in R /\ <<y, z>> \in R => <<x, z>> \in R
    BY <1>1, <1>4
  <2> QED BY <2>1, <2>2, HasLast
<1>6. \E x \in M : \A y \in M \ {x} : <<y, x>> \in Q
  <2>1. \A x, y \in M : x = y \/ <<x, y>> \in Q \/ <<y, x>> \in Q
    BY <1>2, <1>3
  <2>2. \A x, y, z \in M : <<x, y>> \in Q /\ <<y, z>> \in Q => <<x, z>> \in Q
    BY <1>2, <1>4
  <2> QED BY <2>1, <2>2, HasLast
<1>7. \E x \in M : \A y \in M \ {x} : LessPair(y, x)
  BY <1>1, <1>5
<1>8. \E x \in M : \A y \in M \ {x} : LessPair(x, y)
  BY <1>2, <1>6
<1> QED BY <1>7, <1>8 DEF First, Last

-----------------------------------------------------------------------------
(* The search over the map                                                   *)

\* The two searches: for the place of an installed file (inst) and of a packed one.
Src(inst, e) == IF inst THEN e[2] ELSE e[1]
Dst(inst, e) == IF inst THEN e[1] ELSE e[2]
Picked(inst, M) == IF inst THEN First(M) ELSE Last(M)
Turn(inst, p, e, s) == makeMapping(Src(inst, e), Dst(inst, e), p, s)

\* What a search over M arrives at, f being what it arrives at over a part of M.
Arrives(inst, p, f, M) ==
    IF M = {} THEN NoMatch
    ELSE Turn(inst, p, Picked(inst, M), f[M \ {Picked(inst, M)}])
Searches(inst, p, S, f) == f = [M \in SUBSET S |-> Arrives(inst, p, f, M)]

\* What holds over the empty map and one entry later holds over every map.
LEMMA EntryByEntry ==
    ASSUME NEW inst, NEW S \in SUBSET Entries, IsFiniteSet(S),
           NEW Good, Good \subseteq SUBSET S, {} \in Good,
           \A M \in SUBSET S : M # {} /\ M \ {Picked(inst, M)} \in Good => M \in Good
    PROVE  Good = SUBSET S
<1> DEFINE B == (SUBSET S) \ Good
<1>1. SUFFICES ASSUME B # {} PROVE FALSE
  OBVIOUS
<1>2. PICK M \in B : \A t \in B : t \subseteq M => t = M
  <2>1. B \subseteq SUBSET S
    OBVIOUS
  <2> HIDE DEF B
  <2> QED BY <1>1, <2>1, Smallest
<1>3. M \in SUBSET S /\ M \notin Good
  OBVIOUS
<1>4. M # {}
  BY <1>3, Zenon
<1>5. Picked(inst, M) \in M
  <2>1. IsFiniteSet(M) /\ M \in SUBSET Entries
    BY <1>3, FS_Subset
  <2> QED BY <1>4, <2>1, HasEnds DEF Picked
<1>6. M \ {Picked(inst, M)} \in Good
  BY <1>2, <1>3, <1>5
<1> QED BY <1>3, <1>4, <1>6

LEMMA PickedIn ==
    ASSUME NEW inst, NEW S \in SUBSET Entries, IsFiniteSet(S), NEW M \in SUBSET S, M # {}
    PROVE  Picked(inst, M) \in M /\ M \ {Picked(inst, M)} \in SUBSET S
<1>1. IsFiniteSet(M) /\ M \in SUBSET Entries
  BY FS_Subset
<1> QED BY <1>1, HasEnds DEF Picked

LEMMA OneSearch ==
    ASSUME NEW inst, NEW p, NEW S \in SUBSET Entries, IsFiniteSet(S),
           NEW f, NEW g, Searches(inst, p, S, f), Searches(inst, p, S, g)
    PROVE  f = g
<1> DEFINE Good == {M \in SUBSET S : f[M] = g[M]}
<1>1. \A M \in SUBSET S : f[M] = Arrives(inst, p, f, M) /\ g[M] = Arrives(inst, p, g, M)
  BY DEF Searches
<1>2. {} \in Good
  BY <1>1 DEF Arrives
<1>3. ASSUME NEW M \in SUBSET S, M # {}, M \ {Picked(inst, M)} \in Good
      PROVE  M \in Good
  BY <1>1, <1>3 DEF Arrives
<1>4. Good \subseteq SUBSET S
  OBVIOUS
<1> HIDE DEF Good
<1>5. Good = SUBSET S
  <2>1. \A M \in SUBSET S : M # {} /\ M \ {Picked(inst, M)} \in Good => M \in Good
    BY <1>3
  <2>2. IsFiniteSet(S) /\ S \in SUBSET Entries
    OBVIOUS
  <2>3. PICK K : K = Good
    OBVIOUS
  <2>4. /\ K \subseteq SUBSET S /\ {} \in K
        /\ \A M \in SUBSET S : M # {} /\ M \ {Picked(inst, M)} \in K => M \in K
    BY <1>2, <1>4, <2>1, <2>3
  <2>5. K = SUBSET S
    BY <2>2, <2>4, EntryByEntry
  <2> QED BY <2>3, <2>5
<1>6. \A M \in SUBSET S : f[M] = g[M]
  BY <1>5 DEF Good
<1>7. f = [M \in SUBSET S |-> f[M]] /\ g = [M \in SUBSET S |-> g[M]]
  BY DEF Searches
<1> QED BY <1>6, <1>7

LEMMA PartSearch ==
    ASSUME NEW inst, NEW p, NEW S \in SUBSET Entries, IsFiniteSet(S), NEW T \in SUBSET S,
           NEW f, Searches(inst, p, S, f), NEW g, Searches(inst, p, T, g)
    PROVE  g[T] = f[T]
<1> DEFINE h == [M \in SUBSET T |-> f[M]]
<1>1. ASSUME NEW M \in SUBSET T PROVE h[M] = Arrives(inst, p, h, M)
  <2>1. M \in SUBSET S /\ f[M] = Arrives(inst, p, f, M)
    BY DEF Searches
  <2>2. h[M] = f[M]
    OBVIOUS
  <2>3. CASE M = {}
    BY <2>1, <2>2, <2>3 DEF Arrives
  <2>4. CASE M # {}
    <3>1. M \ {Picked(inst, M)} \in SUBSET T
      OBVIOUS
    <3>2. h[M \ {Picked(inst, M)}] = f[M \ {Picked(inst, M)}]
      BY <3>1
    <3> HIDE DEF h
    <3> QED BY <2>1, <2>2, <2>4, <3>2 DEF Arrives
  <2> QED BY <2>3, <2>4
<1>2. h = [M \in SUBSET T |-> h[M]] /\ h[T] = f[T]
  OBVIOUS
<1> HIDE DEF h
<1>3. Searches(inst, p, T, h)
  BY <1>1, <1>2 DEF Searches
<1>4. T \in SUBSET Entries /\ IsFiniteSet(T)
  BY FS_Subset
<1>5. g = h
  BY <1>3, <1>4, OneSearch
<1> QED BY <1>2, <1>5

LEMMA SearchExists ==
    ASSUME NEW inst, NEW p, NEW S \in SUBSET Entries, IsFiniteSet(S)
    PROVE  \E f : Searches(inst, p, S, f)
<1> DEFINE B == {M \in SUBSET S : ~ \E f : Searches(inst, p, M, f)}
<1>1. SUFFICES ASSUME B # {} PROVE FALSE
  OBVIOUS
<1>2. PICK T \in B : \A t \in B : t \subseteq T => t = T
  <2>1. B \subseteq SUBSET S
    OBVIOUS
  <2> HIDE DEF B
  <2> QED BY <1>1, <2>1, Smallest
<1>3. T \in SUBSET S /\ ~ \E f : Searches(inst, p, T, f)
  OBVIOUS
<1>4. \A M \in SUBSET T : M # T => \E f : Searches(inst, p, M, f)
  <2>1. \A M \in SUBSET T : M \in SUBSET S
    BY <1>3
  <2> QED BY <1>2, <2>1
<1> DEFINE G(M) == CHOOSE f : Searches(inst, p, M, f)
           h == [M \in SUBSET T |-> IF M = T THEN Arrives(inst, p, [N \in SUBSET T |-> G(N)[N]], T)
                                    ELSE G(M)[M]]
<1>5. \A M \in SUBSET T : M # T => Searches(inst, p, M, G(M))
  BY <1>4
<1>6. /\ \A M \in SUBSET T : M # T => h[M] = G(M)[M]
      /\ h[T] = Arrives(inst, p, [N \in SUBSET T |-> G(N)[N]], T)
      /\ \A N \in SUBSET T : [M \in SUBSET T |-> G(M)[M]][N] = G(N)[N]
      /\ h = [M \in SUBSET T |-> h[M]]
  OBVIOUS
<1>7. T \in SUBSET Entries /\ IsFiniteSet(T)
  BY <1>3, FS_Subset
<1> HIDE DEF G, h, B
<1>8. ASSUME NEW M \in SUBSET T PROVE h[M] = Arrives(inst, p, h, M)
  <2> DEFINE N == M \ {Picked(inst, M)}
  <2>1. CASE M = {} /\ M # T
    <3>1. G(M)[M] = NoMatch
      BY <1>5, <2>1 DEF Searches, Arrives
    <3> QED BY <1>6, <2>1, <3>1 DEF Arrives
  <2>2. CASE M = {} /\ M = T
    BY <1>6, <2>2 DEF Arrives
  <2>3. CASE M # {}
    <3>1. Picked(inst, M) \in M /\ N \in SUBSET T /\ N # T /\ N \in SUBSET M
      BY <1>7, <2>3, PickedIn
    <3>2. h[N] = G(N)[N] /\ Searches(inst, p, N, G(N))
      BY <1>5, <1>6, <3>1
    <3>3. CASE M = T
      <4>1. [K \in SUBSET T |-> G(K)[K]][N] = G(N)[N]
        BY <1>6, <3>1
      <4> QED BY <1>6, <2>3, <3>2, <3>3, <4>1 DEF Arrives
    <3>4. CASE M # T
      <4>1. Searches(inst, p, M, G(M)) /\ h[M] = G(M)[M]
        BY <1>5, <1>6, <3>4
      <4>2. G(M)[M] = Arrives(inst, p, G(M), M)
        BY <4>1 DEF Searches
      <4>3. M \in SUBSET Entries /\ IsFiniteSet(M)
        BY <1>7, FS_Subset
      <4>4. G(N)[N] = G(M)[N]
        BY <3>1, <3>2, <4>1, <4>3, PartSearch
      <4> QED BY <2>3, <3>2, <4>1, <4>2, <4>4 DEF Arrives
    <3> QED BY <3>3, <3>4
  <2> QED BY <2>1, <2>2, <2>3
<1>9. Searches(inst, p, T, h)
  BY <1>6, <1>8 DEF Searches
<1> QED BY <1>3, <1>9

\* The model's folds are these searches.
LEMMA FoldsSearch ==
    ASSUME NEW map \in SUBSET Entries, IsFiniteSet(map), NEW p
    PROVE  /\ \E f : Searches(TRUE, p, map, f) /\ getInstallPath(map, p) = f[map].result
           /\ \E f : Searches(FALSE, p, map, f) /\ getSourcePath(map, p) = f[map].result
<1>1. getInstallPath(map, p) = (CHOOSE f : Searches(TRUE, p, map, f))[map].result
  BY DEF getInstallPath, MapThenFoldSet, Searches, Arrives, Turn, Src, Dst, Picked
<1>2. getSourcePath(map, p) = (CHOOSE f : Searches(FALSE, p, map, f))[map].result
  BY DEF getSourcePath, MapThenFoldSet, Searches, Arrives, Turn, Src, Dst, Picked
<1>3. (\E f : Searches(TRUE, p, map, f)) /\ (\E f : Searches(FALSE, p, map, f))
  BY SearchExists
<1> QED BY <1>1, <1>2, <1>3

\* The rest of a path after a prefix.
LEMMA RestFacts ==
    ASSUME NEW p \in AnyPath, NEW q \in AnyPath, Agree(p, q, Len(p))
    PROVE  /\ Rest(p, q) \in AnyPath /\ Len(Rest(p, q)) = Len(q) - Len(p)
           /\ \A k \in 1 .. Len(q) - Len(p) : Rest(p, q)[k] = q[Len(p) + k]
<1>1. Len(p) \in Nat /\ Len(q) \in Nat /\ Len(p) <= Len(q)
  BY PathLength DEF Agree
<1>2. PICK m : m = Len(p) + 1
  OBVIOUS
<1>3. PICK n : n = Len(q)
  OBVIOUS
<1>4. m \in Int /\ n \in Int /\ \A k \in m .. n : q[k] \in Names \cup {Blank}
  BY <1>1, <1>2, <1>3, PathLength
<1>5. /\ SubSeq(q, m, n) \in AnyPath
      /\ Len(SubSeq(q, m, n)) = IF m <= n THEN n - m + 1 ELSE 0
      /\ \A i \in 1 .. n - m + 1 : SubSeq(q, m, n)[i] = q[m + i - 1]
  BY <1>4, SubSeqProperties DEF AnyPath
<1>6. Rest(p, q) = SubSeq(q, m, n)
  BY <1>2, <1>3 DEF Rest
<1>8. Len(Rest(p, q)) = Len(q) - Len(p)
  BY <1>1, <1>2, <1>3, <1>5, <1>6
<1>9. ASSUME NEW k \in 1 .. Len(q) - Len(p) PROVE Rest(p, q)[k] = q[Len(p) + k]
  <2>1. k \in 1 .. n - m + 1 /\ m + k - 1 = Len(p) + k
    BY <1>1, <1>2, <1>3
  <2>2. SubSeq(q, m, n)[k] = q[m + k - 1]
    BY <1>5, <2>1
  <2> QED BY <1>6, <2>1, <2>2
<1>10. Rest(p, q) \in AnyPath
  BY <1>5, <1>6
<1> QED BY <1>8, <1>9, <1>10

LEMMA JoinFacts ==
    ASSUME NEW p \in AnyPath, NEW q \in AnyPath
    PROVE  /\ p \o q \in AnyPath /\ Len(p \o q) = Len(p) + Len(q)
           /\ \A i \in 1 .. Len(p) + Len(q) : (p \o q)[i] = IF i <= Len(p) THEN p[i] ELSE q[i - Len(p)]
BY ConcatProperties DEF AnyPath

LEMMA WholePrefix ==
    ASSUME NEW p \in AnyPath, NEW q \in AnyPath, Agree(p, q, Len(p))
    PROVE  /\ Len(p) <= Len(q) /\ (Len(p) = Len(q) => p = q)
           /\ Rest(p, q) = <<>> => p = q
<1>1. Len(p) <= Len(q) /\ Len(p) \in Nat /\ Len(q) \in Nat
  BY PathLength DEF Agree
<1>2. ASSUME Len(p) = Len(q) PROVE p = q
  <2>1. \A k \in 1 .. Len(p) : p[k] = q[k]
    BY DEF Agree
  <2> QED BY <1>2, <2>1, SeqEqual DEF AnyPath
<1>3. \A s : s = <<>> => Len(s) = 0
  OBVIOUS
<1> QED BY <1>1, <1>2, <1>3, RestFacts

\* The entry e has the longest prefix of p, and the search arrives with it at r.
Found(inst, p, M, e, r) ==
    /\ e \in M /\ Prefix(Src(inst, e), p)
    /\ \A f \in M : Prefix(Src(inst, f), p) => Len(Src(inst, f)) <= Len(Src(inst, e))
    /\ r = [done |-> Src(inst, e) = p, best |-> Len(Src(inst, e)),
            result |-> Dst(inst, e) \o Rest(Src(inst, e), p)]

BestIn(inst, p, M, r) ==
    \/ (\A f \in M : ~Prefix(Src(inst, f), p)) /\ r = NoMatch
    \/ \E e : Found(inst, p, M, e, r)

LEMMA SrcType ==
    ASSUME NEW inst, NEW e \in Entries
    PROVE  Src(inst, e) \in AnyPath /\ Dst(inst, e) \in AnyPath /\ Len(Src(inst, e)) \in Nat
<1>1. e[1] \in AnyPath /\ e[2] \in AnyPath
  BY DEF Entries
<1> QED BY <1>1, PathLength DEF Src, Dst

LEMMA OneTurn ==
    ASSUME NEW inst, NEW p \in AnyPath, NEW M \in SUBSET Entries, NEW x \in M, NEW q,
           BestIn(inst, p, M \ {x}, q)
    PROVE  BestIn(inst, p, M, Turn(inst, p, x, q))
<1> PICK src : src = Src(inst, x)
  OBVIOUS
<1> PICK dst : dst = Dst(inst, x)
  OBVIOUS
<1> DEFINE new == [done |-> src = p, best |-> Len(src), result |-> dst \o Rest(src, p)]
<1>1. src \in AnyPath /\ dst \in AnyPath /\ Len(src) \in Nat /\ Len(p) \in Nat
  BY SrcType, PathLength
<1>2. Turn(inst, p, x, q) = IF q.done \/ ~Prefix(src, p) \/ (Len(src) < q.best /\ q.result # <<>>)
                            THEN q ELSE new
  BY DEF Turn, makeMapping
<1> HIDE DEF new
<1>3. CASE ~Prefix(src, p)
  <2>1. Turn(inst, p, x, q) = q
    BY <1>2, <1>3
  <2>2. BestIn(inst, p, M, q)
    <3>1. ASSUME NEW e, Found(inst, p, M \ {x}, e, q) PROVE Found(inst, p, M, e, q)
      BY <1>3, <3>1 DEF Found
    <3>2. (\A f \in M \ {x} : ~Prefix(Src(inst, f), p)) => \A f \in M : ~Prefix(Src(inst, f), p)
      BY <1>3
    <3> QED BY <3>1, <3>2 DEF BestIn
  <2> QED BY <2>1, <2>2
<1>4. CASE Prefix(src, p) /\ (\A f \in M \ {x} : ~Prefix(Src(inst, f), p)) /\ q = NoMatch
  <2>1. Turn(inst, p, x, q) = new
    BY <1>1, <1>2, <1>4 DEF NoMatch
  <2>2. \A f \in M : Prefix(Src(inst, f), p) => Len(Src(inst, f)) <= Len(src)
    BY <1>1, <1>4
  <2>3. Found(inst, p, M, x, new)
    BY <1>4, <2>2 DEF Found, new
  <2> QED BY <2>1, <2>3 DEF BestIn
<1>5. ASSUME Prefix(src, p), NEW e, Found(inst, p, M \ {x}, e, q)
      PROVE  BestIn(inst, p, M, Turn(inst, p, x, q))
  <2> PICK old : old = Src(inst, e)
    OBVIOUS
  <2>1. e \in M /\ e \in Entries /\ Prefix(old, p)
    BY <1>5 DEF Found
  <2>2. /\ q.done = (old = p) /\ q.best = Len(old)
        /\ q.result = Dst(inst, e) \o Rest(old, p)
    BY <1>5 DEF Found
  <2>3. old \in AnyPath /\ Dst(inst, e) \in AnyPath /\ Len(old) \in Nat
    BY <2>1, SrcType
  <2>4. Len(src) <= Len(p) /\ Len(old) <= Len(p) /\ (Rest(old, p) = <<>> => old = p)
    BY <1>1, <1>5, <2>1, <2>3, PrefixFacts, WholePrefix
  <2>5. CASE q.done \/ (Len(src) < q.best /\ q.result # <<>>)
    <3>1. Turn(inst, p, x, q) = q
      BY <1>2, <2>5
    <3>3. Len(src) <= Len(old)
      <4>1. old = p => Len(old) = Len(p)
        OBVIOUS
      <4>2. old = p \/ Len(src) < Len(old)
        BY <2>2, <2>5
      <4> QED BY <1>1, <2>3, <2>4, <4>1, <4>2
    <3>2. Found(inst, p, M, e, q)
      BY <1>5, <3>3 DEF Found
    <3> QED BY <3>1, <3>2 DEF BestIn
  <2>6. CASE ~q.done /\ ~(Len(src) < q.best /\ q.result # <<>>)
    <3>1. q.result # <<>>
      <4>1. Rest(old, p) # <<>> /\ Agree(old, p, Len(old))
        BY <2>1, <2>2, <2>3, <2>4, <2>6, PrefixFacts
      <4>2. PICK r : r = Rest(old, p)
        OBVIOUS
      <4>3. PICK d : d = Dst(inst, e)
        OBVIOUS
      <4>4. r \in AnyPath /\ d \in AnyPath /\ r # <<>>
        BY <2>3, <4>1, <4>2, <4>3, RestFacts
      <4>5. Len(r) \in Nat /\ Len(r) # 0 /\ Len(d) \in Nat
        BY <4>4, PathLength, EmptySeq DEF AnyPath
      <4>6. Len(d \o r) = Len(d) + Len(r)
        BY <4>4, JoinFacts
      <4>7. \A s : s = <<>> => Len(s) = 0
        OBVIOUS
      <4>8. d \o r # <<>>
        BY <4>5, <4>6, <4>7
      <4> QED BY <2>2, <4>2, <4>3, <4>8
    <3>2. Turn(inst, p, x, q) = new /\ Len(old) <= Len(src)
      BY <1>1, <1>2, <1>5, <2>2, <2>3, <2>6, <3>1
    <3>3. \A f \in M : Prefix(Src(inst, f), p) => Len(Src(inst, f)) <= Len(src)
      <4>1. ASSUME NEW f \in M, Prefix(Src(inst, f), p) PROVE Len(Src(inst, f)) <= Len(src)
        <5>1. f = x \/ Len(Src(inst, f)) <= Len(old)
          BY <1>5, <4>1 DEF Found
        <5>2. Len(Src(inst, f)) \in Nat
          BY SrcType
        <5> QED BY <1>1, <2>3, <3>2, <5>1, <5>2
      <4> QED BY <4>1
    <3>4. Found(inst, p, M, x, new)
      BY <1>5, <3>3 DEF Found, new
    <3> QED BY <3>2, <3>4 DEF BestIn
  <2> QED BY <2>5, <2>6
<1> QED BY <1>3, <1>4, <1>5 DEF BestIn

LEMMA SearchFinds ==
    ASSUME NEW inst, NEW p \in AnyPath, NEW S \in SUBSET Entries, IsFiniteSet(S),
           NEW f, Searches(inst, p, S, f)
    PROVE  BestIn(inst, p, S, f[S])
<1> DEFINE Good == {M \in SUBSET S : BestIn(inst, p, M, f[M])}
<1>1. \A M \in SUBSET S : f[M] = Arrives(inst, p, f, M)
  BY DEF Searches
<1>2. {} \in Good
  BY <1>1 DEF Arrives, BestIn
<1>3. ASSUME NEW M \in SUBSET S, M # {}, M \ {Picked(inst, M)} \in Good
      PROVE  M \in Good
  <2>1. PICK x : x = Picked(inst, M)
    OBVIOUS
  <2>2. x \in M /\ M \in SUBSET Entries
    BY <1>3, <2>1, PickedIn
  <2>3. PICK q : q = f[M \ {x}]
    OBVIOUS
  <2>4. BestIn(inst, p, M \ {x}, q)
    BY <1>3, <2>1, <2>3
  <2>5. BestIn(inst, p, M, Turn(inst, p, x, q))
    BY <2>2, <2>4, OneTurn
  <2>6. f[M] = Turn(inst, p, x, q)
    BY <1>1, <1>3, <2>1, <2>3 DEF Arrives
  <2> QED BY <2>5, <2>6
<1>4. Good \subseteq SUBSET S
  OBVIOUS
<1> HIDE DEF Good
<1>5. S \in Good
  <2>1. \A M \in SUBSET S : M # {} /\ M \ {Picked(inst, M)} \in Good => M \in Good
    BY <1>3
  <2>2. IsFiniteSet(S) /\ S \in SUBSET Entries
    OBVIOUS
  <2>3. PICK K : K = Good
    OBVIOUS
  <2>4. /\ K \subseteq SUBSET S /\ {} \in K
        /\ \A M \in SUBSET S : M # {} /\ M \ {Picked(inst, M)} \in K => M \in K
    BY <1>2, <1>4, <2>1, <2>3
  <2>5. K = SUBSET S
    BY <2>2, <2>4, EntryByEntry
  <2> QED BY <2>3, <2>5
<1> QED BY <1>5 DEF Good

LEMMA ReadingMap ==
    ASSUME TypeInv
    PROVE  Reading.conf.map \in SUBSET Entries /\ IsFiniteSet(Reading.conf.map)
<1>1. ConfOK(Reading.conf)
  BY DEF TypeInv, Reading
<1>2. ASSUME NEW c, ConfOK(c) PROVE c.map \in SUBSET Entries /\ IsFiniteSet(c.map)
  BY <1>2 DEF ConfOK, Entries
<1> QED BY <1>1, <1>2

LEMMA InstallFinds ==
    ASSUME NEW map \in SUBSET Entries, IsFiniteSet(map), NEW p \in AnyPath
    PROVE  \/ (\A f \in map : ~Prefix(f[2], p)) /\ getInstallPath(map, p) = <<>>
           \/ \E e \in map :
                 /\ Prefix(e[2], p) /\ getInstallPath(map, p) = e[1] \o Rest(e[2], p)
                 /\ \A f \in map : Prefix(f[2], p) => Len(f[2]) <= Len(e[2])
<1>1. PICK f : Searches(TRUE, p, map, f) /\ getInstallPath(map, p) = f[map].result
  BY FoldsSearch
<1>2. PICK r : r = f[map]
  OBVIOUS
<1>3. PICK inst : inst = TRUE
  OBVIOUS
<1>4. BestIn(inst, p, map, r)
  BY <1>1, <1>2, <1>3, SearchFinds
<1>5. \A e : Src(inst, e) = e[2] /\ Dst(inst, e) = e[1]
  BY <1>3 DEF Src, Dst
<1>6. (\A e \in map : ~Prefix(Src(inst, e), p)) /\ r = NoMatch
      => (\A e \in map : ~Prefix(e[2], p)) /\ r.result = <<>>
  BY <1>5 DEF NoMatch
<1>7. ASSUME NEW e, Found(inst, p, map, e, r)
      PROVE  /\ e \in map /\ Prefix(e[2], p) /\ r.result = e[1] \o Rest(e[2], p)
             /\ \A g \in map : Prefix(g[2], p) => Len(g[2]) <= Len(e[2])
  BY <1>5, <1>7 DEF Found
<1> QED BY <1>1, <1>2, <1>4, <1>6, <1>7 DEF BestIn

LEMMA SourceFinds ==
    ASSUME NEW map \in SUBSET Entries, IsFiniteSet(map), NEW p \in AnyPath,
           getSourcePath(map, p) # <<>>
    PROVE  \E e \in map : Prefix(e[1], p) /\ getSourcePath(map, p) = e[2] \o Rest(e[1], p)
<1>1. PICK f : Searches(FALSE, p, map, f) /\ getSourcePath(map, p) = f[map].result
  BY FoldsSearch
<1>2. PICK r : r = f[map]
  OBVIOUS
<1>3. PICK inst : inst = FALSE
  OBVIOUS
<1>4. BestIn(inst, p, map, r)
  BY <1>1, <1>2, <1>3, SearchFinds
<1>5. \A e : Src(inst, e) = e[1] /\ Dst(inst, e) = e[2]
  BY <1>3 DEF Src, Dst
<1>6. r # NoMatch
  BY <1>1, <1>2 DEF NoMatch
<1>7. ASSUME NEW e, Found(inst, p, map, e, r)
      PROVE  e \in map /\ Prefix(e[1], p) /\ r.result = e[2] \o Rest(e[1], p)
  BY <1>5, <1>7 DEF Found
<1> QED BY <1>1, <1>2, <1>4, <1>6, <1>7 DEF BestIn

\* In every configuration that can be read, and for every file of a version directory:
\* the entry of the closest directory around it says where it goes, in whatever order
\* the entries are; without such an entry it goes nowhere.
THEOREM ClosestWins == Spec => []ClosestEntry
<1>1. ASSUME TypeInv PROVE ClosestEntry
  <2> SUFFICES ASSUME NEW p \in Sources, NEW map, map = Reading.conf.map,
                      NEW around, around = {e \in map : Prefix(e[2], p)}
               PROVE  /\ around = {} => getInstallPath(map, p) = <<>>
                      /\ around # {} /\ (\A f, g \in around : f[2] = g[2] => f = g) =>
                            getInstallPath(map, p) = Closest(map, p)[1] \o Rest(Closest(map, p)[2], p)
    BY DEF ClosestEntry
  <2>1. map \in SUBSET Entries /\ IsFiniteSet(map) /\ p \in AnyPath
    BY <1>1, ReadingMap, PathsAssumption DEF IsPath, AnyPath
  <2>2. CASE around = {}
    BY <2>1, <2>2, InstallFinds
  <2>3. ASSUME around # {}, \A f, g \in around : f[2] = g[2] => f = g
        PROVE  getInstallPath(map, p) = Closest(map, p)[1] \o Rest(Closest(map, p)[2], p)
    <3>1. PICK e \in map :
             /\ Prefix(e[2], p) /\ getInstallPath(map, p) = e[1] \o Rest(e[2], p)
             /\ \A f \in map : Prefix(f[2], p) => Len(f[2]) <= Len(e[2])
      BY <2>1, <2>3, InstallFinds
    <3>2. \A f \in map : f[2] \in AnyPath /\ Len(f[2]) \in Nat
      BY <2>1, PathLength DEF Entries
    <3>3. ASSUME NEW f \in map \ {e}, Prefix(f[2], p) PROVE Len(f[2]) < Len(e[2])
      <4>1. Agree(f[2], p, Len(f[2])) /\ Agree(e[2], p, Len(e[2]))
        BY <2>1, <3>1, <3>2, <3>3, PrefixFacts
      <4>2. ASSUME Len(f[2]) = Len(e[2]) PROVE FALSE
        <5>1. \A k \in 1 .. Len(f[2]) : f[2][k] = e[2][k]
          BY <4>1, <4>2 DEF Agree
        <5>2. f[2] = e[2]
          BY <3>2, <4>2, <5>1, SeqEqual DEF AnyPath
        <5> QED BY <2>3, <3>1, <3>3, <5>2
      <4> QED BY <3>1, <3>2, <3>3, <4>2
    <3>4. PICK c : c = Closest(map, p)
      OBVIOUS
    <3>5. /\ c \in map /\ Prefix(c[2], p)
          /\ \A f \in map \ {c} : Prefix(f[2], p) => Len(f[2]) < Len(c[2])
      BY <3>1, <3>3, <3>4 DEF Closest
    <3>6. c = e
      <4>1. c # e => Len(e[2]) < Len(c[2]) /\ Len(c[2]) < Len(e[2])
        BY <3>1, <3>3, <3>5
      <4> QED BY <3>2, <3>5, <4>1
    <3> QED BY <3>1, <3>4, <3>6
  <2> QED BY <2>2, <2>3
<1> QED BY <1>1, ConfigInit, ConfigInductive, TypeInit, TypeNext, PTL DEF Spec

\* The entry <<a, b>> takes the path p to s in a version directory, where d, the
\* directory of another entry, is closer around it; place is where a, b would put d.
Goes(p, a, b, d, s, place) ==
    /\ Agree(a, p, Len(a)) /\ s = b \o Rest(a, p)
    /\ Agree(d, s, Len(d)) /\ Len(b) <= Len(d)
    /\ place = a \o Rest(b, d)

ComesBack(p, b, d, s, place) ==
    /\ s \in AnyPath /\ place \in AnyPath
    /\ Agree(b, d, Len(b)) /\ Agree(place, p, Len(place))
    /\ place \o Rest(d, s) = p

LEMMA ThereAndBack ==
    ASSUME NEW p \in AnyPath, NEW a \in AnyPath, NEW b \in AnyPath, NEW d \in AnyPath,
           NEW s, NEW place, Goes(p, a, b, d, s, place)
    PROVE  ComesBack(p, b, d, s, place)
<1>0. /\ Agree(a, p, Len(a)) /\ s = b \o Rest(a, p)
      /\ Agree(d, s, Len(d)) /\ Len(b) <= Len(d)
      /\ place = a \o Rest(b, d)
  BY DEF Goes
<1>1. /\ Len(p) \in Nat /\ Len(a) \in Nat /\ Len(b) \in Nat /\ Len(d) \in Nat
      /\ Len(a) <= Len(p) /\ Len(d) <= Len(s)
  BY <1>0, PathLength DEF Agree
<1> PICK t : t = Rest(a, p)
  OBVIOUS
<1>2. /\ t \in AnyPath /\ Len(t) = Len(p) - Len(a)
      /\ \A k \in 1 .. Len(p) - Len(a) : t[k] = p[Len(a) + k]
  BY <1>0, RestFacts
<1>3. /\ s \in AnyPath /\ Len(s) = Len(b) + Len(t)
      /\ \A i \in 1 .. Len(b) + Len(t) : s[i] = IF i <= Len(b) THEN b[i] ELSE t[i - Len(b)]
  BY <1>0, <1>2, JoinFacts
<1>4. Agree(b, d, Len(b))
  <2>1. ASSUME NEW k \in 1 .. Len(b) PROVE b[k] = d[k]
    <3>1. k \in 1 .. Len(d) /\ k \in 1 .. Len(b) + Len(t) /\ k <= Len(b)
      BY <1>0, <1>1, <1>2
    <3> QED BY <1>0, <1>3, <3>1 DEF Agree
  <2> QED BY <1>0, <1>1, <2>1 DEF Agree
<1> PICK u : u = Rest(b, d)
  OBVIOUS
<1>5. /\ u \in AnyPath /\ Len(u) = Len(d) - Len(b)
      /\ \A k \in 1 .. Len(d) - Len(b) : u[k] = d[Len(b) + k]
  BY <1>4, RestFacts
<1>6. /\ place \in AnyPath /\ Len(place) = Len(a) + Len(u)
      /\ \A i \in 1 .. Len(a) + Len(u) : place[i] = IF i <= Len(a) THEN a[i] ELSE u[i - Len(a)]
  BY <1>0, <1>5, JoinFacts
<1>7. Len(d) <= Len(b) + (Len(p) - Len(a)) /\ Len(place) = Len(a) + (Len(d) - Len(b))
      /\ Len(place) <= Len(p)
  BY <1>0, <1>1, <1>2, <1>3, <1>5, <1>6
<1>8. ASSUME NEW i \in 1 .. Len(place) PROVE place[i] = p[i]
  <2>1. CASE i <= Len(a)
    <3>1. i \in 1 .. Len(a) /\ i \in 1 .. Len(a) + Len(u)
      BY <1>1, <1>5, <1>6, <2>1
    <3> QED BY <1>0, <1>6, <2>1, <3>1 DEF Agree
  <2>2. CASE ~(i <= Len(a))
    <3>1. PICK k : k = i - Len(a)
      OBVIOUS
    <3>2. /\ k \in 1 .. Len(d) - Len(b) /\ Len(b) + k \in 1 .. Len(d)
          /\ i \in 1 .. Len(a) + Len(u)
          /\ Len(b) + k \in 1 .. Len(b) + Len(t) /\ ~(Len(b) + k <= Len(b))
          /\ (Len(b) + k) - Len(b) = k
          /\ k \in 1 .. Len(p) - Len(a) /\ Len(a) + k = i
      BY <1>1, <1>2, <1>5, <1>6, <1>7, <2>2, <3>1
    <3>3. place[i] = u[k]
      BY <1>6, <2>2, <3>1, <3>2
    <3>4. u[k] = d[Len(b) + k]
      BY <1>5, <3>2
    <3>5. d[Len(b) + k] = s[Len(b) + k]
      BY <1>0, <3>2 DEF Agree
    <3>6. s[Len(b) + k] = t[k]
      BY <1>3, <3>2
    <3>7. t[k] = p[i]
      BY <1>2, <3>2
    <3> QED BY <3>3, <3>4, <3>5, <3>6, <3>7
  <2> QED BY <2>1, <2>2
<1>9. Agree(place, p, Len(place))
  BY <1>1, <1>5, <1>6, <1>7, <1>8, PathLength DEF Agree
<1> PICK v : v = Rest(d, s)
  OBVIOUS
<1>10. /\ v \in AnyPath /\ Len(v) = Len(s) - Len(d)
       /\ \A k \in 1 .. Len(s) - Len(d) : v[k] = s[Len(d) + k]
  BY <1>0, <1>3, RestFacts
<1> PICK w : w = place \o v
  OBVIOUS
<1>11. /\ w \in AnyPath /\ Len(w) = Len(place) + Len(v)
       /\ \A i \in 1 .. Len(place) + Len(v) :
             w[i] = IF i <= Len(place) THEN place[i] ELSE v[i - Len(place)]
  <2>1. place \in AnyPath /\ v \in AnyPath
    BY <1>6, <1>10
  <2>2. /\ place \o v \in AnyPath /\ Len(place \o v) = Len(place) + Len(v)
        /\ \A i \in 1 .. Len(place) + Len(v) :
              (place \o v)[i] = IF i <= Len(place) THEN place[i] ELSE v[i - Len(place)]
    BY <2>1, JoinFacts
  <2> QED BY <2>2
<1>12. Len(w) = Len(p)
  BY <1>1, <1>2, <1>3, <1>7, <1>10, <1>11
<1>13. ASSUME NEW i \in 1 .. Len(w) PROVE w[i] = p[i]
  <2>1. CASE i <= Len(place)
    <3>1. i \in 1 .. Len(place) /\ i \in 1 .. Len(place) + Len(v)
      BY <1>1, <1>7, <1>11, <2>1
    <3> QED BY <1>8, <1>11, <2>1, <3>1
  <2>2. CASE ~(i <= Len(place))
    <3>1. PICK k : k = i - Len(place)
      OBVIOUS
    <3>2. PICK m : m = i - Len(a)
      OBVIOUS
    <3>3. i \in 1 .. Len(place) + Len(v) /\ k \in 1 .. Len(s) - Len(d)
      BY <1>1, <1>2, <1>3, <1>7, <1>10, <1>11, <2>2, <3>1
    <3>4. Len(d) + k = Len(b) + m /\ m \in 1 .. Len(p) - Len(a) /\ Len(a) + m = i
      BY <1>0, <1>1, <1>7, <1>12, <2>2, <3>1, <3>2
    <3>5. Len(b) + m \in 1 .. Len(b) + Len(t) /\ ~(Len(b) + m <= Len(b)) /\ (Len(b) + m) - Len(b) = m
      BY <1>1, <1>2, <3>4
    <3>6. w[i] = v[k]
      BY <1>11, <2>2, <3>1, <3>3
    <3>7. v[k] = s[Len(b) + m]
      BY <1>10, <3>3, <3>4
    <3>8. s[Len(b) + m] = t[m]
      BY <1>3, <3>5
    <3>9. t[m] = p[i]
      BY <1>2, <3>4
    <3> QED BY <3>6, <3>7, <3>8, <3>9
  <2> QED BY <2>1, <2>2
<1>14. w = p
  BY <1>11, <1>12, <1>13, SeqEqual DEF AnyPath
<1> QED BY <1>3, <1>4, <1>6, <1>9, <1>14 DEF ComesBack

\* In every configuration that can be read, and for every place in the system: a file
\* packed from there is installed there again, if no entry of the map takes its place
\* for another directory.
THEOREM PackedComesBack == Spec => []RoundTrip
<1>1. ASSUME TypeInv PROVE RoundTrip
  <2> SUFFICES ASSUME NEW p \in Places, NEW map, map = Reading.conf.map,
                      NEW s, s = getSourcePath(map, p), s # <<>>, ~Shadowed(map, p)
               PROVE  getInstallPath(map, s) = p
    BY DEF RoundTrip
  <2>1. map \in SUBSET Entries /\ IsFiniteSet(map) /\ p \in AnyPath
    BY <1>1, ReadingMap, PathsAssumption DEF IsPath, AnyPath
  <2>2. PICK e \in map : Prefix(e[1], p) /\ s = e[2] \o Rest(e[1], p)
    BY <2>1, SourceFinds
  <2>3. PICK a : a = e[1]
    OBVIOUS
  <2>4. PICK b : b = e[2]
    OBVIOUS
  <2>5. a \in AnyPath /\ b \in AnyPath /\ Len(b) \in Nat
    BY <2>1, <2>3, <2>4, PathLength DEF Entries
  <2>6. Agree(a, p, Len(a))
    BY <2>1, <2>2, <2>3, <2>5, PrefixFacts
  <2>7. s \in AnyPath /\ Prefix(b, s)
    <3>1. PICK t : t = Rest(a, p)
      OBVIOUS
    <3>2. t \in AnyPath /\ s = b \o t /\ Len(t) \in Nat
      BY <2>1, <2>2, <2>3, <2>4, <2>5, <2>6, <3>1, RestFacts, PathLength
    <3>3. /\ s \in AnyPath /\ Len(s) = Len(b) + Len(t)
          /\ \A i \in 1 .. Len(b) + Len(t) : s[i] = IF i <= Len(b) THEN b[i] ELSE t[i - Len(b)]
      BY <2>5, <3>2, JoinFacts
    <3>4. ASSUME NEW i \in 1 .. Len(b) PROVE b[i] = s[i]
      <4>1. i \in 1 .. Len(b) + Len(t) /\ i <= Len(b)
        BY <2>5, <3>2
      <4> QED BY <3>3, <4>1
    <3>5. Agree(b, s, Len(b))
      BY <2>5, <3>2, <3>3, <3>4 DEF Agree
    <3> QED BY <2>5, <3>3, <3>5, PrefixFacts
  <2>8. PICK f \in map :
           /\ Prefix(f[2], s) /\ getInstallPath(map, s) = f[1] \o Rest(f[2], s)
           /\ \A g \in map : Prefix(g[2], s) => Len(g[2]) <= Len(f[2])
    BY <2>1, <2>2, <2>4, <2>7, InstallFinds
  <2>9. PICK d : d = f[2]
    OBVIOUS
  <2>10. d \in AnyPath /\ Agree(d, s, Len(d)) /\ Len(b) <= Len(d)
    <3>1. d \in AnyPath
      BY <2>1, <2>9 DEF Entries
    <3> QED BY <2>2, <2>4, <2>7, <2>8, <2>9, <3>1, PrefixFacts
  <2>11. PICK place : place = a \o Rest(b, d)
    OBVIOUS
  <2>12. /\ place \in AnyPath /\ Agree(b, d, Len(b)) /\ Agree(place, p, Len(place))
         /\ place \o Rest(d, s) = p
    <3>1. s = b \o Rest(a, p)
      BY <2>2, <2>3, <2>4
    <3>2. Goes(p, a, b, d, s, place)
      BY <2>6, <2>10, <2>11, <3>1 DEF Goes
    <3>3. ComesBack(p, b, d, s, place)
      BY <2>1, <2>5, <2>10, <3>2, ThereAndBack
    <3> QED BY <3>3 DEF ComesBack
  <2>13. Prefix(b, d) /\ Prefix(place, p)
    BY <2>1, <2>5, <2>10, <2>12, PrefixFacts
  <2>14. f[1] = place
    BY <2>2, <2>3, <2>4, <2>8, <2>9, <2>11, <2>13 DEF Shadowed
  <2> QED BY <2>8, <2>9, <2>12, <2>14
<1> QED BY <1>1, ConfigInit, ConfigInductive, TypeInit, TypeNext, PTL DEF Spec
==============================================================================
