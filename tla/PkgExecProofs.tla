--------------------------- MODULE PkgExecProofs ---------------------------
(***************************************************************************)
(* Proofs about PkgExec: the types in every instance and, as long as one   *)
(* command runs at a time and none was killed, that every answer a command *)
(* reads was given to its own question.                                    *)
(***************************************************************************)
EXTENDS PkgExec, TLAPS

\* The initial state has the types.
LEMMA TypeInit == Init => TypeOK
BY DEF Init, TypeOK, Texts, Pcs

\* Every step keeps the types.
LEMMA TypeStep == TypeOK /\ [Next]_vars => TypeOK'
<1> SUFFICES ASSUME TypeOK, [Next]_vars PROVE TypeOK'
  OBVIOUS
<1> USE DEF TypeOK, Texts, Pcs, Goto, Exit, files, operator
<1>1. ASSUME NEW c \in Commands, Start(c) PROVE TypeOK'
  BY <1>1 DEF Start
<1>2. ASSUME NEW c \in Commands, Run(c) PROVE TypeOK'
  BY <1>2 DEF Run
<1>3. ASSUME NEW c \in Commands, Failed(c) PROVE TypeOK'
  BY <1>3 DEF Failed
<1>4. ASSUME NEW c \in Commands, Prepare(c) PROVE TypeOK'
  <2>1. dir' \in BOOLEAN
    BY <1>4, Zenon DEF Prepare
  <2>2. (IF dir' THEN "ask" ELSE "terminal") \in {"ask", "terminal"}
    OBVIOUS
  <2> QED BY <1>4, <2>1, <2>2 DEF Prepare
<1>5. ASSUME NEW c \in Commands, Ask(c) PROVE TypeOK'
  BY <1>5 DEF Ask
<1>6. ASSUME NEW c \in Commands, Wait(c) PROVE TypeOK'
  BY <1>6 DEF Wait
<1>7. ASSUME NEW c \in Commands, Read(c) PROVE TypeOK'
  BY <1>7 DEF Read
<1>8. ASSUME NEW c \in Commands, Forget(c) PROVE TypeOK'
  BY <1>8 DEF Forget
<1>9. ASSUME NEW c \in Commands, ForgetQuestion(c) PROVE TypeOK'
  BY <1>9 DEF ForgetQuestion
<1>10. ASSUME NEW c \in Commands, AskTerminal(c) PROVE TypeOK'
  BY <1>10 DEF AskTerminal
<1>11. ASSUME NEW c \in Commands, Decide(c) PROVE TypeOK'
  BY <1>11 DEF Decide
<1>12. ASSUME NEW c \in Commands, Kill(c) PROVE TypeOK'
  BY <1>12 DEF Kill
<1>13. ASSUME NEW w \in Words, Open(w) PROVE TypeOK'
  BY <1>13 DEF Open
<1>14. CASE Write
  BY <1>14 DEF Write
<1>15. CASE SetIgnoring
  BY <1>15 DEF SetIgnoring
<1>16. CASE UNCHANGED vars
  BY <1>16 DEF vars
<1> QED
  BY <1>1, <1>2, <1>3, <1>4, <1>5, <1>6, <1>7, <1>8, <1>9, <1>10, <1>11, <1>12,
     <1>13, <1>14, <1>15, <1>16, Zenon DEF Next, Work, Answer

\* The protocol keeps its types, whatever commands run at once and however
\* often they are killed.
THEOREM TypeCorrect == Spec => []TypeOK
<1> QED BY TypeInit, TypeStep, PTL DEF Spec

-----------------------------------------------------------------------------
(* One command at a time                                                     *)

OneAtATime == \A c, d \in Commands : c = d

\* Where the command is says which files there are and whose they are: the
\* operator has either still to react to the open question or has made the
\* answer file for it.
Phase(c) ==
    /\ pc[c] \in {"idle", "run", "failed", "prepare", "ask", "terminal", "decide"} =>
         answer = "none" /\ question = {} /\ unanswered = {}
    /\ pc[c] = "wait" => (unanswered = {} <=> answer # "none")
    /\ pc[c] \in {"wait", "read"} => question = {c}
    /\ pc[c] \in {"wait", "read"} /\ answer # "none" => c \in meant
    /\ pc[c] \in {"read", "forget", "forgetQuestion"} => unanswered = {}
    /\ pc[c] = "forgetQuestion" => answer = "none"

Phases == TypeOK /\ (~killed => \A c \in Commands : Phase(c))

LEMMA PhasesInit == Init => Phases
BY TypeInit DEF Phases, Phase, Init

\* Every step of the command or of its operator leads to a state that fits.
LEMMA PhasesStep == ASSUME OneAtATime PROVE Phases /\ [Next]_vars => Phases'
<1> SUFFICES ASSUME Phases, [Next]_vars, ~killed', NEW d \in Commands PROVE Phase(d)'
  BY TypeStep DEF Phases
<1>e. ~killed
  <2>1. killed => killed'
    BY DEF Next, Work, Start, Run, Failed, Prepare, Ask, Wait, Read, Forget, ForgetQuestion,
       AskTerminal, Decide, Kill, Answer, Open, Write, SetIgnoring, operator, vars
  <2> QED BY <2>1
<1>a. TypeOK /\ Phase(d)
  BY <1>e DEF Phases
<1>b. \A c \in Commands : c = d
  BY DEF OneAtATime
<1>c. Commands = {d}
  BY <1>b DEF OneAtATime
<1>d. "none" \notin Words
  BY WordsAssumption DEF IgnoreWords, AbortWords
<1> USE <1>a, <1>c DEF TypeOK, Phase, Pcs, Texts, Goto, Exit, files, operator
<1>1. CASE Start(d)
  BY <1>1 DEF Start
<1>2. CASE Run(d)
  BY <1>2 DEF Run
<1>3. CASE Failed(d)
  BY <1>3 DEF Failed
<1>4. CASE Prepare(d)
  <2>1. pc' = [pc EXCEPT ![d] = "ask"] \/ pc' = [pc EXCEPT ![d] = "terminal"]
    BY <1>4, Zenon DEF Prepare
  <2> QED BY <1>4, <2>1 DEF Prepare
<1>5. CASE Ask(d)
  BY <1>5 DEF Ask
<1>6. CASE Wait(d)
  BY <1>6 DEF Wait
<1>7. CASE Read(d)
  BY <1>7 DEF Read
<1>8. CASE Forget(d)
  BY <1>8 DEF Forget
<1>9. CASE ForgetQuestion(d)
  BY <1>9 DEF ForgetQuestion
<1>10. CASE AskTerminal(d)
  BY <1>10 DEF AskTerminal
<1>11. CASE Decide(d)
  BY <1>11 DEF Decide
<1>12. CASE Kill(d)
  BY <1>12 DEF Kill
<1>13. ASSUME NEW w \in Words, Open(w) PROVE Phase(d)'
  BY <1>13 DEF Open
<1>14. CASE Write
  BY <1>14, <1>d DEF Write
<1>15. CASE SetIgnoring
  BY <1>15 DEF SetIgnoring
<1>16. CASE UNCHANGED vars
  BY <1>16 DEF vars
<1> QED
  BY <1>b, <1>1, <1>2, <1>3, <1>4, <1>5, <1>6, <1>7, <1>8, <1>9, <1>10, <1>11,
     <1>12, <1>13, <1>14, <1>15, <1>16, Zenon DEF Next, Work, Answer

LEMMA PhasesAlways == ASSUME OneAtATime PROVE Spec => []Phases
<1>1. Phases /\ [Next]_vars => Phases'
  BY PhasesStep
<1> QED BY PhasesInit, <1>1, PTL DEF Spec

\* One command at a time, as long as none was killed, leaves no file behind.
THEOREM FilesRemoved == ASSUME OneAtATime PROVE Spec => []NothingLeft
<1>1. Phases => NothingLeft
  BY DEF Phases, Phase, NothingLeft
<1>2. Spec => []Phases
  BY PhasesAlways
<1> QED BY <1>1, <1>2, PTL

\* One command at a time, as long as none was killed, reads an answer to its own
\* question.
THEOREM AnswersFit == ASSUME OneAtATime PROVE Spec => AnswersMeant
<1>1. Phases /\ [Next]_vars =>
        [~killed => \A c \in Commands :
           pc[c] = "read" /\ pc'[c] = "forget" /\ answer # "none" => c \in meant]_vars
  BY DEF Phases, Phase
<1>2. Spec => []Phases
  BY PhasesAlways
<1> QED BY <1>1, <1>2, PTL DEF Spec, AnswersMeant
=============================================================================
