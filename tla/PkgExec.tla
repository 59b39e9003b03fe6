------------------------------ MODULE PkgExec ------------------------------
(***************************************************************************)
(* /usr/lib/pkgusr/exec: the wrappers of a package user's commands run them *)
(* through it.  When a command fails and there is no terminal, it appends a *)
(* question to the file pkg/exec of the package user, waits for the file    *)
(* pkg/answer and retries the command, ignores the error or gives up.       *)
(*                                                                         *)
(* Several commands of one package user (make -j) use the same two files,   *)
(* and the operator who answers them is a process as well.                  *)
(***************************************************************************)
EXTENDS Naturals

CONSTANTS
    Commands,       \* slots for commands that run at once
    Words,          \* what the operator may write into pkg/answer
    CanMakeDir,     \* TRUE if the package user can make the directory pkg
    MayKill         \* TRUE if commands may be killed

\* The patterns i|I* and a|A*: the letter, or a word with a capital one. The words
\* ignore and abort match neither and mean to try again, as every other word.
IgnoreWords == {"i", "I", "Ignore"}
AbortWords == {"a", "A", "Abort"}

ASSUME WordsAssumption ==
    Words \subseteq {"r", "retry", "ignore", "abort"} \cup IgnoreWords \cup AbortWords

VARIABLES
    pc,         \* pc[c]: where the command in slot c is
    status,     \* status[c]: how the last command in slot c ended
    ret,        \* ret[c]: the variable RET of the script
    dir,        \* TRUE if the directory pkg exists
    ignoring,   \* TRUE if the file exec-ignore exists
    question,   \* pkg/exec: the slots whose last question is in the file
    answer,     \* pkg/answer: its text, or "none" if there is no file
    writing,    \* the word that the operator is about to write, or "none"
    unanswered, \* history: the questions the operator has not reacted to
    meant,      \* history: the questions that the present answer is for
    killed      \* history: TRUE if a command has been killed
vars == <<pc, status, ret, dir, ignoring, question, answer, writing, unanswered, meant,
          killed>>

files == <<question, answer>>
operator == <<writing, unanswered, meant, killed>>

Pcs == {"idle", "run", "failed", "prepare", "ask", "wait", "read", "forget",
        "forgetQuestion", "terminal", "decide"}

\* An empty file is an answer too.
Texts == Words \cup {""}

-----------------------------------------------------------------------------
(* The script                                                                *)

Goto(c, l) == pc' = [pc EXCEPT ![c] = l] /\ UNCHANGED status

Exit(c, s) == pc' = [pc EXCEPT ![c] = "idle"] /\ status' = [status EXCEPT ![c] = s]

Start(c) ==
    /\ pc[c] = "idle" /\ Goto(c, "run")
    /\ ret' = [ret EXCEPT ![c] = ""]
    /\ UNCHANGED <<dir, ignoring, files, operator>>

\* The command itself succeeds or fails.
Run(c) ==
    /\ pc[c] = "run"
    /\ Exit(c, "ok") \/ Goto(c, "failed")
    /\ UNCHANGED <<ret, dir, ignoring, files, operator>>

\* A copy of a file to an equal file counts as done; with exec-ignore the
\* error is passed on.
Failed(c) ==
    /\ pc[c] = "failed"
    /\ \/ Exit(c, "ok")
       \/ ignoring /\ Exit(c, "error")
       \/ ~ignoring /\ Goto(c, "prepare")
    /\ UNCHANGED <<ret, dir, ignoring, files, operator>>

\* Without a terminal (istty) the directory is made.
Prepare(c) ==
    /\ pc[c] = "prepare"
    /\ \E istty \in BOOLEAN : dir' = (dir \/ (~istty /\ CanMakeDir))
    /\ Goto(c, IF dir' THEN "ask" ELSE "terminal")
    /\ UNCHANGED <<ret, ignoring, files, operator>>

Ask_Silent(c) ==
    /\ pc[c] = "ask" /\ Goto(c, "wait")
    /\ meant' = meant \ {c}
    /\ UNCHANGED <<ret, dir, ignoring, question, answer, writing, unanswered, killed>>

Ask(c) ==
    /\ pc[c] = "ask" /\ Goto(c, "wait")
    /\ question' = question \cup {c}
    /\ unanswered' = unanswered \cup {c}
    /\ meant' = meant \ {c}
    /\ UNCHANGED <<ret, dir, ignoring, answer, writing, killed>>

Wait(c) ==
    /\ pc[c] = "wait" /\ answer # "none" /\ Goto(c, "read")
    /\ UNCHANGED <<ret, dir, ignoring, files, operator>>

\* Without the file RET keeps its value.
Read(c) ==
    /\ pc[c] = "read" /\ Goto(c, "forget")
    /\ ret' = [ret EXCEPT ![c] = IF answer = "none" THEN @ ELSE answer]
    /\ UNCHANGED <<dir, ignoring, files, operator>>

\* rm removes one file and then the other, whatever is in them by now.
Forget_QuestionOnly(c) ==
    /\ pc[c] = "forget" /\ Goto(c, "forgetQuestion")
    /\ UNCHANGED <<ret, dir, ignoring, files, operator>>

Forget(c) ==
    /\ pc[c] = "forget" /\ Goto(c, "forgetQuestion")
    /\ answer' = "none"
    /\ UNCHANGED <<ret, dir, ignoring, question, operator>>

ForgetQuestion_Keep(c) ==
    /\ pc[c] = "forgetQuestion" /\ Goto(c, "decide")
    /\ UNCHANGED <<ret, dir, ignoring, files, operator>>

ForgetQuestion(c) ==
    /\ pc[c] = "forgetQuestion" /\ Goto(c, "decide")
    /\ question' = {} /\ unanswered' = {}
    /\ UNCHANGED <<ret, dir, ignoring, answer, writing, meant, killed>>

\* Without the directory the question goes to the terminal.
AskTerminal(c) ==
    /\ pc[c] = "terminal" /\ Goto(c, "decide")
    /\ \E t \in Texts : ret' = [ret EXCEPT ![c] = t]
    /\ UNCHANGED <<dir, ignoring, files, operator>>

Decide_ExitRet(c) ==
    /\ pc[c] = "decide"
    /\ IF ret[c] \in IgnoreWords \cup AbortWords THEN Exit(c, ret[c]) ELSE Goto(c, "run")
    /\ UNCHANGED <<ret, dir, ignoring, files, operator>>

Decide(c) ==
    /\ pc[c] = "decide"
    /\ CASE ret[c] \in IgnoreWords -> Exit(c, "ok")
         [] ret[c] \in AbortWords -> Exit(c, "error")
         [] OTHER -> Goto(c, "run")
    /\ UNCHANGED <<ret, dir, ignoring, files, operator>>

Work(c) ==
    \/ Run(c) \/ Failed(c) \/ Prepare(c) \/ Ask(c) \/ Wait(c) \/ Read(c)
    \/ Forget(c) \/ ForgetQuestion(c) \/ AskTerminal(c) \/ Decide(c)

\* A killed command leaves its files.
Kill(c) ==
    /\ MayKill /\ pc[c] # "idle" /\ Exit(c, "killed")
    /\ killed' = TRUE
    /\ UNCHANGED <<ret, dir, ignoring, files, writing, unanswered, meant>>

-----------------------------------------------------------------------------
(* The operator                                                              *)

\* The operator reacts once to every question in pkg/exec.  The shell makes or
\* empties pkg/answer first.
Open(w) ==
    /\ unanswered # {} /\ writing = "none"
    /\ writing' = w /\ answer' = ""
    /\ meant' = question /\ unanswered' = {}
    /\ UNCHANGED <<pc, status, ret, dir, ignoring, question, killed>>

\* The word is lost if the file has been removed since.
Write ==
    /\ writing # "none"
    /\ answer' = IF answer = "none" THEN answer ELSE writing
    /\ writing' = "none"
    /\ UNCHANGED <<pc, status, ret, dir, ignoring, question, unanswered, meant, killed>>

Answer == Write \/ \E w \in Words : Open(w)

\* The operator makes or removes exec-ignore.
SetIgnoring ==
    /\ ignoring' = ~ignoring
    /\ UNCHANGED <<pc, status, ret, dir, files, operator>>

-----------------------------------------------------------------------------

Init ==
    /\ pc = [c \in Commands |-> "idle"]
    /\ status = [c \in Commands |-> "none"]
    /\ ret = [c \in Commands |-> ""]
    /\ dir \in BOOLEAN /\ ignoring \in BOOLEAN
    /\ question = {} /\ answer = "none"
    /\ writing = "none" /\ unanswered = {} /\ meant = {}
    /\ killed = FALSE

Next ==
    \/ \E c \in Commands : Start(c) \/ Work(c) \/ Kill(c)
    \/ Answer \/ SetIgnoring

Spec == Init /\ [][Next]_vars

\* A command that runs goes on, and the operator answers what is in pkg/exec.
FairSpec == Spec /\ (\A c \in Commands : WF_vars(Work(c))) /\ WF_vars(Answer)

-----------------------------------------------------------------------------
(* Properties                                                                *)

\* Every variable of the protocol has its type.
TypeOK ==
    /\ pc \in [Commands -> Pcs]
    /\ status \in [Commands -> {"none", "ok", "error", "killed"}]
    /\ ret \in [Commands -> Texts]
    /\ dir \in BOOLEAN /\ ignoring \in BOOLEAN
    /\ question \subseteq Commands
    /\ answer \in Texts \cup {"none"}
    /\ writing \in Words \cup {"none"}
    /\ unanswered \subseteq question
    /\ meant \subseteq Commands
    /\ killed \in BOOLEAN

\* As long as no command was killed, an answer that a command reads was given to
\* the question of that command, not to an earlier one or to another command's:
\* exec waits for the user's input on what to do about this failure.
AnswersMeant ==
    [][~killed => \A c \in Commands :
         pc[c] = "read" /\ pc'[c] = "forget" /\ answer # "none" => c \in meant]_vars

\* As long as no command was killed, a command that has no question open finds
\* no file of the protocol, so that the next question starts afresh.
NothingLeft ==
    ~killed => \A c \in Commands :
        pc[c] \in {"idle", "run", "failed", "prepare", "ask", "terminal", "decide"} =>
            answer = "none" /\ question = {}

\* A command that waits for an answer gets one.
Answered == \A c \in Commands : pc[c] = "wait" ~> pc[c] # "wait"
=============================================================================
