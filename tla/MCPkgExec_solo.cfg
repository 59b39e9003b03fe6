\* One command at a time, which may be killed, and an operator who answers.
SPECIFICATION FairSpec
CONSTANTS
    c1 = c1
    c2 = c2
    Commands = {c1}
    Words <- SomeWords
    CanMakeDir = TRUE
    MayKill = TRUE
INVARIANTS
    TypeOK
    NothingLeft
PROPERTIES
    AnswersMeant
    Answered
