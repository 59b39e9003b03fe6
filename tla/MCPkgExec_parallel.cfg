\* Two commands at once.
SPECIFICATION FairSpec
CONSTANTS
    c1 = c1
    c2 = c2
    Commands = {c1, c2}
    Words <- SomeWords
    CanMakeDir = TRUE
    MayKill = FALSE
PROPERTY
    Answered
