\* One run at a time, which may be killed and whose calls may fail.
SPECIFICATION Spec
CONSTANTS
    d1 = d1
    d2 = d2
    dead = dead
    EmptyFile = EmptyFile
    NoContent = NoContent
    NoVersion = ""
    Procs = {p1}
    Versions = {v1, v2}
    Paths <- MCPaths
    Above <- MCAbove
    Data = {d1, d2, EmptyFile}
    Texts = {dead}
    Dangling = {dead}
    Far <- MCFar
    Roots = {"/u"}
    Ignored = {}
    FlagSets <- MCFlagSets
    InitialTree <- MCTree
    Builds <- MCBuilds
    MaxRuns = 3
    OneAtATime = TRUE
    MayFail = TRUE
    MayCrash = TRUE
SYMMETRY Alike
INVARIANTS
    TypeOK
    PackedWhole
    Accounted
    Repackable
    PackPredicts
PROPERTIES
    NothingLost
    NoStray
