\* A directory in a directory.
SPECIFICATION Spec
CONSTANTS
    someText = someText
    dirText = dirText
    deadText = deadText
    NoText = NoText
    RootUser = "root"
    Top = "/"
    NoVersion = ""
    Procs = {p1}
    Packages = {"A"}
    Versions = {"1"}
    Paths <- DeepPaths
    Above <- DeepAbove
    Texts <- MCTexts
    Dangling <- MCDangling
    ToDir <- MCToDir
    Stored <- DeepStored
    Kind <- DeepKind
    Text <- DeepText
    Ignored <- DeepNoPaths
    Kept <- DeepNoPaths
    FlagSets <- PlainFlags
    InitialTrees <- DeepTrees
    Operators = {"A", "root"}
    OnePerPackage = TRUE
    MayCrash = FALSE
INVARIANT
    FoldersGone
