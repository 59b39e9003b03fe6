\* A run as root is killed and repeated.
SPECIFICATION Spec
CONSTANTS
    someText = someText
    dirText = dirText
    deadText = deadText
    NoText = NoText
    RootUser = "root"
    Top = "/"
    NoVersion = ""
    Procs = {p1}
    Packages <- MCPackages
    Versions <- MCVersions
    Paths <- MCPaths
    Above <- MCAbove
    Texts <- MCTexts
    Dangling <- MCDangling
    ToDir <- MCToDir
    Stored <- PairStored
    Kind <- MCKind
    Text <- MCText
    Ignored <- NoPaths
    Kept <- NoPaths
    FlagSets <- PlainFlags
    InitialTrees <- OnlyClean
    Operators <- MCUsers
    OnePerPackage = TRUE
    MayCrash = TRUE
INVARIANT
    OwnedByPackage
