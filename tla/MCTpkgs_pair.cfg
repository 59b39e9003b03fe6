\* Two operators at once, never both on one package.
SPECIFICATION Spec
CONSTANTS
    someText = someText
    dirText = dirText
    deadText = deadText
    NoText = NoText
    RootUser = "root"
    Top = "/"
    NoVersion = ""
    Procs = {p1, p2}
    Packages <- MCPackages
    Versions <- MCVersions
    Paths <- MCPaths
    Above <- MCAbove
    Texts <- MCTexts
    Dangling <- MCDangling
    ToDir <- MCToDir
    Stored <- PairStored
    Kind <- MCKind
    Text <- MCText
    Ignored <- NoPaths
    Kept <- NoPaths
    FlagSets <- PairFlags
    InitialTrees <- OnlyClean
    Operators <- MCUsers
    OnePerPackage = TRUE
    MayCrash = FALSE
INVARIANTS
    NoOrphan
    Intact
PROPERTIES
    ForeignUntouched
    KeepsStore
