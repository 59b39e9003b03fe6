\* Two package users at once, perhaps of the same package; root runs nothing.
SPECIFICATION Spec
CONSTANTS
    someText = someText
    dirText = dirText
    deadText = deadText
    NoText = NoText
    RootUser = "root"
    Top = "/"
    NoVersion = ""
    Procs = {p1, p2}
    Packages <- MCPackages
    Versions <- MCVersions
    Paths <- MCPaths
    Above <- MCAbove
    Texts <- MCTexts
    Dangling <- MCDangling
    ToDir <- MCToDir
    Stored <- UsersStored
    Kind <- MCKind
    Text <- MCText
    Ignored <- NoPaths
    Kept <- NoPaths
    FlagSets <- BareFlags
    InitialTrees <- OnlyClean
    Operators <- MCPackages
    OnePerPackage = FALSE
    MayCrash = FALSE
PROPERTY
    ForeignUntouched
