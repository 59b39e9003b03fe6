\* Every run ends.
SPECIFICATION FairSpec
CONSTANTS
    someText = someText
    dirText = dirText
    deadText = deadText
    NoText = NoText
    RootUser = "root"
    Top = "/"
    NoVersion = ""
    Procs = {p1}
    Packages <- MCPackages
    Versions <- MCVersions
    Paths <- MCPaths
    Above <- MCAbove
    Texts <- MCTexts
    Dangling <- MCDangling
    ToDir <- MCToDir
    Stored <- MCStored
    Kind <- MCKind
    Text <- MCText
    Ignored <- NoPaths
    Kept <- NoPaths
    FlagSets <- SoloFlags
    InitialTrees <- OnlyClean
    Operators <- MCUsers
    OnePerPackage = TRUE
    MayCrash = FALSE
PROPERTY
    Ends
