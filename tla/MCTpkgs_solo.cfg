\* One operator at a time, as the package user or as root; runs may be killed.
SPECIFICATION Spec
CONSTANTS
    someText = someText
    dirText = dirText
    deadText = deadText
    NoText = NoText
    RootUser = "root"
    Top = "/"
    NoVersion = ""
    Procs = {p1}
    Packages <- MCPackages
    Versions <- MCVersions
    Paths <- MCPaths
    Above <- MCAbove
    Texts <- MCTexts
    Dangling <- MCDangling
    ToDir <- MCToDir
    Stored <- MCStored
    Kind <- MCKind
    Text <- MCText
    Ignored <- NoPaths
    Kept <- KeepE
    FlagSets <- SoloFlags
    InitialTrees <- CleanOrBlocked
    Operators <- MCUsers
    OnePerPackage = TRUE
    MayCrash = TRUE
INVARIANTS
    TypeOK
    NoOrphan
    Intact
    DryRunPredicts
    FoldersGone
PROPERTIES
    ForeignUntouched
    OwnersKept
    WrongLinksKept
    KeepsStore
