\* Command lines of up to three words, and files of up to two lines in all.
SPECIFICATION Spec
CONSTANTS
    Order <- MCOrder
    Lines <- MCLines
    MaxLines = 2
    VersionOrder <- MCVersions
    Disks <- MCDisks
    WordLists <- MCWordLists
    Users <- MCUsers
    Trees <- MCTrees
    Places <- MCPlaces
    Sources <- MCSources
INVARIANTS
    TypeOK
    SelectsAsDocumented
    DiffAsDocumented
    OwnConfiguration
    RoundTrip
    ClosestEntry
    SilentDiffs
    SizeMarks
PROPERTIES
    CurrentFollowsWork
    Ends
