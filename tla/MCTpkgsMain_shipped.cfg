\* The lines of the configuration file the repository ships.
SPECIFICATION Spec
CONSTANTS
    Order <- MCOrder
    Lines <- ShippedLines
    MaxLines = 3
    VersionOrder <- MCVersions
    Disks <- MCDisks
    WordLists <- NoWords
    Users <- MCUsers
    Trees <- MCTrees
    Places <- MCPlaces
    Sources <- MCSources
INVARIANTS
    ShippedMap
