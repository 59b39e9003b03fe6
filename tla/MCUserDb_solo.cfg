\* One run at a time, which may be killed at every step, whatever numbers are in use.
SPECIFICATION Spec
CONSTANTS
    Procs = {p1}
    Names = {"linux-headers", "linux-modules", "gcc"}
    Install = "install"
    GroupOf <- Cut
    MinId = 2
    MaxId = 6
    Systems <- AnyOrFresh
    MayCrash = TRUE
INVARIANTS
    UniqueIds
    PickAsDocumented
    AccountsWhole
