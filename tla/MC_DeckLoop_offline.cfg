SPECIFICATION Spec
CONSTANTS
    Machines <- MCMachines
    Spaces <- MCSpaces
    NameRank <- MCRank
    Slots = 1
    Snapshots <- TwoSnapshots
    Readings = {0}
    K11Toggle = TRUE
    Keys <- K1_K11_K14
    Profile = TRUE
    Limits <- Nothing
INVARIANTS OfflineIsShown
