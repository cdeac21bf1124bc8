SPECIFICATION FairSpec
CONSTANTS
    Machines <- MCMachines
    Spaces <- MCSpaces
    NameRank <- MCRank
    Slots = 2
    Published <- MCSnapshots
    Watched = {"blocked"}
    MaxInputs = 1
INVARIANTS
    NeverLockedOut
    BoardMatchesChips
PROPERTIES
    SettledIsDrawn
    AlertsOnEntry
