SPECIFICATION Spec
CONSTANTS
    Machines <- MCMachines
    Spaces <- MCSpaces
    NameRank <- MCRank
    Slots = 2
    Snapshots <- MCSnapshots
    K11Toggle = TRUE
INVARIANTS
    ModeNamesSelection
    UrgentFirst
    CycleReachesAll
PROPERTIES
    PressSelectsPresent
