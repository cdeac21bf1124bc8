SPECIFICATION FairSpec
CONSTANTS
    Machines <- MCMachines
    Spaces <- MCSpaces
    NameRank <- MCRank
    Slots = 1
    Snapshots <- TwoSnapshots
    Readings = {0}
    K11Toggle = FALSE
    Keys <- K1_K12
    Profile = TRUE
    Limits <- OneOfEach
INVARIANTS
    CacheTellsTruth
    ShownIsRendered
    CleanMeansCurrent
PROPERTIES
    QuietIsDrawn
    ModeIsDrawn
