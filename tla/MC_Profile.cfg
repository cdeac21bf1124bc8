SPECIFICATION ProfileSpec
CONSTANTS
    ActionKeys = {"K1"}
    NPages = 2
    MaxProfiles = 3
    MaxFaults = 2
INVARIANTS
    OneProfile
    NamedIsWhole
    ToldIsKept
