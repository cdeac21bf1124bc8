SPECIFICATION FairSpec
CONSTANTS
    c1 = c1
    c2 = c2
    Conns <- MCConns
    Configs <- MCConfigs
    Listed <- MCListed
    Calls = 2
    MaxRounds = 2
INVARIANTS
    OneLateCall
    SendNeverBlocks
PROPERTIES
    FetchAllReturns
    RoundsSpec
CHECK_DEADLOCK FALSE
