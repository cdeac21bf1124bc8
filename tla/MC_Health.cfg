SPECIFICATION HealthSpec
CONSTANTS
    Names = {"hub"}
    FetchLimit = 5
    RefreshPeriod = 2
    Horizon = 8
    Timeout = 5
    MaxLost = 1
INVARIANTS
    DeadIsNoticed
    LogIsExact
    SignsOfLife
    WrongIsShort
