SPECIFICATION Spec
CONSTANTS
    c1 = c1
    c2 = c2
    c3 = c3
    p1 = p1
    p2 = p2
    Conns <- MCConns
    Names <- MCNames
    NameOf <- MCNameOf
    Panes = {p1, p2}
    Raws = {"working", "blocked", "compacting"}
    Reports <- MCReports
    Errors = {"refused", "timeout"}
    MaxSeq = 3
INVARIANTS
    LastKnownAgents
    StatsMatchAgents
    ChangedIsExact
PROPERTIES
    StableOrder
CHECK_DEADLOCK FALSE
