SPECIFICATION Spec
CONSTANTS
    Keys = {"K1", "K2"}
    SVGs = {"s1", "s2"}
    Capacity = 3
INVARIANTS
    SentIsAsked
    LastUsedKept
