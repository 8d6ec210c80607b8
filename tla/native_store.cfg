CONSTANTS
    c1 = c1
    c2 = c2
    s1 = s1
    s2 = s2
    Callers <- MCCallers
    Values <- MCValues
    None = None
    MaxCalls = 3
    MaxFaults = 1
    MaxLocks = 1

SPECIFICATION FairSpec

INVARIANTS
    TypeOK
    ServiceIsOwned
    NoPromptUnasked

PROPERTIES
    KeepsPromise
    CancellationIsHonoured

CHECK_DEADLOCK FALSE
