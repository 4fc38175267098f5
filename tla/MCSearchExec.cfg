CONSTANTS
    Sessions = {s1, s2}
    Words = {w1}
    Keywords = {"kw"}
    HeaderFields = {"From"}
    Snap <- MCSnapshots
    Keys <- MCKeys
    CanFail = TRUE
    CPUCounts = {1, 2}

SPECIFICATION FairSpec

INVARIANT TypeOK ActiveCounted

PROPERTY ImplementsSearch
PROPERTY SearchTerminates
