CONSTANTS
    Sessions = {a, b, c}
    ReadOnly = {c}
    UIDs = {1, 2, 3}
    UIDSets = {{1}, {2, 3}}
    CanFail = TRUE

SPECIFICATION Spec

INVARIANT ClientViewConsistent
INVARIANT SnapshotsConverge
PROPERTY ExpungeOnlyRequested
