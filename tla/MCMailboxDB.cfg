CONSTANTS
    RemoteIDs = {r1, r2}
    Names = {X, Y}
    NoRemote = NoRemote
    NULL = NULL
    MaxMailboxes = 4
    MaxMessages = 2
    MaxBump = 2
    GeneratorValues <- MCGeneratorValues
    UIDBits = 3

SPECIFICATION Spec

INVARIANT TypeOK
INVARIANT ValidityFreshAfterDelete
INVARIANT UIDsBelowUIDNext
PROPERTY UIDValidityMonotone

