CONSTANTS
    RemoteIDs = {r1, r2}
    Names = {X, Y}
    NoRemote = NoRemote
    NULL = NULL
    MaxMailboxes = 4
    MaxMessages = 2
    MaxBump = 2
    GeneratorValues <- MCGeneratorValues
    UIDBits = 2

SPECIFICATION Spec

INVARIANT ValidityFreshAfterDelete

