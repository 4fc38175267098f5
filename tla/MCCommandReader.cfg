CONSTANTS
    LineKinds = {"noop", "logout", "starttls", "bad", "hello", "uid_expunge", "uid_copy_bad", "literal"}
    MaxLines = 4
    PipelineStartTLS = FALSE

SPECIFICATION FairSpec

CHECK_DEADLOCK FALSE

INVARIANT TypeOK ResponsesPerSpec

PROPERTY SessionEnds LiteralContinued HelloDropped
