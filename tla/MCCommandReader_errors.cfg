CONSTANTS
    LineKinds = {"noop", "starttls", "starttls_junk", "unknown", "uid_unknown", "literal_big"}
    MaxLines = 2
    PipelineStartTLS = TRUE

SPECIFICATION Spec

CHECK_DEADLOCK FALSE

INVARIANT ResponsesPerSpec
