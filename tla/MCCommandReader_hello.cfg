CONSTANTS
    LineKinds = {"noop", "hello_nocrlf"}
    MaxLines = 2
    PipelineStartTLS = FALSE

SPECIFICATION FairSpec

CHECK_DEADLOCK FALSE

PROPERTY HelloDropped
