CONSTANTS
    Words = {w1}
    Keywords = {"kw"}
    HeaderFields = {"X-Tag"}
    KeySet <- EvalKeys
    Msgs <- UTCMsgs
    DeepKeys <- NeedsKeys

SPECIFICATION Spec

INVARIANT OpMatchesSpec
INVARIANT NeedsCoverReads
