CONSTANTS
    Words = {w1}
    Keywords = {"kw"}
    HeaderFields = {"X-Tag"}
    KeySet <- AndKeys
    Msgs <- NoDateMsgs
    DeepKeys = {}

SPECIFICATION Spec

INVARIANT AndCommutes
