CONSTANTS
    IntBits = 8
    LiteralLimit = 3
    DigitSet = {"0", "1", "2"}
    MaxDigits = 2
    TextBytes = {"b", "]", "SP", "DQ", "BS"}
    EmptyAtoms = FALSE
    MaxText = 4

SPECIFICATION Spec

INVARIANT AStringMatchesSpec
