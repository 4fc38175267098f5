CONSTANTS
    IntBits = 8
    LiteralLimit = 3
    DigitSet = {"2", "3", "5", "7"}
    MaxDigits = 3
    TextBytes = {"b", "CR", "[", "{", "DQ"}
    EmptyAtoms = TRUE
    MaxText = 3

SPECIFICATION Spec

INVARIANT AStringMatchesSpec
