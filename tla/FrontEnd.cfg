CONSTANTS
    WordBits = 4
    ByteBits = 3
SPECIFICATION Spec
CHECK_DEADLOCK FALSE
INVARIANTS
    ParsesAsWritten
    LayoutUnderstood
    LiteralsDenote
    ReturnsChecked
