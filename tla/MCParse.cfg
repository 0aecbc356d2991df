SPECIFICATION StrSpec
CONSTANTS
    Alphabet <- MCAlphabet
    MaxLen = 5
INVARIANTS ParsesNumerals DecodesPairs
CHECK_DEADLOCK FALSE
