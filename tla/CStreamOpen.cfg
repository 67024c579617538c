SPECIFICATION Spec
CONSTANTS
    OtherChars <- MCOtherChars
    Alphabet <- MCAlphabet
    MaxLen = 5
INVARIANT OpenEndReported
