SPECIFICATION Spec
CONSTANTS
    OtherChars <- MCOtherChars
    Alphabet <- MCQuotes
    MaxLen = 5
INVARIANT NotConfused
