SPECIFICATION Spec
CONSTANTS
    Letters <- MCLetters
    Digits <- MCDigits
    OtherChars <- MCOtherChars
    Alphabet <- MCGlue
    MaxLen = 6
    IncludeWord <- MCIncludeWord
    IdBufSize = 4
    IdTable <- MCIdTable
INVARIANT FindsGlued
CHECK_DEADLOCK FALSE
