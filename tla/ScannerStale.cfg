SPECIFICATION Spec
CONSTANTS
    Letters <- MCLetters
    Digits <- MCDigits
    OtherChars <- MCOtherChars
    Alphabet <- MCStale
    MaxLen = 6
    IncludeWord <- MCIncludeWord
    IdBufSize = 4
    IdTable <- MCIdTable
INVARIANT NothingFromInclude
CHECK_DEADLOCK FALSE
