SPECIFICATION Spec
CONSTANTS
    Letters <- MCLetters
    Digits <- MCDigits
    OtherChars <- MCOtherChars
    Alphabet <- MCInclude
    MaxLen = 6
    IncludeWord <- MCIncludeWord
    IdBufSize = 4
    IdTable <- MCIdTable
INVARIANT NoLineSwallowed
CHECK_DEADLOCK FALSE
