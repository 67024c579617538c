SPECIFICATION Spec
CONSTANTS
    Letters <- MCLetters
    Digits <- MCDigits
    OtherChars <- MCOtherChars
    Alphabet <- MCAlphabet
    MaxLen = 6
    IncludeWord <- MCIncludeWord
    IdBufSize = 4
    IdTable <- MCIncludeTable
INVARIANTS TypeOK NeverExits FindsMentions UndefinedHasCause LinesNotAhead
PROPERTY Terminates
CHECK_DEADLOCK FALSE
