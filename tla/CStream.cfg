SPECIFICATION Spec
CONSTANTS
    OtherChars <- MCOtherChars
    Alphabet <- MCAlphabet
    MaxLen = 6
INVARIANTS TypeOK NoInternalError NoCharLost EofLast ClassifiesAsC
