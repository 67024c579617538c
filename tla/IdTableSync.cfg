SPECIFICATION Spec
CONSTANTS
    Letters <- MCLetters
    Names <- MCNames
    Headers <- MCHeaders
    NFLD = 4
    ERR_LIMIT = 1
    SegSize = 1
    MaxFiles = 2
    MaxLines = 2
INVARIANT VerifiedInSync
CHECK_DEADLOCK FALSE
