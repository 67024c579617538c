SPECIFICATION Spec
CONSTANTS
    HeaderText <- MCHeaderText
    HeaderOf <- MCHeaderOf
    Layouts <- MCLayouts
    Sources <- MCSources
    NameBytes <- MCNameBytes
    Mentioned <- MCMentioned
    TableIds <- MCTableIds
    MaxOptionErrors = 1
    NTrcv = 1
    SegSize = 1
    MaxOptions = 2
    MaxFiles = 2
INVARIANT MentionedTableSuffices
CHECK_DEADLOCK FALSE
