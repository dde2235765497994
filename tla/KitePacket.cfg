CONSTANTS
    Headers <- MCHeaders
    Values <- MCValues
    MaxCalls = 2
SPECIFICATION Spec
INVARIANTS
    TypeOK
    UnsetIsDefault
    SizeIsExact
PROPERTIES
    CopyIsEqual
    MergeIsConcatenation
    RoundTrip
    OnlyWholeAccepted
    NothingInvented
CHECK_DEADLOCK FALSE
