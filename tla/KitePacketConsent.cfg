CONSTANTS
    Headers <- MCHeaders
    Values <- MCValues
    MaxCalls = 0
SPECIFICATION Spec
INVARIANT ConsentWasGiven
CHECK_DEADLOCK FALSE
