CONSTANTS
    Threads = {t1, t2}
    Supervisors = {t1, t2}
    MaxRetry = 2
    DeadAfter = 2
    MaxQueued = 1
    MaxFaults = 0
    Timely = FALSE
    Reliable = FALSE
SPECIFICATION Spec
INVARIANTS TypeOK RunningIsAccepted NoFalseDeath
PROPERTIES FailedReconnectIsFinal
SYMMETRY Symmetry
CHECK_DEADLOCK FALSE
