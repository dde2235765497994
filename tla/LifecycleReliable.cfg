CONSTANTS
    Threads = {supervisor}
    Supervisors = {supervisor}
    MaxRetry = 4
    DeadAfter = 5
    MaxQueued = 2
    MaxFaults = 3
    Timely = TRUE
    Reliable = TRUE
SPECIFICATION RecoverySpec
PROPERTIES Recovers
CHECK_DEADLOCK FALSE
