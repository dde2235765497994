CONSTANTS
    Threads = {supervisor, closer}
    Supervisors = {supervisor}
    MaxRetry = 2
    DeadAfter = 1
    MaxQueued = 1
    MaxFaults = 0
    Timely = FALSE
    Reliable = FALSE
SPECIFICATION Spec
PROPERTIES DeadIsNoticed CloseStopsHeartbeat ReconnectEnds
CHECK_DEADLOCK FALSE
