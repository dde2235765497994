CONSTANTS
    Lengths = {19, 100, 128, 40000, 65536}
    MaxPacketBytes = 32768
    MaxSent = 4
SPECIFICATION Spec
INVARIANTS TypeOK InOrder BacklogStays
CHECK_DEADLOCK FALSE
