CONSTANTS
    Lengths = {19, 100, 65536}
    MaxPacketBytes = 32768
    MaxSent = 3
SPECIFICATION Spec
PROPERTY HandlesWhatItRead
CHECK_DEADLOCK FALSE
