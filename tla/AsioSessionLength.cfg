CONSTANTS
    Lengths = {19, 100, 128}
    MaxPacketBytes = 32768
    MaxSent = 2
SPECIFICATION Spec
INVARIANT LengthIsRead
CHECK_DEADLOCK FALSE
