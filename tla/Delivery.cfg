CONSTANTS
    Packets <- MCPackets
    Size <- MCSize
    Room = 2
    Most = 1
    l1 = l1
    l2 = l2
    Listeners = {l1, l2}
    defaultListener = default
    Channels = {a}
    Channel = a
    Bounds <- MCBounds
SPECIFICATION Spec
CHECK_DEADLOCK FALSE
INVARIANTS
    TypeOK
    StreamSound
    CountedIsWritten
    DeliveredInOrder
    StaleOncePerChange
    ListenerCallUnanswered
PROPERTIES
    WorkerReturns
    WritesEnd
    CallsKeepPromise
