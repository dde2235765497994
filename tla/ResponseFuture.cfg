\* Ids that never repeat: an id for each call.
CONSTANTS
    send = send
    beat = beat
    wait = wait
    NoCall = NoCall
    NoId = NoId
    Calls <- MCCalls
    Ids = {1, 2, 3}
    Untimed <- MCUntimed
    Interruptible <- MCInterruptible
    IdsRepeat = FALSE
SPECIFICATION Spec
INVARIANTS TypeOK OwnReply Reachable
PROPERTIES TimedCallEnds RefinesRequestReply
