\* Ids that have wrapped: fewer ids than calls.
CONSTANTS
    send = send
    beat = beat
    wait = wait
    NoCall = NoCall
    NoId = NoId
    Calls <- MCCalls
    Ids = {1, 2}
    Untimed <- NoUntimed
    Interruptible <- MCInterruptible
    IdsRepeat = TRUE
SPECIFICATION Spec
INVARIANTS EntrySound
PROPERTIES PromiseSetOnce LeftoverGoes
