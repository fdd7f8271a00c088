\* Two threads of one process, one of them without globalMutex.
CONSTANTS
    a = a
    b = b
    a1 = a1
    b1 = b1
    b2 = b2
    Nobody = Nobody
    Misread <- MCMisread
    MaxAttempts = 3
    BodySizes = {1, 2}
    MaxSent = 2
    Clients = {b}
    Senders = {b1, b2}
    Home <- RacingProcess
    Locked = {b1}
SPECIFICATION Spec
INVARIANTS
    LengthBeforeMessage
