\* A process with one thread next to one whose threads interleave their writes.
CONSTANTS
    a = a
    b = b
    a1 = a1
    b1 = b1
    b2 = b2
    Nobody = Nobody
    Misread <- MCMisread
    MaxAttempts = 1
    BodySizes = {1, 2}
    MaxSent = 2
    Clients = {a, b}
    Senders = {a1, b1, b2}
    Home <- TwoProcesses
    Locked = {b1}
SPECIFICATION Spec
INVARIANTS
    TypeOK
    InOrder
    InStep
PROPERTIES
    ImplementsChannel
