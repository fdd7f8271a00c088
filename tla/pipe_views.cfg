\* A process under globalMutex and one with a single thread, any back end, their views.
CONSTANTS
    a = a
    b = b
    a1 = a1
    a2 = a2
    b1 = b1
    Nobody = Nobody
    Misread <- MCMisread
    MaxAttempts = 3
    BodySizes = {2}
    MaxSent = 3
    Clients = {a, b}
    Senders = {a1, a2, b1}
    Home <- TwoProcesses
    Locked = {a1, a2}
    Sources = {"wrapper", "emulator", "cannelloni", "none"}
    MaxMsgs = 2
SPECIFICATION MCSpec
INVARIANTS
    ViewsTypeOK
    NewestOnTop
    ListsMatchRows
    LoadedIsNewest
PROPERTIES
    Arrives
    ConnectEnds
    ShownAtLast
