\* One device, two callers: every call against its receive thread.
CONSTANTS
    c1 = c1
    c2 = c2
    p1 = p1
    p2 = p2
    p3 = p3
    f1 = f1
    f2 = f2
    NoCaller = NoCaller
    NoPort = NoPort
    Callers = {c1, c2}
    Ports = {p1}
    NumPorts = 1
    SeqMod = 2
    Batches <- MCBatches
    ReadSizes = {0, 2}
    WriteLists <- NoLists
    SelectLists <- SelfTwice
    Thresholds = {0, 1, 2}
    RxCapacity = 1
    MaxFrames = 2
    MaxSends = 0
SPECIFICATION Spec
SYMMETRY Symmetry
INVARIANTS
    ThreadOwnsContext
    FifoDelivery
    SelectCountHolds
PROPERTIES
    NoRevival
    RefinesVirtualDevices
