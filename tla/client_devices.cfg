\* Three ports of which two may be open: opening, closing and writing.
CONSTANTS
    c1 = c1
    c2 = c2
    p1 = p1
    p2 = p2
    p3 = p3
    f1 = f1
    f2 = f2
    NoCaller = NoCaller
    NoPort = NoPort
    Callers = {c1, c2}
    Ports = {p1, p2, p3}
    NumPorts = 2
    SeqMod = 2
    Batches <- NoLists
    ReadSizes = {}
    WriteLists <- MCWriteLists
    SelectLists <- NoLists
    Thresholds = {}
    RxCapacity = 0
    MaxFrames = 0
    MaxSends = 3
SPECIFICATION Spec
SYMMETRY Symmetry
INVARIANTS
    TypeOK
    ContextValid
    NoLeakedSocket
    DeviceLimit
    WireInOrder
