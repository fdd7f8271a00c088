\* Opening, closing, connecting.
CONSTANTS
    c1 = c1
    c2 = c2
    p1 = p1
    p2 = p2
    p3 = p3
    f1 = f1
    f2 = f2
    NoCaller = NoCaller
    NoPort = NoPort
    Callers = {c1, c2}
    Ports = {p1}
    NumPorts = 1
    SeqMod = 2
    Batches <- NoLists
    ReadSizes = {}
    WriteLists <- NoLists
    SelectLists <- NoLists
    Thresholds = {}
    RxCapacity = 0
    MaxFrames = 0
    MaxSends = 0
SPECIFICATION Spec
INVARIANTS
    ZeroMeansNoError
