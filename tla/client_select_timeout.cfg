\* Two devices, one of them ready, threshold 2.
CONSTANTS
    c1 = c1
    c2 = c2
    p1 = p1
    p2 = p2
    p3 = p3
    f1 = f1
    f2 = f2
    NoCaller = NoCaller
    NoPort = NoPort
    Callers = {c1}
    Ports = {p1, p2}
    NumPorts = 2
    SeqMod = 2
    Batches <- OneFrame
    ReadSizes = {}
    WriteLists <- NoLists
    SelectLists <- MCSelectLists
    Thresholds = {2}
    RxCapacity = 1
    MaxFrames = 1
    MaxSends = 0
SPECIFICATION Spec
PROPERTIES
    SelectReportsReady
