\* One device, two callers, every kind of call: calls return, sockets drain.
CONSTANTS
    c1 = c1
    c2 = c2
    p1 = p1
    p2 = p2
    p3 = p3
    f1 = f1
    f2 = f2
    NoCaller = NoCaller
    NoPort = NoPort
    Callers = {c1, c2}
    Ports = {p1}
    NumPorts = 1
    SeqMod = 2
    Batches <- OneFrame
    ReadSizes = {1}
    WriteLists <- OneWrite
    SelectLists <- OneSelect
    Thresholds = {1}
    RxCapacity = 1
    MaxFrames = 1
    MaxSends = 1
SPECIFICATION FairSpec
PROPERTIES
    CallsReturn
    SocketDrained
