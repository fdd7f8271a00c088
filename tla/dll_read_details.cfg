\* The wrapped DLL exports every function.
CONSTANTS
    t1 = t1
    t2 = t2
    None = None
    Threads = {t1, t2}
    Loader = t1
    DeviceCount = 3
    Installations <- Wrapping
    Repertoire <- MCRepertoire
SPECIFICATION Spec
INVARIANTS
    NotFoundMeansAbsent
