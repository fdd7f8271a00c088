\* Every kind of installation, two threads, the loader's calls complete or not.
CONSTANTS
    t1 = t1
    t2 = t2
    None = None
    Threads = {t1, t2}
    Loader = t1
    DeviceCount = 3
    Installations <- MCInstallations
    Repertoire <- MCRepertoire
SPECIFICATION FairSpec
INVARIANTS
    TypeOK
    OneBackEnd
    LoadReportTrue
    NoStaleText
    HandedOutOnce
PROPERTIES
    ImplementsApi
