\* No back end is configured: every call is logged.
CONSTANTS
    t1 = t1
    t2 = t2
    None = None
    Threads = {t1, t2}
    Loader = t1
    DeviceCount = 3
    Installations <- Logging
    Repertoire <- MCRepertoire
SPECIFICATION Spec
INVARIANTS
    LoggedIsSent
