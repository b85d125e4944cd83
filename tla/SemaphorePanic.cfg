\* The panic in sema_v() (violated).
SPECIFICATION Spec
CONSTANTS
    Threads = {t1, t2, t3}
    SigThreads = {t1, t2}
    UnsafeThreads = {}
    Pris = {1}
    InitCount = 1
    MinUnits = 1
    MaxUnits = 1
    Panics = FALSE
    None = None
INVARIANTS NeverPanics
