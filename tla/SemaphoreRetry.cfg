\* A woken thread that goes back to sleep (violated).
SPECIFICATION FairSpec
CONSTANTS
    Threads = {t1, t2, t3}
    SigThreads = {t1, t2}
    UnsafeThreads = {}
    Pris = {1}
    InitCount = 1
    MinUnits = 1
    MaxUnits = 1
    Panics = FALSE
    None = None
PROPERTIES UninterruptedServed
