\* sema_p(), sema_tryp() and sema_v() with priorities, and one small instance of
\* each of the other objects.
SPECIFICATION MCSpec
CONSTANTS
    Threads = {t1, t2, t3}
    SigThreads = {}
    UnsafeThreads = {t1, t2}
    Pris = {1, 2}
    InitCount = 1
    MinUnits = 1
    MaxUnits = 2
    Panics = TRUE
    None = None
    t1 = t1
    t2 = t2
    t3 = t3
    v1 = v1
    f1 = f1
    f2 = f2
PROPERTIES Implements LockServed CallEnds
