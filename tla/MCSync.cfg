\* Soft calls with two processors, one MT-safe and one MT-unsafe caller, and as
\* many structures as functions.  Cpus are also the two condition variables that
\* share a sleep queue, and Funcs the two turnstiles: one symmetry serves both.
SPECIFICATION MCSpec
CONSTANTS
    Cpus = {p1, p2}
    Callers = {c1, c2}
    UnsafeCallers = {c2}
    Funcs = {f1, f2}
    NSOFTCALLS = 2
    Threads = {t1, t2, t3}
    SigThreads = {t1, t2}
    UnsafeThreads = {t3}
    InitCount = 1
    MinUnits = 0
    MaxUnits = 2
    Panics = TRUE
    Readers = {t1, t2, t3}
    Writers = {t3, t4}
    Turnstiles = {f1, f2}
    Pris = {1, 2}
    None = None
    t1 = t1
    t2 = t2
    t3 = t3
    t4 = t4
    w1 = w1
    v1 = v1
SYMMETRY MCSymmetry
INVARIANTS
    SyncTypeOK
    RequestsServed NeverTooMany NoRequestLost
    SemaSound
    CvCountsExact CvNoMissedWakeup CvNoStaleSetrun
    RwLockSound RwTurnstileSound RwWriterInherits
    MutexNoneStranded MutexTurnstilesSound
PROPERTIES CvNeverEarly CvWakesBest
