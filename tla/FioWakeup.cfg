\* Two lwps close two descriptors of one process while two others use them.
SPECIFICATION Spec
CONSTANTS
    Threads = {t1, t2, t3, t4}
    Closers = {t1, t2}
    Dupers = {}
    Calls = {"read", "close"}
    Files = {f1, f2}
    NFPCHUNK = 1
    InitFiles = 2
    FileLimit = 2
    MaxCount = 3
    None = None
INVARIANT CloserKicked
