\* Liveness of the normal table while one function never returns.
SPECIFICATION FairSpec
CONSTANTS
    Clients = {c1}
    UnsafeClients = {}
    Threads = {t1, t2}
    Callouts = {x1, x2}
    Seqs = {s1}
    TIME = 8
    BUCKETS = 2
    Deltas <- MCShortDeltas
    MaxLag = 1
    MaxPigs = 1
    CPR = FALSE
    TABLES = {FALSE}
    None = None
PROPERTIES EveryCalloutRuns UntimeoutReturns Implements
