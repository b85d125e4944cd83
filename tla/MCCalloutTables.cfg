\* Two callout threads, one MT-safe and one MT-unsafe caller of the normal table,
\* checkpoints, lbolt wrapping at 8.
SPECIFICATION Spec
CONSTANTS
    Clients = {c1, c2}
    UnsafeClients = {c2}
    Threads = {t1, t2}
    Callouts = {x1, x2}
    Seqs = {s1, s2}
    TIME = 8
    BUCKETS = 2
    Deltas <- MCDeltas
    MaxLag = 1
    MaxPigs = 0
    CPR = TRUE
    TABLES <- MCTABLES
    None = None
SYMMETRY MCSymmetry
ACTION_CONSTRAINTS CprAtZero RealtimeUse
INVARIANTS IInv NoneLeftBehind NoUnsafeDeadlock
PROPERTIES NeverEarly UntimeoutVerdict UntimeoutBarrier NormalQuiesces
