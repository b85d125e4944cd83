\* Three threads, one of which calls page_rename(), on two pages and two
\* identities; two callouts whose ids come round at every other callout; two file
\* structures (Pages), and two processes besides p0 (k1, k2).
SPECIFICATION MCSpec
CONSTANTS
    Threads = {t1, t2, t3}
    Renamers = {t1}
    Pages = {s1, s2}
    Keys = {k1, k2}
    BUCKETS = 2
    COUNTS = 2
    LONGTERM_TICKS = 2
    Deltas = {2, 3}
    MaxLate = 0
    Window = 3
    Free = Free
    t1 = t1
    t2 = t2
    t3 = t3
    c1 = c1
    k1 = k1
    k2 = k2
    p0 = p0
    d1 = d1
    None = None
SYMMETRY MCSymmetry
INVARIANTS
    TablesTypeOK
    SelockExact IdentityUnique HeldPageStable SleeperSound
    CalloutFound
    FileNotFreed FdCountsExact
    PidTableExact MapSound WaitersSound
PROPERTY LostOnlyOnOverflow
