\* What callout_save() leaves in the table (violated).
SPECIFICATION Spec
CONSTANTS
    Clients = {c1, c2}
    UnsafeClients = {}
    Threads = {t1, t2}
    Callouts = {x1, x2}
    Seqs = {s1, s2}
    TIME = 8
    BUCKETS = 2
    Deltas <- MCShortDeltas
    MaxLag = 1
    MaxPigs = 0
    CPR = TRUE
    TABLES = {FALSE}
    None = None
SYMMETRY MCSymmetry
PROPERTIES SaveEmptiesTable
