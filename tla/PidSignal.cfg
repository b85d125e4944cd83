\* A driver signals a process that may exit meanwhile.
SPECIFICATION Spec
CONSTANTS
    Procs = {p0, c1, c2}
    p0 = p0
    Slots = 3
    MAXPID = 5
    Drivers = {d1}
    None = None
INVARIANT SignalReachesTarget
