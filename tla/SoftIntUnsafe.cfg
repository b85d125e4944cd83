\* Coalescing forgets unsafe_driver (violated).
SPECIFICATION Spec
CONSTANTS
    Cpus = {p1, p2}
    Callers = {c1, c2}
    UnsafeCallers = {c2}
    Funcs = {f1, f2}
    NSOFTCALLS = 2
    None = None
PROPERTIES CalledUnderUnsafe
