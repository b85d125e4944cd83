\* Four threads of two priorities and one mutex.
SPECIFICATION Spec
CONSTANTS
    Threads = {t1, t2, t3, t4}
    Mutexes = {1}
    Turnstiles = {x1}
    Pris = {1, 2}
    None = None
INVARIANT PriorityReturned
