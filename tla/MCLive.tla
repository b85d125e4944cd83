------------------------------- MODULE MCLive --------------------------------
(***************************************************************************)
(* What must happen in the end, for one object at a time: semaphores, soft *)
(* calls, timed waits on condition variables, readers/writer locks and     *)
(* close().  They share no state, so every behaviour is one of the object  *)
(* that "part" names, with the fairness of its module.  The semaphore of   *)
(* the other behaviours is never used, and the variables of their other    *)
(* objects are None.                                                       *)
(***************************************************************************)
EXTENDS Semaphore

CONSTANTS t1, t2, t3,  \* threads, and a processor
          v1,          \* a condition variable
          f1, f2       \* functions, and file structures

VARIABLES part,
          softhead, softcall_lock, siron_pending, iv_pending, soft, handler,
          caller, c_driver, c_panic, owed, owedUnsafe,
          lbolt, curtime, timer, cv_waiters, sq_queue, cond, waiter, waker,
          holdcnt, writewanted, owner, waiters, tsq, pirec,
          u_flist, u_flock2, f_count, child,
          pri, sig, mp, thr

softVars == <<softhead, softcall_lock, siron_pending, iv_pending, soft, handler,
              caller, c_driver, c_panic, owed, owedUnsafe>>
cvVars == <<lbolt, curtime, timer, cv_waiters, sq_queue, cond, waiter, waker>>
rwVars == <<holdcnt, writewanted, owner, waiters, tsq, pirec>>
fdVars == <<u_flist, u_flock2, f_count, child>>
allVars == <<part, vars, softVars, cvVars, rwVars, fdVars, pri, sig, mp, thr>>

Soft == INSTANCE SoftInt WITH
    Cpus <- {t3}, Callers <- {t1, t2}, UnsafeCallers <- {t2},
    Funcs <- {f1, f2}, NSOFTCALLS <- 1,
    unsafe_driver <- c_driver, panicstr <- c_panic

Cv == INSTANCE CondVar WITH
    Threads <- {t1, t2}, TimedThreads <- {t1}, SigThreads <- {},
    Wakers <- {t3}, Cvs <- {v1}, Pris <- {1}, TIME <- 5, Deltas <- {1},
    MaxLag <- 1, t_pri <- pri, t_sig <- sig

RW == INSTANCE RWLock WITH
    Readers <- {t1, t2}, Writers <- {t3}, Pris <- {1}, t_pri <- pri

Fd == INSTANCE Fio WITH
    Threads <- {t1, t2, t3}, Closers <- {t1}, Dupers <- {},
    Calls <- {"read", "close", "dup", "open"}, Files <- {f1, f2},
    NFPCHUNK <- 1, InitFiles <- 1, FileLimit <- 2, MaxCount <- 3

NoSoft == /\ softhead = None /\ softcall_lock = None /\ siron_pending = None
          /\ iv_pending = None /\ soft = None /\ handler = None
          /\ caller = None /\ c_driver = None /\ c_panic = None
          /\ owed = None /\ owedUnsafe = None
NoCv == /\ lbolt = None /\ curtime = None /\ timer = None /\ cv_waiters = None
        /\ sq_queue = None /\ cond = None /\ waiter = None /\ waker = None
NoRW == /\ holdcnt = None /\ writewanted = None /\ owner = None
        /\ waiters = None /\ tsq = None /\ pirec = None
NoFd == u_flist = None /\ u_flock2 = None /\ f_count = None /\ child = None

Idle == t_pri = [t \in Threads |-> 1]

MCInit ==
    /\ Init
    /\ \/ /\ part = "sema"
          /\ NoSoft /\ NoCv /\ NoRW /\ NoFd
          /\ pri = None /\ sig = None /\ mp = None /\ thr = None
       \/ /\ part = "soft" /\ Soft!Init /\ Idle /\ NoCv /\ NoRW /\ NoFd
          /\ pri = None /\ sig = None /\ mp = None /\ thr = None
       \/ /\ part = "cv" /\ Cv!Init /\ Idle
          /\ NoSoft /\ NoRW /\ NoFd /\ thr = None
       \/ /\ part = "rw" /\ RW!Init /\ Idle
          /\ NoSoft /\ NoCv /\ NoFd /\ sig = None
       \/ /\ part = "fd" /\ Fd!Init /\ Idle
          /\ NoSoft /\ NoCv /\ NoRW
          /\ pri = None /\ sig = None /\ mp = None

SemaOnly == part = "sema" /\ UNCHANGED <<part, softVars, cvVars, rwVars, fdVars, pri, sig,
                                         mp, thr>>
SoftOnly == part = "soft" /\ UNCHANGED <<part, vars, cvVars, rwVars, fdVars, pri, sig, mp,
                                         thr>>
CvOnly == part = "cv" /\ UNCHANGED <<part, vars, softVars, rwVars, fdVars, thr>>
RWOnly == part = "rw" /\ UNCHANGED <<part, vars, softVars, cvVars, fdVars, sig>>
FdOnly == part = "fd" /\ UNCHANGED <<part, vars, softVars, cvVars, rwVars, pri, sig, mp>>

MCNext ==
    \/ SemaOnly /\ Next
    \/ SoftOnly /\ Soft!Next
    \/ CvOnly /\ Cv!Next
    \/ RWOnly /\ RW!Next
    \/ FdOnly /\ Fd!Next

\* The fairness of each module: as only one part has steps, a fair action of each
\* part may be joined to one of the others.
MCFairness ==
    /\ \A t \in {t1, t2, t3} :
          /\ WF_allVars(\/ SemaOnly /\ Runs(t)
                        \/ SoftOnly /\ t # t3 /\ Soft!Siron(t)
                        \/ CvOnly /\ t # t3 /\ Cv!Runs(t)
                        \/ CvOnly /\ t = t3 /\ Cv!Wakes(t)
                        \/ RWOnly /\ RW!Runs(t)
                        \/ FdOnly /\ Fd!Runs(t))
          /\ SF_allVars(\/ SemaOnly /\ GetsDriver(t)
                        \/ SoftOnly /\ t = t3 /\ (Soft!Serve(t) \/ Soft!EnterUnsafe(t))
                        \/ CvOnly /\ t # t3 /\ Cv!GetsMutex(t)
                        \/ RWOnly /\ RW!GetsMutex(t))
    /\ \A t \in {t1, t2} :
          /\ SF_allVars(\/ SemaOnly /\ SemaV(t)
                        \/ SoftOnly /\ Soft!LeaveDriver(t))
          /\ WF_allVars(CvOnly /\ Cv!TimerRuns(t))
    /\ WF_allVars(\/ SemaOnly /\ SemaV(t3)
                  \/ CvOnly /\ Cv!Clock)

MCSpec == MCInit /\ [][MCNext]_allVars /\ MCFairness
------------------------------------------------------------------------------
(* Properties, besides Implements of Semaphore: those of the modules, of   *)
(* the object that part names.                                              *)

Top(t) == \A p \in Pris : p <= t_pri[t]

\* Whoever waits for a lock gets it, if those who have it let it go: a thread in
\* sema_p(), as long as no priority is above its own (s_slpq is first come, first
\* served among equals), and the writer of a readers/writer lock, which readers
\* that come after it cannot keep out.
LockServed ==
    \A t \in {t1, t3} :
       (\/ part = "sema" /\ pc[t] = "swtch" /\ Top(t)
        \/ part = "rw" /\ t = t3 /\ thr[t] = [pc |-> "block", rw |-> "RW_WRITER"])
       ~> (\/ part = "sema" /\ (pc[t] = "in" \/ ~Top(t) \/ panicstr)
           \/ part = "rw" /\ t \in RW!Holding("RW_WRITER"))

\* What was begun is finished: a timed wait ends, whatever order the timer, the
\* tick, the wake-up and the sleep come in; close() returns if the calls in
\* progress on its descriptor do; and a function that softcall() was given is
\* called.
CallEnds ==
    (\/ part = "cv" /\ waiter[t1].pc = "arm"
     \/ part = "fd" /\ thr[t1].pc = "close_wait"
     \/ part = "soft" /\ f1 \in owed)
    ~> (\/ part = "cv" /\ waiter[t1].pc \in {"return", "out"}
        \/ part = "fd" /\ thr[t1].pc = "out"
        \/ part = "soft" /\ f1 \notin owed)
==============================================================================
