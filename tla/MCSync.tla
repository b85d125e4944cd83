------------------------------- MODULE MCSync --------------------------------
(***************************************************************************)
(* Soft calls and the synchronization objects, one at a time: semaphores   *)
(* with sema_p_sig(), condition variables with timed waits and with two    *)
(* variables on one sleep queue, readers/writer locks, and mutexes with    *)
(* priority inheritance.  They share no state, so every behaviour is one of*)
(* the object that "part" names.  The soft calls of the other behaviours   *)
(* never begin, and the variables of their other objects are None.         *)
(***************************************************************************)
EXTENDS SoftInt, TLC

CONSTANTS Threads, SigThreads, UnsafeThreads,  \* of the semaphore
          InitCount, MinUnits, MaxUnits, Panics,
          Readers, Writers,                    \* of the readers/writer lock
          Turnstiles,                          \* of the mutexes
          Pris,                                \* priorities
          t1, t2, t3, t4,                      \* threads
          w1, v1           \* a waker, and a condition variable

ASSUME SyncAssumption ==
    /\ IsFiniteSet(Threads)
    /\ SigThreads \subseteq Threads
    /\ UnsafeThreads \subseteq Threads \ SigThreads
    /\ MinUnits \in Nat /\ MaxUnits \in Nat /\ InitCount \in 0..MaxUnits
    /\ IsFiniteSet(Readers \cup Writers)
    /\ None \notin Threads \cup Readers \cup Writers
    /\ Pris \subseteq Nat \ {0}

VARIABLES part,
          s_count, s_slpq, pc, units, s_driver, s_panic,
          lbolt, curtime, timer, cv_waiters, sq_queue, cond, waiter, waker,
          holdcnt, writewanted, owner, waiters, tsq, pirec,
          m_owner, m_waiters, ts, t_epri,
          t_pri, t_sig, mp, thr

semaVars == <<s_count, s_slpq, pc, units, s_driver, s_panic>>
cvVars == <<lbolt, curtime, timer, cv_waiters, sq_queue, cond, waiter, waker>>
rwVars == <<holdcnt, writewanted, owner, waiters, tsq, pirec>>
mutexVars == <<m_owner, m_waiters, ts, t_epri>>
allVars == <<part, vars, semaVars, cvVars, rwVars, mutexVars, t_pri, t_sig, mp, thr>>

MCSymmetry ==
    Permutations(Cpus) \cup Permutations(Funcs) \cup Permutations({t1, t2})

Sema == INSTANCE Semaphore WITH
    unsafe_driver <- s_driver, panicstr <- s_panic

\* Two timed waits, and a timed wait that signals interrupt beside another wait.
Timed == INSTANCE CondVar WITH
    Threads <- {t1, t2}, TimedThreads <- {t1, t2}, SigThreads <- {},
    Wakers <- {w1}, Cvs <- {v1}, Pris <- {1}, TIME <- 5, Deltas <- {1},
    MaxLag <- 1

TimedSig == INSTANCE CondVar WITH
    Threads <- {t3, t4}, TimedThreads <- {t4}, SigThreads <- {t4},
    Wakers <- {w1}, Cvs <- {v1}, Pris <- {1}, TIME <- 5, Deltas <- {1},
    MaxLag <- 1

Shared == INSTANCE CondVar WITH
    Threads <- {t1, t2, t3}, TimedThreads <- {}, SigThreads <- {t3},
    Wakers <- {w1}, Cvs <- Cpus, TIME <- 1, Deltas <- {0}, MaxLag <- 1

RW == INSTANCE RWLock

Mutexes == INSTANCE Mutex WITH Mutexes <- {1, 2}

NoSema == /\ s_count = None /\ s_slpq = None /\ pc = None /\ units = None
          /\ s_driver = None /\ s_panic = None
NoCv == /\ lbolt = None /\ curtime = None /\ timer = None /\ cv_waiters = None
        /\ sq_queue = None /\ cond = None /\ waiter = None /\ waker = None
NoRW == /\ holdcnt = None /\ writewanted = None /\ owner = None
        /\ waiters = None /\ tsq = None /\ pirec = None
NoMutex == m_owner = None /\ m_waiters = None /\ ts = None /\ t_epri = None

MCInit ==
    /\ Init
    /\ \/ /\ part = "soft" /\ NoSema /\ NoCv /\ NoRW /\ NoMutex
          /\ t_pri = None /\ t_sig = None /\ mp = None /\ thr = None
       \/ /\ part = "sema" /\ Sema!Init /\ NoCv /\ NoRW /\ NoMutex
          /\ mp = None /\ thr = None
       \/ /\ \/ part = "timed" /\ Timed!Init
             \/ part = "timedsig" /\ TimedSig!Init
             \/ part = "shared" /\ Shared!Init
          /\ NoSema /\ NoRW /\ NoMutex /\ thr = None
       \/ /\ part = "rw" /\ RW!Init
          /\ NoSema /\ NoCv /\ NoMutex /\ t_sig = None
       \/ /\ part = "mutex" /\ Mutexes!Init
          /\ NoSema /\ NoCv /\ NoRW /\ t_sig = None /\ mp = None

MCNext ==
    \/ /\ part = "soft" /\ Next
       /\ UNCHANGED <<part, semaVars, cvVars, rwVars, mutexVars, t_pri, t_sig, mp, thr>>
    \/ /\ part = "sema" /\ Sema!Next
       /\ UNCHANGED <<part, vars, cvVars, rwVars, mutexVars, mp, thr>>
    \/ /\ part = "timed" /\ Timed!Next
       /\ UNCHANGED <<part, vars, semaVars, rwVars, mutexVars, thr>>
    \/ /\ part = "timedsig" /\ TimedSig!Next
       /\ UNCHANGED <<part, vars, semaVars, rwVars, mutexVars, thr>>
    \/ /\ part = "shared" /\ Shared!Next
       /\ UNCHANGED <<part, vars, semaVars, rwVars, mutexVars, thr>>
    \/ /\ part = "rw" /\ RW!Next
       /\ UNCHANGED <<part, vars, semaVars, cvVars, mutexVars, t_sig>>
    \/ /\ part = "mutex" /\ Mutexes!Next
       /\ UNCHANGED <<part, vars, semaVars, cvVars, rwVars, t_sig, mp>>

MCSpec == MCInit /\ [][MCNext]_allVars
------------------------------------------------------------------------------
(* Properties: those of SoftInt, and those of the other modules, of the     *)
(* object that part names.                                                  *)

\* The variables of each object have their types.
SyncTypeOK ==
    /\ TypeOK
    /\ part = "sema" => Sema!TypeOK
    /\ part = "timed" => Timed!TypeOK
    /\ part = "timedsig" => TimedSig!TypeOK
    /\ part = "shared" => Shared!TypeOK
    /\ part = "rw" => RW!TypeOK
    /\ part = "mutex" => Mutexes!TypeOK

\* A semaphore's queue is in priority order, without duplicates, and holds only
\* threads that wait; s_count is the units less the threads that asked for one;
\* and no more threads own a unit than there are, whatever signals do
\* (semaphore.c).
SemaSound ==
    part = "sema" => Sema!QueueOK /\ Sema!CountAccurate /\ Sema!NeverOvergranted

\* cv_waiters is the number of threads asleep on the variable (condvar.c).
CvCountsExact ==
    /\ part = "timed" => Timed!WaitersAccurate
    /\ part = "timedsig" => TimedSig!WaitersAccurate
    /\ part = "shared" => Shared!WaitersAccurate

\* No wake-up is missed when somebody sleeps and the condition holds (condvar.c).
CvNoMissedWakeup ==
    /\ part = "timed" => Timed!NoMissedWakeup
    /\ part = "timedsig" => TimedSig!NoMissedWakeup
    /\ part = "shared" => Shared!NoMissedWakeup

\* No setrun() of a timer comes after its cv_timedwait() returned (condvar.c).
CvNoStaleSetrun ==
    /\ part = "timed" => Timed!NoStaleSetrun
    /\ part = "timedsig" => TimedSig!NoStaleSetrun

\* cv_timedwait() reports a timeout only when the time has come (condvar.c).
CvNeverEarly == [][/\ part = "timed" => Timed!NotTooEarly
                   /\ part = "timedsig" => TimedSig!NotTooEarly]_allVars

\* cv_signal() wakes the best of its own sleepers (wakeone_chan(), sleepq.c).
CvWakesBest == [][part = "shared" => Shared!BestWoken]_allVars

\* holdcnt is one writer or the number of readers, and nobody sleeps for a lock
\* that is free with nobody on the way to wake it (rw_enter(), rw_exit()).
RwLockSound == part = "rw" => RW!HoldcntExact /\ RW!NoneStranded

\* A lock that nobody waits for has no turnstile, and the priority it lent is
\* given back with it (rw_exit(), rw_downgrade()).
RwTurnstileSound == part = "rw" => RW!TurnstileReturned /\ RW!PirecReturned

\* A writer that keeps a reader of higher priority waiting runs above its own
\* priority (rw_enter(), pi_amend(), pi_willto()).
RwWriterInherits == part = "rw" => RW!WriterInherits

\* Nobody sleeps for a mutex that is free with nobody on the way to wake it
\* (mutex_exit() against mutex_adaptive_enter()).
MutexNoneStranded == part = "mutex" => Mutexes!NoneStranded

\* A turnstile belongs to the mutex its sleepers wait for, and the thread on record
\* as inheriting from them owns that mutex or is about to release it (mutex.c,
\* turnstile.c, mutex_adaptive_release()).  Which threads run at a raised priority
\* is not said here: PriorityReturned of Mutex, which the code does not keep.
MutexTurnstilesSound ==
    part = "mutex" => Mutexes!TurnstilesConsistent /\ Mutexes!PirecReturned
==============================================================================
