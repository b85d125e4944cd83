-------------------------------- MODULE Mutex --------------------------------
(***************************************************************************)
(* Adaptive mutexes of sun4u: mutex_enter() and mutex_exit() of            *)
(* uts/sparc/v9/ml/lock_prim.s, the slow paths of uts/sparc/os/mutex.c,    *)
(* the pool of turnstiles they sleep in (turnstile.c) and priority         *)
(* inheritance along chains of blocked threads (prioinherit.c).            *)
(*                                                                         *)
(* The owner word changes by cas only, and mutex_exit() reads m_waiters in *)
(* a second access.  A turnstile is protected by its own ts_wlock, and may *)
(* be on another mutex by the time a thread that has read its id gets the  *)
(* lock.  A stretch under ts_wlock is one action, except that a thread     *)
(* that attaches a turnstile keeps ts_wlock until it has looked at the     *)
(* owner again.  Whether the owner is running on a processor is left open: *)
(* a thread that finds the mutex held may spin or block.                   *)
(***************************************************************************)
EXTENDS SleepQ, FiniteSetsExt

CONSTANTS Threads,
          Mutexes,     \* numbers: threads take them in ascending order
          Turnstiles,  \* the pool
          Pris,        \* dispatch priorities, positive
          None

VARIABLES m_owner, m_waiters,  \* of each mutex
          ts,      \* turnstiles: s-object, sleep queue, pirec
          t_pri, t_epri,  \* assigned and inherited priorities
          thr      \* where each thread is; m, its mutex; ts, a turnstile whose id
                   \* it has; locked, it has the ts_wlock of it; owner, as read

vars == <<m_owner, m_waiters, ts, t_pri, t_epri, thr>>

Out == [pc |-> "out", m |-> None, ts |-> None, locked |-> FALSE, owner |-> None]

Free == [sobj |-> None, sleepq |-> <<>>, benef |-> None, pri |-> 0]

Init ==
    /\ m_owner = [m \in Mutexes |-> None]
    /\ m_waiters = [m \in Mutexes |-> None]
    /\ ts = [x \in Turnstiles |-> Free]
    /\ t_pri \in [Threads -> Pris]
    /\ t_epri = [t \in Threads |-> 0]
    /\ thr = [t \in Threads |-> Out]

Unlocked(x) == \A t \in Threads : thr[t].locked => thr[t].ts # x
------------------------------------------------------------------------------
(* Turnstiles and priority inheritance, as functions of the part k of the     *)
(* state that they change; k.run is the set of threads that are set running.  *)

Kernel == [ts |-> ts, waiters |-> m_waiters, epri |-> t_epri, run |-> {}]

SetKernel(k) ==
    /\ ts' = k.ts
    /\ m_waiters' = k.waiters
    /\ t_epri' = k.epri

\* DISP_PRIO()
DispPrio(k) == [t \in Threads |-> IF k.epri[t] # 0 THEN k.epri[t] ELSE t_pri[t]]

\* The turnstile that t is asleep in, if any.
AsleepIn(k, t) == {x \in Turnstiles : OnQueue(k.ts[x].sleepq, t)}

\* pi_changepri(), which moves a thread that is asleep: mutex_changepri().
PiChangepri(k, t, p) ==
    LET k1 == [k EXCEPT !.epri[t] = p]
    IN  [k1 EXCEPT !.ts = [x \in Turnstiles |->
           IF x \in AsleepIn(k, t)
           THEN [k.ts[x] EXCEPT !.sleepq =
                    SleepqInsert(SleepqDequeue(@, t), DispPrio(k1), t)]
           ELSE k.ts[x]]]

\* pi_waive(), with pirec_calcpri() of what the beneficiary still inherits.
PiWaive(k, x) ==
    LET b == k.ts[x].benef
        k1 == [k EXCEPT !.ts[x].benef = None, !.ts[x].pri = 0]
        pris == {k1.ts[y].pri : y \in {z \in Turnstiles : k1.ts[z].benef = b}}
        pri == Max(pris \cup {t_pri[b]})
    IN  IF b = None THEN k
        ELSE IF pris = {} THEN PiChangepri(k1, b, 0)
        ELSE IF pri # DispPrio(k)[b] THEN PiChangepri(k1, b, pri) ELSE k1

\* Mutant: a turnstile is freed although threads still sleep in it.
TstileFreeBusy(k, x) ==
    [PiWaive(k, x) EXCEPT !.ts[x].sobj = None, !.waiters[k.ts[x].sobj] = None]

\* tstile_free()
TstileFree(k, x) ==
    IF k.ts[x].sleepq # <<>> THEN k
    ELSE [PiWaive(k, x) EXCEPT !.ts[x] = Free, !.waiters[k.ts[x].sobj] = None]

\* mutex_unsleep()
MutexUnsleep(k, t) ==
    LET x == CHOOSE y \in AsleepIn(k, t) : TRUE
    IN  TstileFree([k EXCEPT !.ts[x].sleepq = SleepqDequeue(@, t), !.run = @ \cup {t}], x)

\* t_release()
TRelease(k, x) ==
    IF k.ts[x].sleepq = <<>> THEN TstileFree(k, x)
    ELSE TstileFree([k EXCEPT !.ts[x].sleepq = Tail(@),
                              !.run = @ \cup {Head(k.ts[x].sleepq)}], x)

\* One round of the loop of pi_willto(): t, asleep, wills its priority to the
\* owner, and, if that one is asleep, it is the owner's turn.  A thread asleep on
\* a mutex without owner is set running.
WilltoOwner(k, t) ==
    LET x == CHOOSE y \in AsleepIn(k, t) : TRUE
        owner == m_owner[k.ts[x].sobj]
        pri == DispPrio(k)[t]
        k1 == [k EXCEPT !.ts[x].benef = IF @ = None THEN owner ELSE @,
                        !.ts[x].pri = IF @ < pri THEN pri ELSE @]
        k2 == IF pri > DispPrio(k)[owner] THEN PiChangepri(k1, owner, pri) ELSE k1
    IN  IF owner = None \/ pri <= t_pri[owner] THEN [k |-> k, next |-> None]
        ELSE IF AsleepIn(k, owner) = {} THEN [k |-> k2, next |-> None]
        ELSE IF m_owner[thr[owner].m] = None
             THEN [k |-> MutexUnsleep(k2, owner), next |-> None]
        ELSE [k |-> k2, next |-> owner]

\* pi_willto().  No thread comes twice in a chain of owners.
PiWillto(k, t) ==
    LET willed[n \in 0..Cardinality(Threads)] ==
          IF n = 0 THEN [k |-> k, next |-> t]
          ELSE LET w == willed[n - 1]
               IN  IF w.next = None THEN w ELSE WilltoOwner(w.k, w.next)
    IN  willed[Cardinality(Threads)].k

\* thr with the threads of k.run back in the loop of mutex_adaptive_enter().
Run(k, th) == [t \in Threads |-> IF t \in k.run THEN [Out EXCEPT !.pc = "loop", !.m = th[t].m]
                                 ELSE th[t]]
------------------------------------------------------------------------------
(* mutex_enter() *)

\* The cas succeeds, or mutex_adaptive_enter() is called.
MutexEnter(t, m) ==
    /\ thr[t].pc = "out"
    /\ \A l \in Mutexes : m_owner[l] = t => l < m
    /\ IF m_owner[m] = None
       THEN m_owner' = [m_owner EXCEPT ![m] = t] /\ UNCHANGED thr
       ELSE /\ thr' = [thr EXCEPT ![t] = [Out EXCEPT !.pc = "loop", !.m = m]]
            /\ UNCHANGED m_owner
    /\ UNCHANGED <<m_waiters, ts, t_pri, t_epri>>

\* mutex_adaptive_tryenter(), after the owner word has been seen clear.
Tryenter(t) ==
    /\ thr[t].pc = "loop"
    /\ m_owner[thr[t].m] = None
    /\ m_owner' = [m_owner EXCEPT ![thr[t].m] = t]
    /\ thr' = [thr EXCEPT ![t] = Out]
    /\ UNCHANGED <<m_waiters, ts, t_pri, t_epri>>

\* The owner is not running: read m_waiters.
Look(t) ==
    /\ thr[t].pc = "loop"
    /\ m_owner[thr[t].m] # None
    /\ thr' = [thr EXCEPT ![t].pc = IF m_waiters[thr[t].m] = None THEN "attach" ELSE "join",
                          ![t].ts = m_waiters[thr[t].m],
                          ![t].owner = m_owner[thr[t].m]]
    /\ UNCHANGED <<m_owner, m_waiters, ts, t_pri, t_epri>>

\* There was no turnstile.  Under m_wlock: attach one, locked, unless somebody
\* else has.  The pool must not be empty.
Attach(t) ==
    LET m == thr[t].m
    IN  /\ thr[t].pc = "attach"
        /\ IF m_waiters[m] = None
           THEN \E x \in Turnstiles :
                   /\ ts[x].sobj = None /\ Unlocked(x)
                   /\ ts' = [ts EXCEPT ![x].sobj = m]
                   /\ m_waiters' = [m_waiters EXCEPT ![m] = x]
                   /\ thr' = [thr EXCEPT ![t].pc = "block", ![t].ts = x,
                                         ![t].locked = TRUE]
           ELSE /\ thr' = [thr EXCEPT ![t] = [Out EXCEPT !.pc = "loop", !.m = m]]
                /\ UNCHANGED <<ts, m_waiters>>
        /\ UNCHANGED <<m_owner, t_pri, t_epri>>

\* "if (lp->m_adaptive2.m_owner_lock == owner_lock)": block, else try again.
BlockOrRetry(t) ==
    LET x == thr[t].ts
        k == PiWillto([Kernel EXCEPT !.ts[x].sleepq =
                          SleepqInsert(@, DispPrio(Kernel), t)], t)
    IN  /\ IF m_owner[thr[t].m] = thr[t].owner
           THEN /\ SetKernel(k)
                /\ thr' = Run(k, [thr EXCEPT ![t] = [Out EXCEPT !.pc = "sleep",
                                                                !.m = thr[t].m]])
           ELSE /\ thr' = [thr EXCEPT ![t] = [Out EXCEPT !.pc = "loop", !.m = thr[t].m]]
                /\ UNCHANGED <<ts, m_waiters, t_epri>>
        /\ UNCHANGED <<m_owner, t_pri>>

Block(t) ==
    /\ thr[t].pc = "block"
    /\ BlockOrRetry(t)

\* There was a turnstile: lock it, and see whether it is still on the mutex.
Join(t) ==
    /\ thr[t].pc = "join"
    /\ Unlocked(thr[t].ts)
    /\ \/ /\ ts[thr[t].ts].sobj = thr[t].m
          /\ BlockOrRetry(t)
       \/ /\ ts[thr[t].ts].sobj # thr[t].m
          /\ thr' = [thr EXCEPT ![t] = [Out EXCEPT !.pc = "loop", !.m = thr[t].m]]
          /\ UNCHANGED <<m_owner, m_waiters, ts, t_pri, t_epri>>
------------------------------------------------------------------------------
(* mutex_exit() *)

\* The owner word is cleared ...
MutexExit(t, m) ==
    /\ thr[t].pc = "out"
    /\ m_owner[m] = t
    /\ m_owner' = [m_owner EXCEPT ![m] = None]
    /\ thr' = [thr EXCEPT ![t] = [Out EXCEPT !.pc = "exit", !.m = m]]
    /\ UNCHANGED <<m_waiters, ts, t_pri, t_epri>>

\* ... and m_waiters read.
LoadWaiters(t) ==
    LET x == m_waiters[thr[t].m]
    IN  /\ thr[t].pc = "exit"
        /\ thr' = [thr EXCEPT ![t] = IF x = None THEN Out
                                     ELSE [@ EXCEPT !.pc = "release", !.ts = x]]
        /\ UNCHANGED <<m_owner, m_waiters, ts, t_pri, t_epri>>

\* Mutant: only a thread that inherits wakes somebody.
ReleaseInheritor(t) ==
    LET x == thr[t].ts
        k == IF ts[x].sobj = thr[t].m /\ ts[x].benef = t
             THEN TRelease(PiWaive(Kernel, x), x) ELSE Kernel
    IN  /\ thr[t].pc = "release"
        /\ Unlocked(x)
        /\ SetKernel(k)
        /\ thr' = Run(k, [thr EXCEPT ![t] = Out])
        /\ UNCHANGED <<m_owner, t_pri>>

\* mutex_adaptive_release()
Release(t) ==
    LET x == thr[t].ts
        k1 == IF ts[x].benef = t THEN PiWaive(Kernel, x) ELSE Kernel
        k == IF ts[x].sobj = thr[t].m THEN TRelease(k1, x) ELSE Kernel
    IN  /\ thr[t].pc = "release"
        /\ Unlocked(x)
        /\ SetKernel(k)
        /\ thr' = Run(k, [thr EXCEPT ![t] = Out])
        /\ UNCHANGED <<m_owner, t_pri>>

\* setrun() of a thread asleep on a mutex, by the timer of cv_timedwait_sig().
Setrun(t) ==
    LET k == MutexUnsleep(Kernel, t)
    IN  /\ thr[t].pc = "sleep"
        /\ \A x \in AsleepIn(Kernel, t) : Unlocked(x)
        /\ SetKernel(k)
        /\ thr' = Run(k, thr)
        /\ UNCHANGED <<m_owner, t_pri>>
------------------------------------------------------------------------------
Next ==
    \E t \in Threads :
       \/ \E m \in Mutexes : MutexEnter(t, m) \/ MutexExit(t, m)
       \/ Tryenter(t) \/ Look(t) \/ Attach(t) \/ Block(t) \/ Join(t)
       \/ LoadWaiters(t) \/ Release(t) \/ Setrun(t)

Spec == Init /\ [][Next]_vars
------------------------------------------------------------------------------
(* Properties *)

\* The variables have their types.
TypeOK ==
    /\ m_owner \in [Mutexes -> Threads \cup {None}]
    /\ m_waiters \in [Mutexes -> Turnstiles \cup {None}]
    /\ ts \in [Turnstiles -> [sobj : Mutexes \cup {None}, sleepq : Seq(Threads),
                              benef : Threads \cup {None}, pri : Pris \cup {0}]]
    /\ t_pri \in [Threads -> Pris] /\ t_epri \in [Threads -> Pris \cup {0}]
    /\ thr \in [Threads ->
         [pc : {"out", "loop", "attach", "join", "block", "sleep", "exit", "release"},
          m : Mutexes \cup {None}, ts : Turnstiles \cup {None}, locked : BOOLEAN,
          owner : Threads \cup {None}]]

\* A mutex and its turnstile point to each other, and the threads asleep in the
\* turnstile wait for that mutex, in the order of their priorities: an id that
\* was read before the turnstile moved to another mutex leads nobody astray.
TurnstilesConsistent ==
    /\ \A m \in Mutexes, x \in Turnstiles : m_waiters[m] = x <=> ts[x].sobj = m
    /\ \A x \in Turnstiles :
          /\ Sorted(ts[x].sleepq, DispPrio(Kernel))
          /\ \A t \in Threads : OnQueue(ts[x].sleepq, t) =>
                thr[t].pc = "sleep" /\ thr[t].m = ts[x].sobj

\* Threads that will look at mutex m or at its turnstile again.
OnTheWay(m) ==
    {t \in Threads : /\ thr[t].m = m
                     /\ \/ thr[t].pc \in {"loop", "attach", "join", "block", "exit"}
                        \/ thr[t].pc = "release" /\ thr[t].ts = m_waiters[m]}

\* No wake-up is lost between the cas and the read of m_waiters: as long as there
\* is a turnstile on a mutex that nobody owns, with threads asleep in it or left
\* empty by mutex_adaptive_enter(), somebody is on the way who will take the
\* mutex or release the turnstile.
NoneStranded ==
    \A m \in Mutexes : m_waiters[m] # None /\ m_owner[m] = None => OnTheWay(m) # {}

\* No pirec names a thread that is done with the mutex: the beneficiary on record
\* owns the mutex or is about to release the turnstile.  (Only the record is meant;
\* pi_changepri() may have raised another thread, see PriorityReturned.)
PirecReturned ==
    \A x \in Turnstiles :
       LET b == ts[x].benef
       IN  b # None => \/ m_owner[ts[x].sobj] = b
                       \/ thr[b].m = ts[x].sobj /\ thr[b].pc \in {"exit", "release"}

\* "If this is the last pirec_t in the releasing thread's list, then cancel
\* priority inheritance for the releasing thread": a thread that has released
\* all its mutexes is back at its own priority.
PriorityReturned ==
    \A t \in Threads :
       thr[t].pc = "out" /\ (\A m \in Mutexes : m_owner[m] # t) => t_epri[t] = 0
==============================================================================
