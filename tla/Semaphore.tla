------------------------------ MODULE Semaphore ------------------------------
(***************************************************************************)
(* A kernel semaphore of uts/common/os/semaphore.c.  The code between the  *)
(* acquisition and the release of the sleep queue lock is one action; a    *)
(* thread that has put itself on s_slpq is asleep as soon as the lock is   *)
(* dropped, although it has yet to reach swtch().                          *)
(***************************************************************************)
EXTENDS SleepQ

CONSTANTS Threads,        \* threads that use the semaphore
          SigThreads,     \* those of them that call sema_p_sig()
          UnsafeThreads,  \* those of them that run under unsafe_driver
          Pris,           \* dispatch priorities
          InitCount,      \* argument of sema_init()
          MinUnits,       \* bounds: units in existence
          MaxUnits,
          Panics,         \* bound: whether the system may panic elsewhere
          None

ASSUME SemaAssumption ==
    /\ IsFiniteSet(Threads)
    /\ SigThreads \subseteq Threads
    /\ UnsafeThreads \subseteq Threads \ SigThreads
    /\ Pris \subseteq Int
    /\ MinUnits \in Nat /\ MaxUnits \in Nat
    /\ InitCount \in 0..MaxUnits
    /\ None \notin Threads

VARIABLES s_count,        \* units, less the threads that asked for one
          s_slpq,         \* the sleep queue
          t_pri,          \* dispatch priorities
          t_sig,          \* a signal, a hold or lwp_sysabort is pending
          pc,             \* where each thread is
          unsafe_driver,  \* owner of the MT-unsafe driver mutex
          panicstr,       \* the system is panicking
          units           \* history: units in existence

vars == <<s_count, s_slpq, t_pri, t_sig, pc, unsafe_driver, panicstr, units>>

Asleep(t) == OnQueue(s_slpq, t)

\* sema_init()
Init ==
    /\ s_count = InitCount
    /\ s_slpq = <<>>
    /\ t_pri \in [Threads -> Pris]
    /\ t_sig = [t \in Threads |-> FALSE]
    /\ pc = [t \in Threads |-> "out"]
    /\ unsafe_driver = None
    /\ panicstr = FALSE
    /\ units = InitCount

\* An MT-unsafe driver calls with unsafe_driver held.
EnterDriver(t) ==
    /\ t \in UnsafeThreads
    /\ pc[t] \in {"out", "in"}
    /\ unsafe_driver = None
    /\ unsafe_driver' = t
    /\ UNCHANGED <<s_count, s_slpq, t_pri, t_sig, pc, panicstr, units>>

LeaveDriver(t) ==
    /\ pc[t] \in {"out", "in"}
    /\ unsafe_driver = t
    /\ unsafe_driver' = None
    /\ UNCHANGED <<s_count, s_slpq, t_pri, t_sig, pc, panicstr, units>>

MayCall(t) == t \in UnsafeThreads => unsafe_driver = t

\* sema_p(): "s_count-- > 0", else sleep unless the system is panicking.
SemaP(t) ==
    /\ t \notin SigThreads
    /\ pc[t] = "out"
    /\ MayCall(t)
    /\ s_count' = s_count - 1
    /\ IF s_count > 0 \/ panicstr
       THEN /\ pc' = [pc EXCEPT ![t] = "in"]
            /\ UNCHANGED s_slpq
       ELSE /\ pc' = [pc EXCEPT ![t] = "blocking"]
            /\ s_slpq' = SleepqInsert(s_slpq, t_pri, t)
    /\ UNCHANGED <<t_pri, t_sig, unsafe_driver, panicstr, units>>

\* Mutant: sema_p() sleeps with unsafe_driver held.
SwtchHoldingUnsafe(t) ==
    /\ pc[t] = "blocking"
    /\ pc' = [pc EXCEPT ![t] = "swtch"]
    /\ UNCHANGED <<s_count, s_slpq, t_pri, t_sig, unsafe_driver, panicstr, units>>

\* mutex_exit(&unsafe_driver) and swtch().
Swtch(t) ==
    /\ pc[t] = "blocking"
    /\ pc' = [pc EXCEPT ![t] = "swtch"]
    /\ unsafe_driver' = IF unsafe_driver = t THEN None ELSE unsafe_driver
    /\ UNCHANGED <<s_count, s_slpq, t_pri, t_sig, panicstr, units>>

\* swtch() returns, and unsafe_driver is taken again: the unit is ours.
Resume(t) ==
    /\ pc[t] = "swtch"
    /\ ~Asleep(t)
    /\ t \in UnsafeThreads => unsafe_driver = None
    /\ unsafe_driver' = IF t \in UnsafeThreads THEN t ELSE unsafe_driver
    /\ pc' = [pc EXCEPT ![t] = "in"]
    /\ UNCHANGED <<s_count, s_slpq, t_pri, t_sig, panicstr, units>>

\* Mutant: "while (s_count < -1)".
TryTooOften(t, count) ==
    IF count < -1
    THEN /\ pc' = [pc EXCEPT ![t] = "sigblocking"]
         /\ s_slpq' = SleepqInsert(s_slpq, t_pri, t)
    ELSE /\ pc' = [pc EXCEPT ![t] = "in"]
         /\ UNCHANGED s_slpq

\* SEMA_BLOCK_SIG in the loop of sema_p_sig(), or a unit.
TryOrBlock(t, count) ==
    IF count < 0
    THEN /\ pc' = [pc EXCEPT ![t] = "sigblocking"]
         /\ s_slpq' = SleepqInsert(s_slpq, t_pri, t)
    ELSE /\ pc' = [pc EXCEPT ![t] = "in"]
         /\ UNCHANGED s_slpq

\* sema_p_sig(), up to the first swtch().
SemaPSig(t) ==
    /\ t \in SigThreads
    /\ pc[t] = "out"
    /\ s_count' = s_count - 1
    /\ TryOrBlock(t, s_count - 1)
    /\ UNCHANGED <<t_pri, t_sig, unsafe_driver, panicstr, units>>

\* "if (ISSIG(t, JUSTLOOKING) || ISHOLD(p)) setrun(t)": sema_unsleep(), unless
\* sema_v() has been there first.
SwtchSig(t) ==
    /\ pc[t] = "sigblocking"
    /\ pc' = [pc EXCEPT ![t] = "sigswtch"]
    /\ s_slpq' = IF t_sig[t] THEN SleepqDequeue(s_slpq, t) ELSE s_slpq
    /\ UNCHANGED <<s_count, t_pri, t_sig, unsafe_driver, panicstr, units>>

\* A signal is posted; a thread asleep and wakeable is set running.
Signal(t) ==
    /\ t \in SigThreads
    /\ ~t_sig[t]
    /\ t_sig' = [t_sig EXCEPT ![t] = TRUE]
    /\ s_slpq' = SleepqDequeue(s_slpq, t)
    /\ UNCHANGED <<s_count, t_pri, pc, unsafe_driver, panicstr, units>>

\* Back from swtch(), "if (ISSIG(t, FORREAL) || ...)".  issig(FORREAL) may deal
\* with what was pending and find nothing to return for.
ResumeSig(t) ==
    /\ pc[t] = "sigswtch"
    /\ ~Asleep(t)
    /\ \/ t_sig[t] /\ pc' = [pc EXCEPT ![t] = "sigundo"]
       \/ pc' = [pc EXCEPT ![t] = "sigretry"]
    /\ t_sig' = [t_sig EXCEPT ![t] = FALSE]
    /\ UNCHANGED <<s_count, s_slpq, t_pri, unsafe_driver, panicstr, units>>

\* Interrupted: "s_count++" and return 1.
Undo(t) ==
    /\ pc[t] = "sigundo"
    /\ s_count' = s_count + 1
    /\ pc' = [pc EXCEPT ![t] = "out"]
    /\ UNCHANGED <<s_slpq, t_pri, t_sig, unsafe_driver, panicstr, units>>

\* Not interrupted: "while (s_count < 0)" again.
Retry(t) ==
    /\ pc[t] = "sigretry"
    /\ TryOrBlock(t, s_count)
    /\ UNCHANGED <<s_count, t_pri, t_sig, unsafe_driver, panicstr, units>>

\* sema_tryp(), when it gets a unit.
SemaTryp(t) ==
    /\ pc[t] = "out"
    /\ s_count > 0
    /\ s_count' = s_count - 1
    /\ pc' = [pc EXCEPT ![t] = "in"]
    /\ UNCHANGED <<s_slpq, t_pri, t_sig, unsafe_driver, panicstr, units>>

\* sema_v(): "s_count++ < 0" wakes the head of the queue, and panics if there
\* is none.
PutUnit ==
    /\ s_count' = s_count + 1
    /\ IF s_count < 0 /\ ~panicstr
       THEN IF s_slpq = <<>>
            THEN panicstr' = TRUE /\ UNCHANGED s_slpq
            ELSE s_slpq' = Tail(s_slpq) /\ UNCHANGED panicstr
       ELSE UNCHANGED <<s_slpq, panicstr>>

\* An owner calls sema_v().
SemaV(t) ==
    /\ pc[t] = "in"
    /\ MayCall(t)
    /\ PutUnit
    /\ pc' = [pc EXCEPT ![t] = "out"]
    /\ UNCHANGED <<t_pri, t_sig, unsafe_driver, units>>

\* An interrupt handler calls sema_v() to announce something, and the thread
\* that was waiting for it goes away with the unit.
Announce ==
    /\ units < MaxUnits
    /\ units' = units + 1
    /\ PutUnit
    /\ UNCHANGED <<t_pri, t_sig, pc, unsafe_driver>>

Consume(t) ==
    /\ pc[t] = "in"
    /\ units > MinUnits /\ ~panicstr
    /\ units' = units - 1
    /\ pc' = [pc EXCEPT ![t] = "out"]
    /\ UNCHANGED <<s_count, s_slpq, t_pri, t_sig, unsafe_driver, panicstr>>

\* sema_changepri()
SemaChangepri(t, p) ==
    /\ Asleep(t)
    /\ p # t_pri[t]
    /\ t_pri' = [t_pri EXCEPT ![t] = p]
    /\ s_slpq' = SleepqInsert(SleepqDequeue(s_slpq, t), t_pri', t)
    /\ UNCHANGED <<s_count, t_sig, pc, unsafe_driver, panicstr, units>>

\* cmn_err(CE_PANIC) somewhere else.
Panic ==
    /\ Panics
    /\ ~panicstr
    /\ panicstr' = TRUE
    /\ UNCHANGED <<s_count, s_slpq, t_pri, t_sig, pc, unsafe_driver, units>>
------------------------------------------------------------------------------
Step(t) ==
    \/ SemaP(t) \/ Swtch(t) \/ Resume(t)
    \/ SemaPSig(t) \/ SwtchSig(t) \/ ResumeSig(t) \/ Undo(t) \/ Retry(t)
    \/ SemaTryp(t) \/ SemaV(t) \/ Consume(t)

Next ==
    \/ \E t \in Threads :
          \/ EnterDriver(t) \/ LeaveDriver(t) \/ Step(t) \/ Signal(t)
          \/ \E p \in Pris : SemaChangepri(t, p)
    \/ Announce \/ Panic

Spec == Init /\ [][Next]_vars

\* Threads that can run do run and get unsafe_driver in the end, and an owner
\* gives its unit back.
Runs(t) ==
    \/ Swtch(t) \/ SwtchSig(t) \/ ResumeSig(t) \/ Undo(t) \/ Retry(t)
    \/ LeaveDriver(t)

GetsDriver(t) == Resume(t) \/ EnterDriver(t)

Fairness ==
    \A t \in Threads :
       WF_vars(Runs(t)) /\ SF_vars(GetsDriver(t)) /\ SF_vars(SemaV(t))

FairSpec == Spec /\ Fairness
------------------------------------------------------------------------------
(* Properties *)

Owners == {t \in Threads : \/ pc[t] = "in"
                           \/ pc[t] \in {"blocking", "swtch"} /\ ~Asleep(t)}

\* The variables have their types; s_count stays within what the threads and
\* the units can make of it.
TypeOK ==
    /\ s_count \in (-Cardinality(Threads))..MaxUnits
    /\ s_slpq \in Seq(Threads)
    /\ t_pri \in [Threads -> Pris]
    /\ t_sig \in [Threads -> BOOLEAN]
    /\ pc \in [Threads -> {"out", "blocking", "swtch", "sigblocking", "sigswtch",
                           "sigundo", "sigretry", "in"}]
    /\ unsafe_driver \in Threads \cup {None}
    /\ panicstr \in BOOLEAN
    /\ units \in Nat

\* What SEMA_BLOCK and sema_v() rely on: the queue is in priority order, nobody
\* is on it twice, and only threads inside sema_p() or sema_p_sig() are.
QueueOK ==
    /\ Sorted(s_slpq, t_pri)
    /\ IsInjective(s_slpq)
    /\ \A i \in DOMAIN s_slpq :
          pc[s_slpq[i]] \in {"blocking", "swtch", "sigblocking", "sigswtch"}

\* s_count, which changes in six places and by interrupted calls as well, counts
\* the units less the threads between "s_count--" and the matching "s_count++".
CountAccurate == s_count = units - Cardinality({t \in Threads : pc[t] # "out"})

\* No more threads own a unit than there are units, whatever signals do.
NeverOvergranted == ~panicstr => Cardinality(Owners) <= units

\* semaphore.c implements the promised semaphore if nobody calls sema_p_sig().
Abstract == INSTANCE SemaphoreSpec WITH
    avail <- IF s_count > 0 THEN s_count ELSE 0,
    waiting <- {t \in Threads : Asleep(t)},
    inside <- Owners,
    pri <- t_pri,
    down <- panicstr

Implements == Abstract!ASpec

\* sema_v(): "a blocked thread is awakened and re-tries to acquire the
\* semaphore".  As long as no signal comes, a thread blocked in sema_p_sig() is
\* served as one in sema_p() is, if every owner gives its unit back.
UninterruptedServed ==
    (\A t \in Threads : []~t_sig[t]) =>
       \A t \in SigThreads : pc[t] = "sigswtch" ~> pc[t] = "in"

\* The panic in sema_v() is for what cannot happen: a negative count says that
\* a thread is blocked.
NeverPanics == ~panicstr
==============================================================================
