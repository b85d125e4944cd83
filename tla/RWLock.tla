------------------------------- MODULE RWLock --------------------------------
(***************************************************************************)
(* A readers/writer lock of type RW_SLEEP (uts/sparc/os/rwlock.c) with the *)
(* turnstile its waiters sleep in (turnstile.c, tblock_sobj.c) and the     *)
(* priority that its owner of record inherits (prioinherit.c).             *)
(*                                                                         *)
(* holdcnt, writewanted and owner change under the hashed mutex mp; the    *)
(* turnstile changes under rw_wlock, with holdcnt and writewanted only     *)
(* looked at.  A stretch under either lock is one action.  rw_exit() takes *)
(* rw_wlock inside mp, in two actions.  No thread waits for a second lock, *)
(* so that pi_willto() ends with the owner.                                *)
(***************************************************************************)
EXTENDS SleepQ

CONSTANTS Readers,  \* threads that ask for the lock as RW_READER
          Writers,  \* and as RW_WRITER
          Pris,     \* dispatch priorities, positive
          None

VARIABLES holdcnt, writewanted, owner,  \* of the lock
          waiters,  \* a turnstile is attached
          tsq,      \* its two sleep queues
          pirec,    \* its record of who inherits which priority
          mp,       \* owner of RW_MUTEX(lp)
          t_pri,    \* priorities of the threads
          thr       \* where each thread is, and for which rw

lockVars == <<holdcnt, writewanted, owner>>
tsVars == <<waiters, tsq, pirec>>
vars == <<lockVars, tsVars, mp, t_pri, thr>>

Users == Readers \cup Writers

R == "RW_READER"
W == "RW_WRITER"

NoPirec == [benef |-> None, pri |-> 0]

Init ==
    /\ holdcnt = 0 /\ writewanted = 0 /\ owner = None
    /\ waiters = FALSE
    /\ tsq = [rw \in {R, W} |-> <<>>]
    /\ pirec = NoPirec
    /\ mp = None
    /\ t_pri \in [Users -> Pris]
    /\ thr = [t \in Users |-> [pc |-> "out", rw |-> R]]

Goto(t, pc) == thr' = [thr EXCEPT ![t].pc = pc]

Sleeping == {t \in Users : thr[t].pc = "sleep"}
------------------------------------------------------------------------------
(* Turnstiles and priority inheritance *)

\* DISP_PRIO()
DispPrio(t) == IF pirec.benef = t THEN pirec.pri ELSE t_pri[t]

\* pi_willto(): if t waits for a thread of lower priority, that one inherits.
PiWillto(t) ==
    pirec' = IF owner = None \/ t_pri[t] <= t_pri[owner] THEN pirec
             ELSE IF pirec.benef = None THEN [benef |-> owner, pri |-> t_pri[t]]
             ELSE IF t_pri[t] > pirec.pri THEN [pirec EXCEPT !.pri = t_pri[t]]
             ELSE pirec

\* tstile_maxpri(): the first threads of the two queues have the most.
TstileMaxpri ==
    LET firsts == {Head(tsq[rw]) : rw \in {q \in {R, W} : tsq[q] # <<>>}}
    IN  IF firsts = {} THEN 0
        ELSE CHOOSE p \in Pris : /\ \E t \in firsts : t_pri[t] = p
                                 /\ \A t \in firsts : t_pri[t] <= p

\* pi_amend() and pi_inheritfrom(): t inherits from those asleep already.
PiAmend(t) ==
    pirec' = IF pirec.benef = t THEN pirec
             ELSE IF TstileMaxpri > t_pri[t]
             THEN [benef |-> t, pri |-> TstileMaxpri] ELSE NoPirec

\* t_release(), t_release_all() and the unsleep routines: threads leave the
\* turnstile, whose queues are then as "left" says, and tstile_free() detaches it
\* if nobody is left.  waive says that pi_waive() was called before.
Release(left, waive) ==
    LET used == left[R] # <<>> \/ left[W] # <<>>
    IN  /\ tsq' = left
        /\ waiters' = (waiters /\ used)
        /\ pirec' = IF waive \/ ~used THEN NoPirec ELSE pirec

Wake(S, th) == [t \in Users |-> IF t \in S THEN [th[t] EXCEPT !.pc = "retry"]
                                  ELSE th[t]]

\* Whom t_release() of QOBJ_WRITER and t_release_all() of QOBJ_READER wake, and
\* whom they leave.
FirstWriter == IF tsq[W] = <<>> THEN {} ELSE {Head(tsq[W])}

LessWriter == [tsq EXCEPT ![W] = IF tsq[W] = <<>> THEN <<>> ELSE Tail(tsq[W])]

AllReaders == Range(tsq[R])

LessReaders == [tsq EXCEPT ![R] = <<>>]
------------------------------------------------------------------------------
(* rw_enter() and rw_tryenter() *)

\* The conditions of the loops of rw_enter().
Busy(rw, wanted) == IF rw = R THEN holdcnt < 0 \/ wanted > 0 ELSE holdcnt # 0

\* "lp->un.rw.holdcnt++" or "= -1", and the owner of record.
Acquire(t, rw, next) ==
    /\ holdcnt' = IF rw = R THEN holdcnt + 1 ELSE -1
    /\ owner' = IF rw = R /\ owner # None THEN owner ELSE t
    /\ thr' = [thr EXCEPT ![t] = [pc |-> next, rw |-> rw]]

\* Under mp, with writewanted at "wanted": take the lock, or prepare to block.
TakeOrBlock(t, rw, wanted) ==
    /\ mp = None
    /\ \/ /\ ~Busy(rw, wanted)
          /\ Acquire(t, rw, IF rw = R THEN "held" ELSE "amend")
          /\ writewanted' = wanted
       \/ /\ Busy(rw, wanted)
          /\ writewanted' = IF rw = W THEN wanted + 1 ELSE wanted
          /\ thr' = [thr EXCEPT ![t] = [pc |-> "block", rw |-> rw]]
          /\ UNCHANGED <<holdcnt, owner>>
    /\ UNCHANGED <<tsVars, mp, t_pri>>

RwEnter(t, rw) ==
    /\ thr[t].pc = "out"
    /\ TakeOrBlock(t, rw, writewanted)

\* Mutant: the lock is not looked at again before t_block().
BlockBlindly(t) ==
    /\ thr[t].pc = "block"
    /\ waiters' = TRUE
    /\ tsq' = [tsq EXCEPT ![thr[t].rw] = SleepqInsert(@, t_pri, t)]
    /\ PiWillto(t)
    /\ Goto(t, "sleep")
    /\ UNCHANGED <<lockVars, mp, t_pri>>

\* Under rw_wlock: attach a turnstile if there is none, look again, and block; an
\* empty turnstile may be left "for someone to handle in rw_exit()".
Block(t) ==
    /\ thr[t].pc = "block"
    /\ waiters' = TRUE
    /\ IF Busy(thr[t].rw, writewanted)
       THEN /\ tsq' = [tsq EXCEPT ![thr[t].rw] = SleepqInsert(@, t_pri, t)]
            /\ PiWillto(t)
            /\ Goto(t, "sleep")
       ELSE /\ Goto(t, "retry")
            /\ UNCHANGED <<tsq, pirec>>
    /\ UNCHANGED <<lockVars, mp, t_pri>>

\* mutex_enter(mp), and for a writer "writewanted--", once it runs again.
Retry(t) ==
    /\ thr[t].pc = "retry"
    /\ TakeOrBlock(t, thr[t].rw,
                   IF thr[t].rw = W THEN writewanted - 1 ELSE writewanted)

\* Mutant: the new owner does not inherit.
AmendNothing(t) ==
    /\ thr[t].pc = "amend"
    /\ Goto(t, "held")
    /\ UNCHANGED <<lockVars, tsVars, mp, t_pri>>

\* A writer has the lock: it inherits if there are readers asleep.
Amend(t) ==
    /\ thr[t].pc = "amend"
    /\ IF tsq[R] # <<>> THEN PiAmend(t) ELSE UNCHANGED pirec
    /\ Goto(t, "held")
    /\ UNCHANGED <<lockVars, waiters, tsq, mp, t_pri>>

\* rw_tryenter(), when it succeeds; a writer does not inherit.
RwTryenter(t, rw) ==
    /\ thr[t].pc = "out"
    /\ mp = None
    /\ ~Busy(rw, writewanted)
    /\ Acquire(t, rw, "tried")
    /\ UNCHANGED <<writewanted, tsVars, mp, t_pri>>

Holds(t) == thr[t].pc \in {"held", "tried"}

\* rw_tryupgrade(), when it succeeds.
RwTryupgrade(t) ==
    /\ Holds(t) /\ thr[t].rw = R
    /\ mp = None
    /\ writewanted = 0 /\ holdcnt = 1
    /\ owner' = t
    /\ holdcnt' = -1
    /\ thr' = [thr EXCEPT ![t].rw = W]
    /\ UNCHANGED <<writewanted, tsVars, mp, t_pri>>
------------------------------------------------------------------------------
(* rw_downgrade() and rw_exit() *)

\* Under mp; whether a writer waits is looked at here ...
RwDowngrade(t) ==
    /\ Holds(t) /\ thr[t].rw = W
    /\ mp = None
    /\ holdcnt' = 1
    /\ thr' = [thr EXCEPT ![t].rw = R,
                          ![t].pc = IF writewanted = 0 THEN "wakeup" ELSE "held"]
    /\ UNCHANGED <<writewanted, owner, tsVars, mp, t_pri>>

\* ... and the readers are woken after mp has been dropped.
DowngradeWakeup(t) ==
    /\ thr[t].pc = "wakeup"
    /\ IF waiters
       THEN /\ Release(LessReaders, TRUE)
            /\ thr' = Wake(AllReaders, [thr EXCEPT ![t].pc = "held"])
       ELSE Goto(t, "held") /\ UNCHANGED tsVars
    /\ UNCHANGED <<lockVars, mp, t_pri>>

\* The part of rw_exit() before rw_wlock is taken.
RwExit(t) ==
    /\ Holds(t)
    /\ mp = None
    /\ mp' = t
    /\ IF thr[t].rw = W THEN holdcnt' = 0 /\ owner' = None
                        ELSE holdcnt' = holdcnt - 1 /\ UNCHANGED owner
    /\ Goto(t, "exit")
    /\ UNCHANGED <<writewanted, tsVars, t_pri>>

Leave(S, t) == thr' = Wake(S, [thr EXCEPT ![t].pc = "out"]) /\ mp' = None

\* The rest for a writer: wake a writer if one waits, else all readers.
ExitWriter(t) ==
    \/ ~waiters /\ UNCHANGED tsVars /\ Leave({}, t)
    \/ waiters /\ writewanted > 0 /\ Release(LessWriter, TRUE) /\ Leave(FirstWriter, t)
    \/ waiters /\ writewanted = 0 /\ Release(LessReaders, TRUE) /\ Leave(AllReaders, t)

\* Mutant: the last reader only does t_release() if there are waiting writers.
ExitReaderIfWanted(t) ==
    LET S == IF holdcnt = 0 THEN FirstWriter ELSE {}
    IN  /\ owner' = IF owner = t THEN None ELSE owner
        /\ IF waiters /\ holdcnt = 0 /\ writewanted > 0
           THEN Release(LessWriter, owner = t) ELSE UNCHANGED tsVars
        /\ Leave(S, t)

\* The rest for a reader: the owner of record waives; the last one out wakes a
\* writer, or gets rid of an empty turnstile.
ExitReader(t) ==
    LET S == IF holdcnt = 0 THEN FirstWriter ELSE {}
    IN  /\ owner' = IF owner = t THEN None ELSE owner
        /\ IF waiters /\ holdcnt = 0 THEN Release(LessWriter, owner = t)
           ELSE /\ pirec' = IF waiters /\ owner = t THEN NoPirec ELSE pirec
                /\ UNCHANGED <<waiters, tsq>>
        /\ Leave(S, t)

ExitRelease(t) ==
    /\ thr[t].pc = "exit"
    /\ IF thr[t].rw = W THEN ExitWriter(t) /\ UNCHANGED owner ELSE ExitReader(t)
    /\ UNCHANGED <<holdcnt, writewanted, t_pri>>

\* setrun() of a thread that sleeps here: reader_unsleep(), writer_unsleep().
Unsleep(t) ==
    /\ thr[t].pc = "sleep"
    /\ Release([tsq EXCEPT ![thr[t].rw] = SleepqDequeue(@, t)], FALSE)
    /\ Goto(t, "retry")
    /\ UNCHANGED <<lockVars, mp, t_pri>>
------------------------------------------------------------------------------
Next ==
    \/ \E t \in Readers : RwEnter(t, R) \/ RwTryenter(t, R) \/ RwTryupgrade(t)
    \/ \E t \in Writers : RwEnter(t, W) \/ RwTryenter(t, W)
    \/ \E t \in Users :
          \/ Block(t) \/ Retry(t) \/ Amend(t) \/ RwDowngrade(t)
          \/ DowngradeWakeup(t) \/ RwExit(t) \/ ExitRelease(t) \/ Unsleep(t)

Spec == Init /\ [][Next]_vars

\* A thread that can run does, whoever has the lock lets it go, and mp, which is
\* held for short times only, is got in the end.
Runs(t) == Block(t) \/ Amend(t) \/ DowngradeWakeup(t) \/ ExitRelease(t)

GetsMutex(t) == Retry(t) \/ RwExit(t)

Fairness == \A t \in Users : WF_vars(Runs(t)) /\ SF_vars(GetsMutex(t))

FairSpec == Spec /\ Fairness
------------------------------------------------------------------------------
(* Properties *)

\* The variables have their types.
TypeOK ==
    /\ holdcnt \in -1..Cardinality(Users)
    /\ writewanted \in 0..Cardinality(Writers)
    /\ owner \in Users \cup {None} /\ mp \in Users \cup {None}
    /\ waiters \in BOOLEAN
    /\ tsq \in [{R, W} -> Seq(Users)]
    /\ pirec \in [benef : Users \cup {None}, pri : Pris \cup {0}]
    /\ t_pri \in [Users -> Pris]
    /\ thr \in [Users ->
         [pc : {"out", "block", "sleep", "retry", "amend", "held", "tried",
                "wakeup", "exit"}, rw : {R, W}]]

\* The threads that have the lock for rw.
Holding(rw) ==
    {t \in Users : thr[t].rw = rw /\ thr[t].pc \in {"amend", "held", "tried", "wakeup"}}

\* holdcnt is -1 for one writer and else the number of readers: never a writer
\* and anybody else.
HoldcntExact ==
    \/ Holding(W) = {} /\ holdcnt = Cardinality(Holding(R))
    \/ Holding(R) = {} /\ Cardinality(Holding(W)) = 1 /\ holdcnt = -1

\* Somebody will take the lock or do the wake-up: a writer that is awake, or a
\* call of rw_exit() or rw_downgrade().
OnTheWay ==
    \E t \in Users :
       \/ thr[t].pc \in {"exit", "wakeup"}
       \/ thr[t].rw = W /\ thr[t].pc \in {"block", "retry"}

\* Nobody sleeps on with the lock free, and no reader sleeps on while readers
\* have it, unless somebody is on the way.  A reader on its way is not enough, it
\* may go to sleep behind a writer.
NoneStranded ==
    /\ Sleeping # {} /\ holdcnt = 0 => OnTheWay
    /\ tsq[R] # <<>> /\ holdcnt > 0 => OnTheWay \/ writewanted > 0

\* A turnstile is on the lock while threads sleep in it, and when nobody uses the
\* lock there is none: a turnstile left empty by rw_enter() gets back to the pool.
TurnstileReturned ==
    /\ Sleeping # {} => waiters
    /\ (\A t \in Users : thr[t].pc = "out") => ~waiters

\* Inherited priority is given back with the lock: the beneficiary is the
\* owner of record, or is in the middle of rw_exit().
PirecReturned ==
    pirec.benef # None =>
       \/ pirec.benef = owner
       \/ thr[pirec.benef].pc = "exit" /\ mp = pirec.benef

\* A writer that came in by rw_enter() inherits if a reader that it keeps waiting
\* has a higher priority, one that was asleep before it came included.  (It need
\* not inherit the highest: pi_amend() does nothing if a thread that went to sleep
\* meanwhile has made the writer the beneficiary, with its own priority.)
WriterInherits ==
    \A t \in Users, r \in Range(tsq[R]) :
       thr[t] = [pc |-> "held", rw |-> W] /\ t_pri[t] < t_pri[r] => t_pri[t] < DispPrio(t)
==============================================================================
