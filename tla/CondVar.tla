------------------------------- MODULE CondVar -------------------------------
(***************************************************************************)
(* Condition variables (uts/common/os/condvar.c) whose addresses sqhash()  *)
(* maps to one sleep queue, with the realtime callout table (CalloutSpec)  *)
(* that cv_timedwait() and cv_timedwait_sig() set timers in.               *)
(*                                                                         *)
(* The waiters use the condition variable as callers do: they take mp,     *)
(* wait while the condition is false, and look at it again after every     *)
(* return.  The wakers make it true under mp and call cv_signal() or       *)
(* cv_broadcast() after they have dropped mp.  The code under sq_lock is   *)
(* one action; mp is taken and dropped in actions of their own.            *)
(***************************************************************************)
EXTENDS SleepQ

CONSTANTS Threads,       \* waiters
          TimedThreads,  \* those that call cv_timedwait() or cv_timedwait_sig()
          SigThreads,    \* those that call a _sig form, with an lwp
          Wakers,        \* threads that call cv_signal() and cv_broadcast()
          Cvs,           \* condition variables of one sleep queue
          Pris,          \* dispatch priorities
          TIME,          \* number of values of clock_t
          Deltas,        \* ticks that a timed waiter is willing to wait
          MaxLag,        \* bound: ticks by which a waiter may be late
          None

VARIABLES lbolt, curtime, timer,  \* of CalloutSpec
          cv_waiters,  \* of each condition variable
          sq_queue,    \* the sleep queue they share
          t_pri,       \* dispatch priorities
          t_sig,       \* a signal, a hold or lwp_sysabort is pending
          mp,          \* owner of the mutex
          cond,        \* the conditions waited for
          waiter,      \* where each waiter is
          waker        \* where each waker is

timerVars == <<lbolt, curtime, timer>>
cvVars == <<cv_waiters, sq_queue>>
vars == <<timerVars, cvVars, t_pri, t_sig, mp, cond, waiter, waker>>

Timer == INSTANCE CalloutSpec WITH Clients <- Threads

\* wchan is the condition variable while the thread is asleep on it; tim and
\* ret are the argument and the result of the call; woken says that
\* cv_signal() or cv_broadcast() ended the last sleep (history).
Away == [pc |-> "out", cv |-> None, wchan |-> None, tim |-> 0, left |-> 0,
         ret |-> None, woken |-> FALSE]

Init ==
    /\ Timer!AInit
    /\ cv_waiters = [v \in Cvs |-> 0]
    /\ sq_queue = <<>>
    /\ t_pri \in [Threads -> Pris]
    /\ t_sig = [t \in Threads |-> FALSE]
    /\ mp = None
    /\ cond = [v \in Cvs |-> FALSE]
    /\ waiter = [t \in Threads |-> Away]
    /\ waker = [w \in Wakers |-> [pc |-> "idle", cv |-> None]]

Timed(t) == t \in TimedThreads

Asleep(t) == waiter[t].wchan # None

\* The waiters asleep on v, in the order of the queue.
Sleepers(v) == SelectSeq(sq_queue, LAMBDA t : waiter[t].wchan = v)

Goto(t, pc) == waiter' = [waiter EXCEPT ![t].pc = pc]
------------------------------------------------------------------------------
(* The caller of a waiting function, and the call up to cv_block() *)

\* A thread decides to wait for v, perhaps until some time from now.
Call(t, v) ==
    /\ waiter[t].pc = "out"
    /\ \E delta \in Deltas :
          waiter' = [waiter EXCEPT ![t] = [Away EXCEPT !.pc = "enter", !.cv = v,
                        !.tim = IF Timed(t) THEN Timer!Wrap(lbolt + delta) ELSE 0]]
    /\ UNCHANGED <<timerVars, cvVars, t_pri, t_sig, mp, cond, waker>>

Leave(t) == mp' = None /\ waiter' = [waiter EXCEPT ![t] = Away]

\* Drop mp for issig(FORREAL), which may find nothing to return for, and look at
\* lwp_sysabort and ISHOLD().
Issig(t, ret) ==
    /\ t_sig[t]
    /\ t_sig' = [t_sig EXCEPT ![t] = FALSE]
    /\ mp' = None
    /\ \E r \in {0, ret} :
          waiter' = [waiter EXCEPT ![t].pc = "return", ![t].ret = r]
    /\ UNCHANGED cond

\* Under mp, the caller is done if the condition holds or the call has failed;
\* else it calls (again).  A timed call reads lbolt, "timeleft = tim - lbolt",
\* and returns at once if no time is left.
TestOrCall(t, ret) ==
    LET w == waiter[t]
        left == IF Timed(t) THEN Timer!Diff(w.tim, lbolt) ELSE 1
    IN  \/ /\ cond[w.cv]
           /\ cond' = [cond EXCEPT ![w.cv] = FALSE]
           /\ Leave(t)
           /\ UNCHANGED t_sig
        \/ /\ ~cond[w.cv]
           /\ ret \in {0, -1} \/ (left <= 0 /\ ~t_sig[t])
           /\ Leave(t)
           /\ UNCHANGED <<cond, t_sig>>
        \/ /\ ~cond[w.cv] /\ ret \notin {0, -1} /\ left <= 0
           /\ Issig(t, -1)
        \/ /\ ~cond[w.cv] /\ ret \notin {0, -1} /\ left > 0
           /\ mp' = t
           /\ waiter' = [waiter EXCEPT ![t] =
                  [Away EXCEPT !.pc = IF Timed(t) THEN "arm" ELSE "block",
                               !.cv = w.cv, !.tim = w.tim, !.left = left]]
           /\ UNCHANGED <<cond, t_sig>>

\* The caller takes mp, or a call takes it back and returns.
Enter(t) ==
    /\ waiter[t].pc \in {"enter", "return"}
    /\ mp = None
    /\ TestOrCall(t, waiter[t].ret)
    /\ UNCHANGED <<timerVars, cvVars, t_pri, waker>>

\* realtime_timeout(setrun, curthread, timeleft)
Arm(t) ==
    /\ waiter[t].pc = "arm"
    /\ Timer!Set(t, waiter[t].left)
    /\ waiter' = [waiter EXCEPT ![t].pc = "block", ![t].left = 0]
    /\ UNCHANGED <<cvVars, t_pri, t_sig, mp, cond, waker>>

\* Mutant: mp is dropped before the thread is on the sleep queue.
BlockUnlocked(t) ==
    /\ waiter[t].pc = "block"
    /\ IF mp = t
       THEN mp' = None /\ UNCHANGED <<cvVars, waiter>>
       ELSE /\ cv_waiters' = [cv_waiters EXCEPT ![waiter[t].cv] = @ + 1]
            /\ sq_queue' = SleepqInsert(sq_queue, t_pri, t)
            /\ waiter' = [waiter EXCEPT ![t].pc = "check",
                                        ![t].wchan = waiter[t].cv]
            /\ UNCHANGED mp
    /\ UNCHANGED <<timerVars, t_pri, t_sig, cond, waker>>

\* cv_block(), with T_WAKEABLE set if the thread is to notice signals, and
\* mutex_exit(mp).
Block(t) ==
    /\ waiter[t].pc = "block"
    /\ cv_waiters' = [cv_waiters EXCEPT ![waiter[t].cv] = @ + 1]
    /\ sq_queue' = SleepqInsert(sq_queue, t_pri, t)
    /\ waiter' = [waiter EXCEPT ![t].pc = "check", ![t].wchan = waiter[t].cv]
    /\ mp' = None
    /\ UNCHANGED <<timerVars, t_pri, t_sig, cond, waker>>

\* Mutant: cv_unsleep() forgets cv_waiters.
UnsleepUncounted(t) ==
    /\ sq_queue' = SleepqDequeue(sq_queue, t)
    /\ UNCHANGED cv_waiters

\* setrun(): cv_unsleep() if the thread is asleep on a condition variable,
\* nothing if it is running.  If it is asleep in mutex_enter(), mutex_unsleep()
\* makes it try again.
Unsleep(t) ==
    IF Asleep(t)
    THEN /\ cv_waiters' = [cv_waiters EXCEPT ![waiter[t].wchan] = @ - 1]
         /\ sq_queue' = SleepqDequeue(sq_queue, t)
    ELSE UNCHANGED cvVars

\* Mutant: lbolt is not looked at again once the thread is on the queue.
MustRunIfSignalled(t) == t \in SigThreads /\ t_sig[t]

\* "if (ISSIG(...) || ISHOLD(p) || tim - lbolt <= 0)"
MustRun(t) ==
    \/ t \in SigThreads /\ t_sig[t]
    \/ Timed(t) /\ Timer!Diff(waiter[t].tim, lbolt) <= 0

\* "setrun(curthread)", then swtch().
Check(t) ==
    /\ waiter[t].pc = "check"
    /\ IF MustRun(t)
       THEN /\ Unsleep(t)
            /\ waiter' = [waiter EXCEPT ![t].pc = "swtch", ![t].wchan = None]
       ELSE Goto(t, "swtch") /\ UNCHANGED cvVars
    /\ UNCHANGED <<timerVars, t_pri, t_sig, mp, cond, waker>>

\* swtch() has returned: the thread has been set running.
Running(t) == waiter[t].pc = "swtch" /\ ~Asleep(t)

\* Mutant: the last tick counts as a timeout.
VerdictHasty(t) == IF Timer!TimeLeft(t) <= 1 THEN -1 ELSE Timer!TimeLeft(t)

\* "if (timeleft <= 0) timeleft = -1"
Verdict(t) == IF Timer!TimeLeft(t) <= 0 THEN -1 ELSE Timer!TimeLeft(t)

\* Mutant: a thread that cv_signal() has woken leaves its timer alone.
UntimeoutIfLate(t) ==
    /\ Running(t)
    /\ Timed(t) /\ t \notin SigThreads
    /\ IF waiter[t].woken THEN UNCHANGED timerVars ELSE Timer!Cancel(t)
    /\ waiter' = [waiter EXCEPT ![t].pc = "return", ![t].ret = Verdict(t)]
    /\ UNCHANGED <<cvVars, t_pri, t_sig, mp, cond, waker>>

\* cv_timedwait(): untimeout(), which waits while setrun() is being called.
Untimeout(t) ==
    /\ Running(t)
    /\ Timed(t) /\ t \notin SigThreads
    /\ Timer!Cancel(t)
    /\ waiter' = [waiter EXCEPT ![t].pc = "return", ![t].ret = Verdict(t)]
    /\ UNCHANGED <<cvVars, t_pri, t_sig, mp, cond, waker>>

\* cv_timedwait_sig() takes mp first, so that setrun() may find the thread
\* asleep in mutex_enter() ...
Relock(t) ==
    /\ Running(t)
    /\ Timed(t) /\ t \in SigThreads
    /\ mp = None
    /\ mp' = t
    /\ waiter' = [waiter EXCEPT ![t].pc = "untimeout"]
    /\ UNCHANGED <<timerVars, cvVars, t_pri, t_sig, cond, waker>>

\* Under mp, "if (ISSIG_PENDING(...))".
IssigOrReturn(t, ret) ==
    \/ Issig(t, ret)
    \/ ~t_sig[t] /\ TestOrCall(t, ret)

\* ... and waits for setrun() with mp held.
UntimeoutSig(t) ==
    /\ waiter[t].pc = "untimeout"
    /\ Timer!Cancel(t)
    /\ IssigOrReturn(t, Verdict(t))
    /\ UNCHANGED <<cvVars, t_pri, waker>>

\* cv_wait() and cv_wait_sig() take mp and return.
EndWait(t) ==
    /\ Running(t)
    /\ ~Timed(t)
    /\ mp = None
    /\ IssigOrReturn(t, 1)
    /\ UNCHANGED <<timerVars, cvVars, t_pri, waker>>
------------------------------------------------------------------------------
(* cv_signal() and cv_broadcast() *)

\* A waker makes the condition true under mp ...
Provide(w, v) ==
    /\ waker[w].pc = "idle"
    /\ mp = None
    /\ ~cond[v]
    /\ cond' = [cond EXCEPT ![v] = TRUE]
    /\ waker' = [waker EXCEPT ![w] = [pc |-> "preview", cv |-> v]]
    /\ UNCHANGED <<timerVars, cvVars, t_pri, t_sig, mp, waiter>>

\* ... and calls cv_signal() or cv_broadcast(), which look at cv_waiters before
\* they take sq_lock.
Preview(w) ==
    /\ waker[w].pc = "preview"
    /\ IF cv_waiters[waker[w].cv] > 0
       THEN waker' = [waker EXCEPT ![w].pc = "wake"]
       ELSE waker' = [waker EXCEPT ![w] = [pc |-> "idle", cv |-> None]]
    /\ UNCHANGED <<timerVars, cvVars, t_pri, t_sig, mp, cond, waiter>>

\* Take a set of threads off the queue.
Wake(S) ==
    /\ sq_queue' = SelectSeq(sq_queue, LAMBDA t : t \notin S)
    /\ waiter' = [t \in Threads |-> IF t \in S
                    THEN [waiter[t] EXCEPT !.wchan = None, !.woken = TRUE]
                    ELSE waiter[t]]

\* sleepq_wakeone_chan() wakes the first thread with this t_wchan.
WakeoneChan(v) == IF Sleepers(v) = <<>> THEN {} ELSE {Head(Sleepers(v))}

\* sleepq_wakeall_chan() wakes all of them.
WakeallChan(v) == {t \in Threads : waiter[t].wchan = v}

Done(w) == waker' = [waker EXCEPT ![w] = [pc |-> "idle", cv |-> None]]

CvSignal(w) ==
    LET v == waker[w].cv
    IN  /\ waker[w].pc = "wake"
        /\ IF cv_waiters[v] > 0
           THEN /\ cv_waiters' = [cv_waiters EXCEPT ![v] = @ - 1]
                /\ Wake(WakeoneChan(v))
           ELSE UNCHANGED <<cvVars, waiter>>
        /\ Done(w)
        /\ UNCHANGED <<timerVars, t_pri, t_sig, mp, cond>>

CvBroadcast(w) ==
    LET v == waker[w].cv
    IN  /\ waker[w].pc = "wake"
        /\ IF cv_waiters[v] > 0
           THEN /\ cv_waiters' = [cv_waiters EXCEPT ![v] = 0]
                /\ Wake(WakeallChan(v))
           ELSE UNCHANGED <<cvVars, waiter>>
        /\ Done(w)
        /\ UNCHANGED <<timerVars, t_pri, t_sig, mp, cond>>
------------------------------------------------------------------------------
(* The rest of the kernel *)

\* The callout table calls setrun(), which returns, in two steps: the thread may
\* meanwhile be woken, go on and call untimeout().
StartSetrun(t) ==
    /\ Timer!Start(t)
    /\ UNCHANGED <<cvVars, t_pri, t_sig, mp, cond, waiter, waker>>

Setrun(t) ==
    /\ Timer!Return(t)
    /\ Unsleep(t)
    /\ waiter' = [waiter EXCEPT ![t].wchan = None]
    /\ UNCHANGED <<t_pri, t_sig, mp, cond, waker>>

\* A signal is posted; a wakeable thread that is asleep is set running.
Signal(t) ==
    /\ t \in SigThreads
    /\ ~t_sig[t]
    /\ t_sig' = [t_sig EXCEPT ![t] = TRUE]
    /\ Unsleep(t)
    /\ waiter' = [waiter EXCEPT ![t].wchan = None]
    /\ UNCHANGED <<timerVars, t_pri, mp, cond, waker>>

\* Mutant: the thread keeps its place in the queue.
ChangepriInPlace(t, p) ==
    /\ Asleep(t)
    /\ p # t_pri[t]
    /\ t_pri' = [t_pri EXCEPT ![t] = p]
    /\ UNCHANGED <<timerVars, cvVars, t_sig, mp, cond, waiter, waker>>

CvChangepri(t, p) ==
    /\ Asleep(t)
    /\ p # t_pri[t]
    /\ t_pri' = [t_pri EXCEPT ![t] = p]
    /\ sq_queue' = SleepqInsert(SleepqDequeue(sq_queue, t), t_pri', t)
    /\ UNCHANGED <<timerVars, cv_waiters, t_sig, mp, cond, waiter, waker>>

\* MaxLag stands for the 2^31 ticks after which tim looks like the future.
ClockTick ==
    /\ \A t \in TimedThreads :
          waiter[t].pc # "out" => Timer!Diff(lbolt, waiter[t].tim) < MaxLag
    /\ Timer!Tick
    /\ UNCHANGED <<cvVars, t_pri, t_sig, mp, cond, waiter, waker>>

CalloutSchedule ==
    /\ Timer!Schedule
    /\ UNCHANGED <<cvVars, t_pri, t_sig, mp, cond, waiter, waker>>
------------------------------------------------------------------------------
WaiterStep(t) ==
    \/ Enter(t) \/ Arm(t) \/ Block(t) \/ Check(t)
    \/ Untimeout(t) \/ Relock(t) \/ UntimeoutSig(t) \/ EndWait(t)

Next ==
    \/ \E t \in Threads :
          \/ \E v \in Cvs : Call(t, v)
          \/ WaiterStep(t) \/ StartSetrun(t) \/ Setrun(t) \/ Signal(t)
          \/ \E p \in Pris : CvChangepri(t, p)
    \/ \E w \in Wakers :
          \/ \E v \in Cvs : Provide(w, v)
          \/ Preview(w) \/ CvSignal(w) \/ CvBroadcast(w)
    \/ ClockTick \/ CalloutSchedule

Spec == Init /\ [][Next]_vars

\* Threads that can run do run, mp is handed on, and the clock and the callout
\* table do their work.  Nothing is assumed of callers and wakers.
GetsMutex(t) == Enter(t) \/ Relock(t) \/ EndWait(t)

Runs(t) == Arm(t) \/ Block(t) \/ Check(t) \/ Untimeout(t) \/ UntimeoutSig(t)

TimerRuns(t) == StartSetrun(t) \/ Setrun(t)

Wakes(w) == Preview(w) \/ CvSignal(w) \/ CvBroadcast(w)

Clock == ClockTick \/ CalloutSchedule

Fairness ==
    /\ \A t \in Threads :
          SF_vars(GetsMutex(t)) /\ WF_vars(Runs(t)) /\ WF_vars(TimerRuns(t))
    /\ \A w \in Wakers : WF_vars(Wakes(w))
    /\ WF_vars(Clock)

FairSpec == Spec /\ Fairness
------------------------------------------------------------------------------
(* Properties *)

\* The variables have their types; a count stays within the number of waiters.
TypeOK ==
    /\ lbolt \in 0..TIME-1 /\ curtime \in 0..TIME-1
    /\ timer \in [Threads -> Timer!Timers]
    /\ cv_waiters \in [Cvs -> 0..Cardinality(Threads)]
    /\ sq_queue \in Seq(Threads)
    /\ t_pri \in [Threads -> Pris]
    /\ t_sig \in [Threads -> BOOLEAN]
    /\ mp \in Threads \cup {None}
    /\ cond \in [Cvs -> BOOLEAN]
    /\ waiter \in [Threads ->
         [pc : {"out", "enter", "arm", "block", "check", "swtch", "untimeout",
                "return"},
          cv : Cvs \cup {None}, wchan : Cvs \cup {None}, tim : 0..TIME-1,
          left : -TIME..TIME, ret : {None, 0, -1} \cup (1..TIME),
          woken : BOOLEAN]]
    /\ waker \in [Wakers -> [pc : {"idle", "preview", "wake"},
                             cv : Cvs \cup {None}]]

\* cv_waiters, changed in five places and read without a lock, is the number of
\* threads in the shared queue with that channel: cv_signal() never finds it
\* positive with nobody to wake, nor zero with somebody asleep.
WaitersAccurate == \A v \in Cvs : cv_waiters[v] = Len(Sleepers(v))

\* No wake-up is missed between the test of the condition and the sleep, by the
\* unlocked look at cv_waiters, or because a timeout or a signal ended the sleep
\* of the thread that was chosen: when somebody sleeps although the condition
\* holds, a waker is on its way or another waiter is awake to look again.
NoMissedWakeup ==
    \A v \in Cvs :
       cond[v] /\ Sleepers(v) # <<>> =>
          \/ \E w \in Wakers : waker[w].cv = v
          \/ \E t \in Threads : waiter[t].cv = v /\ ~Asleep(t)

\* A timer is pending only for the call that set it: when cv_timedwait() or
\* cv_timedwait_sig() has returned, no setrun() of its timer can come any more,
\* so it cannot end a later sleep of the same thread.
NoStaleSetrun ==
    \A t \in Threads :
       waiter[t].pc \in {"out", "enter", "return", "arm"}
         => timer[t].state = "off"

\* A waiter is told of a timeout only when its time has come.
NotTooEarly ==
    \A t \in Threads :
       waiter'[t].ret = -1 /\ waiter[t].ret # -1
          => Timer!Diff(lbolt, waiter[t].tim) >= 0

\* NotTooEarly of every step: cv_timedwait() never returns -1 before its time.
NeverEarly == [][NotTooEarly]_vars

\* cv_signal() wakes a thread asleep on its own condition variable, and one of
\* the highest priority of those, whatever happened to priorities since.
BestWoken ==
    \A w \in Wakers, t \in Threads :
       CvSignal(w) /\ Asleep(t) /\ waiter'[t].wchan = None =>
          /\ waiter[t].wchan = waker[w].cv
          /\ \A u \in Threads : waiter[u].wchan = waker[w].cv
                                   => t_pri[u] <= t_pri[t]
==============================================================================
