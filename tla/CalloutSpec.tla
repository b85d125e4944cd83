----------------------------- MODULE CalloutSpec -----------------------------
(***************************************************************************)
(* What a callout table promises its callers (timeout(9F) and untimeout(9F)*)
(* as callout.c provides them), without buckets, ids, threads, the free    *)
(* list or checkpoints: a timer that is set starts no earlier than asked,  *)
(* starts at most once, and once untimeout() has returned it is neither    *)
(* running nor going to run.  Each client has one timer at a time.         *)
(***************************************************************************)
EXTENDS Integers

CONSTANTS Clients,  \* callers, one timer each
          TIME,     \* number of values of clock_t
          Deltas    \* arguments of timeout()

VARIABLES lbolt,    \* clock ticks since boot
          curtime,  \* lbolt as of the last callout_schedule()
          timer     \* the timer of each client

avars == <<lbolt, curtime, timer>>

Wrap(t) == t % TIME

\* a - b in clock_t.
Diff(a, b) ==
    LET d == (a - b) % TIME IN IF 2 * d < TIME THEN d ELSE d - TIME

\* A timer that is not waiting to run.
At(state) == [state |-> state, runtime |-> 0]

Timers == {At("off"), At("run"), At("done")}
            \cup [state : {"set"}, runtime : 0..TIME-1]

AInit ==
    /\ lbolt = 0
    /\ curtime = 0
    /\ timer = [c \in Clients |-> At("off")]

\* clock(): lbolt is incremented, and the table learns of it afterwards.
Tick ==
    /\ curtime = lbolt
    /\ lbolt' = Wrap(lbolt + 1)
    /\ UNCHANGED <<curtime, timer>>

Schedule ==
    /\ curtime # lbolt
    /\ curtime' = lbolt
    /\ UNCHANGED <<lbolt, timer>>

\* timeout(): not before the next tick.
Set(c, delta) ==
    /\ timer[c].state = "off"
    /\ LET runtime == Wrap(lbolt + delta)
       IN  timer' = [timer EXCEPT ![c] =
               [state |-> "set",
                runtime |-> IF Diff(runtime, curtime) <= 0
                            THEN Wrap(curtime + 1) ELSE runtime]]
    /\ UNCHANGED <<lbolt, curtime>>

Startable(c) == timer[c].state = "set" /\ Diff(timer[c].runtime, curtime) <= 0

\* The function is called.
Start(c) ==
    /\ Startable(c)
    /\ timer' = [timer EXCEPT ![c] = At("run")]
    /\ UNCHANGED <<lbolt, curtime>>

\* The function has returned.
Return(c) ==
    /\ timer[c].state = "run"
    /\ timer' = [timer EXCEPT ![c] = At("done")]
    /\ UNCHANGED <<lbolt, curtime>>

\* ... and the thread that called it calls another.
ReturnStart(c, d) ==
    /\ timer[c].state = "run"
    /\ Startable(d)
    /\ timer' = [timer EXCEPT ![c] = At("done"), ![d] = At("run")]
    /\ UNCHANGED <<lbolt, curtime>>

\* untimeout() returns: the timer was cancelled, or has run and returned.
\* While the function runs, untimeout() waits.
Cancel(c) ==
    /\ timer[c].state \in {"set", "done"}
    /\ timer' = [timer EXCEPT ![c] = At("off")]
    /\ UNCHANGED <<lbolt, curtime>>

\* What untimeout() returns then.
TimeLeft(c) ==
    IF timer[c].state # "set" THEN -1
    ELSE IF Diff(timer[c].runtime, curtime) < 0 THEN 0
    ELSE Diff(timer[c].runtime, curtime)

\* The client, told by its function, has no more use for the timer.
Forget(c) ==
    /\ timer[c].state \in {"run", "done"}
    /\ timer' = [timer EXCEPT ![c] = At("off")]
    /\ UNCHANGED <<lbolt, curtime>>

ANext ==
    \/ Tick \/ Schedule
    \/ \E c \in Clients :
          \/ \E delta \in Deltas : Set(c, delta)
          \/ Start(c) \/ Return(c) \/ Cancel(c) \/ Forget(c)
          \/ \E d \in Clients : ReturnStart(c, d)

ASpec == AInit /\ [][ANext]_avars
==============================================================================
