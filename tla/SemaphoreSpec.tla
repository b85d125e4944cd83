---------------------------- MODULE SemaphoreSpec ----------------------------
(***************************************************************************)
(* What a kernel semaphore promises its users: units are handed out one at *)
(* a time, a unit that is put back goes to a waiting thread if there is    *)
(* one, and to one of the highest dispatch priority.  Once the system is   *)
(* down (panicstr is set) nothing is promised.                             *)
(***************************************************************************)
EXTENDS Integers

CONSTANTS Threads, Pris, InitCount

VARIABLES avail,    \* units nobody has
          waiting,  \* threads blocked in sema_p()
          inside,   \* threads that own a unit
          pri,      \* dispatch priorities
          down      \* the system has panicked

avars == <<avail, waiting, inside, pri, down>>

AInit ==
    /\ avail = InitCount
    /\ waiting = {}
    /\ inside = {}
    /\ pri \in [Threads -> Pris]
    /\ down = FALSE

\* A thread takes a unit or, if there is none, waits for one.
Acquire(t) ==
    /\ t \notin waiting \cup inside
    /\ IF avail > 0
       THEN avail' = avail - 1 /\ inside' = inside \cup {t} /\ UNCHANGED waiting
       ELSE waiting' = waiting \cup {t} /\ UNCHANGED <<avail, inside>>
    /\ UNCHANGED <<pri, down>>

\* A unit is handed to a waiting thread of the highest priority, or kept.
Hand(owners) ==
    \/ /\ waiting = {}
       /\ avail' = avail + 1
       /\ inside' = owners
       /\ UNCHANGED waiting
    \/ \E t \in waiting :
          /\ \A u \in waiting : pri[u] <= pri[t]
          /\ waiting' = waiting \ {t}
          /\ inside' = owners \cup {t}
          /\ UNCHANGED avail

\* An owner gives its unit back, keeps it for good, or a new unit appears.
Release(t) ==
    /\ t \in inside
    /\ Hand(inside \ {t})
    /\ UNCHANGED <<pri, down>>

Consume(t) ==
    /\ t \in inside
    /\ inside' = inside \ {t}
    /\ UNCHANGED <<avail, waiting, pri, down>>

Produce ==
    /\ Hand(inside)
    /\ UNCHANGED <<pri, down>>

Reprioritize(t) ==
    /\ \E p \in Pris : pri' = [pri EXCEPT ![t] = p]
    /\ UNCHANGED <<avail, waiting, inside, down>>

ANext ==
    \/ /\ ~down
       /\ \/ Produce
          \/ \E t \in Threads :
                Acquire(t) \/ Release(t) \/ Consume(t) \/ Reprioritize(t)
    \/ down' = TRUE

ASpec == AInit /\ [][ANext]_avars
==============================================================================
