------------------------------- MODULE SleepQ --------------------------------
(***************************************************************************)
(* Sleep queues (uts/common/os/sleepq.c): threads in dispatch priority     *)
(* order, those of one priority in the order in which they arrived.        *)
(* SEMA_BLOCK and sema_queue() of semaphore.c repeat the same loops.       *)
(***************************************************************************)
EXTENDS Integers, FiniteSets, Sequences, Functions

OnQueue(q, t) == \E i \in DOMAIN q : q[i] = t

\* The loop of sleepq_insert(): walk past the threads of priority p or more,
\* and stop at the first that has less.
Place(q, pri, p) ==
    1 + Cardinality({i \in DOMAIN q : \A j \in 1..i : p <= pri[q[j]]})

\* t is linked in as the k-th thread of q, and the k-th is unlinked.
LinkAt(q, k, t) == SubSeq(q, 1, k - 1) \o <<t>> \o SubSeq(q, k, Len(q))

UnlinkAt(q, k) == SubSeq(q, 1, k - 1) \o SubSeq(q, k + 1, Len(q))

\* Mutant: a thread goes to the end, whatever its priority.
AppendThread(q, pri, t) == Append(q, t)

\* sleepq_insert()
SleepqInsert(q, pri, t) == LinkAt(q, Place(q, pri, pri[t]), t)

\* sleepq_dequeue(), and the unlinking of sleepq_unsleep(): walk to t, if it is
\* there, and unlink it.
SleepqDequeue(q, t) ==
    IF OnQueue(q, t) THEN UnlinkAt(q, CHOOSE i \in DOMAIN q : q[i] = t) ELSE q

Sorted(q, pri) == \A i, j \in DOMAIN q : i < j => pri[q[i]] >= pri[q[j]]
==============================================================================
