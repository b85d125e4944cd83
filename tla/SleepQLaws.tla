----------------------------- MODULE SleepQLaws ------------------------------
(***************************************************************************)
(* What the proofs about locks use of finite sets of threads and of sleep  *)
(* queues.  SleepQProofs shows that the laws hold.                         *)
(***************************************************************************)
EXTENDS SleepQ

\* How many threads a subset of T has.
FiniteLaws(T) ==
    /\ Cardinality({}) = 0
    /\ \A S \in SUBSET T :
          /\ Cardinality(S) \in Nat
          /\ Cardinality(S) = 0 => S = {}
          /\ Cardinality(S) = 1 => \E x \in T : S = {x}
          /\ \A x \in T \ S : Cardinality(S \cup {x}) = Cardinality(S) + 1
          /\ \A U \in SUBSET S : Cardinality(U) <= Cardinality(S)

\* sleepq_insert() adds t and nobody else, and keeps the order.
InsertLaw(T) ==
    \A q \in Seq(T) : \A pri \in [T -> Int] : \A t \in T :
       LET n == SleepqInsert(q, pri, t)
       IN  /\ n \in Seq(T)
           /\ \A u : OnQueue(n, u) <=> OnQueue(q, u) \/ u = t
           /\ ~OnQueue(q, t) /\ IsInjective(q) => IsInjective(n)
           /\ Sorted(q, pri) => Sorted(n, pri)

\* sleepq_dequeue() takes t off and nobody else, and keeps the order.
DequeueLaw(T) ==
    \A q \in Seq(T) : \A t \in T : IsInjective(q) =>
       LET n == SleepqDequeue(q, t)
       IN  /\ n \in Seq(T)
           /\ \A u : OnQueue(n, u) <=> OnQueue(q, u) /\ u # t
           /\ IsInjective(n)
           /\ \A pri \in [T -> Int] : Sorted(q, pri) => Sorted(n, pri)

\* The first thread has the most priority; taking it off keeps the order.
TailLaw(T) ==
    \A q \in Seq(T) : q # <<>> /\ IsInjective(q) =>
       /\ Head(q) \in T /\ Tail(q) \in Seq(T)
       /\ OnQueue(q, Head(q))
       /\ \A u : OnQueue(Tail(q), u) <=> OnQueue(q, u) /\ u # Head(q)
       /\ IsInjective(Tail(q))
       /\ \A pri \in [T -> Int] : Sorted(q, pri) =>
             /\ Sorted(Tail(q), pri)
             /\ \A u : OnQueue(q, u) => pri[u] <= pri[Head(q)]

QueueLaws(T) == InsertLaw(T) /\ DequeueLaw(T) /\ TailLaw(T)
==============================================================================
