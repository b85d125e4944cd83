--------------------------- MODULE SemaphoreProofs ---------------------------
(* The invariants of Semaphore, and that it implements SemaphoreSpec. *)
EXTENDS Semaphore, SleepQProofs

USE ZenonT(40)

Inside == {t \in Threads : pc[t] # "out"}

Sleeps == {"blocking", "swtch", "sigblocking", "sigswtch"}

\* TypeOK without s_count, whose range follows from CountAccurate.
Types ==
    /\ s_slpq \in Seq(Threads)
    /\ t_pri \in [Threads -> Pris]
    /\ t_sig \in [Threads -> BOOLEAN]
    /\ pc \in [Threads -> Sleeps \cup {"out", "in", "sigundo", "sigretry"}]
    /\ unsafe_driver \in Threads \cup {None}
    /\ panicstr \in BOOLEAN
    /\ units \in 0 .. MaxUnits

\* sema_p() and sema_p_sig() sleep in states of their own.
OwnStates ==
    \A t \in Threads : /\ pc[t] \in {"blocking", "swtch"} => t \notin SigThreads
                       /\ pc[t] \in {"sigblocking", "sigswtch", "sigundo", "sigretry"}
                             => t \in SigThreads

IInv == Types /\ QueueOK /\ OwnStates /\ CountAccurate /\ NeverOvergranted
------------------------------------------------------------------------------
(* Counting *)

\* Sets of threads are finite.
LEMMA Finite ==
    ASSUME NEW S \in SUBSET Threads, NEW O \in SUBSET S
    PROVE  /\ IsFiniteSet(S) /\ IsFiniteSet(O)
           /\ Cardinality(Threads) \in Nat
           /\ Cardinality(S) \in 0 .. Cardinality(Threads)
           /\ Cardinality(O) \in 0 .. Cardinality(S)
<1>1. IsFiniteSet(Threads)
  BY SemaAssumption
<1>2. IsFiniteSet(S) /\ Cardinality(S) <= Cardinality(Threads)
  BY <1>1, FS_Subset
<1>3. IsFiniteSet(O) /\ Cardinality(O) <= Cardinality(S)
  BY <1>2, FS_Subset
<1>4. Cardinality(Threads) \in Nat /\ Cardinality(S) \in Nat /\ Cardinality(O) \in Nat
  BY <1>1, <1>2, <1>3, FS_CardinalityType
<1>5. QED
  BY SMTT(30), <1>2, <1>3, <1>4

\* A thread enters or leaves, or one inside moves on.
LEMMA Enters ==
    ASSUME Types, NEW t \in Threads, pc[t] = "out", NEW x, x # "out",
           pc' = [pc EXCEPT ![t] = x]
    PROVE  Cardinality(Inside') = Cardinality(Inside) + 1
<1>1. Inside' = Inside \cup {t} /\ t \notin Inside
  BY DEF Inside, Types
<1>2. Inside \in SUBSET Threads
  BY DEF Inside
<1>3. IsFiniteSet(Inside)
  BY <1>2, Finite
<1>4. QED
  BY <1>1, <1>3, FS_AddElement

\* One thread fewer is inside after one has left.
LEMMA Leaves ==
    ASSUME Types, NEW t \in Threads, pc[t] # "out", pc' = [pc EXCEPT ![t] = "out"]
    PROVE  Cardinality(Inside') = Cardinality(Inside) - 1
<1>1. Inside' = Inside \ {t} /\ t \in Inside
  BY DEF Inside, Types
<1>2. Inside \in SUBSET Threads
  BY DEF Inside
<1>3. IsFiniteSet(Inside)
  BY <1>2, Finite
<1>4. QED
  BY <1>1, <1>3, FS_RemoveElement

\* A thread that moves on inside keeps the set of those inside.
LEMMA Stays ==
    ASSUME Types, NEW t \in Threads, pc[t] # "out", NEW x, x # "out",
           pc' = [pc EXCEPT ![t] = x]
    PROVE  Inside' = Inside
BY DEF Inside, Types

\* CountAccurate, in terms of Inside, and the numbers in it.
LEMMA Counts ==
    ASSUME IInv
    PROVE  /\ s_count = units - Cardinality(Inside)
           /\ units \in Nat /\ units <= MaxUnits /\ s_count \in Int
           /\ Cardinality(Inside) \in Nat /\ Cardinality(Owners) \in Nat
           /\ IsFiniteSet(Owners)
           /\ MaxUnits \in Nat
<1>1. Inside \in SUBSET Threads /\ Owners \in SUBSET Inside
  BY DEF Inside, Owners
<1>2. s_count = units - Cardinality(Inside)
  BY DEF IInv, CountAccurate, Inside
<1>3. units \in Nat /\ MaxUnits \in Nat /\ units <= MaxUnits
  BY SMTT(30), SemaAssumption DEF IInv, Types
<1>4. /\ Cardinality(Inside) \in Nat /\ Cardinality(Owners) \in Nat
      /\ IsFiniteSet(Owners)
  BY SMTT(30), <1>1, Finite
<1>5. QED
  BY SMTT(30), <1>2, <1>3, <1>4

\* What is left of a step once its effect on the queue and the number of threads
\* inside is known: while s_count is not negative there are enough units for all
\* who came in.
LEMMA Conclude ==
    ASSUME Types', QueueOK', OwnStates', s_count' = units' - Cardinality(Inside'),
           s_count' >= 0 \/ (~panicstr' => Cardinality(Owners') <= units')
    PROVE  IInv'
<1>1. Inside' \in SUBSET Threads /\ Owners' \in SUBSET Inside'
  BY DEF Inside, Owners
<1>2. Cardinality(Inside') \in Nat /\ Cardinality(Owners') \in 0 .. Cardinality(Inside')
  BY SMTT(30), <1>1, Finite
<1>3. units' \in Nat
  BY SMTT(30), SemaAssumption DEF Types
<1>4. ~panicstr' => Cardinality(Owners') <= units'
  BY SMTT(30), <1>2, <1>3
<1>5. QED
  BY <1>4 DEF IInv, CountAccurate, NeverOvergranted, Inside
------------------------------------------------------------------------------
(* The queue, and who owns a unit *)

\* Priorities are numbers.
LEMMA Priorities == Types => t_pri \in [Threads -> Int]
BY SemaAssumption DEF Types

\* Going to sleep on s_slpq.
LEMMA QueueInsert ==
    ASSUME IInv, NEW t \in Threads, ~Asleep(t), NEW x \in Sleeps,
           s_slpq' = SleepqInsert(s_slpq, t_pri, t), t_pri' = t_pri,
           pc' = [pc EXCEPT ![t] = x]
    PROVE  /\ s_slpq' \in Seq(Threads) /\ QueueOK'
           /\ \A u : Asleep(u)' <=> Asleep(u) \/ u = t
           /\ Len(s_slpq') = Len(s_slpq) + 1
<1>1. /\ s_slpq \in Seq(Threads) /\ t_pri \in [Threads -> Int]
      /\ pc \in [Threads -> Sleeps \cup {"out", "in", "sigundo", "sigretry"}]
      /\ Sorted(s_slpq, t_pri) /\ IsInjective(s_slpq)
      /\ \A i \in DOMAIN s_slpq : pc[s_slpq[i]] \in Sleeps
  BY Priorities DEF IInv, Types, QueueOK, Sleeps
<1>2. ~OnQueue(s_slpq, t)
  BY DEF Asleep
<1>3. /\ s_slpq' \in Seq(Threads) /\ Len(s_slpq') = Len(s_slpq) + 1
      /\ \A u : OnQueue(s_slpq', u) <=> OnQueue(s_slpq, u) \/ u = t
      /\ IsInjective(s_slpq') /\ Sorted(s_slpq', t_pri)
  BY <1>1, <1>2, InsertProperties
<1>4. \A u \in Threads : OnQueue(s_slpq, u) => pc[u] \in Sleeps
  BY <1>1 DEF OnQueue
<1>5. \A i \in DOMAIN s_slpq' : s_slpq'[i] \in Threads /\ OnQueue(s_slpq', s_slpq'[i])
  BY SMTT(30), <1>3 DEF OnQueue
<1>6. \A i \in DOMAIN s_slpq' : pc'[s_slpq'[i]] \in Sleeps
  BY <1>1, <1>3, <1>4, <1>5
<1>7. QED
  BY <1>3, <1>6 DEF QueueOK, Asleep, Sleeps

\* Being taken off s_slpq, by a signal or to be put back elsewhere.
LEMMA QueueDequeue ==
    ASSUME IInv, NEW t \in Threads,
           s_slpq' = SleepqDequeue(s_slpq, t), t_pri' = t_pri,
           \A u \in Threads \ {t} : pc'[u] = pc[u]
    PROVE  /\ s_slpq' \in Seq(Threads) /\ QueueOK'
           /\ \A u : Asleep(u)' <=> Asleep(u) /\ u # t
<1>1. /\ s_slpq \in Seq(Threads) /\ t_pri \in [Threads -> Int]
      /\ Sorted(s_slpq, t_pri) /\ IsInjective(s_slpq)
      /\ \A i \in DOMAIN s_slpq : pc[s_slpq[i]] \in Sleeps
  BY Priorities DEF IInv, Types, QueueOK, Sleeps
<1>2. /\ s_slpq' \in Seq(Threads)
      /\ \A u : OnQueue(s_slpq', u) <=> OnQueue(s_slpq, u) /\ u # t
      /\ IsInjective(s_slpq') /\ Sorted(s_slpq', t_pri)
  BY <1>1, DequeueProperties
<1>3. \A u \in Threads : OnQueue(s_slpq, u) => pc[u] \in Sleeps
  BY <1>1 DEF OnQueue
<1>4. \A i \in DOMAIN s_slpq' : s_slpq'[i] \in Threads /\ OnQueue(s_slpq', s_slpq'[i])
  BY SMTT(30), <1>2 DEF OnQueue
<1>5. \A i \in DOMAIN s_slpq' : pc'[s_slpq'[i]] \in Sleeps
  BY <1>2, <1>3, <1>4
<1>6. QED
  BY <1>2, <1>5 DEF QueueOK, Asleep, Sleeps

\* The first thread of s_slpq is woken: it has the highest priority.
LEMMA QueueTail ==
    ASSUME IInv, s_slpq # <<>>, s_slpq' = Tail(s_slpq), t_pri' = t_pri,
           \A u \in Threads : pc[u] \in Sleeps => pc'[u] = pc[u]
    PROVE  /\ s_slpq' \in Seq(Threads) /\ QueueOK'
           /\ Head(s_slpq) \in Threads /\ pc[Head(s_slpq)] \in Sleeps
           /\ Asleep(Head(s_slpq))
           /\ \A u : Asleep(u) => t_pri[u] <= t_pri[Head(s_slpq)]
           /\ \A u : Asleep(u)' <=> Asleep(u) /\ u # Head(s_slpq)
           /\ Len(s_slpq') = Len(s_slpq) - 1
<1>1. /\ s_slpq \in Seq(Threads) /\ t_pri \in [Threads -> Int]
      /\ Sorted(s_slpq, t_pri) /\ IsInjective(s_slpq)
      /\ \A i \in DOMAIN s_slpq : pc[s_slpq[i]] \in Sleeps
  BY Priorities DEF IInv, Types, QueueOK, Sleeps
<1>2. /\ Head(s_slpq) \in Threads /\ s_slpq' \in Seq(Threads)
      /\ Len(s_slpq') = Len(s_slpq) - 1
      /\ OnQueue(s_slpq, Head(s_slpq))
      /\ \A u : OnQueue(s_slpq', u) <=> OnQueue(s_slpq, u) /\ u # Head(s_slpq)
      /\ IsInjective(s_slpq') /\ Sorted(s_slpq', t_pri)
      /\ \A u : OnQueue(s_slpq, u) => t_pri[u] <= t_pri[Head(s_slpq)]
  BY <1>1, TailProperties
<1>3. \A u \in Threads : OnQueue(s_slpq, u) => pc[u] \in Sleeps
  BY <1>1 DEF OnQueue
<1>4. \A i \in DOMAIN s_slpq' : s_slpq'[i] \in Threads /\ OnQueue(s_slpq', s_slpq'[i])
  BY SMTT(30), <1>2 DEF OnQueue
<1>5. \A i \in DOMAIN s_slpq' : pc'[s_slpq'[i]] \in Sleeps
  BY <1>2, <1>3, <1>4
<1>6. QED
  BY <1>2, <1>3, <1>5 DEF QueueOK, Asleep, Sleeps

\* A step that leaves s_slpq alone.
LEMMA QueueKept ==
    ASSUME IInv, NEW t \in Threads, NEW x, pc' = [pc EXCEPT ![t] = x],
           Asleep(t) => x \in Sleeps, UNCHANGED <<s_slpq, t_pri>>
    PROVE  QueueOK' /\ \A u : Asleep(u)' <=> Asleep(u)
<1>1. /\ s_slpq \in Seq(Threads) /\ pc \in [Threads -> Sleeps \cup {"out", "in", "sigundo", "sigretry"}]
      /\ \A i \in DOMAIN s_slpq : pc[s_slpq[i]] \in Sleeps
  BY DEF IInv, Types, QueueOK, Sleeps
<1>2. \A i \in DOMAIN s_slpq : pc'[s_slpq[i]] \in Sleeps
  BY SMTT(30), <1>1 DEF Asleep, OnQueue
<1>3. Sorted(s_slpq', t_pri') /\ IsInjective(s_slpq')
  BY DEF IInv, QueueOK
<1>4. QED
  BY <1>2, <1>3 DEF QueueOK, Asleep, Sleeps

\* Only threads in sema_p() and sema_p_sig() are on s_slpq.
LEMMA AsleepSleeps ==
    ASSUME IInv, NEW t \in Threads, Asleep(t)
    PROVE  pc[t] \in Sleeps
BY DEF IInv, QueueOK, Asleep, OnQueue, Sleeps

\* Only t changes.
LEMMA OwnersBut ==
    ASSUME NEW t \in Threads, \A u \in Threads \ {t} : pc'[u] = pc[u],
           \A u \in Threads \ {t} : Asleep(u)' <=> Asleep(u)
    PROVE  /\ t \in Owners' /\ t \in Owners => Owners' = Owners
           /\ t \notin Owners' /\ t \notin Owners => Owners' = Owners
           /\ t \in Owners' /\ t \notin Owners => Owners' = Owners \cup {t}
           /\ t \notin Owners' /\ t \in Owners => Owners' = Owners \ {t}
<1>1. \A u \in Threads \ {t} : u \in Owners' <=> u \in Owners
  BY DEF Owners
<1>2. Owners \subseteq Threads /\ Owners' \subseteq Threads
  BY DEF Owners
<1>3. QED
  BY SMTT(30), <1>1, <1>2
------------------------------------------------------------------------------
(* The actions *)

\* Nothing moves but a driver's mutex, a pending signal or panicstr.
LEMMA QuietStep ==
    ASSUME IInv, UNCHANGED <<s_count, s_slpq, t_pri, pc, units>>, Types',
           panicstr => panicstr'
    PROVE  IInv' /\ Owners' = Owners /\ \A u : Asleep(u)' <=> Asleep(u)
<1>1. Inside' = Inside /\ Owners' = Owners /\ \A u : Asleep(u)' <=> Asleep(u)
  BY DEF Inside, Owners, Asleep
<1>2. QueueOK' /\ OwnStates'
  BY DEF IInv, QueueOK, OwnStates
<1>3. s_count' = units' - Cardinality(Inside')
  BY <1>1, Counts
<1>4. ~panicstr' => Cardinality(Owners') <= units'
  BY <1>1 DEF IInv, NeverOvergranted
<1>5. QED
  BY <1>1, <1>2, <1>3, <1>4, Conclude

\* t goes to sleep.
LEMMA BlockStep ==
    ASSUME IInv, NEW t \in Threads, ~Asleep(t), t \notin Owners,
           NEW x \in {"blocking", "sigblocking"}, x = "blocking" <=> t \notin SigThreads,
           pc' = [pc EXCEPT ![t] = x], s_slpq' = SleepqInsert(s_slpq, t_pri, t),
           s_count' = units' - Cardinality(Inside'),
           UNCHANGED <<t_pri, t_sig, unsafe_driver, panicstr, units>>
    PROVE  /\ IInv' /\ Owners' = Owners /\ Len(s_slpq') = Len(s_slpq) + 1
           /\ \A u : Asleep(u)' <=> Asleep(u) \/ u = t
<1>1. x \in Sleeps
  BY DEF Sleeps
<1>2. /\ s_slpq' \in Seq(Threads) /\ QueueOK' /\ Len(s_slpq') = Len(s_slpq) + 1
      /\ \A u : Asleep(u)' <=> Asleep(u) \/ u = t
  BY <1>1, QueueInsert
<1>3. pc \in [Threads -> Sleeps \cup {"out", "in", "sigundo", "sigretry"}]
  BY DEF IInv, Types
<1>4. t \notin Owners'
  BY <1>2, <1>3 DEF Owners
<1>5. Owners' = Owners
  BY <1>2, <1>3, <1>4, OwnersBut
<1>6. Types' /\ OwnStates'
  BY <1>1, <1>2, <1>3 DEF IInv, Types, OwnStates
<1>7. ~panicstr' => Cardinality(Owners') <= units'
  BY <1>5 DEF IInv, NeverOvergranted
<1>8. QED
  BY <1>2, <1>5, <1>6, <1>7, Conclude

\* t takes a unit of those that are left.
LEMMA TakeStep ==
    ASSUME IInv, NEW t \in Threads, ~Asleep(t), t \notin Owners,
           s_count' >= 0 \/ panicstr, s_count' \in Int,
           pc' = [pc EXCEPT ![t] = "in"],
           s_count' = units' - Cardinality(Inside'),
           UNCHANGED <<s_slpq, t_pri, t_sig, unsafe_driver, panicstr, units>>
    PROVE  /\ IInv' /\ Owners' = Owners \cup {t} /\ \A u : Asleep(u)' <=> Asleep(u)
<1>1. QueueOK' /\ \A u : Asleep(u)' <=> Asleep(u)
  BY QueueKept
<1>2. pc \in [Threads -> Sleeps \cup {"out", "in", "sigundo", "sigretry"}]
  BY DEF IInv, Types
<1>3. t \in Owners'
  BY <1>2 DEF Owners
<1>4. Owners' = Owners \cup {t}
  BY <1>1, <1>2, <1>3, OwnersBut
<1>5. Types' /\ OwnStates'
  BY <1>2 DEF IInv, Types, OwnStates
<1>6. s_count' >= 0 \/ (~panicstr' => Cardinality(Owners') <= units')
  OBVIOUS
<1>7. QED
  BY <1>1, <1>4, <1>5, <1>6, Conclude

\* t moves on inside, owner or not.
LEMMA MoveStep ==
    ASSUME IInv, NEW t \in Threads, pc[t] # "out",
           NEW x \in Sleeps \cup {"in", "sigundo", "sigretry"},
           x \in {"blocking", "swtch"} => t \notin SigThreads,
           x \in {"sigblocking", "sigswtch", "sigundo", "sigretry"} => t \in SigThreads,
           pc' = [pc EXCEPT ![t] = x], Asleep(t) => x \in Sleeps,
           t \in Owners <=> (x = "in" \/ (x \in {"blocking", "swtch"} /\ ~Asleep(t))),
           unsafe_driver' \in Threads \cup {None}, t_sig' \in [Threads -> BOOLEAN],
           UNCHANGED <<s_count, s_slpq, t_pri, panicstr, units>>
    PROVE  /\ IInv' /\ Owners' = Owners /\ \A u : Asleep(u)' <=> Asleep(u)
<1>1. QueueOK' /\ \A u : Asleep(u)' <=> Asleep(u)
  BY QueueKept
<1>2. pc \in [Threads -> Sleeps \cup {"out", "in", "sigundo", "sigretry"}]
  BY DEF IInv, Types
<1>3. t \in Owners' <=> t \in Owners
  <2>1. pc'[t] = x /\ (Asleep(t)' <=> Asleep(t))
    BY <1>1, <1>2
  <2>2. t \in Owners' <=> \/ pc'[t] = "in"
                          \/ pc'[t] \in {"blocking", "swtch"} /\ ~Asleep(t)'
    BY DEF Owners
  <2>3. QED
    BY <2>1, <2>2
<1>4. Owners' = Owners
  BY <1>1, <1>2, <1>3, OwnersBut
<1>5. Types' /\ OwnStates'
  BY <1>2 DEF IInv, Types, OwnStates
<1>6. Inside' = Inside
  <2>1. x # "out"
    BY DEF Sleeps
  <2>2. Types
    BY DEF IInv
  <2>3. QED
    BY <2>1, <2>2, Stays
<1>7. s_count' = units' - Cardinality(Inside')
  BY <1>6, Counts
<1>8. ~panicstr' => Cardinality(Owners') <= units'
  BY <1>4 DEF IInv, NeverOvergranted
<1>9. QED
  BY <1>1, <1>4, <1>5, <1>7, <1>8, Conclude

\* A thread outside, or on its way out, has no unit and is not asleep.
LEMMA OutFacts ==
    ASSUME IInv, NEW t \in Threads, pc[t] \in {"out", "sigundo", "sigretry"}
    PROVE  ~Asleep(t) /\ t \notin Owners
BY AsleepSleeps DEF Sleeps, Owners

\* sema_p() takes a unit or goes to sleep.
LEMMA SemaPStep ==
    ASSUME IInv, NEW t \in Threads, SemaP(t)
    PROVE  IInv'
<1>1. ~Asleep(t) /\ t \notin Owners
  BY OutFacts DEF SemaP
<1>2. s_count' = units' - Cardinality(Inside') /\ s_count \in Int /\ s_count' \in Int
  <2>1. Cardinality(Inside') = Cardinality(Inside) + 1
    BY Enters DEF IInv, SemaP
  <2>2. QED
    BY SMTT(30), <2>1, Counts DEF SemaP
<1>3. CASE s_count > 0 \/ panicstr
  <2>1. s_count' >= 0 \/ panicstr
    BY SMTT(30), <1>2, <1>3 DEF SemaP
  <2>2. QED
    BY <1>1, <1>2, <1>3, <2>1, TakeStep DEF SemaP
<1>4. CASE ~(s_count > 0 \/ panicstr)
  BY <1>1, <1>2, <1>4, BlockStep DEF SemaP
<1>5. QED
  BY <1>3, <1>4

\* sema_p_sig() takes a unit or goes to sleep.
LEMMA SemaPSigStep ==
    ASSUME IInv, NEW t \in Threads, SemaPSig(t)
    PROVE  IInv'
<1>1. ~Asleep(t) /\ t \notin Owners
  BY OutFacts DEF SemaPSig
<1>2. s_count' = units' - Cardinality(Inside') /\ s_count \in Int /\ s_count' \in Int
  <2>1. Cardinality(Inside') = Cardinality(Inside) + 1
    BY Enters DEF IInv, SemaPSig, TryOrBlock
  <2>2. QED
    BY SMTT(30), <2>1, Counts DEF SemaPSig
<1>3. CASE s_count - 1 < 0
  BY <1>1, <1>2, <1>3, BlockStep DEF SemaPSig, TryOrBlock
<1>4. CASE ~(s_count - 1 < 0)
  <2>1. s_count' >= 0
    BY SMTT(30), <1>2, <1>4 DEF SemaPSig
  <2>2. QED
    BY <1>1, <1>2, <1>4, <2>1, TakeStep DEF SemaPSig, TryOrBlock
<1>5. QED
  BY <1>3, <1>4

\* sema_p_sig() tries again after a wake-up.
LEMMA RetryStep ==
    ASSUME IInv, NEW t \in Threads, Retry(t)
    PROVE  IInv'
<1>1. ~Asleep(t) /\ t \notin Owners /\ t \in SigThreads
  BY OutFacts DEF Retry, IInv, OwnStates
<1>2. s_count' = units' - Cardinality(Inside') /\ s_count \in Int /\ s_count' \in Int
  <2>1. Inside' = Inside
    BY Stays DEF IInv, Retry, TryOrBlock
  <2>2. QED
    BY <2>1, Counts DEF Retry
<1>3. CASE s_count < 0
  BY <1>1, <1>2, <1>3, BlockStep DEF Retry, TryOrBlock
<1>4. CASE ~(s_count < 0)
  <2>1. s_count' >= 0
    BY SMTT(30), <1>2, <1>4 DEF Retry
  <2>2. QED
    BY <1>1, <1>2, <1>4, <2>1, TakeStep DEF Retry, TryOrBlock
<1>5. QED
  BY <1>3, <1>4

\* sema_tryp(), whether it succeeds or not.
LEMMA SemaTrypStep ==
    ASSUME IInv, NEW t \in Threads, SemaTryp(t)
    PROVE  IInv'
<1>1. ~Asleep(t) /\ t \notin Owners
  BY OutFacts DEF SemaTryp
<1>2. s_count' = units' - Cardinality(Inside') /\ s_count \in Int /\ s_count' \in Int
  <2>1. Cardinality(Inside') = Cardinality(Inside) + 1
    BY Enters DEF IInv, SemaTryp
  <2>2. QED
    BY SMTT(30), <2>1, Counts DEF SemaTryp
<1>3. s_count' >= 0
  BY SMTT(30), <1>2 DEF SemaTryp
<1>4. QED
  BY <1>1, <1>2, <1>3, TakeStep DEF SemaTryp

\* sema_p() gives up unsafe_driver and the processor.
LEMMA SwtchStep ==
    ASSUME IInv, NEW t \in Threads, Swtch(t)
    PROVE  IInv' /\ Owners' = Owners /\ \A u : Asleep(u)' <=> Asleep(u)
<1>1. pc[t] = "blocking" /\ t \notin SigThreads
  BY DEF Swtch, IInv, OwnStates
<1>2. t \in Owners <=> ~Asleep(t)
  BY <1>1 DEF Owners
<1>3. unsafe_driver' \in Threads \cup {None} /\ t_sig' \in [Threads -> BOOLEAN]
  BY DEF Swtch, IInv, Types
<1>4. QED
  BY <1>1, <1>2, <1>3, MoveStep DEF Swtch, Sleeps

\* sema_p() returns and takes unsafe_driver back.
LEMMA ResumeStep ==
    ASSUME IInv, NEW t \in Threads, Resume(t)
    PROVE  IInv' /\ Owners' = Owners /\ \A u : Asleep(u)' <=> Asleep(u)
<1>1. pc[t] = "swtch" /\ ~Asleep(t)
  BY DEF Resume
<1>2. t \in Owners
  BY <1>1 DEF Owners
<1>3. unsafe_driver' \in Threads \cup {None} /\ t_sig' \in [Threads -> BOOLEAN]
  BY DEF Resume, IInv, Types
<1>4. QED
  BY <1>1, <1>2, <1>3, MoveStep DEF Resume

\* sema_p_sig() wakes up and decides what woke it.
LEMMA ResumeSigStep ==
    ASSUME IInv, NEW t \in Threads, ResumeSig(t)
    PROVE  IInv'
<1>1. pc[t] = "sigswtch" /\ ~Asleep(t) /\ t \notin Owners /\ t \in SigThreads
  BY DEF ResumeSig, Owners, IInv, OwnStates
<1>2. unsafe_driver' \in Threads \cup {None} /\ t_sig' \in [Threads -> BOOLEAN]
  BY DEF ResumeSig, IInv, Types
<1>3. UNCHANGED <<s_count, s_slpq, t_pri, panicstr, units>>
  BY DEF ResumeSig
<1>4. CASE pc' = [pc EXCEPT ![t] = "sigundo"]
  BY <1>1, <1>2, <1>3, <1>4, MoveStep
<1>5. CASE pc' = [pc EXCEPT ![t] = "sigretry"]
  BY <1>1, <1>2, <1>3, <1>5, MoveStep
<1>6. QED
  BY <1>4, <1>5 DEF ResumeSig

\* A thread of sema_p_sig() leaves the queue without a unit.
LEMMA UnsleepStep ==
    ASSUME IInv, NEW t \in SigThreads, t \in Threads,
           s_slpq' = SleepqDequeue(s_slpq, t),
           \/ pc' = pc
           \/ pc[t] # "out" /\ pc[t] # "in" /\ pc' = [pc EXCEPT ![t] = "sigswtch"],
           t_sig' \in [Threads -> BOOLEAN],
           UNCHANGED <<s_count, t_pri, unsafe_driver, panicstr, units>>
    PROVE  IInv'
<1>1. pc \in [Threads -> Sleeps \cup {"out", "in", "sigundo", "sigretry"}]
  BY DEF IInv, Types
<1>2. /\ s_slpq' \in Seq(Threads) /\ QueueOK'
      /\ \A u : Asleep(u)' <=> Asleep(u) /\ u # t
  BY <1>1, QueueDequeue
<1>3. /\ pc'[t] # "out" <=> pc[t] # "out"
      /\ pc'[t] = "in" <=> pc[t] = "in"
      /\ pc'[t] \notin {"blocking", "swtch"} /\ pc[t] \notin {"blocking", "swtch"}
      /\ pc' \in [Threads -> Sleeps \cup {"out", "in", "sigundo", "sigretry"}]
      /\ \A u \in Threads \ {t} : pc'[u] = pc[u]
  BY <1>1 DEF Sleeps, IInv, OwnStates
<1>4. t \in Owners' <=> t \in Owners
  BY <1>3 DEF Owners
<1>5. Owners' = Owners
  BY <1>2, <1>3, <1>4, OwnersBut
<1>6. Types' /\ OwnStates'
  BY <1>1, <1>2, <1>3 DEF IInv, Types, OwnStates
<1>7. Inside' = Inside
  BY <1>3 DEF Inside
<1>8. s_count' = units' - Cardinality(Inside')
  BY <1>7, Counts
<1>9. ~panicstr' => Cardinality(Owners') <= units'
  BY <1>5 DEF IInv, NeverOvergranted
<1>10. QED
  BY <1>2, <1>6, <1>8, <1>9, Conclude

\* sema_p_sig() gives up the processor, unless a signal is pending.
LEMMA SwtchSigStep ==
    ASSUME IInv, NEW t \in Threads, SwtchSig(t)
    PROVE  IInv'
<1>1. pc[t] = "sigblocking" /\ t \notin Owners /\ t \in SigThreads
  BY DEF SwtchSig, Owners, IInv, OwnStates
<1>2. t_sig' \in [Threads -> BOOLEAN] /\ unsafe_driver' \in Threads \cup {None}
  BY DEF SwtchSig, IInv, Types
<1>3. CASE t_sig[t]
  BY <1>1, <1>2, <1>3, UnsleepStep DEF SwtchSig
<1>4. CASE ~t_sig[t]
  BY <1>1, <1>2, <1>4, MoveStep DEF SwtchSig, Sleeps
<1>5. QED
  BY <1>3, <1>4

\* A signal is posted and takes its thread off the queue.
LEMMA SignalStep ==
    ASSUME IInv, NEW t \in Threads, Signal(t)
    PROVE  IInv'
<1>1. t_sig' \in [Threads -> BOOLEAN]
  BY DEF Signal, IInv, Types
<1>2. QED
  BY <1>1, UnsleepStep DEF Signal

\* sema_p_sig() takes back its decrement after a signal.
LEMMA UndoStep ==
    ASSUME IInv, NEW t \in Threads, Undo(t)
    PROVE  IInv'
<1>1. ~Asleep(t) /\ t \notin Owners
  BY OutFacts DEF Undo
<1>2. pc \in [Threads -> Sleeps \cup {"out", "in", "sigundo", "sigretry"}]
  BY DEF IInv, Types
<1>3. QueueOK' /\ \A u : Asleep(u)' <=> Asleep(u)
  BY <1>1, QueueKept DEF Undo
<1>4. t \notin Owners'
  BY <1>2 DEF Owners, Undo
<1>5. Owners' = Owners
  BY <1>1, <1>2, <1>3, <1>4, OwnersBut DEF Undo
<1>6. Types' /\ OwnStates'
  BY <1>2 DEF IInv, Types, OwnStates, Undo
<1>7. s_count' = units' - Cardinality(Inside')
  <2>1. Cardinality(Inside') = Cardinality(Inside) - 1
    BY Leaves DEF IInv, Undo
  <2>2. QED
    BY SMTT(30), <2>1, Counts DEF Undo
<1>8. ~panicstr' => Cardinality(Owners') <= units'
  BY <1>5 DEF IInv, NeverOvergranted, Undo
<1>9. QED
  BY <1>3, <1>6, <1>7, <1>8, Conclude

\* sema_changepri() moves a sleeper on the queue.
LEMMA ChangepriStep ==
    ASSUME IInv, NEW t \in Threads, NEW p \in Pris, SemaChangepri(t, p)
    PROVE  IInv' /\ Owners' = Owners /\ (\A u : Asleep(u)' <=> Asleep(u))
           /\ Len(s_slpq') = Len(s_slpq)
<1>1. /\ s_slpq \in Seq(Threads) /\ t_pri \in [Threads -> Int]
      /\ Sorted(s_slpq, t_pri) /\ IsInjective(s_slpq)
      /\ \A i \in DOMAIN s_slpq : pc[s_slpq[i]] \in Sleeps
  BY Priorities DEF IInv, Types, QueueOK, Sleeps
<1>2. OnQueue(s_slpq, t) /\ Len(s_slpq) \in Nat
  BY SMTT(30), <1>1 DEF SemaChangepri, Asleep
<1> DEFINE q == SleepqDequeue(s_slpq, t)
<1>3. /\ q \in Seq(Threads) /\ Len(q) = Len(s_slpq) - 1
      /\ \A u : OnQueue(q, u) <=> OnQueue(s_slpq, u) /\ u # t
      /\ IsInjective(q) /\ Sorted(q, [t_pri EXCEPT ![t] = p])
  BY <1>1, <1>2, DequeueProperties
<1>4. t_pri' = [t_pri EXCEPT ![t] = p] /\ s_slpq' = SleepqInsert(q, t_pri', t)
  BY DEF SemaChangepri
<1> HIDE DEF q
<1>5. t_pri' \in [Threads -> Int]
  BY <1>1, <1>4, SemaAssumption
<1>6. /\ s_slpq' \in Seq(Threads) /\ Len(s_slpq') = Len(q) + 1
      /\ \A u : OnQueue(s_slpq', u) <=> OnQueue(q, u) \/ u = t
      /\ IsInjective(s_slpq') /\ Sorted(s_slpq', t_pri')
  <2>1. ~OnQueue(q, t) /\ Sorted(q, t_pri')
    BY <1>3, <1>4
  <2> DEFINE new == t_pri'
             n == SleepqInsert(q, new, t)
  <2>2. new \in [Threads -> Int] /\ s_slpq' = n /\ Sorted(q, new)
    BY <1>4, <1>5, <2>1
  <2> HIDE DEF new
  <2>3. /\ n \in Seq(Threads) /\ Len(n) = Len(q) + 1
        /\ \A u : OnQueue(n, u) <=> OnQueue(q, u) \/ u = t
        /\ IsInjective(n) /\ Sorted(n, new)
    BY <1>3, <2>1, <2>2, InsertProperties
  <2>4. QED
    BY <2>2, <2>3 DEF new
<1>7. \A u : Asleep(u)' <=> Asleep(u)
  BY <1>2, <1>3, <1>6 DEF Asleep
<1>8. Owners' = Owners /\ Inside' = Inside
  BY <1>7 DEF Owners, Inside, SemaChangepri
<1>9. QueueOK'
  <2>1. \A u \in Threads : OnQueue(s_slpq, u) => pc[u] \in Sleeps
    BY <1>1 DEF OnQueue
  <2>2. \A i \in DOMAIN s_slpq' : s_slpq'[i] \in Threads /\ OnQueue(s_slpq', s_slpq'[i])
    BY SMTT(30), <1>6 DEF OnQueue
  <2>3. \A i \in DOMAIN s_slpq' : pc'[s_slpq'[i]] \in Sleeps
    BY <1>2, <1>3, <1>6, <2>1, <2>2 DEF SemaChangepri
  <2>4. QED
    BY <1>6, <2>3 DEF QueueOK, Sleeps
<1>10. Types' /\ OwnStates'
  BY <1>4, <1>6 DEF IInv, Types, OwnStates, SemaChangepri
<1>11. s_count' = units' - Cardinality(Inside')
  BY <1>8, Counts DEF SemaChangepri
<1>12. ~panicstr' => Cardinality(Owners') <= units'
  BY <1>8 DEF IInv, NeverOvergranted, SemaChangepri
<1>13. Len(s_slpq') = Len(s_slpq)
  BY SMTT(30), <1>2, <1>3, <1>6
<1>14. QED
  BY <1>7, <1>8, <1>9, <1>10, <1>11, <1>12, <1>13, Conclude

\* sema_v() hands a unit to the head of the queue: who owns one afterwards.
LEMMA HandedOver ==
    ASSUME IInv, s_slpq # <<>>, s_slpq' = Tail(s_slpq), t_pri' = t_pri,
           NEW CONSTANT h, h = Head(s_slpq),
           NEW CONSTANT L \in SUBSET Threads, \A u \in L : pc[u] = "in" /\ pc'[u] = "out",
           \A u \in Threads \ L : pc'[u] = pc[u]
    PROVE  /\ s_slpq' \in Seq(Threads) /\ QueueOK'
           /\ h \in Threads /\ Asleep(h) /\ h \notin Owners
           /\ pc[h] \in Sleeps
           /\ \A u : Asleep(u) => t_pri[u] <= t_pri[h]
           /\ \A u : Asleep(u)' <=> Asleep(u) /\ u # h
           /\ Len(s_slpq') = Len(s_slpq) - 1
           /\ Owners' \subseteq (Owners \ L) \cup {h}
           /\ pc[h] \in {"blocking", "swtch"} => Owners' = (Owners \ L) \cup {h}
<1>1. \A u \in Threads : pc[u] \in Sleeps => pc'[u] = pc[u]
  BY DEF Sleeps
<1>2. /\ s_slpq' \in Seq(Threads) /\ QueueOK'
      /\ h \in Threads /\ pc[h] \in Sleeps /\ Asleep(h)
      /\ \A u : Asleep(u) => t_pri[u] <= t_pri[h]
      /\ \A u : Asleep(u)' <=> Asleep(u) /\ u # h
      /\ Len(s_slpq') = Len(s_slpq) - 1
  BY <1>1, QueueTail
<1>3. h \notin L /\ h \notin Owners
  BY <1>2 DEF Sleeps, Owners
<1>4. h \in Owners' <=> pc[h] \in {"blocking", "swtch"}
  <2>1. pc'[h] = pc[h] /\ pc[h] # "in" /\ ~Asleep(h)'
    BY <1>2, <1>3 DEF Sleeps
  <2>2. QED
    BY <1>2, <2>1 DEF Owners
<1>5. \A u \in L : u \notin Owners'
  BY DEF Owners
<1>6. \A u \in Threads \ L : u # h => (u \in Owners' <=> u \in Owners)
  BY <1>2 DEF Owners
<1>7. Owners \subseteq Threads /\ Owners' \subseteq Threads
  BY DEF Owners
<1>8. /\ Owners' \subseteq (Owners \ L) \cup {h}
      /\ pc[h] \in {"blocking", "swtch"} => Owners' = (Owners \ L) \cup {h}
  BY <1>2, <1>3, <1>4, <1>5, <1>6, <1>7
<1>9. QED
  BY <1>2, <1>3, <1>8

\* PutUnit leaves enough units, if there is one more of them (a = 1) or an owner
\* goes (L), and no owner comes without the head of the queue being woken.
LEMMA HandedCount ==
    ASSUME NEW O, IsFiniteSet(O), NEW h, NEW N \in SUBSET (O \cup {h})
    PROVE  /\ Cardinality(N) \in Nat /\ Cardinality(O) \in Nat
           /\ Cardinality(N) <= Cardinality(O) + 1
<1>1. IsFiniteSet(O \cup {h}) /\ Cardinality(O \cup {h}) <= Cardinality(O) + 1
  <2>1. /\ IsFiniteSet(O \cup {h})
        /\ Cardinality(O \cup {h}) = IF h \in O THEN Cardinality(O) ELSE Cardinality(O) + 1
    BY FS_AddElement
  <2>2. Cardinality(O) \in Nat
    BY FS_CardinalityType
  <2>3. QED
    BY SMTT(30), <2>1, <2>2
<1>2. IsFiniteSet(N) /\ Cardinality(N) <= Cardinality(O \cup {h})
  BY <1>1, FS_Subset
<1>3. Cardinality(N) \in Nat /\ Cardinality(O) \in Nat /\ Cardinality(O \cup {h}) \in Nat
  BY <1>1, <1>2, FS_CardinalityType
<1>4. QED
  BY SMTT(30), <1>1, <1>2, <1>3

\* sema_v() gives a unit back.
LEMMA SemaVStep ==
    ASSUME IInv, NEW t \in Threads, SemaV(t)
    PROVE  IInv'
<1>1. pc[t] = "in" /\ pc' = [pc EXCEPT ![t] = "out"] /\ PutUnit
      /\ UNCHANGED <<t_pri, t_sig, unsafe_driver, units>>
  BY DEF SemaV
<1>2. pc \in [Threads -> Sleeps \cup {"out", "in", "sigundo", "sigretry"}]
  BY DEF IInv, Types
<1>3. ~Asleep(t) /\ t \in Owners
  BY <1>1, AsleepSleeps DEF Sleeps, Owners
<1>4. s_count' = units' - Cardinality(Inside')
  <2>1. Cardinality(Inside') = Cardinality(Inside) - 1
    BY <1>1, Leaves DEF IInv
  <2>2. QED
    BY SMTT(30), <1>1, <2>1, Counts DEF PutUnit
<1>5. s_count \in Int /\ s_count' = s_count + 1 /\ units \in Nat
  BY <1>1, Counts DEF PutUnit
<1>6. OwnStates'
  BY <1>1, <1>2 DEF IInv, OwnStates
<1>7. CASE s_slpq' = s_slpq /\ (panicstr' \/ s_count' >= 0) /\ panicstr' \in BOOLEAN
  <2>1. QueueOK'
    BY <1>1, <1>3, <1>7, QueueKept
  <2>2. Types'
    BY <1>1, <1>2, <1>7 DEF IInv, Types
  <2>3. QED
    BY <1>4, <1>6, <1>7, <2>1, <2>2, Conclude
<1>8. CASE s_slpq # <<>> /\ s_slpq' = Tail(s_slpq) /\ UNCHANGED panicstr
  <2>0. PICK h : h = Head(s_slpq)
    OBVIOUS
  <2>1. PICK L \in SUBSET Threads : L = {t}
    OBVIOUS
  <2>2. /\ \A u \in L : pc[u] = "in" /\ pc'[u] = "out"
        /\ \A u \in Threads \ L : pc'[u] = pc[u]
    BY <1>1, <1>2, <2>1
  <2>3. /\ s_slpq' \in Seq(Threads) /\ QueueOK'
        /\ Owners' \subseteq (Owners \ L) \cup {h}
    BY <1>1, <1>8, <2>0, <2>2, HandedOver
  <2>4. PICK O : O = Owners \ {t}
    OBVIOUS
  <2>5. Cardinality(Owners') \in Nat /\ Cardinality(Owners') <= Cardinality(Owners)
    <3>1. IsFiniteSet(O) /\ Cardinality(O) = Cardinality(Owners) - 1
      BY <1>3, <2>4, Counts, FS_RemoveElement
    <3>2. Owners' \in SUBSET (O \cup {h})
      BY <2>1, <2>3, <2>4
    <3>3. Cardinality(Owners') \in Nat /\ Cardinality(Owners') <= Cardinality(O) + 1
      BY <3>1, <3>2, HandedCount
    <3>4. QED
      BY SMTT(30), <3>1, <3>3, Counts
  <2>6. ~panicstr' => Cardinality(Owners') <= units'
    BY SMTT(30), <1>1, <1>5, <1>8, <2>5, Counts DEF IInv, NeverOvergranted
  <2>7. Types'
    BY <1>1, <1>2, <1>8, <2>3 DEF IInv, Types
  <2>8. QED
    BY <1>4, <1>6, <2>3, <2>6, <2>7, Conclude
<1>9. CASE panicstr \/ s_count >= 0
  BY SMTT(30), <1>1, <1>5, <1>7, <1>9 DEF PutUnit, IInv, Types
<1>10. CASE ~panicstr /\ s_count < 0
  BY <1>1, <1>5, <1>7, <1>8, <1>10 DEF PutUnit
<1>11. QED
  BY SMTT(30), <1>5, <1>9, <1>10

\* An interrupt handler's sema_v() adds a unit.
LEMMA AnnounceStep ==
    ASSUME IInv, Announce
    PROVE  IInv'
<1>1. /\ PutUnit /\ units < MaxUnits /\ units' = units + 1
      /\ UNCHANGED <<t_pri, t_sig, pc, unsafe_driver>>
  BY DEF Announce
<1>2. Inside' = Inside
  BY <1>1 DEF Inside
<1>3. /\ s_count \in Int /\ s_count' = s_count + 1 /\ units \in Nat
      /\ units' \in 0 .. MaxUnits
  BY SMTT(30), <1>1, Counts DEF PutUnit
<1>4. s_count' = units' - Cardinality(Inside')
  BY SMTT(30), <1>1, <1>2, <1>3, Counts
<1>5. OwnStates'
  BY <1>1 DEF IInv, OwnStates
<1>6. CASE s_slpq' = s_slpq /\ (panicstr' \/ s_count' >= 0) /\ panicstr' \in BOOLEAN
  <2>1. QueueOK'
    BY <1>1, <1>6 DEF IInv, QueueOK
  <2>2. Types'
    BY <1>1, <1>3, <1>6 DEF IInv, Types
  <2>3. QED
    BY <1>4, <1>5, <1>6, <2>1, <2>2, Conclude
<1>7. CASE s_slpq # <<>> /\ s_slpq' = Tail(s_slpq) /\ UNCHANGED panicstr
  <2>0. PICK h : h = Head(s_slpq)
    OBVIOUS
  <2>1. {} \in SUBSET Threads
    OBVIOUS
  <2>2. \A u \in Threads \ {} : pc'[u] = pc[u]
    BY <1>1
  <2>3. /\ s_slpq' \in Seq(Threads) /\ QueueOK'
        /\ Owners' \subseteq (Owners \ {}) \cup {h}
    BY <1>1, <1>7, <2>0, <2>1, <2>2, HandedOver
  <2>4. Cardinality(Owners') \in Nat /\ Cardinality(Owners') <= Cardinality(Owners) + 1
    BY <2>3, HandedCount, Counts
  <2>5. ~panicstr' => Cardinality(Owners') <= units'
    BY SMTT(30), <1>1, <1>3, <1>7, <2>4, Counts DEF IInv, NeverOvergranted
  <2>6. Types'
    BY <1>1, <1>3, <1>7, <2>3 DEF IInv, Types
  <2>7. QED
    BY <1>4, <1>5, <2>3, <2>5, <2>6, Conclude
<1>8. CASE panicstr \/ s_count >= 0
  BY SMTT(30), <1>1, <1>3, <1>6, <1>8 DEF PutUnit, IInv, Types
<1>9. CASE ~panicstr /\ s_count < 0
  BY <1>1, <1>3, <1>6, <1>7, <1>9 DEF PutUnit
<1>10. QED
  BY SMTT(30), <1>3, <1>8, <1>9

\* A thread goes away with the unit it has waited for.
LEMMA ConsumeStep ==
    ASSUME IInv, NEW t \in Threads, Consume(t)
    PROVE  IInv' /\ t \in Owners /\ Owners' = Owners \ {t} /\ \A u : Asleep(u)' <=> Asleep(u)
<1>1. /\ pc[t] = "in" /\ pc' = [pc EXCEPT ![t] = "out"]
      /\ units > MinUnits /\ ~panicstr /\ units' = units - 1
      /\ UNCHANGED <<s_count, s_slpq, t_pri, t_sig, unsafe_driver, panicstr>>
  BY DEF Consume
<1>2. pc \in [Threads -> Sleeps \cup {"out", "in", "sigundo", "sigretry"}]
  BY DEF IInv, Types
<1>3. ~Asleep(t) /\ t \in Owners
  BY <1>1, AsleepSleeps DEF Sleeps, Owners
<1>4. QueueOK' /\ \A u : Asleep(u)' <=> Asleep(u)
  BY <1>1, <1>3, QueueKept
<1>5. t \notin Owners'
  BY <1>1, <1>2 DEF Owners
<1>6. Owners' = Owners \ {t}
  BY <1>1, <1>2, <1>3, <1>4, <1>5, OwnersBut
<1>7. units \in Nat /\ units' \in 0 .. MaxUnits
  BY SMTT(30), <1>1, Counts, SemaAssumption
<1>8. s_count' = units' - Cardinality(Inside')
  <2>1. Cardinality(Inside') = Cardinality(Inside) - 1
    BY <1>1, Leaves DEF IInv
  <2>2. QED
    BY SMTT(30), <1>1, <2>1, Counts
<1>9. Types' /\ OwnStates'
  BY <1>1, <1>2, <1>7 DEF IInv, Types, OwnStates
<1>10. ~panicstr' => Cardinality(Owners') <= units'
  <2>1. Cardinality(Owners') = Cardinality(Owners) - 1
    BY <1>3, <1>6, Counts, FS_RemoveElement
  <2>2. Cardinality(Owners) <= units
    BY <1>1 DEF IInv, NeverOvergranted
  <2>3. QED
    BY SMTT(30), <1>1, <1>7, <2>1, <2>2, Counts
<1>11. QED
  BY <1>3, <1>4, <1>6, <1>8, <1>9, <1>10, Conclude
------------------------------------------------------------------------------
(* Invariance *)

\* A new semaphore satisfies the invariant.
LEMMA InitInv == Init => IInv
<1> SUFFICES ASSUME Init PROVE IInv
  OBVIOUS
<1>1. Types
  <2>1. pc \in [Threads -> {"out"}] /\ t_sig \in [Threads -> BOOLEAN]
    BY DEF Init
  <2>2. pc \in [Threads -> Sleeps \cup {"out", "in", "sigundo", "sigretry"}]
    BY <2>1
  <2>3. s_slpq \in Seq(Threads) /\ units \in 0 .. MaxUnits
    BY SMTT(30), SemaAssumption DEF Init
  <2>4. QED
    BY <2>1, <2>2, <2>3 DEF Init, Types
<1>2. QueueOK
  BY SMTT(30) DEF Init, QueueOK, Sorted, IsInjective
<1>3. Inside = {} /\ Owners = {}
  BY DEF Init, Inside, Owners
<1>4. Cardinality(Inside) = 0 /\ Cardinality(Owners) = 0
  BY <1>3, FS_EmptySet
<1>5. CountAccurate /\ NeverOvergranted
  BY SMTT(30), <1>4, SemaAssumption DEF Init, CountAccurate, NeverOvergranted, Inside
<1>6. OwnStates
  BY DEF Init, OwnStates
<1>7. QED
  BY <1>1, <1>2, <1>5, <1>6 DEF IInv

\* Every step preserves the invariant.
LEMMA NextInv == IInv /\ [Next]_vars => IInv'
<1> SUFFICES ASSUME IInv, [Next]_vars PROVE IInv'
  OBVIOUS
<1>1. ASSUME NEW t \in Threads, EnterDriver(t) \/ LeaveDriver(t) PROVE IInv'
  <2>1. UNCHANGED <<s_count, s_slpq, t_pri, t_sig, pc, panicstr, units>>
        /\ unsafe_driver' \in Threads \cup {None}
    BY <1>1 DEF EnterDriver, LeaveDriver
  <2>2. Types'
    BY <2>1 DEF IInv, Types
  <2>3. QED
    BY <2>1, <2>2, QuietStep
<1>2. ASSUME NEW t \in Threads, Step(t) PROVE IInv'
  BY <1>2, SemaPStep, SwtchStep, ResumeStep, SemaPSigStep, SwtchSigStep, ResumeSigStep,
     UndoStep, RetryStep, SemaTrypStep, SemaVStep, ConsumeStep DEF Step
<1>3. ASSUME NEW t \in Threads, NEW p \in Pris, SemaChangepri(t, p) PROVE IInv'
  BY <1>3, ChangepriStep
<1>4. CASE Panic
  <2>1. Types'
    BY <1>4 DEF Panic, IInv, Types
  <2>2. QED
    BY <1>4, <2>1, QuietStep DEF Panic
<1>5. CASE UNCHANGED vars
  <2>1. Types' /\ UNCHANGED <<s_count, s_slpq, t_pri, pc, units, panicstr>>
    BY <1>5 DEF IInv, Types, vars
  <2>2. QED
    BY <2>1, QuietStep
<1>6. QED
  BY <1>1, <1>2, <1>3, <1>4, <1>5, SignalStep, AnnounceStep DEF Next

\* The invariant of semaphore.c holds in every reachable state, with signals or not.
THEOREM Invariance == Spec => []IInv
BY InitInv, NextInv, PTL DEF Spec

\* The variables of a semaphore keep their types; the range of s_count follows
\* from what it counts (sema_p(), sema_v() and the rest of semaphore.c).
THEOREM TypesKept == Spec => []TypeOK
<1>1. IInv => TypeOK
  <2> SUFFICES ASSUME IInv PROVE TypeOK
    OBVIOUS
  <2>1. Inside \in SUBSET Threads
    BY DEF Inside
  <2>2. /\ Cardinality(Threads) \in Nat
        /\ Cardinality(Inside) \in 0 .. Cardinality(Threads)
    BY <2>1, Finite
  <2>3. s_count \in (-Cardinality(Threads)) .. MaxUnits
    BY SMTT(30), <2>2, Counts
  <2>4. QED
    BY <2>3, Counts DEF TypeOK, IInv, Types, Sleeps
<1>2. QED
  BY <1>1, Invariance, PTL

\* Whatever signals, changes of priority and panics come in between: the queue of
\* a semaphore is in order and holds waiting threads only, s_count is the units
\* less the threads that came for one, and no more threads own a unit than there
\* are (SEMA_BLOCK, sema_v(), sema_p_sig() and sema_changepri() of semaphore.c).
THEOREM SemaphoreSafe == Spec => [](QueueOK /\ CountAccurate /\ NeverOvergranted)
<1>1. IInv => QueueOK /\ CountAccurate /\ NeverOvergranted
  BY DEF IInv
<1>2. QED
  BY <1>1, Invariance, PTL
------------------------------------------------------------------------------
(* Semaphore implements SemaphoreSpec if nobody calls sema_p_sig(). *)

Avail == IF s_count > 0 THEN s_count ELSE 0

Waiting == {t \in Threads : Asleep(t)}

\* Without sema_p_sig(), a negative s_count is the number of threads asleep.
QueueLength == ~panicstr => Len(s_slpq) = IF s_count < 0 THEN -s_count ELSE 0

\* Taking a unit or starting to wait is a step of SemaphoreSpec.
LEMMA AbstractAcquire ==
    ASSUME ~panicstr, NEW t \in Threads, t \notin Waiting, t \notin Owners,
           \/ Avail > 0 /\ Avail' = Avail - 1 /\ Owners' = Owners \cup {t} /\ Waiting' = Waiting
           \/ ~(Avail > 0) /\ Avail' = Avail /\ Owners' = Owners /\ Waiting' = Waiting \cup {t},
           UNCHANGED <<t_pri, panicstr>>
    PROVE  Abstract!ANext
<1>1. Abstract!Acquire(t)
  BY DEF Abstract!Acquire, Avail, Waiting
<1>2. QED
  BY <1>1 DEF Abstract!ANext

\* A unit goes to a waiter of the highest priority, or becomes available.
LEMMA AbstractHand ==
    ASSUME NEW O,
           \/ Waiting = {} /\ Avail' = Avail + 1 /\ Owners' = O /\ Waiting' = Waiting
           \/ \E h \in Waiting : /\ \A u \in Waiting : t_pri[u] <= t_pri[h]
                                /\ Waiting' = Waiting \ {h} /\ Owners' = O \cup {h}
                                /\ Avail' = Avail
    PROVE  Abstract!Hand(O)
BY DEF Abstract!Hand, Avail, Waiting

\* Giving a unit back is a step of SemaphoreSpec.
LEMMA AbstractRelease ==
    ASSUME ~panicstr, NEW t \in Threads, t \in Owners, Abstract!Hand(Owners \ {t}),
           UNCHANGED <<t_pri, panicstr>>
    PROVE  Abstract!ANext
<1>1. Abstract!Release(t)
  BY DEF Abstract!Release
<1>2. QED
  BY <1>1 DEF Abstract!ANext

\* Adding a unit is a step of SemaphoreSpec.
LEMMA AbstractProduce ==
    ASSUME ~panicstr, Abstract!Hand(Owners), UNCHANGED <<t_pri, panicstr>>
    PROVE  Abstract!ANext
BY DEF Abstract!ANext, Abstract!Produce

\* Using a unit up is a step of SemaphoreSpec.
LEMMA AbstractConsume ==
    ASSUME ~panicstr, NEW t \in Threads, t \in Owners, Owners' = Owners \ {t},
           Avail' = Avail, Waiting' = Waiting, UNCHANGED <<t_pri, panicstr>>
    PROVE  Abstract!ANext
<1>1. Abstract!Consume(t)
  BY DEF Abstract!Consume, Avail, Waiting
<1>2. QED
  BY <1>1 DEF Abstract!ANext

\* A change of priority is a step of SemaphoreSpec.
LEMMA AbstractReprioritize ==
    ASSUME ~panicstr, NEW t \in Threads, NEW p \in Pris, t_pri' = [t_pri EXCEPT ![t] = p],
           Avail' = Avail, Waiting' = Waiting, Owners' = Owners, UNCHANGED panicstr
    PROVE  Abstract!ANext
<1>1. Abstract!Reprioritize(t)
  BY DEF Abstract!Reprioritize, Avail, Waiting
<1>2. QED
  BY <1>1 DEF Abstract!ANext

\* A step that changes none of the mapped variables is a stutter.
LEMMA AbstractStutter ==
    ASSUME Avail' = Avail, Waiting' = Waiting, Owners' = Owners, UNCHANGED <<t_pri, panicstr>>
    PROVE  UNCHANGED Abstract!avars
BY DEF Abstract!avars, Avail, Waiting

\* SemaphoreSpec promises nothing of a system that has panicked.
LEMMA AbstractDown == panicstr' => Abstract!ANext
BY DEF Abstract!ANext

Maps == QueueLength' /\ (Abstract!ANext \/ UNCHANGED Abstract!avars)

\* What a step does is known from who sleeps and who owns a unit afterwards.
LEMMA WaitingSame ==
    ASSUME \A u : Asleep(u)' <=> Asleep(u)
    PROVE  Waiting' = Waiting
BY DEF Waiting

\* A step that leaves the semaphore alone.
LEMMA RefineQuiet ==
    ASSUME QueueLength, Owners' = Owners, \A u : Asleep(u)' <=> Asleep(u),
           UNCHANGED <<s_count, s_slpq, t_pri, panicstr>>
    PROVE  Maps
<1>1. Waiting' = Waiting /\ Avail' = Avail
  BY WaitingSame DEF Avail
<1>2. QueueLength'
  BY DEF QueueLength
<1>3. UNCHANGED Abstract!avars
  BY <1>1, AbstractStutter
<1>4. QED
  BY <1>2, <1>3 DEF Maps

\* A step that takes an available unit.
LEMMA RefineTake ==
    ASSUME IInv, QueueLength, ~panicstr, NEW t \in Threads, t \notin Owners, ~Asleep(t),
           s_count > 0, s_count' = s_count - 1, Owners' = Owners \cup {t},
           \A u : Asleep(u)' <=> Asleep(u), UNCHANGED <<s_slpq, t_pri, panicstr>>
    PROVE  Maps
<1>1. s_count \in Int
  BY Counts
<1>2. Avail > 0 /\ Avail' = Avail - 1
  BY SMTT(30), <1>1 DEF Avail
<1>3. QueueLength'
  BY SMTT(30), <1>1 DEF QueueLength
<1>4. Waiting' = Waiting /\ t \notin Waiting
  BY WaitingSame DEF Waiting
<1>5. Abstract!ANext
  BY <1>2, <1>4, AbstractAcquire
<1>6. QED
  BY <1>3, <1>5 DEF Maps

\* sema_p() maps to a step of SemaphoreSpec.
LEMMA RefineSemaP ==
    ASSUME IInv, QueueLength, ~panicstr, NEW t \in Threads, SemaP(t)
    PROVE  Maps
<1>1. ~Asleep(t) /\ t \notin Owners
  BY OutFacts DEF SemaP
<1>2. s_count' = units' - Cardinality(Inside') /\ s_count \in Int /\ s_count' = s_count - 1
  <2>1. Cardinality(Inside') = Cardinality(Inside) + 1
    BY Enters DEF IInv, SemaP
  <2>2. QED
    BY SMTT(30), <2>1, Counts DEF SemaP
<1>3. CASE s_count > 0
  <2>1. s_count' >= 0 /\ s_count' \in Int
    BY SMTT(30), <1>2, <1>3
  <2>2. Owners' = Owners \cup {t} /\ \A u : Asleep(u)' <=> Asleep(u)
    BY <1>1, <1>2, <1>3, <2>1, TakeStep DEF SemaP
  <2>3. UNCHANGED <<s_slpq, t_pri, panicstr>>
    BY <1>3 DEF SemaP
  <2>4. QED
    BY <1>1, <1>2, <1>3, <2>2, <2>3, RefineTake
<1>4. CASE ~(s_count > 0)
  <2>1. /\ Owners' = Owners /\ Len(s_slpq') = Len(s_slpq) + 1
        /\ \A u : Asleep(u)' <=> Asleep(u) \/ u = t
    BY <1>1, <1>2, <1>4, BlockStep DEF SemaP
  <2>2. Len(s_slpq) \in Nat
    BY SMTT(30) DEF IInv, Types
  <2>3. QueueLength'
    BY SMTT(30), <1>2, <1>4, <2>1, <2>2 DEF QueueLength, SemaP
  <2>4. ~(Avail > 0) /\ Avail' = Avail
    BY SMTT(30), <1>2, <1>4 DEF Avail
  <2>5. Waiting' = Waiting \cup {t} /\ t \notin Waiting
    BY <1>1, <2>1 DEF Waiting
  <2>6. Abstract!ANext
    BY <1>1, <2>1, <2>4, <2>5, AbstractAcquire DEF SemaP
  <2>7. QED
    BY <2>3, <2>6 DEF Maps
<1>5. QED
  BY <1>3, <1>4

\* sema_tryp() maps to a step of SemaphoreSpec or a stutter.
LEMMA RefineTryp ==
    ASSUME IInv, QueueLength, ~panicstr, NEW t \in Threads, SemaTryp(t)
    PROVE  Maps
<1>1. ~Asleep(t) /\ t \notin Owners
  BY OutFacts DEF SemaTryp
<1>2. /\ s_count' = units' - Cardinality(Inside')
      /\ s_count \in Int /\ s_count > 0 /\ s_count' = s_count - 1
  <2>1. Cardinality(Inside') = Cardinality(Inside) + 1
    BY Enters DEF IInv, SemaTryp
  <2>2. QED
    BY SMTT(30), <2>1, Counts DEF SemaTryp
<1>3. s_count' >= 0 /\ s_count' \in Int
  BY SMTT(30), <1>2
<1>4. Owners' = Owners \cup {t} /\ \A u : Asleep(u)' <=> Asleep(u)
  BY <1>1, <1>2, <1>3, TakeStep DEF SemaTryp
<1>5. QED
  BY <1>1, <1>2, <1>4, RefineTake DEF SemaTryp

\* PutUnit by an owner that leaves (L is its singleton) or from outside (L is
\* empty): a unit goes to the first of the queue or is kept.
LEMMA RefinePut ==
    ASSUME IInv, QueueLength, SigThreads = {}, ~panicstr, PutUnit, t_pri' = t_pri,
           NEW CONSTANT L \in SUBSET Threads, \A u \in L : pc[u] = "in" /\ pc'[u] = "out",
           \A u \in Threads \ L : pc'[u] = pc[u]
    PROVE  QueueLength' /\ panicstr' = panicstr /\ Abstract!Hand(Owners \ L)
<1>1. s_count \in Int /\ Len(s_slpq) \in Nat /\ s_slpq \in Seq(Threads)
  BY SMTT(30), Counts DEF IInv, Types
<1>2. CASE s_count < 0
  <2>1. s_slpq # <<>> /\ Len(s_slpq) = -s_count
    BY SMTT(30), <1>1, <1>2 DEF QueueLength
  <2>2. s_slpq' = Tail(s_slpq) /\ panicstr' = panicstr /\ s_count' = s_count + 1
    BY <1>2, <2>1 DEF PutUnit
  <2>3. PICK h : h = Head(s_slpq)
    OBVIOUS
  <2>4. /\ h \in Threads /\ Asleep(h) /\ pc[h] \in Sleeps
        /\ \A u : Asleep(u) => t_pri[u] <= t_pri[h]
        /\ \A u : Asleep(u)' <=> Asleep(u) /\ u # h
        /\ Len(s_slpq') = Len(s_slpq) - 1
        /\ pc[h] \in {"blocking", "swtch"} => Owners' = (Owners \ L) \cup {h}
    BY <2>1, <2>2, <2>3, HandedOver
  <2>5. Owners' = (Owners \ L) \cup {h}
    <3>1. pc[h] \in {"blocking", "swtch"}
      BY <2>4 DEF IInv, OwnStates, Sleeps
    <3>2. QED
      BY <2>4, <3>1
  <2>6. QueueLength'
    BY SMTT(30), <1>1, <1>2, <2>1, <2>2, <2>4 DEF QueueLength
  <2>7. Avail' = Avail
    BY SMTT(30), <1>1, <1>2, <2>2 DEF Avail
  <2>8. /\ h \in Waiting /\ \A u \in Waiting : t_pri[u] <= t_pri[h]
        /\ Waiting' = Waiting \ {h}
    BY <2>4 DEF Waiting
  <2>9. Abstract!Hand(Owners \ L)
    BY <2>5, <2>7, <2>8, AbstractHand
  <2>10. QED
    BY <2>2, <2>6, <2>9
<1>3. CASE ~(s_count < 0)
  <2>1. s_count' = s_count + 1 /\ UNCHANGED <<s_slpq, panicstr>> /\ Len(s_slpq) = 0
    BY <1>1, <1>3 DEF PutUnit, QueueLength
  <2>2. QueueLength' /\ Avail' = Avail + 1
    BY SMTT(30), <1>1, <1>3, <2>1 DEF QueueLength, Avail
  <2>3. \A u : ~Asleep(u) /\ ~Asleep(u)'
    BY SMTT(30), <1>1, <2>1 DEF Asleep, OnQueue
  <2>4. Waiting = {} /\ Waiting' = Waiting
    BY <2>3 DEF Waiting
  <2>5. Owners' = Owners \ L
    BY <2>3 DEF Owners
  <2>6. Abstract!Hand(Owners \ L)
    BY <2>2, <2>4, <2>5, AbstractHand
  <2>7. QED
    BY <2>1, <2>2, <2>6
<1>4. QED
  BY <1>2, <1>3

\* sema_v() maps to a step of SemaphoreSpec.
LEMMA RefineSemaV ==
    ASSUME IInv, QueueLength, SigThreads = {}, ~panicstr, NEW t \in Threads, SemaV(t)
    PROVE  Maps
<1>1. PICK L \in SUBSET Threads : L = {t}
  OBVIOUS
<1>2. /\ \A u \in L : pc[u] = "in" /\ pc'[u] = "out"
      /\ \A u \in Threads \ L : pc'[u] = pc[u]
  BY <1>1 DEF SemaV, IInv, Types
<1>3. PutUnit /\ t_pri' = t_pri /\ t \in Owners
  BY DEF SemaV, Owners
<1>4. QueueLength' /\ panicstr' = panicstr /\ Abstract!Hand(Owners \ L)
  BY <1>2, <1>3, RefinePut
<1>5. Abstract!ANext
  BY <1>1, <1>3, <1>4, AbstractRelease
<1>6. QED
  BY <1>4, <1>5 DEF Maps

\* sema_v() of an interrupt handler maps to a step of SemaphoreSpec.
LEMMA RefineAnnounce ==
    ASSUME IInv, QueueLength, SigThreads = {}, ~panicstr, Announce
    PROVE  Maps
<1>1. PICK L \in SUBSET Threads : L = {}
  OBVIOUS
<1>2. /\ \A u \in L : pc[u] = "in" /\ pc'[u] = "out"
      /\ \A u \in Threads \ L : pc'[u] = pc[u]
  BY <1>1 DEF Announce
<1>3. PutUnit /\ t_pri' = t_pri
  BY DEF Announce
<1>4. QueueLength' /\ panicstr' = panicstr /\ Abstract!Hand(Owners \ L)
  BY <1>2, <1>3, RefinePut
<1>5. Owners \ L = Owners
  BY <1>1
<1>6. Abstract!ANext
  BY <1>3, <1>4, <1>5, AbstractProduce
<1>7. QED
  BY <1>4, <1>6 DEF Maps

\* Using a unit up maps to a step of SemaphoreSpec.
LEMMA RefineConsume ==
    ASSUME IInv, QueueLength, ~panicstr, NEW t \in Threads, Consume(t)
    PROVE  Maps
<1>1. t \in Owners /\ Owners' = Owners \ {t} /\ \A u : Asleep(u)' <=> Asleep(u)
  BY ConsumeStep
<1>2. Waiting' = Waiting /\ Avail' = Avail /\ QueueLength'
  BY <1>1, WaitingSame DEF Avail, QueueLength, Consume
<1>3. Abstract!ANext
  BY <1>1, <1>2, AbstractConsume DEF Consume
<1>4. QED
  BY <1>2, <1>3 DEF Maps

\* sema_changepri() maps to a step of SemaphoreSpec.
LEMMA RefineChangepri ==
    ASSUME IInv, QueueLength, ~panicstr, NEW t \in Threads, NEW p \in Pris, SemaChangepri(t, p)
    PROVE  Maps
<1>1. /\ Owners' = Owners /\ Len(s_slpq') = Len(s_slpq)
      /\ \A u : Asleep(u)' <=> Asleep(u)
  BY ChangepriStep
<1>2. Waiting' = Waiting /\ Avail' = Avail /\ QueueLength'
  BY <1>1, WaitingSame DEF Avail, QueueLength, SemaChangepri
<1>3. Abstract!ANext
  BY <1>1, <1>2, AbstractReprioritize DEF SemaChangepri
<1>4. QED
  BY <1>2, <1>3 DEF Maps

\* Every step maps to a step of SemaphoreSpec or a stutter.
LEMMA RefineNext ==
    ASSUME IInv, QueueLength, SigThreads = {}, [Next]_vars
    PROVE  Maps
<1>1. CASE panicstr'
  BY <1>1, AbstractDown DEF Maps, QueueLength
<1>2. CASE ~panicstr'
  <2>1. ASSUME NEW t \in Threads, EnterDriver(t) \/ LeaveDriver(t) PROVE Maps
    <3>1. UNCHANGED <<s_count, s_slpq, t_pri, pc, panicstr>>
      BY <2>1 DEF EnterDriver, LeaveDriver
    <3>2. Owners' = Owners /\ \A u : Asleep(u)' <=> Asleep(u)
      BY <3>1 DEF Owners, Asleep
    <3>3. QED
      BY <3>1, <3>2, RefineQuiet
  <2>2. ASSUME NEW t \in Threads, Swtch(t) \/ Resume(t) PROVE Maps
    <3>1. UNCHANGED <<s_count, s_slpq, t_pri, panicstr>>
      BY <2>2 DEF Swtch, Resume
    <3>2. Owners' = Owners /\ \A u : Asleep(u)' <=> Asleep(u)
      BY <2>2, SwtchStep, ResumeStep
    <3>3. QED
      BY <3>1, <3>2, RefineQuiet
  <2>3. ASSUME NEW t \in Threads,
               SemaPSig(t) \/ SwtchSig(t) \/ ResumeSig(t) \/ Undo(t) \/ Retry(t) \/ Signal(t)
        PROVE  FALSE
    BY <2>3 DEF SemaPSig, SwtchSig, ResumeSig, Undo, Retry, Signal, IInv, OwnStates
  <2>4. ASSUME NEW t \in Threads, SemaP(t) \/ SemaTryp(t) PROVE Maps
    <3>1. ~panicstr
      BY <1>2, <2>4 DEF SemaP, SemaTryp
    <3>2. QED
      BY <2>4, <3>1, RefineSemaP, RefineTryp
  <2>5. ASSUME NEW t \in Threads, SemaV(t) PROVE Maps
    <3>1. ~panicstr
      BY <1>2, <2>5 DEF SemaV, PutUnit
    <3>2. QED
      BY <2>5, <3>1, RefineSemaV
  <2>6. ASSUME NEW t \in Threads, Consume(t) PROVE Maps
    <3>1. ~panicstr
      BY <1>2, <2>6 DEF Consume
    <3>2. QED
      BY <2>6, <3>1, RefineConsume
  <2>7. ASSUME NEW t \in Threads, NEW p \in Pris, SemaChangepri(t, p) PROVE Maps
    <3>1. ~panicstr
      BY <1>2, <2>7 DEF SemaChangepri
    <3>2. QED
      BY <2>7, <3>1, RefineChangepri
  <2>8. CASE Announce
    <3>1. ~panicstr
      BY <1>2, <2>8 DEF Announce, PutUnit
    <3>2. QED
      BY <2>8, <3>1, RefineAnnounce
  <2>9. CASE UNCHANGED vars
    <3>1. UNCHANGED <<s_count, s_slpq, t_pri, pc, panicstr>>
      BY <2>9 DEF vars
    <3>2. Owners' = Owners /\ \A u : Asleep(u)' <=> Asleep(u)
      BY <3>1 DEF Owners, Asleep
    <3>3. QED
      BY <3>1, <3>2, RefineQuiet
  <2>10. ~Panic
    BY <1>2 DEF Panic
  <2>11. ASSUME NEW t \in Threads, Step(t) PROVE Maps
    BY <2>2, <2>3, <2>4, <2>5, <2>6, <2>11 DEF Step
  <2>12. QED
    BY <2>1, <2>3, <2>7, <2>8, <2>9, <2>10, <2>11 DEF Next
<1>3. QED
  BY <1>1, <1>2

\* A new semaphore maps to the initial state of SemaphoreSpec.
LEMMA RefineInit ==
    ASSUME Init
    PROVE  QueueLength /\ Abstract!AInit
<1>1. \A u : ~Asleep(u)
  BY SMTT(30) DEF Init, Asleep, OnQueue
<1>2. Waiting = {} /\ Owners = {}
  BY <1>1 DEF Init, Waiting, Owners
<1>3. InitCount \in Nat
  BY SMTT(30), SemaAssumption
<1>4. Avail = InitCount /\ QueueLength
  BY SMTT(30), <1>3 DEF Init, Avail, QueueLength
<1>5. QED
  BY <1>2, <1>4 DEF Init, Abstract!AInit, Avail, Waiting

\* As long as nobody calls sema_p_sig(), sema_p(), sema_tryp(), sema_v() and
\* sema_changepri() give what SemaphoreSpec promises: a unit that comes back goes
\* to a waiting thread of the highest priority, and the count is never positive
\* while a thread waits.
THEOREM SemaphoreRefinement ==
    ASSUME SigThreads = {}
    PROVE  Spec => Implements
<1>1. Init => QueueLength /\ Abstract!AInit
  BY RefineInit
<1>2. IInv /\ QueueLength /\ [Next]_vars
        => QueueLength' /\ (Abstract!ANext \/ UNCHANGED Abstract!avars)
  BY RefineNext DEF Maps
<1>3. QED
  BY <1>1, <1>2, Invariance, PTL DEF Spec, Implements, Abstract!ASpec

\* sema_v() cannot meet the empty queue it panics for, as long as nobody calls
\* sema_p_sig(): a semaphore does not bring the system down by itself.
THEOREM NoPanic ==
    ASSUME SigThreads = {}, ~Panics
    PROVE  Spec => []NeverPanics
<1>1. Init => QueueLength /\ NeverPanics
  BY RefineInit DEF Init, NeverPanics
<1>2. IInv /\ QueueLength /\ [Next]_vars => QueueLength'
  BY RefineNext DEF Maps
<1>3. IInv /\ QueueLength /\ NeverPanics /\ [Next]_vars => NeverPanics'
  <2> SUFFICES ASSUME IInv, QueueLength, ~panicstr, [Next]_vars PROVE ~panicstr'
    BY DEF NeverPanics
  <2>1. s_count \in Int /\ s_slpq \in Seq(Threads)
    BY Counts DEF IInv, Types
  <2>2. PutUnit => panicstr' = panicstr
    BY SMTT(30), <2>1 DEF PutUnit, QueueLength
  <2>3. ASSUME NEW t \in Threads, Step(t) PROVE panicstr' = panicstr
    BY <2>2, <2>3 DEF Step, SemaP, Swtch, Resume, SemaPSig, SwtchSig, ResumeSig, Undo,
       Retry, SemaTryp, SemaV, Consume
  <2>4. QED
    BY <2>2, <2>3 DEF Next, EnterDriver, LeaveDriver, Signal, SemaChangepri, Announce,
       Panic, vars
<1>4. QED
  BY <1>1, <1>2, <1>3, Invariance, PTL DEF Spec
==============================================================================
