---------------------------- MODULE RWLockProofs -----------------------------
(* The invariants of a readers/writer lock. *)
EXTENDS RWLock, SleepQLaws, TLAPS

USE ZenonT(40)

\* No priority is that of a thread that inherits nothing, and the users of the
\* lock have the laws of finite sets and of sleep queues (see RwLawsHold).
RwLaws ==
    /\ None \notin Users /\ Pris \subseteq Nat \ {0}
    /\ FiniteLaws(Users) /\ QueueLaws(Users)

Hold == {"amend", "held", "tried", "wakeup"}

Thr == [pc : Hold \cup {"out", "block", "sleep", "retry", "exit"}, rw : {R, W}]

Wanting == {t \in Users : thr[t].rw = W /\ thr[t].pc \in {"block", "sleep", "retry"}}

\* TypeOK without the ranges of the counters, which follow from the rest.
Types ==
    /\ owner \in Users \cup {None} /\ mp \in Users \cup {None}
    /\ waiters \in BOOLEAN
    /\ tsq \in [{R, W} -> Seq(Users)]
    /\ pirec \in [benef : Users \cup {None}, pri : Pris \cup {0}]
    /\ t_pri \in [Users -> Pris]
    /\ thr \in [Users -> Thr]
    /\ \A t \in Users : /\ thr[t].pc = "amend" => thr[t].rw = W
                        /\ thr[t].pc = "wakeup" => thr[t].rw = R

\* The queues are in order, and those asleep for rw are on the queue for rw.
Queues ==
    /\ \A rw \in {R, W} : Sorted(tsq[rw], t_pri) /\ IsInjective(tsq[rw])
    /\ \A rw \in {R, W} : \A t \in Users :
          OnQueue(tsq[rw], t) <=> thr[t].pc = "sleep" /\ thr[t].rw = rw

\* rw_exit() has mp while it wakes others, and nobody becomes a writer meanwhile.
MutexHeld ==
    /\ \A t \in Users : thr[t].pc = "exit" <=> mp = t
    /\ mp # None => holdcnt >= 0

\* writewanted counts the writers between "writewanted++" and "writewanted--".
WantExact == writewanted = Cardinality(Wanting)

\* A reader that leaves others asleep knows of a writer, or of a rw_downgrade()
\* that has yet to wake them.
ReadersWarned ==
    \A t \in Users :
       thr[t].pc = "exit" /\ thr[t].rw = R /\ tsq[R] # <<>>
          => writewanted > 0 \/ \E u \in Users : thr[u].pc = "wakeup"

\* The owner of record has the lock or is a reader in rw_exit(); a writer is.
OwnerRecorded ==
    /\ owner # None => \/ thr[owner].pc \in Hold
                       \/ thr[owner].pc = "exit" /\ thr[owner].rw = R
    /\ \A t \in Holding(W) : owner = t

\* Who inherits is the owner of record, or a writer in rw_exit(), and inherits
\* more than its own priority from somebody in the turnstile.
PirecSound ==
    pirec.benef # None =>
       /\ waiters
       /\ \/ pirec.benef = owner
          \/ thr[pirec.benef].pc = "exit" /\ thr[pirec.benef].rw = W
       /\ pirec.pri > t_pri[pirec.benef]

\* A writer that has called pi_amend() inherits from readers of higher priority.
Inherits ==
    \A t, r \in Users :
       /\ thr[t].pc = "held" /\ thr[t].rw = W
       /\ thr[r].pc = "sleep" /\ thr[r].rw = R /\ t_pri[t] < t_pri[r]
       => pirec.benef = t

IInv ==
    /\ Types /\ Queues /\ MutexHeld /\ HoldcntExact /\ WantExact
    /\ NoneStranded /\ ReadersWarned /\ TurnstileReturned
    /\ OwnerRecorded /\ PirecSound /\ Inherits

\* IInv, folded: the lemmas are stated with it and unfold it once.
Inv == IInv
------------------------------------------------------------------------------
(* The threads: t goes to x, for rw, and those of S are woken. *)

Becomes(t, S, x, rw) ==
    /\ thr' \in [Users -> Thr]
    /\ thr'[t].pc = x /\ thr'[t].rw = rw
    /\ \A u \in Users \ {t} :
          /\ thr'[u].rw = thr[u].rw
          /\ thr'[u].pc = IF u \in S THEN "retry" ELSE thr[u].pc

\* The two ways to hold a lock.
LEMMA RW == R # W /\ R \in {R, W} /\ W \in {R, W}
BY DEF R, W

USE RW

\* A step that sets the record of one thread.
LEMMA BecomesOne ==
    ASSUME thr \in [Users -> Thr], NEW t \in Users, NEW x, NEW rw \in {R, W},
           [pc |-> x, rw |-> rw] \in Thr,
           thr' = [thr EXCEPT ![t] = [pc |-> x, rw |-> rw]]
    PROVE  Becomes(t, {}, x, rw)
BY DEF Becomes

\* A step that moves one thread.
LEMMA BecomesPc ==
    ASSUME thr \in [Users -> Thr], NEW t \in Users,
           NEW x \in Hold \cup {"out", "block", "sleep", "retry", "exit"},
           Goto(t, x)
    PROVE  Becomes(t, {}, x, thr[t].rw)
BY DEF Becomes, Goto, Thr

\* A step that moves one thread and wakes others.
LEMMA BecomesWake ==
    ASSUME thr \in [Users -> Thr], NEW t \in Users,
           NEW x \in Hold \cup {"out", "block", "sleep", "retry", "exit"},
           NEW S, t \notin S,
           thr' = Wake(S, [thr EXCEPT ![t].pc = x])
    PROVE  Becomes(t, S, x, thr[t].rw)
BY DEF Becomes, Wake, Thr

\* The types after t leaves the lock and those of S are woken.
LEMMA TypesOut ==
    ASSUME Types, NEW t \in Users, NEW S, NEW rw, Becomes(t, S, "out", rw),
           owner' \in Users \cup {None}, mp' \in Users \cup {None}, waiters' \in BOOLEAN,
           tsq' \in [{R, W} -> Seq(Users)], t_pri' = t_pri,
           pirec' \in [benef : Users \cup {None}, pri : Pris \cup {0}]
    PROVE  Types'
<1>1. ASSUME NEW u \in Users
      PROVE  /\ thr'[u].pc = "amend" => thr'[u].rw = W
             /\ thr'[u].pc = "wakeup" => thr'[u].rw = R
  BY DEF Types, Becomes
<1>2. thr' \in [Users -> Thr] /\ t_pri' \in [Users -> Pris]
  BY DEF Types, Becomes
<1>3. QED
  BY <1>1, <1>2 DEF Types

\* Who holds the lock after a step.
LEMMA HoldingAfter ==
    ASSUME NEW t \in Users, NEW S, NEW x, NEW rw, Becomes(t, S, x, rw),
           \A u \in S : thr[u].pc = "sleep",
           NEW q
    PROVE  /\ x \in Hold /\ rw = q => Holding(q)' = Holding(q) \cup {t}
           /\ ~(x \in Hold /\ rw = q) => Holding(q)' = Holding(q) \ {t}
<1>1. \A u \in Users \ {t} : u \in Holding(q)' <=> u \in Holding(q)
  BY DEF Becomes, Holding
<1>2. t \in Holding(q)' <=> x \in Hold /\ rw = q
  BY DEF Becomes, Holding, Hold
<1>3. Holding(q) \subseteq Users /\ Holding(q)' \subseteq Users
  BY DEF Holding
<1>4. QED
  BY <1>1, <1>2, <1>3

\* Which writers want the lock after a step.
LEMMA WantingAfter ==
    ASSUME NEW t \in Users, NEW S, NEW x, NEW rw, Becomes(t, S, x, rw),
           \A u \in S : thr[u].pc = "sleep"
    PROVE  /\ x \in {"block", "sleep", "retry"} /\ rw = W => Wanting' = Wanting \cup {t}
           /\ ~(x \in {"block", "sleep", "retry"} /\ rw = W) => Wanting' = Wanting \ {t}
<1>1. \A u \in Users \ {t} : u \in Wanting' <=> u \in Wanting
  BY DEF Becomes, Wanting
<1>2. t \in Wanting' <=> x \in {"block", "sleep", "retry"} /\ rw = W
  BY DEF Becomes, Wanting
<1>3. Wanting \subseteq Users /\ Wanting' \subseteq Users
  BY DEF Wanting
<1>4. QED
  BY <1>1, <1>2, <1>3
------------------------------------------------------------------------------
(* What the counters and the queues say of the threads *)

\* Counting threads: the laws of cardinality for sets of users.
LEMMA FiniteUsers ==
    ASSUME RwLaws, NEW S \in SUBSET Users
    PROVE  /\ Cardinality(S) \in Nat /\ (Cardinality(S) = 0 <=> S = {})
           /\ Cardinality(S) = 1 => \E x \in Users : S = {x}
           /\ \A x \in Users \ S : Cardinality(S \cup {x}) = Cardinality(S) + 1
           /\ \A U \in SUBSET S : Cardinality(U) <= Cardinality(S)
           /\ Cardinality({}) = 0
BY DEF RwLaws, FiniteLaws

\* A thread more, a thread less, and one thread.
LEMMA CountUsers ==
    ASSUME RwLaws, NEW S \in SUBSET Users, NEW t \in Users
    PROVE  /\ t \notin S => Cardinality(S \cup {t}) = Cardinality(S) + 1
           /\ t \in S => Cardinality(S \ {t}) = Cardinality(S) - 1
           /\ Cardinality({t}) = 1
<1>1. t \notin S => Cardinality(S \cup {t}) = Cardinality(S) + 1
  BY FiniteUsers
<1>2. ASSUME t \in S PROVE Cardinality(S \ {t}) = Cardinality(S) - 1
  <2>1. PICK U \in SUBSET Users : U = S \ {t}
    OBVIOUS
  <2>2. t \notin U /\ U \cup {t} = S
    BY <1>2, <2>1
  <2>3. Cardinality(S) = Cardinality(U) + 1 /\ Cardinality(U) \in Nat
    BY <2>2, FiniteUsers
  <2>4. QED
    BY SMTT(30), <2>1, <2>3
<1>3. Cardinality({t}) = 1
  <2>1. PICK U \in SUBSET Users : U = {}
    OBVIOUS
  <2>2. Cardinality(U \cup {t}) = Cardinality(U) + 1 /\ Cardinality(U) = 0 /\ U \cup {t} = {t}
    BY <2>1, FiniteUsers
  <2>3. QED
    BY SMTT(30), <2>2
<1>4. QED
  BY <1>1, <1>2, <1>3

\* sleepq_insert(), sleepq_dequeue() and the first thread of a queue.
LEMMA UserInserted ==
    ASSUME RwLaws, NEW q \in Seq(Users), NEW pri \in [Users -> Int], NEW t \in Users
    PROVE  /\ SleepqInsert(q, pri, t) \in Seq(Users)
           /\ \A u : OnQueue(SleepqInsert(q, pri, t), u) <=> OnQueue(q, u) \/ u = t
           /\ ~OnQueue(q, t) /\ IsInjective(q) => IsInjective(SleepqInsert(q, pri, t))
           /\ Sorted(q, pri) => Sorted(SleepqInsert(q, pri, t), pri)
BY DEF RwLaws, QueueLaws, InsertLaw

\* What sleepq_dequeue() leaves of a queue.
LEMMA UserDequeued ==
    ASSUME RwLaws, NEW q \in Seq(Users), NEW t \in Users, IsInjective(q)
    PROVE  /\ SleepqDequeue(q, t) \in Seq(Users)
           /\ \A u : OnQueue(SleepqDequeue(q, t), u) <=> OnQueue(q, u) /\ u # t
           /\ IsInjective(SleepqDequeue(q, t))
           /\ \A pri \in [Users -> Int] :
                 Sorted(q, pri) => Sorted(SleepqDequeue(q, t), pri)
BY DEF RwLaws, QueueLaws, DequeueLaw

\* What taking the first thread leaves of a queue.
LEMMA FirstUser ==
    ASSUME RwLaws, NEW q \in Seq(Users), q # <<>>, IsInjective(q)
    PROVE  /\ Head(q) \in Users /\ Tail(q) \in Seq(Users) /\ OnQueue(q, Head(q))
           /\ \A u : OnQueue(Tail(q), u) <=> OnQueue(q, u) /\ u # Head(q)
           /\ IsInjective(Tail(q))
           /\ \A pri \in [Users -> Int] : Sorted(q, pri) =>
                 /\ Sorted(Tail(q), pri)
                 /\ \A u : OnQueue(q, u) => pri[u] <= pri[Head(q)]
BY DEF RwLaws, QueueLaws, TailLaw

\* What holdcnt tells of the holders.
LEMMA HoldFacts ==
    ASSUME RwLaws, HoldcntExact
    PROVE  /\ holdcnt \in Int /\ holdcnt >= -1
           /\ \A t \in Holding(W) : holdcnt = -1 /\ Holding(W) = {t} /\ Holding(R) = {}
           /\ \A t \in Holding(R) : holdcnt > 0 /\ (holdcnt = 1 => Holding(R) = {t})
           /\ holdcnt >= 0 => Holding(W) = {} /\ holdcnt = Cardinality(Holding(R))
           /\ holdcnt = 0 => Holding(R) = {}
           /\ holdcnt < 0 => Holding(R) = {} /\ \E t \in Users : Holding(W) = {t}
<1>1. Holding(R) \in SUBSET Users /\ Holding(W) \in SUBSET Users
  BY DEF Holding
<1>2. /\ Cardinality(Holding(R)) \in Nat
      /\ Cardinality(Holding(R)) = 0 <=> Holding(R) = {}
  BY <1>1, FiniteUsers
<1>3. Cardinality(Holding(R)) = 1 => \E x \in Users : Holding(R) = {x}
  BY <1>1, FiniteUsers
<1>4. Cardinality(Holding(W)) = 1 => \E x \in Users : Holding(W) = {x}
  BY <1>1, FiniteUsers
<1>5. CASE Holding(W) = {} /\ holdcnt = Cardinality(Holding(R))
  BY SMTT(30), <1>2, <1>3, <1>5
<1>6. CASE Holding(R) = {} /\ Cardinality(Holding(W)) = 1 /\ holdcnt = -1
  BY SMTT(30), <1>1, <1>4, <1>6
<1>7. QED
  BY <1>5, <1>6 DEF HoldcntExact

\* holdcnt stays exact if it changes as the holders do.
LEMMA HoldcntAfter ==
    ASSUME RwLaws, HoldcntExact, NEW t \in Users,
           \/ /\ t \in Users \ Holding(R) /\ Holding(W)' = {} /\ holdcnt >= 0
              /\ Holding(R)' = Holding(R) \cup {t} /\ holdcnt' = holdcnt + 1
           \/ Holding(R)' = {} /\ Holding(W)' = {t} /\ holdcnt' = -1
           \/ Holding(R)' = {t} /\ Holding(W)' = {} /\ holdcnt' = 1
           \/ Holding(R)' = {} /\ Holding(W)' = {} /\ holdcnt' = 0
           \/ /\ t \in Holding(R) /\ Holding(W)' = {}
              /\ Holding(R)' = Holding(R) \ {t} /\ holdcnt' = holdcnt - 1
           \/ Holding(R)' = Holding(R) /\ Holding(W)' = Holding(W) /\ holdcnt' = holdcnt
    PROVE  HoldcntExact'
<1>1. Holding(R) \in SUBSET Users
  BY DEF Holding
<1>2. Cardinality(Holding(R)) \in Nat
  BY <1>1, FiniteUsers
<1>3. CASE /\ t \in Users \ Holding(R) /\ Holding(W)' = {} /\ holdcnt >= 0
           /\ Holding(R)' = Holding(R) \cup {t} /\ holdcnt' = holdcnt + 1
  <2>1. Cardinality(Holding(R)') = Cardinality(Holding(R)) + 1
    BY <1>1, <1>3, CountUsers
  <2>2. QED
    BY <1>3, <2>1, HoldFacts DEF HoldcntExact
<1>4. CASE Holding(R)' = {} /\ Holding(W)' = {t} /\ holdcnt' = -1
  BY <1>1, <1>4, CountUsers DEF HoldcntExact
<1>5. CASE Holding(R)' = {t} /\ Holding(W)' = {} /\ holdcnt' = 1
  BY <1>1, <1>5, CountUsers DEF HoldcntExact
<1>6. CASE Holding(R)' = {} /\ Holding(W)' = {} /\ holdcnt' = 0
  BY <1>1, <1>6, FiniteUsers DEF HoldcntExact
<1>7. CASE /\ t \in Holding(R) /\ Holding(W)' = {}
           /\ Holding(R)' = Holding(R) \ {t} /\ holdcnt' = holdcnt - 1
  <2>1. Cardinality(Holding(R)') = Cardinality(Holding(R)) - 1
    BY <1>1, <1>7, CountUsers
  <2>2. holdcnt = Cardinality(Holding(R))
    BY SMTT(30), <1>7, HoldFacts
  <2>3. QED
    BY <1>7, <2>1, <2>2 DEF HoldcntExact
<1>8. CASE Holding(R)' = Holding(R) /\ Holding(W)' = Holding(W) /\ holdcnt' = holdcnt
  BY <1>8 DEF HoldcntExact
<1>9. QED
  BY <1>3, <1>4, <1>5, <1>6, <1>7, <1>8

\* writewanted is zero if and only if no writer wants the lock.
LEMMA WantFacts ==
    ASSUME RwLaws, WantExact
    PROVE  writewanted \in Nat /\ (writewanted = 0 <=> Wanting = {})
<1>1. Wanting \in SUBSET Users
  BY DEF Wanting
<1>2. QED
  BY <1>1, FiniteUsers DEF WantExact

\* writewanted stays exact if it changes as the writers do.
LEMMA WantAfter ==
    ASSUME RwLaws, WantExact, NEW t \in Users,
           \/ t \notin Wanting /\ Wanting' = Wanting \cup {t} /\ writewanted' = writewanted + 1
           \/ t \in Wanting /\ Wanting' = Wanting \ {t} /\ writewanted' = writewanted - 1
           \/ Wanting' = Wanting /\ writewanted' = writewanted
    PROVE  WantExact'
<1>1. Wanting \in SUBSET Users
  BY DEF Wanting
<1>2. Cardinality(Wanting) \in Nat
  BY <1>1, FiniteUsers
<1>3. CASE t \notin Wanting /\ Wanting' = Wanting \cup {t} /\ writewanted' = writewanted + 1
  <2>1. Cardinality(Wanting') = Cardinality(Wanting) + 1
    BY <1>1, <1>3, CountUsers
  <2>2. QED
    BY <1>3, <2>1 DEF WantExact
<1>4. CASE t \in Wanting /\ Wanting' = Wanting \ {t} /\ writewanted' = writewanted - 1
  <2>1. Cardinality(Wanting') = Cardinality(Wanting) - 1
    BY <1>1, <1>4, CountUsers
  <2>2. QED
    BY <1>4, <2>1 DEF WantExact
<1>5. CASE Wanting' = Wanting /\ writewanted' = writewanted
  BY <1>5 DEF WantExact
<1>6. QED
  BY <1>3, <1>4, <1>5

\* A queue is empty just when nobody sleeps for its rw.
LEMMA QueueFacts ==
    ASSUME Types, Queues, NEW rw \in {R, W}
    PROVE  /\ tsq[rw] \in Seq(Users)
           /\ tsq[rw] # <<>> => /\ Head(tsq[rw]) \in Users
                               /\ thr[Head(tsq[rw])].pc = "sleep"
                               /\ thr[Head(tsq[rw])].rw = rw
           /\ \A t \in Users : thr[t].pc = "sleep" /\ thr[t].rw = rw => tsq[rw] # <<>>
           /\ \A t \in Range(tsq[rw]) : t \in Users /\ thr[t].pc = "sleep" /\ thr[t].rw = rw
           /\ \A t \in Users : thr[t].pc = "sleep" /\ thr[t].rw = rw => t \in Range(tsq[rw])
<1>1. tsq[rw] \in Seq(Users)
  BY DEF Types
<1>2. \A t \in Users : OnQueue(tsq[rw], t) <=> thr[t].pc = "sleep" /\ thr[t].rw = rw
  BY DEF Queues
<1>3. \A t : t \in Range(tsq[rw]) <=> OnQueue(tsq[rw], t)
  BY DEF Range, OnQueue
<1>4. \A t : OnQueue(tsq[rw], t) => tsq[rw] # <<>> /\ t \in Users
  BY SMTT(30), <1>1 DEF OnQueue
<1>5. tsq[rw] # <<>> => Head(tsq[rw]) \in Users /\ OnQueue(tsq[rw], Head(tsq[rw]))
  <2>1. SUFFICES ASSUME tsq[rw] # <<>> PROVE Head(tsq[rw]) \in Users /\ OnQueue(tsq[rw], Head(tsq[rw]))
    OBVIOUS
  <2>2. 1 \in DOMAIN tsq[rw] /\ Head(tsq[rw]) = tsq[rw][1] /\ tsq[rw][1] \in Users
    BY SMTT(30), <1>1, <2>1
  <2>3. QED
    BY <2>2 DEF OnQueue
<1>6. QED
  BY <1>1, <1>2, <1>3, <1>4, <1>5

\* Priorities are numbers.
LEMMA Priorities == RwLaws /\ Types => t_pri \in [Users -> Int]
<1>1. RwLaws => Pris \subseteq Int
  BY SMTT(30) DEF RwLaws
<1>2. QED
  BY <1>1 DEF Types

\* A step of a thread that is not asleep keeps the queues sound.
LEMMA QueuesSame ==
    ASSUME Types, Queues, NEW t \in Users, NEW x, NEW rw, Becomes(t, {}, x, rw),
           thr[t].pc # "sleep", x # "sleep", UNCHANGED <<tsq, t_pri>>
    PROVE  Queues'
<1>1. \A q \in {R, W} : Sorted(tsq[q], t_pri)' /\ IsInjective(tsq[q])'
  BY DEF Queues
<1>2. \A q \in {R, W} : \A u \in Users :
         OnQueue(tsq[q], u)' <=> thr'[u].pc = "sleep" /\ thr'[u].rw = q
  BY DEF Queues, Becomes
<1>3. QED
  BY <1>1, <1>2 DEF Queues

\* One queue changes from tsq[rw] to q.
LEMMA QueuesOne ==
    ASSUME Types, Queues, NEW rw \in {R, W}, NEW q \in Seq(Users),
           tsq' = [tsq EXCEPT ![rw] = q], t_pri' = t_pri,
           Sorted(q, t_pri), IsInjective(q),
           \A u \in Users : OnQueue(q, u) <=> thr'[u].pc = "sleep" /\ thr'[u].rw = rw,
           \A u \in Users : (thr'[u].pc = "sleep" /\ thr'[u].rw # rw)
                               <=> (thr[u].pc = "sleep" /\ thr[u].rw # rw),
           \A u \in Users : thr[u].pc = "sleep" /\ thr[u].rw # rw => thr'[u].rw = thr[u].rw
    PROVE  Queues' /\ tsq' \in [{R, W} -> Seq(Users)]
<1>1. tsq' \in [{R, W} -> Seq(Users)] /\ tsq'[rw] = q
      /\ \A o \in {R, W} \ {rw} : tsq'[o] = tsq[o]
  BY DEF Types
<1>2. ASSUME NEW o \in {R, W}
      PROVE  /\ Sorted(tsq'[o], t_pri') /\ IsInjective(tsq'[o])
             /\ \A u \in Users : OnQueue(tsq'[o], u) <=> thr'[u].pc = "sleep" /\ thr'[u].rw = o
  <2>1. CASE o = rw
    BY <1>1, <2>1
  <2>2. CASE o # rw
    <3>1. /\ Sorted(tsq[o], t_pri) /\ IsInjective(tsq[o])
          /\ \A u \in Users : OnQueue(tsq[o], u) <=> thr[u].pc = "sleep" /\ thr[u].rw = o
      BY DEF Queues
    <3>2. tsq'[o] = tsq[o]
      BY <1>1, <2>2
    <3>3. \A u \in Users : (thr'[u].pc = "sleep" /\ thr'[u].rw = o)
                           <=> (thr[u].pc = "sleep" /\ thr[u].rw = o)
      BY <2>2
    <3>4. QED
      BY <3>1, <3>2, <3>3
  <2>3. QED
    BY <2>1, <2>2
<1>3. QED
  BY <1>1, <1>2 DEF Queues

\* Going to sleep keeps the queues sound.
LEMMA QueuesInsert ==
    ASSUME RwLaws, Types, Queues, NEW t \in Users, NEW rw \in {R, W}, rw = thr[t].rw,
           Becomes(t, {}, "sleep", rw), thr[t].pc # "sleep", t_pri' = t_pri,
           tsq' = [tsq EXCEPT ![rw] = SleepqInsert(@, t_pri, t)]
    PROVE  Queues' /\ tsq' \in [{R, W} -> Seq(Users)]
<1> DEFINE q == SleepqInsert(tsq[rw], t_pri, t)
<1>1. /\ tsq[rw] \in Seq(Users) /\ t_pri \in [Users -> Int]
      /\ Sorted(tsq[rw], t_pri) /\ IsInjective(tsq[rw])
      /\ \A u \in Users : OnQueue(tsq[rw], u) <=> thr[u].pc = "sleep" /\ thr[u].rw = rw
  BY Priorities DEF Types, Queues
<1>2. ~OnQueue(tsq[rw], t)
  BY <1>1
<1>3. /\ q \in Seq(Users) /\ IsInjective(q) /\ Sorted(q, t_pri)
      /\ \A u : OnQueue(q, u) <=> OnQueue(tsq[rw], u) \/ u = t
  BY <1>1, <1>2, UserInserted
<1>4. tsq' = [tsq EXCEPT ![rw] = q]
  OBVIOUS
<1> HIDE DEF q
<1>5. \A u \in Users : OnQueue(q, u) <=> thr'[u].pc = "sleep" /\ thr'[u].rw = rw
  BY <1>1, <1>3 DEF Becomes
<1>6. /\ \A u \in Users : (thr'[u].pc = "sleep" /\ thr'[u].rw # rw)
                            <=> (thr[u].pc = "sleep" /\ thr[u].rw # rw)
      /\ \A u \in Users : thr[u].pc = "sleep" /\ thr[u].rw # rw => thr'[u].rw = thr[u].rw
  BY DEF Becomes
<1>7. QED
  BY <1>3, <1>4, <1>5, <1>6, QueuesOne

\* Being taken off a queue keeps the queues sound.
LEMMA QueuesDequeue ==
    ASSUME RwLaws, Types, Queues, NEW t \in Users, NEW rw \in {R, W}, rw = thr[t].rw,
           Becomes(t, {}, "retry", rw), thr[t].pc = "sleep", t_pri' = t_pri,
           tsq' = [tsq EXCEPT ![rw] = SleepqDequeue(@, t)]
    PROVE  Queues' /\ tsq' \in [{R, W} -> Seq(Users)]
<1> DEFINE q == SleepqDequeue(tsq[rw], t)
<1>1. /\ tsq[rw] \in Seq(Users) /\ t_pri \in [Users -> Int]
      /\ Sorted(tsq[rw], t_pri) /\ IsInjective(tsq[rw])
      /\ \A u \in Users : OnQueue(tsq[rw], u) <=> thr[u].pc = "sleep" /\ thr[u].rw = rw
  BY Priorities DEF Types, Queues
<1>2. /\ q \in Seq(Users) /\ IsInjective(q) /\ Sorted(q, t_pri)
      /\ \A u : OnQueue(q, u) <=> OnQueue(tsq[rw], u) /\ u # t
  BY <1>1, UserDequeued
<1>3. tsq' = [tsq EXCEPT ![rw] = q]
  OBVIOUS
<1> HIDE DEF q
<1>4. \A u \in Users : OnQueue(q, u) <=> thr'[u].pc = "sleep" /\ thr'[u].rw = rw
  BY <1>1, <1>2 DEF Becomes
<1>5. /\ \A u \in Users : (thr'[u].pc = "sleep" /\ thr'[u].rw # rw)
                            <=> (thr[u].pc = "sleep" /\ thr[u].rw # rw)
      /\ \A u \in Users : thr[u].pc = "sleep" /\ thr[u].rw # rw => thr'[u].rw = thr[u].rw
  BY DEF Becomes
<1>6. QED
  BY <1>2, <1>3, <1>4, <1>5, QueuesOne

\* Waking the first writer keeps the queues sound.
LEMMA QueuesWriter ==
    ASSUME RwLaws, Types, Queues, NEW t \in Users, NEW x, NEW rw,
           Becomes(t, FirstWriter, x, rw), thr[t].pc # "sleep", x # "sleep",
           t_pri' = t_pri, tsq' = LessWriter
    PROVE  Queues' /\ tsq' \in [{R, W} -> Seq(Users)]
<1> DEFINE q == IF tsq[W] = <<>> THEN <<>> ELSE Tail(tsq[W])
<1>1. /\ tsq[W] \in Seq(Users) /\ t_pri \in [Users -> Int]
      /\ Sorted(tsq[W], t_pri) /\ IsInjective(tsq[W])
      /\ \A u \in Users : OnQueue(tsq[W], u) <=> thr[u].pc = "sleep" /\ thr[u].rw = W
  BY Priorities DEF Types, Queues
<1>2. /\ q \in Seq(Users) /\ IsInjective(q) /\ Sorted(q, t_pri)
      /\ \A u : OnQueue(q, u) <=> OnQueue(tsq[W], u) /\ u \notin FirstWriter
  <2>1. CASE tsq[W] = <<>>
    BY <1>1, <2>1 DEF FirstWriter
  <2>2. CASE tsq[W] # <<>>
    BY <1>1, <2>2, FirstUser DEF FirstWriter
  <2>3. QED
    BY <2>1, <2>2
<1>3. tsq' = [tsq EXCEPT ![W] = q]
  BY DEF LessWriter
<1>4. \A u \in FirstWriter : thr[u].pc = "sleep" /\ thr[u].rw = W
  BY QueueFacts DEF FirstWriter
<1> HIDE DEF q
<1>5. \A u \in Users : OnQueue(q, u) <=> thr'[u].pc = "sleep" /\ thr'[u].rw = W
  BY <1>1, <1>2, <1>4 DEF Becomes
<1>6. /\ \A u \in Users : (thr'[u].pc = "sleep" /\ thr'[u].rw # W)
                            <=> (thr[u].pc = "sleep" /\ thr[u].rw # W)
      /\ \A u \in Users : thr[u].pc = "sleep" /\ thr[u].rw # W => thr'[u].rw = thr[u].rw
  BY <1>4 DEF Becomes
<1>7. QED
  BY <1>2, <1>3, <1>5, <1>6, QueuesOne

\* Waking all readers keeps the queues sound.
LEMMA QueuesReaders ==
    ASSUME RwLaws, Types, Queues, NEW t \in Users, NEW x, NEW rw,
           Becomes(t, AllReaders, x, rw), thr[t].pc # "sleep", x # "sleep",
           t_pri' = t_pri, tsq' = LessReaders
    PROVE  Queues' /\ tsq' \in [{R, W} -> Seq(Users)]
<1>1. \A u \in Users : u \in AllReaders <=> thr[u].pc = "sleep" /\ thr[u].rw = R
  BY QueueFacts DEF AllReaders
<1>2. /\ << >> \in Seq(Users) /\ IsInjective(<< >>) /\ Sorted(<< >>, t_pri)
      /\ \A u : ~OnQueue(<< >>, u)
  BY SMTT(30) DEF IsInjective, Sorted, OnQueue
<1>3. \A u \in Users : ~(thr'[u].pc = "sleep" /\ thr'[u].rw = R)
  BY <1>1 DEF Becomes
<1>4. /\ \A u \in Users : (thr'[u].pc = "sleep" /\ thr'[u].rw # R)
                            <=> (thr[u].pc = "sleep" /\ thr[u].rw # R)
      /\ \A u \in Users : thr[u].pc = "sleep" /\ thr[u].rw # R => thr'[u].rw = thr[u].rw
  BY <1>1 DEF Becomes
<1>5. QED
  BY <1>2, <1>3, <1>4, QueuesOne DEF LessReaders

\* A queue is empty if and only if nobody sleeps on it.
LEMMA SleepersAfter ==
    ASSUME Queues', tsq' \in [{R, W} -> Seq(Users)], NEW rw \in {R, W}
    PROVE  tsq'[rw] # <<>> <=> \E u \in Users : thr'[u].pc = "sleep" /\ thr'[u].rw = rw
<1>1. tsq'[rw] \in Seq(Users)
  OBVIOUS
<1>2. \A u \in Users : OnQueue(tsq'[rw], u) <=> thr'[u].pc = "sleep" /\ thr'[u].rw = rw
  BY DEF Queues
<1>3. \A u : OnQueue(tsq'[rw], u) => tsq'[rw] # <<>>
  BY SMTT(30), <1>1 DEF OnQueue
<1>4. ASSUME tsq'[rw] # <<>>
      PROVE  \E u \in Users : OnQueue(tsq'[rw], u)
  <2>1. 1 \in DOMAIN tsq'[rw] /\ tsq'[rw][1] \in Users
    BY SMTT(30), <1>1, <1>4
  <2>2. QED
    BY <2>1 DEF OnQueue
<1>5. QED
  BY <1>2, <1>3, <1>4

\* The invariant in terms of single threads.
LEMMA Facts ==
    ASSUME RwLaws, Inv
    PROVE  /\ holdcnt \in Int /\ holdcnt >= -1 /\ writewanted \in Nat
           /\ None \notin Users
           /\ \A u \in Users : thr[u].pc \in Hold /\ thr[u].rw = W
                 => /\ holdcnt = -1 /\ owner = u /\ mp = None
                    /\ \A v \in Users : thr[v].pc \in Hold => v = u
           /\ \A u \in Users : thr[u].pc \in Hold /\ thr[u].rw = R => holdcnt > 0
           /\ \A u \in Users : thr[u].rw = W /\ thr[u].pc \in {"block", "sleep", "retry"}
                 => writewanted > 0
           /\ writewanted > 0 => \E u \in Users : /\ thr[u].rw = W
                                                /\ thr[u].pc \in {"block", "sleep", "retry"}
           /\ \A u \in Users : thr[u].pc = "exit" <=> mp = u
           /\ mp # None => holdcnt >= 0
           /\ \A u \in Users : thr[u].rw \in {R, W}
           /\ \A u \in Users : thr[u].pc = "wakeup" => thr[u].rw = R /\ holdcnt > 0
           /\ \A u \in Users : thr[u].pc = "sleep" => waiters /\ tsq[thr[u].rw] # <<>>
           /\ tsq[R] # <<>> => \E u \in Users : thr[u].pc = "sleep" /\ thr[u].rw = R
<1>. IInv
  BY DEF Inv
<1>1. /\ holdcnt \in Int /\ holdcnt >= -1
      /\ \A t \in Holding(W) : holdcnt = -1 /\ Holding(W) = {t} /\ Holding(R) = {}
      /\ \A t \in Holding(R) : holdcnt > 0
  BY HoldFacts DEF IInv
<1>2. writewanted \in Nat /\ (writewanted = 0 <=> Wanting = {})
  BY WantFacts DEF IInv
<1>3. /\ \A u \in Users : thr[u].pc = "exit" <=> mp = u
      /\ mp # None => holdcnt >= 0
      /\ mp \in Users \cup {None} /\ None \notin Users
      /\ \A u \in Users : thr[u].rw \in {R, W}
      /\ \A u \in Users : thr[u].pc = "wakeup" => thr[u].rw = R
  BY DEF IInv, MutexHeld, Types, RwLaws, Thr
<1>4. \A u \in Users : thr[u].pc \in Hold => u \in Holding(thr[u].rw)
  BY DEF Holding, Hold
<1>5. \A u \in Users : thr[u].pc \in Hold /\ thr[u].rw = W
         => /\ holdcnt = -1 /\ owner = u /\ mp = None
            /\ \A v \in Users : thr[v].pc \in Hold => v = u
  <2> SUFFICES ASSUME NEW u \in Users, thr[u].pc \in Hold, thr[u].rw = W
               PROVE  /\ holdcnt = -1 /\ owner = u /\ mp = None
                      /\ \A v \in Users : thr[v].pc \in Hold => v = u
    OBVIOUS
  <2>1. u \in Holding(W)
    BY <1>4
  <2>2. holdcnt = -1 /\ Holding(W) = {u} /\ Holding(R) = {} /\ mp = None
    BY SMTT(30), <1>1, <1>3, <2>1
  <2>3. \A v \in Users : thr[v].pc \in Hold => v = u
    BY <1>3, <1>4, <2>2
  <2>4. owner = u
    BY <2>1 DEF IInv, OwnerRecorded
  <2>5. QED
    BY <2>2, <2>3, <2>4
<1>6. \A u \in Users : thr[u].pc \in Hold /\ thr[u].rw = R => holdcnt > 0
  BY <1>1, <1>4
<1>7. /\ \A u \in Users : thr[u].rw = W /\ thr[u].pc \in {"block", "sleep", "retry"}
            => writewanted > 0
      /\ writewanted > 0 => \E u \in Users : /\ thr[u].rw = W
                                           /\ thr[u].pc \in {"block", "sleep", "retry"}
  BY SMTT(30), <1>2 DEF Wanting
<1>8. /\ \A u \in Users : thr[u].pc = "sleep" => waiters /\ tsq[thr[u].rw] # <<>>
      /\ tsq[R] # <<>> => \E u \in Users : thr[u].pc = "sleep" /\ thr[u].rw = R
  BY <1>3, QueueFacts DEF IInv, TurnstileReturned, Sleeping
<1>9. \A u \in Users : thr[u].pc = "wakeup" => thr[u].rw = R /\ holdcnt > 0
  BY <1>3, <1>6 DEF Hold
<1>10. QED
  BY <1>1, <1>2, <1>3, <1>5, <1>6, <1>7, <1>8, <1>9

\* With mp free and no writer waiting, readers sleep only if a rw_downgrade() is
\* about to wake them.
LEMMA WhoWarns ==
    ASSUME RwLaws, Inv, mp = None, writewanted = 0, holdcnt >= 0, tsq[R] # <<>>
    PROVE  \E u \in Users : thr[u].pc = "wakeup"
<1>. IInv
  BY DEF Inv
<1>1. Sleeping # {}
  BY Facts DEF Sleeping
<1>2. OnTheWay
  BY SMTT(30), <1>1, Facts DEF IInv, NoneStranded
<1>3. QED
  BY SMTT(30), <1>2, Facts DEF OnTheWay
------------------------------------------------------------------------------
(* rw_enter(), rw_tryenter(), rw_tryupgrade() *)

\* t sleeps neither before nor after, nobody is woken, the turnstile is left alone.
LEMMA AwakeStep ==
    ASSUME RwLaws, Inv, NEW t \in Users, NEW x, NEW rw, Becomes(t, {}, x, rw),
           thr[t].pc # "sleep", x # "sleep", x # "out",
           UNCHANGED <<tsVars, t_pri>>, owner' \in Users \cup {None}, mp' \in Users \cup {None},
           x = "amend" => rw = W, x = "wakeup" => rw = R
    PROVE  /\ Types' /\ Queues' /\ TurnstileReturned' /\ Sleeping' = Sleeping
           /\ \A u \in Users \ {t} : thr'[u].pc = thr[u].pc /\ thr'[u].rw = thr[u].rw
           /\ thr'[t].pc = x /\ thr'[t].rw = rw
<1>. IInv
  BY DEF Inv
<1>1. /\ \A u \in Users \ {t} : thr'[u].pc = thr[u].pc /\ thr'[u].rw = thr[u].rw
      /\ thr'[t].pc = x /\ thr'[t].rw = rw /\ thr' \in [Users -> Thr]
  BY DEF Becomes
<1>2. Types'
  BY <1>1 DEF IInv, Types, tsVars
<1>3. Queues'
  BY QueuesSame DEF IInv, tsVars
<1>4. Sleeping' = Sleeping
  BY <1>1 DEF Sleeping
<1>5. TurnstileReturned'
  BY <1>1, <1>4 DEF IInv, TurnstileReturned, tsVars
<1>6. QED
  BY <1>1, <1>2, <1>3, <1>4, <1>5

\* A reader takes the lock, at once or after it was woken.
LEMMA TakeRead ==
    ASSUME RwLaws, Inv, NEW t \in Users, NEW x \in {"held", "tried"}, Becomes(t, {}, x, R),
           mp = None, holdcnt >= 0, writewanted = 0,
           thr[t].pc = "out" \/ (thr[t].pc = "retry" /\ thr[t].rw = R),
           holdcnt' = holdcnt + 1, owner' = IF owner # None THEN owner ELSE t,
           UNCHANGED <<writewanted, tsVars, mp, t_pri>>
    PROVE  Inv'
<1>. IInv
  BY DEF Inv
<1>1. /\ Types' /\ Queues' /\ TurnstileReturned' /\ Sleeping' = Sleeping
      /\ \A u \in Users \ {t} : thr'[u].pc = thr[u].pc /\ thr'[u].rw = thr[u].rw
      /\ thr'[t].pc = x /\ thr'[t].rw = R
  <2>1. owner' \in Users \cup {None} /\ mp' \in Users \cup {None}
    BY DEF IInv, Types
  <2>2. QED
    BY <2>1, AwakeStep
<1>2. HoldcntExact' /\ Holding(W)' = {}
  <2>1. x \in Hold /\ t \notin Holding(R)
    BY DEF Hold, Holding
  <2>2. Holding(R)' = Holding(R) \cup {t} /\ Holding(W)' = Holding(W) \ {t}
    BY SMTT(30), <2>1, HoldingAfter
  <2>3. Holding(W) = {}
    BY HoldFacts DEF IInv
  <2>4. QED
    BY <2>1, <2>2, <2>3, HoldcntAfter DEF IInv
<1>3. WantExact'
  <2>1. Wanting' = Wanting \ {t} /\ t \notin Wanting
    BY SMTT(30), WantingAfter DEF Wanting
  <2>2. QED
    BY <2>1, WantAfter DEF IInv
<1>4. MutexHeld' /\ ReadersWarned'
  BY <1>1, Facts DEF MutexHeld, ReadersWarned
<1>5. NoneStranded'
  <2>1. ASSUME tsq[R] # <<>> PROVE OnTheWay'
    <3>1. PICK u \in Users : thr[u].pc = "wakeup"
      BY <2>1, WhoWarns
    <3>2. thr'[u].pc = "wakeup"
      BY <1>1, <3>1
    <3>3. QED
      BY <3>2 DEF OnTheWay
  <2>2. holdcnt' # 0
    BY SMTT(30), Facts
  <2>3. QED
    BY <2>1, <2>2 DEF NoneStranded, tsVars
<1>6. OwnerRecorded'
  <2>1. owner # None => owner # t /\ thr'[owner].pc \in Hold
    BY <1>1, Facts DEF IInv, OwnerRecorded, Types, Hold
  <2>2. thr'[t].pc \in Hold
    BY <1>1 DEF Hold
  <2>3. QED
    BY <1>2, <2>1, <2>2 DEF OwnerRecorded
<1>7. PirecSound'
  BY <1>1, Facts DEF IInv, PirecSound, Types, tsVars
<1>8. Inherits'
  BY <1>2 DEF Inherits, Holding
<1>9. QED
  BY <1>1, <1>2, <1>3, <1>4, <1>5, <1>6, <1>7, <1>8 DEF IInv, Inv

\* A writer takes the lock, at once or after it was woken.
LEMMA TakeWrite ==
    ASSUME RwLaws, Inv, NEW t \in Users, NEW x \in {"amend", "tried"}, Becomes(t, {}, x, W),
           mp = None, holdcnt = 0,
           \/ thr[t].pc = "out" /\ writewanted' = writewanted
           \/ thr[t].pc = "retry" /\ thr[t].rw = W /\ writewanted' = writewanted - 1,
           holdcnt' = -1, owner' = t, UNCHANGED <<tsVars, mp, t_pri>>
    PROVE  Inv'
<1>. IInv
  BY DEF Inv
<1>1. /\ Types' /\ Queues' /\ TurnstileReturned' /\ Sleeping' = Sleeping
      /\ \A u \in Users \ {t} : thr'[u].pc = thr[u].pc /\ thr'[u].rw = thr[u].rw
      /\ thr'[t].pc = x /\ thr'[t].rw = W
  <2>1. owner' \in Users \cup {None} /\ mp' \in Users \cup {None}
    BY DEF IInv, Types
  <2>2. QED
    BY <2>1, AwakeStep
<1>2. HoldcntExact' /\ Holding(W)' = {t}
  <2>1. x \in Hold
    BY DEF Hold
  <2>2. Holding(W)' = Holding(W) \cup {t} /\ Holding(R)' = Holding(R) \ {t}
    BY SMTT(30), <2>1, HoldingAfter
  <2>3. Holding(W) = {} /\ Holding(R) = {}
    BY HoldFacts DEF IInv
  <2>4. QED
    BY <2>1, <2>2, <2>3, HoldcntAfter DEF IInv
<1>3. WantExact'
  <2>1. Wanting' = Wanting \ {t}
    BY SMTT(30), WantingAfter
  <2>2. thr[t].pc = "out" => t \notin Wanting
    BY DEF Wanting
  <2>3. thr[t].pc = "retry" /\ thr[t].rw = W => t \in Wanting
    BY DEF Wanting
  <2>4. QED
    BY <2>1, <2>2, <2>3, WantAfter DEF IInv
<1>4. MutexHeld' /\ ReadersWarned'
  BY <1>1, Facts DEF MutexHeld, ReadersWarned
<1>5. NoneStranded'
  BY SMTT(30) DEF NoneStranded
<1>6. OwnerRecorded'
  BY <1>1, <1>2 DEF OwnerRecorded, Hold
<1>7. owner = None
  BY SMTT(30), Facts DEF IInv, OwnerRecorded, Types
<1>8. PirecSound'
  BY <1>1, <1>7, Facts DEF IInv, PirecSound, Types, tsVars
<1>9. Inherits'
  BY <1>1, <1>2 DEF Inherits, Holding
<1>10. QED
  BY <1>1, <1>2, <1>3, <1>4, <1>5, <1>6, <1>8, <1>9 DEF IInv, Inv

\* rw_enter() finds the lock busy and drops the mutex on its way to block.
LEMMA PrepareToBlock ==
    ASSUME RwLaws, Inv, NEW t \in Users, NEW rw \in {R, W}, Becomes(t, {}, "block", rw),
           mp = None,
           \/ thr[t].pc = "out" /\ writewanted' = IF rw = W THEN writewanted + 1 ELSE writewanted
           \/ thr[t].pc = "retry" /\ thr[t].rw = rw /\ writewanted' = writewanted,
           UNCHANGED <<holdcnt, owner, tsVars, mp, t_pri>>
    PROVE  Inv'
<1>. IInv
  BY DEF Inv
<1>1. /\ Types' /\ Queues' /\ TurnstileReturned' /\ Sleeping' = Sleeping
      /\ \A u \in Users \ {t} : thr'[u].pc = thr[u].pc /\ thr'[u].rw = thr[u].rw
      /\ thr'[t].pc = "block" /\ thr'[t].rw = rw
  <2>1. owner' \in Users \cup {None} /\ mp' \in Users \cup {None}
    BY DEF IInv, Types
  <2>2. QED
    BY <2>1, AwakeStep
<1>2. HoldcntExact' /\ Holding(W)' = Holding(W)
  <2>1. "block" \notin Hold /\ t \notin Holding(R) /\ t \notin Holding(W)
    BY DEF Hold, Holding
  <2>2. Holding(R)' = Holding(R) \ {t} /\ Holding(W)' = Holding(W) \ {t}
    BY SMTT(30), <2>1, HoldingAfter
  <2>3. QED
    BY <2>1, <2>2, HoldcntAfter DEF IInv
<1>3. WantExact' /\ writewanted' >= writewanted
  <2>1. /\ rw = W => Wanting' = Wanting \cup {t}
        /\ rw # W => Wanting' = Wanting \ {t}
    BY SMTT(30), WantingAfter
  <2>2. /\ thr[t].pc = "out" => t \notin Wanting
        /\ thr[t].pc = "retry" /\ thr[t].rw = rw => (t \in Wanting <=> rw = W)
    BY DEF Wanting
  <2>3. WantExact'
    BY <2>1, <2>2, WantAfter DEF IInv
  <2>4. QED
    BY SMTT(30), <2>3, Facts
<1>4. MutexHeld' /\ ReadersWarned'
  BY <1>1, Facts DEF MutexHeld, ReadersWarned
<1>5. OnTheWay => OnTheWay'
  <2>1. SUFFICES ASSUME NEW u \in Users, \/ thr[u].pc \in {"exit", "wakeup"}
                                         \/ thr[u].rw = W /\ thr[u].pc \in {"block", "retry"}
                 PROVE  \/ thr'[u].pc \in {"exit", "wakeup"}
                        \/ thr'[u].rw = W /\ thr'[u].pc \in {"block", "retry"}
    BY DEF OnTheWay
  <2>2. QED
    BY <1>1, <2>1
<1>6. NoneStranded'
  BY SMTT(30), <1>1, <1>3, <1>5, Facts DEF IInv, NoneStranded, tsVars
<1>7. owner # None => owner \in Users /\ owner # t
  BY Facts DEF IInv, OwnerRecorded, Types, Hold
<1>8. OwnerRecorded'
  BY <1>1, <1>2, <1>7 DEF IInv, OwnerRecorded
<1>9. PirecSound'
  BY <1>1, <1>7, Facts DEF IInv, PirecSound, Types, tsVars
<1>10. Inherits'
  BY <1>1 DEF IInv, Inherits, tsVars
<1>11. QED
  BY <1>1, <1>2, <1>3, <1>4, <1>6, <1>8, <1>9, <1>10 DEF IInv, Inv

\* rw_tryupgrade() succeeds.
LEMMA UpgradeStep ==
    ASSUME RwLaws, Inv, NEW t \in Users, NEW x \in {"held", "tried"}, Becomes(t, {}, x, W),
           thr[t].pc = x, thr[t].rw = R,
           mp = None, writewanted = 0, holdcnt = 1, holdcnt' = -1, owner' = t,
           UNCHANGED <<writewanted, tsVars, mp, t_pri>>
    PROVE  Inv'
<1>. IInv
  BY DEF Inv
<1>1. /\ Types' /\ Queues' /\ TurnstileReturned' /\ Sleeping' = Sleeping
      /\ \A u \in Users \ {t} : thr'[u].pc = thr[u].pc /\ thr'[u].rw = thr[u].rw
      /\ thr'[t].pc = x /\ thr'[t].rw = W
  <2>1. owner' \in Users \cup {None} /\ mp' \in Users \cup {None}
    BY DEF IInv, Types
  <2>2. QED
    BY SMTT(30), <2>1, AwakeStep
<1>2. Holding(R) = {t} /\ Holding(W) = {}
  <2>1. t \in Holding(R)
    BY DEF Holding
  <2>2. QED
    BY <2>1, HoldFacts DEF IInv
<1>3. HoldcntExact' /\ Holding(W)' = {t}
  <2>1. x \in Hold
    BY DEF Hold
  <2>2. Holding(W)' = Holding(W) \cup {t} /\ Holding(R)' = Holding(R) \ {t}
    BY SMTT(30), <2>1, HoldingAfter
  <2>3. QED
    BY <1>2, <2>1, <2>2, HoldcntAfter DEF IInv
<1>4. WantExact'
  <2>1. Wanting' = Wanting \ {t} /\ t \notin Wanting
    BY SMTT(30), WantingAfter DEF Wanting
  <2>2. QED
    BY <2>1, WantAfter DEF IInv
<1>5. MutexHeld' /\ ReadersWarned'
  BY SMTT(30), <1>1, Facts DEF MutexHeld, ReadersWarned
<1>6. NoneStranded'
  BY SMTT(30) DEF NoneStranded
<1>7. OwnerRecorded'
  BY <1>1, <1>3 DEF OwnerRecorded, Hold
<1>8. owner # None => owner = t
  <2>1. \A u \in Users : thr[u].pc \in Hold => u \in Holding(R) \/ u \in Holding(W)
    BY Facts DEF Holding, Hold
  <2>2. QED
    BY <1>2, <2>1, Facts DEF IInv, OwnerRecorded, Types
<1>9. PirecSound'
  BY <1>1, <1>8, Facts DEF IInv, PirecSound, Types, tsVars
<1>10. tsq[R] = <<>>
  <2>1. ~\E u \in Users : thr[u].pc = "wakeup"
    <3>1. \A u \in Users : thr[u].pc = "wakeup" => u \in Holding(R)
      BY Facts DEF Holding
    <3>2. QED
      BY <1>2, <3>1
  <2>2. QED
    BY SMTT(30), <2>1, WhoWarns
<1>11. Inherits'
  <2>1. \A u \in Users : ~(thr[u].pc = "sleep" /\ thr[u].rw = R)
    BY <1>10, Facts
  <2>2. QED
    BY <1>1, <2>1 DEF Inherits
<1>12. QED
  BY <1>1, <1>3, <1>4, <1>5, <1>6, <1>7, <1>9, <1>11 DEF IInv, Inv
------------------------------------------------------------------------------
(* Going to sleep, and inheriting *)

\* rw_enter() finds the lock still busy and goes to sleep.
LEMMA BlockSleeps ==
    ASSUME RwLaws, Inv, NEW t \in Users, NEW rw \in {R, W}, rw = thr[t].rw,
           thr[t].pc = "block", Becomes(t, {}, "sleep", rw),
           Busy(rw, writewanted), waiters' = TRUE,
           tsq' = [tsq EXCEPT ![rw] = SleepqInsert(@, t_pri, t)], PiWillto(t),
           UNCHANGED <<lockVars, mp, t_pri>>
    PROVE  Inv'
<1>. IInv
  BY DEF Inv
<1>1. /\ \A u \in Users \ {t} : thr'[u].pc = thr[u].pc /\ thr'[u].rw = thr[u].rw
      /\ thr'[t].pc = "sleep" /\ thr'[t].rw = rw /\ thr' \in [Users -> Thr]
  BY DEF Becomes
<1>2. Queues' /\ tsq' \in [{R, W} -> Seq(Users)]
  BY QueuesInsert DEF IInv
<1>3. owner # None => owner \in Users /\ owner # t
  BY Facts DEF IInv, OwnerRecorded, Types, Hold
<1>4. /\ pirec \in [benef : Users \cup {None}, pri : Pris \cup {0}]
      /\ t_pri \in [Users -> Pris] /\ t_pri \in [Users -> Int] /\ Pris \subseteq Int
      /\ pirec.pri \in Int
  <2>1. /\ pirec \in [benef : Users \cup {None}, pri : Pris \cup {0}]
        /\ t_pri \in [Users -> Pris]
    BY DEF IInv, Types
  <2>2. Pris \subseteq Int
    BY SMTT(30) DEF RwLaws
  <2>3. pirec.pri \in Pris \cup {0}
    BY <2>1
  <2>4. t_pri \in [Users -> Int]
    BY <2>1, <2>2
  <2>5. \A p \in Pris \cup {0} : p \in Int
    BY SMTT(30), <2>2
  <2>6. pirec.pri \in Int
    BY <2>3, <2>5
  <2>7. QED
    BY <2>1, <2>2, <2>4, <2>6
<1>5. \/ pirec' = pirec /\ (owner # None => t_pri[t] <= t_pri[owner]
                                           \/ pirec.benef # None)
      \/ /\ owner # None /\ t_pri[t] > t_pri[owner] /\ pirec.benef = None
         /\ pirec' = [benef |-> owner, pri |-> t_pri[t]]
      \/ /\ owner # None /\ pirec.benef # None /\ t_pri[t] > pirec.pri
         /\ pirec' = [pirec EXCEPT !.pri = t_pri[t]]
  BY SMTT(30), <1>3, <1>4 DEF PiWillto
<1>6. Types'
  <2>1. pirec' \in [benef : Users \cup {None}, pri : Pris \cup {0}]
    BY SMTT(30), <1>3, <1>4, <1>5
  <2>2. QED
    BY <1>1, <1>2, <2>1 DEF IInv, Types, lockVars
<1>7. HoldcntExact' /\ Holding(W)' = Holding(W)
  <2>1. "sleep" \notin Hold /\ t \notin Holding(R) /\ t \notin Holding(W)
    BY DEF Hold, Holding
  <2>2. Holding(R)' = Holding(R) \ {t} /\ Holding(W)' = Holding(W) \ {t}
    BY SMTT(30), <2>1, HoldingAfter
  <2>3. QED
    BY <2>1, <2>2, HoldcntAfter DEF IInv, lockVars
<1>8. WantExact'
  <2>1. /\ rw = W => Wanting' = Wanting \cup {t}
        /\ rw # W => Wanting' = Wanting \ {t}
    BY SMTT(30), WantingAfter
  <2>2. t \in Wanting <=> rw = W
    BY DEF Wanting
  <2>3. QED
    BY <2>1, <2>2, WantAfter DEF IInv, lockVars
<1>9. MutexHeld'
  BY SMTT(30), <1>1, Facts DEF MutexHeld, lockVars
<1>10. rw = W => writewanted > 0
  BY Facts
<1>11. holdcnt >= 0 => writewanted > 0
  BY SMTT(30), <1>10, Facts DEF Busy
<1>12. NoneStranded'
  <2>1. ASSUME holdcnt = 0 PROVE OnTheWay'
    <3>1. rw = R /\ writewanted > 0
      BY SMTT(30), <1>11, <2>1 DEF Busy
    <3>2. PICK u \in Users : thr[u].rw = W /\ thr[u].pc \in {"block", "sleep", "retry"}
      BY <3>1, Facts
    <3>3. CASE thr[u].pc \in {"block", "retry"}
      <4>1. u # t
        BY <3>1, <3>2
      <4>2. thr'[u].rw = W /\ thr'[u].pc \in {"block", "retry"}
        BY <1>1, <3>2, <3>3, <4>1
      <4>3. QED
        BY <4>2 DEF OnTheWay
    <3>4. CASE thr[u].pc = "sleep"
      <4>1. OnTheWay
        BY <2>1, <3>4 DEF IInv, NoneStranded, Sleeping
      <4>2. PICK v \in Users : \/ thr[v].pc \in {"exit", "wakeup"}
                               \/ thr[v].rw = W /\ thr[v].pc \in {"block", "retry"}
        BY <4>1 DEF OnTheWay
      <4>3. v # t
        BY <3>1, <4>2
      <4>4. QED
        BY <1>1, <4>2, <4>3 DEF OnTheWay
    <3>5. QED
      BY <3>2, <3>3, <3>4
  <2>2. QED
    BY SMTT(30), <1>11, <2>1, Facts DEF NoneStranded, lockVars
<1>13. ReadersWarned'
  BY <1>1, <1>11, Facts DEF ReadersWarned, lockVars
<1>14. TurnstileReturned'
  BY <1>1 DEF TurnstileReturned
<1>15. OwnerRecorded'
  BY <1>1, <1>3, <1>7 DEF IInv, OwnerRecorded, lockVars
<1>16. PirecSound'
  <2>1. pirec.benef # None => /\ pirec.benef \in Users \ {t}
                              /\ pirec.pri > t_pri[pirec.benef]
                              /\ \/ pirec.benef = owner
                                 \/ thr[pirec.benef].pc = "exit" /\ thr[pirec.benef].rw = W
    BY <1>3, <1>4 DEF IInv, PirecSound
  <2>2. pirec'.benef # None => /\ pirec'.benef \in Users \ {t}
                               /\ pirec'.pri > t_pri[pirec'.benef]
                               /\ \/ pirec'.benef = owner
                                  \/ thr[pirec'.benef].pc = "exit" /\ thr[pirec'.benef].rw = W
    <3>1. CASE pirec' = pirec
      BY <2>1, <3>1
    <3>2. CASE /\ owner # None /\ t_pri[t] > t_pri[owner] /\ pirec.benef = None
               /\ pirec' = [benef |-> owner, pri |-> t_pri[t]]
      BY <1>3, <3>2
    <3>3. CASE /\ owner # None /\ pirec.benef # None /\ t_pri[t] > pirec.pri
               /\ pirec' = [pirec EXCEPT !.pri = t_pri[t]]
      <4>1. pirec'.benef = pirec.benef /\ pirec'.pri = t_pri[t]
        BY <1>4, <3>3
      <4>2. t_pri[t] > t_pri[pirec.benef]
        BY SMTT(30), <1>4, <2>1, <3>3
      <4>3. QED
        BY <2>1, <3>3, <4>1, <4>2
    <3>4. QED
      BY <1>5, <3>1, <3>2, <3>3
  <2>3. QED
    BY <1>1, <2>2 DEF PirecSound, lockVars
<1>17. Inherits'
  <2> SUFFICES ASSUME NEW u \in Users, NEW r \in Users, thr'[u].pc = "held", thr'[u].rw = W,
                      thr'[r].pc = "sleep", thr'[r].rw = R, t_pri[u] < t_pri[r]
               PROVE  pirec'.benef = u
    BY DEF Inherits
  <2>1. u # t /\ thr[u].pc = "held" /\ thr[u].rw = W
    BY <1>1
  <2>2. owner = u /\ owner # None /\ mp = None
    BY <2>1, Facts DEF Hold
  <2>3. pirec.benef # None => pirec.benef = u
    BY <1>4, <2>2, Facts DEF IInv, PirecSound
  <2>4. CASE r = t
    BY SMTT(30), <1>4, <1>5, <2>2, <2>3, <2>4
  <2>5. CASE r # t
    <3>1. thr[r].pc = "sleep" /\ thr[r].rw = R
      BY <1>1, <2>5
    <3>2. pirec.benef = u
      BY <2>1, <3>1 DEF IInv, Inherits
    <3>3. QED
      BY <1>4, <1>5, <2>2, <3>2
  <2>6. QED
    BY <2>4, <2>5
<1>18. QED
  BY <1>2, <1>6, <1>7, <1>8, <1>9, <1>12, <1>13, <1>14, <1>15, <1>16, <1>17 DEF IInv, Inv

\* rw_enter() finds the lock free under the turnstile's lock and tries again.
LEMMA BlockRetries ==
    ASSUME RwLaws, Inv, NEW t \in Users, NEW rw \in {R, W}, rw = thr[t].rw,
           thr[t].pc = "block", Becomes(t, {}, "retry", rw), waiters' = TRUE,
           UNCHANGED <<tsq, pirec, lockVars, mp, t_pri>>
    PROVE  Inv'
<1>. IInv
  BY DEF Inv
<1>1. /\ \A u \in Users \ {t} : thr'[u].pc = thr[u].pc /\ thr'[u].rw = thr[u].rw
      /\ thr'[t].pc = "retry" /\ thr'[t].rw = rw /\ thr' \in [Users -> Thr]
  BY DEF Becomes
<1>2. Queues' /\ Types'
  <2>1. Queues'
    BY QueuesSame DEF IInv
  <2>2. QED
    BY <1>1, <2>1 DEF IInv, Types, lockVars
<1>3. HoldcntExact' /\ Holding(W)' = Holding(W)
  <2>1. "retry" \notin Hold /\ t \notin Holding(R) /\ t \notin Holding(W)
    BY DEF Hold, Holding
  <2>2. Holding(R)' = Holding(R) \ {t} /\ Holding(W)' = Holding(W) \ {t}
    BY SMTT(30), <2>1, HoldingAfter
  <2>3. QED
    BY <2>1, <2>2, HoldcntAfter DEF IInv, lockVars
<1>4. WantExact'
  <2>1. /\ rw = W => Wanting' = Wanting \cup {t}
        /\ rw # W => Wanting' = Wanting \ {t}
    BY SMTT(30), WantingAfter
  <2>2. t \in Wanting <=> rw = W
    BY DEF Wanting
  <2>3. QED
    BY <2>1, <2>2, WantAfter DEF IInv, lockVars
<1>5. MutexHeld'
  BY SMTT(30), <1>1, Facts DEF MutexHeld, lockVars
<1>6. OnTheWay => OnTheWay'
  <2>1. SUFFICES ASSUME NEW u \in Users, \/ thr[u].pc \in {"exit", "wakeup"}
                                         \/ thr[u].rw = W /\ thr[u].pc \in {"block", "retry"}
                 PROVE  \/ thr'[u].pc \in {"exit", "wakeup"}
                        \/ thr'[u].rw = W /\ thr'[u].pc \in {"block", "retry"}
    BY DEF OnTheWay
  <2>2. QED
    BY <1>1, <2>1
<1>7. Sleeping' = Sleeping
  BY <1>1 DEF Sleeping
<1>8. NoneStranded'
  BY <1>6, <1>7 DEF IInv, NoneStranded, lockVars
<1>9. ReadersWarned'
  BY <1>1 DEF IInv, ReadersWarned, lockVars
<1>10. TurnstileReturned'
  BY <1>1 DEF TurnstileReturned
<1>11. owner # None => owner \in Users /\ owner # t
  BY Facts DEF IInv, OwnerRecorded, Types, Hold
<1>12. OwnerRecorded'
  BY <1>1, <1>3, <1>11 DEF IInv, OwnerRecorded, lockVars
<1>13. PirecSound'
  BY <1>1, <1>11, Facts DEF IInv, PirecSound, Types, lockVars
<1>14. Inherits'
  BY <1>1 DEF IInv, Inherits
<1>15. QED
  BY <1>2, <1>3, <1>4, <1>5, <1>8, <1>9, <1>10, <1>12, <1>13, <1>14 DEF IInv, Inv

\* tstile_maxpri() is the highest priority of the readers asleep.
LEMMA MaxpriFacts ==
    ASSUME RwLaws, Inv, tsq[R] # <<>>
    PROVE  /\ TstileMaxpri \in Pris
           /\ \A r \in Users : thr[r].pc = "sleep" /\ thr[r].rw = R => t_pri[r] <= TstileMaxpri
<1>. IInv
  BY DEF Inv
<1> DEFINE firsts == {Head(tsq[rw]) : rw \in {q \in {R, W} : tsq[q] # <<>>}}
           h == Head(tsq[R])
<1>1. t_pri \in [Users -> Pris] /\ t_pri \in [Users -> Int] /\ Pris \subseteq Int
  BY SMTT(30), Priorities DEF IInv, Types, RwLaws
<1>2. h \in firsts /\ h \in Users
  BY QueueFacts DEF IInv
<1>3. \A r \in Users : thr[r].pc = "sleep" /\ thr[r].rw = R => t_pri[r] <= t_pri[h]
  <2>1. tsq[R] \in Seq(Users) /\ Sorted(tsq[R], t_pri) /\ IsInjective(tsq[R])
        /\ \A r \in Users : OnQueue(tsq[R], r) <=> thr[r].pc = "sleep" /\ thr[r].rw = R
    BY DEF IInv, Types, Queues
  <2>2. QED
    BY <1>1, <2>1, FirstUser
<1>4. firsts \subseteq Users
  BY QueueFacts DEF IInv
<1>5. \E p \in Pris : /\ \E t \in firsts : t_pri[t] = p
                     /\ \A t \in firsts : t_pri[t] <= p
  <2>1. CASE tsq[W] = <<>>
    <3>1. firsts = {h}
      BY <2>1
    <3>2. t_pri[h] \in Pris /\ t_pri[h] \in Int
      BY <1>1, <1>2
    <3> HIDE DEF firsts, h
    <3>3. QED
      BY SMTT(30), <3>1, <3>2
  <2>2. CASE tsq[W] # <<>>
    <3> DEFINE g == Head(tsq[W])
    <3>1. firsts = {h, g}
      BY <2>2
    <3>2. /\ t_pri[h] \in Pris /\ t_pri[h] \in Int
          /\ t_pri[g] \in Pris /\ t_pri[g] \in Int
      BY <1>1, <1>4, <3>1
    <3> HIDE DEF firsts, h, g
    <3>3. CASE t_pri[g] <= t_pri[h]
      BY SMTT(30), <3>1, <3>2, <3>3
    <3>4. CASE t_pri[h] <= t_pri[g]
      BY SMTT(30), <3>1, <3>2, <3>4
    <3>5. QED
      BY SMTT(30), <3>2, <3>3, <3>4
  <2>3. QED
    BY <2>1, <2>2
<1>6. TstileMaxpri = CHOOSE p \in Pris : /\ \E t \in firsts : t_pri[t] = p
                                        /\ \A t \in firsts : t_pri[t] <= p
  BY <1>2 DEF TstileMaxpri
<1> HIDE DEF firsts
<1>7. TstileMaxpri \in Pris /\ \A t \in firsts : t_pri[t] <= TstileMaxpri
  BY <1>5, <1>6
<1> HIDE DEF h
<1>8. t_pri[h] \in Int /\ TstileMaxpri \in Int /\ t_pri[h] <= TstileMaxpri
  BY <1>1, <1>2, <1>7
<1>9. QED
  BY SMTT(30), <1>1, <1>3, <1>7, <1>8

\* A new writer inherits from the readers that sleep.
LEMMA AmendStep ==
    ASSUME RwLaws, Inv, NEW t \in Users, Amend(t)
    PROVE  Inv'
<1>. IInv
  BY DEF Inv
<1>1. thr[t].pc = "amend" /\ thr[t].rw = W /\ UNCHANGED <<lockVars, waiters, tsq, mp, t_pri>>
  BY DEF Amend, IInv, Types
<1>2. Becomes(t, {}, "held", W)
  BY <1>1, BecomesPc DEF Amend, IInv, Types, Hold
<1>3. /\ \A u \in Users \ {t} : thr'[u].pc = thr[u].pc /\ thr'[u].rw = thr[u].rw
      /\ thr'[t].pc = "held" /\ thr'[t].rw = W /\ thr' \in [Users -> Thr]
  BY <1>2 DEF Becomes
<1>4. /\ holdcnt = -1 /\ owner = t /\ mp = None
      /\ \A v \in Users : thr[v].pc \in Hold => v = t
  BY <1>1, Facts DEF Hold
<1>5. \/ tsq[R] = <<>> /\ pirec' = pirec
      \/ tsq[R] # <<>> /\ pirec.benef = t /\ pirec' = pirec
      \/ tsq[R] # <<>> /\ TstileMaxpri > t_pri[t] /\ pirec' = [benef |-> t, pri |-> TstileMaxpri]
      \/ tsq[R] # <<>> /\ ~(TstileMaxpri > t_pri[t]) /\ pirec' = NoPirec
  BY DEF Amend, PiAmend
<1>6. pirec' \in [benef : Users \cup {None}, pri : Pris \cup {0}]
  BY SMTT(30), <1>5, MaxpriFacts DEF NoPirec, IInv, Types
<1>7. Queues' /\ Types'
  <2>1. Queues'
    BY <1>1, <1>2, QueuesSame DEF IInv
  <2>2. QED
    BY <1>1, <1>3, <1>6, <2>1 DEF IInv, Types, lockVars
<1>8. HoldcntExact' /\ Holding(W)' = Holding(W) /\ Holding(W) = {t}
  <2>1. "held" \in Hold /\ t \in Holding(W)
    BY <1>1 DEF Hold, Holding
  <2>2. Holding(W)' = Holding(W) \cup {t} /\ Holding(R)' = Holding(R) \ {t}
    BY SMTT(30), <1>2, <2>1, HoldingAfter
  <2>3. Holding(W) = {t} /\ Holding(R) = {}
    BY <2>1, HoldFacts DEF IInv
  <2>4. QED
    BY <1>1, <2>2, <2>3, HoldcntAfter DEF IInv, lockVars
<1>9. WantExact'
  <2>1. Wanting' = Wanting \ {t} /\ t \notin Wanting
    BY SMTT(30), <1>1, <1>2, WantingAfter DEF Wanting
  <2>2. QED
    BY <1>1, <2>1, WantAfter DEF IInv, lockVars
<1>10. MutexHeld' /\ ReadersWarned'
  BY SMTT(30), <1>1, <1>3, <1>4, Facts DEF MutexHeld, ReadersWarned, lockVars
<1>11. NoneStranded'
  BY SMTT(30), <1>1, <1>4 DEF NoneStranded, lockVars
<1>12. Sleeping' = Sleeping
  BY <1>1, <1>3 DEF Sleeping
<1>13. TurnstileReturned'
  BY <1>1, <1>3, <1>12 DEF IInv, TurnstileReturned
<1>14. OwnerRecorded'
  BY SMTT(30), <1>1, <1>3, <1>4, <1>8 DEF OwnerRecorded, lockVars, Hold
<1>15. pirec.benef # None => pirec.benef = t
  BY <1>4, Facts DEF IInv, PirecSound, Types
<1>16. PirecSound'
  <2>1. CASE pirec' = pirec
    BY <1>1, <1>4, <1>15, <2>1 DEF IInv, PirecSound, lockVars
  <2>2. CASE /\ tsq[R] # <<>> /\ TstileMaxpri > t_pri[t]
             /\ pirec' = [benef |-> t, pri |-> TstileMaxpri]
    <3>1. waiters
      BY <2>2, Facts
    <3>2. QED
      BY <1>1, <1>4, <2>2, <3>1 DEF PirecSound, lockVars
  <2>3. CASE pirec' = NoPirec
    BY <2>3 DEF PirecSound, NoPirec
  <2>4. QED
    BY <1>5, <2>1, <2>2, <2>3
<1>17. Inherits'
  <2> SUFFICES ASSUME NEW u \in Users, NEW r \in Users, thr'[u].pc = "held", thr'[u].rw = W,
                      thr'[r].pc = "sleep", thr'[r].rw = R, t_pri[u] < t_pri[r]
               PROVE  pirec'.benef = u
    BY <1>1 DEF Inherits
  <2>1. u = t
    BY <1>3, <1>4 DEF Hold
  <2>2. thr[r].pc = "sleep" /\ thr[r].rw = R
    BY <1>3
  <2>3. tsq[R] # <<>>
    BY <2>2, Facts
  <2>4. /\ t_pri[r] <= TstileMaxpri /\ TstileMaxpri \in Int
        /\ t_pri[r] \in Int /\ t_pri[t] \in Int
    <3>1. TstileMaxpri \in Pris /\ t_pri[r] <= TstileMaxpri
      BY <2>2, <2>3, MaxpriFacts
    <3>2. t_pri \in [Users -> Int] /\ Pris \subseteq Int
      BY SMTT(30), Priorities DEF RwLaws, IInv
    <3>3. QED
      BY <3>1, <3>2
  <2>5. TstileMaxpri > t_pri[t]
    BY SMTT(30), <2>1, <2>4
  <2>6. QED
    BY SMTT(30), <1>5, <2>1, <2>3, <2>5
<1>18. QED
  BY <1>7, <1>8, <1>9, <1>10, <1>11, <1>13, <1>14, <1>16, <1>17 DEF IInv, Inv
------------------------------------------------------------------------------
(* rw_downgrade() *)

\* rw_downgrade() takes the mutex and becomes a reader.
LEMMA DowngradeStep ==
    ASSUME RwLaws, Inv, NEW t \in Users, RwDowngrade(t)
    PROVE  Inv'
<1>. IInv
  BY DEF Inv
<1> DEFINE x == IF writewanted = 0 THEN "wakeup" ELSE "held"
<1>1. /\ thr[t].pc \in {"held", "tried"} /\ thr[t].rw = W /\ mp = None /\ holdcnt' = 1
      /\ UNCHANGED <<writewanted, owner, tsVars, mp, t_pri>>
  BY DEF RwDowngrade, Holds
<1>2. Becomes(t, {}, x, R)
  <2>1. thr \in [Users -> Thr] /\ thr' = [thr EXCEPT ![t].rw = R, ![t].pc = x]
    BY DEF RwDowngrade, IInv, Types
  <2>2. R \in {R, W} /\ x \in Hold
    BY DEF Hold
  <2> HIDE DEF x
  <2>3. thr' \in [Users -> Thr]
    BY <2>1, <2>2 DEF Thr
  <2>4. QED
    BY <2>1, <2>3 DEF Becomes, Thr
<1>3. /\ Types' /\ Queues' /\ TurnstileReturned' /\ Sleeping' = Sleeping
      /\ \A u \in Users \ {t} : thr'[u].pc = thr[u].pc /\ thr'[u].rw = thr[u].rw
      /\ thr'[t].pc = x /\ thr'[t].rw = R
  <2>1. owner' \in Users \cup {None} /\ mp' \in Users \cup {None}
    BY <1>1 DEF IInv, Types
  <2>2. thr[t].pc # "sleep" /\ x # "sleep" /\ x # "out" /\ x # "amend"
    BY <1>1
  <2>3. QED
    BY <1>1, <1>2, <2>1, <2>2, AwakeStep
<1>4. /\ holdcnt = -1 /\ owner = t
      /\ \A v \in Users : thr[v].pc \in Hold => v = t
  BY <1>1, Facts DEF Hold
<1>5. HoldcntExact' /\ Holding(W)' = {}
  <2>1. x \in Hold /\ t \in Holding(W)
    BY <1>1 DEF Hold, Holding
  <2>2. Holding(R)' = Holding(R) \cup {t} /\ Holding(W)' = Holding(W) \ {t}
    BY SMTT(30), <1>2, <2>1, HoldingAfter
  <2>3. Holding(W) = {t} /\ Holding(R) = {}
    BY <2>1, HoldFacts DEF IInv
  <2>4. Holding(R)' = {t} /\ Holding(W)' = {}
    BY <2>2, <2>3
  <2>5. QED
    BY <1>1, <2>4, HoldcntAfter DEF IInv
<1>6. WantExact'
  <2>1. Wanting' = Wanting \ {t} /\ t \notin Wanting
    BY SMTT(30), <1>1, <1>2, WantingAfter DEF Wanting
  <2>2. QED
    BY <1>1, <2>1, WantAfter DEF IInv
<1>7. MutexHeld' /\ ReadersWarned'
  BY SMTT(30), <1>1, <1>3, Facts DEF MutexHeld, ReadersWarned
<1>8. NoneStranded'
  <2>1. writewanted \in Nat
    BY Facts
  <2>2. CASE writewanted = 0
    BY <1>1, <1>3, <2>2 DEF NoneStranded, OnTheWay
  <2>3. CASE writewanted > 0
    BY SMTT(30), <1>1, <2>3 DEF NoneStranded
  <2>4. QED
    BY SMTT(30), <2>1, <2>2, <2>3
<1>9. OwnerRecorded'
  BY <1>1, <1>3, <1>4, <1>5 DEF OwnerRecorded, Hold
<1>10. PirecSound'
  <2>1. pirec.benef # None => pirec.benef = owner
    BY <1>1, Facts DEF IInv, PirecSound, Types
  <2>2. QED
    BY <1>1, <2>1 DEF IInv, PirecSound, tsVars
<1>11. Inherits'
  BY <1>5 DEF Inherits, Holding
<1>12. QED
  BY <1>3, <1>5, <1>6, <1>7, <1>8, <1>9, <1>10, <1>11 DEF IInv, Inv

\* rw_downgrade() wakes the readers.
LEMMA WakeupStep ==
    ASSUME RwLaws, Inv, NEW t \in Users, DowngradeWakeup(t)
    PROVE  Inv'
<1>. IInv
  BY DEF Inv
<1> DEFINE S == IF waiters THEN AllReaders ELSE {}
<1>1. /\ thr[t].pc = "wakeup" /\ UNCHANGED <<lockVars, mp, t_pri>>
      /\ thr \in [Users -> Thr] /\ waiters \in BOOLEAN
  BY DEF DowngradeWakeup, IInv, Types
<1>2. thr[t].rw = R /\ holdcnt > 0
  BY <1>1, Facts
<1>3. \A u \in S : u \in Users /\ thr[u].pc = "sleep" /\ thr[u].rw = R
  BY QueueFacts DEF AllReaders, IInv
<1>4. Becomes(t, S, "held", R)
  <2>1. "held" \in Hold \cup {"out", "block", "sleep", "retry", "exit"} /\ t \notin S
    BY <1>1, <1>3 DEF Hold
  <2>2. CASE waiters
    <3>1. thr' = Wake(S, [thr EXCEPT ![t].pc = "held"])
      BY <2>2 DEF DowngradeWakeup
    <3>2. QED
      BY <1>1, <1>2, <2>1, <3>1, BecomesWake
  <2>3. CASE ~waiters
    <3>1. Goto(t, "held") /\ S = {}
      BY <2>3 DEF DowngradeWakeup
    <3>2. Becomes(t, {}, "held", R)
      BY <1>1, <1>2, <2>1, <3>1, BecomesPc
    <3>3. QED
      BY <3>1, <3>2
  <2>4. QED
    BY <2>2, <2>3
<1>5. /\ \A u \in Users \ {t} : /\ thr'[u].rw = thr[u].rw
                              /\ thr'[u].pc = IF u \in S THEN "retry" ELSE thr[u].pc
      /\ thr'[t].pc = "held" /\ thr'[t].rw = R /\ thr' \in [Users -> Thr]
  BY <1>4 DEF Becomes
<1>6. /\ Queues' /\ tsq' \in [{R, W} -> Seq(Users)] /\ tsq'[R] = <<>>
      /\ pirec' = pirec \/ pirec' = NoPirec
      /\ waiters' = (tsq'[R] # <<>> \/ tsq'[W] # <<>>)
  <2>1. CASE waiters
    <3>1. /\ tsq' = LessReaders /\ pirec' = NoPirec
          /\ waiters' = (tsq'[R] # <<>> \/ tsq'[W] # <<>>)
      BY <2>1 DEF DowngradeWakeup, Release
    <3>2. Queues' /\ tsq' \in [{R, W} -> Seq(Users)]
      BY <1>1, <1>4, <2>1, <3>1, QueuesReaders DEF IInv
    <3>3. tsq'[R] = <<>>
      BY <3>1 DEF LessReaders, IInv, Types
    <3>4. QED
      BY <3>1, <3>2, <3>3
  <2>2. CASE ~waiters
    <3>1. UNCHANGED tsVars /\ Becomes(t, {}, "held", R)
      BY <1>4, <2>2 DEF DowngradeWakeup
    <3>2. Queues'
      BY <1>1, <3>1, QueuesSame DEF tsVars, IInv
    <3>3. tsq[R] = <<>> /\ tsq[W] = <<>>
      <4>1. \A u \in Users : thr[u].pc # "sleep"
        BY <2>2, Facts
      <4>2. QED
        BY <4>1, QueueFacts DEF IInv
    <3>4. QED
      BY <2>2, <3>1, <3>2, <3>3 DEF tsVars, IInv, Types
  <2>3. QED
    BY <1>1, <2>1, <2>2
<1>7. Types'
  <2>1. pirec' \in [benef : Users \cup {None}, pri : Pris \cup {0}]
    BY SMTT(30), <1>6 DEF NoPirec, IInv, Types
  <2>2. QED
    BY <1>1, <1>5, <1>6, <2>1 DEF IInv, Types, lockVars
<1>8. HoldcntExact' /\ Holding(W)' = {}
  <2>1. "held" \in Hold /\ t \in Holding(R) /\ \A u \in S : thr[u].pc = "sleep"
    BY <1>1, <1>2, <1>3 DEF Hold, Holding
  <2>2. Holding(R)' = Holding(R) \cup {t} /\ Holding(W)' = Holding(W) \ {t}
    BY SMTT(30), <1>4, <2>1, HoldingAfter
  <2>3. Holding(W) = {}
    BY SMTT(30), <1>2, HoldFacts DEF IInv
  <2>4. Holding(R)' = Holding(R) /\ Holding(W)' = Holding(W)
    BY <2>1, <2>2, <2>3
  <2>5. QED
    BY <1>1, <2>3, <2>4, HoldcntAfter DEF IInv, lockVars
<1>9. WantExact'
  <2>1. \A u \in S : thr[u].pc = "sleep"
    BY <1>3
  <2>2. Wanting' = Wanting \ {t} /\ t \notin Wanting
    BY SMTT(30), <1>1, <1>4, <2>1, WantingAfter DEF Wanting
  <2>3. QED
    BY <1>1, <2>2, WantAfter DEF IInv, lockVars
<1>10. MutexHeld'
  BY <1>1, <1>2, <1>3, <1>5, Facts DEF MutexHeld, lockVars
<1>11. ReadersWarned' /\ NoneStranded'
  BY SMTT(30), <1>1, <1>2, <1>6 DEF ReadersWarned, NoneStranded, lockVars
<1>12. TurnstileReturned'
  <2>1. \A u \in Users : thr'[u].pc = "sleep" => tsq'[thr'[u].rw] # <<>>
    BY <1>5, <1>6, SleepersAfter DEF Thr
  <2>2. \A u \in Users : thr'[u].rw \in {R, W}
    BY <1>5 DEF Thr
  <2>3. QED
    BY <1>5, <1>6, <2>1, <2>2 DEF TurnstileReturned, Sleeping
<1>13. OwnerRecorded'
  BY <1>1, <1>3, <1>5, <1>8 DEF IInv, OwnerRecorded, Types, lockVars, Hold
<1>14. PirecSound'
  <2>1. CASE waiters
    <3>1. pirec' = NoPirec
      BY <2>1 DEF DowngradeWakeup, Release
    <3>2. QED
      BY <3>1 DEF PirecSound, NoPirec
  <2>2. CASE ~waiters
    <3>1. pirec' = pirec /\ pirec.benef = None
      BY <2>2 DEF DowngradeWakeup, tsVars, IInv, PirecSound
    <3>2. QED
      BY <3>1 DEF PirecSound
  <2>3. QED
    BY <2>1, <2>2
<1>15. Inherits'
  BY <1>8 DEF Inherits, Holding
<1>16. QED
  BY <1>6, <1>7, <1>8, <1>9, <1>10, <1>11, <1>12, <1>13, <1>14, <1>15 DEF IInv, Inv
------------------------------------------------------------------------------
(* rw_exit() *)

\* rw_exit() gives up the hold.
LEMMA RwExitStep ==
    ASSUME RwLaws, Inv, NEW t \in Users, RwExit(t)
    PROVE  Inv'
<1>. IInv
  BY DEF Inv
<1>1. /\ thr[t].pc \in {"held", "tried"} /\ mp = None /\ mp' = t
      /\ UNCHANGED <<writewanted, tsVars, t_pri>>
  BY DEF RwExit, Holds
<1>2. Becomes(t, {}, "exit", thr[t].rw)
  BY BecomesPc DEF RwExit, IInv, Types
<1>3. /\ Types' /\ Queues' /\ TurnstileReturned' /\ Sleeping' = Sleeping
      /\ \A u \in Users \ {t} : thr'[u].pc = thr[u].pc /\ thr'[u].rw = thr[u].rw
      /\ thr'[t].pc = "exit" /\ thr'[t].rw = thr[t].rw
  <2>1. owner' \in Users \cup {None} /\ mp' \in Users \cup {None}
    BY <1>1 DEF RwExit, IInv, Types
  <2>2. QED
    BY <1>1, <1>2, <2>1, AwakeStep
<1>4. thr[t].rw \in {R, W} /\ "exit" \notin Hold /\ holdcnt \in Int
  BY Facts DEF Hold
<1>5. /\ \A q : Holding(q)' = Holding(q) \ {t}
      /\ t \in Holding(thr[t].rw)
  <2>1. ASSUME NEW q PROVE Holding(q)' = Holding(q) \ {t}
    BY SMTT(30), <1>2, <1>4, HoldingAfter
  <2>2. QED
    BY <1>1, <2>1 DEF Holding
<1>6. CASE thr[t].rw = W
  <2>1. holdcnt' = 0 /\ owner' = None
    BY <1>6 DEF RwExit
  <2>2. Holding(W) = {t} /\ Holding(R) = {} /\ holdcnt = -1 /\ owner = t
    BY <1>1, <1>5, <1>6, HoldFacts, Facts DEF IInv, Hold
  <2>3. Holding(R)' = {} /\ Holding(W)' = {}
    BY <1>5, <2>2
  <2>4. HoldcntExact'
    BY <2>1, <2>3, HoldcntAfter DEF IInv
  <2>5. OwnerRecorded' /\ Inherits'
    BY <2>1, <2>3 DEF OwnerRecorded, Inherits, Holding
  <2>6. PirecSound'
    <3>1. pirec.benef # None => pirec.benef = t
      BY <1>1, <2>2, Facts DEF IInv, PirecSound, Types
    <3>2. QED
      BY <1>1, <1>3, <1>6, <3>1 DEF IInv, PirecSound, tsVars
  <2>7. MutexHeld' /\ ReadersWarned'
    BY SMTT(30), <1>1, <1>3, <1>6, <2>1, Facts DEF MutexHeld, ReadersWarned
  <2>8. NoneStranded'
    BY <1>3 DEF NoneStranded, OnTheWay
  <2>9. WantExact'
    <3>1. Wanting' = Wanting \ {t} /\ t \notin Wanting
      BY SMTT(30), <1>1, <1>2, WantingAfter DEF Wanting
    <3>2. QED
      BY <1>1, <3>1, WantAfter DEF IInv
  <2>10. QED
    BY <1>3, <2>4, <2>5, <2>6, <2>7, <2>8, <2>9 DEF IInv, Inv
<1>7. CASE thr[t].rw = R
  <2>1. holdcnt' = holdcnt - 1 /\ owner' = owner
    BY <1>7 DEF RwExit
  <2>2. t \in Holding(R) /\ Holding(W) = {} /\ holdcnt > 0
    BY <1>4, <1>5, <1>7, HoldFacts DEF IInv
  <2>3. Holding(R)' = Holding(R) \ {t} /\ Holding(W)' = {}
    BY <1>5, <2>2
  <2>4. HoldcntExact'
    BY <2>1, <2>2, <2>3, HoldcntAfter DEF IInv
  <2>5. OwnerRecorded'
    BY <1>3, <1>7, <2>1, <2>3 DEF IInv, OwnerRecorded, Types
  <2>6. Inherits'
    BY <2>3 DEF Inherits, Holding
  <2>7. PirecSound'
    <3>1. pirec.benef # None => pirec.benef = owner
      BY <1>1, Facts DEF IInv, PirecSound, Types
    <3>2. QED
      BY <1>1, <2>1, <3>1 DEF IInv, PirecSound, tsVars
  <2>8. MutexHeld'
    BY SMTT(30), <1>1, <1>3, <1>4, <2>1, <2>2, Facts DEF MutexHeld
  <2>9. ReadersWarned'
    <3>1. CASE writewanted > 0
      BY <1>1, <3>1 DEF ReadersWarned
    <3>2. CASE writewanted = 0 /\ tsq[R] # <<>>
      <4>1. PICK u \in Users : thr[u].pc = "wakeup"
        BY SMTT(30), <1>1, <1>4, <2>2, <3>2, WhoWarns
      <4>2. thr'[u].pc = "wakeup"
        BY <1>1, <1>3, <4>1
      <4>3. QED
        BY <4>2 DEF ReadersWarned
    <3>3. CASE tsq[R] = <<>>
      BY <1>1, <3>3 DEF ReadersWarned, tsVars
    <3>4. QED
      BY SMTT(30), <3>1, <3>2, <3>3, Facts
  <2>10. NoneStranded'
    BY <1>3 DEF NoneStranded, OnTheWay
  <2>11. WantExact'
    <3>1. Wanting' = Wanting \ {t} /\ t \notin Wanting
      BY SMTT(30), <1>1, <1>2, WantingAfter DEF Wanting
    <3>2. QED
      BY <1>1, <3>1, WantAfter DEF IInv
  <2>12. QED
    BY <1>3, <2>4, <2>5, <2>6, <2>7, <2>8, <2>9, <2>10, <2>11 DEF IInv, Inv
<1>8. QED
  BY <1>4, <1>6, <1>7

\* What holds of every way out of rw_exit(), which wakes the threads of S.
LEMMA LeaveStep ==
    ASSUME RwLaws, Inv, NEW t \in Users, NEW S, thr[t].pc = "exit",
           \A u \in S : u \in Users /\ thr[u].pc = "sleep",
           thr' = Wake(S, [thr EXCEPT ![t].pc = "out"]), mp' = None,
           UNCHANGED <<holdcnt, writewanted, t_pri>>
    PROVE  /\ HoldcntExact' /\ WantExact' /\ MutexHeld' /\ ReadersWarned' /\ Inherits'
           /\ Becomes(t, S, "out", thr[t].rw) /\ t \notin S
           /\ holdcnt >= 0 /\ mp = t /\ Holding(W)' = {}
           /\ \A u \in Users \ {t} : thr'[u].rw = thr[u].rw
           /\ \A u \in Users \ {t} : thr'[u].pc = IF u \in S THEN "retry" ELSE thr[u].pc
           /\ thr'[t].pc = "out" /\ thr'[t].rw = thr[t].rw /\ thr' \in [Users -> Thr]
<1>. IInv
  BY DEF Inv
<1>1. Becomes(t, S, "out", thr[t].rw) /\ t \notin S
  <2>1. t \notin S
    OBVIOUS
  <2>2. QED
    BY <2>1, BecomesWake DEF IInv, Types
<1>2. /\ \A u \in Users \ {t} : thr'[u].rw = thr[u].rw
      /\ \A u \in Users \ {t} : thr'[u].pc = IF u \in S THEN "retry" ELSE thr[u].pc
      /\ thr'[t].pc = "out" /\ thr'[t].rw = thr[t].rw /\ thr' \in [Users -> Thr]
  BY <1>1 DEF Becomes
<1>3. mp = t /\ holdcnt >= 0
  BY Facts
<1>4. Holding(W) = {}
  BY <1>3, HoldFacts DEF IInv
<1>5. Holding(R)' = Holding(R) /\ Holding(W)' = Holding(W)
  <2>1. "out" \notin Hold /\ t \notin Holding(R) /\ t \notin Holding(W)
    BY DEF Hold, Holding
  <2>2. Holding(R)' = Holding(R) \ {t} /\ Holding(W)' = Holding(W) \ {t}
    BY SMTT(30), <1>1, <2>1, HoldingAfter
  <2>3. QED
    BY <2>1, <2>2
<1>6. HoldcntExact'
  BY <1>5, HoldcntAfter DEF IInv
<1>7. WantExact'
  <2>1. \A u \in S : thr[u].pc = "sleep"
    OBVIOUS
  <2>2. ~("out" \in {"block", "sleep", "retry"} /\ thr[t].rw = W)
    OBVIOUS
  <2>3. Wanting' = Wanting \ {t}
    BY <1>1, <2>1, <2>2, WantingAfter
  <2>4. t \notin Wanting
    BY DEF Wanting
  <2>5. Wanting' = Wanting
    BY <2>3, <2>4
  <2>6. QED
    BY <2>5, WantAfter DEF IInv
<1>8. MutexHeld' /\ ReadersWarned'
  <2>1. MutexHeld'
    BY <1>2, <1>3, Facts DEF MutexHeld
  <2>2. ReadersWarned'
    BY <1>2, <1>3, Facts DEF ReadersWarned
  <2>3. QED
    BY <2>1, <2>2
<1>9. Inherits'
  BY <1>4, <1>5 DEF Inherits, Holding
<1>10. QED
  BY <1>1, <1>2, <1>3, <1>4, <1>5, <1>6, <1>7, <1>8, <1>9

\* The turnstile after Release(): it is there as long as threads sleep in it.
LEMMA ReleaseStep ==
    ASSUME Inv, NEW t \in Users, NEW waive, waiters, Release(tsq', waive),
           Queues', tsq' \in [{R, W} -> Seq(Users)], thr' \in [Users -> Thr]
    PROVE  /\ TurnstileReturned'
           /\ waiters' \in BOOLEAN /\ pirec' \in [benef : Users \cup {None}, pri : Pris \cup {0}]
           /\ pirec' = NoPirec \/ (~waive /\ waiters' /\ pirec' = pirec)
           /\ tsq'[R] # <<>> \/ tsq'[W] # <<>> <=> waiters'
<1>. IInv
  BY DEF Inv
<1>1. waiters' = (tsq'[R] # <<>> \/ tsq'[W] # <<>>)
  BY DEF Release
<1>2. \A u \in Users : thr'[u].rw \in {R, W}
  BY DEF Thr
<1>3. \A u \in Users : thr'[u].pc = "sleep" => tsq'[R] # <<>> \/ tsq'[W] # <<>>
  BY <1>2, SleepersAfter
<1>4. tsq'[R] # <<>> \/ tsq'[W] # <<>> => \E u \in Users : thr'[u].pc = "sleep"
  BY SleepersAfter
<1>5. TurnstileReturned'
  BY <1>1, <1>3, <1>4 DEF TurnstileReturned, Sleeping
<1>6. pirec' = NoPirec \/ (~waive /\ waiters' /\ pirec' = pirec)
  BY <1>1 DEF Release
<1>7. pirec' \in [benef : Users \cup {None}, pri : Pris \cup {0}]
  BY SMTT(30), <1>6 DEF NoPirec, IInv, Types
<1>8. QED
  BY <1>1, <1>5, <1>6, <1>7

\* If a writer waits, then it is awake once the first one asleep has been woken.
LEMMA WriterWoken ==
    ASSUME RwLaws, Inv, NEW t \in Users, thr[t].pc = "exit", writewanted > 0,
           Becomes(t, FirstWriter, "out", thr[t].rw)
    PROVE  OnTheWay'
<1>. IInv
  BY DEF Inv
<1>1. \A u \in Users \ {t} : /\ thr'[u].rw = thr[u].rw
                          /\ thr'[u].pc = IF u \in FirstWriter THEN "retry" ELSE thr[u].pc
  BY DEF Becomes
<1>2. PICK u \in Users : thr[u].rw = W /\ thr[u].pc \in {"block", "sleep", "retry"}
  BY Facts
<1>3. CASE thr[u].pc = "sleep"
  <2>1. tsq[W] # <<>>
    BY <1>2, <1>3, Facts
  <2>2. PICK h \in Users : h = Head(tsq[W]) /\ thr[h].pc = "sleep" /\ thr[h].rw = W
    BY <2>1, QueueFacts DEF IInv
  <2>3. h \in FirstWriter /\ h # t
    BY <2>1, <2>2 DEF FirstWriter
  <2>4. thr'[h].pc = "retry" /\ thr'[h].rw = W
    BY <1>1, <2>2, <2>3
  <2>5. QED
    BY <2>4 DEF OnTheWay
<1>4. CASE thr[u].pc \in {"block", "retry"}
  <2>1. u # t
    BY <1>4
  <2>2. thr'[u].rw = W /\ thr'[u].pc \in {"block", "retry"}
    BY <1>1, <1>2, <1>4, <2>1
  <2>3. QED
    BY <2>2 DEF OnTheWay
<1>5. QED
  BY <1>2, <1>3, <1>4

\* Those that a release wakes are asleep; without waiters nobody is.
LEMMA WokenSleep ==
    ASSUME RwLaws, Inv
    PROVE  /\ \A u \in FirstWriter : u \in Users /\ thr[u].pc = "sleep" /\ thr[u].rw = W
           /\ \A u \in AllReaders : u \in Users /\ thr[u].pc = "sleep" /\ thr[u].rw = R
           /\ ~waiters => /\ FirstWriter = {} /\ tsq[R] = <<>> /\ tsq[W] = <<>>
                          /\ \A u \in Users : thr[u].pc # "sleep"
<1>. IInv
  BY DEF Inv
<1>1. \A u \in FirstWriter : u \in Users /\ thr[u].pc = "sleep" /\ thr[u].rw = W
  BY QueueFacts DEF FirstWriter, IInv
<1>2. \A u \in AllReaders : u \in Users /\ thr[u].pc = "sleep" /\ thr[u].rw = R
  BY QueueFacts DEF AllReaders, IInv
<1>3. ~waiters => \A u \in Users : thr[u].pc # "sleep"
  BY Facts
<1>4. ~waiters => tsq[R] = <<>> /\ tsq[W] = <<>>
  BY <1>3, QueueFacts DEF IInv
<1>5. QED
  BY <1>1, <1>2, <1>3, <1>4 DEF FirstWriter

\* rw_exit() of a writer wakes whoever is next.
LEMMA ExitWriterStep ==
    ASSUME RwLaws, Inv, NEW t \in Users, thr[t].pc = "exit", thr[t].rw = W,
           ExitWriter(t), UNCHANGED <<owner, holdcnt, writewanted, t_pri>>
    PROVE  Inv'
<1>. IInv
  BY DEF Inv
<1>1. /\ owner # t
      /\ owner # None => owner \in Users /\ thr[owner].pc # "sleep"
  BY Facts DEF IInv, OwnerRecorded, Types, Hold
<1>2. ASSUME NEW S, \A u \in S : u \in Users /\ thr[u].pc = "sleep", Leave(S, t)
      PROVE  OwnerRecorded'
  <2>1. /\ \A u \in Users \ {t} : thr'[u].rw = thr[u].rw
        /\ \A u \in Users \ {t} : thr'[u].pc = IF u \in S THEN "retry" ELSE thr[u].pc
        /\ Holding(W)' = {}
    BY <1>2, LeaveStep DEF Leave
  <2>2. QED
    BY <1>1, <1>2, <2>1 DEF IInv, OwnerRecorded
<1>3. CASE ~waiters /\ UNCHANGED tsVars /\ Leave({}, t)
  <2>1. /\ HoldcntExact' /\ WantExact' /\ MutexHeld' /\ ReadersWarned' /\ Inherits'
        /\ Becomes(t, {}, "out", W) /\ mp' = None /\ thr' \in [Users -> Thr]
        /\ \A u \in Users \ {t} : thr'[u].pc = thr[u].pc /\ thr'[u].rw = thr[u].rw
        /\ thr'[t].pc = "out" /\ thr'[t].rw = W
    <3>1. PICK S : S = {}
      OBVIOUS
    <3>2. /\ \A u \in S : u \in Users /\ thr[u].pc = "sleep"
          /\ thr' = Wake(S, [thr EXCEPT ![t].pc = "out"]) /\ mp' = None
      BY <1>3, <3>1 DEF Leave
    <3>3. /\ HoldcntExact' /\ WantExact' /\ MutexHeld' /\ ReadersWarned' /\ Inherits'
          /\ Becomes(t, S, "out", W) /\ thr' \in [Users -> Thr]
          /\ \A u \in Users \ {t} : thr'[u].rw = thr[u].rw
          /\ \A u \in Users \ {t} : thr'[u].pc = IF u \in S THEN "retry" ELSE thr[u].pc
          /\ thr'[t].pc = "out" /\ thr'[t].rw = W
      BY <3>2, LeaveStep
    <3>4. QED
      BY <3>1, <3>2, <3>3
  <2>2. Queues' /\ Types'
    <3>1. Queues'
      BY <1>3, <2>1, QueuesSame DEF IInv, tsVars
    <3>2. QED
      BY <1>3, <2>1, <3>1 DEF IInv, Types, tsVars
  <2>3. \A u \in Users : thr'[u].pc # "sleep"
    BY <1>3, <2>1, WokenSleep
  <2>4. NoneStranded' /\ TurnstileReturned'
    BY <1>3, <2>3, WokenSleep DEF NoneStranded, TurnstileReturned, Sleeping, tsVars
  <2>5. PirecSound'
    BY <1>3 DEF IInv, PirecSound, tsVars
  <2>6. OwnerRecorded'
    BY <1>2, <1>3
  <2>7. QED
    BY <2>1, <2>2, <2>4, <2>5, <2>6 DEF IInv, Inv
<1>4. CASE waiters /\ writewanted > 0 /\ Release(LessWriter, TRUE) /\ Leave(FirstWriter, t)
  <2>1. /\ HoldcntExact' /\ WantExact' /\ MutexHeld' /\ ReadersWarned' /\ Inherits'
        /\ Becomes(t, FirstWriter, "out", W) /\ mp' = None /\ thr' \in [Users -> Thr]
        /\ \A u \in Users \ {t} : thr'[u].rw = thr[u].rw
        /\ \A u \in Users \ {t} : thr'[u].pc = IF u \in FirstWriter THEN "retry" ELSE thr[u].pc
        /\ thr'[t].pc = "out" /\ thr'[t].rw = W
    <3>1. \A u \in FirstWriter : u \in Users /\ thr[u].pc = "sleep"
      BY WokenSleep
    <3>2. thr' = Wake(FirstWriter, [thr EXCEPT ![t].pc = "out"]) /\ mp' = None
      BY <1>4 DEF Leave
    <3>3. QED
      BY <3>1, <3>2, LeaveStep
  <2>2. tsq' = LessWriter /\ Release(tsq', TRUE)
    BY <1>4 DEF Release
  <2>3. Queues' /\ tsq' \in [{R, W} -> Seq(Users)]
    BY <2>1, <2>2, QueuesWriter DEF IInv
  <2>4. /\ TurnstileReturned' /\ waiters' \in BOOLEAN
        /\ pirec' \in [benef : Users \cup {None}, pri : Pris \cup {0}] /\ pirec' = NoPirec
    BY <1>4, <2>1, <2>2, <2>3, ReleaseStep
  <2>5. Types'
    <3>1. Types /\ owner' \in Users \cup {None} /\ mp' \in Users \cup {None}
      BY <2>1 DEF IInv, Types
    <3>2. QED
      BY <2>1, <2>3, <2>4, <3>1, TypesOut
  <2>6. NoneStranded'
    <3>1. OnTheWay'
      BY <1>4, <2>1, WriterWoken
    <3>2. QED
      BY <1>4, <3>1 DEF NoneStranded
  <2>7. PirecSound'
    BY <2>4 DEF PirecSound, NoPirec
  <2>8. OwnerRecorded'
    BY <1>2, <1>4, WokenSleep
  <2>9. QED
    BY <2>1, <2>3, <2>4, <2>5, <2>6, <2>7, <2>8 DEF IInv, Inv
<1>5. CASE waiters /\ writewanted = 0 /\ Release(LessReaders, TRUE) /\ Leave(AllReaders, t)
  <2>1. /\ HoldcntExact' /\ WantExact' /\ MutexHeld' /\ ReadersWarned' /\ Inherits'
        /\ Becomes(t, AllReaders, "out", W) /\ mp' = None /\ thr' \in [Users -> Thr]
        /\ \A u \in Users \ {t} : thr'[u].rw = thr[u].rw
        /\ \A u \in Users \ {t} : thr'[u].pc = IF u \in AllReaders THEN "retry" ELSE thr[u].pc
        /\ thr'[t].pc = "out" /\ thr'[t].rw = W
    <3>1. \A u \in AllReaders : u \in Users /\ thr[u].pc = "sleep"
      BY WokenSleep
    <3>2. thr' = Wake(AllReaders, [thr EXCEPT ![t].pc = "out"]) /\ mp' = None
      BY <1>5 DEF Leave
    <3>3. QED
      BY <3>1, <3>2, LeaveStep
  <2>2. tsq' = LessReaders /\ Release(tsq', TRUE)
    BY <1>5 DEF Release
  <2>3. Queues' /\ tsq' \in [{R, W} -> Seq(Users)]
    BY <2>1, <2>2, QueuesReaders DEF IInv
  <2>4. /\ TurnstileReturned' /\ waiters' \in BOOLEAN
        /\ pirec' \in [benef : Users \cup {None}, pri : Pris \cup {0}] /\ pirec' = NoPirec
    BY <1>5, <2>1, <2>2, <2>3, ReleaseStep
  <2>5. Types'
    <3>1. Types /\ owner' \in Users \cup {None} /\ mp' \in Users \cup {None}
      BY <2>1 DEF IInv, Types
    <3>2. QED
      BY <2>1, <2>3, <2>4, <3>1, TypesOut
  <2>6. \A u \in Users : thr'[u].pc # "sleep"
    <3> SUFFICES ASSUME NEW u \in Users, thr'[u].pc = "sleep" PROVE FALSE
      OBVIOUS
    <3>1. u # t /\ u \notin AllReaders /\ thr[u].pc = "sleep"
      BY <2>1
    <3>2. thr[u].rw = W
      BY <3>1, Facts, QueueFacts DEF AllReaders, IInv
    <3>3. QED
      BY SMTT(30), <1>5, <3>1, <3>2, Facts
  <2>7. NoneStranded'
    BY <2>2, <2>3, <2>6, SleepersAfter DEF NoneStranded, Sleeping
  <2>8. PirecSound'
    BY <2>4 DEF PirecSound, NoPirec
  <2>9. OwnerRecorded'
    BY <1>2, <1>5, WokenSleep
  <2>10. QED
    BY <2>1, <2>3, <2>4, <2>5, <2>7, <2>8, <2>9 DEF IInv, Inv
<1>6. QED
  BY <1>3, <1>4, <1>5 DEF ExitWriter

\* rw_exit() of the last reader wakes whoever is next.
LEMMA ExitReaderStep ==
    ASSUME RwLaws, Inv, NEW t \in Users, thr[t].pc = "exit", thr[t].rw = R,
           ExitReader(t), UNCHANGED <<holdcnt, writewanted, t_pri>>
    PROVE  Inv'
<1>. IInv
  BY DEF Inv
<1> DEFINE S == IF holdcnt = 0 THEN FirstWriter ELSE {}
<1>1. /\ owner' = IF owner = t THEN None ELSE owner
      /\ thr' = Wake(S, [thr EXCEPT ![t].pc = "out"]) /\ mp' = None
      /\ \A u \in S : u \in Users /\ thr[u].pc = "sleep"
  BY WokenSleep DEF ExitReader, Leave
<1>2. /\ HoldcntExact' /\ WantExact' /\ MutexHeld' /\ ReadersWarned' /\ Inherits'
      /\ Becomes(t, S, "out", R) /\ thr' \in [Users -> Thr]
      /\ holdcnt >= 0 /\ mp = t /\ Holding(W)' = {}
      /\ \A u \in Users \ {t} : thr'[u].rw = thr[u].rw
      /\ \A u \in Users \ {t} : thr'[u].pc = IF u \in S THEN "retry" ELSE thr[u].pc
      /\ thr'[t].pc = "out" /\ thr'[t].rw = R
  <2> HIDE DEF S
  <2>1. /\ HoldcntExact' /\ WantExact' /\ MutexHeld' /\ ReadersWarned' /\ Inherits'
        /\ Becomes(t, S, "out", thr[t].rw) /\ thr' \in [Users -> Thr]
        /\ holdcnt >= 0 /\ mp = t /\ Holding(W)' = {}
        /\ \A u \in Users \ {t} : thr'[u].rw = thr[u].rw
        /\ \A u \in Users \ {t} : thr'[u].pc = IF u \in S THEN "retry" ELSE thr[u].pc
        /\ thr'[t].pc = "out" /\ thr'[t].rw = thr[t].rw
    BY <1>1, LeaveStep
  <2>2. QED
    BY <2>1
<1>3. OwnerRecorded'
  <2>1. owner # None => owner \in Users /\ owner \notin S
    BY <1>1 DEF IInv, OwnerRecorded, Types, Hold
  <2> HIDE DEF S
  <2>2. QED
    BY <1>1, <1>2, <2>1, Facts DEF IInv, OwnerRecorded
<1>4. pirec.benef # None => pirec.benef = owner
  BY <1>2, Facts DEF IInv, PirecSound, Types
<1>5. CASE waiters /\ holdcnt = 0
  <2>1. Release(LessWriter, owner = t) /\ S = FirstWriter
    BY <1>5 DEF ExitReader
  <2>2. tsq' = LessWriter /\ Release(tsq', owner = t)
    BY <2>1 DEF Release
  <2>3. Queues' /\ tsq' \in [{R, W} -> Seq(Users)]
    <3>1. Becomes(t, FirstWriter, "out", R) /\ thr[t].pc # "sleep" /\ Types /\ Queues
      BY <1>2, <2>1 DEF IInv
    <3>2. "out" # "sleep"
      OBVIOUS
    <3>3. QED
      BY <2>2, <3>1, <3>2, QueuesWriter
  <2>4. /\ TurnstileReturned' /\ waiters' \in BOOLEAN
        /\ pirec' \in [benef : Users \cup {None}, pri : Pris \cup {0}]
        /\ pirec' = NoPirec \/ (owner # t /\ waiters' /\ pirec' = pirec)
    BY <1>2, <1>5, <2>2, <2>3, ReleaseStep
  <2>5. Types'
    <3>1. Types /\ owner' \in Users \cup {None} /\ mp' \in Users \cup {None}
      BY <1>1 DEF IInv, Types
    <3>2. QED
      BY <1>2, <2>3, <2>4, <3>1, TypesOut
  <2>6. NoneStranded'
    <3>1. CASE writewanted > 0
      <4>1. OnTheWay'
        BY <1>2, <2>1, <3>1, WriterWoken
      <4>2. QED
        BY <3>1, <4>1 DEF NoneStranded
    <3>2. CASE writewanted = 0
      <4>1. \A u \in Users : thr[u].pc # "sleep"
        <5> SUFFICES ASSUME NEW u \in Users, thr[u].pc = "sleep" PROVE FALSE
          OBVIOUS
        <5>1. thr[u].rw = R
          BY SMTT(30), <3>2, Facts
        <5>2. tsq[R] # <<>>
          BY <5>1, Facts
        <5>3. \E v \in Users : thr[v].pc = "wakeup"
          BY SMTT(30), <3>2, <5>2 DEF IInv, ReadersWarned
        <5>4. QED
          BY SMTT(30), <1>5, <5>3, Facts
      <4>2. \A u \in Users : thr'[u].pc # "sleep"
        BY <1>2, <4>1
      <4>3. QED
        BY SMTT(30), <1>5, <4>2 DEF NoneStranded, Sleeping
    <3>3. QED
      BY SMTT(30), <3>1, <3>2, Facts
  <2>7. PirecSound'
    <3>1. CASE pirec' = NoPirec
      BY <3>1 DEF PirecSound, NoPirec
    <3>2. CASE owner # t /\ waiters' /\ pirec' = pirec
      BY <1>1, <1>4, <3>2 DEF IInv, PirecSound
    <3>3. QED
      BY <2>4, <3>1, <3>2
  <2>8. QED
    BY <1>2, <1>3, <2>3, <2>4, <2>5, <2>6, <2>7 DEF IInv, Inv
<1>6. CASE ~(waiters /\ holdcnt = 0)
  <2>1. /\ pirec' = IF waiters /\ owner = t THEN NoPirec ELSE pirec
        /\ UNCHANGED <<waiters, tsq>>
    BY <1>6 DEF ExitReader
  <2>2. S = {}
    BY <1>6, WokenSleep
  <2>3. /\ \A u \in Users \ {t} : thr'[u].pc = thr[u].pc /\ thr'[u].rw = thr[u].rw
        /\ Becomes(t, {}, "out", R)
    BY <1>2, <2>2
  <2>4. Queues' /\ Types'
    <3>1. Queues'
      BY <2>1, <2>3, QueuesSame DEF IInv
    <3>2. pirec' \in [benef : Users \cup {None}, pri : Pris \cup {0}]
      BY <2>1 DEF NoPirec, IInv, Types
    <3>3. /\ Types /\ owner' \in Users \cup {None} /\ mp' \in Users \cup {None}
          /\ tsq' \in [{R, W} -> Seq(Users)] /\ waiters' \in BOOLEAN
      BY <1>1, <2>1 DEF IInv, Types
    <3>4. QED
      BY <1>2, <3>1, <3>2, <3>3, TypesOut
  <2>5. \A u \in Users : thr'[u].pc = "sleep" => thr[u].pc = "sleep" /\ waiters
    BY <1>2, <2>3, Facts
  <2>6. NoneStranded'
    <3>1. holdcnt = 0 => Sleeping' = {}
      BY <1>6, <2>5 DEF Sleeping
    <3>2. ASSUME tsq[R] # <<>>, writewanted = 0 PROVE OnTheWay'
      <4>1. PICK v \in Users : thr[v].pc = "wakeup"
        BY SMTT(30), <3>2, Facts DEF IInv, ReadersWarned
      <4>2. thr'[v].pc = "wakeup"
        BY <2>3, <4>1
      <4>3. QED
        BY <4>2 DEF OnTheWay
    <3>3. writewanted \in Nat
      BY Facts
    <3>4. QED
      BY SMTT(30), <2>1, <3>1, <3>2, <3>3 DEF NoneStranded
  <2>7. TurnstileReturned'
    <3>1. ASSUME \A u \in Users : thr'[u].pc = "out" PROVE holdcnt = 0
      <4>1. Holding(R) = {}
        BY <2>3, <3>1 DEF Holding
      <4>2. holdcnt = Cardinality({})
        BY <1>2, <4>1, HoldFacts DEF IInv
      <4>3. QED
        BY <4>2 DEF RwLaws, FiniteLaws
    <3>2. QED
      BY <1>6, <2>1, <2>5, <3>1 DEF TurnstileReturned, Sleeping
  <2>8. PirecSound'
    <3>1. CASE waiters /\ owner = t
      BY <2>1, <3>1 DEF PirecSound, NoPirec
    <3>2. CASE ~waiters
      BY <2>1, <3>2 DEF IInv, PirecSound
    <3>3. CASE owner # t
      BY <1>1, <1>4, <2>1, <3>3 DEF IInv, PirecSound
    <3>4. QED
      BY <3>1, <3>2, <3>3
  <2>9. QED
    BY <1>2, <1>3, <2>4, <2>6, <2>7, <2>8 DEF IInv, Inv
<1>7. QED
  BY <1>5, <1>6

\* reader_unsleep() and writer_unsleep() take a thread off its queue.
LEMMA UnsleepStep ==
    ASSUME RwLaws, Inv, NEW t \in Users, Unsleep(t)
    PROVE  Inv'
<1>. IInv
  BY DEF Inv
<1>1. /\ thr[t].pc = "sleep" /\ waiters /\ UNCHANGED <<lockVars, mp, t_pri>>
      /\ thr[t].rw \in {R, W}
  BY Facts DEF Unsleep
<1>2. Becomes(t, {}, "retry", thr[t].rw)
  BY BecomesPc DEF Unsleep, IInv, Types
<1>3. /\ \A u \in Users \ {t} : thr'[u].pc = thr[u].pc /\ thr'[u].rw = thr[u].rw
      /\ thr'[t].pc = "retry" /\ thr'[t].rw = thr[t].rw /\ thr' \in [Users -> Thr]
  BY <1>2 DEF Becomes
<1>4. tsq' = [tsq EXCEPT ![thr[t].rw] = SleepqDequeue(@, t)] /\ Release(tsq', FALSE)
  BY DEF Unsleep, Release
<1>5. Queues' /\ tsq' \in [{R, W} -> Seq(Users)]
  BY <1>1, <1>2, <1>4, QueuesDequeue DEF IInv
<1>6. /\ TurnstileReturned'
      /\ waiters' \in BOOLEAN /\ pirec' \in [benef : Users \cup {None}, pri : Pris \cup {0}]
      /\ pirec' = NoPirec \/ (waiters' /\ pirec' = pirec)
      /\ tsq'[R] # <<>> \/ tsq'[W] # <<>> <=> waiters'
  BY <1>1, <1>3, <1>4, <1>5, ReleaseStep
<1>7. Types'
  BY <1>1, <1>3, <1>5, <1>6 DEF IInv, Types, lockVars
<1>8. HoldcntExact' /\ Holding(W)' = Holding(W)
  <2>1. "retry" \notin Hold /\ t \notin Holding(R) /\ t \notin Holding(W)
    BY <1>1 DEF Hold, Holding
  <2>2. Holding(R)' = Holding(R) \ {t} /\ Holding(W)' = Holding(W) \ {t}
    BY SMTT(30), <1>2, <2>1, HoldingAfter
  <2>3. QED
    BY <1>1, <2>1, <2>2, HoldcntAfter DEF IInv, lockVars
<1>9. WantExact'
  <2>1. /\ thr[t].rw = W => Wanting' = Wanting \cup {t}
        /\ thr[t].rw # W => Wanting' = Wanting \ {t}
    BY SMTT(30), <1>2, WantingAfter
  <2>2. t \in Wanting <=> thr[t].rw = W
    BY <1>1 DEF Wanting
  <2>3. QED
    BY <1>1, <2>1, <2>2, WantAfter DEF IInv, lockVars
<1>10. MutexHeld'
  BY <1>1, <1>3, Facts DEF MutexHeld, lockVars
<1>11. tsq'[R] # <<>> => tsq[R] # <<>>
  <2>1. ASSUME tsq'[R] # <<>> PROVE tsq[R] # <<>>
    <3>1. PICK u \in Users : thr'[u].pc = "sleep" /\ thr'[u].rw = R
      BY <1>5, <2>1, SleepersAfter
    <3>2. thr[u].pc = "sleep" /\ thr[u].rw = R
      BY <1>3, <3>1
    <3>3. QED
      BY <3>2, Facts
  <2>2. QED
    BY <2>1
<1>12. OnTheWay => OnTheWay'
  BY <1>1, <1>3 DEF OnTheWay
<1>13. NoneStranded'
  <2>1. Sleeping' # {} => Sleeping # {}
    BY <1>1 DEF Sleeping
  <2>2. QED
    BY <1>1, <1>11, <1>12, <2>1 DEF IInv, NoneStranded, lockVars
<1>14. ReadersWarned'
  BY <1>1, <1>3, <1>11 DEF IInv, ReadersWarned, lockVars
<1>15. OwnerRecorded'
  <2>1. owner # None => owner \in Users /\ owner # t
    BY <1>1 DEF IInv, OwnerRecorded, Types, Hold
  <2>2. QED
    BY <1>1, <1>3, <1>8, <2>1 DEF IInv, OwnerRecorded, lockVars
<1>16. PirecSound'
  <2>1. CASE pirec' = NoPirec
    BY <2>1 DEF PirecSound, NoPirec
  <2>2. CASE waiters' /\ pirec' = pirec
    <3>1. pirec.benef # None =>
             /\ pirec.benef \in Users
             /\ \/ pirec.benef = owner
                \/ thr[pirec.benef].pc = "exit" /\ thr[pirec.benef].rw = W
             /\ pirec.pri > t_pri[pirec.benef]
      BY DEF IInv, PirecSound, Types
    <3>2. thr[pirec.benef].pc = "exit" => pirec.benef # t
      BY <1>1
    <3>3. QED
      BY <1>1, <1>3, <2>2, <3>1, <3>2 DEF PirecSound, lockVars
  <2>3. QED
    BY <1>6, <2>1, <2>2
<1>17. Inherits'
  <2> SUFFICES ASSUME NEW u \in Users, NEW r \in Users, thr'[u].pc = "held", thr'[u].rw = W,
                      thr'[r].pc = "sleep", thr'[r].rw = R, t_pri[u] < t_pri[r]
               PROVE  pirec'.benef = u
    BY <1>1 DEF Inherits
  <2>1. tsq'[R] # <<>>
    BY <1>5, SleepersAfter
  <2>2. pirec' = pirec
    BY <1>4, <2>1 DEF Release
  <2>3. QED
    BY <1>3, <2>2 DEF IInv, Inherits
<1>18. QED
  BY <1>5, <1>6, <1>7, <1>8, <1>9, <1>10, <1>13, <1>14, <1>15, <1>16, <1>17 DEF IInv, Inv
------------------------------------------------------------------------------
(* The invariant *)

\* rw_enter() takes the lock or goes on to block.
LEMMA TakeOrBlockStep ==
    ASSUME RwLaws, Inv, NEW t \in Users, NEW rw \in {R, W}, NEW wanted,
           \/ thr[t].pc = "out" /\ wanted = writewanted
           \/ /\ thr[t].pc = "retry" /\ thr[t].rw = rw
              /\ wanted = IF rw = W THEN writewanted - 1 ELSE writewanted,
           TakeOrBlock(t, rw, wanted)
    PROVE  Inv'
<1>. IInv
  BY DEF Inv
<1>1. /\ mp = None /\ UNCHANGED <<tsVars, mp, t_pri>> /\ thr \in [Users -> Thr]
      /\ holdcnt \in Int /\ writewanted \in Nat
  BY Facts DEF TakeOrBlock, IInv, Types
<1>2. CASE ~Busy(rw, wanted) /\ rw = R
  <2>1. /\ holdcnt' = holdcnt + 1 /\ owner' = IF owner # None THEN owner ELSE t
        /\ thr' = [thr EXCEPT ![t] = [pc |-> "held", rw |-> R]] /\ writewanted' = wanted
        /\ wanted = writewanted /\ holdcnt >= 0 /\ writewanted = 0
    BY SMTT(30), <1>1, <1>2 DEF TakeOrBlock, Acquire, Busy
  <2>2. [pc |-> "held", rw |-> R] \in Thr
    BY DEF Thr, Hold
  <2>3. Becomes(t, {}, "held", R)
    BY <1>1, <2>1, <2>2, BecomesOne
  <2>4. QED
    BY <1>1, <1>2, <2>1, <2>3, TakeRead
<1>3. CASE ~Busy(rw, wanted) /\ rw = W
  <2>1. /\ holdcnt' = -1 /\ owner' = t /\ holdcnt = 0
        /\ thr' = [thr EXCEPT ![t] = [pc |-> "amend", rw |-> W]] /\ writewanted' = wanted
    BY <1>3 DEF TakeOrBlock, Acquire, Busy
  <2>2. [pc |-> "amend", rw |-> W] \in Thr
    BY DEF Thr, Hold
  <2>3. Becomes(t, {}, "amend", W)
    BY <1>1, <2>1, <2>2, BecomesOne
  <2>4. QED
    BY <1>1, <1>3, <2>1, <2>3, TakeWrite
<1>4. CASE Busy(rw, wanted)
  <2>1. /\ thr' = [thr EXCEPT ![t] = [pc |-> "block", rw |-> rw]]
        /\ writewanted' = IF rw = W THEN wanted + 1 ELSE wanted
        /\ UNCHANGED <<holdcnt, owner>>
    BY <1>4 DEF TakeOrBlock
  <2>2. [pc |-> "block", rw |-> rw] \in Thr
    BY DEF Thr, Hold
  <2>3. Becomes(t, {}, "block", rw)
    BY <1>1, <2>1, <2>2, BecomesOne
  <2>4. \/ thr[t].pc = "out" /\ writewanted' = IF rw = W THEN writewanted + 1 ELSE writewanted
        \/ thr[t].pc = "retry" /\ thr[t].rw = rw /\ writewanted' = writewanted
    BY SMTT(30), <1>1, <2>1
  <2>5. QED
    BY <1>1, <2>1, <2>3, <2>4, PrepareToBlock
<1>5. QED
  BY <1>2, <1>3, <1>4

\* rw_tryenter(), whether it succeeds or not.
LEMMA TryenterStep ==
    ASSUME RwLaws, Inv, NEW t \in Users, NEW rw \in {R, W}, RwTryenter(t, rw)
    PROVE  Inv'
<1>. IInv
  BY DEF Inv
<1>1. /\ mp = None /\ thr \in [Users -> Thr] /\ thr[t].pc = "out"
      /\ UNCHANGED <<writewanted, tsVars, mp, t_pri>>
      /\ holdcnt \in Int /\ writewanted \in Nat
      /\ thr' = [thr EXCEPT ![t] = [pc |-> "tried", rw |-> rw]]
  BY Facts DEF RwTryenter, Acquire, IInv, Types
<1>2. [pc |-> "tried", rw |-> rw] \in Thr
  BY DEF Thr, Hold
<1>3. Becomes(t, {}, "tried", rw)
  BY <1>1, <1>2, BecomesOne
<1>4. CASE rw = R
  <2>1. /\ holdcnt' = holdcnt + 1 /\ owner' = IF owner # None THEN owner ELSE t
        /\ holdcnt >= 0 /\ writewanted = 0
    BY SMTT(30), <1>1, <1>4 DEF RwTryenter, Acquire, Busy
  <2>2. QED
    BY <1>1, <1>3, <1>4, <2>1, TakeRead
<1>5. CASE rw = W
  <2>1. holdcnt' = -1 /\ owner' = t /\ holdcnt = 0
    BY <1>5 DEF RwTryenter, Acquire, Busy
  <2>2. QED
    BY <1>1, <1>3, <1>5, <2>1, TakeWrite
<1>6. QED
  BY <1>4, <1>5

\* rw_tryupgrade(), whether it succeeds or not.
LEMMA TryupgradeStep ==
    ASSUME RwLaws, Inv, NEW t \in Users, RwTryupgrade(t)
    PROVE  Inv'
<1>. IInv
  BY DEF Inv
<1>1. PICK x \in {"held", "tried"} : thr[t].pc = x
  BY DEF RwTryupgrade, Holds
<1>2. Becomes(t, {}, x, W)
  BY <1>1 DEF RwTryupgrade, Becomes, IInv, Types, Thr, Hold
<1>3. QED
  BY <1>1, <1>2, UpgradeStep DEF RwTryupgrade

\* rw_enter() looks at the lock again with the turnstile locked.
LEMMA BlockStep ==
    ASSUME RwLaws, Inv, NEW t \in Users, Block(t)
    PROVE  Inv'
<1>. IInv
  BY DEF Inv
<1>1. thr[t].rw \in {R, W} /\ thr \in [Users -> Thr]
  BY Facts DEF IInv, Types
<1>2. CASE Busy(thr[t].rw, writewanted)
  <2>1. /\ thr[t].pc = "block" /\ waiters' = TRUE /\ Goto(t, "sleep") /\ PiWillto(t)
        /\ tsq' = [tsq EXCEPT ![thr[t].rw] = SleepqInsert(@, t_pri, t)]
        /\ UNCHANGED <<lockVars, mp, t_pri>>
    BY <1>2 DEF Block
  <2>2. Becomes(t, {}, "sleep", thr[t].rw)
    BY <1>1, <2>1, BecomesPc
  <2>3. QED
    BY <1>1, <1>2, <2>1, <2>2, BlockSleeps
<1>3. CASE ~Busy(thr[t].rw, writewanted)
  <2>1. /\ thr[t].pc = "block" /\ waiters' = TRUE /\ Goto(t, "retry")
        /\ UNCHANGED <<tsq, pirec, lockVars, mp, t_pri>>
    BY <1>3 DEF Block
  <2>2. Becomes(t, {}, "retry", thr[t].rw)
    BY <1>1, <2>1, BecomesPc
  <2>3. QED
    BY <1>1, <2>1, <2>2, BlockRetries
<1>4. QED
  BY <1>2, <1>3

\* The lock is free at first.
LEMMA InitInv == RwLaws /\ Init => Inv
<1> SUFFICES ASSUME RwLaws, Init PROVE Inv
  OBVIOUS
<1>1. \A t \in Users : thr[t] = [pc |-> "out", rw |-> R]
  BY DEF Init
<1>2. Holding(R) = {} /\ Holding(W) = {} /\ Wanting = {} /\ Sleeping = {}
  BY SMTT(30), <1>1 DEF Holding, Wanting, Sleeping
<1>3. Cardinality({}) = 0
  BY DEF RwLaws, FiniteLaws
<1>4. Types
  <2>1. thr \in [Users -> Thr]
    BY DEF Init, Thr, Hold
  <2>2. tsq \in [{R, W} -> Seq(Users)] /\ pirec \in [benef : Users \cup {None}, pri : Pris \cup {0}]
    BY SMTT(30) DEF Init, NoPirec
  <2>3. QED
    BY <1>1, <2>1, <2>2 DEF Init, Types
<1>5. Queues
  BY SMTT(30), <1>1 DEF Init, Queues, Sorted, IsInjective, OnQueue
<1>6. MutexHeld /\ ReadersWarned /\ Inherits
  BY <1>1 DEF Init, MutexHeld, ReadersWarned, Inherits, RwLaws
<1>7. HoldcntExact /\ WantExact
  BY <1>2, <1>3 DEF Init, HoldcntExact, WantExact
<1>8. NoneStranded /\ TurnstileReturned
  BY <1>2 DEF Init, NoneStranded, TurnstileReturned
<1>9. OwnerRecorded /\ PirecSound
  BY <1>2 DEF Init, OwnerRecorded, PirecSound, NoPirec
<1>10. QED
  BY <1>4, <1>5, <1>6, <1>7, <1>8, <1>9 DEF Inv, IInv

\* Every step of every thread keeps it.
LEMMA NextInv == RwLaws /\ Inv /\ [Next]_vars => Inv'
<1> SUFFICES ASSUME RwLaws, Inv, [Next]_vars PROVE Inv'
  OBVIOUS
<1>1. ASSUME NEW t \in Users, NEW rw \in {R, W}, RwEnter(t, rw) PROVE Inv'
  <2>1. thr[t].pc = "out" /\ TakeOrBlock(t, rw, writewanted)
    BY <1>1 DEF RwEnter
  <2>2. QED
    BY <2>1, TakeOrBlockStep
<1>2. ASSUME NEW t \in Users, Retry(t) PROVE Inv'
  <2>1. PICK wanted : wanted = IF thr[t].rw = W THEN writewanted - 1 ELSE writewanted
    OBVIOUS
  <2>2. thr[t].pc = "retry" /\ TakeOrBlock(t, thr[t].rw, wanted) /\ thr[t].rw \in {R, W}
    BY <1>2, <2>1, Facts DEF Retry
  <2>3. QED
    BY <2>1, <2>2, TakeOrBlockStep
<1>3. ASSUME NEW t \in Users, ExitRelease(t) PROVE Inv'
  <2>1. thr[t].pc = "exit" /\ thr[t].rw \in {R, W} /\ UNCHANGED <<holdcnt, writewanted, t_pri>>
    BY <1>3, Facts DEF ExitRelease
  <2>2. CASE thr[t].rw = W
    BY <1>3, <2>1, <2>2, ExitWriterStep DEF ExitRelease
  <2>3. CASE thr[t].rw = R
    BY <1>3, <2>1, <2>3, ExitReaderStep DEF ExitRelease
  <2>4. QED
    BY <2>1, <2>2, <2>3
<1>4. CASE UNCHANGED vars
  <2>1. Holding(R)' = Holding(R) /\ Holding(W)' = Holding(W) /\ Wanting' = Wanting
        /\ Sleeping' = Sleeping
    BY <1>4 DEF vars, lockVars, Holding, Wanting, Sleeping
  <2>2. Types' /\ Queues'
    BY SMTT(30), <1>4 DEF vars, lockVars, tsVars, Inv, IInv, Types, Queues, OnQueue, Sorted, IsInjective
  <2>3. MutexHeld' /\ HoldcntExact' /\ WantExact' /\ TurnstileReturned'
    BY <1>4, <2>1 DEF vars, lockVars, tsVars, Inv, IInv, MutexHeld, HoldcntExact, WantExact,
                      TurnstileReturned
  <2>4. NoneStranded' /\ ReadersWarned'
    BY <1>4, <2>1 DEF vars, lockVars, tsVars, Inv, IInv, NoneStranded, ReadersWarned, OnTheWay
  <2>5. OwnerRecorded' /\ PirecSound' /\ Inherits'
    BY <1>4, <2>1 DEF vars, lockVars, tsVars, Inv, IInv, OwnerRecorded, PirecSound, Inherits
  <2>6. QED
    BY <2>2, <2>3, <2>4, <2>5 DEF Inv, IInv
<1>5. Readers \subseteq Users /\ Writers \subseteq Users
  BY DEF Users
<1>6. QED
  BY <1>1, <1>2, <1>3, <1>4, <1>5, TryenterStep, TryupgradeStep, BlockStep, AmendStep,
     DowngradeStep, WakeupStep, RwExitStep, UnsleepStep DEF Next

\* The invariant implies that lent priority is given back.
LEMMA PirecFollows == RwLaws /\ Inv => PirecReturned
BY Facts DEF Inv, IInv, PirecSound, PirecReturned, Types

\* The invariant implies that a writer inherits from the readers.
LEMMA InheritsFollows == RwLaws /\ Inv => WriterInherits
<1> SUFFICES ASSUME RwLaws, IInv, NEW t \in Users, NEW r \in Range(tsq[R]),
                    thr[t] = [pc |-> "held", rw |-> W], t_pri[t] < t_pri[r]
             PROVE  t_pri[t] < DispPrio(t)
  BY DEF WriterInherits, Inv
<1>1. r \in Users /\ thr[r].pc = "sleep" /\ thr[r].rw = R
  BY QueueFacts DEF IInv
<1>2. pirec.benef = t /\ t # None
  BY SMTT(30), <1>1 DEF IInv, Inherits, RwLaws
<1>3. pirec.pri > t_pri[t]
  BY <1>2 DEF IInv, PirecSound
<1>4. QED
  BY <1>2, <1>3 DEF DispPrio

------------------------------------------------------------------------------
(* The theorems, for any finite set of users of the lock. *)

RwAssumption ==
    /\ IsFiniteSet(Readers \cup Writers) /\ None \notin Readers \cup Writers
    /\ Pris \subseteq Nat \ {0}

SQ == INSTANCE SleepQProofs

\* The laws hold for finitely many threads, by SleepQProofs.
LEMMA RwLawsHold == RwAssumption => RwLaws
<1> SUFFICES ASSUME RwAssumption
             PROVE  RwLaws
  OBVIOUS
<1>1. \A S : SQ!Cardinality(S) = Cardinality(S) /\ (SQ!IsFiniteSet(S) <=> IsFiniteSet(S))
  BY DEF Cardinality, SQ!Cardinality, IsFiniteSet, SQ!IsFiniteSet
<1>2. SQ!FiniteLaws(Users) /\ SQ!QueueLaws(Users)
  BY <1>1, SQ!FiniteLawsHold, SQ!QueueLawsHold DEF Users, RwAssumption
<1>3. FiniteLaws(Users)
  BY <1>1, <1>2 DEF FiniteLaws, SQ!FiniteLaws
<1>4. \A q, pri, t : SQ!SleepqInsert(q, pri, t) = SleepqInsert(q, pri, t)
  BY <1>1 DEF SleepqInsert, SQ!SleepqInsert, LinkAt, SQ!LinkAt, Place, SQ!Place
<1>5. InsertLaw(Users)
  <2>1. \A q, t : SQ!OnQueue(q, t) <=> OnQueue(q, t)
    BY DEF OnQueue, SQ!OnQueue
  <2>2. \A q, pri : SQ!Sorted(q, pri) <=> Sorted(q, pri)
    BY DEF Sorted, SQ!Sorted
  <2>3. \A q : SQ!IsInjective(q) <=> IsInjective(q)
    BY DEF IsInjective, SQ!IsInjective
  <2>4. QED
    BY <1>2, <1>4, <2>1, <2>2, <2>3 DEF SQ!QueueLaws, InsertLaw, SQ!InsertLaw
<1>6. DequeueLaw(Users)
  BY <1>2 DEF SQ!QueueLaws, DequeueLaw, SQ!DequeueLaw, OnQueue, SQ!OnQueue, Sorted, SQ!Sorted,
              IsInjective, SQ!IsInjective, SleepqDequeue, SQ!SleepqDequeue,
              UnlinkAt, SQ!UnlinkAt
<1>7. TailLaw(Users)
  BY <1>2 DEF SQ!QueueLaws, TailLaw, SQ!TailLaw, OnQueue, SQ!OnQueue, Sorted, SQ!Sorted,
              IsInjective, SQ!IsInjective
<1>8. QED
  BY <1>3, <1>5, <1>6, <1>7 DEF RwLaws, QueueLaws, RwAssumption, Users

\* The invariant of every behaviour of the lock.
THEOREM Invariance == ASSUME RwAssumption PROVE Spec => []IInv
<1>1. Init => IInv
  BY InitInv, RwLawsHold DEF Inv
<1>2. IInv /\ [Next]_vars => IInv'
  BY NextInv, RwLawsHold DEF Inv
<1>3. QED
  BY <1>1, <1>2, PTL DEF Spec

\* holdcnt tells who has the lock, never a writer and anybody else, and nobody
\* sleeps on beside a lock that is free.
THEOREM LockSound == ASSUME RwAssumption PROVE Spec => [](HoldcntExact /\ NoneStranded)
<1>1. IInv => HoldcntExact /\ NoneStranded
  BY DEF IInv
<1>2. QED
  BY <1>1, Invariance, PTL

\* The turnstile goes back to the pool, and inherited priority with the lock.
THEOREM TurnstileSound ==
    ASSUME RwAssumption PROVE Spec => [](TurnstileReturned /\ PirecReturned)
<1>1. IInv => TurnstileReturned /\ PirecReturned
  BY PirecFollows, RwLawsHold DEF Inv, IInv
<1>2. QED
  BY <1>1, Invariance, PTL

\* A writer runs above its own priority while a reader of a higher one waits.
THEOREM WritersInherit == ASSUME RwAssumption PROVE Spec => []WriterInherits
<1>1. IInv => WriterInherits
  BY InheritsFollows, RwLawsHold DEF Inv
<1>2. QED
  BY <1>1, Invariance, PTL
==============================================================================
