--------------------------- MODULE PageCacheProofs ---------------------------
(***************************************************************************)
(* The inductive invariant of the page cache and what a step has to keep.  *)
(* The invariant says of each thread what it knows of the page it found and*)
(* of the page it brought (Good), and of each page that p_selock counts its*)
(* holders, that it is on the hash chain of its identity unless the thread *)
(* that takes the identity away is between the two halves of               *)
(* page_hashout() (Chained), and that its sleepers will be woken.          *)
(*                                                                         *)
(* A step of a thread t changes only pages that t holds exclusively or that*)
(* nobody holds, and takes a page off its chain only if no other thread has*)
(* the phm of its identity (Rely); so what the other threads know stays    *)
(* true, and what is left to show of a step is what it does for t.         *)
(***************************************************************************)
EXTENDS PageCache, TLAPS

USE ZenonT(40)

Rec == [pc : Pcs, op : Ops, key : Keys \cup {None}, se : {"N", "S", "E"},
        pp : Pages \cup {None}, lk : {"N", "S", "E"}, own : Pages \cup {None}]

\* The operations that bring a page, and where they have yet to name it.
Bringing == {"create", "rename", "destroy"}
Nameless == {"phm", "locked", "asleep", "reclaim", "unmap", "remap", "swap"}

\* The operations that reach each place, and what the record says there.
OpsAt(pc) ==
    CASE pc = "idle" -> {"none"}
      [] pc = "trylock" -> {"nowait"}
      [] pc \in {"try", "confirm"} -> {"lookup", "nowait"}
      [] pc = "asleep" -> {"lookup", "create", "rename"}
      [] pc = "reclaim" -> {"lookup", "rename"}
      [] pc \in {"phm", "locked", "hold"} -> {"lookup", "nowait", "create", "rename"}
      [] pc \in {"out", "outdone"} -> Bringing
      [] pc \in {"unmap", "remap", "swap", "dispose"} -> {"rename"}
      [] pc = "panic" -> {}

Shape(r) ==
    /\ r.op \in OpsAt(r.pc)
    /\ r.pc = "idle" => r = Idle
    /\ r.op \notin {"none", "destroy"} => r.key \in Keys
    /\ r.op = "destroy" => r.key = None
    /\ r.op # "none" => r.se \in {"S", "E"}
    /\ r.op \in Bringing => r.se = "E"
    /\ r.pp = None <=> r.pc \in {"idle", "phm", "locked", "out", "outdone"}
    /\ r.pc \in {"phm", "locked", "out", "outdone", "try", "trylock", "asleep"}
         => r.lk = "N"
    /\ r.pc \in {"confirm", "hold"} => r.lk # "N"
    /\ r.pc \in {"reclaim", "unmap", "remap", "swap", "dispose"} => r.lk = "E"
    /\ r.own # None <=> r.op \in Bringing /\ r.pc # "hold"

Named(p, k) == hashed[p] /\ p_vnode[p] = k

\* What a thread knows of its pages ...
Pagewise(r) ==
    /\ r.own # None /\ r.pc \in Nameless =>
          p_vnode[r.own] = None /\ ~hashed[r.own] /\ ~p_free[r.own]
    /\ r.pc = "out" => hashed[r.own]
    /\ r.pc = "outdone" => p_vnode[r.own] # None /\ ~hashed[r.own]
    /\ r.pc = "dispose" => Named(r.own, r.key) /\ ~p_free[r.own]
    /\ r.pc = "hold" => Named(r.pp, r.key) /\ ~p_free[r.pp]
    /\ r.pc \in {"reclaim", "unmap", "remap", "swap"} => Named(r.pp, r.key)
    /\ r.pc = "dispose" => p_vnode[r.pp] = None /\ ~hashed[r.pp]
    /\ r.pc = "confirm" /\ r.op = "lookup" /\ r.lk = "S" => ~p_free[r.pp]

\* ... and what phm tells it.
Phmwise(t, r) ==
    /\ \A k \in Keys : phm[k] = t =>
          /\ r.key = k
          /\ r.pc \in {"locked", "try", "trylock", "confirm", "reclaim", "unmap",
                       "swap"}
          /\ r.pc = "try" => r.op = "nowait"
          /\ r.pc # "locked" => Named(r.pp, r.key)
    /\ r.pc \in {"locked", "unmap", "swap"} \/ (r.pc = "reclaim" /\ r.op = "rename")
         => phm[r.key] = t

Good(t) == Shape(th[t]) /\ Pagewise(th[t]) /\ Phmwise(t, th[t])

Chained ==
    \A p \in Pages :
        /\ hashed[p] => p_vnode[p] # None
        /\ p_vnode[p] # None /\ ~hashed[p] =>
              \E u \in Threads : th[u].own = p /\ th[u].pc = "outdone"

\* The inductive invariant.
IInv ==
    /\ TypeOK /\ SelockExact /\ Chained /\ IdentityUnique /\ SleeperSound
    /\ \A t \in Threads : Good(t)

\* IInv, folded: the lemmas are stated with it and unfold it once.
Inv == IInv
------------------------------------------------------------------------------
(* What a step of t does to the others. *)

\* Another thread is left alone, or woken.
Others(t) ==
    \A u \in Threads : u # t =>
        \/ th'[u] = th[u]
        \/ /\ th[u].pc = "asleep"
           /\ th'[u] = [th[u] EXCEPT !.pc = "phm", !.pp = None]

SamePage(p) ==
    p_vnode'[p] = p_vnode[p] /\ hashed'[p] = hashed[p] /\ p_free'[p] = p_free[p]

Rely(t) ==
    /\ \A p \in Pages : p_selock[p] # 0 /\ t \notin Exclusive(p) => SamePage(p)
    /\ \A p \in Pages : hashed[p] /\ phm[p_vnode[p]] \notin {None, t} =>
          hashed'[p] /\ p_vnode'[p] = p_vnode[p]
    /\ \A k \in Keys : \/ phm'[k] = phm[k]
                       \/ phm[k] \in {t, None} /\ phm'[k] \in {t, None}

\* p_selock of a page changes as the hold of t on it does.
LockChange(t, p) ==
    LET s == t \in Sharers(p)    e == t \in Exclusive(p)
        s1 == t \in Sharers(p)'  e1 == t \in Exclusive(p)'
        n == p_selock[p]         n1 == p_selock'[p]
    IN  \/ n1 = n /\ (s1 <=> s) /\ (e1 <=> e)
        \/ n = 0 /\ n1 = -1 /\ e1 /\ ~s1
        \/ n >= 0 /\ n1 = n + 1 /\ ~s /\ s1 /\ ~e1
        \/ e /\ n1 = 0 /\ ~e1 /\ ~s1
        \/ s /\ n1 = n - 1 /\ ~e1 /\ ~s1
        \/ s /\ n = 1 /\ n1 = -1 /\ e1 /\ ~s1
        \/ e /\ n1 = 1 /\ ~e1 /\ s1

\* The sleepers of a page have been woken, or still have what they wait for.
SleepRely(t) ==
    \A p \in Pages :
        \/ \A u \in Threads : u # t /\ th'[u].pc = "asleep" => th'[u].pp # p
        \/ /\ p_selock[p] # 0 => p_selock'[p] # 0
           /\ \/ /\ p_vnode'[p] = p_vnode[p] /\ hashed'[p] = hashed[p]
                 /\ ~(th[t].own = p /\ th[t].pc = "outdone")
              \/ th'[t].own = p /\ th'[t].pc = "outdone"

\* How many threads hold a page, counting from those that held it before.
CountLaws ==
    /\ Cardinality({}) = 0
    /\ \A S \in SUBSET Threads :
          /\ Cardinality(S) \in Nat
          /\ Cardinality(S) = 0 => S = {}
          /\ Cardinality(S) = 1 => \E x : S = {x}
          /\ \A t \in Threads :
                /\ Cardinality({t}) = 1
                /\ Cardinality(S \ {t}) =
                      IF t \in S THEN Cardinality(S) - 1 ELSE Cardinality(S)
                /\ Cardinality(S \cup {t}) =
                      IF t \in S THEN Cardinality(S) ELSE Cardinality(S) + 1

\* CountLawsHold shows the laws from PageAssumption.
Counted == PageAssumption /\ CountLaws

\* A page that one thread holds is not held exclusively by another.
LEMMA HeldPage ==
    ASSUME Counted, Inv, NEW p \in Pages, NEW u \in Threads, NEW t,
           t # u, u \in Exclusive(p) \cup Sharers(p)
    PROVE  p_selock[p] # 0 /\ t \notin Exclusive(p)
<1>. IInv
  BY DEF Inv
<1>1. Sharers(p) \in SUBSET Threads /\ Exclusive(p) \in SUBSET Threads
  BY DEF Sharers, Exclusive
<1>2. \/ p_selock[p] = -1 /\ Cardinality(Exclusive(p)) = 1 /\ Sharers(p) = {}
      \/ p_selock[p] = Cardinality(Sharers(p)) /\ Exclusive(p) = {}
  BY DEF IInv, SelockExact
<1>3. CASE p_selock[p] = -1 /\ Cardinality(Exclusive(p)) = 1 /\ Sharers(p) = {}
  <2>1. PICK x : Exclusive(p) = {x}
    BY <1>1, <1>3 DEF Counted, CountLaws
  <2>2. QED
    BY SMTT(30), <1>3, <2>1
<1>4. CASE p_selock[p] = Cardinality(Sharers(p)) /\ Exclusive(p) = {}
  <2>1. Cardinality(Sharers(p)) # 0
    BY <1>1, <1>4 DEF Counted, CountLaws
  <2>2. QED
    BY <1>4, <2>1
<1>5. QED
  BY <1>2, <1>3, <1>4

\* p_selock stays exact if one thread changes locks and books them in its record.
LEMMA LockStep ==
    ASSUME Counted, Inv, NEW t \in Threads, Others(t),
           \A p \in Pages : LockChange(t, p)
    PROVE  SelockExact'
<1>. IInv
  BY DEF Inv
<1> SUFFICES ASSUME NEW p \in Pages
             PROVE  \/ /\ p_selock'[p] = -1 /\ Cardinality(Exclusive(p)') = 1
                       /\ Sharers(p)' = {}
                    \/ p_selock'[p] = Cardinality(Sharers(p)') /\ Exclusive(p)' = {}
  BY DEF SelockExact
<1>1. \A u \in Threads : u # t => /\ u \in Sharers(p)' <=> u \in Sharers(p)
                                  /\ u \in Exclusive(p)' <=> u \in Exclusive(p)
  <2> SUFFICES ASSUME NEW u \in Threads, u # t
               PROVE  th'[u].lk = th[u].lk /\ th'[u].own = th[u].own
                        /\ (th'[u].pp = th[u].pp \/ th[u].lk = "N")
    BY DEF Sharers, Exclusive
  <2>1. th[u] \in Rec /\ Shape(th[u])
    BY DEF IInv, TypeOK, Rec, Good
  <2>2. QED
    BY <2>1 DEF Shape, Others, Rec
<1>2. /\ Sharers(p) \subseteq Threads /\ Sharers(p)' \subseteq Threads
      /\ Exclusive(p) \subseteq Threads /\ Exclusive(p)' \subseteq Threads
  BY DEF Sharers, Exclusive
<1>3. Sharers(p) \in SUBSET Threads /\ Exclusive(p) \in SUBSET Threads
  BY <1>2
<1>4. /\ Cardinality(Sharers(p)) \in Nat
      /\ Cardinality(Sharers(p) \ {t}) = IF t \in Sharers(p)
            THEN Cardinality(Sharers(p)) - 1 ELSE Cardinality(Sharers(p))
      /\ Cardinality(Sharers(p) \cup {t}) = IF t \in Sharers(p)
            THEN Cardinality(Sharers(p)) ELSE Cardinality(Sharers(p)) + 1
  BY <1>3 DEF Counted, CountLaws
<1>5. Cardinality({t}) = 1 /\ Cardinality({}) = 0
  BY <1>3 DEF Counted, CountLaws
<1>6. /\ t \in Sharers(p)' => Sharers(p)' = Sharers(p) \cup {t}
      /\ t \notin Sharers(p)' => Sharers(p)' = Sharers(p) \ {t}
      /\ t \in Exclusive(p)' => Exclusive(p)' = Exclusive(p) \cup {t}
      /\ t \notin Exclusive(p)' => Exclusive(p)' = Exclusive(p) \ {t}
  BY <1>1, <1>2
<1>7. \/ p_selock[p] = -1 /\ Cardinality(Exclusive(p)) = 1 /\ Sharers(p) = {}
      \/ p_selock[p] = Cardinality(Sharers(p)) /\ Exclusive(p) = {}
  BY DEF IInv, SelockExact
<1>8. LockChange(t, p)
  OBVIOUS
<1>9. CASE p_selock[p] = -1 /\ Cardinality(Exclusive(p)) = 1 /\ Sharers(p) = {}
  <2>1. PICK x : Exclusive(p) = {x}
    BY <1>3, <1>9 DEF Counted, CountLaws
  <2>2. t \in Exclusive(p) => Exclusive(p) \ {t} = {} /\ Exclusive(p) \cup {t} = {t}
    BY <2>1
  <2>3. Sharers(p) \cup {t} = {t} /\ Sharers(p) \ {t} = {}
    BY <1>9
  <2>4. \/ p_selock'[p] = -1 /\ t \notin Sharers(p)'
              /\ (t \in Exclusive(p)' <=> t \in Exclusive(p))
        \/ p_selock'[p] = 0 /\ t \in Exclusive(p) /\ t \notin Exclusive(p)'
              /\ t \notin Sharers(p)'
        \/ p_selock'[p] = 1 /\ t \in Exclusive(p) /\ t \notin Exclusive(p)'
              /\ t \in Sharers(p)'
    BY SMTT(30), <1>8, <1>9 DEF LockChange
  <2>5. t \notin Exclusive(p) => Exclusive(p) \ {t} = Exclusive(p)
    OBVIOUS
  <2>6. QED
    BY <1>5, <1>6, <1>9, <2>2, <2>3, <2>4, <2>5
<1>10. CASE p_selock[p] = Cardinality(Sharers(p)) /\ Exclusive(p) = {}
  <2>1. Exclusive(p) \cup {t} = {t} /\ Exclusive(p) \ {t} = {}
    BY <1>10
  <2>2. Cardinality(Sharers(p)) = 0 => Sharers(p) = {}
    BY <1>3 DEF Counted, CountLaws
  <2>3. Cardinality(Sharers(p)) = 1 /\ t \in Sharers(p) => Sharers(p) \ {t} = {}
    <3>1. ASSUME Cardinality(Sharers(p)) = 1
          PROVE  \E x : Sharers(p) = {x}
      BY <1>3, <3>1 DEF Counted, CountLaws
    <3>2. QED
      BY <3>1
  <2>4. Sharers(p) \ {t} \subseteq Sharers(p)
    OBVIOUS
  <2>5. QED
    BY <1>4, <1>5, <1>6, <1>8, <1>10, <2>1, <2>2, <2>3, <2>4 DEF LockChange
<1>11. QED
  BY <1>7, <1>9, <1>10

\* What another thread knows stays true.
LEMMA OthersGood ==
    ASSUME Counted, Inv, NEW t \in Threads, Others(t), Rely(t),
           NEW u \in Threads, u # t
    PROVE  Good(u)'
<1>. IInv
  BY DEF Inv
<1> DEFINE r == th[u]
<1>0. /\ r \in Rec /\ Good(u) /\ th \in [Threads -> Rec]
      /\ phm \in [Keys -> Threads \cup {None}]
      /\ p_vnode \in [Pages -> Keys \cup {None}]
  BY DEF IInv, TypeOK, Rec
<1>1. \A k \in Keys : phm'[k] = u <=> phm[k] = u
  BY DEF Rely, Counted, PageAssumption
<1>2. r.own # None => r.own \in Pages /\ SamePage(r.own)
  <2>1. ASSUME r.own # None
        PROVE  r.own \in Pages /\ u \in Exclusive(r.own)
    BY <1>0, <2>1 DEF Rec, Exclusive
  <2>2. QED
    BY <2>1, HeldPage DEF Rely
<1>3. r.lk # "N" /\ r.pp # None => r.pp \in Pages /\ SamePage(r.pp)
  <2>1. ASSUME r.lk # "N" /\ r.pp # None
        PROVE  r.pp \in Pages /\ u \in Exclusive(r.pp) \cup Sharers(r.pp)
    BY <1>0, <2>1 DEF Rec, Exclusive, Sharers
  <2>2. QED
    BY <2>1, HeldPage DEF Rely
<1>4. \A k \in Keys, p \in Pages : phm[k] = u /\ Named(p, k) => Named(p, k)'
  BY <1>0 DEF Rely, Named, Counted, PageAssumption
<1>5. CASE th'[u] = r
  <2>1. Shape(r)
    BY <1>0 DEF Good
  <2>2. Pagewise(r)'
    BY SMTT(30), <1>0, <1>2, <1>3, <1>5, <2>1
       DEF Good, Pagewise, Shape, OpsAt, Bringing, Nameless, Named, SamePage
  <2>3. Phmwise(u, r)'
    <3>1. r.pp # None => r.pp \in Pages
      BY <1>0 DEF Rec
    <3>2. \A k \in Keys : phm[k] = u /\ r.pc # "locked" => r.pp \in Pages
      BY <1>0, <2>1, <3>1 DEF Good, Phmwise, Shape
    <3>3. r.pc \in {"locked", "unmap", "swap", "reclaim"} => r.key \in Keys
      BY <2>1 DEF Shape, OpsAt
    <3>4. QED
      BY <1>0, <1>1, <1>4, <1>5, <3>2, <3>3 DEF Good, Phmwise
  <2>4. QED
    BY <1>5, <2>1, <2>2, <2>3 DEF Good
<1>6. CASE r.pc = "asleep" /\ th'[u] = [r EXCEPT !.pc = "phm", !.pp = None]
  <2>1. /\ th'[u].pc = "phm" /\ th'[u].op = r.op /\ th'[u].key = r.key
        /\ th'[u].se = r.se /\ th'[u].pp = None /\ th'[u].lk = r.lk
        /\ th'[u].own = r.own
    BY <1>0, <1>6 DEF Rec
  <2>2. Shape(th'[u])
    BY <1>0, <1>6, <2>1 DEF Good, Shape, OpsAt, Bringing
  <2>3. Pagewise(th[u])'
    BY <1>0, <1>2, <1>6, <2>1 DEF Good, Pagewise, Nameless, SamePage
  <2>4. \A k \in Keys : phm[k] # u
    BY <1>0, <1>6 DEF Good, Phmwise
  <2>5. Phmwise(u, th[u])'
    BY <1>1, <2>1, <2>4 DEF Phmwise
  <2>6. QED
    BY <2>2, <2>3, <2>5 DEF Good
<1>7. QED
  BY <1>5, <1>6 DEF Others

Awake(t, p) ==
    \A u \in Threads : u # t /\ th'[u].pc = "asleep" => th'[u].pp # p

\* Sleepers stay sound if one thread moves and does not doze off on a free page.
LEMMA SleepStep ==
    ASSUME Counted, Inv, NEW t \in Threads, Others(t), SleepRely(t),
           th'[t].pc = "asleep" =>
              p_selock'[th'[t].pp] # 0 /\ Named(th[t].pp, th[t].key)'
    PROVE  SleeperSound'
<1>. IInv
  BY DEF Inv
<1> SUFFICES ASSUME NEW u \in Threads, th'[u].pc = "asleep", u # t
             PROVE  /\ p_selock'[th'[u].pp] # 0
                    /\ \/ p_vnode'[th'[u].pp] = th'[u].key /\ hashed'[th'[u].pp]
                       \/ \E v \in Threads : /\ th'[v].own = th'[u].pp
                                             /\ th'[v].pc = "outdone"
  BY DEF SleeperSound, Named
<1>0. th[u] \in Rec /\ Shape(th[u])
  BY DEF IInv, TypeOK, Rec, Good
<1>1. th'[u] = th[u] /\ th[u].pc = "asleep"
  BY <1>0 DEF Others, Rec
<1> DEFINE p == th[u].pp
<1>2. p \in Pages
  BY <1>0, <1>1 DEF Shape, Rec
<1>3. /\ p_selock[p] # 0
      /\ \/ p_vnode[p] = th[u].key /\ hashed[p]
         \/ \E v \in Threads : th[v].own = p /\ th[v].pc = "outdone"
  BY <1>1 DEF IInv, SleeperSound
<1>4. \A v \in Threads : v # t /\ th[v].pc = "outdone" => th'[v] = th[v]
  BY DEF Others
<1>5. QED
  BY SMTT(30), <1>1, <1>2, <1>3, <1>4 DEF SleepRely

\* What has to be shown of a step of t.
LEMMA StepInv ==
    ASSUME Counted, Inv, NEW t \in Threads, TypeOK', Others(t), Rely(t),
           \A p \in Pages : LockChange(t, p),
           SleepRely(t), Good(t)', Chained', IdentityUnique',
           th'[t].pc = "asleep" =>
              p_selock'[th'[t].pp] # 0 /\ Named(th[t].pp, th[t].key)'
    PROVE  Inv'
<1>. IInv
  BY DEF Inv
<1>1. \A u \in Threads : Good(u)'
  BY OthersGood
<1>2. SelockExact' /\ SleeperSound'
  BY LockStep, SleepStep
<1>3. QED
  BY <1>1, <1>2 DEF IInv, Inv

\* The record of t after a step, and the others.
LEMMA BecomeIs ==
    ASSUME TypeOK, NEW t \in Threads, NEW r \in Rec, th' = Become(t, r)
    PROVE  th'[t] = r /\ th' \in [Threads -> Rec] /\ Others(t)
BY DEF TypeOK, Rec, Become, Others

\* What cv_broadcast() does to the records of the threads.
LEMMA BroadcastIs ==
    ASSUME TypeOK, NEW t \in Threads, NEW r \in Rec, NEW p, r.pc # "asleep",
           th' = Broadcast(Become(t, r), p)
    PROVE  /\ th'[t] = r /\ th' \in [Threads -> Rec] /\ Others(t)
           /\ Awake(t, p)
<1>1. /\ Become(t, r) \in [Threads -> Rec] /\ Become(t, r)[t] = r
      /\ \A u \in Threads : u # t => Become(t, r)[u] = th[u]
  BY DEF TypeOK, Rec, Become
<1>2. \A x \in Rec : LET y == [x EXCEPT !.pc = "phm", !.pp = None]
                     IN  y \in Rec /\ y.pc = "phm"
  BY DEF Rec, Pcs
<1> DEFINE B(u) == IF Become(t, r)[u].pc = "asleep" /\ Become(t, r)[u].pp = p
                   THEN [Become(t, r)[u] EXCEPT !.pc = "phm", !.pp = None]
                   ELSE Become(t, r)[u]
<1>3. \A u \in Threads : th'[u] = B(u)
  BY DEF Broadcast
<1>4. \A u \in Threads : B(u) \in Rec
  BY <1>1, <1>2
<1>5. th' \in [Threads -> Rec]
  <2>1. th' = [u \in Threads |-> B(u)]
    BY DEF Broadcast
  <2>2. QED
    BY <1>4, <2>1
<1>6. QED
  BY <1>1, <1>2, <1>3, <1>5 DEF Others, Awake

\* What page_unlock() does to the records of the threads.
LEMMA UnlockedIs ==
    ASSUME TypeOK, NEW t \in Threads, NEW r \in Rec, NEW p, r.pc # "asleep",
           th' = Unlocked(Become(t, r), p)
    PROVE  /\ th'[t] = r /\ th' \in [Threads -> Rec] /\ Others(t)
           /\ p_selock[p] \in {-1, 1} => Awake(t, p)
BY BecomeIs, BroadcastIs DEF Unlocked

\* What p_selock is for a page that t holds.
LEMMA LockValue ==
    ASSUME Counted, Inv, NEW t \in Threads, NEW p \in Pages
    PROVE  /\ p_selock[p] \in Int
           /\ t \in Exclusive(p) => p_selock[p] = -1 /\ t \notin Sharers(p)
           /\ t \in Sharers(p) => p_selock[p] > 0
<1>. IInv
  BY DEF Inv
<1>1. Sharers(p) \in SUBSET Threads
  BY DEF Sharers
<1>2. Cardinality(Sharers(p)) \in Nat /\ (Cardinality(Sharers(p)) = 0 <=> Sharers(p) = {})
  BY <1>1 DEF Counted, CountLaws
<1>3. QED
  BY SMTT(30), <1>2 DEF IInv, SelockExact, TypeOK

\* The two pages of a thread are different.
LEMMA Distinct ==
    ASSUME Counted, Inv, NEW t \in Threads, th[t].lk # "N"
    PROVE  th[t].own = None \/ th[t].own # th[t].pp
<1>. IInv
  BY DEF Inv
<1>1. Shape(th[t]) /\ Pagewise(th[t]) /\ th[t] \in Rec
  BY DEF IInv, Good, TypeOK, Rec
<1>2. CASE th[t].pc \in {"reclaim", "unmap", "remap", "swap"}
  BY <1>1, <1>2 DEF Pagewise, Named, Nameless
<1>3. CASE th[t].pc = "dispose"
  BY <1>1, <1>3 DEF Pagewise, Named
<1>4. CASE th[t].pc \notin {"reclaim", "unmap", "remap", "swap", "dispose"}
  BY <1>1, <1>4 DEF Shape, OpsAt, Bringing, Rec, Pcs, Idle
<1>5. QED
  BY <1>2, <1>3, <1>4

\* A page with an identity, held, is on its chain unless its holder is taking
\* it off.
LEMMA HeldChained ==
    ASSUME Counted, Inv, NEW t \in Threads, NEW p \in Pages,
           th[t].pp = p, th[t].lk # "N", p_vnode[p] # None
    PROVE  hashed[p]
<1>. IInv
  BY DEF Inv
<1>1. t \in Exclusive(p) \cup Sharers(p)
  BY DEF IInv, TypeOK, Exclusive, Sharers
<1>2. SUFFICES ASSUME NEW u \in Threads, th[u].own = p, th[u].pc = "outdone"
               PROVE  FALSE
  BY DEF IInv, Chained
<1>3. u \in Exclusive(p)
  BY <1>2 DEF Exclusive
<1>4. u = t
  BY <1>1, <1>3, HeldPage
<1>5. QED
  BY <1>2, <1>4 DEF IInv, Good, Shape

\* Dropping phm, if t has it.
LEMMA LeavePhmIs ==
    ASSUME TypeOK, NEW t \in Threads, phm' = LeavePhm(t), Counted
    PROVE  /\ phm' \in [Keys -> Threads \cup {None}]
           /\ \A k \in Keys : /\ phm'[k] # t
                              /\ \/ phm'[k] = phm[k]
                                 \/ phm[k] \in {t, None} /\ phm'[k] \in {t, None}
BY DEF TypeOK, LeavePhm, Counted, PageAssumption

PhmRely(t) ==
    /\ phm' \in [Keys -> Threads \cup {None}]
    /\ \A k \in Keys : \/ phm'[k] = phm[k]
                       \/ phm[k] \in {t, None} /\ phm'[k] \in {t, None}

\* A step that changes no page but its lock.
LEMMA QuietStep ==
    ASSUME Counted, Inv, NEW t \in Threads,
           UNCHANGED <<p_free, p_vnode, hashed>>,
           th[t].pc # "outdone",
           th' \in [Threads -> Rec], Others(t), PhmRely(t),
           p_selock' \in [Pages -> Int],
           \A p \in Pages : LockChange(t, p),
           \A p \in Pages : Awake(t, p) \/ (p_selock[p] # 0 => p_selock'[p] # 0),
           Good(t)',
           th'[t].pc = "asleep" =>
              p_selock'[th'[t].pp] # 0 /\ Named(th[t].pp, th[t].key)'
    PROVE  Inv'
<1>. IInv
  BY DEF Inv
<1>1. TypeOK'
  BY DEF IInv, TypeOK, Rec, PhmRely
<1>2. Rely(t)
  BY DEF Rely, SamePage, PhmRely
<1>3. SleepRely(t)
  BY DEF SleepRely, Awake
<1>4. Chained'
  <2>1. \A u \in Threads : th[u].pc = "outdone" => th'[u] = th[u]
    BY DEF Others
  <2>2. QED
    BY SMTT(30), <2>1 DEF IInv, Chained
<1>5. IdentityUnique'
  BY DEF IInv, IdentityUnique
<1>6. QED
  BY <1>1, <1>2, <1>3, <1>4, <1>5, StepInv

\* Phmwise of t after a step that leaves it at r and the pages as they are.
AfterPhm(t, r) ==
    /\ \A k \in Keys : phm'[k] = t =>
          /\ r.key = k
          /\ r.pc \in {"locked", "try", "trylock", "confirm", "reclaim", "unmap",
                       "swap"}
          /\ r.pc = "try" => r.op = "nowait"
          /\ r.pc # "locked" => Named(r.pp, r.key)
    /\ r.pc \in {"locked", "unmap", "swap"} \/ (r.pc = "reclaim" /\ r.op = "rename")
         => phm'[r.key] = t

\* A thread whose pages and names stay keeps what it relies on.
LEMMA QuietGood ==
    ASSUME NEW t \in Threads, NEW r, th'[t] = r, UNCHANGED <<p_free, p_vnode, hashed>>,
           Shape(r), Pagewise(r), AfterPhm(t, r)
    PROVE  Good(t)'
<1>1. Pagewise(th[t])'
  BY DEF Pagewise, Named
<1>2. Phmwise(t, th[t])'
  BY DEF Phmwise, AfterPhm, Named
<1>3. QED
  BY <1>1, <1>2 DEF Good

\* A step that takes or drops no lock of a page.
LEMMA QuietMove ==
    ASSUME Counted, Inv, NEW t \in Threads, NEW r \in Rec,
           th' = Become(t, r), UNCHANGED <<p_selock, p_free, p_vnode, hashed>>,
           PhmRely(t), th[t].pc # "outdone",
           \A p \in Pages : /\ r.pp = p /\ r.lk = "S" <=> th[t].pp = p /\ th[t].lk = "S"
                            /\ r.own = p \/ (r.pp = p /\ r.lk = "E") <=>
                                  th[t].own = p \/ (th[t].pp = p /\ th[t].lk = "E"),
           Shape(r), Pagewise(r), AfterPhm(t, r),
           r.pc = "asleep" => p_selock[r.pp] # 0 /\ Named(r.pp, r.key)
    PROVE  Inv'
<1>. IInv
  BY DEF Inv
<1>1. th'[t] = r /\ th' \in [Threads -> Rec] /\ Others(t)
  BY BecomeIs DEF IInv
<1>2. \A p \in Pages : LockChange(t, p)
  BY <1>1 DEF LockChange, Sharers, Exclusive
<1>3. Good(t)'
  BY <1>1, QuietGood
<1>4. p_selock' \in [Pages -> Int]
  BY DEF IInv, TypeOK
<1>5. r.pc = "asleep" => p_selock'[th'[t].pp] # 0 /\ Named(th[t].pp, th[t].key)'
  BY <1>1 DEF Named
<1>6. QED
  BY <1>1, <1>2, <1>3, <1>4, <1>5, QuietStep

\* A step that locks page p in mode m.
LEMMA TakeMove ==
    ASSUME Counted, Inv, NEW t \in Threads, NEW r \in Rec,
           NEW p \in Pages, NEW m \in {"S", "E"},
           th' = Become(t, r), UNCHANGED <<p_free, p_vnode, hashed>>,
           SeTryok(p, m), p_selock' = SeTaken(p, m),
           PhmRely(t), th[t].pc # "outdone", th[t].lk = "N",
           r.pp = p, r.lk = m, r.own = th[t].own, r.pc # "asleep",
           Shape(r), Pagewise(r), AfterPhm(t, r)
    PROVE  Inv'
<1>. IInv
  BY DEF Inv
<1>1. th'[t] = r /\ th' \in [Threads -> Rec] /\ Others(t)
  BY BecomeIs DEF IInv
<1>2. /\ p_selock \in [Pages -> Int] /\ p_selock[p] >= 0
      /\ p_selock' \in [Pages -> Int]
      /\ p_selock'[p] = IF m = "E" THEN -1 ELSE p_selock[p] + 1
      /\ m = "E" => p_selock[p] = 0
      /\ \A q \in Pages : q # p => p_selock'[q] = p_selock[q]
  BY SMTT(30) DEF IInv, TypeOK, SeTryok, SeTaken
<1>3. th[t].own # p
  <2>1. t \notin Exclusive(p)
    BY SMTT(30), <1>2, LockValue
  <2>2. QED
    BY <2>1 DEF Exclusive
<1>4. \A q \in Pages : LockChange(t, q)
  BY <1>1, <1>2, <1>3 DEF LockChange, Sharers, Exclusive
<1>5. Good(t)'
  BY <1>1, QuietGood
<1>6. \A q \in Pages : p_selock[q] # 0 => p_selock'[q] # 0
  BY SMTT(30), <1>2
<1>7. QED
  BY <1>1, <1>2, <1>4, <1>5, <1>6, QuietStep

\* p_selock after page_unlock() by t.
LEMMA ReleasedIs ==
    ASSUME Counted, Inv, NEW t \in Threads, NEW p \in Pages,
           th[t].pp = p, th[t].lk # "N", p_selock' = SeReleased(p)
    PROVE  /\ p_selock \in [Pages -> Int] /\ p_selock' \in [Pages -> Int]
           /\ \A q \in Pages : q # p => p_selock'[q] = p_selock[q]
           /\ th[t].lk = "E" => p_selock[p] = -1 /\ p_selock'[p] = 0
           /\ th[t].lk = "S" => p_selock[p] > 0 /\ p_selock'[p] = p_selock[p] - 1
           /\ th[t].lk \in {"S", "E"}
<1>. IInv
  BY DEF Inv
<1>1. /\ th[t].lk = "E" => t \in Exclusive(p)
      /\ th[t].lk = "S" => t \in Sharers(p)
      /\ th[t].lk \in {"S", "E"}
  BY DEF IInv, TypeOK, Exclusive, Sharers
<1>2. QED
  BY SMTT(30), <1>1, LockValue DEF IInv, TypeOK, SeReleased

\* A step that unlocks the page that t found.
LEMMA DropMove ==
    ASSUME Counted, Inv, NEW t \in Threads, NEW r \in Rec,
           Release(t, r), UNCHANGED <<p_free, p_vnode, hashed>>,
           PhmRely(t), th[t].pc # "outdone",
           th[t].pp \in Pages, th[t].lk # "N",
           r.lk = "N", r.own = th[t].own, r.pc # "asleep",
           Shape(r), Pagewise(r), AfterPhm(t, r)
    PROVE  Inv'
<1>. IInv
  BY DEF Inv
<1> DEFINE p == th[t].pp
<1>1. /\ th'[t] = r /\ th' \in [Threads -> Rec] /\ Others(t)
      /\ p_selock[p] \in {-1, 1} => Awake(t, p)
  BY UnlockedIs DEF IInv, Release
<1>2. /\ p_selock \in [Pages -> Int] /\ p_selock' \in [Pages -> Int]
      /\ \A q \in Pages : q # p => p_selock'[q] = p_selock[q]
      /\ th[t].lk = "E" => p_selock[p] = -1 /\ p_selock'[p] = 0
      /\ th[t].lk = "S" => p_selock[p] > 0 /\ p_selock'[p] = p_selock[p] - 1
      /\ th[t].lk \in {"S", "E"}
  BY ReleasedIs DEF Release
<1>3. th[t].own # p
  BY Distinct DEF Counted, PageAssumption
<1>4. \A q \in Pages : LockChange(t, q)
  BY <1>1, <1>2, <1>3 DEF LockChange, Sharers, Exclusive
<1>5. Good(t)'
  BY <1>1, QuietGood
<1>6. \A q \in Pages : Awake(t, q) \/ (p_selock[q] # 0 => p_selock'[q] # 0)
  <2>1. p_selock'[p] # 0 \/ p_selock[p] \in {-1, 1}
    BY SMTT(30), <1>2
  <2>2. QED
    BY <1>1, <1>2, <2>1
<1>7. QED
  BY <1>1, <1>2, <1>4, <1>5, <1>6, QuietStep

\* What the invariant says of one thread.
LEMMA Known ==
    ASSUME Inv, NEW t \in Threads
    PROVE  /\ th[t] \in Rec /\ th[t].pc \in Pcs \ {"panic"}
           /\ Shape(th[t]) /\ Pagewise(th[t]) /\ Phmwise(t, th[t])
BY DEF IInv, Inv, TypeOK, Rec, Good, Shape, OpsAt

\* A thread that releases its hash mutex takes nothing from the others.
LEMMA PhmKept ==
    ASSUME Counted, Inv, NEW t \in Threads, phm' = phm \/ phm' = LeavePhm(t)
    PROVE  PhmRely(t)
BY LeavePhmIs DEF IInv, Inv, TypeOK, PhmRely
------------------------------------------------------------------------------
(* Steps that put a page on the free list or take it off. *)

\* Pagewise of t after a step that leaves it at r.
AfterPages(r) ==
    /\ r.own # None /\ r.pc \in Nameless =>
          p_vnode'[r.own] = None /\ ~hashed'[r.own] /\ ~p_free'[r.own]
    /\ r.pc = "out" => hashed'[r.own]
    /\ r.pc = "outdone" => p_vnode'[r.own] # None /\ ~hashed'[r.own]
    /\ r.pc = "dispose" => /\ hashed'[r.own] /\ p_vnode'[r.own] = r.key
                           /\ ~p_free'[r.own]
    /\ r.pc = "hold" => hashed'[r.pp] /\ p_vnode'[r.pp] = r.key /\ ~p_free'[r.pp]
    /\ r.pc \in {"reclaim", "unmap", "remap", "swap"} =>
          hashed'[r.pp] /\ p_vnode'[r.pp] = r.key
    /\ r.pc = "dispose" => p_vnode'[r.pp] = None /\ ~hashed'[r.pp]
    /\ r.pc = "confirm" /\ r.op = "lookup" /\ r.lk = "S" => ~p_free'[r.pp]

\* What a thread relies on afterwards, from the facts about its new record.
LEMMA GoodIs ==
    ASSUME NEW t \in Threads, NEW r, th'[t] = r, Shape(r), AfterPages(r),
           AfterPhm(t, r), UNCHANGED <<p_vnode, hashed>> \/ \A k \in Keys : phm'[k] # t
    PROVE  Good(t)'
<1>1. Pagewise(th[t])'
  BY DEF Pagewise, AfterPages, Named
<1>2. Phmwise(t, th[t])'
  BY DEF Phmwise, AfterPhm, Named
<1>3. QED
  BY <1>1, <1>2 DEF Good

\* A step that changes p_free only of pages it has locked, or of unlocked ones.
LEMMA FreeStep ==
    ASSUME Counted, Inv, NEW t \in Threads, NEW r,
           UNCHANGED <<p_vnode, hashed>>, p_free' \in [Pages -> BOOLEAN],
           \A p \in Pages : \/ p_free'[p] = p_free[p] \/ p_selock[p] = 0
                            \/ t \in Exclusive(p),
           th[t].pc # "outdone",
           th'[t] = r, th' \in [Threads -> Rec], Others(t), PhmRely(t),
           p_selock' \in [Pages -> Int],
           \A p \in Pages : LockChange(t, p),
           \A p \in Pages : Awake(t, p) \/ (p_selock[p] # 0 => p_selock'[p] # 0),
           Shape(r), AfterPages(r), AfterPhm(t, r), r.pc # "asleep"
    PROVE  Inv'
<1>. IInv
  BY DEF Inv
<1>1. TypeOK'
  BY DEF IInv, TypeOK, Rec, PhmRely
<1>2. Rely(t)
  BY DEF Rely, SamePage, PhmRely
<1>3. SleepRely(t)
  BY DEF SleepRely, Awake
<1>4. Chained'
  <2>1. \A u \in Threads : th[u].pc = "outdone" => th'[u] = th[u]
    BY DEF Others
  <2>2. QED
    BY SMTT(30), <2>1 DEF IInv, Chained
<1>5. IdentityUnique'
  BY DEF IInv, IdentityUnique
<1>6. Good(t)'
  BY GoodIs
<1>7. QED
  BY <1>1, <1>2, <1>3, <1>4, <1>5, <1>6, StepInv

\* A thread outside the page cache holds nothing and relies on nothing.
LEMMA IdleIs ==
    /\ Idle \in Rec /\ Idle.pc = "idle" /\ Idle.op = "none" /\ Idle.key = None
    /\ Idle.pp = None /\ Idle.lk = "N" /\ Idle.own = None
    /\ Shape(Idle) /\ AfterPages(Idle)
<1>1. /\ Idle \in Rec /\ Idle.pc = "idle" /\ Idle.op = "none" /\ Idle.key = None
      /\ Idle.pp = None /\ Idle.lk = "N" /\ Idle.own = None
  BY DEF Idle, Rec, Pcs, Ops
<1>2. QED
  BY <1>1 DEF Shape, OpsAt, Bringing, AfterPages
------------------------------------------------------------------------------
(* The steps that give a page an identity or take it away *)

\* Nobody sleeps on a page that t brought and that has no identity.
LEMMA NobodyWaits ==
    ASSUME Counted, Inv, NEW t \in Threads, NEW p \in Pages,
           th[t].own = p, th[t].pc # "outdone", ~hashed[p], Others(t)
    PROVE  Awake(t, p)
<1>. IInv
  BY DEF Inv
<1> SUFFICES ASSUME NEW u \in Threads, u # t, th'[u].pc = "asleep", th'[u].pp = p
             PROVE  FALSE
  BY DEF Awake
<1>1. th[u] \in Rec
  BY Known
<1>2. th[u].pc = "asleep" /\ th[u].pp = p
  BY <1>1 DEF Others, Rec
<1>3. PICK v \in Threads : th[v].own = p /\ th[v].pc = "outdone"
  BY <1>2 DEF IInv, SleeperSound
<1>4. v \in Exclusive(p) /\ t \in Exclusive(p)
  BY <1>3 DEF Exclusive
<1>5. v = t
  BY <1>4, HeldPage
<1>6. QED
  BY <1>3, <1>5

\* The page is taken off its chain.
LEMMA HashoutChainStep ==
    ASSUME Counted, Inv, NEW t \in Threads, HashoutChain(t)
    PROVE  Inv'
<1>. IInv
  BY DEF Inv
<1> DEFINE x == th[t]
           p == x.own
           r == [x EXCEPT !.pc = "outdone"]
<1>1. /\ x.pc = "out" /\ phm[p_vnode[p]] = None
      /\ hashed' = [hashed EXCEPT ![p] = FALSE] /\ th' = Become(t, r)
      /\ UNCHANGED <<p_selock, p_free, p_vnode, phm>>
  BY DEF HashoutChain
<1>2. /\ x \in Rec /\ Shape(x) /\ Pagewise(x) /\ Phmwise(t, x) /\ p \in Pages
      /\ x.op \in Bringing /\ x.lk = "N"
  BY <1>1, Known DEF Shape, OpsAt, Rec
<1>3. /\ r \in Rec /\ r.op = x.op /\ r.key = x.key /\ r.se = x.se
      /\ r.pp = x.pp /\ r.lk = x.lk /\ r.own = p /\ r.pc = "outdone"
  BY <1>2 DEF Rec, Pcs
<1>4. x = th[t] /\ p = th[t].own /\ p = x.own
  OBVIOUS
<1> HIDE DEF x, p, r
<1>5. t \in Exclusive(p) /\ hashed[p] /\ p_vnode[p] # None
  BY <1>1, <1>2, <1>4 DEF Exclusive, Pagewise, IInv, Chained, p
<1>6. /\ th'[t] = r /\ th' \in [Threads -> Rec] /\ Others(t)
  BY <1>1, <1>3, BecomeIs DEF IInv
<1>7. /\ hashed' \in [Pages -> BOOLEAN] /\ hashed'[p] = FALSE
      /\ \A q \in Pages : q # p => hashed'[q] = hashed[q]
  BY <1>1, <1>2 DEF IInv, TypeOK
<1>8. TypeOK'
  BY <1>1, <1>6, <1>7 DEF IInv, TypeOK, Rec
<1>9. Rely(t)
  BY <1>1, <1>5, <1>7 DEF Rely, SamePage
<1>10. \A q \in Pages : LockChange(t, q)
  BY <1>1, <1>2, <1>3, <1>4, <1>6 DEF LockChange, Sharers, Exclusive
<1>11. SleepRely(t)
  BY <1>1, <1>3, <1>4, <1>6, <1>7 DEF SleepRely
<1>12. Shape(r)
  BY <1>1, <1>2, <1>3, <1>4 DEF Shape, OpsAt, Bringing
<1>13. AfterPages(r)
  BY <1>1, <1>3, <1>5, <1>7 DEF AfterPages, Nameless
<1>14. \A k \in Keys : phm'[k] # t
  BY <1>1, <1>2 DEF Phmwise
<1>15. AfterPhm(t, r)
  BY <1>3, <1>14 DEF AfterPhm
<1>16. Good(t)'
  BY <1>6, <1>12, <1>13, <1>14, <1>15, GoodIs
<1>17. Chained'
  <2>1. \A u \in Threads : th[u].pc = "outdone" => th'[u] = th[u]
    BY <1>1, <1>4, <1>6 DEF Others
  <2>2. \A q \in Pages : q # p =>
           /\ hashed'[q] => p_vnode'[q] # None
           /\ p_vnode'[q] # None /\ ~hashed'[q] =>
                 \E u \in Threads : th'[u].own = q /\ th'[u].pc = "outdone"
    BY SMTT(30), <1>1, <1>7, <2>1 DEF IInv, Chained
  <2>3. th'[t].own = p /\ th'[t].pc = "outdone"
    BY <1>3, <1>6
  <2>4. QED
    BY <1>7, <2>2, <2>3 DEF Chained
<1>18. IdentityUnique'
  BY <1>1, <1>7 DEF IInv, IdentityUnique
<1>19. QED
  BY <1>3, <1>6, <1>8, <1>9, <1>10, <1>11, <1>16, <1>17, <1>18, StepInv

\* The identity is erased and the sleepers are woken.
LEMMA HashoutEndStep ==
    ASSUME Counted, Inv, NEW t \in Threads, HashoutEnd(t)
    PROVE  Inv'
<1>. IInv
  BY DEF Inv
<1> DEFINE x == th[t]
           p == x.own
           r == IF x.op = "destroy" THEN Idle ELSE [x EXCEPT !.pc = "phm"]
<1>1. /\ x.pc = "outdone" /\ p_vnode' = [p_vnode EXCEPT ![p] = None]
      /\ th' = Broadcast(Become(t, r), p)
      /\ p_free' = [p_free EXCEPT ![p] = x.op = "destroy"]
      /\ p_selock' = IF x.op = "destroy" THEN SeReleased(p) ELSE p_selock
      /\ UNCHANGED <<hashed, phm>>
  BY DEF HashoutEnd, Hashout
<1>2. /\ x \in Rec /\ Shape(x) /\ Pagewise(x) /\ Phmwise(t, x) /\ p \in Pages
      /\ x.op \in Bringing /\ x.lk = "N" /\ ~hashed[p] /\ x.pp = None
  BY <1>1, Known DEF Shape, OpsAt, Rec, Pagewise
<1>3. /\ r \in Rec /\ r.lk = "N" /\ r.pp = None
      /\ x.op = "destroy" => r = Idle
      /\ x.op # "destroy" => /\ r.op = x.op /\ r.key = x.key /\ r.se = x.se
                             /\ r.own = p /\ r.pc = "phm"
  BY <1>2, IdleIs DEF Rec, Pcs
<1>4. x = th[t] /\ p = th[t].own /\ p = x.own
  OBVIOUS
<1> HIDE DEF x, p, r
<1>5. t \in Exclusive(p) /\ p_selock[p] = -1
  BY <1>2, <1>4, LockValue DEF Exclusive
<1>6. r.pc # "asleep" /\ r.pc # "outdone"
  BY <1>3, IdleIs
<1>7. /\ th'[t] = r /\ th' \in [Threads -> Rec] /\ Others(t) /\ Awake(t, p)
  BY <1>1, <1>3, <1>6, BroadcastIs DEF IInv
<1>8. /\ p_vnode' \in [Pages -> Keys \cup {None}] /\ p_vnode'[p] = None
      /\ \A q \in Pages : q # p => p_vnode'[q] = p_vnode[q]
  BY <1>1, <1>2 DEF IInv, TypeOK
<1>9. /\ p_free' \in [Pages -> BOOLEAN] /\ p_free'[p] = (x.op = "destroy")
      /\ \A q \in Pages : q # p => p_free'[q] = p_free[q]
  BY <1>1, <1>2 DEF IInv, TypeOK
<1>10. /\ p_selock' \in [Pages -> Int]
       /\ p_selock'[p] = IF x.op = "destroy" THEN 0 ELSE p_selock[p]
       /\ \A q \in Pages : q # p => p_selock'[q] = p_selock[q]
  BY SMTT(30), <1>1, <1>2, <1>5 DEF IInv, TypeOK, SeReleased
<1>11. TypeOK'
  BY <1>1, <1>7, <1>8, <1>9, <1>10 DEF IInv, TypeOK, Rec
<1>12. Rely(t)
  BY <1>1, <1>2, <1>5, <1>8, <1>9 DEF Rely, SamePage
<1>13. \A q \in Pages : LockChange(t, q)
  <2>1. CASE x.op = "destroy"
    <3>1. \A q \in Pages : /\ t \notin Sharers(q) /\ t \notin Sharers(q)'
                           /\ t \in Exclusive(q) <=> q = p
                           /\ t \notin Exclusive(q)'
      BY <1>2, <1>3, <1>4, <1>7, <2>1, IdleIs DEF Sharers, Exclusive, Counted, PageAssumption
    <3>2. QED
      BY <1>5, <1>10, <2>1, <3>1 DEF LockChange
  <2>2. CASE x.op # "destroy"
    BY <1>2, <1>3, <1>4, <1>7, <1>10, <2>2 DEF LockChange, Sharers, Exclusive
  <2>3. QED
    BY <2>1, <2>2
<1>14. SleepRely(t)
  BY <1>1, <1>4, <1>7, <1>8, <1>10 DEF SleepRely, Awake
<1>15. Shape(r)
  BY SMTT(30), <1>1, <1>2, <1>3, <1>4, IdleIs DEF Shape, OpsAt, Bringing
<1>16. AfterPages(r)
  <2>1. CASE x.op = "destroy"
    BY <1>3, <2>1, IdleIs
  <2>2. CASE x.op # "destroy"
    BY <1>1, <1>2, <1>3, <1>8, <1>9, <2>2 DEF AfterPages, Nameless
  <2>3. QED
    BY <2>1, <2>2
<1>17. \A k \in Keys : phm'[k] # t
  BY <1>1, <1>2 DEF Phmwise
<1>18. AfterPhm(t, r)
  BY <1>3, <1>17, IdleIs DEF AfterPhm
<1>19. Good(t)'
  BY <1>7, <1>15, <1>16, <1>17, <1>18, GoodIs
<1>20. Chained'
  <2>1. \A u \in Threads : u # t /\ th[u].pc = "outdone" => th'[u] = th[u]
    BY <1>7 DEF Others
  <2>2. \A q \in Pages : q # p =>
           /\ hashed'[q] => p_vnode'[q] # None
           /\ p_vnode'[q] # None /\ ~hashed'[q] =>
                 \E u \in Threads : th'[u].own = q /\ th'[u].pc = "outdone"
    BY SMTT(30), <1>1, <1>4, <1>8, <2>1 DEF IInv, Chained
  <2>3. QED
    BY <1>1, <1>2, <1>8, <2>2 DEF Chained
<1>21. IdentityUnique'
  BY <1>1, <1>2, <1>8 DEF IInv, IdentityUnique
<1>22. QED
  BY <1>6, <1>7, <1>11, <1>12, <1>13, <1>14, <1>19, <1>20, <1>21, StepInv

\* A page without an identity is given one that no page has.
LEMMA HashinNewStep ==
    ASSUME Counted, Inv, NEW t \in Threads, HashinNew(t)
    PROVE  Inv'
<1>. IInv
  BY DEF Inv
<1> DEFINE x == th[t]
           p == x.own
           r == [x EXCEPT !.pc = "hold", !.pp = p, !.lk = "E", !.own = None]
<1>1. /\ x.pc = "locked" /\ x.op \in {"create", "rename"} /\ Matches(x.key) = {}
      /\ p_vnode' = [p_vnode EXCEPT ![p] = x.key]
      /\ hashed' = [hashed EXCEPT ![p] = TRUE]
      /\ phm' = LeavePhm(t) /\ th' = Become(t, r)
      /\ UNCHANGED <<p_selock, p_free>>
  BY DEF HashinNew, Hashin
<1>2. /\ x \in Rec /\ Shape(x) /\ Pagewise(x) /\ p \in Pages /\ x.key \in Keys
      /\ x.lk = "N" /\ ~hashed[p] /\ p_vnode[p] = None /\ ~p_free[p] /\ x.se = "E"
  BY <1>1, Known DEF Shape, OpsAt, Rec, Pagewise, Nameless, Bringing
<1>3. /\ r \in Rec /\ r.op = x.op /\ r.key = x.key /\ r.se = x.se
      /\ r.pp = p /\ r.lk = "E" /\ r.own = None /\ r.pc = "hold"
  BY <1>1, <1>2 DEF Rec, Pcs
<1>4. x = th[t] /\ p = th[t].own
  OBVIOUS
<1> HIDE DEF x, p, r
<1>5. t \in Exclusive(p)
  BY <1>4 DEF Exclusive
<1>6. /\ th'[t] = r /\ th' \in [Threads -> Rec] /\ Others(t)
  BY <1>1, <1>3, BecomeIs DEF IInv
<1>7. Awake(t, p)
  BY <1>1, <1>2, <1>4, <1>6, NobodyWaits
<1>8. /\ p_vnode' \in [Pages -> Keys \cup {None}] /\ p_vnode'[p] = x.key
      /\ \A q \in Pages : q # p => p_vnode'[q] = p_vnode[q]
  BY <1>1, <1>2 DEF IInv, TypeOK
<1>9. /\ hashed' \in [Pages -> BOOLEAN] /\ hashed'[p] = TRUE
      /\ \A q \in Pages : q # p => hashed'[q] = hashed[q]
  BY <1>1, <1>2 DEF IInv, TypeOK
<1>10. PhmRely(t)
  BY <1>1, PhmKept
<1>11. TypeOK'
  BY <1>1, <1>6, <1>8, <1>9, <1>10 DEF IInv, TypeOK, Rec, PhmRely
<1>12. Rely(t)
  BY <1>1, <1>2, <1>5, <1>8, <1>9, <1>10 DEF Rely, SamePage, PhmRely
<1>13. \A q \in Pages : LockChange(t, q)
  <2>1. \A q \in Pages : /\ t \notin Sharers(q) /\ t \notin Sharers(q)'
                         /\ t \in Exclusive(q) <=> q = p
                         /\ t \in Exclusive(q)' <=> q = p
    BY <1>2, <1>3, <1>4, <1>6 DEF Sharers, Exclusive, Counted, PageAssumption
  <2>2. QED
    BY <1>1, <2>1 DEF LockChange
<1>14. SleepRely(t)
  <2>1. p_selock' = p_selock /\ th[t].pc # "outdone"
    BY <1>1, <1>4
  <2>2. \A q \in Pages : q # p => p_vnode'[q] = p_vnode[q] /\ hashed'[q] = hashed[q]
    BY <1>8, <1>9
  <2>3. QED
    BY <1>7, <2>1, <2>2 DEF SleepRely, Awake
<1>15. Shape(r)
  BY <1>1, <1>2, <1>3 DEF Shape, OpsAt, Bringing, Counted, PageAssumption
<1>16. AfterPages(r)
  BY <1>1, <1>2, <1>3, <1>8, <1>9 DEF AfterPages, Nameless
<1>17. \A k \in Keys : phm'[k] # t
  BY <1>1, LeavePhmIs DEF IInv
<1>18. AfterPhm(t, r)
  BY <1>3, <1>17 DEF AfterPhm
<1>19. Good(t)'
  BY <1>6, <1>15, <1>16, <1>17, <1>18, GoodIs
<1>20. Chained'
  <2>1. \A u \in Threads : th[u].pc = "outdone" => th'[u] = th[u]
    BY <1>1, <1>4, <1>6 DEF Others
  <2>2. \A q \in Pages : q # p =>
           /\ hashed'[q] => p_vnode'[q] # None
           /\ p_vnode'[q] # None /\ ~hashed'[q] =>
                 \E u \in Threads : th'[u].own = q /\ th'[u].pc = "outdone"
    BY SMTT(30), <1>8, <1>9, <2>1 DEF IInv, Chained
  <2>3. QED
    BY SMTT(30), <1>2, <1>8, <1>9, <2>2 DEF Chained, Counted, PageAssumption
<1>21. IdentityUnique'
  <2>1. \A q \in Pages : ~(hashed[q] /\ p_vnode[q] = x.key)
    BY <1>1 DEF Matches
  <2>2. QED
    BY SMTT(30), <1>8, <1>9, <2>1 DEF IInv, IdentityUnique
<1>22. QED
  BY <1>3, <1>6, <1>11, <1>12, <1>13, <1>14, <1>19, <1>20, <1>21, StepInv

\* One identity changes pages.
LEMMA RenameSwapStep ==
    ASSUME Counted, Inv, NEW t \in Threads, RenameSwap(t)
    PROVE  Inv'
<1>. IInv
  BY DEF Inv
<1> DEFINE x == th[t]
           old == x.pp
           new == x.own
           r == [x EXCEPT !.pc = "dispose"]
<1>1. /\ x.pc \in {"unmap", "swap"}
      /\ p_vnode' = [p_vnode EXCEPT ![old] = None, ![new] = x.key]
      /\ hashed' = [hashed EXCEPT ![old] = FALSE, ![new] = TRUE]
      /\ phm' = LeavePhm(t) /\ th' = Broadcast(Become(t, r), old)
      /\ UNCHANGED <<p_selock, p_free>>
  BY DEF RenameSwap
<1>2. /\ x \in Rec /\ Shape(x) /\ Pagewise(x) /\ Phmwise(t, x) /\ x.lk = "E"
      /\ old \in Pages /\ new \in Pages /\ x.key \in Keys /\ x.op = "rename"
      /\ Named(old, x.key) /\ phm[x.key] = t
      /\ ~hashed[new] /\ p_vnode[new] = None /\ ~p_free[new]
  BY <1>1, Known DEF Shape, OpsAt, Rec, Pagewise, Phmwise, Nameless, Bringing
<1>3. /\ r \in Rec /\ r.op = x.op /\ r.key = x.key /\ r.se = x.se
      /\ r.pp = old /\ r.lk = "E" /\ r.own = new /\ r.pc = "dispose"
  BY <1>1, <1>2 DEF Rec, Pcs
<1>4. /\ x = th[t] /\ old = th[t].pp /\ new = th[t].own /\ old = x.pp
      /\ new = x.own /\ old # new /\ th[t].pc # "outdone"
  BY <1>1, <1>2 DEF Named
<1> HIDE DEF x, old, new, r
<1>5. t \in Exclusive(old) /\ t \in Exclusive(new)
  BY <1>2, <1>4 DEF Exclusive
<1>6. /\ th'[t] = r /\ th' \in [Threads -> Rec] /\ Others(t) /\ Awake(t, old)
  BY <1>1, <1>3, BroadcastIs DEF IInv
<1>7. Awake(t, new)
  BY <1>2, <1>4, <1>6, NobodyWaits
<1>8. /\ p_vnode' \in [Pages -> Keys \cup {None}]
      /\ p_vnode'[old] = None /\ p_vnode'[new] = x.key
      /\ \A q \in Pages : q \notin {old, new} => p_vnode'[q] = p_vnode[q]
  BY <1>1, <1>2, <1>4 DEF IInv, TypeOK
<1>9. /\ hashed' \in [Pages -> BOOLEAN] /\ hashed'[old] = FALSE /\ hashed'[new] = TRUE
      /\ \A q \in Pages : q \notin {old, new} => hashed'[q] = hashed[q]
  BY <1>1, <1>2, <1>4 DEF IInv, TypeOK
<1>10. PhmRely(t) /\ p_selock' = p_selock /\ p_free' = p_free
  BY <1>1, PhmKept
<1>11. TypeOK'
  BY <1>6, <1>8, <1>9, <1>10 DEF IInv, TypeOK, Rec, PhmRely
<1>12. Rely(t)
  <2>1. \A p \in Pages : p_selock[p] # 0 /\ t \notin Exclusive(p) => SamePage(p)
    BY <1>5, <1>8, <1>9, <1>10 DEF SamePage
  <2>2. \A p \in Pages : hashed[p] /\ phm[p_vnode[p]] \notin {None, t} =>
           hashed'[p] /\ p_vnode'[p] = p_vnode[p]
    BY <1>2, <1>8, <1>9 DEF Named
  <2>3. QED
    BY <1>10, <2>1, <2>2 DEF Rely, PhmRely
<1>13. \A q \in Pages : LockChange(t, q)
  <2>1. \A q \in Pages : /\ t \in Sharers(q) <=> t \in Sharers(q)'
                         /\ t \in Exclusive(q) <=> t \in Exclusive(q)'
    BY <1>2, <1>3, <1>4, <1>6 DEF Sharers, Exclusive
  <2>2. QED
    BY <1>10, <2>1 DEF LockChange
<1>14. SleepRely(t)
  <2>1. \A q \in Pages : q \notin {old, new} =>
           p_vnode'[q] = p_vnode[q] /\ hashed'[q] = hashed[q]
    BY <1>8, <1>9
  <2>2. QED
    BY <1>4, <1>6, <1>7, <1>10, <2>1 DEF SleepRely, Awake
<1>15. Shape(r)
  BY <1>1, <1>2, <1>3, <1>4 DEF Shape, OpsAt, Bringing, Counted, PageAssumption
<1>16. AfterPages(r)
  BY <1>2, <1>3, <1>8, <1>9, <1>10 DEF AfterPages, Nameless
<1>17. \A k \in Keys : phm'[k] # t
  BY <1>1, LeavePhmIs DEF IInv
<1>18. AfterPhm(t, r)
  BY <1>3, <1>17 DEF AfterPhm
<1>19. Good(t)'
  BY <1>6, <1>15, <1>16, <1>17, <1>18, GoodIs
<1>20. Chained'
  <2>1. \A u \in Threads : th[u].pc = "outdone" => th'[u] = th[u]
    BY <1>4, <1>6 DEF Others
  <2>2. \A q \in Pages : q \notin {old, new} =>
           /\ hashed'[q] => p_vnode'[q] # None
           /\ p_vnode'[q] # None /\ ~hashed'[q] =>
                 \E u \in Threads : th'[u].own = q /\ th'[u].pc = "outdone"
    BY SMTT(30), <1>8, <1>9, <2>1 DEF IInv, Chained
  <2>3. QED
    BY SMTT(30), <1>2, <1>8, <1>9, <2>2 DEF Chained, Counted, PageAssumption
<1>21. IdentityUnique'
  <2>1. \A q \in Pages : hashed[q] /\ p_vnode[q] = x.key => q = old
    BY <1>2 DEF IInv, IdentityUnique, Named
  <2>2. QED
    BY SMTT(30), <1>8, <1>9, <2>1 DEF IInv, IdentityUnique
<1>22. QED
  BY <1>3, <1>6, <1>11, <1>12, <1>13, <1>14, <1>19, <1>20, <1>21, StepInv
------------------------------------------------------------------------------
(* The steps that change no page but its lock *)

\* page_lookup() and page_lookup_nowait() search without phm.
LEMMA LookupStep ==
    ASSUME Counted, Inv, NEW t \in Threads,
           PageLookup(t) \/ PageLookupNowait(t)
    PROVE  Inv'
<1>. IInv
  BY DEF Inv
<1>1. PICK k \in Keys, se \in {"S", "E"}, op \in {"lookup", "nowait"} :
         Lookup(t, k, se, op)
  BY DEF PageLookup, PageLookupNowait
<1>2. PICK p \in Matches(k) \cup {None} :
         th' = Become(t, [Idle EXCEPT !.op = op, !.key = k, !.se = se, !.pp = p,
                             !.pc = IF p = None THEN "phm" ELSE "try"])
  BY <1>1 DEF Lookup
<1>3. th[t] = Idle /\ UNCHANGED <<p_selock, p_free, p_vnode, hashed, phm>>
  BY <1>1, Known DEF Lookup, Shape
<1> DEFINE r == [Idle EXCEPT !.op = op, !.key = k, !.se = se, !.pp = p,
                             !.pc = IF p = None THEN "phm" ELSE "try"]
<1>4. th' = Become(t, r)
  BY <1>2
<1>5. /\ r \in Rec /\ r.pc = IF p = None THEN "phm" ELSE "try"
      /\ r.op = op /\ r.key = k /\ r.se = se /\ r.pp = p /\ r.lk = "N"
      /\ r.own = None
  BY <1>1, <1>2 DEF Rec, Pcs, Ops, Matches, Idle
<1> HIDE DEF r
<1>6. Shape(r)
  BY <1>5 DEF Shape, OpsAt, Bringing
<1>7. Pagewise(r)
  BY <1>5 DEF Pagewise
<1>8. AfterPhm(t, r)
  BY SMTT(30), <1>3, <1>5, Known DEF AfterPhm, Phmwise, Idle
<1>9. \A q \in Pages :
         /\ r.pp = q /\ r.lk = "S" <=> th[t].pp = q /\ th[t].lk = "S"
         /\ r.own = q \/ (r.pp = q /\ r.lk = "E") <=>
               th[t].own = q \/ (th[t].pp = q /\ th[t].lk = "E")
  BY SMTT(30), <1>3, <1>5 DEF Idle
<1>10. PhmRely(t)
  BY <1>3, PhmKept
<1>11. th[t].pc # "outdone" /\ r.pc # "asleep"
  BY SMTT(30), <1>3, <1>5 DEF Idle
<1>12. QED
  BY <1>3, <1>4, <1>5, <1>6, <1>7, <1>8, <1>9, <1>10, <1>11, QuietMove

\* A call gives up and returns, without a page.
LEMMA IdleMove ==
    ASSUME Counted, Inv, NEW t \in Threads,
           th[t].lk = "N", th[t].own = None, th[t].pc # "outdone",
           th' = Become(t, Idle), phm' = LeavePhm(t),
           UNCHANGED <<p_selock, p_free, p_vnode, hashed>>
    PROVE  Inv'
<1>. IInv
  BY DEF Inv
<1>1. /\ Idle \in Rec /\ Idle.pc = "idle" /\ Idle.op = "none" /\ Idle.key = None
      /\ Idle.pp = None /\ Idle.lk = "N" /\ Idle.own = None
  BY DEF Idle, Rec, Pcs, Ops
<1>2. Shape(Idle) /\ Pagewise(Idle)
  BY <1>1 DEF Shape, OpsAt, Bringing, Pagewise
<1>3. AfterPhm(t, Idle)
  BY <1>1, LeavePhmIs DEF IInv, AfterPhm
<1>4. PhmRely(t)
  BY PhmKept
<1>5. QED
  BY <1>1, <1>2, <1>3, <1>4, QuietMove DEF Counted, PageAssumption

\* page_try_reclaim_lock() without phm.
LEMMA TryReclaimStep ==
    ASSUME Counted, Inv, NEW t \in Threads, TryReclaimLock(t)
    PROVE  Inv'
<1>. IInv
  BY DEF Inv
<1> DEFINE p == th[t].pp
           want == SeWanted(p, th[t].se, TRUE)
           r1 == [th[t] EXCEPT !.pc = "confirm", !.lk = want]
           r2 == [th[t] EXCEPT !.pc = "phm", !.pp = None]
<1>1. /\ th[t].pc = "try" /\ th[t].op = "lookup"
      /\ UNCHANGED <<p_free, p_vnode, hashed, phm>>
      /\ \/ SeTryok(p, want) /\ p_selock' = SeTaken(p, want) /\ th' = Become(t, r1)
         \/ th' = Become(t, r2) /\ p_selock' = p_selock
  BY DEF TryReclaimLock
<1>2. /\ th[t] \in Rec /\ p \in Pages /\ th[t].lk = "N" /\ th[t].own = None
      /\ th[t].key \in Keys /\ th[t].se \in {"S", "E"}
  BY <1>1, Known DEF Shape, OpsAt, Bringing, Rec
<1>3. want \in {"S", "E"} /\ (want = "S" => ~p_free[p])
  BY <1>2 DEF SeWanted
<1>4. /\ r1 \in Rec /\ r1.pc = "confirm" /\ r1.op = "lookup" /\ r1.key = th[t].key
      /\ r1.se = th[t].se /\ r1.pp = p /\ r1.lk = want /\ r1.own = None
  BY <1>1, <1>2, <1>3 DEF Rec, Pcs
<1>5. /\ r2 \in Rec /\ r2.pc = "phm" /\ r2.op = "lookup" /\ r2.key = th[t].key
      /\ r2.se = th[t].se /\ r2.pp = None /\ r2.lk = "N" /\ r2.own = None
  BY <1>1, <1>2 DEF Rec, Pcs
<1>6. PhmRely(t)
  BY <1>1, PhmKept
<1> HIDE DEF p, want, r1, r2
<1>7. CASE SeTryok(p, want) /\ p_selock' = SeTaken(p, want) /\ th' = Become(t, r1)
  <2>1. Shape(r1)
    BY <1>2, <1>3, <1>4 DEF Shape, OpsAt, Bringing, Counted, PageAssumption
  <2>2. Pagewise(r1)
    BY <1>3, <1>4 DEF Pagewise
  <2>3. AfterPhm(t, r1)
    BY <1>1, <1>4, Known DEF AfterPhm, Phmwise
  <2>4. QED
    BY <1>1, <1>2, <1>3, <1>4, <1>6, <1>7, <2>1, <2>2, <2>3, TakeMove
<1>8. CASE th' = Become(t, r2) /\ p_selock' = p_selock
  <2>1. \A k \in Keys : phm'[k] # t
    BY <1>1, Known DEF Phmwise
  <2>2. Shape(r2) /\ Pagewise(r2) /\ AfterPhm(t, r2)
    BY <1>2, <1>5, <2>1 DEF Shape, OpsAt, Bringing, Pagewise, AfterPhm
  <2>3. QED
    BY <1>1, <1>2, <1>5, <1>6, <1>8, <2>2, QuietMove
<1>9. QED
  BY <1>1, <1>7, <1>8

\* page_lookup_nowait(): PP_ISFREE, then page_trylock().
LEMMA NowaitStep ==
    ASSUME Counted, Inv, NEW t \in Threads, IsfreeTest(t) \/ Trylock(t)
    PROVE  Inv'
<1>. IInv
  BY DEF Inv
<1> DEFINE p == th[t].pp
           m == th[t].se
           r1 == [th[t] EXCEPT !.pc = "trylock"]
           r2 == [th[t] EXCEPT !.pc = "confirm", !.lk = m]
<1>1. /\ th[t].pc \in {"try", "trylock"} /\ th[t].op = "nowait"
      /\ UNCHANGED <<p_free, p_vnode, hashed>>
      /\ \/ GiveUp(t)
         \/ th' = Become(t, r1) /\ UNCHANGED <<p_selock, phm>>
         \/ SeTryok(p, m) /\ p_selock' = SeTaken(p, m) /\ th' = Become(t, r2)
              /\ phm' = phm
  BY Known DEF IsfreeTest, Trylock, Shape, OpsAt
<1>2. /\ th[t] \in Rec /\ p \in Pages /\ th[t].lk = "N" /\ th[t].own = None
      /\ th[t].key \in Keys /\ m \in {"S", "E"}
  BY <1>1, Known DEF Shape, OpsAt, Bringing, Rec
<1>3. /\ r1 \in Rec /\ r1.pc = "trylock" /\ r1.op = "nowait" /\ r1.key = th[t].key
      /\ r1.se = m /\ r1.pp = p /\ r1.lk = "N" /\ r1.own = None
  BY <1>1, <1>2 DEF Rec, Pcs
<1>4. /\ r2 \in Rec /\ r2.pc = "confirm" /\ r2.op = "nowait" /\ r2.key = th[t].key
      /\ r2.se = m /\ r2.pp = p /\ r2.lk = m /\ r2.own = None
  BY <1>1, <1>2 DEF Rec, Pcs
<1>5. th[t].pp = p
  OBVIOUS
<1> HIDE DEF p, m, r1, r2
<1>6. CASE GiveUp(t)
  BY <1>1, <1>2, <1>6, IdleMove DEF GiveUp
<1>7. CASE th' = Become(t, r1) /\ UNCHANGED <<p_selock, phm>>
  <2>1. Shape(r1) /\ Pagewise(r1)
    BY <1>2, <1>3 DEF Shape, OpsAt, Bringing, Pagewise, Counted, PageAssumption
  <2>2. AfterPhm(t, r1)
    BY <1>1, <1>3, <1>5, <1>7, Known DEF AfterPhm, Phmwise
  <2>3. PhmRely(t)
    BY <1>7, PhmKept
  <2>4. QED
    BY <1>1, <1>2, <1>3, <1>7, <2>1, <2>2, <2>3, QuietMove
<1>8. CASE SeTryok(p, m) /\ p_selock' = SeTaken(p, m) /\ th' = Become(t, r2)
              /\ phm' = phm
  <2>1. Shape(r2) /\ Pagewise(r2)
    BY <1>2, <1>4 DEF Shape, OpsAt, Bringing, Pagewise, Counted, PageAssumption
  <2>2. AfterPhm(t, r2)
    BY <1>1, <1>4, <1>5, <1>8, Known DEF AfterPhm, Phmwise
  <2>3. PhmRely(t)
    BY <1>8, PhmKept
  <2>4. QED
    BY <1>1, <1>2, <1>4, <1>8, <2>1, <2>2, <2>3, TakeMove
<1>9. QED
  BY <1>1, <1>6, <1>7, <1>8

\* mutex_enter(phm)
LEMMA EnterPhmStep ==
    ASSUME Counted, Inv, NEW t \in Threads, EnterPhm(t)
    PROVE  Inv'
<1>. IInv
  BY DEF Inv
<1> DEFINE x == th[t]
           r == [x EXCEPT !.pc = IF @ = "phm" THEN "locked" ELSE "swap"]
<1>1. /\ x.pc \in {"phm", "remap"} /\ phm[x.key] = None
      /\ phm' = [phm EXCEPT ![x.key] = t]
      /\ th' = Become(t, r)
      /\ UNCHANGED <<p_selock, p_free, p_vnode, hashed>>
  BY DEF EnterPhm
<1>2. /\ x \in Rec /\ x.key \in Keys /\ Shape(x) /\ Pagewise(x) /\ Phmwise(t, x)
      /\ phm \in [Keys -> Threads \cup {None}]
  BY <1>1, Known DEF Shape, OpsAt, IInv, TypeOK
<1>3. /\ r \in Rec /\ r.op = x.op /\ r.key = x.key /\ r.se = x.se /\ r.pp = x.pp
      /\ r.lk = x.lk /\ r.own = x.own
      /\ r.pc = IF x.pc = "phm" THEN "locked" ELSE "swap"
  BY <1>1, <1>2 DEF Rec, Pcs
<1>4. PhmRely(t) /\ phm'[x.key] = t /\ \A k \in Keys : phm'[k] = t => k = x.key
  BY <1>1, <1>2 DEF PhmRely, Phmwise
<1>5. x = th[t]
  OBVIOUS
<1> HIDE DEF r, x
<1>6. Shape(r)
  BY <1>1, <1>2, <1>3 DEF Shape, OpsAt, Bringing
<1>7. Pagewise(r)
  BY <1>1, <1>2, <1>3 DEF Pagewise, Nameless
<1>8. AfterPhm(t, r)
  BY <1>1, <1>2, <1>3, <1>4 DEF AfterPhm, Pagewise
<1>9. QED
  BY SMTT(30), <1>1, <1>3, <1>4, <1>5, <1>6, <1>7, <1>8, QuietMove

\* page_lock() with phm held.
LEMMA PageLockStep ==
    ASSUME Counted, Inv, NEW t \in Threads, NEW p \in Pages,
           NEW se \in {"S", "E"}, NEW reclaim \in BOOLEAN,
           NEW next \in {"confirm", "unmap", "hold"},
           th[t].pc = "locked", Named(p, th[t].key),
           PageLock(t, p, se, reclaim, next),
           \/ th[t].op = "lookup" /\ next = "confirm" /\ se = th[t].se /\ reclaim
           \/ th[t].op = "rename" /\ next = "unmap" /\ se = "E" /\ reclaim
           \/ th[t].op = "create" /\ ~SeTryok(p, se) /\ ~reclaim
    PROVE  Inv'
<1>. IInv
  BY DEF Inv
<1> DEFINE x == th[t]
           want == SeWanted(p, se, reclaim)
           r1 == [x EXCEPT !.pp = p, !.lk = want,
                           !.pc = IF reclaim /\ p_free[p] THEN "reclaim" ELSE next]
           r2 == [x EXCEPT !.pp = p, !.pc = "asleep"]
<1>1. /\ UNCHANGED <<p_free, p_vnode, hashed>>
      /\ \/ /\ SeTryok(p, want) /\ p_selock' = SeTaken(p, want)
            /\ th' = Become(t, r1) /\ phm' = phm
         \/ /\ ~SeTryok(p, want) /\ p_selock' = p_selock
            /\ th' = Become(t, r2) /\ phm' = LeavePhm(t)
  BY DEF PageLock
<1>2. /\ x \in Rec /\ Shape(x) /\ Pagewise(x) /\ Phmwise(t, x)
      /\ x.lk = "N" /\ x.pp = None /\ x.key \in Keys
  BY Known DEF Shape, OpsAt
<1>3. /\ want \in {"S", "E"} /\ (reclaim /\ p_free[p] => want = "E")
      /\ (want = "S" => ~(reclaim /\ p_free[p])) /\ (se = "E" => want = "E")
      /\ (~reclaim => want = se)
  BY DEF SeWanted
<1>4. /\ r1 \in Rec /\ r1.op = x.op /\ r1.key = x.key /\ r1.se = x.se
      /\ r1.pp = p /\ r1.lk = want /\ r1.own = x.own
      /\ r1.pc = IF reclaim /\ p_free[p] THEN "reclaim" ELSE next
  <2> DEFINE w == want
             pc == IF reclaim /\ p_free[p] THEN "reclaim" ELSE next
  <2>1. pc \in Pcs /\ w \in {"S", "E"}
    BY <1>3 DEF Pcs
  <2> HIDE DEF w, pc
  <2>2. LET y == [x EXCEPT !.pp = p, !.lk = w, !.pc = pc]
        IN  /\ y \in Rec /\ y.op = x.op /\ y.key = x.key /\ y.se = x.se
            /\ y.pp = p /\ y.lk = w /\ y.own = x.own /\ y.pc = pc
    BY <1>2, <2>1 DEF Rec
  <2>3. QED
    BY <2>2 DEF w, pc
<1>5. /\ r2 \in Rec /\ r2.op = x.op /\ r2.key = x.key /\ r2.se = x.se
      /\ r2.pp = p /\ r2.lk = "N" /\ r2.own = x.own /\ r2.pc = "asleep"
  BY <1>2, <1>3 DEF Rec, Pcs
<1>6. x = th[t] /\ x.pc = "locked" /\ Named(p, x.key)
      /\ (\/ x.op = "lookup" /\ next = "confirm" /\ se = x.se /\ reclaim
          \/ x.op = "rename" /\ next = "unmap" /\ se = "E" /\ reclaim
          \/ x.op = "create" /\ ~SeTryok(p, want) /\ ~reclaim)
  BY <1>3
<1> HIDE DEF x, want, r1, r2
<1>7. CASE /\ SeTryok(p, want) /\ p_selock' = SeTaken(p, want)
           /\ th' = Become(t, r1) /\ phm' = phm
  <2>1. Shape(r1)
    BY SMTT(30), <1>2, <1>3, <1>4, <1>6, <1>7 DEF Shape, OpsAt, Bringing, Counted, PageAssumption
  <2>2. Pagewise(r1)
    BY <1>2, <1>3, <1>4, <1>6, <1>7 DEF Pagewise, Nameless
  <2>3. AfterPhm(t, r1)
    BY <1>2, <1>4, <1>6, <1>7 DEF AfterPhm, Phmwise
  <2>4. PhmRely(t)
    BY <1>7, PhmKept
  <2>5. r1.pc # "asleep" /\ th[t].pc # "outdone"
    BY <1>4
  <2>6. QED
    BY <1>1, <1>2, <1>3, <1>4, <1>6, <1>7, <2>1, <2>2, <2>3, <2>4, <2>5, TakeMove
<1>8. CASE /\ ~SeTryok(p, want) /\ p_selock' = p_selock
           /\ th' = Become(t, r2) /\ phm' = LeavePhm(t)
  <2>1. Shape(r2)
    BY SMTT(30), <1>2, <1>5, <1>6 DEF Shape, OpsAt, Bringing, Counted, PageAssumption
  <2>2. Pagewise(r2)
    BY <1>2, <1>5, <1>6 DEF Pagewise, Nameless
  <2>3. AfterPhm(t, r2)
    BY <1>5, <1>8, LeavePhmIs DEF AfterPhm, IInv
  <2>4. PhmRely(t)
    BY <1>8, PhmKept
  <2>5. p_selock[p] # 0
    BY SMTT(30), <1>3, <1>8 DEF SeTryok
  <2>6. QED
    BY <1>1, <1>2, <1>5, <1>6, <1>8, <2>1, <2>2, <2>3, <2>4, <2>5, QuietMove
<1>9. QED
  BY <1>1, <1>7, <1>8

\* The search under phm.
LEMMA SearchStep ==
    ASSUME Counted, Inv, NEW t \in Threads, SearchMissed(t) \/ SearchFound(t)
    PROVE  Inv'
<1>. IInv
  BY DEF Inv
<1>1. /\ th[t].pc = "locked" /\ th[t] \in Rec /\ Shape(th[t]) /\ Phmwise(t, th[t])
      /\ th[t].lk = "N" /\ th[t].pp = None /\ th[t].key \in Keys
  BY Known DEF SearchMissed, SearchFound, Shape, OpsAt
<1>2. CASE SearchMissed(t)
  <2>1. th[t].own = None
    BY <1>1, <1>2 DEF SearchMissed, Shape, Bringing
  <2>2. QED
    BY <1>1, <1>2, <2>1, IdleMove DEF SearchMissed
<1>3. CASE SearchFound(t)
  <2>1. PICK p \in Pages :
           /\ Named(p, th[t].key)
           /\ CASE th[t].op = "lookup" -> PageLock(t, p, th[t].se, TRUE, "confirm")
                [] th[t].op = "rename" -> PageLock(t, p, "E", TRUE, "unmap")
                [] th[t].op = "nowait" ->
                     /\ th' = Become(t, [th[t] EXCEPT !.pp = p, !.pc = "try"])
                     /\ UNCHANGED <<p_selock, p_free, p_vnode, hashed, phm>>
    BY <1>3 DEF SearchFound, Matches, Named
  <2>2. th[t].op \in {"lookup", "rename", "nowait"} /\ th[t].se \in {"S", "E"}
    BY <1>1, <1>3 DEF SearchFound, Shape, OpsAt
  <2>3. CASE th[t].op = "lookup"
    <3>1. PageLock(t, p, th[t].se, TRUE, "confirm")
      BY <2>1, <2>3
    <3>2. QED
      BY <1>1, <2>1, <2>2, <2>3, <3>1, PageLockStep
  <2>4. CASE th[t].op = "rename"
    <3>1. PageLock(t, p, "E", TRUE, "unmap")
      BY <2>1, <2>4
    <3>2. QED
      BY <1>1, <2>1, <2>4, <3>1, PageLockStep
  <2>5. CASE th[t].op = "nowait"
    <3> DEFINE x == th[t]
               r == [x EXCEPT !.pp = p, !.pc = "try"]
    <3>1. th' = Become(t, r) /\ UNCHANGED <<p_selock, p_free, p_vnode, hashed, phm>>
      BY <2>1, <2>5
    <3>2. /\ r \in Rec /\ r.op = "nowait" /\ r.key = x.key /\ r.se = x.se
          /\ r.pp = p /\ r.lk = "N" /\ r.own = x.own /\ r.pc = "try"
      BY <1>1, <2>5 DEF Rec, Pcs
    <3>3. x = th[t]
      OBVIOUS
    <3> HIDE DEF x, r
    <3>4. Shape(r) /\ Pagewise(r)
      BY <1>1, <2>5, <3>2, <3>3
         DEF Shape, OpsAt, Bringing, Pagewise, Counted, PageAssumption
    <3>5. AfterPhm(t, r)
      BY <1>1, <2>1, <3>1, <3>2, <3>3 DEF AfterPhm, Phmwise
    <3>6. PhmRely(t)
      BY <3>1, PhmKept
    <3>7. QED
      BY <1>1, <3>1, <3>2, <3>3, <3>4, <3>5, <3>6, QuietMove
  <2>6. QED
    BY <2>2, <2>3, <2>4, <2>5
<1>4. QED
  BY <1>2, <1>3

\* t gives its page back, and phm if it has it, and starts over or returns.
LEMMA StartOver ==
    ASSUME Counted, Inv, NEW t \in Threads,
           th[t].pc \in {"confirm", "reclaim"},
           Release(t, [th[t] EXCEPT !.pc = "phm", !.pp = None, !.lk = "N"]),
           \/ phm' = LeavePhm(t)
           \/ phm' = phm /\ phm[th[t].key] # t,
           UNCHANGED <<p_free, p_vnode, hashed>>
    PROVE  Inv'
<1>. IInv
  BY DEF Inv
<1> DEFINE x == th[t]
           r == [x EXCEPT !.pc = "phm", !.pp = None, !.lk = "N"]
<1>1. /\ x \in Rec /\ Shape(x) /\ Pagewise(x) /\ Phmwise(t, x)
      /\ x.pp \in Pages /\ x.lk # "N"
  BY Known DEF Shape, OpsAt, Rec
<1>2. /\ r \in Rec /\ r.op = x.op /\ r.key = x.key /\ r.se = x.se
      /\ r.pp = None /\ r.lk = "N" /\ r.own = x.own /\ r.pc = "phm"
  BY <1>1 DEF Rec, Pcs
<1>3. /\ x = th[t] /\ Release(t, r) /\ x.pc \in {"confirm", "reclaim"}
      /\ (phm' = LeavePhm(t) \/ (phm' = phm /\ phm[x.key] # t))
  OBVIOUS
<1> HIDE DEF x, r
<1>4. Shape(r)
  BY SMTT(30), <1>1, <1>2, <1>3 DEF Shape, OpsAt, Bringing
<1>5. Pagewise(r)
  BY <1>1, <1>2, <1>3 DEF Shape, OpsAt, Bringing, Pagewise, Nameless
<1>6. \A k \in Keys : phm'[k] # t
  BY <1>1, <1>3, LeavePhmIs DEF IInv, Phmwise
<1>7. AfterPhm(t, r)
  BY <1>2, <1>6 DEF AfterPhm
<1>8. PhmRely(t)
  BY <1>3, PhmKept
<1>9. QED
  BY <1>1, <1>2, <1>3, <1>4, <1>5, <1>7, <1>8, DropMove

\* A call gives its page back and returns.
LEMMA GiveBack ==
    ASSUME Counted, Inv, NEW t \in Threads,
           th[t].pp \in Pages, th[t].lk # "N", th[t].own = None,
           th[t].pc # "outdone", Release(t, Idle),
           \/ phm' = LeavePhm(t)
           \/ phm' = phm /\ \A k \in Keys : phm[k] # t,
           UNCHANGED <<p_free, p_vnode, hashed>>
    PROVE  Inv'
<1>. IInv
  BY DEF Inv
<1>1. /\ Idle \in Rec /\ Idle.pc = "idle" /\ Idle.op = "none" /\ Idle.key = None
      /\ Idle.pp = None /\ Idle.lk = "N" /\ Idle.own = None
  BY DEF Idle, Rec, Pcs, Ops
<1>2. Shape(Idle) /\ Pagewise(Idle)
  BY <1>1 DEF Shape, OpsAt, Bringing, Pagewise
<1>3. AfterPhm(t, Idle)
  BY <1>1, LeavePhmIs DEF IInv, AfterPhm
<1>4. PhmRely(t)
  BY PhmKept
<1>5. QED
  BY <1>1, <1>2, <1>3, <1>4, DropMove

\* The identity of the page is looked at again.
LEMMA ConfirmStep ==
    ASSUME Counted, Inv, NEW t \in Threads, Confirm(t)
    PROVE  Inv'
<1>. IInv
  BY DEF Inv
<1> DEFINE x == th[t]
           r1 == [x EXCEPT !.pc = "reclaim"]
           r2 == [x EXCEPT !.pc = "hold"]
<1>1. /\ x.pc = "confirm" /\ UNCHANGED <<p_free, p_vnode, hashed>>
      /\ \/ p_vnode[x.pp] # x.key /\ phm[x.key] = t
         \/ /\ phm[x.key] # t /\ phm' = phm
            /\ Release(t, [x EXCEPT !.pc = "phm", !.pp = None, !.lk = "N"])
         \/ Release(t, Idle) /\ phm' = LeavePhm(t)
         \/ /\ p_vnode[x.pp] = x.key /\ p_free[x.pp] /\ x.op = "lookup"
            /\ th' = Become(t, r1) /\ UNCHANGED <<p_selock, phm>>
         \/ /\ p_vnode[x.pp] = x.key /\ ~p_free[x.pp]
            /\ th' = Become(t, r2) /\ phm' = LeavePhm(t) /\ p_selock' = p_selock
  BY DEF Confirm
<1>2. /\ x \in Rec /\ Shape(x) /\ Pagewise(x) /\ Phmwise(t, x)
      /\ x.pp \in Pages /\ x.lk # "N" /\ x.own = None /\ x.key \in Keys
      /\ x.op \in {"lookup", "nowait"}
  BY <1>1, Known DEF Shape, OpsAt, Rec, Bringing
<1>3. /\ r1 \in Rec /\ r1.op = x.op /\ r1.key = x.key /\ r1.se = x.se
      /\ r1.pp = x.pp /\ r1.lk = x.lk /\ r1.own = None /\ r1.pc = "reclaim"
  BY <1>2 DEF Rec, Pcs
<1>4. /\ r2 \in Rec /\ r2.op = x.op /\ r2.key = x.key /\ r2.se = x.se
      /\ r2.pp = x.pp /\ r2.lk = x.lk /\ r2.own = None /\ r2.pc = "hold"
  BY <1>2 DEF Rec, Pcs
<1>5. x = th[t]
  OBVIOUS
<1> HIDE DEF x, r1, r2
<1>6. p_vnode[x.pp] = x.key => Named(x.pp, x.key)
  BY <1>2, <1>5, HeldChained DEF Named, Counted, PageAssumption
<1>7. CASE p_vnode[x.pp] # x.key /\ phm[x.key] = t
  BY <1>1, <1>2, <1>7 DEF Phmwise, Named
<1>8. CASE /\ phm[x.key] # t /\ phm' = phm
           /\ Release(t, [x EXCEPT !.pc = "phm", !.pp = None, !.lk = "N"])
  BY <1>1, <1>5, <1>8, StartOver
<1>9. CASE Release(t, Idle) /\ phm' = LeavePhm(t)
  BY <1>1, <1>2, <1>5, <1>9, GiveBack
<1>10. CASE /\ p_vnode[x.pp] = x.key /\ p_free[x.pp] /\ x.op = "lookup"
            /\ th' = Become(t, r1) /\ UNCHANGED <<p_selock, phm>>
  <2>1. r1.lk = "E"
    BY <1>1, <1>2, <1>3, <1>10 DEF Pagewise, Rec
  <2>2. Shape(r1)
    BY <1>1, <1>2, <1>3, <1>10, <2>1 DEF Shape, OpsAt, Bringing
  <2>3. Pagewise(r1)
    BY <1>3, <1>6, <1>10 DEF Pagewise
  <2>4. AfterPhm(t, r1)
    BY <1>2, <1>3, <1>6, <1>10 DEF AfterPhm, Phmwise
  <2>5. PhmRely(t)
    BY <1>10, PhmKept
  <2>6. QED
    BY SMTT(30), <1>1, <1>2, <1>3, <1>5, <1>10, <2>2, <2>3, <2>4, <2>5, QuietMove
<1>11. CASE /\ p_vnode[x.pp] = x.key /\ ~p_free[x.pp]
            /\ th' = Become(t, r2) /\ phm' = LeavePhm(t) /\ p_selock' = p_selock
  <2>1. Shape(r2)
    BY <1>1, <1>2, <1>4 DEF Shape, OpsAt, Bringing
  <2>2. Pagewise(r2)
    BY <1>4, <1>6, <1>11 DEF Pagewise
  <2>3. AfterPhm(t, r2)
    BY <1>4, <1>11, LeavePhmIs DEF AfterPhm, IInv
  <2>4. PhmRely(t)
    BY <1>11, PhmKept
  <2>5. QED
    BY SMTT(30), <1>1, <1>2, <1>4, <1>5, <1>11, <2>1, <2>2, <2>3, <2>4, QuietMove
<1>12. QED
  BY <1>1, <1>7, <1>8, <1>9, <1>10, <1>11

\* page_reclaim() gives up for want of memory.
LEMMA ReclaimNomemStep ==
    ASSUME Counted, Inv, NEW t \in Threads, ReclaimNomem(t)
    PROVE  Inv'
BY StartOver DEF ReclaimNomem

\* page_unlock().
LEMMA UnlockStep ==
    ASSUME Counted, Inv, NEW t \in Threads, PageUnlock(t)
    PROVE  Inv'
<1>. IInv
  BY DEF Inv
<1>1. th[t].pc = "hold" /\ Release(t, Idle)
      /\ UNCHANGED <<p_free, p_vnode, hashed, phm>>
  BY DEF PageUnlock
<1>2. th[t].pp \in Pages /\ th[t].lk # "N" /\ th[t].own = None
  BY <1>1, Known DEF Shape, OpsAt, Rec
<1>3. \A k \in Keys : phm[k] # t
  BY <1>1, Known DEF Phmwise
<1>4. QED
  BY <1>1, <1>2, <1>3, GiveBack

\* page_rename() unloads the mappings of the page it displaces.
LEMMA RenameUnmapStep ==
    ASSUME Counted, Inv, NEW t \in Threads, RenameUnmap(t)
    PROVE  Inv'
<1>. IInv
  BY DEF Inv
<1> DEFINE x == th[t]
           r == [x EXCEPT !.pc = "remap"]
<1>1. /\ x.pc = "unmap" /\ phm' = LeavePhm(t) /\ th' = Become(t, r)
      /\ UNCHANGED <<p_selock, p_free, p_vnode, hashed>>
  BY DEF RenameUnmap
<1>2. x \in Rec /\ Shape(x) /\ Pagewise(x) /\ x.op = "rename"
  BY <1>1, Known DEF Shape, OpsAt
<1>3. /\ r \in Rec /\ r.op = x.op /\ r.key = x.key /\ r.se = x.se
      /\ r.pp = x.pp /\ r.lk = x.lk /\ r.own = x.own /\ r.pc = "remap"
  BY <1>2 DEF Rec, Pcs
<1>4. x = th[t]
  OBVIOUS
<1> HIDE DEF x, r
<1>5. Shape(r)
  BY <1>1, <1>2, <1>3 DEF Shape, OpsAt, Bringing
<1>6. Pagewise(r)
  BY <1>1, <1>2, <1>3 DEF Pagewise, Nameless
<1>7. AfterPhm(t, r)
  BY <1>1, <1>3, LeavePhmIs DEF AfterPhm, IInv
<1>8. PhmRely(t)
  BY <1>1, PhmKept
<1>9. QED
  BY <1>1, <1>2, <1>3, <1>4, <1>5, <1>6, <1>7, <1>8, QuietMove

\* page_rename() and page_destroy() begin.
LEMMA TakeAwayStep ==
    ASSUME Counted, Inv, NEW t \in Threads, NEW op, NEW k,
           TakeAway(t, op, k),
           \/ op = "rename" /\ k \in Keys
           \/ op = "destroy" /\ k = None
    PROVE  Inv'
<1>. IInv
  BY DEF Inv
<1> DEFINE x == th[t]
           r == [Idle EXCEPT !.op = op, !.key = k, !.se = "E", !.pc = "out",
                             !.own = x.pp]
<1>1. /\ x.pc = "hold" /\ x.lk = "E" /\ th' = Become(t, r)
      /\ UNCHANGED <<p_selock, p_free, p_vnode, hashed, phm>>
  BY DEF TakeAway
<1>2. /\ x \in Rec /\ Shape(x) /\ Pagewise(x) /\ Phmwise(t, x)
      /\ x.pp \in Pages /\ x.own = None
  BY <1>1, Known DEF Shape, OpsAt, Rec
<1>3. /\ r \in Rec /\ r.op = op /\ r.key = k /\ r.se = "E"
      /\ r.pp = None /\ r.lk = "N" /\ r.own = x.pp /\ r.pc = "out"
  <2>1. op \in Ops /\ k \in Keys \cup {None}
    BY DEF Ops
  <2>2. QED
    BY <1>2, <2>1 DEF Rec, Pcs, Idle
<1>4. x = th[t]
  OBVIOUS
<1> HIDE DEF x, r
<1>5. Shape(r)
  BY <1>2, <1>3 DEF Shape, OpsAt, Bringing, Counted, PageAssumption
<1>6. Pagewise(r)
  BY <1>1, <1>2, <1>3 DEF Pagewise, Nameless, Named
<1>7. AfterPhm(t, r)
  BY <1>1, <1>2, <1>3 DEF AfterPhm, Phmwise
<1>8. PhmRely(t)
  BY <1>1, PhmKept
<1>9. QED
  BY <1>1, <1>2, <1>3, <1>4, <1>5, <1>6, <1>7, <1>8, QuietMove
     DEF Counted, PageAssumption

\* page_tryupgrade(), whether it succeeds or not.
LEMMA TryupgradeStep ==
    ASSUME Counted, Inv, NEW t \in Threads, PageTryupgrade(t)
    PROVE  Inv'
<1>. IInv
  BY DEF Inv
<1> DEFINE x == th[t]
           r == [x EXCEPT !.lk = "E"]
<1>1. /\ x.pc = "hold" /\ x.lk = "S" /\ p_selock[x.pp] = 1 /\ th' = Become(t, r)
      /\ p_selock' = [p_selock EXCEPT ![x.pp] = -1]
      /\ UNCHANGED <<p_free, p_vnode, hashed, phm>>
  BY DEF PageTryupgrade
<1>2. /\ x \in Rec /\ Shape(x) /\ Pagewise(x) /\ Phmwise(t, x)
      /\ x.pp \in Pages /\ x.own = None
  BY <1>1, Known DEF Shape, OpsAt, Rec
<1>3. /\ r \in Rec /\ r.op = x.op /\ r.key = x.key /\ r.se = x.se
      /\ r.pp = x.pp /\ r.lk = "E" /\ r.own = None /\ r.pc = "hold"
  BY <1>1, <1>2 DEF Rec, Pcs
<1>4. x = th[t]
  OBVIOUS
<1> HIDE DEF x, r
<1>5. Shape(r)
  BY <1>1, <1>2, <1>3 DEF Shape, OpsAt, Bringing
<1>6. Pagewise(r)
  BY <1>1, <1>2, <1>3 DEF Pagewise, Nameless
<1>7. AfterPhm(t, r)
  BY <1>1, <1>2, <1>3 DEF AfterPhm, Phmwise
<1>8. PhmRely(t)
  BY <1>1, PhmKept
<1>9. th'[t] = r /\ th' \in [Threads -> Rec] /\ Others(t)
  BY <1>1, <1>3, BecomeIs DEF IInv
<1>10. /\ p_selock' \in [Pages -> Int] /\ p_selock'[x.pp] = -1
       /\ \A q \in Pages : q # x.pp => p_selock'[q] = p_selock[q]
  BY SMTT(30), <1>1, <1>2 DEF IInv, TypeOK
<1>11. \A p \in Pages : LockChange(t, p)
  <2>1. \A q \in Pages : /\ t \in Sharers(q) <=> q = x.pp
                         /\ t \in Exclusive(q)' <=> q = x.pp
                         /\ t \notin Exclusive(q) /\ t \notin Sharers(q)'
    BY SMTT(30), <1>1, <1>2, <1>3, <1>4, <1>9 DEF Sharers, Exclusive, Counted, PageAssumption
  <2>2. QED
    BY <1>1, <1>10, <2>1 DEF LockChange
<1>12. Good(t)'
  BY <1>1, <1>5, <1>6, <1>7, <1>9, QuietGood
<1>13. \A q \in Pages : p_selock[q] # 0 => p_selock'[q] # 0
  BY SMTT(30), <1>10
<1>14. QED
  BY <1>1, <1>3, <1>4, <1>8, <1>9, <1>10, <1>11, <1>12, <1>13, QuietStep

\* page_downgrade().
LEMMA DowngradeStep ==
    ASSUME Counted, Inv, NEW t \in Threads, PageDowngrade(t)
    PROVE  Inv'
<1>. IInv
  BY DEF Inv
<1> DEFINE x == th[t]
           r == [x EXCEPT !.lk = "S"]
<1>1. /\ x.pc = "hold" /\ x.lk = "E" /\ th' = Broadcast(Become(t, r), x.pp)
      /\ p_selock' = [p_selock EXCEPT ![x.pp] = 1]
      /\ UNCHANGED <<p_free, p_vnode, hashed, phm>>
  BY DEF PageDowngrade
<1>2. /\ x \in Rec /\ Shape(x) /\ Pagewise(x) /\ Phmwise(t, x)
      /\ x.pp \in Pages /\ x.own = None
  BY <1>1, Known DEF Shape, OpsAt, Rec
<1>3. /\ r \in Rec /\ r.op = x.op /\ r.key = x.key /\ r.se = x.se
      /\ r.pp = x.pp /\ r.lk = "S" /\ r.own = None /\ r.pc = "hold"
  BY <1>1, <1>2 DEF Rec, Pcs
<1>4. x = th[t]
  OBVIOUS
<1> HIDE DEF x, r
<1>5. Shape(r)
  BY <1>1, <1>2, <1>3 DEF Shape, OpsAt, Bringing
<1>6. Pagewise(r)
  BY <1>1, <1>2, <1>3 DEF Pagewise, Nameless
<1>7. AfterPhm(t, r)
  BY <1>1, <1>2, <1>3 DEF AfterPhm, Phmwise
<1>8. PhmRely(t)
  BY <1>1, PhmKept
<1>9. th'[t] = r /\ th' \in [Threads -> Rec] /\ Others(t)
  BY <1>1, <1>3, BroadcastIs DEF IInv
<1>10. /\ p_selock' \in [Pages -> Int] /\ p_selock'[x.pp] = 1
       /\ \A q \in Pages : q # x.pp => p_selock'[q] = p_selock[q]
  BY SMTT(30), <1>1, <1>2 DEF IInv, TypeOK
<1>11. \A p \in Pages : LockChange(t, p)
  <2>1. \A q \in Pages : /\ t \in Exclusive(q) <=> q = x.pp
                         /\ t \in Sharers(q)' <=> q = x.pp
                         /\ t \notin Sharers(q) /\ t \notin Exclusive(q)'
    BY SMTT(30), <1>1, <1>2, <1>3, <1>4, <1>9 DEF Sharers, Exclusive, Counted, PageAssumption
  <2>2. QED
    BY <1>1, <1>10, <2>1 DEF LockChange
<1>12. Good(t)'
  BY <1>1, <1>5, <1>6, <1>7, <1>9, QuietGood
<1>13. \A q \in Pages : p_selock[q] # 0 => p_selock'[q] # 0
  BY SMTT(30), <1>10
<1>14. QED
  BY <1>1, <1>3, <1>4, <1>8, <1>9, <1>10, <1>11, <1>12, <1>13, QuietStep

------------------------------------------------------------------------------
(* The steps that put a page on the free list or take it off *)

\* page_reclaim() with memory.
LEMMA ReclaimStep ==
    ASSUME Counted, Inv, NEW t \in Threads, Reclaim(t)
    PROVE  Inv'
<1>. IInv
  BY DEF Inv
<1> DEFINE x == th[t]
           r == [x EXCEPT !.pc = IF x.op = "rename" THEN "unmap" ELSE "confirm",
                          !.lk = x.se]
<1>1. /\ x.pc = "reclaim" /\ p_free' = [p_free EXCEPT ![x.pp] = FALSE]
      /\ UNCHANGED <<p_vnode, hashed, phm>>
  BY DEF Reclaim
<1>2. IF x.se = "S" THEN /\ p_selock' = [p_selock EXCEPT ![x.pp] = 1]
                         /\ th' = Broadcast(Become(t, r), x.pp)
                    ELSE p_selock' = p_selock /\ th' = Become(t, r)
  BY DEF Reclaim
<1>3. /\ x \in Rec /\ Shape(x) /\ Pagewise(x) /\ Phmwise(t, x)
      /\ x.pp \in Pages /\ x.lk = "E" /\ x.se \in {"S", "E"} /\ x.key \in Keys
      /\ x.op \in {"lookup", "rename"} /\ (x.op = "rename" => x.se = "E")
  BY <1>1, Known DEF Shape, OpsAt, Rec, Bringing
<1>4. /\ r \in Rec /\ r.op = x.op /\ r.key = x.key /\ r.se = x.se
      /\ r.pp = x.pp /\ r.lk = x.se /\ r.own = x.own
      /\ r.pc = IF x.op = "rename" THEN "unmap" ELSE "confirm"
  BY <1>3 DEF Rec, Pcs
<1>5. x = th[t] /\ x.own # x.pp
  BY <1>3, Distinct DEF Counted, PageAssumption
<1> HIDE DEF x, r
<1>6. t \in Exclusive(x.pp)
  BY <1>3, <1>5 DEF Exclusive
<1>7. /\ p_free' \in [Pages -> BOOLEAN] /\ p_free'[x.pp] = FALSE
      /\ \A q \in Pages : q # x.pp => p_free'[q] = p_free[q]
  BY <1>1, <1>3 DEF IInv, TypeOK
<1>8. /\ th'[t] = r /\ th' \in [Threads -> Rec] /\ Others(t)
  <2>1. r.pc # "asleep"
    BY <1>4
  <2>2. QED
    BY <1>2, <1>4, <2>1, BecomeIs, BroadcastIs DEF IInv
<1>9. /\ p_selock' \in [Pages -> Int]
      /\ p_selock'[x.pp] = IF x.se = "S" THEN 1 ELSE p_selock[x.pp]
      /\ \A q \in Pages : q # x.pp => p_selock'[q] = p_selock[q]
  BY SMTT(30), <1>2, <1>3 DEF IInv, TypeOK
<1>10. Shape(r)
  BY <1>1, <1>3, <1>4 DEF Shape, OpsAt, Bringing
<1>11. x.own # None => x.own \in Pages
  BY <1>3 DEF Rec
<1>12. AfterPages(r)
  BY <1>1, <1>3, <1>4, <1>5, <1>7, <1>11
     DEF Pagewise, AfterPages, Named, Nameless
<1>13. AfterPhm(t, r)
  BY <1>1, <1>3, <1>4 DEF AfterPhm, Phmwise
<1>14. \A p \in Pages : LockChange(t, p)
  BY <1>3, <1>4, <1>5, <1>6, <1>8, <1>9 DEF LockChange, Sharers, Exclusive
<1>15. PhmRely(t)
  BY <1>1, PhmKept
<1>16. \A q \in Pages : p_selock[q] # 0 => p_selock'[q] # 0
  BY SMTT(30), <1>9
<1>17. \A p \in Pages : p_free'[p] = p_free[p] \/ t \in Exclusive(p)
  BY <1>6, <1>7
<1>18. th[t].pc # "outdone" /\ r.pc # "asleep"
  BY <1>1, <1>4, <1>5
<1>19. QED
  BY <1>1, <1>7, <1>8, <1>9, <1>10, <1>12, <1>13, <1>14, <1>15, <1>16, <1>17,
     <1>18, FreeStep

\* page_create() finds that the page exists already.
LEMMA CreateExistsStep ==
    ASSUME Counted, Inv, NEW t \in Threads, CreateExists(t)
    PROVE  Inv'
<1>. IInv
  BY DEF Inv
<1> DEFINE p == th[t].own
<1>1. /\ th[t].pc = "locked" /\ th[t].op = "create"
      /\ p_free' = [p_free EXCEPT ![p] = TRUE] /\ p_selock' = SeReleased(p)
      /\ th' = Broadcast(Become(t, Idle), p) /\ phm' = LeavePhm(t)
      /\ UNCHANGED <<p_vnode, hashed>>
  BY DEF CreateExists
<1>2. th[t] \in Rec /\ p \in Pages /\ th[t].lk = "N"
  BY <1>1, Known DEF Shape, Bringing, Rec
<1>3. t \in Exclusive(p) /\ p_selock[p] = -1
  BY <1>2, LockValue DEF Exclusive
<1>4. p = th[t].own
  OBVIOUS
<1> HIDE DEF p
<1>5. /\ th'[t] = Idle /\ th' \in [Threads -> Rec] /\ Others(t) /\ Awake(t, p)
  BY <1>1, IdleIs, BroadcastIs DEF IInv
<1>6. /\ p_selock' \in [Pages -> Int] /\ p_selock'[p] = 0
      /\ \A q \in Pages : q # p => p_selock'[q] = p_selock[q]
  BY SMTT(30), <1>1, <1>2, <1>3 DEF IInv, TypeOK, SeReleased
<1>7. /\ p_free' \in [Pages -> BOOLEAN]
      /\ \A q \in Pages : q # p => p_free'[q] = p_free[q]
  BY <1>1, <1>2 DEF IInv, TypeOK
<1>8. AfterPhm(t, Idle)
  BY <1>1, IdleIs, LeavePhmIs DEF AfterPhm, IInv
<1>9. \A q \in Pages : LockChange(t, q)
  BY <1>2, <1>3, <1>4, <1>5, <1>6, IdleIs
     DEF LockChange, Sharers, Exclusive, Counted, PageAssumption
<1>10. PhmRely(t)
  BY <1>1, PhmKept
<1>11. \A q \in Pages : Awake(t, q) \/ (p_selock[q] # 0 => p_selock'[q] # 0)
  BY <1>5, <1>6
<1>12. \A q \in Pages : p_free'[q] = p_free[q] \/ t \in Exclusive(q)
  BY <1>3, <1>7
<1>13. QED
  BY <1>1, <1>5, <1>6, <1>7, <1>8, <1>9, <1>10, <1>11, <1>12, IdleIs, FreeStep

\* page_create() finds the page and waits for it, or takes it and puts its own
\* back.
LEMMA CreateLockStep ==
    ASSUME Counted, Inv, NEW t \in Threads, CreateLock(t)
    PROVE  Inv'
<1>. IInv
  BY DEF Inv
<1> DEFINE x == th[t]
<1>1. x.pc = "locked" /\ x.op = "create"
  BY DEF CreateLock
<1>2. /\ x \in Rec /\ Shape(x) /\ Pagewise(x) /\ x.own \in Pages /\ x.lk = "N"
      /\ x.key \in Keys /\ x.se = "E"
  BY <1>1, Known DEF Shape, Bringing, Rec
<1>3. t \in Exclusive(x.own) /\ p_selock[x.own] = -1
  BY <1>2, LockValue DEF Exclusive
<1>4. PICK p \in Pages :
         /\ Named(p, x.key)
         /\ \/ ~SeTryok(p, "E") /\ PageLock(t, p, "E", FALSE, "hold")
            \/ /\ SeTryok(p, "E")
               /\ p_selock' = [p_selock EXCEPT ![p] = -1, ![x.own] = 0]
               /\ p_free' = [p_free EXCEPT ![p] = FALSE, ![x.own] = TRUE]
               /\ th' = Broadcast(Become(t, [x EXCEPT !.pc = "hold", !.pp = p,
                                               !.lk = "E", !.own = None]), x.own)
               /\ phm' = LeavePhm(t)
               /\ UNCHANGED <<p_vnode, hashed>>
  BY DEF CreateLock, Matches, Named
<1>5. CASE ~SeTryok(p, "E") /\ PageLock(t, p, "E", FALSE, "hold")
  BY <1>1, <1>4, <1>5, PageLockStep
<1>6. CASE /\ SeTryok(p, "E")
           /\ p_selock' = [p_selock EXCEPT ![p] = -1, ![x.own] = 0]
           /\ p_free' = [p_free EXCEPT ![p] = FALSE, ![x.own] = TRUE]
           /\ th' = Broadcast(Become(t, [x EXCEPT !.pc = "hold", !.pp = p,
                                           !.lk = "E", !.own = None]), x.own)
           /\ phm' = LeavePhm(t)
           /\ UNCHANGED <<p_vnode, hashed>>
  <2> DEFINE r == [x EXCEPT !.pc = "hold", !.pp = p, !.lk = "E", !.own = None]
  <2>1. /\ r \in Rec /\ r.op = "create" /\ r.key = x.key /\ r.se = "E"
        /\ r.pp = p /\ r.lk = "E" /\ r.own = None /\ r.pc = "hold"
    BY <1>1, <1>2 DEF Rec, Pcs
  <2>2. th' = Broadcast(Become(t, r), x.own) /\ x = th[t]
    BY <1>6
  <2> HIDE DEF x, r
  <2>3. p_selock[p] = 0 /\ p # x.own
    BY SMTT(30), <1>3, <1>6 DEF SeTryok
  <2>4. /\ th'[t] = r /\ th' \in [Threads -> Rec] /\ Others(t) /\ Awake(t, x.own)
    BY <2>1, <2>2, BroadcastIs DEF IInv
  <2>5. /\ p_selock' \in [Pages -> Int] /\ p_selock'[p] = -1 /\ p_selock'[x.own] = 0
        /\ \A q \in Pages : q \notin {p, x.own} => p_selock'[q] = p_selock[q]
    BY SMTT(30), <1>2, <1>6, <2>3 DEF IInv, TypeOK
  <2>6. /\ p_free' \in [Pages -> BOOLEAN] /\ p_free'[p] = FALSE
        /\ \A q \in Pages : q \notin {p, x.own} => p_free'[q] = p_free[q]
    BY <1>2, <1>6, <2>3 DEF IInv, TypeOK
  <2>7. Shape(r)
    BY <1>2, <2>1 DEF Shape, OpsAt, Bringing, Counted, PageAssumption
  <2>8. AfterPages(r)
    BY <1>4, <1>6, <2>1, <2>6 DEF AfterPages, Named, Nameless
  <2>9. AfterPhm(t, r)
    BY <1>6, <2>1, LeavePhmIs DEF AfterPhm, IInv
  <2>10. \A q \in Pages : LockChange(t, q)
    BY <1>2, <1>3, <2>1, <2>2, <2>3, <2>4, <2>5
       DEF LockChange, Sharers, Exclusive, Counted, PageAssumption
  <2>11. PhmRely(t)
    BY <1>6, PhmKept
  <2>12. \A q \in Pages : Awake(t, q) \/ (p_selock[q] # 0 => p_selock'[q] # 0)
    BY SMTT(30), <2>4, <2>5
  <2>13. \A q \in Pages : \/ p_free'[q] = p_free[q] \/ p_selock[q] = 0
                          \/ t \in Exclusive(q)
    BY <1>3, <2>3, <2>6
  <2>14. th[t].pc # "outdone" /\ r.pc # "asleep"
    BY <1>1, <2>1, <2>2
  <2>15. QED
    BY <1>6, <2>4, <2>5, <2>6, <2>7, <2>8, <2>9, <2>10, <2>11, <2>12, <2>13,
       <2>14, FreeStep
<1>7. QED
  BY <1>4, <1>5, <1>6

\* The page that t found is freed and unlocked.
LEMMA FreeMove ==
    ASSUME Counted, Inv, NEW t \in Threads, NEW r \in Rec,
           th[t].pp \in Pages, th[t].lk = "E", th[t].pc \in {"hold", "dispose"},
           p_free' = [p_free EXCEPT ![th[t].pp] = TRUE], Release(t, r),
           UNCHANGED <<p_vnode, hashed, phm>>,
           \/ r.lk = "N" /\ r.own = None /\ th[t].own = None
           \/ r.own = None /\ r.pp = th[t].own /\ r.lk = "E" /\ th[t].own \in Pages,
           Shape(r), r.pc \in {"idle", "hold"},
           r.pc = "hold" => Named(r.pp, r.key) /\ ~p_free[r.pp] /\ r.pp \in Pages
    PROVE  Inv'
<1>. IInv
  BY DEF Inv
<1> DEFINE p == th[t].pp
<1>0. t \in Exclusive(p) /\ th[t].own # p
  BY Distinct DEF Exclusive, Counted, PageAssumption
<1>1. /\ th'[t] = r /\ th' \in [Threads -> Rec] /\ Others(t)
      /\ p_selock[p] \in {-1, 1} => Awake(t, p)
  BY UnlockedIs DEF IInv, Release
<1>2. /\ p_selock \in [Pages -> Int] /\ p_selock' \in [Pages -> Int]
      /\ \A q \in Pages : q # p => p_selock'[q] = p_selock[q]
      /\ p_selock[p] = -1 /\ p_selock'[p] = 0
  BY ReleasedIs DEF Release
<1>3. /\ p_free' \in [Pages -> BOOLEAN]
      /\ \A q \in Pages : q # p => p_free'[q] = p_free[q]
  BY DEF IInv, TypeOK
<1>4. r.pc = "hold" => r.pp # p
  BY <1>0 DEF Shape
<1>5. AfterPages(r)
  BY <1>3, <1>4 DEF AfterPages, Named, Nameless
<1>6. \A k \in Keys : phm[k] # t
  BY Known DEF Phmwise
<1>7. AfterPhm(t, r)
  BY <1>6 DEF AfterPhm
<1>8. \A q \in Pages : LockChange(t, q)
  BY <1>0, <1>1, <1>2 DEF LockChange, Sharers, Exclusive, Counted, PageAssumption
<1>9. PhmRely(t)
  BY PhmKept
<1>10. \A q \in Pages : Awake(t, q) \/ (p_selock[q] # 0 => p_selock'[q] # 0)
  BY <1>1, <1>2
<1>11. \A q \in Pages : p_free'[q] = p_free[q] \/ t \in Exclusive(q)
  BY <1>0, <1>3
<1>12. QED
  BY <1>1, <1>2, <1>3, <1>5, <1>7, <1>8, <1>9, <1>10, <1>11, FreeStep

\* page_free().
LEMMA PageFreeStep ==
    ASSUME Counted, Inv, NEW t \in Threads, PageFree(t)
    PROVE  Inv'
<1>. IInv
  BY DEF Inv
<1>1. /\ th[t].pc = "hold" /\ th[t].lk = "E" /\ Release(t, Idle)
      /\ p_free' = [p_free EXCEPT ![th[t].pp] = TRUE]
      /\ UNCHANGED <<p_vnode, hashed, phm>>
  BY DEF PageFree
<1>2. th[t].pp \in Pages /\ th[t].own = None
  BY <1>1, Known DEF Shape, Rec
<1>3. QED
  BY <1>1, <1>2, IdleIs, FreeMove

\* page_rename() frees the page it displaced.
LEMMA RenameDisposeStep ==
    ASSUME Counted, Inv, NEW t \in Threads, RenameDispose(t)
    PROVE  Inv'
<1>. IInv
  BY DEF Inv
<1> DEFINE x == th[t]
           r == [x EXCEPT !.pc = "hold", !.pp = x.own, !.own = None]
<1>1. /\ x.pc = "dispose" /\ Release(t, r)
      /\ p_free' = [p_free EXCEPT ![x.pp] = TRUE]
      /\ UNCHANGED <<p_vnode, hashed, phm>>
  BY DEF RenameDispose
<1>2. /\ x \in Rec /\ Shape(x) /\ Pagewise(x) /\ x.pp \in Pages /\ x.own \in Pages
      /\ x.lk = "E" /\ x.op = "rename" /\ x.key \in Keys
  BY <1>1, Known DEF Shape, OpsAt, Rec, Bringing
<1>3. /\ r \in Rec /\ r.op = x.op /\ r.key = x.key /\ r.se = x.se
      /\ r.pp = x.own /\ r.lk = "E" /\ r.own = None /\ r.pc = "hold"
  BY <1>2 DEF Rec, Pcs
<1>4. x = th[t]
  OBVIOUS
<1> HIDE DEF x, r
<1>5. Shape(r)
  BY <1>1, <1>2, <1>3 DEF Shape, OpsAt, Bringing, Counted, PageAssumption
<1>6. Named(r.pp, r.key) /\ ~p_free[r.pp]
  BY <1>1, <1>2, <1>3 DEF Pagewise
<1>7. QED
  BY <1>1, <1>2, <1>3, <1>4, <1>5, <1>6, FreeMove

\* page_create() takes a page from the free list or the cache list.
LEMMA PageCreateStep ==
    ASSUME Counted, Inv, NEW t \in Threads, NEW k \in Keys, PageCreate(t, k)
    PROVE  Inv'
<1>. IInv
  BY DEF Inv
<1>1. PICK p \in Pages :
         /\ p_free[p] /\ SeTryok(p, "E") /\ p_selock' = SeTaken(p, "E")
         /\ p_free' = [p_free EXCEPT ![p] = p_vnode[p] # None]
         /\ th' = Become(t, [Idle EXCEPT !.op = "create", !.key = k, !.se = "E",
                   !.own = p, !.pc = IF p_vnode[p] = None THEN "phm" ELSE "out"])
  BY DEF PageCreate
<1> DEFINE r == [Idle EXCEPT !.op = "create", !.key = k, !.se = "E",
                   !.own = p, !.pc = IF p_vnode[p] = None THEN "phm" ELSE "out"]
<1>2. /\ r \in Rec /\ r.op = "create" /\ r.key = k /\ r.se = "E"
      /\ r.pp = None /\ r.lk = "N" /\ r.own = p
      /\ r.pc = IF p_vnode[p] = None THEN "phm" ELSE "out"
  BY DEF Idle, Rec, Pcs, Ops
<1>3. th' = Become(t, r)
  BY <1>1
<1> HIDE DEF r
<1>4. /\ th[t].pc = "idle" /\ UNCHANGED <<p_vnode, hashed, phm>>
  BY DEF PageCreate
<1>5. th[t].own = None /\ th[t].lk = "N"
  BY SMTT(30), <1>4, Known DEF Shape, Idle
<1>6. \A j \in Keys : phm[j] # t
  BY <1>4, Known DEF Phmwise
<1>7. p_vnode[p] # None <=> hashed[p]
  <2>1. \A u \in Threads : u \notin Exclusive(p)
    BY SMTT(30), <1>1, LockValue DEF SeTryok
  <2>2. QED
    BY <2>1 DEF IInv, Chained, Exclusive
<1>8. /\ th'[t] = r /\ th' \in [Threads -> Rec] /\ Others(t)
  BY <1>2, <1>3, BecomeIs DEF IInv
<1>9. /\ p_selock' \in [Pages -> Int] /\ p_selock'[p] = -1 /\ p_selock[p] = 0
      /\ \A q \in Pages : q # p => p_selock'[q] = p_selock[q]
  BY SMTT(30), <1>1 DEF IInv, TypeOK, SeTaken, SeTryok
<1>10. /\ p_free' \in [Pages -> BOOLEAN] /\ p_free'[p] = (p_vnode[p] # None)
       /\ \A q \in Pages : q # p => p_free'[q] = p_free[q]
  BY <1>1 DEF IInv, TypeOK
<1>11. Shape(r)
  BY <1>2 DEF Shape, OpsAt, Bringing, Counted, PageAssumption
<1>12. AfterPages(r)
  BY <1>2, <1>4, <1>7, <1>10 DEF AfterPages, Nameless
<1>13. AfterPhm(t, r)
  BY <1>2, <1>4, <1>6 DEF AfterPhm
<1>14. \A q \in Pages : LockChange(t, q)
  BY <1>2, <1>5, <1>8, <1>9 DEF LockChange, Sharers, Exclusive, Counted, PageAssumption
<1>15. PhmRely(t)
  BY <1>4, PhmKept
<1>16. \A q \in Pages : p_selock[q] # 0 => p_selock'[q] # 0
  BY <1>9
<1>17. \A q \in Pages : p_free'[q] = p_free[q] \/ p_selock[q] = 0
  BY <1>9, <1>10
<1>18. QED
  BY <1>2, <1>4, <1>8, <1>9, <1>10, <1>11, <1>12, <1>13, <1>14, <1>15, <1>16,
     <1>17, FreeStep
------------------------------------------------------------------------------
(* The theorems *)

\* An empty page cache satisfies the invariant.
LEMMA InitInv ==
    ASSUME Counted, Init
    PROVE  Inv
<1>1. \A t \in Threads : th[t] = Idle
  BY DEF Init
<1>2. TypeOK
  BY SMTT(30), IdleIs DEF Init, TypeOK, Rec
<1>3. SelockExact
  <2>1. \A p \in Pages : Sharers(p) = {} /\ Exclusive(p) = {} /\ p_selock[p] = 0
    BY <1>1, IdleIs DEF Sharers, Exclusive, Init, Counted, PageAssumption
  <2>2. QED
    BY <2>1 DEF SelockExact, Counted, CountLaws
<1>4. Chained /\ IdentityUnique /\ SleeperSound
  BY <1>1, IdleIs DEF Init, Chained, IdentityUnique, SleeperSound
<1>5. \A t \in Threads : Good(t)
  <2>1. Pagewise(Idle)
    BY IdleIs DEF Pagewise
  <2>2. \A t \in Threads : Phmwise(t, Idle)
    BY IdleIs DEF Phmwise, Init, Counted, PageAssumption
  <2>3. QED
    BY <1>1, <2>1, <2>2, IdleIs DEF Good
<1>6. QED
  BY <1>2, <1>3, <1>4, <1>5 DEF Inv, IInv

\* A stutter preserves the invariant.
LEMMA StutterInv ==
    ASSUME Inv, UNCHANGED vars
    PROVE  Inv'
<1>. IInv
  BY DEF Inv
<1>1. TypeOK' /\ Chained' /\ IdentityUnique'
  BY DEF IInv, vars, TypeOK, Chained, IdentityUnique
<1>2. SelockExact'
  BY SMTT(30) DEF IInv, vars, SelockExact, Sharers, Exclusive
<1>3. SleeperSound'
  BY DEF IInv, vars, SleeperSound
<1>4. \A t \in Threads : Good(t)'
  <2> SUFFICES ASSUME NEW t \in Threads PROVE Good(t)'
    OBVIOUS
  <2>1. Good(t)
    BY DEF IInv
  <2>2. QED
    BY <2>1 DEF vars, Good, Pagewise, Phmwise, Named
<1>5. QED
  BY <1>1, <1>2, <1>3, <1>4 DEF IInv, Inv

\* Every step of a thread preserves the invariant.
LEMMA NextInv ==
    ASSUME Counted, Inv, NEW t \in Threads, Step(t)
    PROVE  Inv'
<1>1. CASE PageLookup(t) \/ PageLookupNowait(t)
  BY <1>1, LookupStep DEF PageLookup, PageLookupNowait
<1>2. CASE TryReclaimLock(t)
  BY <1>2, TryReclaimStep
<1>3. CASE IsfreeTest(t) \/ Trylock(t)
  BY <1>3, NowaitStep
<1>4. CASE Confirm(t)
  BY <1>4, ConfirmStep
<1>5. CASE Reclaim(t) \/ ReclaimNomem(t)
  BY <1>5, ReclaimStep, ReclaimNomemStep
<1>6. CASE EnterPhm(t)
  BY <1>6, EnterPhmStep
<1>7. CASE SearchMissed(t) \/ SearchFound(t)
  BY <1>7, SearchStep
<1>8. CASE HashoutChain(t) \/ HashoutEnd(t)
  BY <1>8, HashoutChainStep, HashoutEndStep
<1>9. CASE HashinNew(t) \/ CreateExists(t) \/ CreateLock(t)
  BY <1>9, HashinNewStep, CreateExistsStep, CreateLockStep
<1>10. CASE PageDestroy(t)
  BY <1>10, TakeAwayStep DEF PageDestroy
<1>11. CASE RenameUnmap(t) \/ RenameSwap(t) \/ RenameDispose(t)
  BY <1>11, RenameUnmapStep, RenameSwapStep, RenameDisposeStep
<1>12. CASE PageUnlock(t) \/ PageFree(t)
  BY <1>12, UnlockStep, PageFreeStep
<1>13. CASE PageTryupgrade(t) \/ PageDowngrade(t)
  BY <1>13, TryupgradeStep, DowngradeStep
<1>14. CASE \E k \in Keys : PageCreate(t, k) \/ PageRename(t, k)
  <2>1. PICK k \in Keys : PageCreate(t, k) \/ PageRename(t, k)
    BY <1>14
  <2>2. PageRename(t, k) => TakeAway(t, "rename", k)
    BY DEF PageRename
  <2>3. QED
    BY <2>1, <2>2, PageCreateStep, TakeAwayStep
<1>15. QED
  BY <1>1, <1>2, <1>3, <1>4, <1>5, <1>6, <1>7, <1>8, <1>9, <1>10, <1>11, <1>12,
     <1>13, <1>14 DEF Step

FS == INSTANCE FiniteSetTheorems

\* The laws follow from the finiteness of Threads.
LEMMA CountLawsHold == PageAssumption => CountLaws
<1>. SUFFICES ASSUME PageAssumption PROVE CountLaws
  OBVIOUS
<1>1. \A S : FS!Cardinality(S) = Cardinality(S)
  BY DEF Cardinality, FS!Cardinality
<1>2. \A S : FS!IsFiniteSet(S) <=> IsFiniteSet(S)
  BY DEF IsFiniteSet, FS!IsFiniteSet
<1>3. Cardinality({}) = 0
  BY <1>1, FS!FS_EmptySet
<1>4. ASSUME NEW S \in SUBSET Threads
      PROVE  /\ FS!IsFiniteSet(S) /\ Cardinality(S) \in Nat
             /\ Cardinality(S) = 0 => S = {}
             /\ Cardinality(S) = 1 => \E x : S = {x}
  <2>1. FS!IsFiniteSet(S)
    BY <1>2, FS!FS_Subset DEF PageAssumption
  <2>2. FS!Cardinality(S) \in Nat
    BY <2>1, FS!FS_CardinalityType
  <2>3. FS!Cardinality(S) = 0 => S = {}
    BY <2>1, FS!FS_EmptySet
  <2>4. FS!Cardinality(S) = 1 => \E x : S = {x}
    BY <2>1, FS!FS_Singleton
  <2>5. QED
    BY <1>1, <2>1, <2>2, <2>3, <2>4
<1>5. ASSUME NEW S \in SUBSET Threads, NEW t \in Threads
      PROVE  /\ Cardinality({t}) = 1
             /\ Cardinality(S \ {t}) = IF t \in S THEN Cardinality(S) - 1 ELSE Cardinality(S)
             /\ Cardinality(S \cup {t}) = IF t \in S THEN Cardinality(S) ELSE Cardinality(S) + 1
  <2>1. FS!Cardinality({t}) = 1
    BY FS!FS_Singleton
  <2>2. /\ FS!Cardinality(S \ {t}) = IF t \in S THEN FS!Cardinality(S) - 1 ELSE FS!Cardinality(S)
        /\ FS!Cardinality(S \cup {t}) = IF t \in S THEN FS!Cardinality(S) ELSE FS!Cardinality(S) + 1
    BY <1>4, FS!FS_AddElement, FS!FS_RemoveElement
  <2>3. QED
    BY <1>1, <2>1, <2>2
<1>6. QED
  BY <1>3, <1>4, <1>5 DEF CountLaws

\* The inductive invariant holds in every reachable state of the page cache,
\* for any pages, identities and finite set of threads.
THEOREM Invariance == Spec => []IInv
<1>1. Init => IInv
  BY PageConstants, CountLawsHold, InitInv DEF Inv, Counted
<1>2. IInv /\ [Next]_vars => IInv'
  BY PageConstants, CountLawsHold, NextInv, StutterInv DEF Next, Inv, Counted
<1>3. QED
  BY <1>1, <1>2, PTL DEF Spec

\* p_selock always tells exactly who holds a page, across page_lock(),
\* page_try_reclaim_lock(), page_tryupgrade(), page_downgrade() and
\* page_unlock(), and no identity ever belongs to two pages.
THEOREM LocksAndIdentities == Spec => [](SelockExact /\ IdentityUnique)
<1>1. IInv => SelockExact /\ IdentityUnique
  BY DEF IInv
<1>2. QED
  BY <1>1, Invariance, PTL

\* A page that page_lookup(), page_create() or page_rename() returned keeps the
\* identity that was asked for and stays off the free lists while it is held,
\* and the lookups never panic on a lost page.
THEOREM HeldPageKept == Spec => []HeldPageStable
<1>1. IInv => HeldPageStable
  BY Known DEF HeldPageStable, Pagewise, Named, Inv
<1>2. QED
  BY <1>1, Invariance, PTL

\* A thread asleep in page_lock() waits for a page that someone holds, and that
\* still has the wanted identity or is about to be broadcast by page_hashout().
THEOREM SleeperKept == Spec => []SleeperSound
<1>1. IInv => SleeperSound
  BY DEF IInv
<1>2. QED
  BY <1>1, Invariance, PTL
==============================================================================
