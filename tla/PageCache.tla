----------------------------- MODULE PageCache -----------------------------
(***************************************************************************)
(* The page cache: the shared/exclusive lock of a page                     *)
(* (common/vm/page_lock.c) together with the operations of                 *)
(* common/vm/vm_page.c that find a page by its identity [vp, off], give it *)
(* an identity, take it away, and free it.                                 *)
(*                                                                         *)
(* A key of Keys stands for an identity and has a page hash mutex (phm) of *)
(* its own.  page_lookup() and page_lookup_nowait() first search the hash  *)
(* chain without that mutex, so the page they find may change identity     *)
(* before they lock it; they lock it and look again.                       *)
(*                                                                         *)
(* A critical section of the mutex that guards p_selock and p_cv (pse) is  *)
(* one step, and so is a run of steps on a page that is held exclusively   *)
(* up to its release.  The accounting of free memory is left out: whether  *)
(* page_reclaim() finds memory is a choice of the step, and the wait on    *)
(* freemem_cv is part of the wait for the hash mutex that follows it.  The *)
(* i/o lock, the mappings of a page and the vnode's page list are left out.*)
(***************************************************************************)
EXTENDS Integers, FiniteSets

CONSTANTS
    Threads,    \* the threads that use the cache
    Renamers,   \* the ones among them that call page_rename()
    Pages,      \* the page structures
    Keys,       \* the identities [vp, off]
    None

PageAssumption ==
    /\ None \notin Pages \cup Threads \cup Keys
    /\ IsFiniteSet(Threads)

ASSUME PageConstants == PageAssumption

VARIABLES
    p_selock,   \* -1 held exclusively, n > 0 held by n sharers
    p_free,     \* PP_ISFREE: on the free list or the cache list
    p_vnode,    \* the identity of the page
    hashed,     \* the page is on the hash chain of its identity
    phm,        \* the owner of the hash mutex of an identity
    th          \* what each thread is doing

vars == <<p_selock, p_free, p_vnode, hashed, phm, th>>

Ops == {"none", "lookup", "nowait", "create", "rename", "destroy"}

Pcs == {"idle", "try", "trylock", "confirm", "reclaim", "phm", "locked", "asleep",
        "unmap", "remap", "swap", "dispose", "out", "outdone", "hold", "panic"}

\* pp is the page a call found and lk how it holds it; own is a second page
\* the call holds exclusively (npp of page_create(), opp of page_rename()).
Idle == [pc |-> "idle", op |-> "none", key |-> None, se |-> "N",
         pp |-> None, lk |-> "N", own |-> None]

Init ==
    /\ p_selock = [p \in Pages |-> 0]
    /\ p_free = [p \in Pages |-> TRUE]
    /\ p_vnode = [p \in Pages |-> None]
    /\ hashed = [p \in Pages |-> FALSE]
    /\ phm = [k \in Keys |-> None]
    /\ th = [t \in Threads |-> Idle]

-----------------------------------------------------------------------------
(* The lock of a page. *)

SeTryok(p, se) == IF se = "E" THEN p_selock[p] = 0 ELSE p_selock[p] >= 0

SeTaken(p, se) ==
    [p_selock EXCEPT ![p] = IF se = "E" THEN -1 ELSE @ + 1]

\* cv_broadcast(&pp->p_cv): every sleeper of page_lock() goes on to take the
\* hash mutex again and starts over.
Broadcast(T, p) ==
    [u \in Threads |-> IF T[u].pc = "asleep" /\ T[u].pp = p
                       THEN [T[u] EXCEPT !.pc = "phm", !.pp = None]
                       ELSE T[u]]

SeReleased(p) == [p_selock EXCEPT ![p] = IF @ < 0 THEN 0 ELSE @ - 1]

\* page_unlock() by a thread whose next state is T[t]: p_cv is broadcast when
\* the last holder leaves.
Unlocked(T, p) == IF p_selock[p] \in {-1, 1} THEN Broadcast(T, p) ELSE T

Become(t, r) == [th EXCEPT ![t] = r]

LeavePhm(t) == [k \in Keys |-> IF phm[k] = t THEN None ELSE phm[k]]

\* The mode page_lock() and page_try_reclaim_lock() ask for: a free page that
\* is to be reclaimed is always locked exclusively.
SeWanted(p, se, reclaim) == IF reclaim /\ p_free[p] THEN "E" ELSE se

\* page_lock(p, se, phm, reclaim) by t, which holds phm: on a miss phm is
\* dropped and the thread sleeps on p_cv; on a hit the page is reclaimed when
\* it must be, and the caller goes on at next.
PageLock(t, p, se, reclaim, next) ==
    LET want == SeWanted(p, se, reclaim) IN
    /\ IF SeTryok(p, want)
       THEN /\ p_selock' = SeTaken(p, want)
            /\ th' = Become(t, [th[t] EXCEPT !.pp = p, !.lk = want,
                         !.pc = IF reclaim /\ p_free[p] THEN "reclaim" ELSE next])
            /\ phm' = phm
       ELSE /\ th' = Become(t, [th[t] EXCEPT !.pp = p, !.pc = "asleep"])
            /\ phm' = LeavePhm(t)
            /\ p_selock' = p_selock
    /\ UNCHANGED <<p_free, p_vnode, hashed>>

-----------------------------------------------------------------------------
(* Searching. *)

Matches(k) == {p \in Pages : hashed[p] /\ p_vnode[p] = k}

\* page_lookup() and page_lookup_nowait() up to the first PAGE_HASH_SEARCH,
\* made without phm: it may miss a page that is being hashed in or out.
Lookup(t, k, se, op) ==
    /\ th[t].pc = "idle"
    /\ \E p \in Matches(k) \cup {None} :
          th' = Become(t, [Idle EXCEPT !.op = op, !.key = k, !.se = se, !.pp = p,
                              !.pc = IF p = None THEN "phm" ELSE "try"])
    /\ UNCHANGED <<p_selock, p_free, p_vnode, hashed, phm>>

PageLookup(t) == \E k \in Keys, se \in {"S", "E"} : Lookup(t, k, se, "lookup")

PageLookupNowait(t) == \E k \in Keys, se \in {"S", "E"} : Lookup(t, k, se, "nowait")

\* page_try_reclaim_lock() as page_lookup() calls it.
TryReclaimLock(t) ==
    /\ th[t].pc = "try" /\ th[t].op = "lookup"
    /\ LET p == th[t].pp
           want == SeWanted(p, th[t].se, TRUE)
       IN  IF SeTryok(p, want)
           THEN /\ p_selock' = SeTaken(p, want)
                /\ th' = Become(t, [th[t] EXCEPT !.pc = "confirm", !.lk = want])
           ELSE /\ th' = Become(t, [th[t] EXCEPT !.pc = "phm", !.pp = None])
                /\ p_selock' = p_selock
    /\ UNCHANGED <<p_free, p_vnode, hashed, phm>>

GiveUp(t) ==
    /\ th' = Become(t, Idle)
    /\ phm' = LeavePhm(t)
    /\ p_selock' = p_selock

\* The PP_ISFREE test of page_lookup_nowait(), made without the page lock ...
IsfreeTest(t) ==
    /\ th[t].pc = "try" /\ th[t].op = "nowait"
    /\ IF p_free[th[t].pp]
       THEN GiveUp(t)
       ELSE /\ th' = Become(t, [th[t] EXCEPT !.pc = "trylock"])
            /\ UNCHANGED <<p_selock, phm>>
    /\ UNCHANGED <<p_free, p_vnode, hashed>>

\* ... and its page_trylock().
Trylock(t) ==
    /\ th[t].pc = "trylock"
    /\ IF SeTryok(th[t].pp, th[t].se)
       THEN /\ p_selock' = SeTaken(th[t].pp, th[t].se)
            /\ th' = Become(t, [th[t] EXCEPT !.pc = "confirm", !.lk = th[t].se])
            /\ phm' = phm
       ELSE GiveUp(t)
    /\ UNCHANGED <<p_free, p_vnode, hashed>>

Release(t, r) ==
    /\ p_selock' = SeReleased(th[t].pp)
    /\ th' = Unlocked(Become(t, r), th[t].pp)

\* Mutant: a page locked after the unlocked search is taken for the right one.
ConfirmBlindly(t) ==
    /\ th[t].pc = "confirm"
    /\ th' = Become(t, [th[t] EXCEPT !.pc =
                          IF p_free[th[t].pp] THEN "reclaim" ELSE "hold"])
    /\ phm' = LeavePhm(t)
    /\ UNCHANGED <<p_selock, p_free, p_vnode, hashed>>

\* The page is locked: reconfirm its identity.  A mismatch under phm panics
\* ("lost page"); without it the search starts over with phm held.
Confirm(t) ==
    LET r == th[t]
        locked == phm[r.key] = t
    IN
    /\ r.pc = "confirm"
    /\ \/ /\ p_vnode[r.pp] # r.key /\ locked
          /\ th' = Become(t, [r EXCEPT !.pc = "panic"])
          /\ UNCHANGED <<p_selock, phm>>
       \/ /\ p_vnode[r.pp] # r.key /\ ~locked
          /\ Release(t, [r EXCEPT !.pc = "phm", !.pp = None, !.lk = "N"])
          /\ phm' = phm
       \/ /\ p_vnode[r.pp] = r.key /\ p_free[r.pp] /\ r.op = "nowait"
          /\ Release(t, Idle)
          /\ phm' = LeavePhm(t)
       \/ /\ p_vnode[r.pp] = r.key /\ p_free[r.pp] /\ r.op = "lookup"
          /\ th' = Become(t, [r EXCEPT !.pc = "reclaim"])
          /\ UNCHANGED <<p_selock, phm>>
       \/ /\ p_vnode[r.pp] = r.key /\ ~p_free[r.pp]
          /\ th' = Become(t, [r EXCEPT !.pc = "hold"])
          /\ phm' = LeavePhm(t)
          /\ p_selock' = p_selock
    /\ UNCHANGED <<p_free, p_vnode, hashed>>

\* page_reclaim() with memory at hand; a lock forced exclusive is downgraded.
Reclaim(t) ==
    LET r == th[t]
        next == [r EXCEPT !.pc = IF r.op = "rename" THEN "unmap" ELSE "confirm",
                          !.lk = r.se]
    IN
    /\ r.pc = "reclaim"
    /\ p_free' = [p_free EXCEPT ![r.pp] = FALSE]
    /\ IF r.se = "S" THEN /\ p_selock' = [p_selock EXCEPT ![r.pp] = 1]
                          /\ th' = Broadcast(Become(t, next), r.pp)
                     ELSE /\ p_selock' = p_selock
                          /\ th' = Become(t, next)
    /\ UNCHANGED <<p_vnode, hashed, phm>>

\* page_reclaim() without memory: every lock is dropped, and the caller comes
\* back through phm.
ReclaimNomem(t) ==
    /\ th[t].pc = "reclaim"
    /\ Release(t, [th[t] EXCEPT !.pc = "phm", !.pp = None, !.lk = "N"])
    /\ phm' = LeavePhm(t)
    /\ UNCHANGED <<p_free, p_vnode, hashed>>

\* mutex_enter(phm)
EnterPhm(t) ==
    /\ th[t].pc \in {"phm", "remap"}
    /\ phm[th[t].key] = None
    /\ phm' = [phm EXCEPT ![th[t].key] = t]
    /\ th' = Become(t, [th[t] EXCEPT !.pc = IF @ = "phm" THEN "locked" ELSE "swap"])
    /\ UNCHANGED <<p_selock, p_free, p_vnode, hashed>>

\* The search under phm finds nothing: both lookups return NULL.
SearchMissed(t) ==
    /\ th[t].pc = "locked" /\ th[t].op \in {"lookup", "nowait"}
    /\ Matches(th[t].key) = {}
    /\ th' = Become(t, Idle)
    /\ phm' = LeavePhm(t)
    /\ UNCHANGED <<p_selock, p_free, p_vnode, hashed>>

\* The search under phm finds a page.
SearchFound(t) ==
    /\ th[t].pc = "locked" /\ th[t].op # "create"
    /\ \E p \in Matches(th[t].key) :
          CASE th[t].op = "lookup" -> PageLock(t, p, th[t].se, TRUE, "confirm")
            [] th[t].op = "rename" -> PageLock(t, p, "E", TRUE, "unmap")
            [] th[t].op = "nowait" ->
                 /\ th' = Become(t, [th[t] EXCEPT !.pp = p, !.pc = "try"])
                 /\ UNCHANGED <<p_selock, p_free, p_vnode, hashed, phm>>

-----------------------------------------------------------------------------
(* Identity. *)

\* Mutant: page_hashout() does not wake the sleepers of the page.
HashoutQuietly(t, p) ==
    /\ p_vnode' = [p_vnode EXCEPT ![p] = None]
    /\ th' = IF th[t].op = "destroy" THEN Broadcast(Become(t, Idle), p)
             ELSE Become(t, [th[t] EXCEPT !.pc = "phm"])

\* The end of page_hashout(), after phm is dropped: the identity is erased and
\* the sleepers, who want another page now, are woken.  page_create() and
\* page_rename() go on; page_destroy() frees the page, which also unlocks it.
Hashout(t, p) ==
    /\ p_vnode' = [p_vnode EXCEPT ![p] = None]
    /\ th' = Broadcast(Become(t, IF th[t].op = "destroy" THEN Idle
                                 ELSE [th[t] EXCEPT !.pc = "phm"]), p)

\* page_hashout(own, NULL) up to the release of phm.
HashoutChain(t) ==
    /\ th[t].pc = "out"
    /\ phm[p_vnode[th[t].own]] = None
    /\ hashed' = [hashed EXCEPT ![th[t].own] = FALSE]
    /\ th' = Become(t, [th[t] EXCEPT !.pc = "outdone"])
    /\ UNCHANGED <<p_selock, p_free, p_vnode, phm>>

HashoutEnd(t) ==
    /\ th[t].pc = "outdone"
    /\ Hashout(t, th[t].own)
    /\ p_free' = [p_free EXCEPT ![th[t].own] = th[t].op = "destroy"]
    /\ p_selock' = IF th[t].op = "destroy" THEN SeReleased(th[t].own) ELSE p_selock
    /\ UNCHANGED <<hashed, phm>>

\* page_hashin(own, key, phm): the call returns holding own.
Hashin(t) ==
    /\ p_vnode' = [p_vnode EXCEPT ![th[t].own] = th[t].key]
    /\ hashed' = [hashed EXCEPT ![th[t].own] = TRUE]
    /\ phm' = LeavePhm(t)

\* page_create() of one page: a free page is locked exclusively; one from the
\* cache list loses its identity first.
PageCreate(t, k) ==
    /\ th[t].pc = "idle"
    /\ \E p \in Pages :
          /\ p_free[p] /\ SeTryok(p, "E")
          /\ p_selock' = SeTaken(p, "E")
          /\ p_free' = [p_free EXCEPT ![p] = p_vnode[p] # None]
          /\ th' = Become(t, [Idle EXCEPT !.op = "create", !.key = k, !.se = "E",
                    !.own = p, !.pc = IF p_vnode[p] = None THEN "phm" ELSE "out"])
    /\ UNCHANGED <<p_vnode, hashed, phm>>

\* Mutant: page_create() does not look again under phm.
HashinNewBlindly(t) ==
    /\ th[t].pc = "locked" /\ th[t].op \in {"create", "rename"}
    /\ th[t].op = "create" \/ Matches(th[t].key) = {}
    /\ Hashin(t)
    /\ th' = Become(t, [th[t] EXCEPT !.pc = "hold", !.pp = th[t].own, !.lk = "E",
                                     !.own = None])
    /\ UNCHANGED <<p_selock, p_free>>

\* page_create() and page_rename() find no page of that identity under phm and
\* give it to their own.
HashinNew(t) ==
    /\ th[t].pc = "locked" /\ th[t].op \in {"create", "rename"}
    /\ Matches(th[t].key) = {}
    /\ Hashin(t)
    /\ th' = Become(t, [th[t] EXCEPT !.pc = "hold", !.pp = th[t].own, !.lk = "E",
                                     !.own = None])
    /\ UNCHANGED <<p_selock, p_free>>

\* page_create() with PG_EXCL finds the page: npp goes back to the free list.
CreateExists(t) ==
    /\ th[t].pc = "locked" /\ th[t].op = "create"
    /\ Matches(th[t].key) # {}
    /\ p_free' = [p_free EXCEPT ![th[t].own] = TRUE]
    /\ p_selock' = SeReleased(th[t].own)
    /\ th' = Broadcast(Become(t, Idle), th[t].own)
    /\ phm' = LeavePhm(t)
    /\ UNCHANGED <<p_vnode, hashed>>

\* page_create() with PG_WAIT finds the page and locks it without a reclaim,
\* takes it off the cache list itself, and puts npp back.
CreateLock(t) ==
    /\ th[t].pc = "locked" /\ th[t].op = "create"
    /\ \E p \in Matches(th[t].key) :
          \/ /\ ~SeTryok(p, "E")
             /\ PageLock(t, p, "E", FALSE, "hold")
          \/ /\ SeTryok(p, "E")
             /\ p_selock' = [p_selock EXCEPT ![p] = -1, ![th[t].own] = 0]
             /\ p_free' = [p_free EXCEPT ![p] = FALSE, ![th[t].own] = TRUE]
             /\ th' = Broadcast(Become(t, [th[t] EXCEPT !.pc = "hold", !.pp = p,
                                               !.lk = "E", !.own = None]), th[t].own)
             /\ phm' = LeavePhm(t)
             /\ UNCHANGED <<p_vnode, hashed>>

\* page_rename(pp, k) and page_destroy(pp) by the exclusive holder.
TakeAway(t, op, k) ==
    /\ th[t].pc = "hold" /\ th[t].lk = "E"
    /\ th' = Become(t, [Idle EXCEPT !.op = op, !.key = k, !.se = "E", !.pc = "out",
                                    !.own = th[t].pp])
    /\ UNCHANGED <<p_selock, p_free, p_vnode, hashed, phm>>

PageRename(t, k) == t \in Renamers /\ TakeAway(t, "rename", k)

PageDestroy(t) == TakeAway(t, "destroy", None)

\* page_rename() holds the page it found and phm.  A mapped page is unmapped
\* with phm dropped; EnterPhm takes it again.
RenameUnmap(t) ==
    /\ th[t].pc = "unmap"
    /\ phm' = LeavePhm(t)
    /\ th' = Become(t, [th[t] EXCEPT !.pc = "remap"])
    /\ UNCHANGED <<p_selock, p_free, p_vnode, hashed>>

\* page_hashout(pp, phm), then page_hashin(opp): one identity changes pages
\* under phm.
RenameSwap(t) ==
    LET old == th[t].pp
        new == th[t].own
    IN
    /\ th[t].pc \in {"unmap", "swap"}
    /\ p_vnode' = [p_vnode EXCEPT ![old] = None, ![new] = th[t].key]
    /\ hashed' = [hashed EXCEPT ![old] = FALSE, ![new] = TRUE]
    /\ phm' = LeavePhm(t)
    /\ th' = Broadcast(Become(t, [th[t] EXCEPT !.pc = "dispose"]), old)
    /\ UNCHANGED <<p_selock, p_free>>

\* VN_DISPOSE(pp, B_FREE): the page that lost its name is freed.
RenameDispose(t) ==
    /\ th[t].pc = "dispose"
    /\ p_free' = [p_free EXCEPT ![th[t].pp] = TRUE]
    /\ Release(t, [th[t] EXCEPT !.pc = "hold", !.pp = th[t].own, !.own = None])
    /\ UNCHANGED <<p_vnode, hashed, phm>>

-----------------------------------------------------------------------------
(* What the holder of a page may do with it. *)

PageUnlock(t) ==
    /\ th[t].pc = "hold"
    /\ Release(t, Idle)
    /\ UNCHANGED <<p_free, p_vnode, hashed, phm>>

PageFree(t) ==
    /\ th[t].pc = "hold" /\ th[t].lk = "E"
    /\ p_free' = [p_free EXCEPT ![th[t].pp] = TRUE]
    /\ Release(t, Idle)
    /\ UNCHANGED <<p_vnode, hashed, phm>>

\* Mutant: a sharer is upgraded although others share the page.
PageTryupgradeShared(t) ==
    /\ th[t].pc = "hold" /\ th[t].lk = "S"
    /\ p_selock' = [p_selock EXCEPT ![th[t].pp] = -1]
    /\ th' = Become(t, [th[t] EXCEPT !.lk = "E"])
    /\ UNCHANGED <<p_free, p_vnode, hashed, phm>>

PageTryupgrade(t) ==
    /\ th[t].pc = "hold" /\ th[t].lk = "S"
    /\ p_selock[th[t].pp] = 1
    /\ p_selock' = [p_selock EXCEPT ![th[t].pp] = -1]
    /\ th' = Become(t, [th[t] EXCEPT !.lk = "E"])
    /\ UNCHANGED <<p_free, p_vnode, hashed, phm>>

PageDowngrade(t) ==
    /\ th[t].pc = "hold" /\ th[t].lk = "E"
    /\ p_selock' = [p_selock EXCEPT ![th[t].pp] = 1]
    /\ th' = Broadcast(Become(t, [th[t] EXCEPT !.lk = "S"]), th[t].pp)
    /\ UNCHANGED <<p_free, p_vnode, hashed, phm>>

Step(t) ==
    \/ PageLookup(t) \/ PageLookupNowait(t) \/ TryReclaimLock(t) \/ IsfreeTest(t)
    \/ Trylock(t)
    \/ Confirm(t) \/ Reclaim(t) \/ ReclaimNomem(t) \/ EnterPhm(t)
    \/ SearchMissed(t) \/ SearchFound(t) \/ HashoutChain(t) \/ HashoutEnd(t)
    \/ HashinNew(t) \/ CreateExists(t) \/ CreateLock(t) \/ PageDestroy(t)
    \/ RenameUnmap(t) \/ RenameSwap(t) \/ RenameDispose(t)
    \/ PageUnlock(t) \/ PageFree(t) \/ PageTryupgrade(t) \/ PageDowngrade(t)
    \/ \E k \in Keys : PageCreate(t, k) \/ PageRename(t, k)

Next == \E t \in Threads : Step(t)

Spec == Init /\ [][Next]_vars

-----------------------------------------------------------------------------
(* Properties. *)

\* Every variable has its type.
TypeOK ==
    /\ p_selock \in [Pages -> Int]
    /\ p_free \in [Pages -> BOOLEAN]
    /\ p_vnode \in [Pages -> Keys \cup {None}]
    /\ hashed \in [Pages -> BOOLEAN]
    /\ phm \in [Keys -> Threads \cup {None}]
    /\ th \in [Threads -> [pc : Pcs, op : Ops, key : Keys \cup {None},
                           se : {"N", "S", "E"}, pp : Pages \cup {None},
                           lk : {"N", "S", "E"}, own : Pages \cup {None}]]

Sharers(p) == {t \in Threads : th[t].pp = p /\ th[t].lk = "S"}
Exclusive(p) == {t \in Threads : th[t].own = p \/ (th[t].pp = p /\ th[t].lk = "E")}

\* p_selock tells exactly who holds the page: one exclusive holder and nobody
\* else, or the number of its sharers (the se_*_assert()s of page_lock.c).
SelockExact ==
    \A p \in Pages :
        \/ p_selock[p] = -1 /\ Cardinality(Exclusive(p)) = 1 /\ Sharers(p) = {}
        \/ p_selock[p] = Cardinality(Sharers(p)) /\ Exclusive(p) = {}

\* An identity belongs to at most one page: page_create() and page_rename()
\* look again under phm before they call page_hashin().
IdentityUnique ==
    \A p, q \in Pages : hashed[p] /\ hashed[q] /\ p_vnode[p] = p_vnode[q] => p = q

\* A page that a lookup, a create or a rename returned is the page that was
\* asked for and is off the free lists, as long as it is held: nobody takes
\* its identity away, reclaims or frees it under the holder.  And a page found
\* and locked under phm has kept its identity: the panics "page_lookup: lost
\* page" and "page_lookup_nowait" are never reached.
HeldPageStable ==
    \A t \in Threads :
        /\ th[t].pc # "panic"
        /\ th[t].pc = "hold" => /\ p_vnode[th[t].pp] = th[t].key
                                /\ hashed[th[t].pp]
                                /\ ~p_free[th[t].pp]

\* Nobody sleeps on p_cv of a page for good: the page is held by someone who
\* will broadcast, and it is still the page the sleeper wants unless the
\* thread that took its identity has yet to wake the sleepers.
SleeperSound ==
    \A t \in Threads : th[t].pc = "asleep" =>
        LET p == th[t].pp IN
        /\ p_selock[p] # 0
        /\ \/ p_vnode[p] = th[t].key /\ hashed[p]
           \/ \E u \in Threads : th[u].own = p /\ th[u].pc = "outdone"
=============================================================================
