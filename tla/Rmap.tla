-------------------------------- MODULE Rmap --------------------------------
(***************************************************************************)
(* Resource maps (common/os/rmap.c): rmalloc(), rmalloc_wait(), rmget()    *)
(* and rmfree() on one map.  The map is the sequence of its pieces, each a *)
(* first address and a size; the delimiter of size 0 that ends the array   *)
(* is the end of the sequence.                                             *)
(*                                                                         *)
(* A critical section of m_lock is one step: rmfree() has two, because it  *)
(* drops the lock to report the piece it throws away when the array is     *)
(* full.  A caller frees only space it was given, whole or in part.        *)
(***************************************************************************)
EXTENDS Integers, FiniteSets, SequencesExt

CONSTANTS
    Threads,
    Waiters,    \* the threads that may sleep in rmalloc_wait()
    Units,      \* the resource: addresses 1 .. Units
    Sizes,      \* the sizes callers ask for
    m_size      \* entries of the map, at least 2: see Smaller

VARIABLES
    map,        \* the pieces
    mapfree,    \* entries left
    mapwant,    \* somebody sleeps in rmalloc_wait()
    held,       \* the space each thread was given
    th          \* what each thread is doing

vars == <<map, mapfree, mapwant, held, th>>

Idle == [pc |-> "idle", size |-> 0, addr |-> 0]

\* mapinit() with the whole resource free.
Init ==
    /\ map = <<[addr |-> 1, size |-> Units]>>
    /\ mapfree = m_size - 1
    /\ mapwant = FALSE
    /\ held = [t \in Threads |-> {}]
    /\ th = [t \in Threads |-> Idle]

-----------------------------------------------------------------------------
Space(addr, size) == addr .. addr + size - 1
End(bp) == bp.addr + bp.size

\* Mutant: the piece shrinks but keeps its first address.
TakeFrontStale(i, size) ==
    IF map[i].size = size THEN RemoveAt(map, i)
    ELSE [map EXCEPT ![i].size = @ - size]

\* Taking space at the front of piece i; an empty piece leaves the map.
TakeFront(i, size) ==
    IF map[i].size = size THEN RemoveAt(map, i)
    ELSE [map EXCEPT ![i] = [addr |-> @.addr + size, size |-> @.size - size]]

Fits(size) == {i \in DOMAIN map : map[i].size >= size}

Give(t, addr, size) == held' = [held EXCEPT ![t] = @ \cup Space(addr, size)]

\* rmalloc_locked() with a piece that is large enough: the first one.
RmallocLocked(t, size) ==
    LET i == Min(Fits(size)) IN
    /\ Fits(size) # {}
    /\ map' = TakeFront(i, size)
    /\ mapfree' = mapfree + IF map[i].size = size THEN 1 ELSE 0
    /\ Give(t, map[i].addr, size)
    /\ th' = [th EXCEPT ![t] = Idle]
    /\ UNCHANGED mapwant

\* rmalloc(); when nothing fits it returns 0.
Rmalloc(t, size) ==
    /\ th[t].pc = "idle"
    /\ \/ RmallocLocked(t, size)
       \/ Fits(size) = {} /\ UNCHANGED vars

\* rmalloc_wait(), on entry and after each wakeup.
RmallocWait(t, size) ==
    /\ \/ th[t].pc = "idle" /\ t \in Waiters
       \/ th[t].pc = "woken" /\ size = th[t].size
    /\ \/ RmallocLocked(t, size)
       \/ /\ Fits(size) = {}
          /\ mapwant' = TRUE
          /\ th' = [th EXCEPT ![t] = [Idle EXCEPT !.pc = "asleep", !.size = size]]
          /\ UNCHANGED <<map, mapfree, held>>

\* rmget(): the space at addr, if one piece holds it all and, when it is in
\* the middle of that piece, if there is an entry left for the second half.
Rmget(t, size, addr) ==
    /\ th[t].pc = "idle"
    /\ \E i \in DOMAIN map :
          LET bp == map[i]
              before == [addr |-> bp.addr, size |-> addr - bp.addr]
              after == [addr |-> addr + size, size |-> End(bp) - (addr + size)]
              rest == SelectSeq(<<before, after>>, LAMBDA r : r.size # 0)
          IN  /\ bp.addr <= addr /\ addr + size <= End(bp)
              /\ Len(rest) = 2 => mapfree # 0
              /\ map' = SubSeq(map, 1, i - 1) \o rest \o SubSeq(map, i + 1, Len(map))
              /\ mapfree' = mapfree + 1 - Len(rest)
    /\ Give(t, addr, size)
    /\ UNCHANGED <<mapwant, th>>

-----------------------------------------------------------------------------
(* rmfree(). *)

\* done: everybody who waits for space tries again.
Freed(t, joined) ==
    /\ mapwant' = FALSE
    /\ th' = [u \in Threads |->
                 IF u = t THEN Idle
                 ELSE IF mapwant /\ th[u].pc = "asleep"
                      THEN [th[u] EXCEPT !.pc = "woken"] ELSE th[u]]

Left(addr) == {i \in DOMAIN map : map[i].addr <= addr}

\* The map with [addr, addr + size) joined to its neighbours, i being the
\* first piece after it: the piece on the left grows, and swallows the one on
\* the right when the hole between them is filled.
Joined(i, addr, size) ==
    LET left == i > 1 /\ End(map[i - 1]) = addr
        right == i <= Len(map) /\ addr + size = map[i].addr
    IN  CASE left /\ right ->
               RemoveAt([map EXCEPT ![i - 1].size = @ + size + map[i].size], i)
          [] left /\ ~right -> [map EXCEPT ![i - 1].size = @ + size]
          [] right /\ ~left -> [map EXCEPT ![i] = [addr |-> addr, size |-> @.size + size]]
          [] OTHER -> map

\* Mutant: the last entry goes, whatever its size.
SmallerLast == Len(map)

\* The entry that overflow throws away: the smaller of the last two.  The
\* code takes it that there are two, which mapinit() does not make sure of.
Smaller == IF map[Len(map)].size > map[Len(map) - 1].size THEN Len(map) - 1
           ELSE Len(map)

\* rmfree() from retry: on.  The space has left the caller's hands.
RmfreeLocked(t, addr, size) ==
    LET i == Cardinality(Left(addr)) + 1
        new == Joined(i, addr, size)
    IN
    \/ /\ new # map
       /\ map' = new
       /\ mapfree' = mapfree + Len(map) - Len(new)
       /\ Freed(t, TRUE)
    \/ /\ new = map /\ mapfree # 0
       /\ map' = InsertAt(map, i, [addr |-> addr, size |-> size])
       /\ mapfree' = mapfree - 1
       /\ Freed(t, FALSE)
    \/ /\ new = map /\ mapfree = 0
       /\ map' = RemoveAt(map, Smaller)
       /\ mapfree' = mapfree + 1
       /\ th' = [th EXCEPT ![t] = [pc |-> "retry", size |-> size, addr |-> addr]]
       /\ UNCHANGED mapwant

\* rmfree() of space the caller holds.
Rmfree(t, size, addr) ==
    /\ th[t].pc = "idle"
    /\ Space(addr, size) \subseteq held[t]
    /\ held' = [held EXCEPT ![t] = @ \ Space(addr, size)]
    /\ RmfreeLocked(t, addr, size)

\* rmfree() after it has logged the overflow and taken the lock again.
Retry(t) ==
    /\ th[t].pc = "retry"
    /\ RmfreeLocked(t, th[t].addr, th[t].size)
    /\ UNCHANGED held

Next ==
    \E t \in Threads :
        \/ Retry(t)
        \/ \E size \in Sizes : Rmalloc(t, size) \/ RmallocWait(t, size)
        \/ \E size \in Sizes, addr \in 1 .. Units : Rmget(t, size, addr) \/ Rmfree(t, size, addr)

Spec == Init /\ [][Next]_vars

-----------------------------------------------------------------------------
(* Properties. *)

\* Every variable has its type.
TypeOK ==
    /\ map \in Seq([addr : 1 .. Units, size : 1 .. Units])
    /\ mapfree \in 0 .. m_size
    /\ mapwant \in BOOLEAN
    /\ held \in [Threads -> SUBSET (1 .. Units)]
    /\ th \in [Threads -> [pc : {"idle", "asleep", "woken", "retry"},
                           size : 0 .. Units, addr : 0 .. Units]]

\* The pieces are in order with a gap between neighbours, so first fit sees
\* every piece as large as it is, and they and the entries left make up the
\* array: the map neither overruns it nor loses an entry.
MapWellFormed ==
    /\ \A i \in 1 .. Len(map) - 1 : End(map[i]) < map[i + 1].addr
    /\ Len(map) + mapfree = m_size

Returned(t) == IF th[t].pc = "retry" THEN Space(th[t].addr, th[t].size) ELSE {}
Owned(t) == held[t] \cup Returned(t)
FreeSpace == UNION {Space(map[i].addr, map[i].size) : i \in DOMAIN map}

\* No unit is given out twice, or is given out and free: also when another
\* thread allocates while rmfree() has dropped the lock.
NeverDouble ==
    \A t \in Threads :
        /\ Owned(t) \cap FreeSpace = {}
        /\ \A u \in Threads \ {t} : Owned(t) \cap Owned(u) = {}

\* Nobody sleeps in rmalloc_wait() while a piece is large enough, and whoever
\* sleeps has left mapwant set for the next rmfree().
WaiterSound ==
    \A t \in Threads : th[t].pc = "asleep" => mapwant /\ Fits(th[t].size) = {}

InHand == UNION {Owned(t) : t \in Threads}

\* Space is lost only when the array is full, and then exactly one piece, the
\* smaller of the last two: no other step makes a unit disappear.
LostByOverflow ==
    FreeSpace \cup InHand = FreeSpace' \cup InHand'
    \/ /\ mapfree = 0
       /\ \E i \in {Len(map) - 1, Len(map)} :
             /\ (FreeSpace \cup InHand) \ (FreeSpace' \cup InHand') =
                    Space(map[i].addr, map[i].size)
             /\ \A j \in {Len(map) - 1, Len(map)} : map[i].size <= map[j].size

\* LostByOverflow of every step: rmfree() alone loses space, and no more than it
\* reports.
LostOnlyOnOverflow == [][LostByOverflow]_vars
=============================================================================
