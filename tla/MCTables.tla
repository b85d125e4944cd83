------------------------------- MODULE MCTables -------------------------------
(***************************************************************************)
(* The kernel's tables, one at a time: the page cache, the ids of callouts,*)
(* the file descriptors of a process (with dup2() and without), the process*)
(* ids and a resource map.  They share no state, so every behaviour is one *)
(* of the table that "part" names.  The page cache of the other behaviours *)
(* stays empty, and the variables of their other tables are None.          *)
(***************************************************************************)
EXTENDS PageCache, TLC

CONSTANTS BUCKETS, COUNTS, LONGTERM_TICKS, Deltas,  \* of the callout ids
          MaxLate, Window, Free,
          t1, t2, t3,  \* threads
          c1,          \* a thread that calls close()
          k1, k2,      \* identities of pages, and processes
          p0, d1       \* the first process, and a driver

ASSUME IdAssumption ==
    /\ BUCKETS \in Nat \ {0} /\ COUNTS \in Nat \ {0}
    /\ LONGTERM_TICKS \in Nat \ {0} /\ MaxLate \in Nat
    /\ Window \in Nat \ {0}
    /\ Deltas \subseteq Nat \ {0}

VARIABLES part,
          phase, b_short_id, b_long_id, callout, made, longs,
          u_flist, u_flock2, f_count, child,
          mpid, pidtab, procdir, procentfree, proc, s_ref, ref, stray,
          map, mapfree, mapwant, held,
          thr

idVars == <<phase, b_short_id, b_long_id, callout, made, longs>>
fdVars == <<u_flist, u_flock2, f_count, child>>
pidVars == <<mpid, pidtab, procdir, procentfree, proc, s_ref, ref, stray>>
mapVars == <<map, mapfree, mapwant, held>>
allVars == <<part, vars, idVars, fdVars, pidVars, mapVars, thr>>

MCSymmetry ==
    Permutations(Pages) \cup Permutations({k1, k2}) \cup Permutations({t2, t3})

\* A bucket of each table of callouts, and two buckets of one table.
Id == INSTANCE CalloutId WITH
    Slots <- Pages, InUse <- {<<"NORMAL", 0>>, <<"REALTIME", 0>>}
Bucket == INSTANCE CalloutId WITH
    Slots <- Pages, InUse <- {<<"REALTIME", 0>>, <<"REALTIME", 1>>}

Fd == INSTANCE Fio WITH
    Threads <- {t1, t2, t3}, Closers <- {t1}, Dupers <- {},
    Calls <- {"read", "close", "dup", "open", "fork", "exec"}, Files <- Pages,
    NFPCHUNK <- 1, InitFiles <- 1, FileLimit <- 2, MaxCount <- 3

Dup2 == INSTANCE Fio WITH
    Threads <- {t1, c1, d1}, Closers <- {c1}, Dupers <- {t1},
    Calls <- {"read", "close", "open", "setfd", "dup2"}, Files <- Pages,
    NFPCHUNK <- 1, InitFiles <- 1, FileLimit <- 2, MaxCount <- 3

Process == INSTANCE Pid WITH
    Procs <- {p0, k1, k2}, Slots <- 3, MAXPID <- 4, Drivers <- {d1}

Map == INSTANCE Rmap WITH
    Threads <- {t1, p0}, Waiters <- {t1}, Units <- 6, Sizes <- {1, 2, 3},
    m_size <- 2, th <- thr

NoId == /\ phase = None /\ b_short_id = None /\ b_long_id = None
        /\ callout = None /\ made = None /\ longs = None
NoFd == u_flist = None /\ u_flock2 = None /\ f_count = None /\ child = None
NoPid == /\ mpid = None /\ pidtab = None /\ procdir = None
         /\ procentfree = None /\ proc = None /\ s_ref = None
         /\ ref = None /\ stray = None
NoMap == map = None /\ mapfree = None /\ mapwant = None /\ held = None

MCInit ==
    /\ Init
    /\ \/ part = "page" /\ thr = None /\ NoId /\ NoFd /\ NoPid /\ NoMap
       \/ /\ \/ part = "id" /\ Id!Init
             \/ part = "bucket" /\ Bucket!Init
          /\ thr = None /\ NoFd /\ NoPid /\ NoMap
       \/ /\ \/ part = "fd" /\ Fd!Init
             \/ part = "dup2" /\ Dup2!Init
          /\ NoId /\ NoPid /\ NoMap
       \/ part = "pid" /\ Process!Init /\ thr = None /\ NoId /\ NoFd /\ NoMap
       \/ part = "map" /\ Map!Init /\ NoId /\ NoFd /\ NoPid

MCNext ==
    \/ /\ part = "page" /\ Next
       /\ UNCHANGED <<part, idVars, fdVars, pidVars, mapVars, thr>>
    \/ /\ part = "id" /\ Id!Next
       /\ UNCHANGED <<part, vars, fdVars, pidVars, mapVars, thr>>
    \/ /\ part = "bucket" /\ Bucket!Next
       /\ UNCHANGED <<part, vars, fdVars, pidVars, mapVars, thr>>
    \/ /\ part = "fd" /\ Fd!Next
       /\ UNCHANGED <<part, vars, idVars, pidVars, mapVars>>
    \/ /\ part = "dup2" /\ Dup2!Next
       /\ UNCHANGED <<part, vars, idVars, pidVars, mapVars>>
    \/ /\ part = "pid" /\ Process!Next
       /\ UNCHANGED <<part, vars, idVars, fdVars, mapVars, thr>>
    \/ /\ part = "map" /\ Map!Next
       /\ UNCHANGED <<part, vars, idVars, fdVars, pidVars>>

MCSpec == MCInit /\ [][MCNext]_allVars
------------------------------------------------------------------------------
(* Properties: those of PageCache, and those of the other modules, of the   *)
(* table that part names.                                                   *)

\* The variables of each table have their types.
TablesTypeOK ==
    /\ TypeOK
    /\ part = "id" => Id!TypeOK
    /\ part = "bucket" => Bucket!TypeOK
    /\ part = "fd" => Fd!TypeOK
    /\ part = "dup2" => Dup2!TypeOK
    /\ part = "pid" => Process!TypeOK
    /\ part = "map" => Map!TypeOK

\* untimeout() finds by its id the callout that timeout() returned it for, and
\* no other (callout.c).
CalloutFound ==
    /\ part = "id" => Id!IdFindsCallout
    /\ part = "bucket" => Bucket!IdFindsCallout

\* A file structure is not freed while a descriptor, a forked child or a system
\* call refers to it, dup2() included, and a file that getf() returned is not
\* freed before releasef() (fio.c).
FileNotFreed ==
    /\ part = "fd" => Fd!NeverFreedEarly /\ Fd!FileKept
    /\ part = "dup2" => Dup2!NeverFreedEarly /\ Dup2!FileKept

\* f_count is the number of references, without dup2() (see FileNotFreed), and
\* uf_refcnt counts the lwps between getf() and releasef() (fio.c).
FdCountsExact ==
    /\ part = "fd" => Fd!CountExact /\ Fd!RefcntExact
    /\ part = "dup2" => Dup2!RefcntExact

\* pid_ref counts the process, the group, the session and the drivers that use
\* the number, and the free list of /proc slots and prfind() agree with the
\* processes there are (pid.c, pgrp.c, session.c).
PidTableExact == part = "pid" => Process!RefExact /\ Process!SlotExact

\* The pieces of a map are ordered and apart, no entry is lost, and no unit is
\* given out twice (rmap.c).
MapSound == part = "map" => Map!MapWellFormed /\ Map!NeverDouble

\* Nobody sleeps on when what it waits for has come: not in close(), with one lwp
\* at a time in close() of any descriptor of the process (getandset(), fio.c), and
\* not in rmalloc_wait() while a piece is large enough (rmap.c).
WaitersSound ==
    /\ part = "fd" => Fd!CloserKicked
    /\ part = "map" => Map!WaiterSound

\* Only a full map loses space, and then the smaller of its last two pieces.
LostOnlyOnOverflow == [][part = "map" => Map!LostByOverflow]_allVars
==============================================================================
