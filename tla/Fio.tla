--------------------------------- MODULE Fio ---------------------------------
(***************************************************************************)
(* The file descriptor table of a process with several lwps                *)
(* (uts/common/os/fio.c), and the system calls that work on it: close(),   *)
(* dup() and fcntl() with F_DUPFD, F_DUP2FD and F_SETFD.  Any other call   *)
(* that brackets its work with getf() and releasef() is a "read".          *)
(*                                                                         *)
(* The code under u_flock is one action.  Threads that sleep on p_flock or *)
(* p_flock2 are told apart by their program counters; cv_signal() may wake *)
(* any of those on its condition variable.                                 *)
(***************************************************************************)
EXTENDS Integers, FiniteSets, Functions

CONSTANTS Threads,    \* lwps of the process
          Closers,    \* those that call close()
          Dupers,     \* those that call dup2()
          Calls,      \* the system calls that are made
          Files,      \* file structures
          NFPCHUNK,   \* entries by which the table grows
          InitFiles,  \* u_nofiles to begin with
          FileLimit,  \* RLIMIT_NOFILE
          MaxCount,   \* bound: no dup() of a file with so many references
          None

VARIABLES u_flist,   \* the table, from 0 to u_nofiles - 1
          u_flock2,  \* owner of the mutex of dup2()
          f_count,   \* references to each file structure, 0 if it is free
          thr,       \* where each lwp is
          child      \* the open files of a forked child, None if there is none

vars == <<u_flist, u_flock2, f_count, thr, child>>

Entry == [ofile : Files \cup {None},
          pofile : SUBSET {"FCLOSEXEC", "FRESERVED", "FCLOSING", "FRESERVED2"},
          refcnt : 0..Cardinality(Threads)]

\* fd and fp are what getf() was given and returned, None when released; dest is
\* the slot to fill, own a counted reference on its way into it, and old one to
\* be dropped by closef().
Out == [pc |-> "out", fd |-> 0, fp |-> None, dest |-> 0, own |-> None,
        old |-> None]

u_nofiles == Cardinality(DOMAIN u_flist)

\* A file is open at every descriptor, some of them marked close-on-exec.
Init ==
    /\ \E f \in Files, marks \in [0..InitFiles-1 -> SUBSET {"FCLOSEXEC"}] :
          /\ u_flist = [fd \in 0..InitFiles-1 |->
                           [ofile |-> f, pofile |-> marks[fd], refcnt |-> 0]]
          /\ f_count = [g \in Files |-> IF g = f THEN InitFiles ELSE 0]
    /\ u_flock2 = None
    /\ thr = [t \in Threads |-> Out]
    /\ child = None

Goto(t, pc) == thr' = [thr EXCEPT ![t].pc = pc]

\* What cv_signal() on the condition variable of the sleepers may make of th.
Woken(th, asleep, awake) ==
    LET S == {t \in Threads : th[t].pc \in asleep}
    IN  IF S = {} THEN {th} ELSE {[th EXCEPT ![s].pc = awake[@]] : s \in S}

SignalFlock(th) == Woken(th, {"close_wait", "dup2_wait"},
    [pc \in {"close_wait", "dup2_wait"} |->
        IF pc = "close_wait" THEN "close_test" ELSE "dup2_test"])

SignalFlock2(th) == Woken(th, {"dup2_wait2"}, [pc \in {"dup2_wait2"} |-> "dup2_set"])

NewEntry == [ofile |-> None, pofile |-> {}, refcnt |-> 0]

\* Mutant: the entries are copied without their reference counts.
FlistRebuild(nfd) ==
    [fd \in 0..nfd |-> IF fd < u_nofiles THEN [u_flist[fd] EXCEPT !.refcnt = 0]
                      ELSE NewEntry]

\* flist_realloc() for descriptor nfd: the old entries are copied.
FlistRealloc(nfd) ==
    LET n == u_nofiles + NFPCHUNK
        newcnt == IF n > FileLimit THEN FileLimit
                  ELSE IF nfd >= n THEN nfd + 1 ELSE n
    IN  [fd \in 0..newcnt-1 |-> IF fd < u_nofiles THEN u_flist[fd] ELSE NewEntry]
------------------------------------------------------------------------------
(* getf() and releasef() *)

\* getf(): a system call begins, or fails with EBADF.
Getf(t, fd, call) ==
    /\ thr[t].pc = "out"
    /\ call \in Calls \cap {"read", "setfd", "dup", "dup2"}
    /\ call = "dup2" => t \in Dupers
    /\ IF fd >= u_nofiles \/ u_flist[fd].ofile = None
       THEN UNCHANGED <<u_flist, thr>>
       ELSE /\ call \in {"dup", "dup2"} => f_count[u_flist[fd].ofile] < MaxCount
            /\ u_flist' = [u_flist EXCEPT ![fd].refcnt = @ + 1]
            /\ thr' = [thr EXCEPT ![t] = [Out EXCEPT !.pc = call, !.fd = fd,
                                                     !.fp = u_flist[fd].ofile]]
    /\ UNCHANGED <<u_flock2, f_count, child>>

\* Mutant: releasef() leaves the wake-up to others.
ReleasefSilently(t) ==
    /\ thr[t].pc = "read"
    /\ u_flist' = [u_flist EXCEPT ![thr[t].fd].refcnt = @ - 1]
    /\ thr' = [thr EXCEPT ![t] = Out]
    /\ UNCHANGED <<u_flock2, f_count, child>>

\* releasef(): the end of a system call.
Releasef(t) ==
    LET e == u_flist[thr[t].fd]
        th == [thr EXCEPT ![t] = Out]
    IN  /\ thr[t].pc = "read"
        /\ u_flist' = [u_flist EXCEPT ![thr[t].fd].refcnt = @ - 1]
        /\ thr' \in IF "FCLOSING" \in e.pofile /\ e.refcnt = 1
                    THEN SignalFlock(th) ELSE {th}
        /\ UNCHANGED <<u_flock2, f_count, child>>

\* fcntl(F_SETFD): setpof() stores all the flags.
Setpof(t) ==
    /\ thr[t].pc = "setfd"
    /\ \E flags \in SUBSET {"FCLOSEXEC"} :
          u_flist' = [u_flist EXCEPT ![thr[t].fd].pofile = flags]
    /\ Goto(t, "read")
    /\ UNCHANGED <<u_flock2, f_count, child>>
------------------------------------------------------------------------------
(* close() *)

\* The loop of getandset(): "while (pufe->uf_refcnt > 0)" wait.
CloseLoop(t, fd, list, fp) ==
    IF list[fd].refcnt > 0
    THEN /\ u_flist' = [list EXCEPT ![fd].pofile = @ \cup {"FCLOSING"}]
         /\ thr' = [thr EXCEPT ![t] = [Out EXCEPT !.pc = "close_wait",
                                                  !.dest = fd, !.old = fp]]
    ELSE /\ u_flist' = [list EXCEPT ![fd].pofile = @ \ {"FRESERVED", "FCLOSING"}]
         /\ thr' \in LET th == [thr EXCEPT ![t] = [Out EXCEPT !.pc = "closef",
                                                              !.old = fp]]
                     IN  IF "FRESERVED2" \in list[fd].pofile
                         THEN SignalFlock2(th) ELSE {th}

\* close(): getandset() empties and reserves the slot.
Getandset(t, fd) ==
    /\ thr[t].pc = "out"
    /\ "close" \in Calls
    /\ t \in Closers
    /\ fd < u_nofiles /\ u_flist[fd].ofile # None
    /\ CloseLoop(t, fd,
                 [u_flist EXCEPT ![fd].ofile = None,
                                 ![fd].pofile = @ \cup {"FRESERVED"}],
                 u_flist[fd].ofile)
    /\ UNCHANGED <<u_flock2, f_count, child>>

CloseTest(t) ==
    /\ thr[t].pc = "close_test"
    /\ CloseLoop(t, thr[t].dest, u_flist, thr[t].old)
    /\ UNCHANGED <<u_flock2, f_count, child>>

\* closef(); what dup2() does afterwards is release its source.
Closef(t) ==
    /\ thr[t].pc = "closef"
    /\ f_count' = [f_count EXCEPT ![thr[t].old] = @ - 1]
    /\ thr' = [thr EXCEPT ![t].pc = IF thr[t].fp = None THEN "out" ELSE "read",
                          ![t].old = None, ![t].dest = 0]
    /\ UNCHANGED <<u_flist, u_flock2, child>>
------------------------------------------------------------------------------
(* open() and dup() *)

\* What ufalloc() takes for a free slot.
FreeSlot(e) == e.ofile = None /\ e.pofile \cap {"FRESERVED", "FRESERVED2"} = {}

\* ufalloc(start, &fd): the first free slot, or a larger table, or EMFILE.
FreeSlots(start) == {fd \in DOMAIN u_flist : fd >= start /\ FreeSlot(u_flist[fd])}

Beyond(start) == IF start < u_nofiles THEN u_nofiles ELSE start

Ufalloc(start, fd) ==
    \/ /\ fd \in FreeSlots(start)
       /\ \A d \in FreeSlots(start) : fd <= d
       /\ u_flist' = [u_flist EXCEPT ![fd].pofile = {"FRESERVED"}]
    \/ /\ FreeSlots(start) = {}
       /\ fd = Beyond(start)
       /\ fd < FileLimit
       /\ u_flist' = [FlistRealloc(fd) EXCEPT ![fd].pofile = {"FRESERVED"}]

Emfile(start) == FreeSlots(start) = {} /\ Beyond(start) >= FileLimit

\* fassign(): falloc() reserves a slot and takes a file structure ...
Falloc(t) ==
    /\ thr[t].pc = "out"
    /\ "open" \in Calls
    /\ \E fd \in 0..FileLimit-1, f \in Files :
          /\ f_count[f] = 0
          /\ Ufalloc(0, fd)
          /\ f_count' = [f_count EXCEPT ![f] = 1]
          /\ thr' = [thr EXCEPT ![t] = [Out EXCEPT !.pc = "open", !.dest = fd,
                                                   !.own = f]]
    /\ UNCHANGED <<u_flock2, child>>

\* setf()
Setf(fd, fp) ==
    u_flist' = [u_flist EXCEPT ![fd].ofile = fp,
                               ![fd].pofile = @ \ {"FRESERVED"}]

\* ... and VOP_OPEN() succeeds: setf(fd, fp).
OpenDone(t) ==
    /\ thr[t].pc = "open"
    /\ Setf(thr[t].dest, thr[t].own)
    /\ thr' = [thr EXCEPT ![t] = Out]
    /\ UNCHANGED <<u_flock2, f_count, child>>

\* VOP_OPEN() fails: setf(fd, NULLFP), then unfalloc().
OpenFailed(t) ==
    /\ thr[t].pc = "open"
    /\ Setf(thr[t].dest, None)
    /\ thr' = [thr EXCEPT ![t] = [Out EXCEPT !.pc = "closef",
                                             !.old = thr[t].own]]
    /\ UNCHANGED <<u_flock2, f_count, child>>

\* dupfdes(): ufalloc() with the argument of F_DUPFD, 0 for dup() ...
DupSlot(t, start) ==
    /\ thr[t].pc = "dup"
    /\ \/ \E fd \in 0..FileLimit-1 :
             /\ Ufalloc(start, fd)
             /\ thr' = [thr EXCEPT ![t].pc = "dup_count", ![t].dest = fd]
       \/ /\ Emfile(start)
          /\ Goto(t, "read")
          /\ UNCHANGED u_flist
    /\ UNCHANGED <<u_flock2, f_count, child>>

\* Mutant: the file is put into the slot and nobody counts it.
DupUncounted(t) ==
    /\ thr[t].pc = "dup_count"
    /\ Setf(thr[t].dest, thr[t].fp)
    /\ Goto(t, "dup_set")
    /\ UNCHANGED <<u_flock2, f_count, child>>

\* "incr ref count before setf() to avoid race condition" ...
DupCount(t) ==
    /\ thr[t].pc = "dup_count"
    /\ f_count' = [f_count EXCEPT ![thr[t].fp] = @ + 1]
    /\ thr' = [thr EXCEPT ![t].pc = "dup_set", ![t].own = thr[t].fp]
    /\ UNCHANGED <<u_flist, u_flock2, child>>

\* ... setf() ...
DupSet(t) ==
    /\ thr[t].pc = "dup_set"
    /\ Setf(thr[t].dest, thr[t].own)
    /\ thr' = [thr EXCEPT ![t].pc = "dup_flag", ![t].own = None]
    /\ UNCHANGED <<u_flock2, f_count, child>>

\* ... and, under u_flock again, "uf_pofile &= ~FCLOSEXEC".
DupFlag(t) ==
    /\ thr[t].pc = "dup_flag"
    /\ u_flist' = [u_flist EXCEPT ![thr[t].dest].pofile = @ \ {"FCLOSEXEC"}]
    /\ thr' = [thr EXCEPT ![t].pc = "read", ![t].dest = 0]
    /\ UNCHANGED <<u_flock2, f_count, child>>
------------------------------------------------------------------------------
(* fcntl(F_DUP2FD): dupdest() *)

Dup2Count(t, dest) ==
    /\ thr[t].pc = "dup2"
    /\ dest # thr[t].fd
    /\ f_count' = [f_count EXCEPT ![thr[t].fp] = @ + 1]
    /\ thr' = [thr EXCEPT ![t].pc = "dup2_lock", ![t].dest = dest,
                          ![t].own = thr[t].fp]
    /\ UNCHANGED <<u_flist, u_flock2, child>>

\* The slot is ours: fill it, drop both mutexes, and close what was there.
Dup2Fill(t, list, old) ==
    /\ u_flist' = [list EXCEPT ![thr[t].dest].ofile = thr[t].own,
                               ![thr[t].dest].pofile = {}]
    /\ thr' = [thr EXCEPT ![t].pc = IF old = None THEN "read" ELSE "closef",
                          ![t].own = None, ![t].old = old, ![t].dest = 0]
    /\ u_flock2' = None

Dup2Wait(t, list, old, pc) ==
    /\ u_flist' = list
    /\ thr' = [thr EXCEPT ![t].pc = pc, ![t].old = old]
    /\ u_flock2' = t

Dup2Lock(t) ==
    LET dest == thr[t].dest
        list == [u_flist EXCEPT ![dest].pofile = @ \cup {"FRESERVED2"}]
        emptied == [list EXCEPT ![dest].ofile = None,
                                ![dest].pofile = @ \cup {"FRESERVED", "FCLOSING"}]
        old == u_flist[dest].ofile
    IN  /\ thr[t].pc = "dup2_lock"
        /\ u_flock2 = None
        /\ \/ dest >= u_nofiles /\ Dup2Fill(t, FlistRealloc(dest), None)
           \/ /\ dest < u_nofiles
              /\ old # None
              /\ IF u_flist[dest].refcnt > 0
                 THEN Dup2Wait(t, emptied, old, "dup2_wait")
                 ELSE Dup2Fill(t, emptied, old)
           \/ /\ dest < u_nofiles
              /\ old = None
              /\ IF "FCLOSING" \in u_flist[dest].pofile
                 THEN Dup2Wait(t, list, None, "dup2_wait2")
                 ELSE Dup2Fill(t, list, None)
        /\ UNCHANGED <<f_count, child>>

\* "while (ufp->uf_refcnt > 0)"
Dup2Test(t) ==
    /\ thr[t].pc = "dup2_test"
    /\ IF u_flist[thr[t].dest].refcnt > 0
       THEN Dup2Wait(t, u_flist, thr[t].old, "dup2_wait")
       ELSE Dup2Fill(t, u_flist, thr[t].old)
    /\ UNCHANGED <<f_count, child>>

\* The wait on p_flock2 is not in a loop.
Dup2Set(t) ==
    /\ thr[t].pc = "dup2_set"
    /\ Dup2Fill(t, u_flist, None)
    /\ UNCHANGED <<f_count, child>>
------------------------------------------------------------------------------
(* fork(), exec() and exit(), with the other lwps out of the way *)

Alone == \A t \in Threads : thr[t].pc = "out"

\* How many descriptors of a table lead to file f.
Links(list, f) == Cardinality({fd \in DOMAIN list : list[fd].ofile = f})

\* fork(): bump_fcnts()
BumpFcnts ==
    /\ "fork" \in Calls
    /\ Alone
    /\ child = None
    /\ child' = u_flist
    /\ f_count' = [f \in Files |-> f_count[f] + Links(u_flist, f)]
    /\ UNCHANGED <<u_flist, u_flock2, thr>>

\* exit() of the child: closeall()
Closeall ==
    /\ child # None
    /\ f_count' = [f \in Files |-> f_count[f] - Links(child, f)]
    /\ child' = None
    /\ UNCHANGED <<u_flist, u_flock2, thr>>

\* exec(): close_exec()
CloseExec ==
    LET marked == {fd \in DOMAIN u_flist : "FCLOSEXEC" \in u_flist[fd].pofile}
    IN  /\ "exec" \in Calls
        /\ Alone
        /\ u_flist' = [fd \in DOMAIN u_flist |->
               IF fd \in marked THEN [u_flist[fd] EXCEPT !.ofile = None]
               ELSE u_flist[fd]]
        /\ f_count' = [f \in Files |->
               f_count[f] - Links(Restrict(u_flist, marked), f)]
        /\ UNCHANGED <<u_flock2, thr, child>>
------------------------------------------------------------------------------
ThreadStep(t) ==
    \/ \E fd \in 0..FileLimit-1 :
          \/ \E call \in Calls : Getf(t, fd, call)
          \/ Getandset(t, fd) \/ DupSlot(t, fd) \/ Dup2Count(t, fd)
    \/ Releasef(t) \/ Setpof(t) \/ CloseTest(t) \/ Closef(t)
    \/ Falloc(t) \/ OpenDone(t) \/ OpenFailed(t)
    \/ DupCount(t) \/ DupSet(t) \/ DupFlag(t)
    \/ Dup2Lock(t) \/ Dup2Test(t) \/ Dup2Set(t)

Next ==
    \/ \E t \in Threads : ThreadStep(t)
    \/ BumpFcnts \/ Closeall \/ CloseExec

Spec == Init /\ [][Next]_vars

\* A system call that can go on goes on; nobody has to make one.
Runs(t) ==
    \/ Releasef(t) \/ CloseTest(t) \/ Closef(t) \/ OpenDone(t) \/ OpenFailed(t)
    \/ \E fd \in 0..FileLimit-1 : DupSlot(t, fd)
    \/ DupCount(t) \/ DupSet(t) \/ DupFlag(t)

Fairness == \A t \in Threads : WF_vars(Runs(t))

FairSpec == Spec /\ Fairness
------------------------------------------------------------------------------
(* Properties *)

\* The variables have their types.
TypeOK ==
    /\ \E n \in InitFiles..FileLimit : u_flist \in [0..n-1 -> Entry]
    /\ u_flock2 \in Threads \cup {None}
    /\ f_count \in [Files -> Nat]
    /\ thr \in [Threads ->
         [pc : {"out", "read", "setfd", "dup", "dup2", "close_wait", "close_test",
                "closef", "open", "dup_count", "dup_set", "dup_flag", "dup2_lock",
                "dup2_wait", "dup2_wait2", "dup2_test", "dup2_set"},
          fd : 0..FileLimit-1, dest : 0..FileLimit-1, fp : Files \cup {None},
          own : Files \cup {None}, old : Files \cup {None}]]

\* The references to a file: from the table, from the child's, and from system
\* calls that are about to add one to the table or to drop one.
References(f) ==
    Links(u_flist, f) + (IF child = None THEN 0 ELSE Links(child, f))
      + Cardinality({t \in Threads : thr[t].own = f})
      + Cardinality({t \in Threads : thr[t].old = f})

\* A file structure is never freed while a reference is left, whatever calls
\* meet on a descriptor.
NeverFreedEarly == \A f \in Files : f_count[f] >= References(f)

\* Without dup2() and F_SETFD, f_count is exact: no file stays open for ever
\* because a slot was given to two calls or a reference was forgotten.
CountExact == \A f \in Files : f_count[f] = References(f)

\* uf_refcnt is the number of lwps between getf() and releasef() on the
\* descriptor, although the entry moves when the table grows and may meanwhile
\* be closed, reserved and given to another file.
RefcntExact ==
    \A fd \in DOMAIN u_flist :
       u_flist[fd].refcnt =
          Cardinality({t \in Threads : thr[t].fp # None /\ thr[t].fd = fd})

\* What getf() is for: a file that an lwp got from it is not freed until the
\* lwp calls releasef(), whoever closes the descriptor in the meantime.
FileKept == \A t \in Threads : thr[t].fp # None => f_count[thr[t].fp] > 0

\* "wait for other threads to stop using this file structure. We tell em to
\* kick us awake when the refcount goes to zero": close() does not sleep on once
\* its descriptor is no longer in use.
CloserKicked ==
    \A t \in Threads :
       thr[t].pc = "close_wait" => u_flist[thr[t].dest].refcnt > 0
==============================================================================
