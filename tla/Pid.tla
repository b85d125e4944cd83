-------------------------------- MODULE Pid --------------------------------
(***************************************************************************)
(* Process ids: the pid structures and the /proc slots of common/os/pid.c, *)
(* with what holds them: processes (fork.c, exit.c), process groups        *)
(* (pgrp.c, pgrpsys.c), sessions (session.c) and the references drivers    *)
(* take with proc_ref().                                                   *)
(*                                                                         *)
(* A pid structure is named by its number, which is unique while the       *)
(* structure is in the hash table.  A critical section of pidlock, or of   *)
(* pidlinklock where pidlock is not taken, is one step.  A process has one *)
(* thread: its parent does not act on a child that is still being forked.  *)
(* The orphaning of process groups, credentials and the per-user process   *)
(* counts are left out; whether a limit fails a fork is a choice.          *)
(***************************************************************************)
EXTENDS Integers, FiniteSets, SequencesExt

CONSTANTS
    Procs,      \* proc_t structures
    p0,         \* the first process, which never exits
    Slots,      \* the number of /proc slots, v.v_proc
    MAXPID,     \* pids are 0 .. MAXPID-1
    Drivers,    \* drivers, each with at most one reference
    None

VARIABLES
    mpid,           \* the last pid assigned
    pidtab,         \* pid structures in the hash table
    procdir,        \* pe_proc of a slot; None when it is on the free list
    procentfree,    \* the free list of slots
    proc,           \* the processes
    s_ref,          \* reference counts of the sessions, by session id
    ref,            \* what each driver is doing
    stray           \* a driver's signal went to something else

vars == <<mpid, pidtab, procdir, procentfree, proc, s_ref, ref, stray>>

Pids == 0 .. MAXPID - 1
minpid == 1

NoProc == [st |-> "none", pid |-> None, pg |-> None, sess |-> None, parent |-> None]

NoRef == [pc |-> "idle", pid |-> None]

Init ==
    /\ mpid = 0
    /\ pidtab = [n \in Pids |-> IF n = 0 THEN [ref |-> 3, inactive |-> FALSE, slot |-> 0]
                                ELSE None]
    /\ procdir = [s \in 0 .. Slots - 1 |-> IF s = 0 THEN p0 ELSE None]
    /\ procentfree = [i \in 1 .. Slots - 1 |-> i]
    /\ proc = [c \in Procs |-> IF c = p0 THEN [st |-> "live", pid |-> 0, pg |-> 0,
                                               sess |-> 0, parent |-> None]
                               ELSE NoProc]
    /\ s_ref = [n \in Pids |-> IF n = 0 THEN 1 ELSE 0]
    /\ ref = [d \in Drivers |-> NoRef]
    /\ stray = FALSE

-----------------------------------------------------------------------------
(* References to a pid structure. *)

Hold(P, n) == [P EXCEPT ![n].ref = @ + 1]

\* PID_RELE: the last reference takes the structure out of the hash table.
Rele(P, n) == IF P[n].ref > 1 THEN [P EXCEPT ![n].ref = @ - 1]
              ELSE [P EXCEPT ![n] = None]

Members(n) == {c \in Procs : proc[c].pg = n}

\* The list pid_pglink holds one reference, from its first member to its last.
Pgexit(P, c) == IF Members(proc[c].pg) = {c} THEN Rele(P, proc[c].pg) ELSE P

\* pgjoin(c, n), c being in no group any more.
Pgjoin(P, c, n) == IF Members(n) \ {c} = {} THEN Hold(P, n) ELSE P

SessRele(P, n) == IF s_ref[n] = 1 THEN Rele(P, n) ELSE P

-----------------------------------------------------------------------------
(* Processes. *)

\* The next number after mpid, going round from MAXPID to minpid, that no pid
\* structure has.
NextPid ==
    LET after == {n \in mpid + 1 .. MAXPID - 1 : pidtab[n] = None}
        before == {n \in minpid .. mpid : pidtab[n] = None}
    IN  Min(IF after # {} THEN after ELSE before)

\* pid_assign() for a child c of p; without a free slot the fork fails.  There
\* are more pids than structures, so a free number exists (the bound MAXPID).
PidAssign(p, c) ==
    /\ proc[p].st = "live" /\ proc[c].st = "none"
    /\ procentfree # <<>>
    /\ \E n \in minpid .. MAXPID - 1 : pidtab[n] = None
    /\ LET n == NextPid
           s == Head(procentfree)
       IN  /\ mpid' = n
           /\ pidtab' = [pidtab EXCEPT ![n] = [ref |-> 1, inactive |-> FALSE, slot |-> s]]
           /\ procdir' = [procdir EXCEPT ![s] = c]
           /\ procentfree' = Tail(procentfree)
           /\ proc' = [proc EXCEPT ![c] = [NoProc EXCEPT !.st = "new", !.pid = n,
                                                         !.parent = p],
                                   ![p].st = "forking"]
    /\ UNCHANGED <<s_ref, ref, stray>>

\* proc_entry_free(): the slot goes to the head of the free list.
ProcEntryFree(n) ==
    /\ procdir' = [procdir EXCEPT ![pidtab[n].slot] = None]
    /\ procentfree' = <<pidtab[n].slot>> \o procentfree

Inactive(P, n) == [P EXCEPT ![n].inactive = TRUE]

\* The limit of processes is exceeded: getproc() takes the pid back with
\* pid_rele(), whatever its reference count.
GetprocBad(c) ==
    /\ proc[c].st = "new"
    /\ ProcEntryFree(proc[c].pid)
    /\ pidtab' = [pidtab EXCEPT ![proc[c].pid] = None]
    /\ proc' = [proc EXCEPT ![c] = NoProc, ![proc[c].parent].st = "live"]
    /\ UNCHANGED <<mpid, s_ref, ref, stray>>

\* getproc() under pidlock: the child joins its parent's session.
Getproc(c) ==
    /\ proc[c].st = "new"
    /\ LET n == proc[proc[c].parent].sess IN
       /\ proc' = [proc EXCEPT ![c].st = "embryo", ![c].sess = n]
       /\ s_ref' = [s_ref EXCEPT ![n] = @ + 1]
    /\ UNCHANGED <<mpid, pidtab, procdir, procentfree, ref, stray>>

\* The end of cfork(): the child joins its parent's process group.
ForkDone(c) ==
    /\ proc[c].st = "embryo"
    /\ LET p == proc[c].parent IN
       /\ pidtab' = Pgjoin(pidtab, c, proc[p].pg)
       /\ proc' = [proc EXCEPT ![c].st = "live", ![c].pg = proc[p].pg, ![p].st = "live"]
    /\ UNCHANGED <<mpid, procdir, procentfree, s_ref, ref, stray>>

\* Mutant: the slot is freed but pid_prinactive is not set.
PidExitActive(c, P) ==
    /\ pidtab' = Rele(SessRele(P, proc[c].sess), proc[c].pid)
    /\ s_ref' = [s_ref EXCEPT ![proc[c].sess] = @ - 1]
    /\ ProcEntryFree(proc[c].pid)

\* pid_exit(c) after pgexit(), which made P of the pid structures.
PidExit(c, P) ==
    /\ pidtab' = Rele(Inactive(SessRele(P, proc[c].sess), proc[c].pid), proc[c].pid)
    /\ s_ref' = [s_ref EXCEPT ![proc[c].sess] = @ - 1]
    /\ ProcEntryFree(proc[c].pid)

\* cfork() fails after getproc().
ForkFailed(c) ==
    /\ proc[c].st = "embryo"
    /\ PidExit(c, pidtab)
    /\ proc' = [proc EXCEPT ![c] = NoProc, ![proc[c].parent].st = "live"]
    /\ UNCHANGED <<mpid, ref, stray>>

\* c has exited, its children went to p0, and its parent reaps it: freeproc().
Freeproc(c) ==
    /\ proc[c].st = "live" /\ c # p0
    /\ PidExit(c, Pgexit(pidtab, c))
    /\ proc' = [q \in Procs |-> IF q = c THEN NoProc
                                ELSE IF proc[q].parent = c
                                     THEN [proc[q] EXCEPT !.parent = p0]
                                     ELSE proc[q]]
    /\ UNCHANGED <<mpid, ref, stray>>

-----------------------------------------------------------------------------
(* Process groups and sessions. *)

Regroup(q, n) ==
    pidtab' = Pgjoin(Pgexit(pidtab, q), q, n)

\* setpgid() by p of itself or of a child in its session: into a group of q's
\* own, or into an existing group of the session.
Setpgid(p, q, n) ==
    /\ proc[p].st = "live" /\ proc[q].st \in {"live", "forking", "setsid"}
    /\ q = p \/ (proc[q].parent = p /\ proc[q].sess = proc[p].sess)
    /\ proc[q].sess # proc[q].pid
    /\ proc[q].pg # n
    /\ n = proc[q].pid \/ \E m \in Members(n) : proc[m].sess = proc[q].sess
    /\ Regroup(q, n)
    /\ proc' = [proc EXCEPT ![q].pg = n]
    /\ UNCHANGED <<mpid, procdir, procentfree, s_ref, ref, stray>>

\* setpgrp() and setsid() test the caller under pidlock and drop it.
Setsid(p) ==
    /\ proc[p].st = "live"
    /\ proc[p].sess # proc[p].pid
    /\ Members(proc[p].pid) \subseteq {p}
    /\ proc' = [proc EXCEPT ![p].st = "setsid"]
    /\ UNCHANGED <<mpid, pidtab, procdir, procentfree, s_ref, ref, stray>>

\* sess_create() takes pidlock again.
SessCreate(p) ==
    LET n == proc[p].pid IN
    /\ proc[p].st = "setsid"
    /\ pidtab' = Hold(Pgjoin(SessRele(Pgexit(pidtab, p), proc[p].sess), p, n), n)
    /\ s_ref' = [s_ref EXCEPT ![proc[p].sess] = @ - 1, ![n] = 1]
    /\ proc' = [proc EXCEPT ![p].st = "live", ![p].pg = n, ![p].sess = n]
    /\ UNCHANGED <<mpid, procdir, procentfree, ref, stray>>

-----------------------------------------------------------------------------
(* References of drivers. *)

\* proc_ref() in the context of process c.
ProcRef(d, c) ==
    /\ ref[d] = NoRef /\ proc[c].st = "live"
    /\ ref' = [ref EXCEPT ![d].pid = proc[c].pid]
    /\ pidtab' = Hold(pidtab, proc[c].pid)
    /\ UNCHANGED <<mpid, procdir, procentfree, proc, s_ref, stray>>

ProcUnref(d) ==
    /\ ref[d].pid # None /\ ref[d].pc = "idle"
    /\ ref' = [ref EXCEPT ![d] = NoRef]
    /\ pidtab' = Rele(pidtab, ref[d].pid)
    /\ UNCHANGED <<mpid, procdir, procentfree, proc, s_ref, stray>>

\* proc_signal(): prsignal() reads pid_prinactive without a lock.
ProcSignal(d) ==
    /\ ref[d].pid # None /\ ref[d].pc = "idle"
    /\ ~pidtab[ref[d].pid].inactive
    /\ ref' = [ref EXCEPT ![d].pc = "psignal"]
    /\ UNCHANGED <<mpid, pidtab, procdir, procentfree, proc, s_ref, stray>>

\* Then it reads the process from the slot and signals it.
Psignal(d) ==
    /\ ref[d].pc = "psignal"
    /\ LET c == procdir[pidtab[ref[d].pid].slot] IN
       stray' = (c = None \/ proc[c].pid # ref[d].pid)
    /\ ref' = [ref EXCEPT ![d].pc = "idle"]
    /\ UNCHANGED <<mpid, pidtab, procdir, procentfree, proc, s_ref>>

Next ==
    \/ \E p, c \in Procs : PidAssign(p, c)
    \/ \E c \in Procs : \/ GetprocBad(c) \/ Getproc(c) \/ ForkDone(c) \/ ForkFailed(c)
                        \/ Freeproc(c) \/ Setsid(c) \/ SessCreate(c)
    \/ \E p, q \in Procs, n \in Pids : Setpgid(p, q, n)
    \/ \E d \in Drivers : ProcUnref(d) \/ ProcSignal(d) \/ Psignal(d)
    \/ \E d \in Drivers, c \in Procs : ProcRef(d, c)

Spec == Init /\ [][Next]_vars

-----------------------------------------------------------------------------
(* Properties. *)

\* Every variable has its type.
TypeOK ==
    /\ mpid \in Pids
    /\ pidtab \in [Pids -> [ref : Nat \ {0}, inactive : BOOLEAN, slot : 0 .. Slots - 1]
                           \cup {None}]
    /\ procdir \in [0 .. Slots - 1 -> Procs \cup {None}]
    /\ procentfree \in Seq(0 .. Slots - 1)
    /\ proc \in [Procs -> [st : {"none", "new", "embryo", "live", "forking", "setsid"},
                           pid : Pids \cup {None}, pg : Pids \cup {None},
                           sess : Pids \cup {None}, parent : Procs \cup {None}]]
    /\ s_ref \in [Pids -> Nat]
    /\ ref \in [Drivers -> [pc : {"idle", "psignal"}, pid : Pids \cup {None}]]
    /\ stray \in BOOLEAN

Count(S) == IF S = {} THEN 0 ELSE 1

\* pid_ref counts what still needs the number: the process, the group while
\* it has members, the session while it has processes, and the drivers'
\* references.  A number nothing needs has no structure, so a number is given
\* to a new process only when no group, session or reference still uses it.
RefExact ==
    \A n \in Pids :
        LET users == Count({c \in Procs : proc[c].pid = n}) + Count(Members(n))
                     + Count({c \in Procs : proc[c].sess = n})
                     + Cardinality({d \in Drivers : ref[d].pid = n})
        IN  users = IF pidtab[n] = None THEN 0 ELSE pidtab[n].ref

\* The slots on the free list are exactly the ones without a process, and
\* prfind() finds for a number the process that has it, or nothing once that
\* process has gone, even when its slot belongs to another by then.
SlotExact ==
    /\ IsInjective(procentfree)
    /\ Range(procentfree) = {s \in 0 .. Slots - 1 : procdir[s] = None}
    /\ \A n \in Pids : pidtab[n] # None =>
          {c \in Procs : proc[c].pid = n} =
              IF pidtab[n].inactive THEN {} ELSE {procdir[pidtab[n].slot]}

\* proc_signal() signals the process the reference was taken for, and nothing
\* else ("send the process the signal", pid.c).
SignalReachesTarget == ~stray
=============================================================================
