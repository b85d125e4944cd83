------------------------------- MODULE Callout -------------------------------
(***************************************************************************)
(* One callout table of uts/common/os/callout.c: the timeout()/untimeout() *)
(* interface, the per-tick callout_schedule() of the clock thread, the     *)
(* threads that run callout_execute(), and the checkpoint/resume callback. *)
(*                                                                         *)
(* Every function of callout.c that touches the table does so under        *)
(* cs_lock, so the code between an acquisition of cs_lock and its release  *)
(* (or the cv_wait() that releases it) is one action here.  realtime tells *)
(* which table it is: the normal one is served by a pool of threads that   *)
(* sleep on cs_threadpool, the realtime one by softcall(realtime_timein).  *)
(*                                                                         *)
(* Time is clock_t: arithmetic is modulo TIME and compared by signed       *)
(* difference, so that lbolt wraps within a run.  A callout id is a pair   *)
(* of its bucket (the low-order bits) and a counter value; which counter   *)
(* values callout_insert() hands out is the subject of CalloutId.          *)
(***************************************************************************)
EXTENDS Integers, FiniteSets

CONSTANTS Clients,        \* threads that call timeout() and untimeout()
          UnsafeClients,  \* those of them that run under unsafe_driver
          Threads,        \* callout threads, or softint threads if realtime
          Callouts,       \* callout structures that may be allocated
          Seqs,           \* values of the middle bits of an id
          TIME,           \* number of values of clock_t
          BUCKETS,        \* CALLOUT_BUCKETS
          Deltas,         \* arguments of timeout()
          MaxLag,         \* bound: how far execution may lag behind lbolt
          MaxPigs,        \* bound: callout functions that never return
          CPR,            \* bound: whether checkpoints are taken
          TABLES,         \* values of realtime: which tables are looked at
          None            \* no thread, no structure, no id

ASSUME ClientAssumption == UnsafeClients \subseteq Clients
ASSUME ThreadAssumption == Threads \cap Clients = {}
ASSUME NoneAssumption ==
    None \notin Clients \cup Threads \cup Callouts \cup ((0..BUCKETS-1) \X Seqs)
ASSUME TimeAssumption ==
    /\ BUCKETS \in Nat \ {0}
    /\ TIME \in Nat \ {0}
    /\ TIME % BUCKETS = 0
    /\ Deltas \subseteq Int
ASSUME BoundAssumption == MaxLag \in Nat /\ MaxPigs \in Nat
ASSUME TableAssumption == TABLES \subseteq BOOLEAN /\ CPR \in BOOLEAN

VARIABLES
    realtime,          \* which of the two tables this is
    lbolt,             \* clock ticks since boot
    clock,             \* where the clock thread is: "idle" or "bumped"
    cs_curtime,        \* lbolt as of the last callout_schedule()
    cs_runtime,        \* the tick whose callouts are being run
    cs_bucket,         \* the callouts of each bucket
    cs_freelist,       \* free structures
    callout,           \* the contents of each structure
    softcall,          \* realtime_timein is queued (realtime table only)
    cpr_stop_callout,  \* the checkpoint flag, shared by both tables
    cpr,               \* progress of the checkpoint/resume callback
    ocs,               \* the save table of callout_save()
    unsafe_driver,     \* owner of the MT-unsafe driver mutex
    thr,               \* the threads running callout_execute()
    client,            \* the callers of timeout() and untimeout()
    ran                \* history: ids held by a client whose function was started

table == <<cs_curtime, cs_runtime, cs_bucket, cs_freelist, callout>>
cprVars == <<cpr_stop_callout, cpr, ocs>>
world == <<realtime, lbolt, clock, softcall, cprVars>>
vars == <<world, table, unsafe_driver, thr, client, ran>>

Buckets == 0..BUCKETS-1
Ticks == 0..TIME-1
Ids == Buckets \X Seqs

Wrap(t) == t % TIME

\* a - b in clock_t: the comparisons "runtime - curtime <= 0" allow wrap.
Diff(a, b) ==
    LET d == (a - b) % TIME IN IF 2 * d < TIME THEN d ELSE d - TIME

InTable == UNION {cs_bucket[b] : b \in Buckets}

\* CALLOUT_EXECUTING is set together with c_executor.
Executing(cp) == callout[cp].executor # None

\* CALLOUT_UNSAFE_DRIVER is set in c_xid.
Unsafe(cp) == "UNSAFE_DRIVER" \in callout[cp].flags

\* Mutant of Due: the test of CALLOUT_EXECUTING is forgotten.
DueUnchecked(r) == {cp \in cs_bucket[r % BUCKETS] : callout[cp].runtime = r}

\* The callouts of tick r that nobody is executing.
Due(r) == {cp \in cs_bucket[r % BUCKETS] :
              callout[cp].runtime = r /\ ~Executing(cp)}

\* The tick at which a scan for work that begins at tick r stops: the first
\* one up to the current time with a callout to run, else the one after it.
ScanTo(r, curtime) ==
    LET Hits == {k \in 0..Diff(curtime, r) : Due(Wrap(r + k)) # {}}
    IN  IF Diff(r, curtime) > 0 THEN r
        ELSE IF Hits = {} THEN Wrap(curtime + 1)
        ELSE Wrap(r + CHOOSE k \in Hits : \A j \in Hits : k <= j)

Parked == [pc |-> "pool", cp |-> None, runtime |-> 0]
Idle == [pc |-> "idle", id |-> None, cp |-> None]
Blank == [id |-> None, flags |-> {}, executor |-> None,
          runtime |-> 0, due |-> 0]
NoSave == [bucket |-> [b \in Buckets |-> {}], runtime |-> 0]

\* callout_setup() and callout_init(), with the pool threads asleep.
Init ==
    /\ realtime \in TABLES
    /\ lbolt = 0
    /\ clock = "idle"
    /\ cs_curtime = 0
    /\ cs_runtime = 0
    /\ cs_bucket = [b \in Buckets |-> {}]
    /\ cs_freelist = {}
    /\ callout = [cp \in Callouts |-> Blank]
    /\ softcall = FALSE
    /\ cpr_stop_callout = FALSE
    /\ cpr = "up"
    /\ ocs = NoSave
    /\ unsafe_driver = None
    /\ thr = [e \in Threads |-> Parked]
    /\ client = [c \in Clients |-> Idle]
    /\ ran = {}
------------------------------------------------------------------------------
(* Callers *)

\* An MT-unsafe driver runs with unsafe_driver held.
EnterDriver(c) ==
    /\ c \in UnsafeClients
    /\ client[c].pc = "idle"
    /\ unsafe_driver = None
    /\ unsafe_driver' = c
    /\ UNCHANGED <<world, table, thr, client, ran>>

LeaveDriver(c) ==
    /\ client[c].pc = "idle"
    /\ unsafe_driver = c
    /\ unsafe_driver' = None
    /\ UNCHANGED <<world, table, thr, client, ran>>

MayCall(c) ==
    /\ client[c].pc = "idle"
    /\ c \in UnsafeClients => unsafe_driver = c

\* A free structure, or a newly allocated one when the free list is empty.
Allocatable ==
    IF cs_freelist # {} THEN cs_freelist
    ELSE Callouts \ (cs_freelist \cup InTable
                       \cup UNION {ocs.bucket[b] : b \in Buckets})

\* Ids a client may still present to untimeout(), or that are in the table.
\* callo.h asserts that the counter does not come round to one of these.
IdsInUse == {client[c].id : c \in Clients} \cup {callout[cp].id : cp \in InTable}

\* Mutants of RuntimeFor: without the clamp to the next tick, and from
\* cs_curtime in place of lbolt.
RuntimeUnclamped(delta) == Wrap(lbolt + delta)

RuntimeFromCurtime(delta) ==
    LET runtime == Wrap(cs_curtime + delta)
    IN  IF Diff(runtime, cs_curtime) <= 0 THEN Wrap(cs_curtime + 1) ELSE runtime

\* The tick at which callout_insert() files a request for delta ticks.
RuntimeFor(delta) ==
    LET runtime == Wrap(lbolt + delta)
    IN  IF Diff(runtime, cs_curtime) <= 0 THEN Wrap(cs_curtime + 1) ELSE runtime

\* timeout(), realtime_timeout(): callout_insert() under cs_lock.
Timeout(c, delta) ==
    /\ MayCall(c)
    /\ client[c].id = None
    /\ LET runtime == RuntimeFor(delta)
           b == runtime % BUCKETS
       IN  \E cp \in Allocatable, id \in ({b} \X Seqs) \ IdsInUse :
             /\ callout' = [callout EXCEPT ![cp] =
                    [id |-> id,
                     flags |-> IF unsafe_driver = c THEN {"UNSAFE_DRIVER"} ELSE {},
                     executor |-> None, runtime |-> runtime,
                     due |-> Wrap(lbolt + delta)]]
             /\ cs_freelist' = cs_freelist \ {cp}
             /\ cs_bucket' = [cs_bucket EXCEPT ![b] = @ \cup {cp}]
             /\ client' = [client EXCEPT ![c] = [Idle EXCEPT !.id = id]]
    /\ UNCHANGED <<world, cs_curtime, cs_runtime, unsafe_driver, thr, ran>>

\* The client is done with its id.
DropId(c) ==
    /\ client' = [client EXCEPT ![c] = Idle]
    /\ ran' = ran \ {client[c].id}

\* The client learns from its function that it ran.
Forget(c) ==
    /\ client[c].pc = "idle"
    /\ client[c].id \in ran
    /\ DropId(c)
    /\ UNCHANGED <<world, table, unsafe_driver, thr>>

\* A structure put on the free list.  callout_execute() zeroes its c_xid,
\* callout_delete() does not, and both leave the other fields; nothing reads
\* them before callout_insert() sets them, except that a canceller compares
\* c_xid with the id of a callout that was executing.
Freed(cp) == [callout EXCEPT ![cp] = Blank]

\* The bucket that callout_delete() searches, and what it finds there.
Matches(id) == {cp \in cs_bucket[id[1]] : callout[cp].id = id}

\* untimeout(), the id is not in the table: the function has run.
UntimeoutGone(c) ==
    /\ MayCall(c)
    /\ client[c].id # None
    /\ Matches(client[c].id) = {}
    /\ DropId(c)
    /\ UNCHANGED <<world, table, unsafe_driver, thr>>

\* Mutant of UntimeoutPending: CALLOUT_EXECUTING is not looked at.
UntimeoutAnyway(c) ==
    /\ MayCall(c)
    /\ client[c].id # None
    /\ \E cp \in Matches(client[c].id) :
          /\ cs_bucket' = [cs_bucket EXCEPT ![client[c].id[1]] = @ \ {cp}]
          /\ cs_freelist' = cs_freelist \cup {cp}
          /\ callout' = Freed(cp)
    /\ DropId(c)
    /\ UNCHANGED <<world, cs_curtime, cs_runtime, unsafe_driver, thr>>

\* untimeout(), the callout is waiting to run: unlink it.
UntimeoutPending(c) ==
    /\ MayCall(c)
    /\ client[c].id # None
    /\ \E cp \in Matches(client[c].id) :
          /\ ~Executing(cp)
          /\ cs_bucket' = [cs_bucket EXCEPT ![client[c].id[1]] = @ \ {cp}]
          /\ cs_freelist' = cs_freelist \cup {cp}
          /\ callout' = Freed(cp)
    /\ DropId(c)
    /\ UNCHANGED <<world, cs_curtime, cs_runtime, unsafe_driver, thr>>

\* Mutant of UntimeoutExecuting: unsafe_driver is held across the wait.
UntimeoutHoldingUnsafe(c) ==
    /\ MayCall(c)
    /\ client[c].id # None
    /\ \E cp \in Matches(client[c].id) :
          /\ Executing(cp)
          /\ callout[cp].executor # c
          /\ client' = [client EXCEPT ![c] = [@ EXCEPT !.pc = "c_done",
                                                      !.cp = cp]]
    /\ UNCHANGED <<world, table, unsafe_driver, thr, ran>>

\* untimeout(), another thread is executing the callout: sleep on c_done,
\* without unsafe_driver if the callout needs it.
UntimeoutExecuting(c) ==
    /\ MayCall(c)
    /\ client[c].id # None
    /\ \E cp \in Matches(client[c].id) :
          /\ Executing(cp)
          /\ callout[cp].executor # c
          /\ client' = [client EXCEPT ![c] = [@ EXCEPT !.pc = "c_done",
                                                      !.cp = cp]]
          /\ unsafe_driver' = IF Unsafe(cp) THEN None ELSE unsafe_driver
    /\ UNCHANGED <<world, table, thr, ran>>

\* Mutant of StillExecuting: the wait is not in a loop.
TrustWakeup(c) == FALSE

\* cp->c_xid == xid, where xid has the executing bit set.
StillExecuting(c) ==
    LET cp == client[c].cp
    IN  callout[cp].id = client[c].id /\ Executing(cp)

\* The sleeper returns from cv_wait() and looks at c_xid again.  The callouts
\* marked CALLOUT_UNSAFE_DRIVER are those of the UnsafeClients.
Recheck(c) ==
    /\ client[c].pc = "woken"
    /\ \/ /\ StillExecuting(c)
          /\ client' = [client EXCEPT ![c].pc = "c_done"]
          /\ UNCHANGED ran
       \/ /\ ~StillExecuting(c)
          /\ c \in UnsafeClients
          /\ client' = [client EXCEPT ![c].pc = "reenter"]
          /\ UNCHANGED ran
       \/ /\ ~StillExecuting(c)
          /\ c \notin UnsafeClients
          /\ DropId(c)
    /\ UNCHANGED <<world, table, unsafe_driver, thr>>

\* mutex_enter(&unsafe_driver) on the way out of callout_delete().
Reenter(c) ==
    /\ client[c].pc = "reenter"
    /\ unsafe_driver = None
    /\ unsafe_driver' = c
    /\ DropId(c)
    /\ UNCHANGED <<world, table, thr>>

\* The function being executed is setrun() of the sleeper (cv_timedwait()).
SpuriousSetrun(c) ==
    /\ client[c].pc = "c_done"
    /\ \E e \in Threads : thr[e].pc = "func" /\ thr[e].cp = client[c].cp
    /\ client' = [client EXCEPT ![c].pc = "woken"]
    /\ UNCHANGED <<world, table, unsafe_driver, thr, ran>>
------------------------------------------------------------------------------
(* The clock thread *)

\* Ticks from which some scan will continue; they bound how far time may run.
ScanTicks ==
    {cs_runtime}
      \cup {thr[e].runtime :
              e \in {x \in Threads : thr[x].pc \notin {"pool", "signalled", "pig"}}}
      \cup (IF cpr \in {"saved", "resuming"} THEN {ocs.runtime} ELSE {})

\* clock(): lbolt++.  MaxLag stands for 2^31 ticks.
ClockTick ==
    /\ clock = "idle"
    /\ \A r \in ScanTicks : Diff(lbolt, r) < MaxLag
    /\ lbolt' = Wrap(lbolt + 1)
    /\ clock' = "bumped"
    /\ UNCHANGED <<realtime, table, softcall, cprVars, unsafe_driver, thr, client,
                   ran>>

\* The threads asleep on cs_threadpool, and their state once awakened.
PoolSleepers == {e \in Threads : \/ thr[e].pc = "cprwait"
                                 \/ thr[e].pc = "pool" /\ ~realtime}

Awakened(e) ==
    [thr[e] EXCEPT !.pc = IF @ = "cprwait" THEN "relock" ELSE "signalled"]

\* Mutant of Dispatch: a thread is signalled only when none is executing.
DispatchWhenIdle ==
    \/ /\ realtime
       /\ softcall' = TRUE
       /\ UNCHANGED thr
    \/ /\ ~realtime
       /\ PoolSleepers = Threads
       /\ \E e \in PoolSleepers : thr' = [thr EXCEPT ![e] = Awakened(e)]
       /\ UNCHANGED softcall
    \/ /\ ~realtime
       /\ PoolSleepers # Threads
       /\ UNCHANGED <<softcall, thr>>

\* softcall(realtime_timein) or cv_signal(&cs_threadpool).
Dispatch ==
    \/ /\ realtime
       /\ softcall' = TRUE
       /\ UNCHANGED thr
    \/ /\ ~realtime
       /\ PoolSleepers # {}
       /\ \E e \in PoolSleepers : thr' = [thr EXCEPT ![e] = Awakened(e)]
       /\ UNCHANGED softcall
    \/ /\ ~realtime
       /\ PoolSleepers = {}
       /\ UNCHANGED <<softcall, thr>>

\* callout_schedule(): advance cs_runtime to the first tick with work.
CalloutSchedule ==
    /\ clock = "bumped"
    /\ clock' = "idle"
    /\ cs_curtime' = lbolt
    /\ cs_runtime' = ScanTo(cs_runtime, lbolt)
    /\ IF Diff(ScanTo(cs_runtime, lbolt), lbolt) <= 0
       THEN Dispatch
       ELSE UNCHANGED <<softcall, thr>>
    /\ UNCHANGED <<realtime, lbolt, cs_bucket, cs_freelist, callout, cprVars,
                   unsafe_driver, client, ran>>
------------------------------------------------------------------------------
(* callout_execute() *)

\* The scan has stopped at tick r: take a callout of that tick, or leave.
RunOrPark(e, r, co) ==
    \/ /\ Diff(r, cs_curtime) <= 0
       /\ \E cp \in Due(r) :
             /\ callout' = [co EXCEPT ![cp].executor = e]
             /\ thr' = [thr EXCEPT ![e] =
                    [pc |-> IF Unsafe(cp) THEN "unsafe" ELSE "func",
                     cp |-> cp, runtime |-> r]]
             /\ ran' = ran \cup {callout[cp].id}
    \/ /\ Diff(r, cs_curtime) > 0
       /\ callout' = co
       /\ thr' = [thr EXCEPT ![e] = Parked]
       /\ UNCHANGED ran

EnterExecute(e) ==
    /\ cs_runtime' = ScanTo(cs_runtime, cs_curtime)
    /\ RunOrPark(e, ScanTo(cs_runtime, cs_curtime), callout)
    /\ UNCHANGED <<world, cs_curtime, cs_bucket, cs_freelist, unsafe_driver,
                   client>>

\* callout_thread(), awakened while a checkpoint is in progress.
BackToSleep(e) ==
    /\ ~realtime
    /\ thr[e].pc = "signalled"
    /\ cpr_stop_callout
    /\ thr' = [thr EXCEPT ![e] = Parked]
    /\ UNCHANGED <<world, table, unsafe_driver, client, ran>>

\* Mutant of CalloutThread: cpr_stop_callout is not looked at.
ThreadIgnoresCpr(e) ==
    /\ ~realtime
    /\ thr[e].pc = "signalled"
    /\ EnterExecute(e)

\* callout_thread()
CalloutThread(e) ==
    /\ ~realtime
    /\ thr[e].pc = "signalled"
    /\ ~cpr_stop_callout
    /\ EnterExecute(e)

\* softint() takes realtime_timein off its queue ...
Softint(e) ==
    /\ softcall
    /\ thr[e].pc = "pool"
    /\ softcall' = FALSE
    /\ thr' = [thr EXCEPT ![e].pc = "signalled"]
    /\ UNCHANGED <<realtime, lbolt, clock, table, cprVars, unsafe_driver, client,
                   ran>>

\* ... and calls it.
RealtimeTimein(e) ==
    /\ realtime
    /\ thr[e].pc = "signalled"
    /\ EnterExecute(e)

\* mutex_enter(&unsafe_driver) before the function of an unsafe driver.
EnterUnsafe(e) ==
    /\ thr[e].pc = "unsafe"
    /\ unsafe_driver = None
    /\ unsafe_driver' = e
    /\ thr' = [thr EXCEPT ![e].pc = "func"]
    /\ UNCHANGED <<world, table, client, ran>>

\* The function calls untimeout() on its own id: callout_delete() finds that
\* c_executor is the caller and returns at once.
NestedUntimeout(e) ==
    /\ thr[e].pc = "func"
    /\ \E cp \in Matches(callout[thr[e].cp].id) :
          callout[cp].executor = e
    /\ thr' = [thr EXCEPT ![e].pc = "nested"]
    /\ UNCHANGED <<world, table, unsafe_driver, client, ran>>

\* The function returns, and unsafe_driver is dropped.
FuncReturn(e) ==
    /\ thr[e].pc \in {"func", "nested"}
    /\ thr' = [thr EXCEPT ![e].pc = "relock"]
    /\ unsafe_driver' = IF unsafe_driver = e THEN None ELSE unsafe_driver
    /\ UNCHANGED <<world, table, client, ran>>

\* The function never returns.
Pig(e) ==
    /\ thr[e].pc = "func"
    /\ unsafe_driver # e
    /\ Cardinality({x \in Threads : thr[x].pc = "pig"}) < MaxPigs
    /\ thr' = [thr EXCEPT ![e].pc = "pig"]
    /\ UNCHANGED <<world, table, unsafe_driver, client, ran>>

\* "if we are CPRing, go to sleep"
CprSleep(e) ==
    /\ thr[e].pc = "relock"
    /\ cpr_stop_callout
    /\ thr' = [thr EXCEPT ![e].pc = "cprwait"]
    /\ UNCHANGED <<world, table, unsafe_driver, client, ran>>

\* Mutant of WakeCancellers: the broadcast is forgotten.
WakeNobody(cp) == client

\* cv_broadcast(&cp->c_done)
WakeCancellers(cp) ==
    [c \in Clients |->
        IF client[c].pc = "c_done" /\ client[c].cp = cp
        THEN [client[c] EXCEPT !.pc = "woken"] ELSE client[c]]

\* Where the scan goes on once the callout of tick r is retired.
ResumeAt(r) ==
    IF Due(r) # {} THEN r
    ELSE ScanTo(IF cs_runtime = r THEN Wrap(r + 1) ELSE cs_runtime, cs_curtime)

\* Retire the callout, then go on to the next function call or return.
Finish(e) ==
    LET cp == thr[e].cp
        r  == thr[e].runtime
        b  == r % BUCKETS
    IN  /\ thr[e].pc = "relock"
        /\ ~cpr_stop_callout
        /\ cs_bucket' = [cs_bucket EXCEPT ![b] = @ \ {cp}]
        /\ cs_freelist' = cs_freelist \cup {cp}
        /\ client' = WakeCancellers(cp)
        /\ cs_runtime' = IF Due(r) # {} THEN cs_runtime ELSE ResumeAt(r)
        /\ RunOrPark(e, ResumeAt(r), Freed(cp))
        /\ UNCHANGED <<world, cs_curtime, unsafe_driver>>
------------------------------------------------------------------------------
(* Checkpoint and resume: callout_cpr_callb() *)

\* The first assignment of callout_save(), outside cs_lock.
CprStop ==
    /\ CPR
    /\ cpr = "up"
    /\ cpr' = "stopping"
    /\ cpr_stop_callout' = TRUE
    /\ UNCHANGED <<realtime, lbolt, clock, table, softcall, ocs, unsafe_driver,
                   thr, client, ran>>

\* "cp->c_xid | CALLOUT_EXECUTING" is not zero: one of its operands never is.
SaveSkips(cp) == callout[cp].id # None \/ TRUE

CalloutSave ==
    /\ cpr = "stopping"
    /\ cpr' = "saved"
    /\ ocs' = [bucket |-> [b \in Buckets |->
                              {cp \in cs_bucket[b] : ~SaveSkips(cp)}],
               runtime |-> cs_runtime]
    /\ cs_bucket' = [b \in Buckets |-> {cp \in cs_bucket[b] : SaveSkips(cp)}]
    /\ UNCHANGED <<realtime, lbolt, clock, cs_curtime, cs_runtime, cs_freelist,
                   callout, softcall, cpr_stop_callout, unsafe_driver, thr,
                   client, ran>>

\* callout_restore() of the normal table clears the flag that both share
\* before callout_restore() of the realtime table runs.
OtherRestore ==
    /\ realtime
    /\ cpr = "saved"
    /\ cpr' = "resuming"
    /\ cpr_stop_callout' = FALSE
    /\ UNCHANGED <<realtime, lbolt, clock, table, softcall, ocs, unsafe_driver,
                   thr, client, ran>>

CalloutRestore ==
    /\ cpr = IF realtime THEN "resuming" ELSE "saved"
    /\ cpr' = "up"
    /\ cs_bucket' = [b \in Buckets |-> cs_bucket[b] \cup ocs.bucket[b]]
    /\ cs_runtime' = ocs.runtime
    /\ cpr_stop_callout' = FALSE
    /\ ocs' = NoSave
    /\ thr' = [e \in Threads |->
                  IF e \in PoolSleepers THEN Awakened(e) ELSE thr[e]]
    /\ UNCHANGED <<realtime, lbolt, clock, cs_curtime, cs_freelist, callout,
                   softcall, unsafe_driver, client, ran>>
------------------------------------------------------------------------------
ClientStep(c) ==
    \/ EnterDriver(c) \/ LeaveDriver(c) \/ Forget(c)
    \/ \E delta \in Deltas : Timeout(c, delta)
    \/ UntimeoutGone(c) \/ UntimeoutPending(c) \/ UntimeoutExecuting(c)
    \/ Recheck(c) \/ Reenter(c) \/ SpuriousSetrun(c)

ThreadStep(e) ==
    \/ BackToSleep(e) \/ CalloutThread(e) \/ Softint(e) \/ RealtimeTimein(e)
    \/ EnterUnsafe(e) \/ NestedUntimeout(e) \/ FuncReturn(e) \/ Pig(e)
    \/ CprSleep(e) \/ Finish(e)

Next ==
    \/ \E c \in Clients : ClientStep(c)
    \/ \E e \in Threads : ThreadStep(e)
    \/ ClockTick \/ CalloutSchedule
    \/ CprStop \/ CalloutSave \/ OtherRestore \/ CalloutRestore

Spec == Init /\ [][Next]_vars

\* Kernel threads that can run do run, the clock keeps ticking, functions
\* other than pigs return and a checkpoint that began is resumed.
Fairness ==
    /\ WF_vars(ClockTick) /\ WF_vars(CalloutSchedule)
    /\ WF_vars(CalloutSave) /\ WF_vars(OtherRestore) /\ WF_vars(CalloutRestore)
    /\ \A e \in Threads :
          /\ WF_vars(BackToSleep(e)) /\ WF_vars(CalloutThread(e))
          /\ WF_vars(Softint(e)) /\ WF_vars(RealtimeTimein(e))
          /\ WF_vars(FuncReturn(e)) /\ WF_vars(CprSleep(e)) /\ WF_vars(Finish(e))
    /\ \A c \in Clients : WF_vars(Recheck(c))

FairSpec == Spec /\ Fairness
------------------------------------------------------------------------------
(* Properties *)

InFlight == {e \in Threads : thr[e].pc \notin {"pool", "signalled"}}

Pending == {cp \in InTable : ~Executing(cp)}

CalloutRec == [id : Ids \cup {None}, flags : SUBSET {"UNSAFE_DRIVER"},
               executor : Threads \cup {None}, runtime : Ticks, due : Ticks]
ThreadRec == [pc : {"pool", "signalled", "unsafe", "func", "nested", "pig",
                    "relock", "cprwait"},
              cp : Callouts \cup {None}, runtime : Ticks]
ClientRec == [pc : {"idle", "c_done", "woken", "reenter"},
              id : Ids \cup {None}, cp : Callouts \cup {None}]

\* The variables have the types callo.h gives them.
TypeOK ==
    /\ realtime \in BOOLEAN
    /\ lbolt \in Ticks
    /\ clock \in {"idle", "bumped"}
    /\ cs_curtime \in Ticks
    /\ cs_runtime \in Ticks
    /\ cs_bucket \in [Buckets -> SUBSET Callouts]
    /\ cs_freelist \in SUBSET Callouts
    /\ callout \in [Callouts -> CalloutRec]
    /\ softcall \in BOOLEAN
    /\ cpr_stop_callout \in BOOLEAN
    /\ cpr \in {"up", "stopping", "saved", "resuming"}
    /\ ocs \in [bucket : [Buckets -> SUBSET Callouts], runtime : Ticks]
    /\ unsafe_driver \in Clients \cup Threads \cup {None}
    /\ thr \in [Threads -> ThreadRec]
    /\ client \in [Clients -> ClientRec]
    /\ ran \in SUBSET Ids

\* A structure is in one bucket or on the free list, never in two places, and
\* a callout marked CALLOUT_EXECUTING is being run by exactly one thread, which
\* will retire it from the bucket it is in (callout_execute() rediscovers prev).
Ownership ==
    /\ \A b1, b2 \in Buckets : b1 # b2 => cs_bucket[b1] \cap cs_bucket[b2] = {}
    /\ cs_freelist \cap InTable = {}
    /\ \A e \in InFlight :
          /\ thr[e].cp \in cs_bucket[thr[e].runtime % BUCKETS]
          /\ callout[thr[e].cp].executor = e
    /\ \A cp \in InTable :
          Executing(cp) => \E e \in InFlight : thr[e].cp = cp

\* The bookkeeping of ids: an id leads to the bucket its callout is in, no two
\* callouts of the table share one, no two clients hold the same one, and a
\* callout that has yet to run is known to a client.
IdBook ==
    /\ \A b \in Buckets : \A cp \in cs_bucket[b] :
          callout[cp].id \in Ids /\ callout[cp].id[1] = b
    /\ \A cp1, cp2 \in InTable : callout[cp1].id = callout[cp2].id => cp1 = cp2
    /\ \A c1, c2 \in Clients :
          client[c1].id # None /\ client[c1].id = client[c2].id => c1 = c2
    /\ \A cp \in Pending : \E c \in Clients : client[c].id = callout[cp].id

\* An id held by a client is in ran exactly when no callout with it has yet to
\* run.
RanBook ==
    /\ \A id \in ran : \E c \in Clients : client[c].id = id
    /\ \A c \in Clients : client[c].id # None =>
          (client[c].id \in ran
             <=> \A cp \in Pending : callout[cp].id # client[c].id)

\* A client inside untimeout() does not own unsafe_driver, and the callout it
\* cancels, if still in the table, is the one it sleeps on, being executed.
Cancelling ==
    \A c \in Clients : client[c].pc # "idle" =>
       /\ client[c].id # None
       /\ client[c].cp # None
       /\ unsafe_driver # c
       /\ client[c].pc = "reenter" => c \in UnsafeClients
       /\ \A cp \in InTable : callout[cp].id = client[c].id =>
             client[c].pc # "reenter" /\ cp = client[c].cp /\ Executing(cp)

\* A callout is marked CALLOUT_UNSAFE_DRIVER if its client is MT-unsafe.
UnsafeBook ==
    /\ unsafe_driver \in Clients => unsafe_driver \in UnsafeClients
    /\ \A c \in UnsafeClients, cp \in InTable :
          callout[cp].id = client[c].id => Unsafe(cp)

NothingSaved == \A b \in Buckets : ocs.bucket[b] = {}

\* The inductive invariant from which the safety properties are proved.
IInv ==
    /\ TypeOK /\ Ownership /\ IdBook /\ RanBook /\ Cancelling /\ UnsafeBook
    /\ NothingSaved

\* No callout that still has to run is filed under a tick that cs_runtime has
\* passed, whichever of callout_schedule() and the threads advanced it: such a
\* callout would be scanned again only after lbolt has come round.
NoneLeftBehind ==
    \A cp \in Pending :
       /\ Diff(callout[cp].runtime, cs_runtime) >= 0
       /\ cp \in cs_bucket[callout[cp].runtime % BUCKETS]

\* "The use of lbolt guarantees that lbolt has reached at least the value of
\* current_lbolt + delta when func is called": no function starts early.
NeverEarly ==
    [][\A cp \in Callouts :
          ~Executing(cp) /\ Executing(cp)'
             => Diff(lbolt, callout[cp].due) >= 0]_vars

\* What untimeout() returns tells the caller whether the function was run: a
\* time left if it was not, -1 only if it was.
UntimeoutVerdict ==
    [][\A c \in Clients :
          /\ UntimeoutPending(c) => client[c].id \notin ran
          /\ UntimeoutGone(c) \/ Reenter(c) => client[c].id \in ran
          /\ Recheck(c) => client[c].id \in ran]_vars

\* The DDI requirement quoted in callout_delete(): when untimeout() returns,
\* the function is neither running nor going to run.
UntimeoutBarrier ==
    [][\A c \in Clients :
          client'[c].id # client[c].id /\ ~Forget(c)
             => \A b \in Buckets : \A cp \in cs_bucket'[b] :
                   callout'[cp].id # client[c].id]_vars

\* A canceller never sleeps on a callout whose executor needs the
\* unsafe_driver mutex that the canceller holds.
NoUnsafeDeadlock ==
    \A c \in Clients, e \in Threads :
       ~ /\ client[c].pc \in {"c_done", "woken"}
         /\ thr[e].pc = "unsafe"
         /\ thr[e].cp = client[c].cp
         /\ unsafe_driver = c

\* Once callout_save() has been through cs_lock, no callout of the normal table is
\* taken up, and none retired, until callout_restore(): what is marked
\* CALLOUT_EXECUTING, and by whom, stays as it is.  A function may still start, but
\* only one whose thread had marked it before and was waiting for unsafe_driver.
NormalQuiesces ==
    [][cpr = "saved" /\ ~realtime =>
          /\ \A cp \in InTable : callout'[cp].executor = callout[cp].executor
          /\ \A e \in Threads :
                thr'[e].pc = "func" /\ thr[e].pc # "func"
                   => thr[e].pc = "unsafe" /\ thr'[e].cp = thr[e].cp]_vars

\* Every callout is run or cancelled, even while as many functions as there
\* are threads but one never return ("so the system doesn't constipate when
\* the occasional pig runs"), if checkpoints stop.
EveryCalloutRuns ==
    <>[](~cpr_stop_callout) =>
        \A id \in Ids :
           (\E cp \in Pending : callout[cp].id = id)
              ~> ~(\E cp \in Pending : callout[cp].id = id)

\* untimeout() returns, unless the function it waits for never does.  The
\* function's own setrun() of the sleeper and its untimeout() of itself do not
\* get in the way.
UntimeoutReturns ==
    <>[](~cpr_stop_callout) =>
        \A c \in Clients :
           client[c].pc # "idle"
             ~> \/ client[c].pc = "idle"
                \/ \E e \in Threads : thr[e].pc = "pig" /\ thr[e].cp = client[c].cp

\* The comment in callout_save(): a callout that is not executing is removed
\* from the table and added to the save table.
SaveEmptiesTable ==
    [][CalloutSave => \A b \in Buckets : \A cp \in cs_bucket'[b] :
                         Executing(cp)]_vars
==============================================================================
