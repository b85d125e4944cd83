# TLA+ models of the Solaris 2.6 kernel's timing, blocking and table code

The kernel under `usr/src/uts` is too large for one model. This project models
the part that everything else in the kernel rests on and that is hardest to
test: the code that blocks threads, wakes them and calls functions later, and
the reference-counted tables that many threads use at once. It does so module by
module, with TLC checking small instances and TLAPS proving the central results
for every instance.

All paths below are relative to `src/usr/src/uts`.

## 1. Inventory

| Part | State | Operations | Hard behaviour | Module |
|---|---|---|---|---|
| Callout tables, `common/os/callout.c`, `common/sys/callo.h` | buckets of callouts, free list, `cs_curtime`, `cs_runtime`, id counters, stop flag for checkpoints | `timeout`, `realtime_timeout`, `untimeout`, `callout_schedule`, `callout_execute`, `callout_save`, `callout_restore` | the lock is dropped around each function; cancel races execute; `lbolt` and ids wrap; two threads share a tick; checkpoint at any moment | `Callout`, `CalloutSpec`, `CalloutRefine`, `CalloutId` |
| Soft calls, `common/os/softint.c`; level-1 interrupt, `sun4u/os/intr.c`, `sun4u/io/autoconf.c`, `sun4u/ml/interrupt.s` | queue of requests, `siron_pending`, `iv_pending` | `softcall`, `softint`, `siron`, `setsoftint`, `softlevel1` | flags tested and set without a lock on several processors; coalescing | `SoftInt` |
| Semaphores, `common/os/semaphore.c` | `s_count`, `s_slpq` | `sema_p`, `sema_p_sig`, `sema_tryp`, `sema_v`, `sema_unsleep`, `sema_changepri` | signals race wake-ups; direct hand-off against re-test | `Semaphore`, `SemaphoreSpec` |
| Sleep queues, `common/os/sleepq.c` | threads in priority order | insert, dequeue, wake by channel | priority order with arrivals of equal priority; two channels in one queue | `SleepQ`, `CondVar` |
| Condition variables, `common/os/condvar.c` | `cv_waiters`, sleep queue by channel | `cv_wait`, `cv_timedwait`, `_sig` forms, `cv_signal`, `cv_broadcast`, `cv_unsleep`, `cv_changepri` | `cv_waiters` tested without a lock; timeout, signal and wake-up race | `CondVar` |
| Readers/writer locks, `sparc/os/rwlock.c` | `holdcnt`, `writewanted`, owner of record, turnstile | enter, exit, try, upgrade, downgrade | two locks protect one object; hand-over to writers, empty turnstiles | `RWLock` |
| Mutexes, `sparc/v9/ml/lock_prim.s`, `sparc/os/mutex.c` | owner word, `m_waiters` | `mutex_enter`, `mutex_exit`, `mutex_adaptive_enter`, `mutex_adaptive_release` | exit reads two words in two accesses; the turnstile may belong to another mutex by the time it is locked | `Mutex` |
| Turnstiles and priority inheritance, `common/os/turnstile.c`, `prioinherit.c`, `pirec.c` | pool, waiters, inherited priorities | alloc, free, `pi_willto`, `pi_waive`, `pi_amend`, `pi_changepri` | chains of blocked threads that change while they are walked | `Mutex`, `RWLock` |
| Page cache, `common/vm/page_lock.c`, `common/vm/vm_page.c` | `p_selock`, identities, hash chains | lock, unlock, upgrade, downgrade, lookup, create, rename, destroy, free, reclaim | the hash chain is searched without a lock; identity of a page changes while a thread waits for it | `PageCache` |
| Descriptor table, `common/os/fio.c`, `common/syscall/{close,dup,fcntl}.c` | `u_flist`, reference counts, flags | `getf`, `releasef`, `getandset`, `ufalloc`, `dupdest`, growth, fork, exec | close against use; one condition variable for all closers | `Fio` |
| Process ids, `common/os/{pid,pgrp,session}.c` with `fork.c`, `exit.c` | hash, `procdir`, reference counts | assign, exit, `setpgid`, `setsid`, `proc_ref`, `proc_signal`, `proc_unref` | use without `pidlock`; numbers held by groups and sessions | `Pid` |
| Resource maps, `common/os/rmap.c` | sorted free pieces | `rmalloc`, `rmalloc_wait`, `rmget`, `rmfree` | coalescing, overflow of the map with the lock dropped | `Rmap` |
| Clock, dispatcher, signals, `kmem`, STREAMS, file systems, networking, other VM, commands | | | | no: see section 7 |

How the parts interact: `clock()` advances `lbolt` and calls
`callout_schedule()` for both tables. The normal table is executed by two
callout threads, the realtime table by `softcall(realtime_timein)`, that is by
the level-1 soft interrupt. `cv_timedwait()` is the main user of the realtime
table, with `setrun()` as its callout function. Semaphores, condition variables
and turnstiles all keep threads on queues in dispatch priority order. Mutexes and
readers/writer locks share turnstiles and priority inheritance. An
MT-unsafe driver holds `unsafe_driver` whenever it runs, and callouts, soft
calls and semaphores each have to give it up or take it for the driver.

What correctness means here: no callout is lost, run early, run twice or run
after `untimeout()` has returned; no soft call is lost; no lock grants more than
it has, and nobody sleeps next to what it waits for; a priority that was lent is
given back; a count in a table is the number of references there are, and what a
caller holds stays what it asked for.

## 2. Composition

Interfaces carry the composition, not one product of all components.

- `CalloutSpec` is the timer service as its callers see it: timers that are set,
  run, cancelled. `CalloutRefine` maps `Callout` to it, and `CondVar` is composed
  with `CalloutSpec` in place of the table: `cv_timedwait()` uses its `Set` and
  `Cancel`, and its `Start` is the `setrun()` of the waiter. So the races of
  `cv_timedwait()` with the clock are checked against a timer service that the
  table implements, at a fraction of the states.
- `SemaphoreSpec` is the semaphore that its users may rely on; `Semaphore` is
  shown to implement it.
- `RWLock` and `Mutex` contain the turnstiles and the priority inheritance that they
  use, since the hazards are in how a lock and a turnstile that are protected by
  different locks are changed together.

Components without shared state are checked in one run: `MCSync`, `MCTables` and
`MCLive` have the variables of several modules and a variable `part` that says
which of them the behaviour is about. Each of them extends one module (`MCSync`
`SoftInt`, `MCTables` `PageCache`, `MCLive` `Semaphore`), whose variables keep their
initial values in the other parts, and checks the properties of that module as they
are stated and proved there. The other modules are instances; their variables are
`None` in the parts that are not theirs, and their properties are guarded by `part`.

## 3. Modules

Code between the acquisition and the release of a lock is one action, because
all other code that touches the same state takes the same lock. Where the code
drops a lock and goes on later, or reads without a lock, the model has a program
counter.

**`Callout`** is one callout table; `realtime` says whether it is the normal or the
realtime one. They differ in who executes them.

| Model | Code |
|---|---|
| `cs_bucket`, `cs_freelist`, `callout`, `cs_curtime`, `cs_runtime` | the fields of `callout_state_t`; a bucket is a set: the code runs the callouts of a tick in list order, the model in any order |
| `thr[e]` | a callout thread or the interrupt thread in `callout_execute()`: `pool` asleep, `signalled`, `unsafe` before `mutex_enter(&unsafe_driver)`, `func` or `nested` in the function, `pig` in one that never returns, `relock` before `mutex_enter(&cs_lock)`, `cprwait` asleep during a checkpoint |
| `client[c]` | a caller of `timeout()`/`untimeout()`, with the id it holds: `c_done` asleep in `callout_delete()`, `woken`, `reenter` before it takes `unsafe_driver` back |
| `Timeout` | `callout_insert()` |
| `UntimeoutGone`, `UntimeoutPending`, `UntimeoutExecuting`, `Recheck`, `Reenter`, `NestedUntimeout` | the paths through `callout_delete()` |
| `ClockTick`, `CalloutSchedule` | `lbolt++`; `callout_schedule()` |
| `CalloutThread`, `RealtimeTimein`, `EnterUnsafe`, `FuncReturn`, `CprSleep`, `Finish` | `callout_execute()` |
| `CprStop`, `CalloutSave`, `OtherRestore`, `CalloutRestore` | `callout_cpr_callb()` |

`lbolt` and the times derived from it are modulo `TIME` and are compared by
signed difference, as the code does with `clock_t`. `ran` and the field `due` are
history variables used by properties only.

**`CalloutSpec`** has a timer per client: `off`, `set` for a tick, `run`, `done`.
**`CalloutRefine`** finds it in the table by the id that the client holds.

**`CalloutId`** is the arithmetic on ids. `Callout` takes an id to be a bucket
and some value that no live callout has; `CalloutId` shows that the counters of
`callout_insert()` provide such values under the assertion of `callo.h`. That
assertion is a guard of `Insert`. It has to cover one tick more than
`CALLOUT_LONGTERM_TICKS`, plus the time by which callouts run late: with a
`Window` one less than in `MCTables.cfg`, TLC finds an id in use twice.

**`SoftInt`** has the processors' handlers (`handler`), the callers inside
`softcall()` or `kpreempt()` (`caller`), and the interrupt flags. `softcall_lock`
is explicit because `softcall()` holds it across `siron()`, whose flags are not
under that lock. Only sun4u is modelled; other platforms have their own
`siron()`.

**`Semaphore`** has a program counter per thread. A thread that put itself on
`s_slpq` counts as asleep before it reaches `swtch()`, as in the code.
`t_pri` is the dispatch priority, `DISP_PRIO()`. `units` is a history variable.
**`SleepQ`** has the queue operators that semaphores, condition variables and locks
share, and `SleepQLaws` what their proofs use of them.

**`CondVar`** is the condition variables of one `sqhash()` bucket, with the mutex
`mp` of their callers. Waiters test a condition under `mp`, wait while it is false
and test it again; wakers make it true under `mp` and call `cv_signal()` or
`cv_broadcast()` after they have dropped it, so that the unlocked test of
`cv_waiters` is exposed. `waiter[t]` holds the absolute time `tim` of a timed wait
and what it will return.

**`RWLock`** is a lock of type `RW_SLEEP`. `holdcnt`, `writewanted` and `owner` change
under the hashed mutex `mp`, the turnstile under `rw_wlock`; a stretch under either
is an action, so that `rw_exit()` and the blocking path of `rw_enter()` are several.

**`Mutex`** has the owner word and `m_waiters` of each mutex and the pool of
turnstiles. `mutex_exit()` is two accesses, `mutex_adaptive_enter()` sets the waiters
field and looks at the owner again, and a thread may lock a turnstile that has gone to
another mutex since its id was read. `PiWillto` follows the chain of blocked threads.
Threads take mutexes in ascending order.

**`PageCache`** has the shared/exclusive lock `p_selock` of each page and the identity
`[vp, off]` (`p_vnode`, a member of `Keys`) with its hash mutex `phm`. `hashed` says
whether a page is on its chain: `page_hashin()` and `page_hashout()` change chain and
identity at different moments, and the first search of a lookup sees the chain without
a lock. `th[t]` is where a call is, which page it found and how it holds it.

**`Fio`** is the descriptor table of a process with several lwps: `u_flist` with the
flags of each slot, `f_count` of each file structure, and the lwps between `getf()` and
`releasef()`. `child` is the copy a fork has made.

**`Pid`** has the pid structures in the hash table with their reference counts, the
`/proc` slots, the processes with their groups and sessions, and drivers that use
`proc_ref()`, `proc_signal()` and `proc_unref()`. **`Rmap`** is one map as a sequence of
pieces.

Operators whose comment begins with "Mutant" change one definition the way a
plausible bug would; each breaks the property it is paired with in
`PROJECT.json`. They are not used by any specification.

## 4. Runs

| Run | Instance | Shows |
|---|---|---|
| `callout` | both tables: 2 callers (1 MT-unsafe, which uses the normal table only), 2 threads, 2 structures, checkpoints, `TIME` 8 | `IInv`, `NoneLeftBehind`, `NeverEarly`, `UntimeoutVerdict`, `UntimeoutBarrier`, `NoUnsafeDeadlock`; `NormalQuiesces`: between save and restore no callout of the normal table is taken up or retired |
| `callout_live` | normal table: 1 caller, 2 threads, one function that never returns | `EveryCalloutRuns`, `UntimeoutReturns`, and `Implements`: the table implements `CalloutSpec` |
| `sync` | soft calls: 2 processors, 2 callers, 2 functions, 2 structures; a semaphore: 3 threads, 2 of which use `sema_p_sig()` and one of which is MT-unsafe, 0 to 2 units; timed waits: 2 threads, 1 waker, `TIME` 5; 2 condition variables in one sleep queue: 3 threads; a readers/writer lock: 4 threads; 2 mutexes: 3 threads, 2 turnstiles | soft calls are served (`RequestsServed`, `NeverTooMany`, `NoRequestLost`); the semaphore's queue, count and grants (`SemaSound`); `CvCountsExact`, `CvNoMissedWakeup`, `CvNoStaleSetrun`, `CvNeverEarly`, `CvWakesBest`; `RwLockSound`, `RwTurnstileSound`, `RwWriterInherits`; `MutexNoneStranded`, `MutexTurnstilesSound` |
| `tables` | callout ids: counters of 2 values, 2 buckets of one table or of two; descriptors: 3 lwps, 2 files, a table that grows from 1 to 2, with `dup2()` or with fork and exec; page cache: 3 threads, 2 pages, 2 identities; 3 processes, 4 pids, a driver; a map of 6 units and 2 entries | `SelockExact`, `IdentityUnique`, `HeldPageStable`, `SleeperSound` (page cache); `CalloutFound`, `FileNotFreed`, `FdCountsExact`, `PidTableExact`, `MapSound`, `WaitersSound`, `LostOnlyOnOverflow` |
| `live` | one small instance each of semaphore, soft calls, timed wait, readers/writer lock and descriptor table | `Implements` (refinement of `SemaphoreSpec`), `LockServed`, `CallEnds` |

`SyncTypeOK` and `TablesTypeOK` are the types of the variables.

Runs that end in a violation, each a disagreement between code and comment:

| Run | What the code does |
|---|---|
| `callout_save` | `callout_save()` saves nothing: it tests `c_xid \| CALLOUT_EXECUTING`, where `&` must have been meant |
| `softint_unsafe` | coalescing drops the wish for `unsafe_driver` of the later request |
| `semaphore_panic` | `sema_v()` panics if it comes between the `setrun()` of an interrupted waiter and that waiter's `s_count++` |
| `semaphore_retry` | a waiter woken in `sema_p_sig()` sleeps again while others wait; all threads end up asleep with the unit free, without any signal |
| `fio_wakeup` | with two lwps in `close()` of different descriptors, `releasef()` wakes the wrong one, and the other sleeps on although its descriptor is idle |
| `mutex_priority` | a thread that takes a mutex between its release and the wake-up inherits a priority that is recorded under the previous owner, and keeps it |
| `pid_signal` | `proc_signal()` reads the pid structure and the `/proc` slot without `pidlock`: the signal goes to another process if the first one exits in between |

Because of the first of these, callouts stay in the table during a checkpoint;
the conjunct `NothingSaved` of `IInv` records it. `NormalQuiesces` holds all the
same, because the callout threads look at `cpr_stop_callout`. It is about callouts
being taken up (marked `CALLOUT_EXECUTING`) and retired, not about every start of a
function: a thread that has marked the callout of an MT-unsafe driver before
`callout_save()` got `cs_lock`, and waits for `unsafe_driver` (`callout.c:357`), calls
the function when it gets the mutex, saved or not. That is the only kind of start the
property allows. It is about the normal table only: `callout_restore()` of the
normal table clears the flag for both.

What the passing runs leave out on purpose, because the code does not promise it:
`FdCountsExact` requires of `dup2()` the counts of the slots only, not `f_count`: when
`dup2()` fills a slot that an `open()` has reserved, the `open()` overwrites it, and the
file stays open without a descriptor (with `dup2()` it is `FileNotFreed` that holds);
`WaitersSound` has one lwp in `close()` at a time (see `fio_wakeup`); one lwp calls
`dup2()`, and one thread `page_rename()`, since two that cross wait for each other.

`MutexTurnstilesSound` is about who is on record as the beneficiary of a turnstile, not
about priorities: that a thread which has released its mutexes is back at its own
priority is `PriorityReturned`, which `mutex_priority` refutes. In `RWLock` the
beneficiary on record is the thread that runs at the priority, since the owner of record
changes only under `mp`.

`RwWriterInherits` says that a writer which keeps a reader of higher priority waiting
runs above its own priority. It does not say that it runs at the reader's priority, as
the comment of `pi_inheritfrom()` (`prioinherit.c:214`, "equal to the maximum dispatch
priority of all the threads waiting") suggests. If a thread goes to sleep
between the writer's taking the lock and its `pi_amend()`, the sleeper makes the writer
the beneficiary with the sleeper's own priority, and `pi_amend()` returns because the
beneficiary is right (`prioinherit.c:381`), although a reader that slept before has a
higher priority. It takes three priorities to see that; with the two of the run, both
statements are the same.

**Bounds.** Two callers, two executing threads and two structures are the least
with which a cancel can race an execution while another callout is due in the
same bucket or in the other one. `MaxLag` stands for the 2^31 ticks by which a
scan may be behind `lbolt` before signed comparison fails; with 1 a scan crosses
a tick boundary. `TIME` is large enough for `Diff` to order all ticks that occur
together, and `lbolt` wraps many times. In `callout` a checkpoint begins at tick 0
(`CprAtZero`): adding a constant to all times maps behaviours to behaviours, so every
state in which one may begin has its copy at tick 0. `MaxPigs` is 1 in `callout_live`,
one less than the number of threads, and 0 elsewhere. `MinUnits` and `MaxUnits` bound
the units of a semaphore. In `CalloutId` times are relative to `lbolt`, so time is not
bounded.

For locks, three threads are an owner, a waiter and one that comes in between; the
readers/writer lock has a fourth, so that two readers and two writers meet. Two pages
and two identities are the least with which a page can be renamed, or reused under
another identity, while somebody waits for it. Three processes of which one never exits
make a leader, a member that outlives it, and a parent; four pids (five in
`pid_signal`) are few enough for numbers to come round while groups and sessions still
hold them. `MaxCount` bounds the references that `dup()` makes. A map with two entries overflows at the third piece, and
six units leave room for three pieces apart from each other. Two mutexes are in need of
two turnstiles at most.

Structures, threads, functions and processors are symmetric where nothing orders them;
symmetry is not used in runs with liveness properties. In `MCSync` and `MCTables` some
model values play several parts (a processor in one part is a condition variable in
another), so that one small group of permutations serves all. **Deadlock** is checked in every
run.

**Fairness.** Weak fairness of the clock, of threads that can run and of
functions that return stands for the dispatcher and for functions that end. Strong
fairness stands for the acquisition of a lock that becomes free again and again:
`softcall_lock` by a handler, `unsafe_driver` by an interrupt thread, by a driver
or by a thread that comes back from a semaphore, `mp` by a waiter of a condition
variable or a readers/writer lock. A driver inside `unsafe_driver` leaves it in the end,
an owner of a unit or of a lock puts it back, and a system call between `getf()` and
`releasef()` ends. Nothing is assumed about callers that make requests, nor about
signals. `callout_live` has no MT-unsafe caller, so its result does not depend on how
`unsafe_driver` is handed on. In `MCLive` the fair actions of the five parts are joined
by disjunction. That is no weaker: in a behaviour of one part only its disjunct is ever
enabled or taken.

## 5. Proofs

TLAPS checks the proofs of seven modules. All theorems are about the same
specifications that the runs check, for every value of the constants that the named
assumptions allow. Each rests on an inductive invariant `IInv`, with the same three
steps: `Init => IInv`, `IInv /\ [Next]_vars => IInv'` by one lemma for each action or
kind of action, and `IInv` implies the property.

| Module | Theorems | For |
|---|---|---|
| `CalloutProofs` (with `CalloutSteps`) | `Invariance` (`IInv`), `TypeCorrect`, `OwnershipHolds`, `UnsafeDeadlockFree` (`NoUnsafeDeadlock`), `VerdictHolds` (`UntimeoutVerdict`), `BarrierHolds` (`UntimeoutBarrier`), `QuiescenceHolds` (`NormalQuiesces`), `Refinement` (`Implements`) | any callers, threads, structures, any number of buckets that divides `TIME`, either table, with or without checkpoints |
| `SoftIntProofs` | `SoftcallNeverStranded` (`RequestsServed`, `NoRequestLost`), `SoftcallQueuedOnce` (`NeverTooMany`) | any processors, callers, functions and structures |
| `PageCacheProofs` | `LocksAndIdentities` (`SelockExact`, `IdentityUnique`), `HeldPageKept` (`HeldPageStable`), `SleeperKept` (`SleeperSound`) | finitely many threads, any of which may rename; any pages and identities |
| `SemaphoreProofs` | `TypesKept`, `SemaphoreSafe` (`QueueOK`, `CountAccurate`, `NeverOvergranted`), `SemaphoreRefinement` (`Implements`), `NoPanic` | finitely many threads, any priorities and bounds; the last two if no thread calls `sema_p_sig()` |
| `RWLockProofs` | `LockSound` (`HoldcntExact`, `NoneStranded`), `TurnstileSound` (`TurnstileReturned`, `PirecReturned`), `WritersInherit` (`WriterInherits`) | finitely many readers and writers, any positive priorities (`RwAssumption`) |
| `SleepQProofs` | `FiniteLawsHold`, `QueueLawsHold` | any set of threads, queues of any length |

**Callout.** `Ownership` is not inductive by itself. That `callout_delete()` removes
the right structure depends on ids (`IdBook`): an id names the bucket its callout is
in, no two callouts share one and no two callers hold the same. That a caller asleep in
`untimeout()` waits for the right structure is `Cancelling`. That a verdict is
right depends on `RanBook`, which ties the history of started functions to the
callouts that have yet to run. `UnsafeBook` says that callouts of MT-unsafe callers
are marked. Their conjunction with `TypeOK` and `NothingSaved` is `IInv`.

`CalloutSteps` first shows that every action keeps the types (`ClientTypes`,
`ThreadTypes`, `OtherTypes`). Then it sorts the actions by what they do to the
table, with one lemma for each kind: `Quiet` (table, callers and callouts in flight
unchanged), `SleepStep` (a caller moves inside `untimeout()`), `DropStep` (a caller
gives up its id), `InsertStep`, `CancelStep`, and `ExecStep` (a thread retires a
callout and takes the next). `NextInv` puts them together. The scans of
`callout_schedule()` and `callout_execute()` enter only through `ScanType`, that
they stop at a tick in range; it needs that a set of natural numbers has a least
element (`LeastNumber`, proved in `CalloutProofs`). The verdict and the barrier rest on
`GoneFromTable` (when `untimeout()` gives up, the id is not in the table), the barrier
also on `WhoDropsIds` (only `timeout()`, `untimeout()` and `Forget` change the id that a
caller holds).

`Refinement` maps each client to its timer by the id it holds. Most steps leave every
timer as it is (`TimersKept`); of the others each sets, starts, ends or cancels one
(`OneStep`). Besides `Inv` it needs `Scheduled`: when the clock is idle, `cs_curtime`
has caught up with `lbolt`.

`QuiescenceHolds` needs besides `Inv` that the flag of the normal table is up from
`callout_save()` to `callout_restore()` (`Stopped`). With the flag up, only `timeout()`
and `untimeout()` of a callout that nobody executes write to structures
(`ExecutorsKept`), and only the acquisition of `unsafe_driver` leads to a function
(`StartsKept`).

**SoftInt.** `siron_pending` is read and written without a lock, and `iv_pending`
belongs to the interrupt code, so that a queue which is not empty is known to be served
only by a chain of facts: the flag `siron_pending` has a processor behind it that is
about to post the interrupt or to run the handler (`PendingBacked`), `iv_pending`
has a posted interrupt (`PostedBacked`), and a queue that nobody serves yet belongs to a
caller that still has `softcall_lock` and is on its way through `siron()` (`LockHeld`,
`QueueServed`).

**PageCache.** The invariant says of each thread what it knows of the page it found and
of the page it brought with it (`Good`), at each place where it may be; that a page with
an identity is on its chain, unless the thread that takes the identity away is between
the two halves of `page_hashout()` (`Chained`); and the properties themselves. The
argument is rely/guarantee: a step of a thread changes only pages that it holds
exclusively or that nobody holds, and takes a page off a chain only when nobody else has
the hash mutex of the identity, so that what the other threads know stays true. What
is left of each lemma is what the step does for its own thread.

**Semaphore.** `IInv` is the three properties with the types and `OwnStates` (a thread
in `sema_p_sig()` never sleeps in the states of `sema_p()`). The range of `s_count` is a
consequence (`TypesKept`). It holds with signals at any moment. The refinement
needs more, which signals break: `QueueLength`, that as many threads are asleep as
`s_count` is negative. The two runs `semaphore_panic` and `semaphore_retry` show what
goes wrong without it, and `NoPanic` that nothing else leads to that panic.

**RWLock.** Besides the properties, `IInv` says who holds `mp` (`MutexHeld`), that
`writewanted` counts the writers that want the lock (`WantExact`), that the queues
are in order and have exactly the sleepers (`Queues`), that a reader which leaves other
readers asleep knows of a writer or of a `rw_downgrade()` that has yet to wake them
(`ReadersWarned`), and who the owner of record and the beneficiary are
(`OwnerRecorded`, `PirecSound`, `Inherits`). `NoneStranded` is the point: a release
under `mp` and a decision to sleep under `rw_wlock` are ordered by nothing but the
second look that `rw_enter()` takes. The theorems state `RwAssumption` as a hypothesis.

**SleepQ.** `sleepq_insert()` and `sleepq_dequeue()` add or take exactly one thread and
keep the order, and the first thread has the highest priority. `Place`, the loop of
`sleepq_insert()`, is a cardinality, so that no induction over queues is needed.

## 6. Only model-checked

- Liveness (`EveryCalloutRuns`, `UntimeoutReturns`, `LockServed`, `CallEnds`):
  fairness and `ENABLED` are outside the proof system.
- Of `Callout`, `NoneLeftBehind` and `NeverEarly`. They compare ticks around the wrap
  of `lbolt` over all callouts of a scan; what the scan finds is a minimum over an interval modulo `TIME`.
- `CalloutId`, `CondVar`, `Mutex`, `Fio`, `Pid` and `Rmap`: no proofs. `PiWillto`
  of `Mutex` is a recursive function along a chain of threads, and the counts of
  `Pid` and the pieces of `Rmap` would need induction over data, which is outside the
  proof system as well; the rest has not been attempted.
- The guards with `part` in `MCSync`: `SemaSound`, `RwLockSound`, `RwTurnstileSound`
  and `RwWriterInherits` are what `SemaphoreProofs` and `RWLockProofs` prove of the
  instantiated modules; the theorems are about the modules.

## 7. Not modelled

- In `callout.c`: the statistics (`cs_ncallout`, `cs_busyticks`), tracing, and the
  panic when no memory is left. In `semaphore.c`: accounting and the scheduling
  class hooks. `sema_p_sig()` under `unsafe_driver`, which it does not give up, is
  listed as a hazard. So is its missing wake-up: a waiter that `sema_v()` has woken
  and that is then interrupted does not pass the unit on.
- `pi_willto()` walks the chain of owners hand over hand under their thread locks;
  `PiWillto` of `Mutex` does it in one step, so a chain that changes while it is
  walked is not covered. `Look` reads the owner and `m_waiters` in one step; both are
  looked at again before the thread sleeps.
- In `condvar.c`: `schedctl_block()` and the early returns when the system has
  panicked. In `vm_page.c`: the check for a duplicate inside `page_hashin()`, without
  which `IdentityUnique` is the stronger claim, and the tunable `nopagereclaim`.
- In `fio.c` and `fcntl.c`: a limit on descriptors that is lowered later, and
  descriptor flags other than `FCLOSEXEC`. `BumpFcnts` has the other lwps outside
  system calls, while `fork1()` may stop them in the middle of one; the counts are
  the same. In `pid.c`, `GetprocBad` and `PidExit` each join two sections under
  `pidlinklock`.
- In `CalloutId` the clamp of a late request to the next tick is left out (it is in
  `Callout`), and long-term ids are chosen by the length of the request, with
  `cs_curtime` equal to `lbolt`.
- Clock adjustment and accounting, the dispatcher and the signal code appear only
  through what the modelled code sees of them.
- `kmem`, STREAMS, file systems, networking and virtual memory are each larger
  than the core. The commands and libraries are outside the kernel.
