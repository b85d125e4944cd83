------------------------------- MODULE SoftInt -------------------------------
(***************************************************************************)
(* Soft calls (uts/common/os/softint.c) and the level-1 soft interrupt     *)
(* that serves them on sun4u (siron() of os/intr.c, softlevel1() of        *)
(* io/autoconf.c).  A pair of a function and its argument is a Func.       *)
(*                                                                         *)
(* softcall_lock covers an action each of softcall() and softint(), except *)
(* that softcall() holds it across siron(), whose tests and stores are     *)
(* actions of their own: siron_pending and the iv_pending flag of          *)
(* setsoftint() have no lock.                                              *)
(*                                                                         *)
(* The interrupt is registered with no mutex (add_softintr(PIL_1,          *)
(* softlevel1, 0, 0)), so softlevel1() never finds unsafe_driver held.     *)
(***************************************************************************)
EXTENDS Integers, Sequences, FiniteSets

CONSTANTS Cpus,           \* processors that take level-1 interrupts
          Callers,        \* threads that call softcall(), and kpreempt()
          UnsafeCallers,  \* those of them that run under unsafe_driver
          Funcs,          \* functions with their arguments
          NSOFTCALLS,     \* softcall structures
          None

ASSUME SoftAssumption ==
    /\ UnsafeCallers \subseteq Callers
    /\ Callers \cap Cpus = {}
    /\ None \notin Callers \cup Cpus \cup Funcs
    /\ NSOFTCALLS \in Nat \ {0}

VARIABLES softhead,       \* the queue of requests
          softcall_lock,  \* its owner
          siron_pending,  \* the flag of siron()
          iv_pending,     \* the flag of setsoftint()
          soft,           \* processors with a soft interrupt posted
          handler,        \* what softlevel1() is doing on each processor
          caller,         \* where each caller is
          unsafe_driver,  \* owner of the MT-unsafe driver mutex
          panicstr,       \* "too many softcalls"
          owed,           \* history: requested and not called since
          owedUnsafe      \* history: those requested under unsafe_driver

queueVars == <<softhead, softcall_lock, panicstr>>
intrVars == <<siron_pending, iv_pending, soft>>
ghosts == <<owed, owedUnsafe>>
vars == <<queueVars, intrVars, handler, caller, unsafe_driver, ghosts>>

Away == [pc |-> "none", func |-> None]

\* softcall_init()
Init ==
    /\ softhead = <<>>
    /\ softcall_lock = None
    /\ siron_pending = FALSE
    /\ iv_pending = FALSE
    /\ soft = {}
    /\ handler = [p \in Cpus |-> Away]
    /\ caller = [c \in Callers |-> "idle"]
    /\ unsafe_driver = None
    /\ panicstr = FALSE
    /\ owed = {}
    /\ owedUnsafe = {}

\* Mutant: softcall() does not look for an identical request.
NeverQueued(f) == FALSE

\* softcall(): the search of the queue for the same function and argument.
Queued(f) == \E i \in DOMAIN softhead : softhead[i].func = f

\* An MT-unsafe driver runs with unsafe_driver held.
EnterDriver(c) ==
    /\ c \in UnsafeCallers
    /\ caller[c] = "idle"
    /\ unsafe_driver = None
    /\ unsafe_driver' = c
    /\ UNCHANGED <<queueVars, intrVars, handler, caller, ghosts>>

LeaveDriver(c) ==
    /\ caller[c] = "idle"
    /\ unsafe_driver = c
    /\ unsafe_driver' = None
    /\ UNCHANGED <<queueVars, intrVars, handler, caller, ghosts>>

\* The request is remembered, and whether it asks for unsafe_driver.
Owe(c, f) ==
    /\ owed' = owed \cup {f}
    /\ owedUnsafe' = IF unsafe_driver = c THEN owedUnsafe \cup {f} ELSE owedUnsafe

\* Mutant: a request is dropped as well when the function is being called.
CoalesceWithRunning(c, f) ==
    /\ caller[c] = "idle"
    /\ softcall_lock = None
    /\ Queued(f) \/ \E p \in Cpus : handler[p].func = f
    /\ Owe(c, f)
    /\ UNCHANGED <<queueVars, intrVars, handler, caller, unsafe_driver>>

\* softcall(): the request is queued already.
SoftcallCoalesced(c, f) ==
    /\ caller[c] = "idle"
    /\ softcall_lock = None
    /\ Queued(f)
    /\ Owe(c, f)
    /\ UNCHANGED <<queueVars, intrVars, handler, caller, unsafe_driver>>

\* softcall(): append it, and call siron() if the queue was empty.
Softcall(c, f) ==
    /\ caller[c] = "idle"
    /\ softcall_lock = None
    /\ ~Queued(f)
    /\ Len(softhead) < NSOFTCALLS
    /\ softhead' = Append(softhead, [func |-> f, mutex |-> unsafe_driver = c])
    /\ IF softhead = <<>>
       THEN softcall_lock' = c /\ caller' = [caller EXCEPT ![c] = "test"]
       ELSE UNCHANGED <<softcall_lock, caller>>
    /\ Owe(c, f)
    /\ UNCHANGED <<intrVars, handler, unsafe_driver, panicstr>>

\* softcall(): panic("too many softcalls").
SoftcallPanic(c, f) ==
    /\ caller[c] = "idle"
    /\ softcall_lock = None
    /\ ~panicstr
    /\ ~Queued(f)
    /\ Len(softhead) = NSOFTCALLS
    /\ panicstr' = TRUE
    /\ UNCHANGED <<softhead, softcall_lock, intrVars, handler, caller,
                   unsafe_driver, ghosts>>

\* kpreempt() calls siron() without softcall_lock.
Kpreempt(c) ==
    /\ caller[c] = "idle"
    /\ caller' = [caller EXCEPT ![c] = "test"]
    /\ UNCHANGED <<queueVars, intrVars, handler, unsafe_driver, ghosts>>

\* softcall() releases its lock when siron() returns.
Return(c) ==
    /\ caller' = [caller EXCEPT ![c] = "idle"]
    /\ softcall_lock' = IF softcall_lock = c THEN None ELSE softcall_lock

\* siron(): "if (!siron_pending)" ...
SironTest(c) ==
    /\ caller[c] = "test"
    /\ IF siron_pending THEN Return(c)
       ELSE /\ caller' = [caller EXCEPT ![c] = "set"]
            /\ UNCHANGED softcall_lock
    /\ UNCHANGED <<softhead, panicstr, intrVars, handler,
                   unsafe_driver, ghosts>>

\* ... "siron_pending = 1" ...
SironSet(c) ==
    /\ caller[c] = "set"
    /\ siron_pending' = TRUE
    /\ caller' = [caller EXCEPT ![c] = "post"]
    /\ UNCHANGED <<queueVars, iv_pending, soft, handler, unsafe_driver, ghosts>>

\* setsoftint(siron_inum): nothing to do if the interrupt is pending already ...
SetsoftintTest(c) ==
    /\ caller[c] = "post"
    /\ IF iv_pending THEN Return(c)
       ELSE /\ caller' = [caller EXCEPT ![c] = "queue"]
            /\ UNCHANGED softcall_lock
    /\ UNCHANGED <<softhead, panicstr, intrVars, handler, unsafe_driver, ghosts>>

\* ... or it is put on the list of the processor that runs the caller.
SetsoftintQueue(c) ==
    /\ caller[c] = "queue"
    /\ iv_pending' = TRUE
    /\ \E p \in Cpus : soft' = soft \cup {p}
    /\ Return(c)
    /\ UNCHANGED <<softhead, panicstr, siron_pending, handler, unsafe_driver,
                   ghosts>>
------------------------------------------------------------------------------
\* The interrupt is taken when no level-1 handler is active on the processor.
TakeInterrupt(p) ==
    /\ p \in soft
    /\ handler[p].pc = "none"
    /\ soft' = soft \ {p}
    /\ iv_pending' = FALSE
    /\ handler' = [handler EXCEPT ![p].pc = "softlevel1"]
    /\ UNCHANGED <<queueVars, siron_pending, caller, unsafe_driver, ghosts>>

\* softlevel1(): siron_pending = 0.
SoftLevel1(p) ==
    /\ handler[p].pc = "softlevel1"
    /\ siron_pending' = FALSE
    /\ handler' = [handler EXCEPT ![p].pc = "softint"]
    /\ UNCHANGED <<queueVars, iv_pending, soft, caller, unsafe_driver, ghosts>>

\* softint() calls f.
Begin(f) ==
    /\ owed' = owed \ {f}
    /\ owedUnsafe' = owedUnsafe \ {f}

\* softint(): take one off the queue, or return if there is none.
Softint(p) ==
    /\ handler[p].pc = "softint"
    /\ softcall_lock = None
    /\ \/ /\ softhead = <<>>
          /\ handler' = [handler EXCEPT ![p] = Away]
          /\ UNCHANGED <<softhead, ghosts>>
       \/ /\ softhead # <<>>
          /\ softhead' = Tail(softhead)
          /\ handler' = [handler EXCEPT ![p] =
                [pc |-> IF Head(softhead).mutex THEN "mutex" ELSE "func",
                 func |-> Head(softhead).func]]
          /\ IF Head(softhead).mutex THEN UNCHANGED ghosts
             ELSE Begin(Head(softhead).func)
    /\ UNCHANGED <<softcall_lock, panicstr, intrVars, caller, unsafe_driver>>

\* mutex_enter(mp) before the function.
EnterUnsafe(p) ==
    /\ handler[p].pc = "mutex"
    /\ unsafe_driver = None
    /\ unsafe_driver' = p
    /\ handler' = [handler EXCEPT ![p].pc = "func"]
    /\ Begin(handler[p].func)
    /\ UNCHANGED <<queueVars, intrVars, caller>>

\* Mutant: softint() serves one request of the queue, not all.
ReturnAfterOne(p) ==
    /\ handler[p].pc = "func"
    /\ handler' = [handler EXCEPT ![p] = Away]
    /\ unsafe_driver' = IF unsafe_driver = p THEN None ELSE unsafe_driver
    /\ UNCHANGED <<queueVars, intrVars, caller, ghosts>>

\* The function returns, softint() looks for the next.
FuncReturn(p) ==
    /\ handler[p].pc = "func"
    /\ handler' = [handler EXCEPT ![p] = [pc |-> "softint", func |-> None]]
    /\ unsafe_driver' = IF unsafe_driver = p THEN None ELSE unsafe_driver
    /\ UNCHANGED <<queueVars, intrVars, caller, ghosts>>
------------------------------------------------------------------------------
Siron(c) ==
    SironTest(c) \/ SironSet(c) \/ SetsoftintTest(c) \/ SetsoftintQueue(c)

Serve(p) ==
    \/ TakeInterrupt(p) \/ SoftLevel1(p) \/ Softint(p) \/ FuncReturn(p)

Next ==
    \/ \E c \in Callers :
          \/ EnterDriver(c) \/ LeaveDriver(c) \/ Kpreempt(c) \/ Siron(c)
          \/ \E f \in Funcs :
                SoftcallCoalesced(c, f) \/ Softcall(c, f) \/ SoftcallPanic(c, f)
    \/ \E p \in Cpus : Serve(p) \/ EnterUnsafe(p)

Spec == Init /\ [][Next]_vars

\* A spin lock is released and a posted interrupt is taken, functions return,
\* an MT-unsafe driver gives up unsafe_driver, and an interrupt thread, whose
\* priority is above that of every driver, gets it in the end.
Fairness ==
    /\ \A c \in Callers : WF_vars(Siron(c)) /\ SF_vars(LeaveDriver(c))
    /\ \A p \in Cpus : SF_vars(Serve(p) \/ EnterUnsafe(p))

FairSpec == Spec /\ Fairness
------------------------------------------------------------------------------
(* Properties *)

\* The variables have the types softint.c gives them.
TypeOK ==
    /\ softhead \in Seq([func : Funcs, mutex : BOOLEAN])
    /\ Len(softhead) <= NSOFTCALLS
    /\ softcall_lock \in Callers \cup {None}
    /\ siron_pending \in BOOLEAN /\ iv_pending \in BOOLEAN
    /\ soft \in SUBSET Cpus
    /\ handler \in [Cpus -> [pc : {"none", "softlevel1", "softint", "mutex", "func"},
                             func : Funcs \cup {None}]]
    /\ caller \in [Callers -> {"idle", "test", "set", "post", "queue"}]
    /\ unsafe_driver \in Callers \cup Cpus \cup {None}
    /\ panicstr \in BOOLEAN
    /\ owed \in SUBSET Funcs /\ owedUnsafe \in SUBSET Funcs

Posting == {c \in Callers : caller[c] \in {"post", "queue"}}
Entering == {p \in Cpus : handler[p].pc = "softlevel1"}
Active == {p \in Cpus : handler[p].pc # "none"}

\* siron_pending is never left set with no soft interrupt on its way: siron()
\* would be a no-op from then on and no request would ever be served.
PendingBacked == siron_pending => soft # {} \/ Posting # {} \/ Entering # {}

\* A request on the queue is seen by a handler: one is active, or an interrupt
\* is posted or about to be.  softcall() posts one only for an empty queue.
QueueServed ==
    softhead # <<>> =>
       \/ soft # {} \/ Active # {} \/ Posting # {}
       \/ softcall_lock # None /\ caller[softcall_lock] \in {"test", "set"}

\* No soft call is left behind: siron_pending is never set with no soft interrupt
\* on its way (siron()), and a queued request is seen by a handler (softcall(),
\* softint()).
RequestsServed == PendingBacked /\ QueueServed

\* A function is on the queue at most once, so that softcall() panics only when
\* more than NSOFTCALLS functions are wanted at once.
NeverTooMany ==
    \A i, j \in DOMAIN softhead : softhead[i].func = softhead[j].func => i = j

\* What was requested and not called since is queued or about to be called:
\* a request made while the function runs is not lost.
NoRequestLost ==
    \A f \in owed :
       Queued(f) \/ \E p \in Cpus : handler[p].pc = "mutex" /\ handler[p].func = f

\* "If the thread was holding the unsafe driver mutex, arrange for it to be
\* acquired when the func is called."
CalledUnderUnsafe ==
    [][\A f \in owedUnsafe : f \notin owedUnsafe' =>
          \E p \in Cpus : handler'[p].func = f /\ unsafe_driver' = p]_vars
==============================================================================
