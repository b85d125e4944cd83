---------------------------- MODULE SoftIntProofs ----------------------------
(***************************************************************************)
(* No soft call is lost, for any number of processors, callers, functions  *)
(* and structures.  What has to be known besides the properties themselves *)
(* is that the flag of setsoftint() has an interrupt behind it, and who    *)
(* holds softcall_lock while siron() runs.                                 *)
(***************************************************************************)
EXTENDS SoftInt, TLAPS

USE ZenonT(40)

\* iv_pending is set only while a soft interrupt is posted.
PostedBacked == iv_pending => soft # {}

\* softcall_lock is held by a caller that is inside siron().
LockHeld == softcall_lock # None => caller[softcall_lock] # "idle"

\* The inductive invariant.
IInv ==
    /\ TypeOK /\ PostedBacked /\ LockHeld
    /\ PendingBacked /\ QueueServed /\ NeverTooMany /\ NoRequestLost

Requests == [func : Funcs, mutex : BOOLEAN]
Handlers == [pc : {"none", "softlevel1", "softint", "mutex", "func"},
             func : Funcs \cup {None}]
------------------------------------------------------------------------------
\* The steps that leave the queue, the interrupts and the history alone.
LEMMA DriverSteps ==
    ASSUME IInv, NEW c \in Callers,
           EnterDriver(c) \/ LeaveDriver(c)
    PROVE  IInv'
<1> USE DEF queueVars, intrVars, ghosts
<1>1. UNCHANGED <<queueVars, intrVars, handler, caller, ghosts>>
  BY DEF EnterDriver, LeaveDriver
<1>2. TypeOK'
  BY <1>1 DEF IInv, TypeOK, EnterDriver, LeaveDriver
<1>3. QED
  BY <1>1, <1>2
     DEF IInv, PostedBacked, LockHeld, PendingBacked, QueueServed, NeverTooMany,
         NoRequestLost, Posting, Entering, Active, Queued

\* softcall() with nothing to append.
LEMMA CoalesceSteps ==
    ASSUME IInv, NEW c \in Callers, NEW f \in Funcs,
           SoftcallCoalesced(c, f) \/ SoftcallPanic(c, f)
    PROVE  IInv'
<1> USE DEF queueVars, intrVars, ghosts
<1>1. UNCHANGED <<softhead, softcall_lock, intrVars, handler, caller, unsafe_driver>>
  BY DEF SoftcallCoalesced, SoftcallPanic
<1>2. TypeOK'
  BY <1>1 DEF IInv, TypeOK, SoftcallCoalesced, SoftcallPanic, Owe
<1>3. NoRequestLost'
  BY <1>1 DEF IInv, NoRequestLost, Queued, SoftcallCoalesced, SoftcallPanic, Owe
<1>4. QED
  BY <1>1, <1>2, <1>3
     DEF IInv, PostedBacked, LockHeld, PendingBacked, QueueServed, NeverTooMany,
         Posting, Entering, Active

\* softcall() appends a request that is not on the queue.
LEMMA SoftcallStep ==
    ASSUME IInv, NEW c \in Callers, NEW f \in Funcs, Softcall(c, f)
    PROVE  IInv'
<1> USE DEF queueVars, intrVars, ghosts
<1> DEFINE new == [func |-> f, mutex |-> unsafe_driver = c]
<1>0. TypeOK
  BY DEF IInv
<1>1. /\ softhead' = Append(softhead, new) /\ Len(softhead) < NSOFTCALLS
      /\ ~Queued(f) /\ caller[c] = "idle" /\ softcall_lock = None
      /\ UNCHANGED <<intrVars, handler, unsafe_driver, panicstr>>
  BY DEF Softcall
<1>2. \/ /\ softhead = <<>> /\ softcall_lock' = c
         /\ caller' = [caller EXCEPT ![c] = "test"]
      \/ softhead # <<>> /\ UNCHANGED <<softcall_lock, caller>>
  BY DEF Softcall
<1>3. new \in Requests /\ softhead \in Seq(Requests)
  BY <1>0 DEF TypeOK, Requests
<1>4. Owe(c, f)
  BY DEF Softcall
<1>5. TypeOK'
  <2>1. softhead' \in Seq(Requests) /\ Len(softhead') <= NSOFTCALLS
    BY SMTT(30), <1>0, <1>1, <1>3, SoftAssumption DEF TypeOK
  <2>2. softcall_lock' \in Callers \cup {None}
    BY <1>0, <1>2 DEF TypeOK
  <2>3. caller' \in [Callers -> {"idle", "test", "set", "post", "queue"}]
    BY <1>0, <1>2 DEF TypeOK
  <2>4. owed' \in SUBSET Funcs /\ owedUnsafe' \in SUBSET Funcs
    BY <1>0, <1>4 DEF TypeOK, Owe
  <2>5. QED
    BY <1>0, <1>1, <2>1, <2>2, <2>3, <2>4 DEF TypeOK, Requests
<1>6. PostedBacked' /\ LockHeld'
  BY <1>0, <1>1, <1>2 DEF IInv, PostedBacked, LockHeld, TypeOK
<1>7. Posting' = Posting /\ Entering' = Entering /\ Active' = Active
  BY <1>0, <1>1, <1>2 DEF Posting, Entering, Active, TypeOK
<1>8. PendingBacked'
  BY <1>1, <1>7 DEF IInv, PendingBacked
<1>9. QueueServed'
  <2>1. CASE softhead = <<>>
    <3>1. softcall_lock' # None /\ caller'[softcall_lock'] = "test"
      BY SMTT(30), <1>0, <1>2, <2>1, SoftAssumption DEF TypeOK
    <3>2. QED
      BY <3>1 DEF QueueServed
  <2>2. CASE softhead # <<>>
    BY <1>1, <1>2, <1>7, <2>2 DEF IInv, QueueServed
  <2>3. QED
    BY <2>1, <2>2
<1>10. /\ DOMAIN softhead' = 1..Len(softhead) + 1
       /\ DOMAIN softhead = 1..Len(softhead) /\ Len(softhead) \in Nat
       /\ \A i \in 1..Len(softhead) : softhead'[i] = softhead[i]
       /\ softhead'[Len(softhead) + 1].func = f
  BY SMTT(30), <1>1, <1>3
<1>11. NeverTooMany'
  BY SMTT(30), <1>1, <1>10 DEF IInv, NeverTooMany, Queued
<1>12. NoRequestLost'
  <2>1. \A g : Queued(g) => Queued(g)'
    BY SMTT(30), <1>10 DEF Queued
  <2>2. Queued(f)'
    BY SMTT(30), <1>10 DEF Queued
  <2>3. QED
    BY <1>1, <1>4, <2>1, <2>2 DEF IInv, NoRequestLost, Owe
<1>13. QED
  BY <1>5, <1>6, <1>8, <1>9, <1>11, <1>12 DEF IInv

\* kpreempt() and siron().
LEMMA SironSteps ==
    ASSUME IInv, NEW c \in Callers, Kpreempt(c) \/ Siron(c)
    PROVE  IInv'
<1> USE DEF queueVars, intrVars, ghosts
<1>0. TypeOK
  BY DEF IInv
<1>1. UNCHANGED <<softhead, panicstr, handler, unsafe_driver, owed, owedUnsafe>>
  BY DEF Kpreempt, Siron, SironTest, SironSet, SetsoftintTest, SetsoftintQueue
<1>2. Entering' = Entering /\ Active' = Active
  BY <1>1 DEF Entering, Active
<1>3. NeverTooMany' /\ NoRequestLost'
  BY <1>1 DEF IInv, NeverTooMany, NoRequestLost, Queued
<1>4. ASSUME NEW p \in {"idle", "test", "set", "post", "queue"},
             caller' = [caller EXCEPT ![c] = p],
             \/ UNCHANGED softcall_lock /\ p # "idle"
             \/ softcall_lock' = IF softcall_lock = c THEN None ELSE softcall_lock,
             siron_pending' \in BOOLEAN, iv_pending' \in BOOLEAN,
             soft' \in SUBSET Cpus, soft \subseteq soft',
             iv_pending' => soft' # {},
             siron_pending' => siron_pending \/ p = "post",
             caller[c] \in {"post", "queue"} => p \in {"post", "queue"} \/ soft' # {},
             caller[c] \in {"test", "set"} =>
                \/ p \in {"test", "set", "post"} /\ UNCHANGED softcall_lock
                \/ siron_pending
      PROVE  IInv'
  <2>1. TypeOK'
    BY <1>0, <1>1, <1>4 DEF TypeOK
  <2>2. PostedBacked'
    BY <1>4 DEF PostedBacked
  <2>3. LockHeld'
    BY <1>0, <1>4 DEF IInv, LockHeld, TypeOK
  <2>4. /\ \A x \in Callers : x # c => (x \in Posting' <=> x \in Posting)
        /\ c \in Posting' <=> p \in {"post", "queue"}
        /\ c \in Posting <=> caller[c] \in {"post", "queue"}
    BY <1>0, <1>4 DEF Posting, TypeOK
  <2>5. Posting # {} => Posting' # {} \/ soft' # {}
    <3>1. ASSUME NEW x \in Posting
          PROVE  Posting' # {} \/ soft' # {}
      <4>1. x \in Callers
        BY DEF Posting
      <4>2. QED
        BY <1>4, <2>4, <4>1
    <3>2. QED
      BY <3>1
  <2>6. p = "post" => Posting' # {}
    BY <2>4
  <2>7. PendingBacked'
    BY <1>2, <1>4, <2>5, <2>6 DEF IInv, PendingBacked
  <2>8. QueueServed'
    <3>1. CASE soft # {} \/ Active # {} \/ Posting # {}
      BY <1>2, <1>4, <2>5, <3>1 DEF QueueServed
    <3>2. CASE siron_pending
      <4>1. Entering \subseteq Active
        BY DEF Entering, Active
      <4>2. QED
        BY <3>1, <3>2, <4>1 DEF IInv, PendingBacked
    <3>3. CASE /\ softcall_lock # None /\ caller[softcall_lock] \in {"test", "set"}
               /\ ~siron_pending
      <4>1. CASE softcall_lock = c
        BY <1>0, <1>4, <2>6, <3>3, <4>1 DEF QueueServed, TypeOK
      <4>2. CASE softcall_lock # c
        <5>1. softcall_lock' = softcall_lock /\ softcall_lock \in Callers
          BY <1>0, <1>4, <3>3, <4>2 DEF TypeOK
        <5>2. caller'[softcall_lock'] = caller[softcall_lock]
          BY <1>0, <1>4, <4>2, <5>1 DEF TypeOK
        <5>3. QED
          BY <3>3, <5>1, <5>2 DEF QueueServed
      <4>3. QED
        BY <4>1, <4>2
    <3>4. CASE softhead = <<>>
      BY <1>1, <3>4 DEF QueueServed
    <3>5. QED
      BY <3>1, <3>2, <3>3, <3>4 DEF IInv, QueueServed
  <2>9. QED
    BY <1>3, <2>1, <2>2, <2>3, <2>7, <2>8 DEF IInv
<1>5. siron_pending \in BOOLEAN /\ iv_pending \in BOOLEAN /\ soft \in SUBSET Cpus
      /\ (iv_pending => soft # {})
  BY <1>0 DEF TypeOK, IInv, PostedBacked
<1>6. CASE Kpreempt(c)
  BY <1>4, <1>5, <1>6 DEF Kpreempt
<1>7. CASE SironTest(c)
  BY <1>4, <1>5, <1>7 DEF SironTest, Return
<1>8. CASE SironSet(c)
  BY <1>4, <1>5, <1>8 DEF SironSet
<1>9. CASE SetsoftintTest(c)
  BY <1>4, <1>5, <1>9 DEF SetsoftintTest, Return
<1>10. CASE SetsoftintQueue(c)
  <2>1. PICK p \in Cpus : soft' = soft \cup {p}
    BY <1>10 DEF SetsoftintQueue
  <2>2. soft' \in SUBSET Cpus /\ soft \subseteq soft' /\ soft' # {}
    BY <1>5, <2>1
  <2>3. QED
    BY <1>4, <1>5, <1>10, <2>2 DEF SetsoftintQueue, Return
<1>11. QED
  BY <1>6, <1>7, <1>8, <1>9, <1>10 DEF Siron
------------------------------------------------------------------------------
\* A processor takes the interrupt, and softlevel1() clears siron_pending.
LEMMA InterruptSteps ==
    ASSUME IInv, NEW p \in Cpus, TakeInterrupt(p) \/ SoftLevel1(p)
    PROVE  IInv'
<1> USE DEF queueVars, intrVars, ghosts
<1>0. TypeOK
  BY DEF IInv
<1>1. UNCHANGED <<queueVars, caller, unsafe_driver, ghosts>>
  BY DEF TakeInterrupt, SoftLevel1
<1>2. Posting' = Posting
  BY <1>1 DEF Posting
<1>3. \/ /\ handler[p].pc = "none" /\ p \in soft /\ iv_pending' = FALSE
         /\ soft' = soft \ {p} /\ siron_pending' = siron_pending
         /\ handler' = [handler EXCEPT ![p].pc = "softlevel1"]
      \/ /\ handler[p].pc = "softlevel1" /\ siron_pending' = FALSE
         /\ UNCHANGED <<soft, iv_pending>>
         /\ handler' = [handler EXCEPT ![p].pc = "softint"]
  BY DEF TakeInterrupt, SoftLevel1
<1>4. /\ handler'[p].pc \in {"softlevel1", "softint"}
      /\ handler'[p].func = handler[p].func
      /\ \A q \in Cpus : q # p => handler'[q] = handler[q]
  BY SMTT(30), <1>0, <1>3 DEF TypeOK
<1>5. TypeOK'
  <2>1. handler' \in [Cpus -> Handlers]
    BY SMTT(30), <1>0, <1>3 DEF TypeOK, Handlers
  <2>2. /\ soft' \in SUBSET Cpus
        /\ siron_pending' \in BOOLEAN /\ iv_pending' \in BOOLEAN
    BY <1>0, <1>3 DEF TypeOK
  <2>3. QED
    BY <1>0, <1>1, <2>1, <2>2 DEF TypeOK, Handlers
<1>6. PostedBacked' /\ LockHeld'
  BY SMTT(30), <1>1, <1>3 DEF IInv, PostedBacked, LockHeld
<1>7. PendingBacked'
  <2>1. CASE siron_pending' = FALSE
    BY <2>1 DEF PendingBacked
  <2>2. CASE handler' = [handler EXCEPT ![p].pc = "softlevel1"]
    <3>1. p \in Entering'
      BY <1>0, <2>2 DEF Entering, TypeOK
    <3>2. QED
      BY <3>1 DEF PendingBacked
  <2>3. QED
    BY <1>3, <2>1, <2>2
<1>8. QueueServed'
  <2>1. p \in Active'
    BY <1>4 DEF Active
  <2>2. QED
    BY <2>1 DEF QueueServed
<1>9. NeverTooMany'
  BY <1>1 DEF IInv, NeverTooMany
<1>10. NoRequestLost'
  <2>1. \A q \in Cpus : handler[q].pc = "mutex" => handler'[q] = handler[q]
    BY <1>3, <1>4
  <2>2. QED
    BY SMTT(30), <1>1, <2>1 DEF IInv, NoRequestLost, Queued
<1>11. QED
  BY <1>5, <1>6, <1>7, <1>8, <1>9, <1>10 DEF IInv

\* softint() takes a request off the queue, or finds it empty.
LEMMA SoftintStep ==
    ASSUME IInv, NEW p \in Cpus, Softint(p)
    PROVE  IInv'
<1> USE DEF queueVars, intrVars, ghosts
<1>0. TypeOK
  BY DEF IInv
<1>1. /\ handler[p].pc = "softint"
      /\ UNCHANGED <<softcall_lock, panicstr, intrVars, caller, unsafe_driver>>
  BY DEF Softint
<1>2. Posting' = Posting /\ PostedBacked' /\ LockHeld'
  BY <1>1 DEF IInv, Posting, PostedBacked, LockHeld
\* Which handlers are at softlevel1 does not change.
<1>3. ASSUME NEW h \in Handlers, h.pc # "softlevel1",
             handler' = [handler EXCEPT ![p] = h]
      PROVE  PendingBacked'
  <2>1. Entering' = Entering
    BY <1>0, <1>1, <1>3 DEF Entering, TypeOK
  <2>2. QED
    BY <1>1, <1>2, <2>1 DEF IInv, PendingBacked
<1>4. CASE /\ softhead = <<>> /\ handler' = [handler EXCEPT ![p] = Away]
           /\ UNCHANGED <<softhead, ghosts>>
  <2>1. Away \in Handlers /\ Away.pc = "none"
    BY DEF Away, Handlers
  <2>2. TypeOK'
    BY <1>0, <1>1, <1>4, <2>1 DEF TypeOK, Handlers
  <2>3. PendingBacked'
    BY <1>3, <1>4, <2>1
  <2>4. QueueServed' /\ NeverTooMany'
    BY <1>4 DEF QueueServed, NeverTooMany, IInv
  <2>5. NoRequestLost'
    BY <1>0, <1>1, <1>4 DEF IInv, NoRequestLost, Queued, TypeOK
  <2>6. QED
    BY <1>2, <2>2, <2>3, <2>4, <2>5 DEF IInv
<1>5. ASSUME softhead # <<>>, softhead' = Tail(softhead),
             handler' = [handler EXCEPT ![p] =
                [pc |-> IF Head(softhead).mutex THEN "mutex" ELSE "func",
                 func |-> Head(softhead).func]],
             IF Head(softhead).mutex THEN UNCHANGED ghosts
             ELSE Begin(Head(softhead).func)
      PROVE  IInv'
  <2> DEFINE head == Head(softhead)
             h == [pc |-> IF head.mutex THEN "mutex" ELSE "func",
                   func |-> head.func]
  <2>1. softhead \in Seq(Requests)
    BY <1>0 DEF TypeOK, Requests
  <2>2. /\ Len(softhead) \in Nat /\ Len(softhead) > 0
        /\ head = softhead[1] /\ head \in Requests
        /\ DOMAIN softhead = 1..Len(softhead)
        /\ DOMAIN softhead' = 1..Len(softhead) - 1
        /\ \A i \in 1..Len(softhead) - 1 : softhead'[i] = softhead[i + 1]
        /\ softhead' \in Seq(Requests) /\ Len(softhead') = Len(softhead) - 1
    BY SMTT(30), <1>5, <2>1
  <2>3. h \in Handlers /\ h.pc \in {"mutex", "func"} /\ h.func = head.func
    BY <2>2 DEF Requests, Handlers
  <2>4. /\ handler'[p] = h /\ \A q \in Cpus : q # p => handler'[q] = handler[q]
        /\ handler' \in [Cpus -> Handlers]
    BY <1>0, <1>5, <2>3 DEF TypeOK, Handlers
  <2>5. /\ owed' \subseteq owed /\ owedUnsafe' \subseteq owedUnsafe
        /\ head.mutex \/ head.func \notin owed'
    BY <1>5 DEF Begin
  <2>6. head.mutex => h.pc = "mutex"
    OBVIOUS
  <2>7. handler' = [handler EXCEPT ![p] = h]
    BY <1>5
  <2> HIDE DEF head, h
  <2>8. TypeOK'
    BY SMTT(30), <1>0, <1>1, <2>2, <2>4, <2>5, SoftAssumption DEF TypeOK, Requests, Handlers
  <2>9. PendingBacked'
    BY <1>3, <2>3, <2>7
  <2>10. QueueServed'
    <3>1. p \in Active'
      BY <2>3, <2>4 DEF Active
    <3>2. QED
      BY <3>1 DEF QueueServed
  <2>11. NeverTooMany'
    <3> SUFFICES ASSUME NEW i \in DOMAIN softhead', NEW j \in DOMAIN softhead',
                        softhead'[i].func = softhead'[j].func
                 PROVE  i = j
      BY DEF NeverTooMany
    <3>1. i + 1 \in DOMAIN softhead /\ j + 1 \in DOMAIN softhead
      BY SMTT(30), <2>2
    <3>2. softhead[i + 1].func = softhead[j + 1].func
      BY <2>2
    <3>3. i + 1 = j + 1
      BY <3>1, <3>2 DEF IInv, NeverTooMany
    <3>4. QED
      BY SMTT(30), <2>2, <3>3
  <2>12. NoRequestLost'
    <3> SUFFICES ASSUME NEW f \in owed'
                 PROVE  Queued(f)' \/ \E q \in Cpus : /\ handler'[q].pc = "mutex"
                                                     /\ handler'[q].func = f
      BY DEF NoRequestLost
    <3>1. Queued(f) \/ \E q \in Cpus : handler[q].pc = "mutex" /\ handler[q].func = f
      BY <2>5 DEF IInv, NoRequestLost
    <3>2. CASE f = head.func
      BY <2>3, <2>4, <2>5, <2>6, <3>2
    <3>3. CASE Queued(f) /\ f # head.func
      <4>1. PICK i \in 1..Len(softhead) : softhead[i].func = f
        BY <2>2, <3>3 DEF Queued
      <4>2. i - 1 \in DOMAIN softhead' /\ softhead'[i - 1].func = f
        BY SMTT(30), <2>2, <3>3, <4>1
      <4>3. QED
        BY <4>2 DEF Queued
    <3>4. CASE \E q \in Cpus : handler[q].pc = "mutex" /\ handler[q].func = f
      BY <1>1, <2>4, <3>4
    <3>5. QED
      BY <3>1, <3>2, <3>3, <3>4
  <2>13. QED
    BY <1>2, <2>8, <2>9, <2>10, <2>11, <2>12 DEF IInv
<1>6. QED
  BY <1>4, <1>5 DEF Softint

\* The function is called, under unsafe_driver, and returns.
LEMMA FuncSteps ==
    ASSUME IInv, NEW p \in Cpus, EnterUnsafe(p) \/ FuncReturn(p)
    PROVE  IInv'
<1> USE DEF queueVars, intrVars, ghosts
<1>0. TypeOK
  BY DEF IInv
<1>1. UNCHANGED <<queueVars, intrVars, caller>>
  BY DEF EnterUnsafe, FuncReturn
<1>2. Posting' = Posting /\ PostedBacked' /\ LockHeld' /\ NeverTooMany'
  BY <1>1 DEF IInv, Posting, PostedBacked, LockHeld, NeverTooMany
<1>3. \/ /\ handler[p].pc = "mutex" /\ unsafe_driver' = p
         /\ handler' = [handler EXCEPT ![p].pc = "func"]
         /\ Begin(handler[p].func)
      \/ /\ handler[p].pc = "func" /\ unsafe_driver' \in {unsafe_driver, None}
         /\ handler' = [handler EXCEPT ![p] = [pc |-> "softint", func |-> None]]
         /\ UNCHANGED ghosts
  BY DEF EnterUnsafe, FuncReturn
<1>4. TypeOK'
  BY SMTT(30), <1>0, <1>1, <1>3 DEF TypeOK, Begin
<1>5. /\ handler'[p].pc \in {"func", "softint"}
      /\ \A q \in Cpus : q # p => handler'[q] = handler[q]
  BY SMTT(30), <1>0, <1>3 DEF TypeOK
<1>6. PendingBacked' /\ QueueServed'
  <2>1. Entering' = Entering /\ p \in Active'
    BY <1>3, <1>5 DEF Entering, Active
  <2>2. QED
    BY <1>1, <1>2, <2>1 DEF IInv, PendingBacked, QueueServed
<1>7. NoRequestLost'
  <2>1. owed' \subseteq owed
    BY <1>3 DEF Begin
  <2>2. handler[p].pc = "mutex" => handler[p].func \notin owed'
    BY <1>3 DEF Begin
  <2>3. QED
    BY SMTT(30), <1>1, <1>5, <2>1, <2>2 DEF IInv, NoRequestLost, Queued
<1>8. QED
  BY <1>2, <1>4, <1>6, <1>7 DEF IInv
------------------------------------------------------------------------------
\* softcall_init()
LEMMA InitInv == Init => IInv
<1> SUFFICES ASSUME Init
             PROVE  IInv
  OBVIOUS
<1>1. TypeOK
  <2>1. softhead \in Seq(Requests) /\ Len(softhead) <= NSOFTCALLS
    BY SMTT(30), SoftAssumption DEF Init
  <2>2. handler \in [Cpus -> Handlers]
    BY DEF Init, Away, Handlers
  <2>3. QED
    BY <2>1, <2>2 DEF Init, TypeOK, Requests, Handlers
<1>2. NeverTooMany
  BY SMTT(30) DEF Init, NeverTooMany
<1>3. QED
  BY <1>1, <1>2
     DEF Init, IInv, PostedBacked, LockHeld, PendingBacked, QueueServed,
         NoRequestLost

\* Every step preserves the invariant.
LEMMA NextInv == IInv /\ [Next]_vars => IInv'
<1> SUFFICES ASSUME IInv, [Next]_vars
             PROVE  IInv'
  OBVIOUS
<1>1. ASSUME NEW c \in Callers,
             \/ EnterDriver(c) \/ LeaveDriver(c) \/ Kpreempt(c) \/ Siron(c)
             \/ \E f \in Funcs :
                   SoftcallCoalesced(c, f) \/ Softcall(c, f) \/ SoftcallPanic(c, f)
      PROVE  IInv'
  BY <1>1, DriverSteps, SironSteps, CoalesceSteps, SoftcallStep
<1>2. ASSUME NEW p \in Cpus, Serve(p) \/ EnterUnsafe(p)
      PROVE  IInv'
  BY <1>2, InterruptSteps, SoftintStep, FuncSteps DEF Serve
<1>3. CASE UNCHANGED vars
  BY <1>3
     DEF vars, queueVars, intrVars, ghosts, IInv, TypeOK, PostedBacked, LockHeld,
         PendingBacked, QueueServed, NeverTooMany, NoRequestLost, Posting,
         Entering, Active, Queued
<1>4. QED
  BY <1>1, <1>2, <1>3 DEF Next

\* The invariant holds in every reachable state.
THEOREM Invariance == Spec => []IInv
<1>1. QED
  BY InitInv, NextInv, PTL DEF Spec

\* A request is never stranded: siron_pending has an interrupt behind it, a
\* queue that is not empty will be looked at, and a function that was asked for
\* and not called since is on the queue or about to be called.
THEOREM SoftcallNeverStranded ==
    Spec => [](RequestsServed /\ NoRequestLost)
<1>1. IInv => RequestsServed /\ NoRequestLost
  BY DEF IInv, RequestsServed
<1>2. QED
  BY <1>1, Invariance, PTL

\* A function is on the queue at most once, whoever asks for it.
THEOREM SoftcallQueuedOnce == Spec => []NeverTooMany
<1>1. IInv => NeverTooMany
  BY DEF IInv
<1>2. QED
  BY <1>1, Invariance, PTL
==============================================================================
