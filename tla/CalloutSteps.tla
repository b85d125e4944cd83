---------------------------- MODULE CalloutSteps -----------------------------
(* Types of Callout, and its steps: each preserves the invariant, and          *)
(* untimeout() returns what it should and when it should.                      *)
EXTENDS Callout, TLAPS

USE ZenonT(40)

\* IInv, folded: the lemmas are stated with it and unfold it once.
Inv == IInv

\* A nonempty set of natural numbers has a least element: a lemma of the scan
\* for the next tick with work, proved in CalloutProofs.
LeastNumber == \A T \in SUBSET Nat : T # {} => \E k \in T : \A j \in T : k <= j

\* clock_t arithmetic stays in range.
LEMMA WrapType == \A t \in Int : Wrap(t) \in Ticks
BY SMTT(30), TimeAssumption DEF Wrap, Ticks

\* CALLOUT_HASH() yields a bucket.
LEMMA BucketType == \A t \in Int : t % BUCKETS \in Buckets
BY SMTT(30), TimeAssumption DEF Buckets

\* A difference of two ticks is an integer.
LEMMA DiffType == \A a, b \in Ticks : Diff(a, b) \in Int
BY SMTT(30), TimeAssumption DEF Diff, Ticks

\* The scan of callout_execute() for the next tick with work ends at a tick.
LEMMA ScanType ==
    ASSUME LeastNumber, NEW r \in Ticks, NEW t \in Ticks
    PROVE  ScanTo(r, t) \in Ticks
<1> DEFINE Hits == {k \in 0..Diff(t, r) : Due(Wrap(r + k)) # {}}
<1>1. r \in Int /\ t \in Int
  BY SMTT(30), TimeAssumption DEF Ticks
<1>2. CASE Diff(r, t) > 0
  BY <1>2 DEF ScanTo
<1>3. CASE ~(Diff(r, t) > 0) /\ Hits = {}
  <2>1. ScanTo(r, t) = Wrap(t + 1)
    BY <1>3, DiffType DEF ScanTo
  <2>2. QED BY SMTT(30), <2>1, <1>1, WrapType
<1>4. CASE ~(Diff(r, t) > 0) /\ Hits # {}
  <2> DEFINE k == CHOOSE k \in Hits : \A j \in Hits : k <= j
  <2>1. Hits \in SUBSET Nat
    BY SMTT(30), DiffType
  <2>2. k \in Hits
    BY <2>1, <1>4 DEF LeastNumber
  <2>3. ScanTo(r, t) = Wrap(r + k)
    BY <1>4, DiffType DEF ScanTo
  <2>4. QED BY SMTT(30), <2>1, <2>2, <2>3, <1>1, WrapType
<1>5. QED BY <1>2, <1>3, <1>4
------------------------------------------------------------------------------
\* Facts about the helpers, in a state of the right type.
LEMMA DueType ==
    ASSUME TypeOK, NEW r \in Ticks
    PROVE  Due(r) \subseteq Callouts
<1>1. r % BUCKETS \in Buckets
  BY SMTT(30), BucketType, TimeAssumption DEF Ticks
<1>2. QED
  BY <1>1 DEF Due, TypeOK

\* The tick at which callout_execute() goes on is one of clock_t.
LEMMA ResumeType ==
    ASSUME LeastNumber, TypeOK, NEW r \in Ticks
    PROVE  ResumeAt(r) \in Ticks
<1>1. Wrap(r + 1) \in Ticks /\ cs_runtime \in Ticks /\ cs_curtime \in Ticks
  BY SMTT(30), WrapType, TimeAssumption DEF Ticks, TypeOK
<1>2. QED
  BY <1>1, ScanType DEF ResumeAt

\* The records that are stored belong to their types.
LEMMA Records ==
    /\ Blank \in CalloutRec
    /\ Parked \in ThreadRec
    /\ Idle \in ClientRec
    /\ NoSave \in [bucket : [Buckets -> SUBSET Callouts], runtime : Ticks]
<1>1. 0 \in Ticks
  BY SMTT(30), TimeAssumption DEF Ticks
<1>2. Blank \in CalloutRec
  BY <1>1 DEF Blank, CalloutRec
<1>3. Parked \in ThreadRec
  BY <1>1 DEF Parked, ThreadRec
<1>4. Idle \in ClientRec
  BY DEF Idle, ClientRec
<1>5. NoSave \in [bucket : [Buckets -> SUBSET Callouts], runtime : Ticks]
  BY <1>1 DEF NoSave
<1>6. QED
  BY <1>2, <1>3, <1>4, <1>5

\* An empty table has the right types.
LEMMA InitType == Init => TypeOK
<1>1. 0 \in Ticks
  BY SMTT(30), TimeAssumption DEF Ticks
<1>2. QED
  BY <1>1, Records, TableAssumption DEF Init, TypeOK

\* Taking a callout, or leaving callout_execute(), keeps the types.
LEMMA RunOrParkType ==
    ASSUME TypeOK, NEW e \in Threads, NEW r \in Ticks,
           NEW co \in [Callouts -> CalloutRec],
           \A cp \in Due(r) : callout[cp].id \in Ids,
           RunOrPark(e, r, co)
    PROVE  /\ callout' \in [Callouts -> CalloutRec]
           /\ thr' \in [Threads -> ThreadRec]
           /\ ran' \in SUBSET Ids
<1>1. CASE callout' = co /\ thr' = [thr EXCEPT ![e] = Parked] /\ UNCHANGED ran
  BY <1>1, Records DEF TypeOK
<1>2. ASSUME NEW cp \in Due(r),
             callout' = [co EXCEPT ![cp].executor = e],
             thr' = [thr EXCEPT ![e] =
                    [pc |-> IF Unsafe(cp) THEN "unsafe" ELSE "func",
                     cp |-> cp, runtime |-> r]],
             ran' = ran \cup {callout[cp].id}
      PROVE  /\ callout' \in [Callouts -> CalloutRec]
             /\ thr' \in [Threads -> ThreadRec]
             /\ ran' \in SUBSET Ids
  <2>1. cp \in Callouts
    BY DueType
  <2>2. [co[cp] EXCEPT !.executor = e] \in CalloutRec
    BY <2>1 DEF CalloutRec
  <2>3. [pc |-> IF Unsafe(cp) THEN "unsafe" ELSE "func",
         cp |-> cp, runtime |-> r] \in ThreadRec
    BY <2>1 DEF ThreadRec
  <2>4. QED
    BY <1>2, <2>1, <2>2, <2>3 DEF TypeOK
<1>3. QED
  BY <1>1, <1>2 DEF RunOrPark
------------------------------------------------------------------------------
\* A callout of the table is in a bucket, and it has an id.
LEMMA DueIds ==
    ASSUME Inv, NEW r \in Ticks
    PROVE  \A cp \in Due(r) : cp \in Callouts /\ callout[cp].id \in Ids
<1>. IInv
  BY DEF Inv
<1>1. r % BUCKETS \in Buckets
  BY SMTT(30), BucketType, TimeAssumption DEF Ticks
<1>2. QED
  BY <1>1, DueType DEF Due, IInv, IdBook

\* Changing the pc of a thread or of a client keeps the types.
LEMMA ThreadPc ==
    ASSUME TypeOK, NEW e \in Threads,
           NEW p \in {"pool", "signalled", "unsafe", "func", "nested", "pig",
                      "relock", "cprwait"}
    PROVE  [thr EXCEPT ![e].pc = p] \in [Threads -> ThreadRec]
BY DEF TypeOK, ThreadRec

\* The same for the pc of a client.
LEMMA ClientPc ==
    ASSUME TypeOK, NEW c \in Clients,
           NEW p \in {"idle", "c_done", "woken", "reenter"}
    PROVE  [client EXCEPT ![c].pc = p] \in [Clients -> ClientRec]
BY DEF TypeOK, ClientRec

\* A callout thread that is awakened keeps its type.
LEMMA AwakenedType ==
    ASSUME TypeOK, NEW e \in Threads
    PROVE  Awakened(e) \in ThreadRec
BY DEF TypeOK, ThreadRec, Awakened

\* A client that gives up its id keeps the types.
LEMMA DropType ==
    ASSUME TypeOK, NEW c \in Clients, DropId(c)
    PROVE  client' \in [Clients -> ClientRec] /\ ran' \in SUBSET Ids
BY Records DEF TypeOK, DropId

\* No step of a client leaves the types.
LEMMA ClientTypes ==
    ASSUME Inv, NEW c \in Clients, ClientStep(c)
    PROVE  TypeOK'
<1>. IInv
  BY DEF Inv
<1> USE DEF world, table, cprVars
<1>0. TypeOK
  BY DEF IInv
<1>1. CASE EnterDriver(c)
  BY <1>0, <1>1 DEF EnterDriver, TypeOK
<1>2. CASE LeaveDriver(c)
  BY <1>0, <1>2 DEF LeaveDriver, TypeOK
<1>3. CASE Forget(c)
  BY <1>0, <1>3, DropType DEF Forget, TypeOK
<1>4. ASSUME NEW delta \in Deltas, Timeout(c, delta)
      PROVE  TypeOK'
  <2> DEFINE runtime == RuntimeFor(delta)
             b == runtime % BUCKETS
  <2>1. PICK cp \in Allocatable, id \in ({b} \X Seqs) \ IdsInUse :
             /\ callout' = [callout EXCEPT ![cp] =
                    [id |-> id,
                     flags |-> IF unsafe_driver = c THEN {"UNSAFE_DRIVER"} ELSE {},
                     executor |-> None, runtime |-> runtime,
                     due |-> Wrap(lbolt + delta)]]
             /\ cs_freelist' = cs_freelist \ {cp}
             /\ cs_bucket' = [cs_bucket EXCEPT ![b] = @ \cup {cp}]
             /\ client' = [client EXCEPT ![c] = [Idle EXCEPT !.id = id]]
    BY <1>4 DEF Timeout
  <2>2. lbolt \in Int /\ cs_curtime \in Int /\ delta \in Int
    BY SMTT(30), <1>0, TimeAssumption DEF TypeOK, Ticks
  <2>3. runtime \in Ticks /\ Wrap(lbolt + delta) \in Ticks
    BY SMTT(30), <2>2, WrapType DEF RuntimeFor
  <2>4. b \in Buckets
    BY SMTT(30), <2>3, BucketType, TimeAssumption DEF Ticks
  <2>5. cp \in Callouts
    BY <1>0 DEF Allocatable, TypeOK
  <2>6. id \in Ids
    BY <2>4 DEF Ids
  <2> HIDE DEF runtime, b
  <2>7. [id |-> id,
         flags |-> IF unsafe_driver = c THEN {"UNSAFE_DRIVER"} ELSE {},
         executor |-> None, runtime |-> runtime, due |-> Wrap(lbolt + delta)] \in CalloutRec
    BY <2>3, <2>6 DEF CalloutRec
  <2>8. [Idle EXCEPT !.id = id] \in ClientRec
    BY <2>6 DEF Idle, ClientRec
  <2>9. /\ callout' \in [Callouts -> CalloutRec]
        /\ client' \in [Clients -> ClientRec]
        /\ cs_bucket' \in [Buckets -> SUBSET Callouts]
        /\ cs_freelist' \in SUBSET Callouts
    BY <1>0, <2>1, <2>4, <2>5, <2>7, <2>8 DEF TypeOK
  <2>10. QED
    BY <1>0, <1>4, <2>9 DEF Timeout, TypeOK
<1>5. CASE UntimeoutGone(c)
  BY <1>0, <1>5, DropType DEF UntimeoutGone, TypeOK
<1>6. CASE UntimeoutPending(c)
  <2>1. /\ cs_bucket' \in [Buckets -> SUBSET Callouts]
        /\ cs_freelist' \in SUBSET Callouts
        /\ callout' \in [Callouts -> CalloutRec]
    <3>1. client[c].id \in Ids
      BY <1>0, <1>6 DEF UntimeoutPending, TypeOK, ClientRec
    <3>2. client[c].id[1] \in Buckets
      BY <3>1 DEF Ids
    <3>3. QED
      BY SMTT(30), <1>0, <1>6, <3>2, Records
         DEF UntimeoutPending, TypeOK, Matches, Freed
  <2>2. QED
    BY <1>0, <1>6, <2>1, DropType DEF UntimeoutPending, TypeOK
<1>7. CASE UntimeoutExecuting(c)
  <2>1. client' \in [Clients -> ClientRec]
    <3>1. client[c].id \in Ids
      BY <1>0, <1>7 DEF UntimeoutExecuting, TypeOK, ClientRec
    <3>2. client[c].id[1] \in Buckets
      BY <3>1 DEF Ids
    <3>3. PICK cp \in Matches(client[c].id) :
             client' = [client EXCEPT ![c] =
                          [@ EXCEPT !.pc = "c_done", !.cp = cp]]
      BY <1>7 DEF UntimeoutExecuting
    <3>4. cp \in Callouts
      BY <1>0, <3>2 DEF Matches, TypeOK
    <3>5. QED
      BY <1>0, <3>3, <3>4 DEF TypeOK, ClientRec
  <2>2. QED
    BY <1>0, <1>7, <2>1 DEF UntimeoutExecuting, TypeOK
<1>8. CASE Recheck(c)
  <2>1. client' \in [Clients -> ClientRec] /\ ran' \in SUBSET Ids
    <3>1. \/ client' = [client EXCEPT ![c].pc = "c_done"] /\ ran' = ran
          \/ client' = [client EXCEPT ![c].pc = "reenter"] /\ ran' = ran
          \/ DropId(c)
      BY <1>8 DEF Recheck
    <3>2. client \in [Clients -> ClientRec] /\ ran \in SUBSET Ids
      BY <1>0 DEF TypeOK
    <3>3. QED
      BY <1>0, <3>1, <3>2, DropType, ClientPc
  <2>2. QED
    BY <1>0, <1>8, <2>1 DEF Recheck, TypeOK
<1>9. CASE Reenter(c)
  BY <1>0, <1>9, DropType DEF Reenter, TypeOK
<1>10. CASE SpuriousSetrun(c)
  BY <1>0, <1>10, ClientPc DEF SpuriousSetrun, TypeOK
<1>11. QED
  BY <1>1, <1>2, <1>3, <1>4, <1>5, <1>6, <1>7, <1>8, <1>9, <1>10
     DEF ClientStep

\* No step of a thread leaves the types.
LEMMA ThreadTypes ==
    ASSUME LeastNumber, Inv, NEW e \in Threads, ThreadStep(e)
    PROVE  TypeOK'
<1>. IInv
  BY DEF Inv
<1> USE DEF world, table, cprVars
<1>0. TypeOK
  BY DEF IInv
<1>1. CASE BackToSleep(e)
  BY <1>0, <1>1, Records DEF BackToSleep, TypeOK
<1>2. ASSUME EnterExecute(e)
      PROVE  TypeOK'
  <2>1. ScanTo(cs_runtime, cs_curtime) \in Ticks
    BY <1>0, ScanType DEF TypeOK
  <2>2. callout \in [Callouts -> CalloutRec]
    BY <1>0 DEF TypeOK
  <2>3. /\ callout' \in [Callouts -> CalloutRec]
        /\ thr' \in [Threads -> ThreadRec]
        /\ ran' \in SUBSET Ids
    BY <1>0, <1>2, <2>1, <2>2, DueIds, RunOrParkType DEF EnterExecute
  <2>4. QED
    BY <1>0, <1>2, <2>1, <2>3 DEF EnterExecute, TypeOK
<1>3. CASE CalloutThread(e)
  BY <1>2, <1>3 DEF CalloutThread
<1>4. CASE Softint(e)
  BY <1>0, <1>4, ThreadPc DEF Softint, TypeOK
<1>5. CASE RealtimeTimein(e)
  BY <1>2, <1>5 DEF RealtimeTimein
<1>6. CASE EnterUnsafe(e)
  BY <1>0, <1>6, ThreadPc DEF EnterUnsafe, TypeOK
<1>7. CASE NestedUntimeout(e)
  BY <1>0, <1>7, ThreadPc DEF NestedUntimeout, TypeOK
<1>8. CASE FuncReturn(e)
  BY <1>0, <1>8, ThreadPc DEF FuncReturn, TypeOK
<1>9. CASE Pig(e)
  BY <1>0, <1>9, ThreadPc DEF Pig, TypeOK
<1>10. CASE CprSleep(e)
  BY <1>0, <1>10, ThreadPc DEF CprSleep, TypeOK
<1>11. CASE Finish(e)
  <2> DEFINE cp == thr[e].cp
             r == thr[e].runtime
  <2>1. e \in InFlight
    BY <1>11 DEF Finish, InFlight
  <2>2. r \in Ticks /\ ResumeAt(r) \in Ticks
    BY <1>0, ResumeType DEF TypeOK, ThreadRec
  <2>3. r % BUCKETS \in Buckets
    BY SMTT(30), <2>2, BucketType, TimeAssumption DEF Ticks
  <2>4. cp \in Callouts
    BY <1>0, <2>1, <2>3 DEF IInv, Ownership, TypeOK
  <2>5. Freed(cp) \in [Callouts -> CalloutRec]
    BY <1>0, Records DEF Freed, TypeOK
  <2>6. client' \in [Clients -> ClientRec]
    <3>1. client' = WakeCancellers(cp)
      BY <1>11 DEF Finish
    <3>2. ASSUME NEW c \in Clients
          PROVE  [client[c] EXCEPT !.pc = "woken"] \in ClientRec
      BY SMTT(30), <1>0 DEF TypeOK, ClientRec
    <3>3. QED
      BY <1>0, <3>1, <3>2 DEF WakeCancellers, TypeOK
  <2>7. RunOrPark(e, ResumeAt(r), Freed(cp))
    BY <1>11 DEF Finish
  <2>8. /\ callout' \in [Callouts -> CalloutRec]
        /\ thr' \in [Threads -> ThreadRec]
        /\ ran' \in SUBSET Ids
    BY <1>0, <2>2, <2>5, <2>7, DueIds, RunOrParkType
  <2>9. /\ cs_bucket' \in [Buckets -> SUBSET Callouts]
        /\ cs_freelist' \in SUBSET Callouts
        /\ cs_runtime' \in Ticks
    BY <1>0, <1>11, <2>2, <2>4 DEF Finish, TypeOK
  <2>10. QED
    BY <1>0, <1>11, <2>6, <2>8, <2>9 DEF Finish, TypeOK
<1>12. QED
  BY <1>1, <1>3, <1>4, <1>5, <1>6, <1>7, <1>8, <1>9, <1>10, <1>11
     DEF ThreadStep

\* No step of the clock, nor of checkpoint and resume, leaves the types.
LEMMA OtherTypes ==
    ASSUME LeastNumber, Inv,
           \/ ClockTick \/ CalloutSchedule
           \/ CprStop \/ CalloutSave \/ OtherRestore \/ CalloutRestore
    PROVE  TypeOK'
<1>. IInv
  BY DEF Inv
<1> USE DEF world, table, cprVars
<1>0. TypeOK
  BY DEF IInv
<1>1. CASE ClockTick
  <2>1. Wrap(lbolt + 1) \in Ticks
    BY SMTT(30), <1>0, WrapType, TimeAssumption DEF TypeOK, Ticks
  <2>2. QED
    BY <1>0, <1>1, <2>1 DEF ClockTick, TypeOK
<1>2. CASE CalloutSchedule
  <2>1. ScanTo(cs_runtime, lbolt) \in Ticks
    BY <1>0, ScanType DEF TypeOK
  <2>2. softcall' \in BOOLEAN /\ thr' \in [Threads -> ThreadRec]
    <3>1. CASE UNCHANGED <<softcall, thr>>
      BY <1>0, <3>1 DEF TypeOK
    <3>2. CASE Dispatch
      BY <1>0, <3>2, AwakenedType DEF Dispatch, TypeOK, PoolSleepers
    <3>3. QED
      BY <1>2, <3>1, <3>2 DEF CalloutSchedule
  <2>3. QED
    BY <1>0, <1>2, <2>1, <2>2 DEF CalloutSchedule, TypeOK
<1>3. CASE CprStop
  BY <1>0, <1>3 DEF CprStop, TypeOK
<1>4. CASE CalloutSave
  <2>1. cs_bucket' \in [Buckets -> SUBSET Callouts]
    BY <1>0, <1>4 DEF CalloutSave, TypeOK
  <2>2. ocs' \in [bucket : [Buckets -> SUBSET Callouts], runtime : Ticks]
    BY <1>0, <1>4 DEF CalloutSave, TypeOK
  <2>3. QED
    BY <1>0, <1>4, <2>1, <2>2 DEF CalloutSave, TypeOK
<1>5. CASE OtherRestore
  BY <1>0, <1>5 DEF OtherRestore, TypeOK
<1>6. CASE CalloutRestore
  <2>1. cs_bucket' \in [Buckets -> SUBSET Callouts]
    BY <1>0, <1>6 DEF CalloutRestore, TypeOK
  <2>2. thr' \in [Threads -> ThreadRec]
    BY <1>0, <1>6, AwakenedType DEF CalloutRestore, TypeOK
  <2>3. ocs' \in [bucket : [Buckets -> SUBSET Callouts], runtime : Ticks]
    BY <1>6, Records DEF CalloutRestore
  <2>4. QED
    BY <1>0, <1>6, <2>1, <2>2, <2>3 DEF CalloutRestore, TypeOK
<1>7. QED
  BY <1>1, <1>2, <1>3, <1>4, <1>5, <1>6
------------------------------------------------------------------------------
\* A step that leaves the table, the clients and the callouts in flight alone
\* preserves the invariant, if only an idle MT-unsafe client takes
\* unsafe_driver.
LEMMA Quiet ==
    ASSUME Inv, TypeOK',
           UNCHANGED <<cs_bucket, cs_freelist, callout, client, ran>>,
           NothingSaved',
           \A e \in Threads :
              /\ e \in InFlight' <=> e \in InFlight
              /\ e \in InFlight => /\ thr'[e].cp = thr[e].cp
                                   /\ thr'[e].runtime = thr[e].runtime,
           \A c \in Clients : unsafe_driver' = c =>
              unsafe_driver = c \/ (c \in UnsafeClients /\ client[c].pc = "idle")
    PROVE  Inv'
<1>. IInv
  BY DEF Inv
<1>1. InTable' = InTable /\ Pending' = Pending /\ InFlight' = InFlight
  <2>1. InTable' = InTable
    BY DEF InTable
  <2>2. Pending' = Pending
    BY <2>1 DEF Pending, Executing
  <2>3. InFlight' = InFlight
    BY DEF InFlight
  <2>4. QED
    BY <2>1, <2>2, <2>3
<1>2. \A e \in InFlight : e \in Threads
  BY DEF InFlight
<1>3. Ownership'
  BY SMTT(30), <1>1, <1>2 DEF IInv, Ownership, Executing
<1>4. IdBook'
  BY SMTT(30), <1>1 DEF IInv, IdBook
<1>5. RanBook'
  BY <1>1 DEF IInv, RanBook
<1>6. Cancelling'
  BY <1>1 DEF IInv, Cancelling, Executing
<1>7. UnsafeBook'
  BY <1>1, ClientAssumption DEF IInv, UnsafeBook, Unsafe
<1>8. QED
  BY <1>3, <1>4, <1>5, <1>6, <1>7 DEF IInv, Inv

\* Setting the pc of one thread, from a pc in flight to another or from one of
\* a parked thread to another, keeps the callouts in flight.
LEMMA SamePlace ==
    ASSUME TypeOK, NEW e \in Threads, NEW rec \in ThreadRec,
           rec.pc \in {"pool", "signalled"} <=> thr[e].pc \in {"pool", "signalled"},
           thr[e].pc \in {"pool", "signalled"}
              \/ (rec.cp = thr[e].cp /\ rec.runtime = thr[e].runtime),
           thr' = [thr EXCEPT ![e] = rec]
    PROVE  \A x \in Threads :
              /\ x \in InFlight' <=> x \in InFlight
              /\ x \in InFlight => /\ thr'[x].cp = thr[x].cp
                                   /\ thr'[x].runtime = thr[x].runtime
BY DEF TypeOK, InFlight

\* The same when only the pc of a thread changes.
LEMMA SamePc ==
    ASSUME TypeOK, NEW e \in Threads,
           NEW p \in {"pool", "signalled", "unsafe", "func", "nested", "pig",
                      "relock", "cprwait"},
           p \in {"pool", "signalled"} <=> thr[e].pc \in {"pool", "signalled"},
           thr' = [thr EXCEPT ![e].pc = p]
    PROVE  \A x \in Threads :
              /\ x \in InFlight' <=> x \in InFlight
              /\ x \in InFlight => /\ thr'[x].cp = thr[x].cp
                                   /\ thr'[x].runtime = thr[x].runtime
BY DEF TypeOK, InFlight, ThreadRec

\* The quiet steps.
LEMMA QuietSteps ==
    ASSUME Inv, TypeOK',
           \/ \E c \in Clients : EnterDriver(c) \/ LeaveDriver(c)
           \/ \E e \in Threads :
                 \/ BackToSleep(e) \/ Softint(e) \/ EnterUnsafe(e)
                 \/ NestedUntimeout(e) \/ FuncReturn(e) \/ Pig(e) \/ CprSleep(e)
           \/ ClockTick \/ CalloutSchedule
           \/ CprStop \/ CalloutSave \/ OtherRestore \/ CalloutRestore
           \/ UNCHANGED vars
    PROVE  Inv'
<1>. IInv
  BY DEF Inv
<1> USE DEF world, table, cprVars
<1> DEFINE Flight ==
        \A e \in Threads :
              /\ e \in InFlight' <=> e \in InFlight
              /\ e \in InFlight => /\ thr'[e].cp = thr[e].cp
                                   /\ thr'[e].runtime = thr[e].runtime
           Lock ==
        \A c \in Clients : unsafe_driver' = c =>
           unsafe_driver = c \/ (c \in UnsafeClients /\ client[c].pc = "idle")
<1>0. TypeOK /\ NothingSaved
  BY DEF IInv
<1>a. thr' = thr => Flight
  BY DEF InFlight
<1>b. unsafe_driver' = unsafe_driver => Lock
  OBVIOUS
<1>c. ocs' = ocs => NothingSaved'
  BY <1>0 DEF NothingSaved
<1>1. ASSUME NEW c \in Clients, EnterDriver(c) \/ LeaveDriver(c)
      PROVE  Inv'
  <2>1. Lock
    BY <1>1, NoneAssumption DEF EnterDriver, LeaveDriver
  <2>2. QED
    BY <1>1, <1>a, <1>c, <2>1, Quiet DEF EnterDriver, LeaveDriver
<1>2. ASSUME NEW e \in Threads, BackToSleep(e)
      PROVE  Inv'
  <2>1. Flight
    BY <1>0, <1>2, SamePlace, Records DEF BackToSleep, Parked
  <2>2. QED
    BY <1>2, <1>b, <1>c, <2>1, Quiet DEF BackToSleep
<1>3. ASSUME NEW e \in Threads, Softint(e)
      PROVE  Inv'
  <2>1. Flight
    BY <1>0, <1>3, SamePc DEF Softint
  <2>2. QED
    BY <1>3, <1>b, <1>c, <2>1, Quiet DEF Softint
<1>4. ASSUME NEW e \in Threads, EnterUnsafe(e)
      PROVE  Inv'
  <2>1. Flight
    BY <1>0, <1>4, SamePc DEF EnterUnsafe
  <2>2. Lock
    BY <1>4, ThreadAssumption DEF EnterUnsafe
  <2>3. QED
    BY <1>4, <1>c, <2>1, <2>2, Quiet DEF EnterUnsafe
<1>5. ASSUME NEW e \in Threads, NestedUntimeout(e) \/ Pig(e) \/ CprSleep(e)
      PROVE  Inv'
  <2>1. Flight
    BY <1>0, <1>5, SamePc DEF NestedUntimeout, Pig, CprSleep
  <2>2. QED
    BY <1>5, <1>b, <1>c, <2>1, Quiet DEF NestedUntimeout, Pig, CprSleep
<1>6. ASSUME NEW e \in Threads, FuncReturn(e)
      PROVE  Inv'
  <2>1. Flight
    BY <1>0, <1>6, SamePc DEF FuncReturn
  <2>2. Lock
    BY <1>6, NoneAssumption DEF FuncReturn
  <2>3. QED
    BY <1>6, <1>c, <2>1, <2>2, Quiet DEF FuncReturn
<1>7. CASE ClockTick \/ CprStop \/ OtherRestore \/ UNCHANGED vars
  BY <1>7, <1>a, <1>b, <1>c, Quiet DEF ClockTick, CprStop, OtherRestore, vars
<1>8. CASE CalloutSchedule
  <2>1. Flight
    <3>1. CASE thr' = thr
      BY <3>1, <1>a
    <3>2. ASSUME NEW e \in PoolSleepers, thr' = [thr EXCEPT ![e] = Awakened(e)]
          PROVE  Flight
      BY <1>0, <3>2, SamePlace, AwakenedType
         DEF PoolSleepers, Awakened, TypeOK, ThreadRec
    <3>3. QED
      BY <1>8, <3>1, <3>2 DEF CalloutSchedule, Dispatch
  <2>2. QED
    BY <1>8, <1>b, <1>c, <2>1, Quiet DEF CalloutSchedule
<1>9. CASE CalloutSave
  <2>1. cs_bucket' = cs_bucket
    BY <1>0, <1>9 DEF CalloutSave, SaveSkips, TypeOK
  <2>2. NothingSaved'
    BY <1>9 DEF CalloutSave, SaveSkips, NothingSaved
  <2>3. QED
    BY <1>9, <1>a, <1>b, <2>1, <2>2, Quiet DEF CalloutSave
<1>10. CASE CalloutRestore
  <2>1. cs_bucket' = cs_bucket
    BY <1>0, <1>10 DEF CalloutRestore, NothingSaved, TypeOK
  <2>2. NothingSaved'
    BY <1>10 DEF CalloutRestore, NothingSaved, NoSave
  <2>3. Flight
    BY SMTT(30), <1>0, <1>10 DEF CalloutRestore, PoolSleepers, Awakened, InFlight, TypeOK,
                       ThreadRec
  <2>4. QED
    BY <1>10, <1>b, <2>1, <2>2, <2>3, Quiet DEF CalloutRestore
<1>11. QED
  BY <1>1, <1>2, <1>3, <1>4, <1>5, <1>6, <1>7, <1>8, <1>9, <1>10
------------------------------------------------------------------------------
(* timeout() and untimeout() *)

\* The ids of the callouts in the table are not None.
LEMMA TableIds ==
    ASSUME Inv, NEW cp \in InTable
    PROVE  cp \in Callouts /\ callout[cp].id \in Ids /\ callout[cp].id # None
BY SMTT(30), NoneAssumption DEF IInv, Inv, TypeOK, IdBook, InTable, Ids, Buckets

\* callout_delete() searches the right bucket: what it does not find is not in
\* the table.
LEMMA SearchFinds ==
    ASSUME Inv, NEW id \in Ids
    PROVE  /\ \A cp \in InTable : callout[cp].id = id <=> cp \in Matches(id)
           /\ Matches(id) \subseteq InTable
<1>. IInv
  BY DEF Inv
<1>1. id[1] \in Buckets
  BY DEF Ids
<1>2. QED
  BY SMTT(30), <1>1 DEF IInv, IdBook, InTable, Matches

\* When untimeout() returns -1 because the id is not found, or because the
\* callout it slept on has been retired, the id is not in the table.
LEMMA GoneFromTable ==
    ASSUME Inv, NEW c \in Clients,
           \/ UntimeoutGone(c)
           \/ Recheck(c) /\ ~StillExecuting(c)
           \/ Reenter(c)
    PROVE  /\ client[c].id \in Ids
           /\ \A cp \in InTable : callout[cp].id # client[c].id
<1>. IInv
  BY DEF Inv
<1>0. client[c].id \in Ids \cup {None}
  BY DEF IInv, TypeOK, ClientRec
<1>1. CASE UntimeoutGone(c)
  <2>1. client[c].id \in Ids
    BY <1>0, <1>1 DEF UntimeoutGone
  <2>2. QED
    BY <1>1, <2>1, SearchFinds DEF UntimeoutGone
<1>2. CASE Recheck(c) /\ ~StillExecuting(c)
  BY <1>0, <1>2 DEF Recheck, IInv, Cancelling, StillExecuting
<1>3. CASE Reenter(c)
  BY <1>0, <1>3 DEF Reenter, IInv, Cancelling
<1>4. QED
  BY <1>1, <1>2, <1>3

\* A client that gives up an id no callout still has to run with.
LEMMA DropStep ==
    ASSUME Inv, TypeOK', NEW c \in Clients, DropId(c),
           UNCHANGED <<cs_bucket, cs_freelist, callout, thr, ocs>>,
           client[c].id # None,
           \A cp \in Pending : callout[cp].id # client[c].id,
           \/ unsafe_driver' = unsafe_driver
           \/ unsafe_driver' = c /\ c \in UnsafeClients
    PROVE  Inv'
<1>. IInv
  BY DEF Inv
<1>1. InTable' = InTable /\ Pending' = Pending /\ InFlight' = InFlight
  BY DEF InTable, Pending, Executing, InFlight
<1>2. /\ client'[c] = Idle
      /\ \A x \in Clients : x # c => client'[x] = client[x]
      /\ client'[c].id = None /\ client'[c].pc = "idle"
  BY DEF DropId, IInv, TypeOK, Idle
<1>3. Ownership' /\ NothingSaved'
  BY <1>1 DEF IInv, Ownership, Executing, NothingSaved
<1>4. IdBook'
  <2>1. \A cp \in Pending' : \E x \in Clients : client'[x].id = callout'[cp].id
    <3> TAKE cp \in Pending'
    <3>1. PICK x \in Clients : client[x].id = callout[cp].id
      BY <1>1 DEF IInv, IdBook
    <3>2. x # c
      BY <1>1, <3>1
    <3>3. QED
      BY <1>2, <3>1, <3>2
  <2>2. \A c1, c2 \in Clients :
          client'[c1].id # None /\ client'[c1].id = client'[c2].id => c1 = c2
    BY SMTT(30), <1>2 DEF IInv, IdBook
  <2>3. QED
    BY <1>1, <2>1, <2>2 DEF IInv, IdBook
<1>5. RanBook'
  <2>1. ASSUME NEW id \in ran'
        PROVE  \E x \in Clients : client'[x].id = id
    <3>1. id \in ran /\ id # client[c].id
      BY DEF DropId
    <3>2. PICK x \in Clients : client[x].id = id
      BY <3>1 DEF IInv, RanBook
    <3>3. QED
      BY <1>2, <3>1, <3>2
  <2>2. ASSUME NEW x \in Clients, client'[x].id # None
        PROVE  client'[x].id \in ran'
                 <=> \A cp \in Pending' : callout'[cp].id # client'[x].id
    <3>1. x # c /\ client'[x] = client[x]
      BY <1>2, <2>2
    <3>2. client[x].id # client[c].id
      BY <3>1, <2>2 DEF IInv, IdBook
    <3>3. client[x].id \in ran' <=> client[x].id \in ran
      BY <3>2 DEF DropId
    <3>4. QED
      BY SMTT(30), <1>1, <2>2, <3>1, <3>3 DEF IInv, RanBook
  <2>3. QED
    BY <2>1, <2>2 DEF RanBook
<1>6. Cancelling'
  <2> SUFFICES ASSUME NEW x \in Clients, client'[x].pc # "idle"
               PROVE  Cancelling!(x)!2'
    BY DEF Cancelling
  <2>1. x # c /\ client'[x] = client[x]
    BY <1>2
  <2>2. QED
    BY <1>1, <2>1 DEF IInv, Cancelling, Executing
<1>7. UnsafeBook'
  <2>1. ASSUME NEW x \in UnsafeClients, NEW cp \in InTable',
               callout'[cp].id = client'[x].id
        PROVE  Unsafe(cp)'
    <3>1. callout[cp].id # None
      BY <1>1, TableIds
    <3>2. x # c /\ x \in Clients
      BY <1>2, <2>1, <3>1, ClientAssumption
    <3>3. QED
      BY <1>1, <1>2, <2>1, <3>2 DEF IInv, UnsafeBook, Unsafe
  <2>2. QED
    BY <2>1 DEF IInv, UnsafeBook, Unsafe
<1>8. QED
  BY <1>3, <1>4, <1>5, <1>6, <1>7 DEF IInv, Inv

\* The steps in which a client gives up its id.
LEMMA DropSteps ==
    ASSUME Inv, TypeOK', NEW c \in Clients,
           \/ Forget(c)
           \/ UntimeoutGone(c)
           \/ Recheck(c) /\ ~StillExecuting(c) /\ c \notin UnsafeClients
           \/ Reenter(c)
    PROVE  Inv'
<1>. IInv
  BY DEF Inv
<1> USE DEF world, table, cprVars
<1>0. \A cp \in Pending : cp \in InTable
  BY DEF Pending
<1>1. CASE Forget(c)
  <2>1. client[c].id # None
    BY <1>1, NoneAssumption DEF Forget, IInv, TypeOK, Ids, Buckets
  <2>2. \A cp \in Pending : callout[cp].id # client[c].id
    BY <1>1, <2>1 DEF Forget, IInv, RanBook
  <2>3. QED
    BY <1>1, <2>1, <2>2, DropStep DEF Forget
<1>2. CASE UntimeoutGone(c)
  <2>1. client[c].id # None /\ \A cp \in Pending : callout[cp].id # client[c].id
    BY <1>0, <1>2, GoneFromTable DEF UntimeoutGone
  <2>2. QED
    BY <1>2, <2>1, DropStep DEF UntimeoutGone
<1>3. CASE Recheck(c) /\ ~StillExecuting(c) /\ c \notin UnsafeClients
  <2>1. client[c].id # None /\ \A cp \in Pending : callout[cp].id # client[c].id
    BY <1>0, <1>3, GoneFromTable DEF Recheck, IInv, Cancelling
  <2>2. DropId(c)
    BY <1>3 DEF Recheck
  <2>3. QED
    BY <1>3, <2>1, <2>2, DropStep DEF Recheck
<1>4. CASE Reenter(c)
  <2>1. client[c].id # None /\ \A cp \in Pending : callout[cp].id # client[c].id
    BY <1>0, <1>4, GoneFromTable DEF Reenter, IInv, Cancelling
  <2>2. c \in UnsafeClients
    BY <1>4 DEF Reenter, IInv, Cancelling
  <2>3. QED
    BY <1>4, <2>1, <2>2, DropStep DEF Reenter
<1>5. QED
  BY <1>1, <1>2, <1>3, <1>4

\* A client that moves about inside untimeout() keeps its id; what it sleeps
\* on is what it looks for.
LEMMA SleepStep ==
    ASSUME Inv, TypeOK', NEW c \in Clients, NEW p, NEW cp,
           UNCHANGED <<cs_bucket, cs_freelist, callout, thr, ocs, ran>>,
           \A x \in Clients : client'[x].id = client[x].id,
           \A x \in Clients : x # c => client'[x] = client[x],
           client'[c].pc = p, client'[c].cp = cp,
           client[c].id # None, cp # None,
           p = "reenter" => c \in UnsafeClients,
           \A x \in InTable : callout[x].id = client[c].id =>
              p # "reenter" /\ x = cp /\ Executing(x),
           unsafe_driver' # c,
           unsafe_driver' = unsafe_driver \/ unsafe_driver' = None
    PROVE  Inv'
<1>. IInv
  BY DEF Inv
<1>1. InTable' = InTable /\ Pending' = Pending /\ InFlight' = InFlight
  BY SMTT(30) DEF InTable, Pending, Executing, InFlight
<1>2. Ownership' /\ NothingSaved'
  BY <1>1 DEF IInv, Ownership, Executing, NothingSaved
<1>3. IdBook' /\ RanBook'
  BY SMTT(30), <1>1 DEF IInv, IdBook, RanBook
<1>4. Cancelling'
  BY SMTT(30), <1>1, NoneAssumption DEF IInv, Cancelling, Executing
<1>5. UnsafeBook'
  BY SMTT(30), <1>1, ClientAssumption, NoneAssumption DEF IInv, UnsafeBook, Unsafe
<1>6. QED
  BY <1>2, <1>3, <1>4, <1>5 DEF IInv, Inv

\* A canceller that goes to sleep, or back to sleep, in callout_delete().
LEMMA SleepSteps ==
    ASSUME Inv, TypeOK', NEW c \in Clients,
           \/ UntimeoutExecuting(c)
           \/ Recheck(c) /\ (StillExecuting(c) \/ c \in UnsafeClients)
           \/ SpuriousSetrun(c)
    PROVE  Inv'
<1>. IInv
  BY DEF Inv
<1> USE DEF world, table, cprVars
<1> DEFINE Moves(p, cp) ==
        /\ \A x \in Clients : client'[x].id = client[x].id
        /\ \A x \in Clients : x # c => client'[x] = client[x]
        /\ client'[c].pc = p /\ client'[c].cp = cp
<1>0. TypeOK
  BY DEF IInv
<1>1. CASE UntimeoutExecuting(c)
  <2>1. PICK cp \in Matches(client[c].id) :
          /\ Executing(cp)
          /\ client' = [client EXCEPT ![c] =
                            [@ EXCEPT !.pc = "c_done", !.cp = cp]]
          /\ unsafe_driver' = IF Unsafe(cp) THEN None ELSE unsafe_driver
    BY <1>1 DEF UntimeoutExecuting
  <2>2. client[c].id \in Ids /\ client[c].id # None
    BY <1>0, <1>1 DEF UntimeoutExecuting, TypeOK, ClientRec
  <2>3. cp \in InTable /\ callout[cp].id = client[c].id
    BY <2>1, <2>2, SearchFinds
  <2>4. cp \in Callouts /\ cp # None
    BY <2>3, TableIds, NoneAssumption
  <2>5. \A x \in InTable : callout[x].id = client[c].id => x = cp /\ Executing(x)
    BY SMTT(30), <2>1, <2>3 DEF IInv, IdBook
  <2>6. unsafe_driver' # c
    <3>1. CASE c \in UnsafeClients
      BY <2>1, <2>3, <3>1, NoneAssumption DEF IInv, UnsafeBook, Unsafe
    <3>2. CASE c \notin UnsafeClients
      BY <2>1, <3>2, NoneAssumption DEF IInv, UnsafeBook, Unsafe
    <3>3. QED
      BY <3>1, <3>2
  <2>7. Moves("c_done", cp)
    BY <1>0, <2>1 DEF TypeOK, ClientRec
  <2>8. unsafe_driver' = unsafe_driver \/ unsafe_driver' = None
    BY <2>1
  <2>9. UNCHANGED <<cs_bucket, cs_freelist, callout, thr, ocs, ran>>
    BY <1>1 DEF UntimeoutExecuting
  <2>10. QED
    BY SMTT(30), <2>2, <2>4, <2>5, <2>6, <2>7, <2>8, <2>9, SleepStep
<1>2. CASE Recheck(c) /\ StillExecuting(c)
  <2>1. /\ client[c].pc = "woken"
        /\ ran' = ran
        /\ client' = [client EXCEPT ![c].pc = "c_done"]
    BY <1>2 DEF Recheck
  <2>2. Moves("c_done", client[c].cp)
    BY <1>0, <2>1 DEF TypeOK, ClientRec
  <2>3. QED
    BY SMTT(30), <1>2, <2>1, <2>2, SleepStep DEF Recheck, IInv, Cancelling
<1>3. CASE Recheck(c) /\ ~StillExecuting(c) /\ c \in UnsafeClients
  <2>1. client[c].pc = "woken" /\ ran' = ran /\ Moves("reenter", client[c].cp)
    BY SMTT(30), <1>0, <1>3 DEF Recheck, TypeOK, ClientRec
  <2>2. \A x \in InTable : callout[x].id # client[c].id
    BY <1>3, GoneFromTable
  <2>3. QED
    BY SMTT(30), <1>3, <2>1, <2>2, SleepStep DEF Recheck, IInv, Cancelling
<1>4. CASE SpuriousSetrun(c)
  <2>1. client[c].pc = "c_done" /\ Moves("woken", client[c].cp)
    BY <1>0, <1>4 DEF SpuriousSetrun, TypeOK, ClientRec
  <2>2. QED
    BY SMTT(30), <1>4, <2>1, SleepStep DEF SpuriousSetrun, IInv, Cancelling
<1>5. QED
  BY <1>1, <1>2, <1>3, <1>4
------------------------------------------------------------------------------
\* callout_insert() files a free structure under an id nobody knows.
LEMMA InsertStep ==
    ASSUME Inv, TypeOK', NEW c \in Clients, NEW delta \in Deltas,
           Timeout(c, delta)
    PROVE  Inv'
<1>. IInv
  BY DEF Inv
<1> USE DEF world, table, cprVars
<1> DEFINE b == RuntimeFor(delta) % BUCKETS
<1>1. PICK cp \in Allocatable, id \in ({b} \X Seqs) \ IdsInUse :
             /\ callout' = [callout EXCEPT ![cp] =
                    [id |-> id,
                     flags |-> IF unsafe_driver = c THEN {"UNSAFE_DRIVER"} ELSE {},
                     executor |-> None, runtime |-> RuntimeFor(delta),
                     due |-> Wrap(lbolt + delta)]]
             /\ cs_freelist' = cs_freelist \ {cp}
             /\ cs_bucket' = [cs_bucket EXCEPT ![b] = @ \cup {cp}]
             /\ client' = [client EXCEPT ![c] = [Idle EXCEPT !.id = id]]
  BY DEF Timeout
<1>2. b \in Buckets
  <2>1. lbolt \in Int /\ cs_curtime \in Int /\ delta \in Int
    BY SMTT(30), TimeAssumption DEF IInv, TypeOK, Ticks
  <2>2. RuntimeFor(delta) \in Int
    BY SMTT(30), <2>1, WrapType, TimeAssumption DEF RuntimeFor, Ticks
  <2>3. QED
    BY <2>2, BucketType
<1> HIDE DEF b
<1>3. id \in Ids /\ id[1] = b /\ id # None
  BY <1>1, <1>2, NoneAssumption DEF Ids, Buckets
<1>4. /\ cp \in Callouts
      /\ cp \notin InTable
  BY DEF Allocatable, IInv, Ownership, TypeOK
<1>5. /\ \A x \in Clients : client[x].id # id
      /\ \A x \in InTable : callout[x].id # id
  BY <1>1 DEF IdsInUse
<1>6. /\ callout'[cp].id = id
      /\ callout'[cp].executor = None
      /\ callout'[cp].flags = IF unsafe_driver = c THEN {"UNSAFE_DRIVER"} ELSE {}
      /\ \A x \in Callouts : x # cp => callout'[x] = callout[x]
  BY <1>1, <1>4 DEF IInv, TypeOK
<1>7. /\ client'[c].id = id /\ client'[c].pc = "idle"
      /\ \A x \in Clients : x # c => client'[x] = client[x]
  BY <1>1 DEF IInv, TypeOK, Idle
<1>8. /\ cp \in cs_bucket'[b]
      /\ \A x \in Buckets, y \in Callouts : y # cp \/ x # b =>
            (y \in cs_bucket'[x] <=> y \in cs_bucket[x])
  BY <1>1, <1>2, <1>4 DEF IInv, TypeOK
<1>9. \A x \in InTable : x \in Callouts /\ x # cp
  BY <1>4, TableIds
<1>10. InTable' = InTable \cup {cp}
  BY SMTT(30), <1>2, <1>8, <1>1 DEF InTable, IInv, TypeOK
<1>11. Pending' = Pending \cup {cp}
  BY <1>6, <1>9, <1>10 DEF Pending, Executing
<1>12. thr' = thr /\ unsafe_driver' = unsafe_driver /\ ran' = ran /\ ocs' = ocs
       /\ client[c].id = None /\ client[c].pc = "idle"
       /\ (c \in UnsafeClients => unsafe_driver = c)
  BY DEF Timeout, MayCall
<1>13. InFlight' = InFlight /\ \A e \in InFlight : e \in Threads
  BY <1>12 DEF InFlight
<1>14. \A x \in Buckets : \A y \in cs_bucket[x] : y \in InTable
  BY DEF InTable
<1>15. Ownership'
  <2>1. \A b1, b2 \in Buckets : b1 # b2 => cs_bucket'[b1] \cap cs_bucket'[b2] = {}
    <3> SUFFICES ASSUME NEW b1 \in Buckets, NEW b2 \in Buckets, b1 # b2,
                        NEW y \in cs_bucket'[b1], y \in cs_bucket'[b2]
                 PROVE  FALSE
      OBVIOUS
    <3>1. y \in Callouts
      BY DEF TypeOK
    <3>2. y # cp
      BY <1>4, <1>8, <1>14, <3>1
    <3>3. y \in cs_bucket[b1] /\ y \in cs_bucket[b2]
      BY <1>8, <3>1, <3>2
    <3>4. QED
      BY <3>3 DEF IInv, Ownership
  <2>2. cs_freelist' \cap InTable' = {}
    BY <1>1, <1>10 DEF IInv, Ownership
  <2>3. ASSUME NEW e \in InFlight'
        PROVE  /\ thr'[e].cp \in cs_bucket'[thr'[e].runtime % BUCKETS]
               /\ callout'[thr'[e].cp].executor = e
    <3>1. thr[e].runtime % BUCKETS \in Buckets
      BY SMTT(30), <1>13, BucketType, TimeAssumption DEF IInv, TypeOK, ThreadRec, Ticks
    <3>2. /\ thr[e].cp \in cs_bucket[thr[e].runtime % BUCKETS]
          /\ callout[thr[e].cp].executor = e
      BY <1>13 DEF IInv, Ownership
    <3>3. thr[e].cp \in InTable
      BY <3>1, <3>2, <1>14
    <3>4. QED
      BY <1>6, <1>8, <1>9, <1>12, <3>1, <3>2, <3>3
  <2>4. \A x \in InTable' : Executing(x)' => \E e \in InFlight' : thr'[e].cp = x
    BY <1>6, <1>9, <1>10, <1>12, <1>13 DEF IInv, Ownership, Executing
  <2>5. QED
    BY <2>1, <2>2, <2>3, <2>4 DEF Ownership
<1>16. IdBook'
  <2>1. \A x \in Buckets : \A y \in cs_bucket'[x] :
           callout'[y].id \in Ids /\ callout'[y].id[1] = x
    <3> SUFFICES ASSUME NEW x \in Buckets, NEW y \in cs_bucket'[x]
                 PROVE  callout'[y].id \in Ids /\ callout'[y].id[1] = x
      OBVIOUS
    <3>1. y \in Callouts
      BY DEF TypeOK
    <3>2. CASE y = cp
      BY <1>3, <1>4, <1>6, <1>8, <1>14, <3>1, <3>2
    <3>3. CASE y # cp
      BY SMTT(30), <1>6, <1>8, <3>1, <3>3 DEF IInv, IdBook
    <3>4. QED
      BY <3>2, <3>3
  <2>2. \A x, y \in InTable' : callout'[x].id = callout'[y].id => x = y
    BY SMTT(30), <1>5, <1>6, <1>9, <1>10 DEF IInv, IdBook
  <2>3. \A c1, c2 \in Clients :
          client'[c1].id # None /\ client'[c1].id = client'[c2].id => c1 = c2
    BY SMTT(30), <1>5, <1>7 DEF IInv, IdBook
  <2>4. \A x \in Pending' : \E y \in Clients : client'[y].id = callout'[x].id
    <3> TAKE x \in Pending'
    <3>1. CASE x = cp
      BY <1>6, <1>7, <3>1
    <3>2. CASE x # cp
      <4>1. x \in Pending /\ x \in InTable
        BY <1>11, <3>2 DEF Pending
      <4>2. PICK y \in Clients : client[y].id = callout[x].id
        BY <4>1 DEF IInv, IdBook
      <4>3. callout[x].id # None
        BY <4>1, TableIds
      <4>4. QED
        BY <1>6, <1>7, <1>9, <1>12, <4>1, <4>2, <4>3
    <3>3. QED
      BY <3>1, <3>2
  <2>5. QED
    BY <2>1, <2>2, <2>3, <2>4 DEF IdBook
<1>17. RanBook'
  <2>1. id \notin ran
    BY <1>5 DEF IInv, RanBook
  <2>2. ASSUME NEW i \in ran'
        PROVE  \E x \in Clients : client'[x].id = i
    <3>1. PICK x \in Clients : client[x].id = i
      BY <1>12 DEF IInv, RanBook
    <3>2. i # None
      BY <1>12, NoneAssumption DEF IInv, TypeOK, Ids, Buckets
    <3>3. QED
      BY <1>7, <1>12, <3>1, <3>2
  <2>3. ASSUME NEW x \in Clients, client'[x].id # None
        PROVE  client'[x].id \in ran'
                 <=> \A y \in Pending' : callout'[y].id # client'[x].id
    <3>1. CASE x = c
      BY <1>6, <1>7, <1>11, <1>12, <2>1, <3>1
    <3>2. CASE x # c
      <4>1. client'[x] = client[x] /\ client[x].id # id
        BY <1>5, <1>7, <3>2
      <4>2. \A y \in Pending : y \in Callouts /\ callout'[y].id = callout[y].id
        BY <1>6, <1>9 DEF Pending
      <4>3. QED
        BY SMTT(30), <1>6, <1>11, <1>12, <2>3, <4>1, <4>2 DEF IInv, RanBook
    <3>3. QED
      BY <3>1, <3>2
  <2>4. QED
    BY <2>2, <2>3 DEF RanBook
<1>18. Cancelling'
  <2> SUFFICES ASSUME NEW x \in Clients, client'[x].pc # "idle"
               PROVE  Cancelling!(x)!2'
    BY DEF Cancelling
  <2>1. x # c /\ client'[x] = client[x] /\ client[x].id # id
    BY <1>5, <1>7
  <2>2. QED
    BY SMTT(30), <1>6, <1>9, <1>10, <1>12, <2>1 DEF IInv, Cancelling, Executing
<1>19. UnsafeBook'
  <2>1. ASSUME NEW x \in UnsafeClients, NEW y \in InTable',
               callout'[y].id = client'[x].id
        PROVE  Unsafe(y)'
    <3>1. x \in Clients
      BY ClientAssumption
    <3>2. CASE y = cp
      <4>1. x = c
        BY <1>5, <1>6, <1>7, <2>1, <3>1, <3>2
      <4>2. QED
        BY <1>6, <1>12, <3>2, <4>1 DEF Unsafe
    <3>3. CASE y # cp
      <4>1. y \in InTable /\ callout'[y] = callout[y] /\ x # c
        BY <1>5, <1>6, <1>7, <1>9, <1>10, <2>1, <3>3
      <4>2. QED
        BY <1>7, <2>1, <3>1, <4>1 DEF IInv, UnsafeBook, Unsafe
    <3>4. QED
      BY <3>2, <3>3
  <2>2. QED
    BY <1>12, <2>1 DEF IInv, UnsafeBook
<1>20. QED
  BY <1>12, <1>15, <1>16, <1>17, <1>18, <1>19 DEF IInv, Inv, NothingSaved
------------------------------------------------------------------------------
\* callout_delete() unlinks a callout that nobody executes.
LEMMA CancelStep ==
    ASSUME Inv, TypeOK', NEW c \in Clients, UntimeoutPending(c)
    PROVE  Inv'
<1>. IInv
  BY DEF Inv
<1> USE DEF world, table, cprVars
<1> DEFINE id == client[c].id
<1>1. PICK cp \in Matches(id) :
          /\ ~Executing(cp)
          /\ cs_bucket' = [cs_bucket EXCEPT ![id[1]] = @ \ {cp}]
          /\ cs_freelist' = cs_freelist \cup {cp}
          /\ callout' = Freed(cp)
  BY DEF UntimeoutPending
<1>2. id \in Ids /\ id # None
  BY DEF UntimeoutPending, IInv, TypeOK, ClientRec
<1>3. id[1] \in Buckets
  BY <1>2 DEF Ids
<1>4. cp \in InTable /\ callout[cp].id = id /\ cp \in cs_bucket[id[1]]
  BY <1>1, <1>2, SearchFinds DEF Matches
<1>5. cp \in Callouts
  BY <1>4, TableIds
<1>6. /\ thr' = thr /\ unsafe_driver' = unsafe_driver /\ ocs' = ocs
      /\ client[c].pc = "idle" /\ ran' = ran \ {id}
  BY DEF UntimeoutPending, MayCall, DropId
<1>7. /\ client'[c].id = None /\ client'[c].pc = "idle"
      /\ \A x \in Clients : x # c => client'[x] = client[x]
  BY DEF UntimeoutPending, DropId, IInv, TypeOK, Idle
<1> HIDE DEF id
<1>8. \A x \in Callouts : x # cp => callout'[x] = callout[x]
  BY <1>1, <1>5 DEF Freed, IInv, TypeOK
<1>9. \A x \in Buckets : cs_bucket'[x] = cs_bucket[x] \ {cp}
  BY SMTT(30), <1>1, <1>3, <1>4 DEF IInv, TypeOK, Ownership
<1>10. \A x \in InTable : x \in Callouts
  BY TableIds
<1>11. InTable' = InTable \ {cp}
  BY SMTT(30), <1>9 DEF InTable
<1>12. Pending' = Pending \ {cp} /\ cp \in Pending
  BY <1>1, <1>4, <1>8, <1>10, <1>11 DEF Pending, Executing
<1>13. InFlight' = InFlight /\ \A e \in InFlight : e \in Threads
  BY <1>6 DEF InFlight
<1>14. \A x \in InTable' : x \in InTable /\ callout'[x] = callout[x]
                           /\ callout[x].id # id
  BY <1>4, <1>8, <1>10, <1>11 DEF IInv, IdBook
<1>15. Ownership'
  <2>1. \A b1, b2 \in Buckets : b1 # b2 => cs_bucket'[b1] \cap cs_bucket'[b2] = {}
    BY <1>9 DEF IInv, Ownership
  <2>2. cs_freelist' \cap InTable' = {}
    BY <1>1, <1>11 DEF IInv, Ownership
  <2>3. ASSUME NEW e \in InFlight'
        PROVE  /\ thr'[e].cp \in cs_bucket'[thr'[e].runtime % BUCKETS]
               /\ callout'[thr'[e].cp].executor = e
    <3>1. thr[e].runtime % BUCKETS \in Buckets
      BY SMTT(30), <1>13, BucketType, TimeAssumption DEF IInv, TypeOK, ThreadRec, Ticks
    <3>2. /\ thr[e].cp \in cs_bucket[thr[e].runtime % BUCKETS]
          /\ callout[thr[e].cp].executor = e
      BY <1>13 DEF IInv, Ownership
    <3>3. thr[e].cp \in Callouts
      BY <3>1, <3>2 DEF IInv, TypeOK
    <3>4. thr[e].cp # cp
      BY <1>1, <1>13, <3>2, NoneAssumption DEF Executing
    <3>5. QED
      BY <1>6, <1>8, <1>9, <3>1, <3>2, <3>3, <3>4
  <2>4. \A x \in InTable' : Executing(x)' => \E e \in InFlight' : thr'[e].cp = x
    BY <1>6, <1>13, <1>14 DEF IInv, Ownership, Executing
  <2>5. QED
    BY <2>1, <2>2, <2>3, <2>4 DEF Ownership
<1>16. IdBook'
  <2>1. \A x \in Buckets : \A y \in cs_bucket'[x] :
           callout'[y].id \in Ids /\ callout'[y].id[1] = x
    BY SMTT(30), <1>8, <1>9 DEF IInv, IdBook, TypeOK
  <2>2. \A x, y \in InTable' : callout'[x].id = callout'[y].id => x = y
    BY SMTT(30), <1>14 DEF IInv, IdBook
  <2>3. \A c1, c2 \in Clients :
          client'[c1].id # None /\ client'[c1].id = client'[c2].id => c1 = c2
    BY SMTT(30), <1>7 DEF IInv, IdBook
  <2>4. ASSUME NEW x \in Pending'
        PROVE  \E y \in Clients : client'[y].id = callout'[x].id
    <3>1. x \in Pending /\ x \in InTable'
      BY <1>12 DEF Pending
    <3>2. PICK y \in Clients : client[y].id = callout[x].id
      BY <3>1 DEF IInv, IdBook
    <3>3. y # c
      BY <1>14, <3>1, <3>2 DEF id
    <3>4. QED
      BY <1>7, <1>14, <3>1, <3>2, <3>3
  <2>5. QED
    BY <2>1, <2>2, <2>3, <2>4 DEF IdBook
<1>17. RanBook'
  <2>1. ASSUME NEW i \in ran'
        PROVE  \E x \in Clients : client'[x].id = i
    <3>1. i \in ran /\ i # id
      BY <1>6
    <3>2. PICK x \in Clients : client[x].id = i
      BY <3>1 DEF IInv, RanBook
    <3>3. QED
      BY <1>7, <3>1, <3>2 DEF id
  <2>2. ASSUME NEW x \in Clients, client'[x].id # None
        PROVE  client'[x].id \in ran'
                 <=> \A y \in Pending' : callout'[y].id # client'[x].id
    <3>1. x # c /\ client'[x] = client[x]
      BY <1>7, <2>2
    <3>2. client[x].id # id
      BY <2>2, <3>1 DEF IInv, IdBook, id
    <3>3. client[x].id \in ran' <=> client[x].id \in ran
      BY <1>6, <3>2
    <3>4. \A y \in Pending' : callout'[y].id = callout[y].id
      BY <1>14 DEF Pending
    <3>5. callout[cp].id # client[x].id
      BY <1>4, <3>2
    <3>6. client[x].id \in ran <=> \A y \in Pending : callout[y].id # client[x].id
      BY <2>2, <3>1 DEF IInv, RanBook
    <3>7. QED
      BY <1>12, <3>1, <3>3, <3>4, <3>5, <3>6
  <2>3. QED
    BY <2>1, <2>2 DEF RanBook
<1>18. Cancelling'
  <2> SUFFICES ASSUME NEW x \in Clients, client'[x].pc # "idle"
               PROVE  Cancelling!(x)!2'
    BY DEF Cancelling
  <2>1. x # c /\ client'[x] = client[x]
    BY <1>7
  <2>2. QED
    BY SMTT(30), <1>6, <1>14, <2>1 DEF IInv, Cancelling, Executing
<1>19. UnsafeBook'
  <2>1. ASSUME NEW x \in UnsafeClients, NEW y \in InTable',
               callout'[y].id = client'[x].id
        PROVE  Unsafe(y)'
    <3>1. callout[y].id # None /\ callout'[y] = callout[y] /\ y \in InTable
      BY <1>14, TableIds
    <3>2. x # c /\ x \in Clients
      BY <1>7, <2>1, <3>1, ClientAssumption
    <3>3. QED
      BY <1>7, <2>1, <3>1, <3>2 DEF IInv, UnsafeBook, Unsafe
  <2>2. QED
    BY <1>6, <2>1 DEF IInv, UnsafeBook
<1>20. QED
  BY <1>6, <1>15, <1>16, <1>17, <1>18, <1>19 DEF IInv, Inv, NothingSaved
------------------------------------------------------------------------------
\* callout_execute() retires the callouts Done of thread e (none when it has
\* just been entered) and takes the next one or leaves.
LEMMA ExecStep ==
    ASSUME Inv, TypeOK', NEW e \in Threads, NEW r \in Ticks, NEW Done, NEW co,
           Done = IF e \in InFlight THEN {thr[e].cp} ELSE {},
           \A b \in Buckets : cs_bucket'[b] = cs_bucket[b] \ Done,
           cs_freelist' = cs_freelist \cup Done,
           co \in [Callouts -> CalloutRec],
           \A x \in Callouts : x \notin Done => co[x] = callout[x],
           RunOrPark(e, r, co),
           \A c \in Clients :
              /\ client'[c].id = client[c].id
              /\ client'[c].cp = client[c].cp
              /\ client'[c].pc = client[c].pc
                   \/ (client[c].pc = "c_done" /\ client'[c].pc = "woken"),
           UNCHANGED <<unsafe_driver, ocs>>
    PROVE  Inv'
<1>. IInv
  BY DEF Inv
<1> USE DEF world, table, cprVars
<1>0. TypeOK
  BY DEF IInv
<1>1. InTable' = InTable \ Done
  BY SMTT(30) DEF InTable
<1>2. \A x \in InTable : x \in Callouts
  BY TableIds
<1>3. ASSUME NEW y \in InFlight
      PROVE  /\ y \in Threads /\ y # None
             /\ thr[y].runtime % BUCKETS \in Buckets
             /\ thr[y].cp \in cs_bucket[thr[y].runtime % BUCKETS]
             /\ thr[y].cp \in InTable
             /\ callout[thr[y].cp].executor = y
  <2>1. y \in Threads /\ y # None
    BY NoneAssumption DEF InFlight
  <2>2. thr[y].runtime % BUCKETS \in Buckets
    BY SMTT(30), <1>0, <2>1, BucketType, TimeAssumption DEF TypeOK, ThreadRec, Ticks
  <2>3. QED
    BY SMTT(30), <2>1, <2>2 DEF IInv, Ownership, InTable
<1>4. \A x \in Done : Executing(x) /\ e \in InFlight /\ x = thr[e].cp
  BY SMTT(30), <1>3 DEF Executing
<1>5. \A y \in InFlight : y # e => thr[y].cp \notin Done
  BY SMTT(30), <1>3, <1>4
<1>6. /\ \A b1, b2 \in Buckets : b1 # b2 => cs_bucket'[b1] \cap cs_bucket'[b2] = {}
      /\ cs_freelist' \cap InTable' = {}
  BY SMTT(30), <1>1 DEF IInv, Ownership
<1>7. NothingSaved'
  BY DEF IInv, NothingSaved
\* What does not depend on whether a callout is taken.
<1>8. ASSUME \A x \in InTable' : /\ callout'[x].id = callout[x].id
                                 /\ callout'[x].flags = callout[x].flags
                                 /\ Executing(x) => Executing(x)'
      PROVE  /\ \A x \in Buckets : \A y \in cs_bucket'[x] :
                    callout'[y].id \in Ids /\ callout'[y].id[1] = x
             /\ \A x, y \in InTable' : callout'[x].id = callout'[y].id => x = y
             /\ \A c1, c2 \in Clients :
                   client'[c1].id # None /\ client'[c1].id = client'[c2].id
                      => c1 = c2
             /\ Cancelling'
             /\ UnsafeBook'
  <2>1. \A x \in Buckets : \A y \in cs_bucket'[x] :
            callout'[y].id \in Ids /\ callout'[y].id[1] = x
    <3> TAKE x \in Buckets
    <3> TAKE y \in cs_bucket'[x]
    <3>1. y \in InTable' /\ y \in cs_bucket[x]
      BY DEF InTable
    <3>2. QED
      BY SMTT(30), <1>8, <3>1 DEF IInv, IdBook
  <2>2. \A x, y \in InTable' : callout'[x].id = callout'[y].id => x = y
    BY SMTT(30), <1>1, <1>8 DEF IInv, IdBook
  <2>3. \A c1, c2 \in Clients :
           client'[c1].id # None /\ client'[c1].id = client'[c2].id => c1 = c2
    BY SMTT(30) DEF IInv, IdBook
  <2>4. Cancelling'
    <3> SUFFICES ASSUME NEW x \in Clients, client'[x].pc # "idle"
                 PROVE  Cancelling!(x)!2'
      BY DEF Cancelling
    <3>1. /\ client[x].pc # "idle"
          /\ client'[x].pc = "reenter" <=> client[x].pc = "reenter"
      OBVIOUS
    <3>2. ASSUME NEW y \in InTable', callout'[y].id = client'[x].id
          PROVE  client'[x].pc # "reenter" /\ y = client'[x].cp /\ Executing(y)'
      BY SMTT(30), <1>1, <1>8, <3>1, <3>2 DEF IInv, Cancelling
    <3>3. /\ client'[x].id # None /\ client'[x].cp # None
          /\ unsafe_driver' # x
          /\ client'[x].pc = "reenter" => x \in UnsafeClients
      BY <3>1 DEF IInv, Cancelling
    <3>4. QED
      BY <3>2, <3>3
  <2>5. UnsafeBook'
    BY SMTT(30), <1>1, <1>8, ClientAssumption DEF IInv, UnsafeBook, Unsafe
  <2>6. QED
    BY <2>1, <2>2, <2>3, <2>4, <2>5
<1>9. CASE callout' = co /\ thr' = [thr EXCEPT ![e] = Parked] /\ ran' = ran
  <2>1. \A x \in InTable' : x \in InTable /\ callout'[x] = callout[x]
    BY <1>1, <1>2, <1>9
  <2>2. \A x \in InTable' : Executing(x)' <=> Executing(x)
    BY <2>1 DEF Executing
  <2>3. Pending' = Pending
    BY <1>1, <1>4, <2>2 DEF Pending
  <2>4. InFlight' = InFlight \ {e} /\ \A y \in InFlight' : thr'[y] = thr[y]
    BY <1>0, <1>9 DEF InFlight, Parked, TypeOK
  <2>5. Ownership'
    <3>1. ASSUME NEW y \in InFlight'
          PROVE  /\ thr'[y].cp \in cs_bucket'[thr'[y].runtime % BUCKETS]
                 /\ callout'[thr'[y].cp].executor = y
      BY SMTT(30), <1>1, <1>3, <1>5, <2>1, <2>4
    <3>2. ASSUME NEW x \in InTable', Executing(x)'
          PROVE  \E y \in InFlight' : thr'[y].cp = x
      <4>1. PICK y \in InFlight : thr[y].cp = x
        BY <2>1, <2>2, <3>2 DEF IInv, Ownership
      <4>2. y # e
        BY <1>1, <4>1
      <4>3. QED
        BY <2>4, <4>1, <4>2
    <3>3. QED
      BY <1>6, <3>1, <3>2 DEF Ownership
  <2>6. \A x \in Pending : callout'[x].id = callout[x].id
    BY <2>1, <2>3 DEF Pending
  <2>7. IdBook'
    <3>1. \A x \in Pending' : \E c \in Clients : client'[c].id = callout'[x].id
      BY SMTT(30), <2>3, <2>6 DEF IInv, IdBook
    <3>2. QED
      BY <1>8, <2>1, <2>2, <3>1 DEF IdBook
  <2>8. RanBook'
    BY SMTT(30), <1>9, <2>3, <2>6 DEF IInv, RanBook
  <2>9. QED
    BY <1>7, <1>8, <2>1, <2>2, <2>5, <2>7, <2>8 DEF IInv, Inv
<1>10. ASSUME NEW cp \in Due(r),
              callout' = [co EXCEPT ![cp].executor = e],
              thr' = [thr EXCEPT ![e] =
                    [pc |-> IF Unsafe(cp) THEN "unsafe" ELSE "func",
                     cp |-> cp, runtime |-> r]],
              ran' = ran \cup {callout[cp].id}
       PROVE  Inv'
  <2>1. /\ cp \in cs_bucket[r % BUCKETS] /\ ~Executing(cp)
        /\ r % BUCKETS \in Buckets
    BY SMTT(30), BucketType, TimeAssumption DEF Due, Ticks
  <2>2. cp \in InTable /\ cp \in Callouts /\ cp \notin Done /\ cp \in Pending
    BY <1>2, <1>4, <2>1 DEF InTable, Pending
  <2>3. /\ callout'[cp].id = callout[cp].id
        /\ callout'[cp].flags = callout[cp].flags
        /\ callout'[cp].executor = e
    BY SMTT(30), <1>10, <2>2 DEF CalloutRec
  <2>4. \A x \in Callouts : x # cp => callout'[x] = co[x]
    BY <1>10
  <2>5. \A x \in InTable' : x \in InTable /\ (x # cp => callout'[x] = callout[x])
    BY <1>1, <1>2, <2>4
  <2>6. \A x \in InTable' : Executing(x)' <=> (Executing(x) \/ x = cp)
    BY SMTT(30), <2>3, <2>5, NoneAssumption DEF Executing
  <2>7. Pending' = Pending \ {cp}
    BY <1>1, <1>4, <2>6 DEF Pending
  <2>8. /\ InFlight' = InFlight \cup {e}
        /\ thr'[e].cp = cp /\ thr'[e].runtime = r
        /\ \A y \in InFlight : y # e => thr'[y] = thr[y]
    BY SMTT(30), <1>0, <1>10 DEF InFlight, TypeOK
  <2>9. Ownership'
    <3>1. ASSUME NEW y \in InFlight'
          PROVE  /\ thr'[y].cp \in cs_bucket'[thr'[y].runtime % BUCKETS]
                 /\ callout'[thr'[y].cp].executor = y
      <4>1. CASE y = e
        BY SMTT(30), <2>1, <2>2, <2>3, <2>8, <4>1
      <4>2. CASE y # e
        <5>1. y \in InFlight /\ thr'[y] = thr[y] /\ thr[y].cp \notin Done
          BY <1>5, <2>8, <4>2
        <5>2. thr[y].cp # cp
          BY SMTT(30), <1>3, <2>1, <5>1 DEF Executing
        <5>3. thr[y].cp \in InTable'
          BY <1>1, <1>3, <5>1
        <5>4. QED
          BY SMTT(30), <1>3, <2>5, <5>1, <5>2, <5>3
      <4>3. QED
        BY <4>1, <4>2
    <3>2. ASSUME NEW x \in InTable', Executing(x)'
          PROVE  \E y \in InFlight' : thr'[y].cp = x
      <4>1. CASE x = cp
        BY <2>8, <4>1
      <4>2. CASE x # cp
        <5>1. PICK y \in InFlight : thr[y].cp = x
          BY <2>5, <2>6, <3>2, <4>2 DEF IInv, Ownership
        <5>2. y # e
          BY <1>1, <5>1
        <5>3. QED
          BY <2>8, <5>1, <5>2
      <4>3. QED
        BY <4>1, <4>2
    <3>3. QED
      BY <1>6, <3>1, <3>2 DEF Ownership
  <2>10. \A x \in Pending' : x \in Pending /\ callout'[x].id = callout[x].id
    BY <2>5, <2>7 DEF Pending
  <2>11. IdBook'
    <3>1. \A x \in Pending' : \E c \in Clients : client'[c].id = callout'[x].id
      BY SMTT(30), <2>10 DEF IInv, IdBook
    <3>2. QED
      BY <1>8, <2>3, <2>5, <2>6, <3>1 DEF IdBook
  <2>12. RanBook'
    <3>1. \A i \in ran' : \E c \in Clients : client'[c].id = i
      BY SMTT(30), <1>10, <2>2 DEF IInv, RanBook, IdBook
    <3>2. ASSUME NEW c \in Clients, client'[c].id # None
          PROVE  client'[c].id \in ran'
                   <=> \A y \in Pending' : callout'[y].id # client'[c].id
      <4>1. client[c].id \in ran <=> \A y \in Pending : callout[y].id # client[c].id
        BY <3>2 DEF IInv, RanBook
      <4>2. \A y \in Pending : callout[y].id = callout[cp].id => y = cp
        BY <2>2 DEF IInv, IdBook, Pending
      <4>3. CASE client[c].id = callout[cp].id
        BY <1>10, <2>7, <2>10, <4>2, <4>3
      <4>4. CASE client[c].id # callout[cp].id
        BY <1>10, <2>7, <2>10, <4>1, <4>4
      <4>5. QED
        BY <4>3, <4>4
    <3>3. QED
      BY <3>1, <3>2 DEF RanBook
  <2>13. QED
    BY SMTT(30), <1>7, <1>8, <2>3, <2>5, <2>6, <2>9, <2>11, <2>12 DEF IInv, Inv
<1>11. QED
  BY <1>9, <1>10 DEF RunOrPark

\* Entering callout_execute(), and going round its loop.
LEMMA ExecSteps ==
    ASSUME LeastNumber, Inv, TypeOK', NEW e \in Threads,
           CalloutThread(e) \/ RealtimeTimein(e) \/ Finish(e)
    PROVE  Inv'
<1>. IInv
  BY DEF Inv
<1> USE DEF world, table, cprVars
<1>0. TypeOK
  BY DEF IInv
<1>1. CASE CalloutThread(e) \/ RealtimeTimein(e)
  <2>1. EnterExecute(e) /\ e \notin InFlight
    BY <1>1 DEF CalloutThread, RealtimeTimein, InFlight
  <2>2. ScanTo(cs_runtime, cs_curtime) \in Ticks
    BY <1>0, ScanType DEF TypeOK
  <2>3. callout \in [Callouts -> CalloutRec]
    BY <1>0 DEF TypeOK
  <2>4. \A b \in Buckets : cs_bucket'[b] = cs_bucket[b] \ {}
    BY <2>1 DEF EnterExecute
  <2>5. QED
    BY <2>1, <2>2, <2>3, <2>4, ExecStep DEF EnterExecute
<1>2. CASE Finish(e)
  <2> DEFINE cp == thr[e].cp
             r  == thr[e].runtime
  <2>1. e \in InFlight
    BY <1>2 DEF Finish, InFlight
  <2>2. r \in Ticks /\ ResumeAt(r) \in Ticks
    BY <1>0, ResumeType DEF TypeOK, ThreadRec
  <2>3. r % BUCKETS \in Buckets
    BY SMTT(30), <2>2, BucketType, TimeAssumption DEF Ticks
  <2>4. cp \in cs_bucket[r % BUCKETS]
    BY <2>1 DEF IInv, Ownership
  <2>5. /\ cs_bucket' = [cs_bucket EXCEPT ![r % BUCKETS] = @ \ {cp}]
        /\ cs_freelist' = cs_freelist \cup {cp}
        /\ client' = WakeCancellers(cp)
        /\ RunOrPark(e, ResumeAt(r), Freed(cp))
        /\ UNCHANGED <<unsafe_driver, ocs>>
    BY <1>2 DEF Finish
  <2> HIDE DEF cp, r
  <2>6. \A b \in Buckets : cs_bucket'[b] = cs_bucket[b] \ {cp}
    <3> TAKE b \in Buckets
    <3>1. CASE b = r % BUCKETS
      BY <1>0, <2>5, <3>1 DEF TypeOK
    <3>2. CASE b # r % BUCKETS
      <4>1. cs_bucket'[b] = cs_bucket[b]
        BY <1>0, <2>5, <3>2 DEF TypeOK
      <4>2. cp \notin cs_bucket[b]
        BY <2>3, <2>4, <3>2 DEF IInv, Ownership
      <4>3. QED
        BY <4>1, <4>2
    <3>3. QED
      BY <3>1, <3>2
  <2>7. /\ Freed(cp) \in [Callouts -> CalloutRec]
        /\ \A x \in Callouts : x \notin {cp} => Freed(cp)[x] = callout[x]
    BY <1>0, Records DEF Freed, TypeOK
  <2>8. \A c \in Clients :
              /\ client'[c].id = client[c].id
              /\ client'[c].cp = client[c].cp
              /\ client'[c].pc = client[c].pc
                   \/ (client[c].pc = "c_done" /\ client'[c].pc = "woken")
    BY SMTT(30), <1>0, <2>5 DEF WakeCancellers, TypeOK, ClientRec
  <2>9. PICK Done : Done = {cp}
    OBVIOUS
  <2>10. Done = IF e \in InFlight THEN {thr[e].cp} ELSE {}
    BY <2>1, <2>9 DEF cp
  <2>11. PICK co : co = Freed(cp)
    OBVIOUS
  <2>12. /\ \A b \in Buckets : cs_bucket'[b] = cs_bucket[b] \ Done
         /\ cs_freelist' = cs_freelist \cup Done
         /\ co \in [Callouts -> CalloutRec]
         /\ \A x \in Callouts : x \notin Done => co[x] = callout[x]
         /\ RunOrPark(e, ResumeAt(r), co)
    BY <2>5, <2>6, <2>7, <2>9, <2>11
  <2>13. QED
    BY SMTT(30), <2>2, <2>5, <2>8, <2>10, <2>12, ExecStep
<1>3. QED
  BY <1>1, <1>2
------------------------------------------------------------------------------
\* callout_init() leaves an empty table.
LEMMA InitInv == Init => Inv
<1> SUFFICES ASSUME Init
             PROVE  Inv
  OBVIOUS
<1>1. InTable = {} /\ Pending = {} /\ InFlight = {}
  BY DEF Init, InTable, Pending, InFlight, Parked
<1>2. \A b \in Buckets : cs_bucket[b] = {}
  BY DEF Init
<1>3. \A c \in Clients : client[c].id = None /\ client[c].pc = "idle"
  BY DEF Init, Idle
<1>4. Ownership
  BY <1>1, <1>2 DEF Ownership, Init
<1>5. IdBook
  BY <1>1, <1>2, <1>3 DEF IdBook
<1>6. RanBook /\ Cancelling
  BY <1>3 DEF Init, RanBook, Cancelling
<1>7. UnsafeBook /\ NothingSaved
  BY <1>1, NoneAssumption DEF Init, UnsafeBook, NothingSaved, NoSave
<1>8. QED
  BY SMTT(30), <1>4, <1>5, <1>6, <1>7, InitType DEF IInv, Inv

\* Every step preserves the invariant.
LEMMA NextInv ==
    ASSUME LeastNumber, Inv, [Next]_vars
    PROVE  Inv'
<1>1. ASSUME NEW c \in Clients, ClientStep(c)
      PROVE  Inv'
  <2>1. TypeOK'
    BY <1>1, ClientTypes
  <2>2. CASE Recheck(c)
    BY <2>1, <2>2, DropSteps, SleepSteps
  <2>3. CASE \E delta \in Deltas : Timeout(c, delta)
    BY <2>1, <2>3, InsertStep
  <2>4. QED
    BY <1>1, <2>1, <2>2, <2>3, QuietSteps, DropSteps, SleepSteps, CancelStep
       DEF ClientStep
<1>2. ASSUME NEW e \in Threads, ThreadStep(e)
      PROVE  Inv'
  <2>1. TypeOK'
    BY <1>2, ThreadTypes
  <2>2. QED
    BY <1>2, <2>1, QuietSteps, ExecSteps DEF ThreadStep
<1>3. CASE \/ ClockTick \/ CalloutSchedule
           \/ CprStop \/ CalloutSave \/ OtherRestore \/ CalloutRestore
  <2>1. TypeOK'
    BY <1>3, OtherTypes
  <2>2. QED
    BY <1>3, <2>1, QuietSteps
<1>4. CASE UNCHANGED vars
  <2>1. TypeOK'
    BY SMTT(30), <1>4 DEF IInv, Inv, TypeOK, vars, world, table, cprVars
  <2>2. QED
    BY <1>4, <2>1, QuietSteps
<1>5. QED
  BY <1>1, <1>2, <1>3, <1>4 DEF Next

------------------------------------------------------------------------------
\* What untimeout() returns is right.
LEMMA VerdictStep ==
    ASSUME Inv, NEW c \in Clients
    PROVE  /\ UntimeoutPending(c) => client[c].id \notin ran
           /\ UntimeoutGone(c) \/ Reenter(c) => client[c].id \in ran
           /\ Recheck(c) => client[c].id \in ran
<1>. IInv
  BY DEF Inv
<1>0. /\ client[c].id \in Ids \cup {None}
      /\ \A cp \in Pending : cp \in InTable /\ ~Executing(cp)
  BY DEF IInv, TypeOK, ClientRec, Pending
<1>1. ASSUME UntimeoutPending(c)
      PROVE  client[c].id \notin ran
  <2>1. client[c].id # None /\ client[c].id \in Ids
    BY <1>0, <1>1 DEF UntimeoutPending
  <2>2. PICK cp \in Matches(client[c].id) : ~Executing(cp)
    BY <1>1 DEF UntimeoutPending
  <2>3. cp \in Pending /\ callout[cp].id = client[c].id
    BY <2>1, <2>2, SearchFinds DEF Pending
  <2>4. QED
    BY <2>1, <2>3 DEF IInv, RanBook
<1>2. ASSUME UntimeoutGone(c) \/ Reenter(c)
      PROVE  client[c].id \in ran
  <2>1. /\ client[c].id # None
        /\ \A cp \in Pending : callout[cp].id # client[c].id
    BY <1>0, <1>2, GoneFromTable
       DEF UntimeoutGone, Reenter, IInv, Cancelling
  <2>2. QED
    BY <2>1 DEF IInv, RanBook
<1>3. ASSUME Recheck(c)
      PROVE  client[c].id \in ran
  <2>1. /\ client[c].id # None
        /\ \A cp \in Pending : callout[cp].id # client[c].id
    BY <1>0, <1>3 DEF Recheck, IInv, Cancelling
  <2>2. QED
    BY <2>1 DEF IInv, RanBook
<1>4. QED
  BY <1>1, <1>2, <1>3

\* Only timeout(), untimeout() and Forget change the id a client holds.
LEMMA WhoDropsIds ==
    ASSUME Inv, [Next]_vars, NEW c \in Clients,
           client'[c].id # client[c].id
    PROVE  \/ \E delta \in Deltas : Timeout(c, delta)
           \/ Forget(c) \/ UntimeoutGone(c) \/ UntimeoutPending(c) \/ Reenter(c)
           \/ Recheck(c) /\ ~StillExecuting(c)
<1>. IInv
  BY DEF Inv
<1> USE DEF world, table, cprVars
<1>0. client \in [Clients -> ClientRec]
  BY DEF IInv, TypeOK
<1>1. client' # client
  OBVIOUS
<1>2. ASSUME NEW x \in Clients, ClientStep(x)
      PROVE  x = c
  <2>1. \A y \in Clients : y # x => client'[y] = client[y]
    BY <1>0, <1>2 DEF ClientStep, EnterDriver, LeaveDriver, Forget, Timeout,
          UntimeoutGone, UntimeoutPending, UntimeoutExecuting, Recheck, Reenter,
          SpuriousSetrun, DropId
  <2>2. QED
    BY <2>1
<1>3. ASSUME ClientStep(c)
      PROVE  \/ \E delta \in Deltas : Timeout(c, delta)
             \/ Forget(c) \/ UntimeoutGone(c) \/ UntimeoutPending(c) \/ Reenter(c)
             \/ Recheck(c) /\ ~StillExecuting(c)
  <2>1. ~EnterDriver(c) /\ ~LeaveDriver(c)
    BY <1>1 DEF EnterDriver, LeaveDriver
  <2>2. ~UntimeoutExecuting(c)
    BY <1>0 DEF UntimeoutExecuting, ClientRec
  <2>3. ~SpuriousSetrun(c)
    BY <1>0 DEF SpuriousSetrun, ClientRec
  <2>4. ~(Recheck(c) /\ StillExecuting(c))
    BY <1>0 DEF Recheck, ClientRec
  <2>5. QED
    BY <1>3, <2>1, <2>2, <2>3, <2>4 DEF ClientStep
<1>4. ASSUME NEW e \in Threads, ThreadStep(e)
      PROVE  FALSE
  <2>1. ~Finish(e)
    BY <1>0 DEF Finish, WakeCancellers, ClientRec
  <2>2. QED
    BY <1>1, <1>4, <2>1 DEF ThreadStep, BackToSleep, CalloutThread, Softint,
          RealtimeTimein, EnterExecute, EnterUnsafe, NestedUntimeout,
          FuncReturn, Pig, CprSleep
<1>5. ~(\/ ClockTick \/ CalloutSchedule
        \/ CprStop \/ CalloutSave \/ OtherRestore \/ CalloutRestore)
  BY <1>1 DEF ClockTick, CalloutSchedule, CprStop, CalloutSave, OtherRestore,
              CalloutRestore
<1>6. ~(UNCHANGED vars)
  BY <1>1 DEF vars
<1>7. QED
  BY <1>2, <1>3, <1>4, <1>5, <1>6 DEF Next

\* When untimeout() returns, its callout is not in the table.
LEMMA BarrierStep ==
    ASSUME Inv, Inv', [Next]_vars, NEW c \in Clients,
           client'[c].id # client[c].id, ~Forget(c),
           NEW b \in Buckets, NEW cp \in cs_bucket'[b]
    PROVE  callout'[cp].id # client[c].id
<1>. IInv
  BY DEF Inv
<1> USE DEF world, table, cprVars
<1>1. CASE \E delta \in Deltas : Timeout(c, delta)
  <2>1. client[c].id = None
    BY <1>1 DEF Timeout
  <2>2. callout'[cp].id \in Ids
    BY DEF Inv, IInv, IdBook
  <2>3. QED
    BY <2>1, <2>2, NoneAssumption DEF Ids, Buckets
<1>2. CASE \/ UntimeoutGone(c) \/ Reenter(c)
           \/ Recheck(c) /\ ~StillExecuting(c)
  <2>1. \A x \in InTable : callout[x].id # client[c].id
    BY <1>2, GoneFromTable
  <2>2. cs_bucket' = cs_bucket /\ callout' = callout
    BY <1>2 DEF UntimeoutGone, Reenter, Recheck
  <2>3. cp \in InTable
    BY <2>2 DEF InTable
  <2>4. QED
    BY <2>1, <2>2, <2>3
<1>3. CASE UntimeoutPending(c)
  <2> DEFINE id == client[c].id
  <2>1. PICK x \in Matches(id) :
            /\ cs_bucket' = [cs_bucket EXCEPT ![id[1]] = @ \ {x}]
            /\ callout' = Freed(x)
    BY <1>3 DEF UntimeoutPending
  <2>2. id \in Ids /\ id # None
    BY <1>3 DEF UntimeoutPending, IInv, TypeOK, ClientRec
  <2>3. x \in InTable /\ callout[x].id = id
    BY <2>1, <2>2, SearchFinds
  <2>4. cp \in cs_bucket[b]
    BY <2>1 DEF IInv, TypeOK
  <2>5. cp \in InTable /\ cp \in Callouts
    BY <2>4 DEF InTable, IInv, TypeOK
  <2>6. CASE cp = x
    <3>1. callout'[cp].id = None
      BY <2>1, <2>5, <2>6 DEF Freed, Blank, IInv, TypeOK
    <3>2. QED
      BY <2>2, <3>1
  <2>7. CASE cp # x
    <3>1. callout'[cp] = callout[cp]
      BY <2>1, <2>5, <2>7 DEF Freed, IInv, TypeOK
    <3>2. QED
      BY SMTT(30), <2>3, <2>5, <2>7, <3>1 DEF IInv, IdBook
  <2>8. QED
    BY <2>6, <2>7
<1>4. QED
  BY <1>1, <1>2, <1>3, WhoDropsIds
==============================================================================
