---------------------------- MODULE CalloutProofs ----------------------------
(***************************************************************************)
(* The callout table implements the timers of CalloutSpec, and the theorems*)
(* about Callout, for any number of clients, threads and structures and any*)
(* width of clock_t.                                                       *)
(***************************************************************************)
EXTENDS CalloutRefine, CalloutSteps

USE ZenonT(40)
------------------------------------------------------------------------------
(* The refinement follows what a step does to the callout that a client holds *)
(* the id of: TimerIs reads the timer off the table, TimerKept says when a    *)
(* step leaves it alone, and each action that does not leave it alone is one  *)
(* action of CalloutSpec.                                                     *)

Off == [state |-> "off", runtime |-> 0]
Run == [state |-> "run", runtime |-> 0]
Ended == [state |-> "done", runtime |-> 0]
SetFor(cp) == [state |-> "set", runtime |-> callout[cp].runtime]

\* The structures of the table are structures, and their ids are not None.
LEMMA HeldFacts ==
    ASSUME Inv, NEW c \in Clients, NEW cp, Holds(c, cp)
    PROVE  /\ cp \in Callouts /\ client[c].id # None
           /\ \A cq : Holds(c, cq) => cq = cp
<1>. IInv
  BY DEF Inv
<1>1. InTable \subseteq Callouts
  BY SMTT(30) DEF IInv, TypeOK, InTable
<1>2. PICK b \in Buckets : cp \in cs_bucket[b]
  BY DEF Holds, InTable
<1>3. callout[cp].id \in Ids
  BY <1>2 DEF IInv, IdBook
<1>4. callout[cp].id # None
  BY <1>3, NoneAssumption DEF Ids, Buckets
<1>5. QED
  BY SMTT(30), <1>1, <1>4 DEF Holds, IInv, IdBook

\* The timer of a client, read off the table.
LEMMA TimerIs ==
    ASSUME Inv, NEW c \in Clients
    PROVE  /\ client[c].id = None => TimerOf(c) = Off
           /\ \A cp : Holds(c, cp) /\ ~Executing(cp) => TimerOf(c) = SetFor(cp)
           /\ \A cp : Holds(c, cp) /\ Executing(cp) => TimerOf(c) = Run
           /\ client[c].id # None /\ (\A cp : ~Holds(c, cp)) => TimerOf(c) = Ended
<1>. IInv
  BY DEF Inv
<1>1. client[c].id = None => TimerOf(c) = Off
  BY DEF TimerOf, Off
<1>2. ASSUME NEW cp, Holds(c, cp), ~Executing(cp)
      PROVE  TimerOf(c) = SetFor(cp)
  <2> DEFINE P(x) == Holds(c, x) /\ ~Executing(x)
  <2>1. cp \in Callouts /\ client[c].id # None /\ \A x \in Callouts : P(x) => x = cp
    BY <1>2, HeldFacts
  <2>2. (CHOOSE x \in Callouts : P(x)) = cp
    BY <2>1, <1>2
  <2>3. QED
    BY <2>1, <2>2, <1>2 DEF TimerOf, SetFor
<1>3. ASSUME NEW cp, Holds(c, cp), Executing(cp)
      PROVE  TimerOf(c) = Run
  <2>1. /\ cp \in Callouts /\ client[c].id # None
        /\ ~ \E x \in Callouts : Holds(c, x) /\ ~Executing(x)
    BY <1>3, HeldFacts
  <2>2. QED
    BY <2>1, <1>3 DEF TimerOf, Run
<1>4. client[c].id # None /\ (\A cp : ~Holds(c, cp)) => TimerOf(c) = Ended
  BY DEF TimerOf, Ended
<1>5. QED
  BY <1>1, <1>2, <1>3, <1>4

\* HeldFacts after a step.
LEMMA HeldFactsNext ==
    ASSUME Inv', NEW c \in Clients, NEW cp, Holds(c, cp)'
    PROVE  /\ cp \in Callouts /\ client'[c].id # None
           /\ \A cq : Holds(c, cq)' => cq = cp
<1>1. InTable' \subseteq Callouts
  BY SMTT(30) DEF Inv, IInv, TypeOK, InTable
<1>2. PICK b \in Buckets : cp \in cs_bucket'[b]
  BY DEF Holds, InTable
<1>3. callout'[cp].id \in Ids
  BY <1>2 DEF Inv, IInv, IdBook
<1>4. callout'[cp].id # None
  BY <1>3, NoneAssumption DEF Ids, Buckets
<1>5. QED
  BY SMTT(30), <1>1, <1>4 DEF Holds, IInv, Inv, IdBook

\* TimerIs after a step.
LEMMA TimerIsNext ==
    ASSUME Inv', NEW c \in Clients
    PROVE  /\ client'[c].id = None => TimerOf(c)' = Off
           /\ \A cp : Holds(c, cp)' /\ ~Executing(cp)' => TimerOf(c)' = SetFor(cp)'
           /\ \A cp : Holds(c, cp)' /\ Executing(cp)' => TimerOf(c)' = Run
           /\ client'[c].id # None /\ (\A cp : ~Holds(c, cp)') => TimerOf(c)' = Ended
<1>1. client'[c].id = None => TimerOf(c)' = Off
  BY DEF TimerOf, Off
<1>2. ASSUME NEW cp, Holds(c, cp)', ~Executing(cp)'
      PROVE  TimerOf(c)' = SetFor(cp)'
  <2> DEFINE P(x) == Holds(c, x)' /\ ~Executing(x)'
  <2>1. cp \in Callouts /\ client'[c].id # None /\ \A x \in Callouts : P(x) => x = cp
    BY <1>2, HeldFactsNext
  <2>2. (CHOOSE x \in Callouts : P(x)) = cp
    BY <2>1, <1>2
  <2>3. QED
    BY <2>1, <2>2, <1>2 DEF TimerOf, SetFor
<1>3. ASSUME NEW cp, Holds(c, cp)', Executing(cp)'
      PROVE  TimerOf(c)' = Run
  <2>1. /\ cp \in Callouts /\ client'[c].id # None
        /\ ~ \E x \in Callouts : Holds(c, x)' /\ ~Executing(x)'
    BY <1>3, HeldFactsNext
  <2>2. QED
    BY <2>1, <1>3 DEF TimerOf, Run
<1>4. client'[c].id # None /\ (\A cp : ~Holds(c, cp)') => TimerOf(c)' = Ended
  BY DEF TimerOf, Ended
<1>5. QED
  BY <1>1, <1>2, <1>3, <1>4

\* A step that keeps the id of a client, and the callout it belongs to, keeps
\* its timer.
LEMMA TimerKept ==
    ASSUME Inv, Inv', NEW c \in Clients,
           client'[c].id = client[c].id,
           \A cp : Holds(c, cp) <=> Holds(c, cp)',
           \A cp : Holds(c, cp) => /\ Executing(cp) <=> Executing(cp)'
                                   /\ callout'[cp].runtime = callout[cp].runtime
    PROVE  TimerOf(c)' = TimerOf(c)
<1>. IInv
  BY DEF Inv
<1>1. CASE client[c].id = None
  BY <1>1, TimerIs, TimerIsNext
<1>2. CASE client[c].id # None /\ \A cp : ~Holds(c, cp)
  BY <1>2, TimerIs, TimerIsNext
<1>3. ASSUME NEW cp, Holds(c, cp)
      PROVE  TimerOf(c)' = TimerOf(c)
  <2>1. CASE Executing(cp)
    BY <1>3, <2>1, TimerIs, TimerIsNext
  <2>2. CASE ~Executing(cp)
    <3>1. TimerOf(c) = SetFor(cp)
      BY <1>3, <2>2, TimerIs
    <3>2. TimerOf(c)' = SetFor(cp)'
      BY <1>3, <2>2, TimerIsNext
    <3>3. QED
      BY <1>3, <3>1, <3>2 DEF SetFor
  <2>3. QED
    BY <2>1, <2>2
<1>4. QED
  BY <1>1, <1>2, <1>3

\* A step that keeps the table and the id of a client keeps its timer.
LEMMA SameTable ==
    ASSUME Inv, Inv', NEW c \in Clients, client'[c].id = client[c].id,
           InTable' = InTable,
           \A cp \in InTable : /\ callout'[cp].id = callout[cp].id
                               /\ callout'[cp].runtime = callout[cp].runtime
                               /\ Executing(cp) <=> Executing(cp)'
    PROVE  TimerOf(c)' = TimerOf(c)
<1>. IInv
  BY DEF Inv
<1>1. \A cp : Holds(c, cp) <=> Holds(c, cp)'
  BY DEF Holds
<1>2. \A cp : Holds(c, cp) => /\ Executing(cp) <=> Executing(cp)'
                              /\ callout'[cp].runtime = callout[cp].runtime
  BY DEF Holds
<1>3. QED
  BY <1>1, <1>2, TimerKept
------------------------------------------------------------------------------
(* Steps of CalloutSpec, from what they do to the timers. *)

TimerMap == [c \in Clients |-> TimerOf(c)]

\* A step that touches no clock and no timer is a stutter of CalloutSpec.
LEMMA Stutter ==
    ASSUME UNCHANGED <<lbolt, cs_curtime>>,
           \A c \in Clients : TimerOf(c)' = TimerOf(c)
    PROVE  UNCHANGED Abstract!avars
BY DEF Abstract!avars

\* One timer is set, started, returned from, cancelled or forgotten.
LEMMA OneStep ==
    ASSUME NEW c \in Clients, UNCHANGED <<lbolt, cs_curtime>>,
           \A x \in Clients : x # c => TimerOf(x)' = TimerOf(x),
           \/ TimerOf(c).state \in {"set", "run", "done"} /\ TimerOf(c)' = Off
           \/ TimerOf(c).state = "run" /\ TimerOf(c)' = Ended
           \/ /\ TimerOf(c).state = "set"
              /\ Diff(TimerOf(c).runtime, cs_curtime) <= 0
              /\ TimerOf(c)' = Run
           \/ /\ TimerOf(c).state = "off"
              /\ \E delta \in Deltas :
                    TimerOf(c)' = [state |-> "set", runtime |-> RuntimeFor(delta)]
    PROVE  Abstract!ANext
<1>1. TimerMap' = [TimerMap EXCEPT ![c] = TimerOf(c)'] /\ TimerMap[c] = TimerOf(c)
  BY DEF TimerMap
<1>2. CASE TimerOf(c).state \in {"set", "done"} /\ TimerOf(c)' = Off
  <2>1. Abstract!Cancel(c)
    BY <1>1, <1>2 DEF Abstract!Cancel, Abstract!At, Off, TimerMap
  <2>2. QED
    BY <2>1 DEF Abstract!ANext
<1>3. CASE TimerOf(c).state = "run" /\ TimerOf(c)' = Off
  <2>1. Abstract!Forget(c)
    BY <1>1, <1>3 DEF Abstract!Forget, Abstract!At, Off, TimerMap
  <2>2. QED
    BY <2>1 DEF Abstract!ANext
<1>4. CASE TimerOf(c).state = "run" /\ TimerOf(c)' = Ended
  <2>1. Abstract!Return(c)
    BY <1>1, <1>4 DEF Abstract!Return, Abstract!At, Ended, TimerMap
  <2>2. QED
    BY <2>1 DEF Abstract!ANext
<1>5. CASE /\ TimerOf(c).state = "set"
           /\ Diff(TimerOf(c).runtime, cs_curtime) <= 0
           /\ TimerOf(c)' = Run
  <2>1. Abstract!Start(c)
    BY <1>1, <1>5
       DEF Abstract!Start, Abstract!Startable, Abstract!Diff, Diff, Abstract!At,
           Run, TimerMap
  <2>2. QED
    BY <2>1 DEF Abstract!ANext
<1>6. CASE /\ TimerOf(c).state = "off"
           /\ \E delta \in Deltas :
                 TimerOf(c)' = [state |-> "set", runtime |-> RuntimeFor(delta)]
  <2>1. PICK delta \in Deltas :
           TimerOf(c)' = [state |-> "set", runtime |-> RuntimeFor(delta)]
    BY <1>6
  <2>2. Abstract!Set(c, delta)
    BY <1>1, <1>6, <2>1
       DEF Abstract!Set, Abstract!Diff, Abstract!Wrap, RuntimeFor, Diff, Wrap, TimerMap
  <2>3. QED
    BY <2>2 DEF Abstract!ANext
<1>7. QED
  BY <1>2, <1>3, <1>4, <1>5, <1>6

\* One function returns and the thread that called it starts another.
LEMMA TwoStep ==
    ASSUME NEW c \in Clients, NEW d \in Clients, c # d,
           UNCHANGED <<lbolt, cs_curtime>>,
           \A x \in Clients : x \notin {c, d} => TimerOf(x)' = TimerOf(x),
           TimerOf(c).state = "run", TimerOf(c)' = Ended,
           TimerOf(d).state = "set", Diff(TimerOf(d).runtime, cs_curtime) <= 0,
           TimerOf(d)' = Run
    PROVE  Abstract!ANext
<1>1. /\ TimerMap' = [TimerMap EXCEPT ![c] = Ended, ![d] = Run]
      /\ TimerMap[c] = TimerOf(c) /\ TimerMap[d] = TimerOf(d)
  BY DEF TimerMap
<1>2. Abstract!ReturnStart(c, d)
  BY <1>1 DEF Abstract!ReturnStart, Abstract!Startable, Abstract!Diff, Diff,
              Abstract!At, Ended, Run, TimerMap
<1>3. QED
  BY <1>2 DEF Abstract!ANext
------------------------------------------------------------------------------
(* The callers *)

\* A caller gives up its id.
LEMMA DropTimers ==
    ASSUME Inv, Inv', NEW c \in Clients, DropId(c),
           UNCHANGED <<cs_bucket, callout>>
    PROVE  /\ TimerOf(c)' = Off
           /\ \A x \in Clients : x # c => TimerOf(x)' = TimerOf(x)
<1>. IInv
  BY DEF Inv
<1>1. /\ client'[c].id = None
      /\ \A x \in Clients : x # c => client'[x].id = client[x].id
  BY DEF IInv, TypeOK, DropId, Idle
<1>2. InTable' = InTable /\ \A cp : Executing(cp) <=> Executing(cp)'
  BY DEF InTable, Executing
<1>3. QED
  BY <1>1, <1>2, TimerIsNext, SameTable

\* untimeout() returns, or the caller forgets a timer that has started.
LEMMA DropRefines ==
    ASSUME Inv, Inv', NEW c \in Clients,
           \/ Forget(c)
           \/ UntimeoutGone(c)
           \/ Recheck(c) /\ ~StillExecuting(c) /\ c \notin UnsafeClients
           \/ Reenter(c)
    PROVE  Abstract!ANext
<1>. IInv
  BY DEF Inv
<1> USE DEF world, table, cprVars
<1>1. DropId(c) /\ UNCHANGED <<cs_bucket, callout, lbolt, cs_curtime>>
  BY DEF Forget, UntimeoutGone, Recheck, Reenter
<1>2. client[c].id # None
  <2>1. CASE Forget(c)
    <3>1. client[c].id \in Ids
      BY <2>1 DEF Forget, IInv, TypeOK
    <3>2. QED
      BY <3>1, NoneAssumption DEF Ids, Buckets
  <2>2. CASE ~Forget(c)
    <3>1. client[c].id \in Ids
      BY <2>2, GoneFromTable
    <3>2. QED
      BY <3>1, NoneAssumption DEF Ids, Buckets
  <2>3. QED
    BY <2>1, <2>2
<1>3. \A cp : Holds(c, cp) => Executing(cp)
  <2>1. CASE Forget(c)
    <3>1. \A cp \in Pending : callout[cp].id # client[c].id
      BY <1>2, <2>1 DEF Forget, IInv, RanBook
    <3>2. QED
      BY <3>1 DEF Pending, Holds
  <2>2. CASE ~Forget(c)
    <3>1. \A cp \in InTable : callout[cp].id # client[c].id
      BY <2>2, GoneFromTable
    <3>2. QED
      BY <3>1 DEF Holds
  <2>3. QED
    BY <2>1, <2>2
<1>4. TimerOf(c) = Run \/ TimerOf(c) = Ended
  BY <1>2, <1>3, TimerIs
<1>5. TimerOf(c).state \in {"set", "run", "done"}
  BY SMTT(30), <1>4 DEF Run, Ended
<1>6. QED
  BY <1>1, <1>5, DropTimers, OneStep

\* A callout taken out of its bucket is out of every bucket.
LEMMA BucketRemoval ==
    ASSUME Inv, NEW a \in Buckets, NEW cp, cp \in cs_bucket[a],
           cs_bucket' = [cs_bucket EXCEPT ![a] = @ \ {cp}]
    PROVE  \A b \in Buckets : cs_bucket'[b] = cs_bucket[b] \ {cp}
<1>. IInv
  BY DEF Inv
<1>1. DOMAIN cs_bucket = Buckets
  BY DEF IInv, TypeOK
<1>2. \A b \in Buckets : b # a => cp \notin cs_bucket[b]
  <2>1. \A b \in Buckets : b # a => cs_bucket[a] \cap cs_bucket[b] = {}
    BY DEF IInv, Ownership
  <2>2. QED
    BY <2>1
<1>3. QED
  BY <1>1, <1>2

\* untimeout() unlinks a callout that was waiting to run.
LEMMA CancelRefines ==
    ASSUME Inv, Inv', NEW c \in Clients, UntimeoutPending(c)
    PROVE  Abstract!ANext
<1>. IInv
  BY DEF Inv
<1> USE DEF world, table, cprVars
<1>1. client[c].id \in Ids /\ client[c].id[1] \in Buckets
  <2>1. client[c].id \in Ids
    BY DEF UntimeoutPending, IInv, TypeOK, ClientRec
  <2>2. QED
    BY <2>1 DEF Ids
<1>2. PICK cp \in Matches(client[c].id) :
         /\ ~Executing(cp)
         /\ cs_bucket' = [cs_bucket EXCEPT ![client[c].id[1]] = @ \ {cp}]
         /\ callout' = Freed(cp)
  BY DEF UntimeoutPending
<1>3. DropId(c) /\ UNCHANGED <<lbolt, cs_curtime>>
  BY DEF UntimeoutPending
<1>4. Holds(c, cp) /\ cp \in cs_bucket[client[c].id[1]]
  BY <1>1, <1>2, SearchFinds DEF Holds, Matches
<1>5. /\ client'[c].id = None
      /\ \A x \in Clients : x # c => client'[x].id = client[x].id
  BY <1>3 DEF IInv, TypeOK, DropId, Idle
<1>6. InTable' = InTable \ {cp}
  <2>1. \A b \in Buckets : cs_bucket'[b] = cs_bucket[b] \ {cp}
    BY <1>1, <1>2, <1>4, BucketRemoval
  <2>2. QED
    BY SMTT(30), <2>1 DEF InTable
<1>7. \A x \in InTable' : x # cp /\ callout'[x] = callout[x]
  <2>1. \A x \in InTable : x \in Callouts
    BY TableIds
  <2>2. callout \in [Callouts -> CalloutRec]
    BY DEF IInv, TypeOK
  <2>3. QED
    BY <1>2, <1>6, <2>1, <2>2 DEF Freed
<1>8. ASSUME NEW x \in Clients, x # c
      PROVE  TimerOf(x)' = TimerOf(x)
  <2>1. ~Holds(x, cp)
    BY SMTT(30), <1>1, <1>4, <1>8, NoneAssumption DEF Holds, IInv, IdBook, Ids, Buckets
  <2>2. \A y : Holds(x, y) <=> Holds(x, y)'
    BY <1>5, <1>6, <1>7, <1>8, <2>1 DEF Holds
  <2>3. \A y : Holds(x, y) => /\ Executing(y) <=> Executing(y)'
                              /\ callout'[y].runtime = callout[y].runtime
    BY <1>6, <1>7, <2>1 DEF Holds, Executing
  <2>4. QED
    BY <1>5, <1>8, <2>2, <2>3, TimerKept
<1>9. TimerOf(c).state = "set"
  BY SMTT(30), <1>2, <1>4, TimerIs DEF SetFor
<1>10. TimerOf(c)' = Off
  BY <1>5, TimerIsNext
<1>11. QED
  BY <1>3, <1>8, <1>9, <1>10, OneStep

\* timeout() sets the timer of its caller, and no other.
LEMMA InsertRefines ==
    ASSUME Inv, Inv', NEW c \in Clients, NEW delta \in Deltas,
           Timeout(c, delta)
    PROVE  Abstract!ANext
<1>. IInv
  BY DEF Inv
<1> USE DEF world, table, cprVars
<1> DEFINE runtime == RuntimeFor(delta)
           b == runtime % BUCKETS
<1>0. TypeOK
  BY DEF IInv
<1>1. PICK cp \in Allocatable, id \in ({b} \X Seqs) \ IdsInUse :
         /\ callout' = [callout EXCEPT ![cp] =
                [id |-> id,
                 flags |-> IF unsafe_driver = c THEN {"UNSAFE_DRIVER"} ELSE {},
                 executor |-> None, runtime |-> runtime,
                 due |-> Wrap(lbolt + delta)]]
         /\ cs_bucket' = [cs_bucket EXCEPT ![b] = @ \cup {cp}]
         /\ client' = [client EXCEPT ![c] = [Idle EXCEPT !.id = id]]
  BY DEF Timeout
<1>2. client[c].id = None /\ UNCHANGED <<lbolt, cs_curtime>>
  BY DEF Timeout
<1>3. lbolt \in Int /\ cs_curtime \in Int /\ delta \in Int
  BY SMTT(30), <1>0, TimeAssumption DEF TypeOK, Ticks
<1>4. runtime \in Ticks
  BY SMTT(30), <1>3, WrapType DEF RuntimeFor
<1>5. b \in Buckets
  BY SMTT(30), <1>4, BucketType, TimeAssumption DEF Ticks
<1>6. cp \in Callouts /\ cp \notin InTable
  BY <1>0 DEF Allocatable, TypeOK, IInv, Ownership
<1>7. id \notin IdsInUse
  BY <1>1
<1> HIDE DEF runtime, b
<1>8. /\ client'[c].id = id
      /\ \A x \in Clients : x # c => client'[x].id = client[x].id
  BY <1>0, <1>1 DEF TypeOK, Idle
<1>9. InTable' = InTable \cup {cp}
  <2>1. /\ cs_bucket'[b] = cs_bucket[b] \cup {cp}
        /\ \A x \in Buckets : x # b => cs_bucket'[x] = cs_bucket[x]
    BY <1>0, <1>1, <1>5 DEF TypeOK
  <2>2. QED
    BY SMTT(30), <1>5, <2>1 DEF InTable
<1>10. /\ callout'[cp].id = id /\ callout'[cp].executor = None
       /\ callout'[cp].runtime = runtime
       /\ \A x \in Callouts : x # cp => callout'[x] = callout[x]
  BY <1>0, <1>1, <1>6 DEF TypeOK
<1>11. \A x \in InTable : x # cp /\ callout'[x] = callout[x]
  BY <1>6, <1>10, TableIds
<1>12. ASSUME NEW x \in Clients, x # c
       PROVE  TimerOf(x)' = TimerOf(x)
  <2>1. client[x].id # id
    BY <1>7 DEF IdsInUse
  <2>2. \A y : Holds(x, y) <=> Holds(x, y)'
    BY <1>8, <1>9, <1>10, <1>11, <1>12, <2>1 DEF Holds
  <2>3. \A y : Holds(x, y) => /\ Executing(y) <=> Executing(y)'
                              /\ callout'[y].runtime = callout[y].runtime
    BY <1>11 DEF Holds, Executing
  <2>4. QED
    BY <1>8, <1>12, <2>2, <2>3, TimerKept
<1>13. TimerOf(c).state = "off"
  BY SMTT(30), <1>2, TimerIs DEF Off
<1>14. TimerOf(c)' = [state |-> "set", runtime |-> RuntimeFor(delta)]
  <2>1. Holds(c, cp)' /\ ~Executing(cp)'
    BY <1>8, <1>9, <1>10 DEF Holds, Executing
  <2>2. QED
    BY <1>10, <2>1, TimerIsNext DEF SetFor, runtime
<1>15. QED
  BY <1>2, <1>12, <1>13, <1>14, OneStep
------------------------------------------------------------------------------
(* The threads *)

\* callout_execute() retires the callout it ran, if it comes from one, and
\* starts another or leaves.
LEMMA ExecRefines ==
    ASSUME Inv, Inv', NEW e \in Threads, NEW r \in Ticks, NEW Gone, NEW co,
           Gone = IF e \in InFlight THEN {thr[e].cp} ELSE {},
           \A b \in Buckets : cs_bucket'[b] = cs_bucket[b] \ Gone,
           co \in [Callouts -> CalloutRec],
           \A x \in Callouts : x \notin Gone => co[x] = callout[x],
           RunOrPark(e, r, co),
           \A c \in Clients : client'[c].id = client[c].id,
           UNCHANGED <<lbolt, cs_curtime>>
    PROVE  Abstract!ANext \/ UNCHANGED Abstract!avars
<1>. IInv
  BY DEF Inv
<1>0. TypeOK
  BY DEF IInv
<1>1. InTable' = InTable \ Gone
  BY SMTT(30) DEF InTable
<1>2. \A g \in Gone : g = thr[e].cp /\ Executing(g)
  <2>1. e \in InFlight => callout[thr[e].cp].executor = e
    BY DEF IInv, Ownership
  <2>2. e # None
    BY NoneAssumption
  <2>3. QED
    BY <2>1, <2>2 DEF Executing
<1>3. \A x \in InTable : x \in Callouts /\ callout[x].id # None
  BY TableIds
<1>4. \A c, d \in Clients : \A x : Holds(c, x) /\ Holds(d, x) => c = d
  <2> SUFFICES ASSUME NEW c \in Clients, NEW d \in Clients, NEW x,
                      Holds(c, x), Holds(d, x)
               PROVE  c = d
    OBVIOUS
  <2>1. client[c].id # None /\ client[c].id = client[d].id
    BY <1>3 DEF Holds
  <2>2. QED
    BY <2>1 DEF IInv, IdBook
\* The timers, if the callouts that stay are the same but for Started.
<1>5. ASSUME NEW Started \in SUBSET (InTable \ Gone),
             \A x \in InTable \ Gone :
                /\ callout'[x].id = callout[x].id
                /\ callout'[x].runtime = callout[x].runtime
                /\ x \notin Started => (Executing(x)' <=> Executing(x))
      PROVE  \A c \in Clients :
                /\ (\E g \in Gone : Holds(c, g))
                      => TimerOf(c).state = "run" /\ TimerOf(c)' = Ended
                /\ \/ \E x \in Gone \cup Started : Holds(c, x)
                   \/ TimerOf(c)' = TimerOf(c)
  <2> TAKE c \in Clients
  <2>1. \A x : Holds(c, x)' <=> Holds(c, x) /\ x \notin Gone
    BY <1>1, <1>5 DEF Holds
  <2>2. ASSUME NEW g \in Gone, Holds(c, g)
        PROVE  TimerOf(c).state = "run" /\ TimerOf(c)' = Ended
    <3>1. TimerOf(c).state = "run"
      BY SMTT(30), <1>2, <2>2, TimerIs DEF Run
    <3>2. client'[c].id # None
      BY <1>3, <2>2 DEF Holds
    <3>3. \A x : ~Holds(c, x)'
      BY <2>1, <2>2, HeldFacts
    <3>4. QED
      BY <3>1, <3>2, <3>3, TimerIsNext
  <2>3. ASSUME \A x \in Gone \cup Started : ~Holds(c, x)
        PROVE  TimerOf(c)' = TimerOf(c)
    <3>1. \A x : Holds(c, x) <=> Holds(c, x)'
      BY <2>1, <2>3
    <3>2. \A x : Holds(c, x) => /\ Executing(x) <=> Executing(x)'
                                /\ callout'[x].runtime = callout[x].runtime
      BY <1>5, <2>3 DEF Holds
    <3>3. QED
      BY <3>1, <3>2, TimerKept
  <2>4. QED
    BY <2>2, <2>3
\* No callout is due.
<1>6. CASE callout' = co
  <2>1. \A x \in InTable \ Gone :
           /\ callout'[x].id = callout[x].id
           /\ callout'[x].runtime = callout[x].runtime
           /\ Executing(x)' <=> Executing(x)
    BY <1>3, <1>6 DEF Executing
  <2>2. \A c \in Clients :
           /\ (\E g \in Gone : Holds(c, g))
                 => TimerOf(c).state = "run" /\ TimerOf(c)' = Ended
           /\ \/ \E x \in Gone : Holds(c, x)
              \/ TimerOf(c)' = TimerOf(c)
    <3>1. PICK Started : Started = {}
      OBVIOUS
    <3>2. Started \in SUBSET (InTable \ Gone) /\ Gone \cup Started = Gone
      BY <3>1
    <3>3. QED
      BY <1>5, <2>1, <3>2
  <2>3. CASE \E c \in Clients, g \in Gone : Holds(c, g)
    <3>1. PICK c \in Clients, g \in Gone : Holds(c, g)
      BY <2>3
    <3>2. \A x \in Clients : x # c => TimerOf(x)' = TimerOf(x)
      BY <1>2, <1>4, <2>2, <3>1
    <3>3. QED
      BY <2>2, <3>1, <3>2, OneStep
  <2>4. CASE ~ \E c \in Clients, g \in Gone : Holds(c, g)
    BY <2>2, <2>4, Stutter
  <2>5. QED
    BY <2>3, <2>4
\* A callout is due and is started.
<1>7. ASSUME NEW cp \in Due(r), callout' = [co EXCEPT ![cp].executor = e],
             Diff(r, cs_curtime) <= 0
      PROVE  Abstract!ANext
  <2>1. /\ cp \in InTable /\ ~Executing(cp) /\ callout[cp].runtime = r
        /\ cp \in Callouts /\ cp \notin Gone
    <3>1. r % BUCKETS \in Buckets
      BY SMTT(30), BucketType, TimeAssumption DEF Ticks
    <3>2. QED
      BY <1>2, <1>3, <1>7, <3>1 DEF Due, InTable
  <2>2. /\ callout'[cp].id = callout[cp].id
        /\ callout'[cp].runtime = callout[cp].runtime
        /\ callout'[cp].executor = e
        /\ \A x \in Callouts : x \notin Gone /\ x # cp => callout'[x] = callout[x]
    <3>1. co[cp] = callout[cp] /\ co[cp] \in CalloutRec
      BY <2>1
    <3>2. QED
      BY <1>7, <2>1, <3>1 DEF CalloutRec
  <2>3. Executing(cp)'
    BY <2>2, NoneAssumption DEF Executing
  <2>4. \A x \in InTable \ Gone :
           /\ callout'[x].id = callout[x].id
           /\ callout'[x].runtime = callout[x].runtime
           /\ x \notin {cp} => (Executing(x)' <=> Executing(x))
    BY <1>3, <2>2 DEF Executing
  <2>5. \A c \in Clients :
           /\ (\E g \in Gone : Holds(c, g))
                 => TimerOf(c).state = "run" /\ TimerOf(c)' = Ended
           /\ \/ \E x \in Gone \cup {cp} : Holds(c, x)
              \/ TimerOf(c)' = TimerOf(c)
    BY <1>5, <2>1, <2>4
  <2>6. PICK d \in Clients : Holds(d, cp)
    BY <2>1 DEF Holds, Pending, IInv, IdBook
  <2>7. TimerOf(d).state = "set" /\ Diff(TimerOf(d).runtime, cs_curtime) <= 0
    BY SMTT(30), <1>7, <2>1, <2>6, TimerIs DEF SetFor
  <2>8. TimerOf(d)' = Run
    <3>1. Holds(d, cp)'
      BY <1>1, <2>1, <2>2, <2>6 DEF Holds
    <3>2. QED
      BY <2>3, <3>1, TimerIsNext
  <2>9. CASE \E c \in Clients, g \in Gone : Holds(c, g)
    <3>1. PICK c \in Clients, g \in Gone : Holds(c, g)
      BY <2>9
    <3>2. c # d
      BY <2>1, <2>6, <3>1, HeldFacts
    <3>3. \A x \in Clients : x \notin {c, d} => TimerOf(x)' = TimerOf(x)
      BY <1>2, <1>4, <2>5, <2>6, <3>1
    <3>4. QED
      BY <2>5, <2>7, <2>8, <3>1, <3>2, <3>3, TwoStep
  <2>10. CASE ~ \E c \in Clients, g \in Gone : Holds(c, g)
    <3>1. \A x \in Clients : x # d => TimerOf(x)' = TimerOf(x)
      BY <1>4, <2>5, <2>6, <2>10
    <3>2. QED
      BY <2>7, <2>8, <3>1, OneStep
  <2>11. QED
    BY <2>9, <2>10
<1>8. QED
  BY <1>6, <1>7 DEF RunOrPark

\* Entering callout_execute(), and going round its loop.
LEMMA ExecStepsRefine ==
    ASSUME LeastNumber, Inv, Inv', NEW e \in Threads,
           CalloutThread(e) \/ RealtimeTimein(e) \/ Finish(e)
    PROVE  Abstract!ANext \/ UNCHANGED Abstract!avars
<1>. IInv
  BY DEF Inv
<1> USE DEF world, table, cprVars
<1>0. TypeOK
  BY DEF IInv
<1>1. CASE CalloutThread(e) \/ RealtimeTimein(e)
  <2>1. EnterExecute(e) /\ e \notin InFlight
    BY <1>1 DEF CalloutThread, RealtimeTimein, InFlight
  <2>2. ScanTo(cs_runtime, cs_curtime) \in Ticks
    BY <1>0, ScanType DEF TypeOK
  <2>3. callout \in [Callouts -> CalloutRec]
    BY <1>0 DEF TypeOK
  <2>4. \A b \in Buckets : cs_bucket'[b] = cs_bucket[b] \ {}
    BY <2>1 DEF EnterExecute
  <2>5. QED
    BY <2>1, <2>2, <2>3, <2>4, ExecRefines DEF EnterExecute
<1>2. CASE Finish(e)
  <2> DEFINE cp == thr[e].cp
             r  == thr[e].runtime
  <2>1. e \in InFlight
    BY <1>2 DEF Finish, InFlight
  <2>2. r \in Ticks /\ ResumeAt(r) \in Ticks
    BY <1>0, ResumeType DEF TypeOK, ThreadRec
  <2>3. r % BUCKETS \in Buckets
    <3>1. r \in Int
      BY SMTT(30), <2>2, TimeAssumption DEF Ticks
    <3>2. QED
      BY <3>1, BucketType
  <2>4. cp \in cs_bucket[r % BUCKETS]
    BY <2>1 DEF IInv, Ownership
  <2>5. /\ cs_bucket' = [cs_bucket EXCEPT ![r % BUCKETS] = @ \ {cp}]
        /\ client' = WakeCancellers(cp)
        /\ RunOrPark(e, ResumeAt(r), Freed(cp))
        /\ UNCHANGED <<lbolt, cs_curtime>>
    BY <1>2 DEF Finish
  <2> HIDE DEF cp, r
  <2>6. \A b \in Buckets : cs_bucket'[b] = cs_bucket[b] \ {cp}
    <3>1. PICK b \in Buckets : b = r % BUCKETS
      BY <2>3
    <3>2. cp \in cs_bucket[b] /\ cs_bucket' = [cs_bucket EXCEPT ![b] = @ \ {cp}]
      BY <2>4, <2>5, <3>1
    <3>3. QED
      BY <3>2, BucketRemoval
  <2>7. /\ Freed(cp) \in [Callouts -> CalloutRec]
        /\ \A x \in Callouts : x \notin {cp} => Freed(cp)[x] = callout[x]
    BY <1>0, Records DEF Freed, TypeOK
  <2>8. \A c \in Clients : client'[c].id = client[c].id
    BY <1>0, <2>5 DEF WakeCancellers, TypeOK, ClientRec
  <2>9. PICK Gone : Gone = {cp}
    OBVIOUS
  <2>10. Gone = IF e \in InFlight THEN {thr[e].cp} ELSE {}
    BY <2>1, <2>9 DEF cp
  <2>11. PICK co : co = Freed(cp)
    OBVIOUS
  <2>12. /\ \A b \in Buckets : cs_bucket'[b] = cs_bucket[b] \ Gone
         /\ co \in [Callouts -> CalloutRec]
         /\ \A x \in Callouts : x \notin Gone => co[x] = callout[x]
    BY <2>6, <2>7, <2>9, <2>11
  <2>13. PICK m \in Ticks : m = ResumeAt(r)
    BY <2>2
  <2>14. RunOrPark(e, m, co) /\ UNCHANGED <<lbolt, cs_curtime>>
    BY <2>5, <2>11, <2>13
  <2>15. QED
    BY SMTT(30), <2>8, <2>10, <2>12, <2>14, ExecRefines
<1>3. QED
  BY <1>1, <1>2
------------------------------------------------------------------------------
(* The steps that keep every timer *)

\* The callouts and the ids stay what they are.
LEMMA TimersKept ==
    ASSUME Inv, Inv', InTable' = InTable, callout' = callout,
           \A c \in Clients : client'[c].id = client[c].id
    PROVE  \A c \in Clients : TimerOf(c)' = TimerOf(c)
<1>. IInv
  BY DEF Inv
<1>1. \A cp : Executing(cp) <=> Executing(cp)'
  BY DEF Executing
<1>2. QED
  BY <1>1, SameTable

\* A client that moves about inside untimeout(), or enters or leaves a driver.
LEMMA SleepRefines ==
    ASSUME Inv, Inv', NEW c \in Clients,
           \/ EnterDriver(c) \/ LeaveDriver(c) \/ UntimeoutExecuting(c)
           \/ Recheck(c) /\ (StillExecuting(c) \/ c \in UnsafeClients)
           \/ SpuriousSetrun(c)
    PROVE  UNCHANGED Abstract!avars
<1>. IInv
  BY DEF Inv
<1> USE DEF world, table, cprVars
<1>1. UNCHANGED <<cs_bucket, callout, lbolt, cs_curtime>>
  BY DEF EnterDriver, LeaveDriver, UntimeoutExecuting, Recheck,
               SpuriousSetrun
<1>2. client \in [Clients -> ClientRec]
  BY DEF IInv, TypeOK
<1>3. \A x \in Clients : client'[x].id = client[x].id
  <2>1. CASE EnterDriver(c) \/ LeaveDriver(c)
    BY <2>1 DEF EnterDriver, LeaveDriver
  <2>2. CASE UntimeoutExecuting(c)
    <3>1. PICK cp : client' = [client EXCEPT ![c] = [@ EXCEPT !.pc = "c_done",
                                                             !.cp = cp]]
      BY <2>2 DEF UntimeoutExecuting
    <3>2. QED
      BY <1>2, <3>1 DEF ClientRec
  <2>3. CASE Recheck(c) /\ (StillExecuting(c) \/ c \in UnsafeClients)
    <3>1. \/ client' = [client EXCEPT ![c].pc = "c_done"]
          \/ client' = [client EXCEPT ![c].pc = "reenter"]
      BY <2>3 DEF Recheck
    <3>2. QED
      BY SMTT(30), <1>2, <3>1 DEF ClientRec
  <2>4. CASE SpuriousSetrun(c)
    <3>1. client' = [client EXCEPT ![c].pc = "woken"]
      BY <2>4 DEF SpuriousSetrun
    <3>2. QED
      BY <1>2, <3>1 DEF ClientRec
  <2>5. QED
    BY <2>1, <2>2, <2>3, <2>4
<1>4. InTable' = InTable
  BY <1>1 DEF InTable
<1>5. QED
  BY <1>1, <1>3, <1>4, TimersKept, Stutter

\* What a thread does outside cs_lock, the checkpoint, and no step at all.
LEMMA QuietRefines ==
    ASSUME Inv, Inv',
           \/ \E e \in Threads :
                 \/ BackToSleep(e) \/ Softint(e) \/ EnterUnsafe(e)
                 \/ NestedUntimeout(e) \/ FuncReturn(e) \/ Pig(e) \/ CprSleep(e)
           \/ CprStop \/ CalloutSave \/ OtherRestore \/ CalloutRestore
           \/ UNCHANGED vars
    PROVE  UNCHANGED Abstract!avars
<1>. IInv
  BY DEF Inv
<1> USE DEF world, table, cprVars
<1>1. UNCHANGED <<client, callout, lbolt, cs_curtime>>
  BY DEF BackToSleep, Softint, EnterUnsafe, NestedUntimeout, FuncReturn,
               Pig, CprSleep, CprStop, CalloutSave, OtherRestore,
               CalloutRestore, vars
<1>2. InTable' = InTable
  <2>1. CASE CalloutSave
    BY <2>1 DEF CalloutSave, SaveSkips, InTable
  <2>2. CASE CalloutRestore
    BY <2>2 DEF CalloutRestore, IInv, NothingSaved, InTable
  <2>3. CASE ~CalloutSave /\ ~CalloutRestore
    <3>1. cs_bucket' = cs_bucket
      BY <2>3
         DEF BackToSleep, Softint, EnterUnsafe, NestedUntimeout, FuncReturn,
             Pig, CprSleep, CprStop, OtherRestore, vars
    <3>2. QED
      BY <3>1 DEF InTable
  <2>4. QED
    BY <2>1, <2>2, <2>3
<1>3. QED
  BY <1>1, <1>2, TimersKept, Stutter

\* The clock thread has told the table of every tick but the one it is at.
Scheduled == clock = "idle" => cs_curtime = lbolt

\* lbolt++ and callout_schedule() are Tick and Schedule of CalloutSpec, or stutter.
LEMMA ClockRefines ==
    ASSUME Inv, Inv', Scheduled, ClockTick \/ CalloutSchedule
    PROVE  Abstract!ANext \/ UNCHANGED Abstract!avars
<1>. IInv
  BY DEF Inv
<1> USE DEF world, table, cprVars
<1>1. UNCHANGED <<client, callout, cs_bucket>>
  BY DEF ClockTick, CalloutSchedule
<1>2. \A c \in Clients : TimerOf(c)' = TimerOf(c)
  <2>1. InTable' = InTable
    BY <1>1 DEF InTable
  <2>2. QED
    BY <1>1, <2>1, TimersKept
<1>3. TimerMap' = TimerMap
  BY <1>2 DEF TimerMap
<1>4. CASE ClockTick
  <2>1. cs_curtime = lbolt /\ lbolt' = Wrap(lbolt + 1) /\ cs_curtime' = cs_curtime
    BY <1>4 DEF ClockTick, Scheduled
  <2>2. Abstract!Tick
    BY <1>3, <2>1 DEF Abstract!Tick, Abstract!Wrap, Wrap, TimerMap
  <2>3. QED
    BY <2>2 DEF Abstract!ANext
<1>5. CASE CalloutSchedule
  <2>1. cs_curtime' = lbolt /\ lbolt' = lbolt
    BY <1>5 DEF CalloutSchedule
  <2>2. CASE cs_curtime = lbolt
    BY <1>2, <2>1, <2>2, Stutter
  <2>3. CASE cs_curtime # lbolt
    <3>1. Abstract!Schedule
      BY <1>3, <2>1, <2>3 DEF Abstract!Schedule, TimerMap
    <3>2. QED
      BY <3>1 DEF Abstract!ANext
  <2>4. QED
    BY <2>2, <2>3
<1>6. QED
  BY <1>4, <1>5

\* The clock is idle only when callout_schedule() has caught up with lbolt.
LEMMA ScheduledNext ==
    ASSUME Scheduled, [Next]_vars
    PROVE  Scheduled'
<1> USE DEF world, table, cprVars
<1>1. CASE ClockTick
  BY <1>1 DEF ClockTick, Scheduled
<1>2. CASE CalloutSchedule
  <2>1. cs_curtime' = lbolt /\ lbolt' = lbolt
    BY <1>2 DEF CalloutSchedule
  <2>2. QED
    BY <2>1 DEF Scheduled
<1>3. CASE ~ClockTick /\ ~CalloutSchedule
  <2>1. UNCHANGED <<clock, lbolt, cs_curtime>>
    <3>1. ASSUME NEW c \in Clients, ClientStep(c)
          PROVE  UNCHANGED <<clock, lbolt, cs_curtime>>
      BY <3>1
         DEF ClientStep, EnterDriver, LeaveDriver, Forget, Timeout,
             UntimeoutGone, UntimeoutPending, UntimeoutExecuting, Recheck,
             Reenter, SpuriousSetrun
    <3>2. ASSUME NEW e \in Threads, ThreadStep(e)
          PROVE  UNCHANGED <<clock, lbolt, cs_curtime>>
      BY <3>2
         DEF ThreadStep, BackToSleep, CalloutThread, Softint, RealtimeTimein,
             EnterExecute, EnterUnsafe, NestedUntimeout, FuncReturn, Pig,
             CprSleep, Finish
    <3>3. CASE CprStop \/ CalloutSave \/ OtherRestore \/ CalloutRestore
      BY <3>3 DEF CprStop, CalloutSave, OtherRestore, CalloutRestore
    <3>4. CASE UNCHANGED vars
      BY <3>4 DEF vars
    <3>5. QED
      BY <1>3, <3>1, <3>2, <3>3, <3>4 DEF Next
  <2>2. QED
    BY <2>1 DEF Scheduled
<1>4. QED
  BY <1>1, <1>2, <1>3
------------------------------------------------------------------------------
\* The initial state of the table is that of CalloutSpec.
LEMMA InitRefines == Init => Scheduled /\ Abstract!AInit
<1> SUFFICES ASSUME Init
             PROVE  Scheduled /\ Abstract!AInit
  OBVIOUS
<1>1. lbolt = 0 /\ cs_curtime = 0
  BY DEF Init
<1>2. \A c \in Clients : TimerOf(c) = Off
  BY DEF Init, Idle, TimerOf, Off
<1>3. QED
  BY <1>1, <1>2 DEF Scheduled, Abstract!AInit, Abstract!At, Off

\* Every step of the table is a step of CalloutSpec, or none.
LEMMA StepRefines ==
    ASSUME LeastNumber, Inv, Inv', Scheduled, [Next]_vars
    PROVE  [Abstract!ANext]_(Abstract!avars)
<1>. IInv
  BY DEF Inv
<1> SUFFICES Abstract!ANext \/ UNCHANGED Abstract!avars
  OBVIOUS
<1>1. ASSUME NEW c \in Clients, ClientStep(c)
      PROVE  Abstract!ANext \/ UNCHANGED Abstract!avars
  <2>1. CASE Recheck(c)
    BY <2>1, DropRefines, SleepRefines
  <2>2. CASE \E delta \in Deltas : Timeout(c, delta)
    BY <2>2, InsertRefines
  <2>3. QED
    BY <1>1, <2>1, <2>2, DropRefines, SleepRefines, CancelRefines DEF ClientStep
<1>2. ASSUME NEW e \in Threads, ThreadStep(e)
      PROVE  Abstract!ANext \/ UNCHANGED Abstract!avars
  BY <1>2, QuietRefines, ExecStepsRefine DEF ThreadStep
<1>3. QED
  BY <1>1, <1>2, ClockRefines, QuietRefines DEF Next

------------------------------------------------------------------------------
(* A checkpoint *)

\* The flag is up from the first assignment of callout_save() of the normal table
\* to its callout_restore().
Stopped == ~realtime /\ cpr \in {"stopping", "saved"} => cpr_stop_callout

\* Only callout_restore() clears cpr_stop_callout.
LEMMA StoppedNext ==
    ASSUME Stopped, [Next]_vars
    PROVE  Stopped'
<1> USE DEF world, table, cprVars
<1>1. CASE CprStop \/ CalloutSave \/ OtherRestore \/ CalloutRestore
  BY <1>1 DEF CprStop, CalloutSave, OtherRestore, CalloutRestore, Stopped
<1>2. CASE ~(CprStop \/ CalloutSave \/ OtherRestore \/ CalloutRestore)
  <2>1. ASSUME NEW c \in Clients, ClientStep(c)
        PROVE  UNCHANGED <<realtime, cprVars>>
    BY <2>1
       DEF ClientStep, EnterDriver, LeaveDriver, Forget, Timeout,
           UntimeoutGone, UntimeoutPending, UntimeoutExecuting, Recheck,
           Reenter, SpuriousSetrun
  <2>2. ASSUME NEW e \in Threads, ThreadStep(e)
        PROVE  UNCHANGED <<realtime, cprVars>>
    BY <2>2
       DEF ThreadStep, BackToSleep, CalloutThread, Softint, RealtimeTimein,
           EnterExecute, EnterUnsafe, NestedUntimeout, FuncReturn, Pig,
           CprSleep, Finish
  <2>3. CASE ClockTick \/ CalloutSchedule
    BY <2>3 DEF ClockTick, CalloutSchedule, Stopped
  <2>4. CASE UNCHANGED vars
    BY <2>4 DEF vars, Stopped
  <2>5. CASE UNCHANGED <<realtime, cprVars>>
    BY <2>5 DEF Stopped
  <2>6. QED
    BY <1>2, <2>1, <2>2, <2>3, <2>4, <2>5 DEF Next
<1>3. QED
  BY <1>1, <1>2

\* While the flag is up, a step neither marks nor retires a callout of the normal
\* table: timeout() and untimeout() concern callouts that nobody executes.
LEMMA ExecutorsKept ==
    ASSUME Inv, [Next]_vars, ~realtime, cpr_stop_callout, NEW cp \in InTable
    PROVE  callout'[cp].executor = callout[cp].executor
<1>. IInv
  BY DEF Inv
<1> USE DEF world, table, cprVars
<1>0. cp \in Callouts /\ callout \in [Callouts -> CalloutRec]
  BY SMTT(30) DEF IInv, TypeOK, InTable
<1>1. ASSUME NEW c \in Clients, NEW delta \in Deltas, Timeout(c, delta)
      PROVE  callout' = callout \/ callout'[cp] = callout[cp]
  <2>1. cp \notin Allocatable
    BY DEF Allocatable, IInv, Ownership
  <2>2. QED
    BY <1>0, <1>1, <2>1 DEF Timeout
<1>2. ASSUME NEW c \in Clients, UntimeoutPending(c)
      PROVE  callout'[cp].executor = callout[cp].executor
  <2>1. PICK cq : ~Executing(cq) /\ callout' = Freed(cq)
    BY <1>2 DEF UntimeoutPending
  <2>2. CASE cq = cp
    BY <1>0, <2>1, <2>2 DEF Freed, Blank, Executing
  <2>3. CASE cq # cp
    BY <1>0, <2>1, <2>3 DEF Freed
  <2>4. QED
    BY <2>2, <2>3
<1>3. ASSUME NEW c \in Clients, ClientStep(c)
      PROVE  callout'[cp].executor = callout[cp].executor
  <2>1. CASE \/ EnterDriver(c) \/ LeaveDriver(c) \/ Forget(c) \/ UntimeoutGone(c)
             \/ UntimeoutExecuting(c) \/ Recheck(c) \/ Reenter(c) \/ SpuriousSetrun(c)
    BY <2>1 DEF EnterDriver, LeaveDriver, Forget, UntimeoutGone, UntimeoutExecuting,
                Recheck, Reenter, SpuriousSetrun
  <2>2. QED
    BY <1>1, <1>2, <1>3, <2>1 DEF ClientStep
<1>4. ASSUME NEW e \in Threads, ThreadStep(e)
      PROVE  callout' = callout
  BY <1>4 DEF ThreadStep, BackToSleep, CalloutThread, Softint, RealtimeTimein,
              EnterUnsafe, NestedUntimeout, FuncReturn, Pig, CprSleep, Finish
<1>5. CASE \/ ClockTick \/ CalloutSchedule \/ CprStop \/ CalloutSave
           \/ OtherRestore \/ CalloutRestore \/ UNCHANGED vars
  BY <1>5 DEF ClockTick, CalloutSchedule, CprStop, CalloutSave, OtherRestore,
              CalloutRestore, vars
<1>6. QED
  BY <1>3, <1>4, <1>5 DEF Next

\* While the flag is up, a thread of the normal table goes from the scan or from a
\* retired callout to no other function.
LEMMA StartsKept ==
    ASSUME Inv, [Next]_vars, ~realtime, cpr_stop_callout, NEW e \in Threads,
           thr'[e].pc = "func", thr[e].pc # "func"
    PROVE  thr[e].pc = "unsafe" /\ thr'[e].cp = thr[e].cp
<1>. IInv
  BY DEF Inv
<1> USE DEF world, table, cprVars
<1>0. thr \in [Threads -> ThreadRec]
  BY DEF IInv, TypeOK
<1>1. ASSUME NEW c \in Clients, ClientStep(c)
      PROVE  thr' = thr
  BY <1>1
     DEF ClientStep, EnterDriver, LeaveDriver, Forget, Timeout,
         UntimeoutGone, UntimeoutPending, UntimeoutExecuting, Recheck,
         Reenter, SpuriousSetrun
<1>2. ASSUME NEW x \in Threads,
             NEW y \in {"signalled", "nested", "relock", "pig", "cprwait"},
             thr' = [thr EXCEPT ![x].pc = y]
      PROVE  FALSE
  BY SMTT(30), <1>0, <1>2 DEF ThreadRec
<1>3. ASSUME NEW x \in Threads, thr' = [thr EXCEPT ![x] = Parked]
      PROVE  FALSE
  BY <1>0, <1>3 DEF Parked
<1>4. ASSUME NEW x \in Threads, EnterUnsafe(x)
      PROVE  thr[e].pc = "unsafe" /\ thr'[e].cp = thr[e].cp
  BY SMTT(30), <1>0, <1>4 DEF EnterUnsafe, ThreadRec
<1>5. ASSUME NEW x \in Threads, ThreadStep(x), ~EnterUnsafe(x)
      PROVE  FALSE
  BY <1>2, <1>3, <1>5
     DEF ThreadStep, BackToSleep, CalloutThread, Softint, RealtimeTimein,
         NestedUntimeout, FuncReturn, Pig, CprSleep, Finish
<1>6. ASSUME NEW x \in Threads, thr'[x] = Awakened(x)
      PROVE  thr'[x].pc # "func"
  BY SMTT(30), <1>0, <1>6 DEF Awakened, ThreadRec
<1>7. CASE CalloutSchedule
  BY <1>0, <1>6, <1>7 DEF CalloutSchedule, Dispatch, PoolSleepers
<1>8. CASE CalloutRestore
  BY <1>0, <1>6, <1>8 DEF CalloutRestore
<1>9. CASE ClockTick \/ CprStop \/ CalloutSave \/ OtherRestore \/ UNCHANGED vars
  BY <1>9 DEF ClockTick, CprStop, CalloutSave, OtherRestore, vars
<1>10. QED
  BY <1>1, <1>4, <1>5, <1>7, <1>8, <1>9 DEF Next

------------------------------------------------------------------------------
(* The theorems *)

WF == INSTANCE WellFoundedInduction

\* The order of the natural numbers is well founded.
LEMMA LeastNumberHolds == LeastNumber
<1> SUFFICES ASSUME NEW T \in SUBSET Nat, T # {}
             PROVE  \E k \in T : \A j \in T : k <= j
  BY DEF LeastNumber
<1> DEFINE R == WF!OpToRel(<, Nat)
<1>1. \E x \in T : \A y \in T : ~ (<<y, x>> \in R)
  BY WF!NatLessThanWellFounded, WF!WFMin
<1>2. \A x, y \in Nat : <<y, x>> \in R <=> y < x
  BY DEF WF!OpToRel
<1> HIDE DEF R
<1>3. PICK x \in T : \A y \in T : ~ (<<y, x>> \in R)
  BY <1>1
<1>4. \A y \in T : x <= y
  <2> TAKE y \in T
  <2>1. x \in Nat /\ y \in Nat
    OBVIOUS
  <2>2. ~(y < x)
    BY <1>2, <1>3, <2>1
  <2>3. QED
    BY SMTT(30), <2>1, <2>2
<1>5. QED
  BY <1>4

\* The invariant, folded, holds in every reachable state.
LEMMA AlwaysInv == Spec => []Inv
<1>1. Inv /\ [Next]_vars => Inv'
  BY NextInv, LeastNumberHolds
<1>2. QED
  BY <1>1, InitInv, PTL DEF Spec

\* The invariant of callout.c holds in every reachable state, whatever the
\* numbers of clients, threads, structures and buckets and the width of clock_t.
THEOREM Invariance == Spec => []IInv
<1>1. Inv => IInv
  BY DEF Inv
<1>2. QED
  BY <1>1, AlwaysInv, PTL

\* callout.c keeps its variables within the types callo.h gives them.
THEOREM TypeCorrect == Spec => []TypeOK
<1>1. Inv => TypeOK
  BY DEF Inv, IInv
<1>2. QED
  BY <1>1, AlwaysInv, PTL

\* A callout is in one place, and one thread executes and retires it: what
\* callout_execute() relies on when it has dropped cs_lock and comes back.
THEOREM OwnershipHolds == Spec => []Ownership
<1>1. Inv => Ownership
  BY DEF Inv, IInv
<1>2. QED
  BY <1>1, AlwaysInv, PTL

\* callout_delete() drops unsafe_driver before it waits for a function that
\* has to acquire it.
THEOREM UnsafeDeadlockFree == Spec => []NoUnsafeDeadlock
<1>1. Inv => NoUnsafeDeadlock
  BY DEF Inv, IInv, Cancelling, NoUnsafeDeadlock
<1>2. QED
  BY <1>1, AlwaysInv, PTL

\* untimeout() returns a time left only for a function that was never started,
\* and -1 only for one that was.
THEOREM VerdictHolds == Spec => UntimeoutVerdict
<1> DEFINE Verdict ==
        \A c \in Clients :
           /\ UntimeoutPending(c) => client[c].id \notin ran
           /\ UntimeoutGone(c) \/ Reenter(c) => client[c].id \in ran
           /\ Recheck(c) => client[c].id \in ran
<1>1. Inv => Verdict
  BY VerdictStep
<1>2. QED
  BY <1>1, AlwaysInv, PTL DEF UntimeoutVerdict

\* The DDI requirement: when untimeout() returns, the function is not running
\* and will not run.
THEOREM BarrierHolds == Spec => UntimeoutBarrier
<1> DEFINE Barrier ==
        \A c \in Clients :
           client'[c].id # client[c].id /\ ~Forget(c)
              => \A b \in Buckets : \A cp \in cs_bucket'[b] :
                    callout'[cp].id # client[c].id
<1>1. Inv /\ Inv' /\ [Next]_vars => Barrier
  BY BarrierStep
<1>2. QED
  BY <1>1, AlwaysInv, PTL DEF UntimeoutBarrier, Spec

\* During a checkpoint no thread of the normal table takes up or retires a callout,
\* and none starts a function other than the one it was already waiting to call.
THEOREM QuiescenceHolds == Spec => NormalQuiesces
<1> DEFINE Quiesces ==
        cpr = "saved" /\ ~realtime =>
           /\ \A cp \in InTable : callout'[cp].executor = callout[cp].executor
           /\ \A e \in Threads :
                 thr'[e].pc = "func" /\ thr[e].pc # "func"
                    => thr[e].pc = "unsafe" /\ thr'[e].cp = thr[e].cp
<1>1. Init => Stopped
  BY DEF Init, Stopped
<1>2. Stopped /\ [Next]_vars => Stopped'
  BY StoppedNext
<1>3. Inv /\ Stopped /\ [Next]_vars => Quiesces
  BY ExecutorsKept, StartsKept DEF Stopped
<1>4. QED
  BY <1>1, <1>2, <1>3, AlwaysInv, PTL DEF NormalQuiesces, Spec

\* callout.c keeps the promise of CalloutSpec: no timer starts before its tick
\* or twice, and untimeout() returns only when its timer is neither running nor
\* going to run.
THEOREM Refinement == Spec => Implements
<1>1. Scheduled /\ [Next]_vars => Scheduled'
  BY ScheduledNext
<1>2. Inv /\ Inv' /\ Scheduled /\ [Next]_vars => [Abstract!ANext]_(Abstract!avars)
  BY StepRefines, LeastNumberHolds
<1>3. QED
  BY AlwaysInv, InitRefines, <1>1, <1>2, PTL DEF Spec, Implements, Abstract!ASpec
==============================================================================
