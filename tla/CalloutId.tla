------------------------------ MODULE CalloutId ------------------------------
(***************************************************************************)
(* Callout ids: the arithmetic of callout_insert() on the counters of the  *)
(* buckets, and the decoding of an id by untimeout() and callout_delete(). *)
(* An id is, from the low-order bits up, the bucket, a counter of COUNTS   *)
(* values, the long-term bit and the two table bits; the two bits above    *)
(* are flags of the extended id in the structure.  Both tables are here,   *)
(* as they share the space of ids that untimeout() accepts.                *)
(*                                                                         *)
(* Whether an id is unique rests on what sys/callo.h says of the system's  *)
(* behaviour, which guards Insert: COUNTS short-term callouts at most are  *)
(* filed in a bucket during Window ticks, and the long-term counter does   *)
(* not come round while a long-term callout of its bucket is in the table. *)
(* Times are relative to lbolt, so that runs are not bounded in time.      *)
(***************************************************************************)
EXTENDS Integers, FiniteSets

CONSTANTS BUCKETS,         \* CALLOUT_BUCKETS
          COUNTS,          \* CALLOUT_LONGTERM / CALLOUT_BUCKETS
          LONGTERM_TICKS,  \* CALLOUT_LONGTERM_TICKS
          Slots,           \* bound: callout structures
          Deltas,          \* arguments of timeout()
          InUse,           \* bound: tables and buckets in use
          MaxLate,         \* ticks after its runtime by which a callout is done
          Window,          \* ticks during which ids do not come round
          Free             \* a structure on the free list

LONGTERM == COUNTS * BUCKETS
NORMAL == 2 * LONGTERM
REALTIME == 4 * LONGTERM
UNSAFE_DRIVER == 8 * LONGTERM
EXECUTING == 16 * LONGTERM

Tables == {NORMAL, REALTIME}
Buckets == 0..BUCKETS-1
Heads == {<<IF u[1] = "NORMAL" THEN NORMAL ELSE REALTIME, u[2]>> : u \in InUse}

\* The operations on one bit, which is given by its value.
Has(x, bit) == (x \div bit) % 2 = 1
Or(x, bit) == IF Has(x, bit) THEN x ELSE x + bit
AndNot(x, bit) == IF Has(x, bit) THEN x - bit ELSE x

\* x & CALLOUT_ID_MASK
IdMask(x) == AndNot(AndNot(x, UNSAFE_DRIVER), EXECUTING)

VARIABLES phase,       \* lbolt & CALLOUT_BUCKET_MASK
          b_short_id,  \* last short-term id of each bucket of each table
          b_long_id,   \* last long-term id
          callout,     \* the structures
          made,        \* history: ages of the short-term ids of each bucket
          longs        \* history: long-term ids made while one is in use

vars == <<phase, b_short_id, b_long_id, callout, made, longs>>

\* callout_setup()
Init ==
    /\ phase = 0
    /\ b_short_id = [h \in Heads |-> h[2] + h[1]]
    /\ b_long_id = [h \in Heads |-> h[2] + h[1] + LONGTERM]
    /\ callout = [s \in Slots |-> Free]
    /\ made = [h \in Heads |-> [a \in 0..Window-1 |-> 0]]
    /\ longs = [h \in Heads |-> 0]

\* Mutant: every callout takes its id from the short-term counter.
NeverLong(delta) == FALSE

\* "runtime - curtime > CALLOUT_LONGTERM_TICKS"
IsLong(delta) == delta > LONGTERM_TICKS

NextShort(id) == AndNot(id + BUCKETS, LONGTERM)

\* Mutant: the long-term bit is left in place for the carry to meet.
LongUnprotected(id) == Or(id + BUCKETS, LONGTERM)

NextLong(id) == Or(id - LONGTERM + BUCKETS, LONGTERM)

CalloutsOf(h) == {s \in Slots : callout[s] # Free /\ callout[s].head = h}

Recent(h) ==
    LET sum[a \in 0..Window] == IF a = 0 THEN 0 ELSE sum[a-1] + made[h][a-1]
    IN  sum[Window]

\* callout_insert(), by a thread that may hold unsafe_driver.
Insert(s, table, delta, unsafe) ==
    LET h == <<table, (phase + delta) % BUCKETS>>
        id == IF IsLong(delta) THEN NextLong(b_long_id[h]) ELSE NextShort(b_short_id[h])
    IN  /\ callout[s] = Free
        /\ h \in Heads
        /\ IF IsLong(delta)
           THEN /\ longs[h] < COUNTS
                /\ longs' = [longs EXCEPT ![h] = @ + 1]
                /\ b_long_id' = [b_long_id EXCEPT ![h] = id]
                /\ UNCHANGED <<b_short_id, made>>
           ELSE /\ Recent(h) < COUNTS
                /\ made' = [made EXCEPT ![h][0] = @ + 1]
                /\ b_short_id' = [b_short_id EXCEPT ![h] = id]
                /\ UNCHANGED <<b_long_id, longs>>
        /\ callout' = [callout EXCEPT ![s] =
              [head |-> h, id |-> id, left |-> delta, long |-> IsLong(delta),
               xid |-> IF unsafe THEN Or(id, UNSAFE_DRIVER) ELSE id]]
        /\ UNCHANGED phase

\* callout_execute() marks the callout.
Execute(s) ==
    /\ callout[s] # Free
    /\ callout[s].left <= 0
    /\ ~Has(callout[s].xid, EXECUTING)
    /\ callout' = [callout EXCEPT ![s].xid = Or(@, EXECUTING)]
    /\ UNCHANGED <<phase, b_short_id, b_long_id, made, longs>>

\* The callout has been executed, or untimeout() takes it out of the table.
Retire(s) ==
    /\ callout[s] # Free
    /\ callout' = [callout EXCEPT ![s] = Free]
    /\ longs' = [h \in Heads |->
                    IF \E u \in CalloutsOf(h) \ {s} : callout[u].long THEN longs[h]
                    ELSE 0]
    /\ UNCHANGED <<phase, b_short_id, b_long_id, made>>

\* lbolt++
Tick ==
    /\ \A s \in Slots : callout[s] # Free => callout[s].left > -MaxLate
    /\ phase' = (phase + 1) % BUCKETS
    /\ callout' = [s \in Slots |-> IF callout[s] = Free THEN Free
                                   ELSE [callout[s] EXCEPT !.left = @ - 1]]
    /\ made' = [h \in Heads |-> [a \in 0..Window-1 |->
                                    IF a = 0 THEN 0 ELSE made[h][a-1]]]
    /\ UNCHANGED <<b_short_id, b_long_id, longs>>

Next ==
    \/ \E s \in Slots : Execute(s) \/ Retire(s)
    \/ \E s \in Slots, table \in Tables, delta \in Deltas, unsafe \in BOOLEAN :
          Insert(s, table, delta, unsafe)
    \/ Tick

Spec == Init /\ [][Next]_vars
------------------------------------------------------------------------------
(* Properties *)

\* untimeout(): the table from the bit of the id, the bucket from its low bits,
\* and the callout by comparison of the masked extended id.
TableOf(id) == IF Has(id, REALTIME) THEN REALTIME ELSE NORMAL
Lookup(id) ==
    {s \in CalloutsOf(<<TableOf(id), id % BUCKETS>>) : IdMask(callout[s].xid) = id}

\* The counters never carry into the long-term bit, the table bits or the flags,
\* nor into the bucket number.
TypeOK ==
    /\ phase \in Buckets
    /\ \A h \in Heads :
          /\ b_short_id[h] \in {h[1] + h[2] + n * BUCKETS : n \in 0..COUNTS-1}
          /\ b_long_id[h] \in {h[1] + LONGTERM + h[2] + n * BUCKETS : n \in 0..COUNTS-1}
          /\ \A a \in 0..Window-1 : made[h][a] \in 0..COUNTS
          /\ longs[h] \in 0..COUNTS
    /\ \A s \in Slots : callout[s] # Free =>
          callout[s].head \in Heads /\ callout[s].xid \in 0..2*EXECUTING-1

\* "The callout ID uniquely identifies a callout": untimeout() finds the callout
\* that timeout() returned the id of, and no other, whichever table it is in,
\* how ever often the counters have come round and whatever its flags.
IdFindsCallout ==
    \A s \in Slots : callout[s] # Free =>
       callout[s].id # 0 /\ Lookup(callout[s].id) = {s}
==============================================================================
