---------------------------- MODULE CalloutRefine ----------------------------
(***************************************************************************)
(* callout.c implements CalloutSpec: the timer of a client is found in the *)
(* table under the id that the client holds.                               *)
(***************************************************************************)
EXTENDS Callout

\* The callout in the table under the id that client c holds.
Holds(c, cp) == cp \in InTable /\ callout[cp].id = client[c].id

TimerOf(c) ==
    IF client[c].id = None THEN [state |-> "off", runtime |-> 0]
    ELSE IF \E cp \in Callouts : Holds(c, cp) /\ ~Executing(cp)
    THEN [state |-> "set",
          runtime |-> callout[CHOOSE cp \in Callouts :
                                 Holds(c, cp) /\ ~Executing(cp)].runtime]
    ELSE IF \E cp \in Callouts : Holds(c, cp)
    THEN [state |-> "run", runtime |-> 0]
    ELSE [state |-> "done", runtime |-> 0]

Abstract == INSTANCE CalloutSpec WITH
    curtime <- cs_curtime,
    timer <- [c \in Clients |-> TimerOf(c)]

\* A callout table, with its buckets, ids, free list, executing threads and
\* checkpoints, is the set of timers that CalloutSpec promises: none starts
\* before its tick or twice, and untimeout() returns only once its timer will
\* not run.  Retiring one callout and starting the next is one step of the code.
Implements == Abstract!ASpec
==============================================================================
