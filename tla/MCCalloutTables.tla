--------------------------- MODULE MCCalloutTables ---------------------------
(* The normal and the realtime table of callout.c. *)
EXTENDS Callout, TLC

MCDeltas == {0, 2}
MCTABLES == BOOLEAN
MCSymmetry == Permutations(Callouts) \cup Permutations(Threads)
                \cup Permutations(Seqs)

\* A checkpoint begins at tick 0: whatever state a table is in at another tick,
\* it is in at tick 0 as well, with all its times shifted.
CprAtZero == cpr = "up" /\ cpr' # "up" => lbolt = 0

\* The realtime table is used by the MT-safe caller only.
RealtimeUse ==
    realtime => \A c \in UnsafeClients : unsafe_driver' # c /\ client'[c].id = None
==============================================================================
