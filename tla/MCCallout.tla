------------------------------ MODULE MCCallout ------------------------------
(* Callout instantiated for TLC. *)
EXTENDS CalloutRefine, TLC

MCShortDeltas == {0, 2}
MCSymmetry == Permutations(Callouts) \cup Permutations(Threads)
                \cup Permutations(Seqs)
==============================================================================
