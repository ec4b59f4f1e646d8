----------------------------- MODULE MCLiveActions -----------------------------
(* LiveActions on small instances; the clicks, and the items, are alike.   *)
EXTENDS LiveActions, TLC
Symmetry == Permutations(Clicks) \cup Permutations(Items)
=============================================================================
