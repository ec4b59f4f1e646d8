---------------------------- MODULE MCStripeBilling ----------------------------
(* StripeBilling on small instances.                                       *)
EXTENDS StripeBilling, TLC
Symmetry == Permutations(Handlers) \cup Permutations(Requests)
=============================================================================
