----------------------------- MODULE MCTenantTeam -----------------------------
(* TenantTeam on small instances.                                          *)
EXTENDS TenantTeam, TLC
Symmetry == Permutations(Clerks) \cup Permutations(Invites) \cup Permutations(Users \ Founders)
=============================================================================
