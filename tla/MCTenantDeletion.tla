--------------------------- MODULE MCTenantDeletion ---------------------------
(* TenantDeletion on small instances.                                      *)
EXTENDS TenantDeletion
=============================================================================
