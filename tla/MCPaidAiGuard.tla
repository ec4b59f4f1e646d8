----------------------------- MODULE MCPaidAiGuard -----------------------------
(* PaidAiGuard on small instances.                                         *)
EXTENDS PaidAiGuard
=============================================================================
