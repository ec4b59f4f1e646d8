-------------------------- MODULE MCLeaseHeartbeat --------------------------
(* LeaseHeartbeat with the default configuration's proportions.            *)
EXTENDS LeaseHeartbeat
=============================================================================
