--------------------------- MODULE MCConnectorSync ---------------------------
(* ConnectorSync on small sets of invocations.                             *)
EXTENDS ConnectorSync
=============================================================================
