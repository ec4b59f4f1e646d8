--------------------------- MODULE MCMeteredClassify ---------------------------
(* MeteredClassify on small instances.                                     *)
EXTENDS MeteredClassify
=============================================================================
