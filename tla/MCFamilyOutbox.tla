---------------------------- MODULE MCFamilyOutbox ----------------------------
(* FamilyOutbox on small instances.                                        *)
EXTENDS FamilyOutbox
=============================================================================
