--------------------------- MODULE MCDocPersistence ---------------------------
(* Instances of DocPersistence for TLC. *)
EXTENDS DocPersistence
=============================================================================
