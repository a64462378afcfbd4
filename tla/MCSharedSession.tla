--------------------------- MODULE MCSharedSession ---------------------------
(* Model values for SharedSession. *)
EXTENDS SharedSession, TLC

CONSTANTS g1, g2, t1
=============================================================================
