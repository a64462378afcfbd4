---------------------------- MODULE MCStackDesign ----------------------------
(* Model values for StackDesign. *)
EXTENDS StackDesign, TLC

CONSTANTS n1, n2, e1, e2, p1, s1, d1
=============================================================================
