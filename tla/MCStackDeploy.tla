---------------------------- MODULE MCStackDeploy ----------------------------
(* Model values for StackDeploy: two nodes, two deploy requests, one teardown. *)
EXTENDS StackDeploy

CONSTANTS n1, n2, d1, d2, t1
=============================================================================
