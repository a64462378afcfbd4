---------------------------- MODULE MCFrameDeploy ----------------------------
(* Model values for FrameDeploy: a PXC cluster and a replication group. *)
EXTENDS FrameDeploy

CONSTANTS P, A, p1, a1, a2

MCKind == [f \in Frames |-> IF f = P THEN "pxc" ELSE "async"]
MCMembers == [f \in Frames |-> IF f = P THEN <<p1>> ELSE <<a1, a2>>]

\* A PXC cluster is drawn beside the replication group before the second deploy.
Grows == <<{A}, {A, P}>>
=============================================================================
