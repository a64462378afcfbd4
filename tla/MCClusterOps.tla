---------------------------- MODULE MCClusterOps -----------------------------
(* Model values for ClusterOps: three members, a promote, two rebuilds, a rolling restart. *)
EXTENDS ClusterOps, TLC

CONSTANTS a, b, c, s1, r1, r2, k1, x

Interchangeable == Permutations({b, c}) \cup Permutations({r1, r2})
=============================================================================
