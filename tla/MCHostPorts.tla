----------------------------- MODULE MCHostPorts -----------------------------
(* Model values for HostPorts: two containers that compete for two ports. *)
EXTENDS HostPorts

CONSTANTS o1, o2, p1, p2
=============================================================================
