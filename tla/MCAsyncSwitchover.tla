-------------------------- MODULE MCAsyncSwitchover --------------------------
(* Model values for AsyncSwitchover: a primary and two replicas. *)
EXTENDS AsyncSwitchover

CONSTANTS a, b, c, x, y
=============================================================================
