----------------------------- MODULE Rendezvous ------------------------------
(***************************************************************************)
(* What the deploy barrier promises (replication.go, "deploy barrier"):    *)
(* nobody sets up replication while a participant of the same deploy is    *)
(* still on its way to the reset baseline.  A participant may give up, and *)
(* a waiter may run out of patience; a cancelled deploy promises the same. *)
(***************************************************************************)
CONSTANTS Deploys, Nodes, Waiters

VARIABLES
    party,    \* deploy -> node -> "absent", "working", "ready" (baselined) or "gone"
    passed    \* deploy -> waiter -> "in", "out" (the barrier opened) or "late" (timed out)

rendezvousVars == <<party, passed>>

Init ==
    /\ party = [d \in Deploys |-> [n \in Nodes |-> "absent"]]
    /\ passed = [d \in Deploys |-> [w \in Waiters |-> "in"]]

Working(d) == {n \in Nodes : party[d][n] = "working"}

Seat(d, S) ==
    /\ \A n \in Nodes : party[d][n] = "absent"
    /\ party' = [party EXCEPT ![d] = [n \in Nodes |-> IF n \in S THEN "working" ELSE "absent"]]
    /\ UNCHANGED passed

Ready(d, n) ==
    /\ n \in Working(d)
    /\ party' = [party EXCEPT ![d][n] = "ready"]
    /\ UNCHANGED passed

GiveUp(d, S) ==
    /\ S \subseteq Working(d)
    /\ party' = [party EXCEPT ![d] = [n \in Nodes |-> IF n \in S THEN "gone" ELSE @[n]]]
    /\ UNCHANGED passed

Leave(d, w) ==
    /\ passed[d][w] = "in"
    /\ Working(d) = {}
    /\ passed' = [passed EXCEPT ![d][w] = "out"]
    /\ UNCHANGED party

LosePatience(d, w) ==
    /\ passed[d][w] = "in"
    /\ passed' = [passed EXCEPT ![d][w] = "late"]
    /\ UNCHANGED party

Next ==
    \E d \in Deploys :
        \/ \E S \in SUBSET Nodes : Seat(d, S) \/ GiveUp(d, S)
        \/ \E n \in Nodes : Ready(d, n)
        \/ \E w \in Waiters : Leave(d, w) \/ LosePatience(d, w)

Spec == Init /\ [][Next]_rendezvousVars
=============================================================================
