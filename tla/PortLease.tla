------------------------------ MODULE PortLease ------------------------------
(***************************************************************************)
(* What the host_ports table promises, whatever goes on between choosing a *)
(* port and publishing it: a reserved port leaves its owner only when the  *)
(* owner gives it up or the table is rebuilt at start-up.                   *)
(***************************************************************************)
EXTENDS Naturals

CONSTANTS Ports, Owners, None

VARIABLES
    table,   \* host_ports: port -> its owner, or None
    boots    \* how many times the server has started over

leaseVars == <<table, boots>>

Init ==
    /\ table = [p \in Ports |-> None]
    /\ boots = 0

\* S becomes exactly o's reservations; none of S is somebody else's.
Grant(o, S) ==
    /\ \A p \in S : table[p] \in {None, o}
    /\ table' = [p \in Ports |-> IF p \in S THEN o
                                 ELSE IF table[p] = o THEN None ELSE table[p]]
    /\ UNCHANGED boots

Release(o) ==
    /\ table' = [p \in Ports |-> IF table[p] = o THEN None ELSE table[p]]
    /\ UNCHANGED boots

\* Only a start of the server may rewrite the whole table.
Rebuild ==
    /\ boots' = boots + 1
    /\ table' \in [Ports -> Owners \cup {None}]

Next ==
    \/ \E o \in Owners : (\E S \in SUBSET Ports : Grant(o, S)) \/ Release(o)
    \/ Rebuild

Spec == Init /\ [][Next]_leaseVars
=============================================================================
