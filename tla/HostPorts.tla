------------------------------ MODULE HostPorts ------------------------------
(***************************************************************************)
(* Choosing, reserving and pinning the host ports of containers.           *)
(*                                                                         *)
(*   app/hostports.go  pickHostPorts, the probe, the host_ports table,     *)
(*                     reseedHostPorts                                     *)
(*   app/docker.go     ContainerCreate's portGuard, pinnedHostPorts        *)
(*   app/intranet.go   a provisioner's create, start and record;           *)
(*                     removeNodeResources                                 *)
(*                                                                         *)
(* An owner is a container name.  Assumed: one deploy or one removal works *)
(* on a node at a time.  StackDeploy shows it of clean deploys; a deploy a *)
(* teardown overtook, and the goroutine of cleanupRemovedNodes beside a    *)
(* deploy that began later, may release the ports of a node that is being  *)
(* provisioned, and are not modelled here.                                 *)
(***************************************************************************)
EXTENDS Naturals, FiniteSets

CONSTANTS
    Ports,       \* host ports: the ephemeral range and what users type
    Owners,      \* container names
    MaxPublish,  \* how many ports one container publishes at most
    MaxFaults,   \* how many starts of the server and failed removals there may be
    None         \* no owner, no container

ASSUME PortsAssumption ==
    /\ None \notin Owners
    /\ MaxPublish \in Nat /\ MaxFaults \in Nat

VARIABLES
    table,     \* host_ports: port -> owner, or None
    lock,      \* hostPortBook: who holds it, or None
    pc,        \* a node's provisioner, or the removal of the node
    want,      \* the ports it asks for: typed by a user, kept from last time, and new ones
    snap,      \* pickHostPorts: the ports other owners held when the table was read
    out,       \* pickHostPorts: the ports it settled on (both are cleared after their last use)
    cont,      \* Docker: the ports a container is pinned to, and whether it runs
    rec,       \* deployments: "none", "row", or "cid" once the row names the container
    boots,     \* server starts so far
    leaked,    \* history: ports given up, or their node removed, while a container pinned them
    stuck      \* removals Docker did not carry out so far

pickVars == <<want, snap, out>>
vars     == <<table, lock, pc, pickVars, cont, rec, boots, leaked, stuck>>

PC        == {"idle", "remove", "lock", "probe", "commit", "create", "start", "record", "release"}
Want      == [fixed : SUBSET Ports, auto : SUBSET Ports, fresh : 0..MaxPublish]
Container == [pins : SUBSET Ports, up : BOOLEAN]

ASSUME ContainerAssumption == None \notin Container

TypeOK ==
    /\ table \in [Ports -> Owners \cup {None}]
    /\ lock \in Owners \cup {None}
    /\ pc \in [Owners -> PC]
    /\ want \in [Owners -> Want]
    /\ snap \in [Owners -> SUBSET Ports]
    /\ out \in [Owners -> SUBSET Ports]
    /\ cont \in [Owners -> Container \cup {None}]
    /\ rec \in [Owners -> {"none", "row", "cid"}]
    /\ boots \in 0..MaxFaults
    /\ leaked \in SUBSET Ports
    /\ stuck \in 0..MaxFaults

NoWant == [fixed |-> {}, auto |-> {}, fresh |-> 0]

Init ==
    /\ table = [p \in Ports |-> None] /\ lock = None
    /\ pc = [o \in Owners |-> "idle"]
    /\ want = [o \in Owners |-> NoWant]
    /\ snap = [o \in Owners |-> {}] /\ out = [o \in Owners |-> {}]
    /\ cont = [o \in Owners |-> None] /\ rec = [o \in Owners |-> "none"]
    /\ boots = 0 /\ leaked = {} /\ stuck = 0

\* ContainerByName and ContainerRemove, whose outcomes nobody looks at: the container goes, if
\* there is one, or it was not found or not removed and stays.
ContainerRemove(o) ==
    \/ cont' = [cont EXCEPT ![o] = None] /\ UNCHANGED stuck
    \/ /\ cont[o] # None /\ boots + stuck < MaxFaults
       /\ stuck' = stuck + 1 /\ UNCHANGED cont

Goto(o, step) == pc' = [pc EXCEPT ![o] = step]

\* The provisioner is over, and its locals with it.
Return(o) ==
    /\ pc' = [pc EXCEPT ![o] = "idle"]
    /\ want' = [want EXCEPT ![o] = NoWant]
    /\ snap' = [snap EXCEPT ![o] = {}] /\ out' = [out EXCEPT ![o] = {}]

Pins(o) == IF cont[o] = None THEN {} ELSE cont[o].pins

\* Ports a bind test on the host must find taken.  Other programs may hold more.
Bound == UNION {Pins(o) : o \in {q \in Owners : cont[q] # None /\ cont[q].up}}

-----------------------------------------------------------------------------
(* The provisioner up to ContainerCreate.                                    *)

\* The row is upserted without a container id; the ports it will ask for come from the
\* design (fixed), from the node's last deploy (auto), or are new.
Deploy(o) ==
    /\ pc[o] = "idle"
    /\ \E w \in Want :
         /\ w.fixed \cap w.auto = {}
         /\ Cardinality(w.fixed \cup w.auto) + w.fresh \in 0..MaxPublish
         /\ want' = [want EXCEPT ![o] = w]
    /\ rec' = [rec EXCEPT ![o] = "row"]
    /\ Goto(o, "remove")
    /\ UNCHANGED <<table, lock, snap, out, cont, boots, leaked, stuck>>

\* A container that publishes nothing needs no pick.
guardPublish(o) ==
    IF want[o] = NoWant
    THEN out' = [out EXCEPT ![o] = {}] /\ Goto(o, "create")
    ELSE UNCHANGED out /\ Goto(o, "lock")

\* A container of the same name goes first, or does not, and the pick goes on.
RemoveOld(o) ==
    /\ pc[o] = "remove"
    /\ ContainerRemove(o)
    /\ guardPublish(o)
    /\ UNCHANGED <<table, lock, want, snap, rec, boots, leaked>>

-----------------------------------------------------------------------------
(* pickHostPorts                                                             *)

\* Seeded fault: no mutex, two picks overlap.
PickUnlocked(o) ==
    /\ pc[o] = "lock"
    /\ lock' = o
    /\ snap' = [snap EXCEPT ![o] = {p \in Ports : table[p] \notin {None, o}}]
    /\ Goto(o, "probe")
    /\ UNCHANGED <<table, want, out, cont, rec, boots, leaked, stuck>>

\* Seeded fault: only the reservations of running containers are respected.
PickIgnoresStopped(o) ==
    /\ pc[o] = "lock" /\ lock = None
    /\ lock' = o
    /\ snap' = [snap EXCEPT ![o] = Bound]
    /\ Goto(o, "probe")
    /\ UNCHANGED <<table, want, out, cont, rec, boots, leaked, stuck>>

\* Seeded fault: the early return on errPortTaken keeps the mutex.
PickKeepsLock(o) ==
    /\ pc[o] = "lock" /\ lock = None
    /\ lock' = o
    /\ LET held == {p \in Ports : table[p] \notin {None, o}} IN
       IF want[o].fixed \cap held # {}
       THEN Return(o)
       ELSE /\ snap' = [snap EXCEPT ![o] = held]
            /\ Goto(o, "probe")
            /\ UNCHANGED <<want, out>>
    /\ UNCHANGED <<table, cont, rec, boots, leaked, stuck>>

\* The other owners' ports.  A fixed port among them is an errPortTaken.
PickLock(o) ==
    /\ pc[o] = "lock" /\ lock = None
    /\ LET held == {p \in Ports : table[p] \notin {None, o}} IN
       IF want[o].fixed \cap held # {}
       THEN Return(o) /\ UNCHANGED lock
       ELSE /\ lock' = o
            /\ snap' = [snap EXCEPT ![o] = held]
            /\ Goto(o, "probe")
            /\ UNCHANGED <<want, out>>
    /\ UNCHANGED <<table, cont, rec, boots, leaked, stuck>>

\* Seeded fault: a fixed port that is taken is moved like one DBCanvas chose.
PickMovesFixed(o) ==
    /\ pc[o] = "probe"
    /\ LET asked == want[o].fixed \cup want[o].auto IN
       \E free \in SUBSET ((asked \ snap[o]) \ Bound), K \in SUBSET (Ports \ (snap[o] \cup asked \cup Bound)) :
         /\ Cardinality(K) = want[o].fresh + Cardinality(asked \ free)
         /\ out' = [out EXCEPT ![o] = free \cup K]
    /\ snap' = [snap EXCEPT ![o] = {}]
    /\ Goto(o, "commit")
    /\ UNCHANGED <<table, lock, want, cont, rec, boots, leaked, stuck>>

\* The bind test on the host: which of the asked ports are free, and others that nobody
\* holds, with a spare for every port that may have to move.  K of them are taken.  A fixed
\* port that is not free is an errPortTaken, too few others an error: both are Fail.
PickProbe(o) ==
    /\ pc[o] = "probe"
    /\ LET check == (want[o].fixed \cup want[o].auto) \ snap[o] IN
       \E free \in SUBSET (check \ Bound), picked \in SUBSET (Ports \ (snap[o] \cup check \cup Bound)) :
         /\ want[o].fixed \subseteq free
         /\ Cardinality(picked) = want[o].fresh + Cardinality(want[o].auto)
         /\ \E K \in SUBSET picked :
              /\ Cardinality(K) = want[o].fresh + Cardinality(want[o].auto \ free)
              /\ out' = [out EXCEPT ![o] = free \cup K]
    /\ snap' = [snap EXCEPT ![o] = {}]
    /\ Goto(o, "commit")
    /\ UNCHANGED <<table, lock, want, cont, rec, boots, leaked, stuck>>

\* SetHostPorts and the deferred Unlock: out is exactly o's reservations.  What an old
\* container that could not be removed is pinned to, and out does not keep, is given up.
PickCommit(o) ==
    /\ pc[o] = "commit"
    /\ table' = [p \in Ports |-> IF p \in out[o] THEN o
                                 ELSE IF table[p] = o THEN None ELSE table[p]]
    /\ leaked' = leaked \cup (Pins(o) \ out[o])
    /\ lock' = None
    /\ Goto(o, "create")
    /\ UNCHANGED <<pickVars, cont, rec, boots, stuck>>

-----------------------------------------------------------------------------
(* The provisioner from ContainerCreate on.                                  *)

\* Docker refuses a second container of the same name.
ContainerCreate(o) ==
    /\ pc[o] = "create" /\ cont[o] = None
    /\ cont' = [cont EXCEPT ![o] = [pins |-> out[o], up |-> FALSE]]
    /\ out' = [out EXCEPT ![o] = {}]
    /\ Goto(o, "start")
    /\ UNCHANGED <<table, lock, want, snap, rec, boots, leaked, stuck>>

ContainerStart(o) ==
    /\ pc[o] = "start"
    /\ Pins(o) \cap Bound = {}
    /\ cont' = [cont EXCEPT ![o] = [pins |-> Pins(o), up |-> TRUE]]
    /\ Goto(o, "record")
    /\ UNCHANGED <<table, lock, pickVars, rec, boots, leaked, stuck>>

Record(o) ==
    /\ pc[o] = "record"
    /\ rec' = [rec EXCEPT ![o] = "cid"]
    /\ Return(o)
    /\ UNCHANGED <<table, lock, cont, boots, leaked, stuck>>

\* A step fails or its context is cancelled: the provisioner returns, the lock is let go,
\* and what was reserved or created so far stays.  A wait for the mutex cannot be cancelled.
Fail(o) ==
    /\ pc[o] \in {"remove", "probe", "commit", "create", "start", "record"}
    /\ lock' = IF lock = o THEN None ELSE lock
    /\ Return(o)
    /\ UNCHANGED <<table, cont, rec, boots, leaked, stuck>>

-----------------------------------------------------------------------------
(* Stop and start of a deployed node, its removal, and a server start.       *)

StopStart(o) ==
    /\ pc[o] = "idle" /\ rec[o] = "cid" /\ cont[o] # None
    /\ cont[o].up \/ cont[o].pins \cap Bound = {}
    /\ cont' = [cont EXCEPT ![o] = [pins |-> cont[o].pins, up |-> ~cont[o].up]]
    /\ UNCHANGED <<table, lock, pc, pickVars, rec, boots, leaked, stuck>>

\* removeNodeResources: the container is removed only if the row names it.  Its ports are
\* released in any case; those of a container that stays are the leaked ones.
RemoveNode(o) ==
    /\ pc[o] = "idle" /\ rec[o] # "none"
    /\ IF rec[o] = "cid" THEN ContainerRemove(o) ELSE UNCHANGED <<cont, stuck>>
    /\ leaked' = leaked \cup (IF cont'[o] = None THEN {} ELSE Pins(o))
    /\ Goto(o, "release")
    /\ UNCHANGED <<table, lock, pickVars, rec, boots>>

\* Seeded fault: the row goes, its reservations stay.
DeleteKeepsPorts(o) ==
    /\ pc[o] = "release"
    /\ rec' = [rec EXCEPT ![o] = "none"]
    /\ Goto(o, "idle")
    /\ UNCHANGED <<table, lock, pickVars, cont, boots, leaked, stuck>>

\* DeleteDeployment, whose releaseNodePorts does not take hostPortBook.
DeleteDeployment(o) ==
    /\ pc[o] = "release"
    /\ rec' = [rec EXCEPT ![o] = "none"]
    /\ table' = [p \in Ports |-> IF table[p] = o THEN None ELSE table[p]]
    /\ Goto(o, "idle")
    /\ UNCHANGED <<lock, pickVars, cont, boots, leaked, stuck>>

\* The table becomes what the containers are pinned to; of two that share a port the last
\* by name has it.  If Docker cannot be asked the table stays.
reseedHostPorts ==
    \/ /\ table' \in [Ports -> Owners \cup {None}]
       /\ \A p \in Ports :
            LET pinned == {o \in Owners : p \in Pins(o)} IN
            IF pinned = {} THEN table'[p] = None ELSE table'[p] \in pinned
    \/ UNCHANGED table

Restart ==
    /\ boots + stuck < MaxFaults /\ boots' = boots + 1
    /\ reseedHostPorts
    /\ lock' = None
    /\ pc' = [o \in Owners |-> "idle"]
    /\ want' = [o \in Owners |-> NoWant]
    /\ snap' = [o \in Owners |-> {}] /\ out' = [o \in Owners |-> {}]
    /\ UNCHANGED <<cont, rec, leaked, stuck>>

-----------------------------------------------------------------------------
PickStep(o) == PickLock(o) \/ PickProbe(o) \/ PickCommit(o)

ProvStep(o) ==
    RemoveOld(o) \/ PickStep(o) \/ ContainerCreate(o) \/ ContainerStart(o) \/ Record(o) \/ Fail(o)

OwnerNext(o) == Deploy(o) \/ ProvStep(o) \/ StopStart(o) \/ RemoveNode(o) \/ DeleteDeployment(o)

Next == (\E o \in Owners : OwnerNext(o)) \/ Restart

Spec == Init /\ [][Next]_vars

(***************************************************************************)
(* A provisioner goes on until it returns, and a probe container lives at  *)
(* most probeTimeout.  A Go mutex is not starved by those who take it in   *)
(* turn, hence the strong fairness of the lock.                            *)
(***************************************************************************)
Fairness == \A o \in Owners : /\ WF_vars(ProvStep(o))
                              /\ SF_vars(PickLock(o))

FairSpec == Spec /\ Fairness

-----------------------------------------------------------------------------
(* Properties                                                               *)

\* Header item 3 of hostports.go: whether a container runs or is stopped, the ports it is
\* pinned to are reserved for it, so no other node is given them.  Excepted are the ports of a
\* container that outlived its own removal: its node was removed and the container was not
\* recorded or Docker did not remove it, or a redeploy that could not remove it went on to
\* choose other ports (see NoPortGivenTwice).
PinsReserved ==
    \A o \in Owners : \A p \in Pins(o) \ leaked : table[p] = o

\* A port a user typed is never moved: a container either has it or was not created.
FixedNeverMoved ==
    \A o \in Owners : pc[o] \in {"start", "record"} => want[o].fixed \subseteq Pins(o)

\* A reservation has a node: none outlives the deployment it was made for.
NoOrphanReservation ==
    \A p \in Ports \ leaked : table[p] # None => rec[table[p]] # "none"

\* host_ports is a lease: only its owner, or a start of the server, takes a port away.
Lease == INSTANCE PortLease
ImplementsLease == Lease!Spec

\* "One lock serializes the whole choose -> reserve step": nobody waits for it for ever.
PickEnds == \A o \in Owners : pc[o] = "lock" ~> pc[o] # "lock"

\* hostports.go, header item 3: "The host_ports table records which container owns which
\* port, running or stopped, so no other node is given it."
NoPortGivenTwice ==
    \A o, q \in Owners : o # q => Pins(o) \cap Pins(q) = {}

-----------------------------------------------------------------------------
(***************************************************************************)
(* Why PinsReserved holds.  Between the read of the table and its commit   *)
(* others can only release ports, because every grant is made under the    *)
(* lock.                                                                   *)
(***************************************************************************)
LockInv ==
    \A o \in Owners : pc[o] \in {"probe", "commit"} => lock = o

SnapInv ==
    \A o \in Owners : pc[o] = "probe" => \A p \in Ports : table[p] \notin {None, o} => p \in snap[o]

OutInv ==
    \A o \in Owners : /\ pc[o] = "commit" => \A p \in out[o] : table[p] \in {None, o}
                      /\ pc[o] = "create" => \A p \in out[o] : table[p] = o

\* A node that is not deployed is idle, and has no container but one left behind.
RemovedInv ==
    \A o \in Owners : /\ rec[o] = "none" => pc[o] = "idle"
                      /\ rec[o] = "none" \/ pc[o] = "release" => Pins(o) \subseteq leaked

\* What a pick settled on has the ports a user typed.
FixedInv ==
    \A o \in Owners : pc[o] \in {"commit", "create"} => want[o].fixed \subseteq out[o]

IndInv ==
    /\ TypeOK /\ LockInv /\ SnapInv /\ OutInv /\ RemovedInv /\ PinsReserved
    /\ FixedInv /\ FixedNeverMoved /\ NoOrphanReservation
=============================================================================
