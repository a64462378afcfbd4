----------------------------- MODULE StackDeploy -----------------------------
(***************************************************************************)
(* The deployment life of ONE stack: deploy requests, the provisioning     *)
(* goroutines they leave behind, teardowns (destroy, delete, expiry) that  *)
(* cancel them, and a server restart.                                      *)
(*                                                                         *)
(*   app/deployrun.go  the per-stack deployRun, its context and WaitGroup  *)
(*   app/intranet.go   handleDeployStack, a provisioner, teardownStack     *)
(*   app/store.go      the deployments table                               *)
(*   app/stacks.go     handleDeleteStack, reapExpiredStacks                *)
(*                                                                         *)
(* A deploy request d is also the name of the run it registers and of the  *)
(* containers its provisioners create (each creates at most one per node). *)
(***************************************************************************)
EXTENDS Naturals, FiniteSets

CONSTANTS
    Nodes,       \* the canvas nodes a design can hold
    Loud,        \* nodes whose provisioner reports a failure without asking deployCancelled
    Designs,     \* the node sets a deploy request may find in the stack's design
    Deploys,     \* deploy requests, each made at most once
    Teardowns,   \* teardown requests, each made at most once
    MaxCrashes,  \* how many times the server process may die
    None,        \* no run, no container, no row, no job
    Background,  \* context.Background(): a context nothing ever cancels
    Tail         \* the trailing goroutines of a deploy (replication, netem, file tools)

ASSUME ConstantsAssumption ==
    /\ Loud \subseteq Nodes
    /\ Designs \subseteq SUBSET Nodes
    /\ MaxCrashes \in Nat
    /\ None \notin Nodes \cup Deploys \cup {Background, Tail}
    /\ Background \notin Deploys
    /\ Tail \notin Nodes

Jobs == Nodes \cup {Tail}

VARIABLES
    stack,       \* "down" (draft or expired), "deployed", or "gone" once the row is deleted
    net,         \* TRUE while the stack's Docker network exists
    row,         \* deployments table: node -> [state, cid] or None
    cont,        \* Docker: node -> the deploy whose provisioner created its container
    registered,  \* App.deploys: the run in flight, or None
    cancelled,   \* runs whose context is cancelled
    wg,          \* run -> the goroutines that have Added and not yet Done
    hpc,         \* deploy handler: where it is
    todo,        \* deploy handler: nodes it still has to spawn a provisioner for
    prune,       \* deploy handler: listed rows of nodes that left the design
    cur,         \* deploy handler: the job being spawned
    joining,     \* deploy handler: the run deployScope is about to Add to
    rel,         \* finishDeploy's goroutine
    ppc,         \* provisioning goroutine of a deploy and a job: where it is
    pctx,        \* its context: a run, or Background
    pjoin,       \* TRUE if it Added to its run's WaitGroup
    tpc,         \* teardown: where it is
    trun,        \* teardown: the run it cancelled
    tlist,       \* teardown: the rows it listed and has not removed yet
    crashes,     \* server restarts so far
    rowBy,       \* history: the deploy that last upserted a node's row
    covered,     \* history: the deploys begun when a teardown listed the stack's rows
    timedOut,    \* history: runs dropped by a cancelDeploy that gave up waiting
    overtaken    \* history: deploys a teardown cancelled before they reached finishDeploy

db     == <<stack, row, rowBy>>
docker == <<net, cont>>
runs   == <<registered, cancelled, wg>>
handlr == <<hpc, todo, prune, cur, joining, rel>>
provs  == <<ppc, pctx, pjoin>>
tears  == <<tpc, trun, tlist>>
hist   == <<covered, timedOut, overtaken>>
vars   == <<db, docker, runs, handlr, provs, tears, hist, crashes>>

HandlerPC  == {"idle", "begin", "network", "list", "prune", "spawn", "scope", "add", "finish", "done"}
ProvPC     == {"none", "begin", "create", "record", "steps", "finish", "done"}
TeardownPC == {"idle", "wait", "list", "remove", "sweep", "end", "done", "dead"}
RowState   == {"pending", "provisioning", "running", "error"}
Row        == [state : RowState, cid : Deploys \cup {None}]

StoreType ==
    /\ stack \in {"down", "deployed", "gone"}
    /\ row \in [Nodes -> Row \cup {None}]
    /\ rowBy \in [Nodes -> Deploys \cup {None}]

DockerType ==
    /\ net \in BOOLEAN
    /\ cont \in [Nodes -> Deploys \cup {None}]

RunType ==
    /\ registered \in Deploys \cup {None}
    /\ cancelled \in SUBSET Deploys
    /\ wg \in [Deploys -> SUBSET (Deploys \X Jobs)]

HandlerType ==
    /\ hpc \in [Deploys -> HandlerPC]
    /\ todo \in [Deploys -> SUBSET Nodes]
    /\ prune \in [Deploys -> SUBSET (Nodes \X (Deploys \cup {None}))]
    /\ cur \in [Deploys -> Jobs \cup {None}]
    /\ joining \in [Deploys -> Deploys \cup {None}]
    /\ rel \in [Deploys -> {"none", "wait", "drop", "done"}]

ProvType ==
    /\ ppc \in [Deploys -> [Jobs -> ProvPC]]
    /\ pctx \in [Deploys -> [Jobs -> Deploys \cup {None, Background}]]
    /\ pjoin \in [Deploys -> [Jobs -> BOOLEAN]]

TeardownType ==
    /\ tpc \in [Teardowns -> TeardownPC]
    /\ trun \in [Teardowns -> Deploys \cup {None}]
    /\ tlist \in [Teardowns -> SUBSET (Nodes \X (Deploys \cup {None}))]

HistoryType ==
    /\ covered \in [Teardowns -> SUBSET Deploys]
    /\ timedOut \in SUBSET Deploys
    /\ overtaken \in SUBSET Deploys

\* Every variable keeps its type.
TypeOK ==
    /\ StoreType /\ DockerType /\ RunType /\ HandlerType /\ ProvType /\ TeardownType /\ HistoryType
    /\ crashes \in 0..MaxCrashes

Init ==
    /\ stack = "down" /\ net = FALSE
    /\ row = [n \in Nodes |-> None] /\ rowBy = [n \in Nodes |-> None]
    /\ cont = [n \in Nodes |-> None]
    /\ registered = None /\ cancelled = {} /\ wg = [d \in Deploys |-> {}]
    /\ hpc = [d \in Deploys |-> "idle"] /\ rel = [d \in Deploys |-> "none"]
    /\ todo = [d \in Deploys |-> {}] /\ prune = [d \in Deploys |-> {}]
    /\ cur = [d \in Deploys |-> None] /\ joining = [d \in Deploys |-> None]
    /\ ppc = [d \in Deploys |-> [j \in Jobs |-> "none"]]
    /\ pctx = [d \in Deploys |-> [j \in Jobs |-> None]]
    /\ pjoin = [d \in Deploys |-> [j \in Jobs |-> FALSE]]
    /\ tpc = [t \in Teardowns |-> "idle"]
    /\ trun = [t \in Teardowns |-> None] /\ tlist = [t \in Teardowns |-> {}]
    /\ covered = [t \in Teardowns |-> {}]
    /\ timedOut = {} /\ overtaken = {} /\ crashes = 0

-----------------------------------------------------------------------------
(* The deployments table.  A row can only exist while its stack row does.   *)

InFlight(n) == row[n] # None /\ row[n].state \in {"pending", "provisioning"}

deployBuilt(r) == r # None /\ r.cid # None /\ r.state = "running"

UpsertDeployment(n, s, c, d) ==
    IF stack = "gone"
    THEN UNCHANGED <<row, rowBy>>
    ELSE /\ row' = [row EXCEPT ![n] = [state |-> s, cid |-> c]]
         /\ rowBy' = [rowBy EXCEPT ![n] = d]

\* Seeded fault: the progress phase "failed" is stored where the state "error" belongs.
SetDeploymentStatePhase(n, s) ==
    row' = IF row[n] = None THEN row
           ELSE [row EXCEPT ![n] = [state |-> IF s = "error" THEN "failed" ELSE s, cid |-> row[n].cid]]

SetDeploymentState(n, s) ==
    row' = IF row[n] = None THEN row
           ELSE [row EXCEPT ![n] = [state |-> s, cid |-> row[n].cid]]

\* A container is removed by its recorded id, so a newer one of the same name stays.
removeNodeResources(n, cid) ==
    /\ cont' = IF cid # None /\ cont[n] = cid THEN [cont EXCEPT ![n] = None] ELSE cont
    /\ row' = [row EXCEPT ![n] = None]

Listed(S) == {<<n, row[n].cid>> : n \in {m \in S : row[m] # None}}

-----------------------------------------------------------------------------
(* deployrun.go: the registry of runs.                                      *)

\* CompareAndDelete(stackID, r): only the run that is still registered goes.
Drop(r) == registered' = IF registered = r THEN None ELSE registered

deployCancelled == registered # None /\ registered \in cancelled

ContextLive(c) == c = Background \/ c \notin cancelled

\* Seeded fault: Store instead of LoadOrStore, the second deploy takes the slot.
beginDeployStore(d) ==
    /\ hpc[d] = "begin"
    /\ registered' = d
    /\ hpc' = [hpc EXCEPT ![d] = "network"]
    /\ UNCHANGED <<db, docker, cancelled, wg, todo, prune, cur, joining, rel, provs, tears, hist, crashes>>

beginDeploy(d) ==
    /\ hpc[d] = "begin"
    /\ IF registered = None
       THEN /\ registered' = d
            /\ hpc' = [hpc EXCEPT ![d] = "network"]
       ELSE /\ hpc' = [hpc EXCEPT ![d] = "done"]      \* 409, a deploy is in flight
            /\ UNCHANGED registered
    /\ UNCHANGED <<db, docker, cancelled, wg, todo, prune, cur, joining, rel, provs, tears, hist, crashes>>

abortDeploy(d) ==
    /\ cancelled' = cancelled \cup {d}
    /\ Drop(d)

\* Seeded fault: the run is released without waiting for its goroutines.
ReleaseNoWait(d) ==
    /\ rel[d] = "wait"
    /\ cancelled' = cancelled \cup {d}
    /\ rel' = [rel EXCEPT ![d] = "drop"]
    /\ UNCHANGED <<db, docker, registered, wg, hpc, todo, prune, cur, joining, provs, tears, hist, crashes>>

\* The goroutine finishDeploy leaves behind: Wait, cancel, then CompareAndDelete.
ReleaseWait(d) ==
    /\ rel[d] = "wait" /\ wg[d] = {}
    /\ cancelled' = cancelled \cup {d}
    /\ rel' = [rel EXCEPT ![d] = "drop"]
    /\ UNCHANGED <<db, docker, registered, wg, hpc, todo, prune, cur, joining, provs, tears, hist, crashes>>

ReleaseDrop(d) ==
    /\ rel[d] = "drop"
    /\ Drop(d)
    /\ rel' = [rel EXCEPT ![d] = "done"]
    /\ UNCHANGED <<db, docker, cancelled, wg, hpc, todo, prune, cur, joining, provs, tears, hist, crashes>>

\* The go statement that follows deployScope: job j starts with context c.
StartJob(d, j, c, joins) ==
    /\ ppc' = [ppc EXCEPT ![d][j] = "begin"]
    /\ pctx' = [pctx EXCEPT ![d][j] = c]
    /\ pjoin' = [pjoin EXCEPT ![d][j] = joins]

Spawn(d, c, joins) ==
    /\ StartJob(d, cur[d], c, joins)
    /\ cur' = [cur EXCEPT ![d] = None]
    /\ hpc' = [hpc EXCEPT ![d] = "spawn"]

\* deployScope looks up whatever run is registered NOW for the stack.
deployScope(d) ==
    /\ hpc[d] = "scope"
    /\ CASE registered = None ->
              Spawn(d, Background, FALSE) /\ UNCHANGED joining
         [] registered \in cancelled ->
              Spawn(d, registered, FALSE) /\ UNCHANGED joining
         [] OTHER ->
              /\ joining' = [joining EXCEPT ![d] = registered]
              /\ hpc' = [hpc EXCEPT ![d] = "add"]
              /\ UNCHANGED <<cur, provs>>
    /\ UNCHANGED <<db, docker, runs, todo, prune, rel, tears, hist, crashes>>

\* wg.Add(1) comes after the context was checked, not together with it.
deployScopeAdd(d) ==
    /\ hpc[d] = "add"
    /\ wg' = [wg EXCEPT ![joining[d]] = @ \cup {<<d, cur[d]>>}]
    /\ Spawn(d, joining[d], TRUE)
    /\ joining' = [joining EXCEPT ![d] = None]
    /\ UNCHANGED <<db, docker, registered, cancelled, todo, prune, rel, tears, hist, crashes>>

-----------------------------------------------------------------------------
(* handleDeployStack                                                        *)

\* loadOwnedStack and validateStack: the design is read once, here.
DeployRequest(d) ==
    /\ hpc[d] = "idle" /\ stack # "gone"
    /\ \E doc \in Designs : todo' = [todo EXCEPT ![d] = doc]
    /\ hpc' = [hpc EXCEPT ![d] = "begin"]
    /\ UNCHANGED <<db, docker, runs, prune, cur, joining, rel, provs, tears, hist, crashes>>

\* Seeded fault: the early return on a network error forgets abortDeploy.
NetworkEnsureNoAbort(d) ==
    /\ hpc[d] = "network"
    /\ \/ net' = TRUE /\ hpc' = [hpc EXCEPT ![d] = "list"]
       \/ hpc' = [hpc EXCEPT ![d] = "done"] /\ UNCHANGED net
    /\ UNCHANGED <<db, cont, runs, todo, prune, cur, joining, rel, provs, tears, hist, crashes>>

NetworkEnsure(d) ==
    /\ hpc[d] = "network"
    /\ \/ /\ net' = TRUE
          /\ hpc' = [hpc EXCEPT ![d] = "list"]
          /\ UNCHANGED <<registered, cancelled>>
       \/ /\ abortDeploy(d)
          /\ hpc' = [hpc EXCEPT ![d] = "done"]
          /\ UNCHANGED net
    /\ UNCHANGED <<db, cont, wg, todo, prune, cur, joining, rel, provs, tears, hist, crashes>>

\* A built node whose container is gone is provisioned again; one whose container was
\* replaced under the same name gets the new id.  Nodes the daemon cannot be asked about stay.
reconcileVanished(d) ==
    \E stale \in SUBSET {n \in todo[d] : deployBuilt(row[n]) /\ cont[n] # row[n].cid} :
    /\ row' = [n \in Nodes |->
                 IF n \notin stale THEN row[n]
                 ELSE IF cont[n] = None THEN [state |-> "error", cid |-> None]
                 ELSE [state |-> row[n].state, cid |-> cont[n]]]
    /\ rowBy' = [n \in Nodes |-> IF n \in stale THEN d ELSE rowBy[n]]

ListExisting(d) ==
    /\ hpc[d] = "list"
    /\ reconcileVanished(d)
    /\ prune' = [prune EXCEPT ![d] = Listed(Nodes \ todo[d])]
    /\ todo' = [todo EXCEPT ![d] = {n \in @ : ~deployBuilt(row'[n])}]
    /\ hpc' = [hpc EXCEPT ![d] = "prune"]
    /\ UNCHANGED <<stack, docker, runs, cur, joining, rel, provs, tears, hist, crashes>>

PruneRemoved(d) ==
    /\ hpc[d] = "prune"
    /\ \/ \E x \in prune[d] :
            /\ removeNodeResources(x[1], x[2])
            /\ prune' = [prune EXCEPT ![d] = @ \ {x}]
            /\ UNCHANGED hpc
       \/ /\ prune[d] = {}
          /\ hpc' = [hpc EXCEPT ![d] = "spawn"]
          /\ UNCHANGED <<row, cont, prune>>
    /\ UNCHANGED <<stack, rowBy, net, runs, todo, cur, joining, rel, provs, tears, hist, crashes>>

\* A provisioner's synchronous half: its row is upserted as pending, then deployScope.
SpawnNode(d) ==
    /\ hpc[d] = "spawn"
    /\ \E n \in todo[d] :
         /\ UpsertDeployment(n, "pending", None, d)
         /\ todo' = [todo EXCEPT ![d] = @ \ {n}]
         /\ cur' = [cur EXCEPT ![d] = n]
    /\ hpc' = [hpc EXCEPT ![d] = "scope"]
    /\ UNCHANGED <<stack, docker, runs, prune, joining, rel, provs, tears, hist, crashes>>

\* The four trailing goroutines differ only in what they reconcile: one stands for all,
\* with its deployScope in the same step.
SpawnTail(d) ==
    /\ hpc[d] = "spawn" /\ todo[d] = {}
    /\ CASE registered = None ->
              StartJob(d, Tail, Background, FALSE) /\ UNCHANGED wg
         [] registered \in cancelled ->
              StartJob(d, Tail, registered, FALSE) /\ UNCHANGED wg
         [] OTHER ->
              /\ StartJob(d, Tail, registered, TRUE)
              /\ wg' = [wg EXCEPT ![registered] = @ \cup {<<d, Tail>>}]
    /\ hpc' = [hpc EXCEPT ![d] = "finish"]
    /\ UNCHANGED <<db, docker, registered, cancelled, todo, prune, cur, joining, rel, tears, hist, crashes>>

\* finishDeploy leaves its goroutine behind and the handler records the stack as deployed.
finishDeploy(d) ==
    /\ hpc[d] = "finish"
    /\ rel' = [rel EXCEPT ![d] = "wait"]
    /\ stack' = IF stack = "gone" THEN stack ELSE "deployed"
    /\ hpc' = [hpc EXCEPT ![d] = "done"]
    /\ UNCHANGED <<row, rowBy, docker, runs, todo, prune, cur, joining, provs, tears, hist, crashes>>

-----------------------------------------------------------------------------
(* A provisioning goroutine.  Every Docker call carries its context, so a    *)
(* cancelled one fails; any step may also fail for reasons of its own.       *)

Live(d, j) == ppc[d][j] \notin {"none", "done"}

ProvGo(d, j, pc) ==
    /\ ppc' = [ppc EXCEPT ![d][j] = pc]
    /\ UNCHANGED <<wg, pctx, pjoin>>

\* return, with the deferred endScope
ProvReturn(d, j) ==
    /\ ppc' = [ppc EXCEPT ![d][j] = "done"]
    /\ wg' = IF pjoin[d][j] THEN [wg EXCEPT ![pctx[d][j]] = @ \ {<<d, j>>}] ELSE wg
    /\ pctx' = [pctx EXCEPT ![d][j] = None]
    /\ pjoin' = [pjoin EXCEPT ![d][j] = FALSE]

\* The state is set before anything asks the context.
ProvBegin(d, n) ==
    /\ ppc[d][n] = "begin"
    /\ SetDeploymentState(n, "provisioning")
    /\ ProvGo(d, n, "create")
    /\ UNCHANGED <<stack, rowBy, docker, registered, cancelled, handlr, tears, hist, crashes>>

\* Any container of the same name is removed first, by the id it has now.
ProvCreate(d, n) ==
    /\ ppc[d][n] = "create"
    /\ ContextLive(pctx[d][n]) /\ net
    /\ cont' = [cont EXCEPT ![n] = d]
    /\ ProvGo(d, n, "record")
    /\ UNCHANGED <<db, net, registered, cancelled, handlr, tears, hist, crashes>>

\* ContainerStart, then the row learns the container's id.
ProvRecord(d, n) ==
    /\ ppc[d][n] = "record"
    /\ ContextLive(pctx[d][n]) /\ cont[n] = d
    /\ UpsertDeployment(n, "provisioning", d, d)
    /\ ProvGo(d, n, "steps")
    /\ UNCHANGED <<stack, docker, registered, cancelled, handlr, tears, hist, crashes>>

\* The retried exec steps, until the last one has succeeded.
ProvSteps(d, n) ==
    /\ ppc[d][n] = "steps"
    /\ ContextLive(pctx[d][n]) /\ cont[n] = d
    /\ ProvGo(d, n, "finish")
    /\ UNCHANGED <<db, docker, registered, cancelled, handlr, tears, hist, crashes>>

ProvFinish(d, n) ==
    /\ ppc[d][n] = "finish"
    /\ SetDeploymentState(n, "running")
    /\ ProvReturn(d, n)
    /\ UNCHANGED <<stack, rowBy, docker, registered, cancelled, handlr, tears, hist, crashes>>

\* Seeded fault: a failed provisioner always stays quiet.
ProvFailQuiet(d, n) ==
    /\ ppc[d][n] \in {"create", "record", "steps"}
    /\ ProvReturn(d, n)
    /\ UNCHANGED <<db, docker, registered, cancelled, handlr, tears, hist, crashes>>

\* A step that fails ends in failNode, or in pxcProg.fail, which stays quiet while the
\* run registered for the stack is cancelled.
ProvFail(d, n) ==
    /\ ppc[d][n] \in {"create", "record", "steps"}
    /\ IF n \notin Loud /\ deployCancelled THEN UNCHANGED row ELSE SetDeploymentState(n, "error")
    /\ ProvReturn(d, n)
    /\ UNCHANGED <<stack, rowBy, docker, registered, cancelled, handlr, tears, hist, crashes>>

TailReturn(d) ==
    /\ ppc[d][Tail] = "begin"
    /\ ProvReturn(d, Tail)
    /\ UNCHANGED <<db, docker, registered, cancelled, handlr, tears, hist, crashes>>

-----------------------------------------------------------------------------
(* teardownStack, called by destroy, delete and the expiry reaper.           *)

Spawning(d) == hpc[d] \in {"network", "list", "prune", "spawn", "scope", "add", "finish"}

\* The request, and cancelDeploy up to its wait.
TeardownCancel(t) ==
    /\ tpc[t] = "idle" /\ stack # "gone"
    /\ trun' = [trun EXCEPT ![t] = registered]
    /\ IF registered = None
       THEN tpc' = [tpc EXCEPT ![t] = "list"] /\ UNCHANGED cancelled
       ELSE tpc' = [tpc EXCEPT ![t] = "wait"] /\ cancelled' = cancelled \cup {registered}
    /\ covered' = [covered EXCEPT ![t] = {d \in Deploys : hpc[d] \notin {"idle", "begin"}}]
    /\ overtaken' = overtaken \cup {d \in {registered} \cap Deploys : Spawning(d)}
    /\ UNCHANGED <<db, docker, registered, wg, handlr, provs, tlist, timedOut, crashes>>

\* cancelDeploy's select: the WaitGroup drained, or cancelDeployWait elapsed.
TeardownWaited(t) ==
    /\ tpc[t] = "wait"
    /\ timedOut' = IF wg[trun[t]] = {} THEN timedOut ELSE timedOut \cup {trun[t]}
    /\ Drop(trun[t])
    /\ trun' = [trun EXCEPT ![t] = None]
    /\ tpc' = [tpc EXCEPT ![t] = "list"]
    /\ UNCHANGED <<db, docker, cancelled, wg, handlr, provs, tlist, covered, overtaken, crashes>>

TeardownList(t) ==
    /\ tpc[t] = "list"
    /\ tlist' = [tlist EXCEPT ![t] = Listed(Nodes)]
    /\ tpc' = [tpc EXCEPT ![t] = "remove"]
    /\ UNCHANGED <<db, docker, runs, handlr, provs, trun, hist, crashes>>

TeardownRemove(t) ==
    /\ tpc[t] = "remove"
    /\ \/ \E x \in tlist[t] :
            /\ removeNodeResources(x[1], x[2])
            /\ tlist' = [tlist EXCEPT ![t] = @ \ {x}]
            /\ UNCHANGED tpc
       \/ /\ tlist[t] = {}
          /\ tpc' = [tpc EXCEPT ![t] = "sweep"]
          /\ UNCHANGED <<row, cont, tlist>>
    /\ UNCHANGED <<stack, rowBy, net, runs, handlr, provs, trun, hist, crashes>>

\* Seeded fault: only the network goes, containers no row names stay behind.
TeardownNoSweep(t) ==
    /\ tpc[t] = "sweep"
    /\ net' = FALSE
    /\ tpc' = [tpc EXCEPT ![t] = "end"]
    /\ UNCHANGED <<db, cont, runs, handlr, provs, trun, tlist, hist, crashes>>

\* Whatever still carries the stack's name prefix goes, then the network.
TeardownSweep(t) ==
    /\ tpc[t] = "sweep"
    /\ cont' = [n \in Nodes |-> None]
    /\ net' = FALSE
    /\ tpc' = [tpc EXCEPT ![t] = "end"]
    /\ UNCHANGED <<db, runs, handlr, provs, trun, tlist, hist, crashes>>

\* What each caller does last: the status, or the stack row with its deployments (CASCADE).
TeardownEnd(t) ==
    /\ tpc[t] = "end"
    /\ \/ stack' = "gone" /\ row' = [n \in Nodes |-> None]
       \/ stack' = (IF stack = "gone" THEN stack ELSE "down") /\ UNCHANGED row
    /\ tpc' = [tpc EXCEPT ![t] = "done"]
    /\ UNCHANGED <<rowBy, docker, runs, handlr, provs, trun, tlist, hist, crashes>>

-----------------------------------------------------------------------------
(* The process dies: every goroutine and the run registry go, the tables and *)
(* Docker stay.  failInterruptedDeployments runs before the next request.    *)

\* Seeded fault: only pending rows are failed at startup.
failPendingDeployments ==
    row' = [n \in Nodes |-> IF row[n] # None /\ row[n].state = "pending"
                            THEN [state |-> "error", cid |-> row[n].cid] ELSE row[n]]

failInterruptedDeployments ==
    row' = [n \in Nodes |-> IF InFlight(n) THEN [state |-> "error", cid |-> row[n].cid] ELSE row[n]]

Restart ==
    /\ crashes < MaxCrashes /\ crashes' = crashes + 1
    /\ failInterruptedDeployments
    /\ registered' = None
    /\ wg' = [d \in Deploys |-> {}]
    /\ hpc' = [d \in Deploys |-> IF hpc[d] = "idle" THEN "idle" ELSE "done"]
    /\ rel' = [d \in Deploys |-> IF rel[d] = "none" THEN "none" ELSE "done"]
    /\ todo' = [d \in Deploys |-> {}] /\ prune' = [d \in Deploys |-> {}]
    /\ cur' = [d \in Deploys |-> None] /\ joining' = [d \in Deploys |-> None]
    /\ ppc' = [d \in Deploys |-> [j \in Jobs |-> IF ppc[d][j] = "none" THEN "none" ELSE "done"]]
    /\ pctx' = [d \in Deploys |-> [j \in Jobs |-> None]]
    /\ pjoin' = [d \in Deploys |-> [j \in Jobs |-> FALSE]]
    /\ tpc' = [t \in Teardowns |-> IF tpc[t] \in {"idle", "done"} THEN tpc[t] ELSE "dead"]
    /\ trun' = [t \in Teardowns |-> None] /\ tlist' = [t \in Teardowns |-> {}]
    /\ UNCHANGED <<stack, rowBy, docker, cancelled, hist>>

-----------------------------------------------------------------------------
HandlerStep(d) ==
    \/ beginDeploy(d) \/ NetworkEnsure(d) \/ ListExisting(d) \/ PruneRemoved(d)
    \/ SpawnNode(d) \/ SpawnTail(d) \/ deployScope(d) \/ deployScopeAdd(d)
    \/ finishDeploy(d)

ReleaseStep(d) == ReleaseWait(d) \/ ReleaseDrop(d)

ProvStep(d, n) ==
    \/ ProvBegin(d, n) \/ ProvCreate(d, n) \/ ProvRecord(d, n)
    \/ ProvSteps(d, n) \/ ProvFinish(d, n) \/ ProvFail(d, n)

TeardownStep(t) ==
    \/ TeardownWaited(t) \/ TeardownList(t)
    \/ TeardownRemove(t) \/ TeardownSweep(t) \/ TeardownEnd(t)

Next ==
    \/ \E d \in Deploys : DeployRequest(d) \/ HandlerStep(d) \/ ReleaseStep(d) \/ TailReturn(d)
    \/ \E d \in Deploys, n \in Nodes : ProvStep(d, n)
    \/ \E t \in Teardowns : TeardownCancel(t) \/ TeardownStep(t)
    \/ Restart

Spec == Init /\ [][Next]_vars

(***************************************************************************)
(* Nothing obliges a user to send a request or the process to die.  What   *)
(* has started goes on: the Go scheduler runs every goroutine, and each    *)
(* wait in them is bounded (ten attempts, deployTimeout, cancelDeployWait).*)
(***************************************************************************)
Fairness ==
    /\ \A d \in Deploys : /\ WF_vars(HandlerStep(d))
                          /\ WF_vars(ReleaseStep(d))
                          /\ WF_vars(TailReturn(d))
                          /\ \A n \in Nodes : WF_vars(ProvStep(d, n))
    /\ \A t \in Teardowns : WF_vars(TeardownStep(t))

FairSpec == Spec /\ Fairness

-----------------------------------------------------------------------------
(* Properties                                                               *)

\* A deploy is clean unless a teardown cancelled it while its handler was still spawning
\* provisioners, or gave up waiting for them.
Clean(d) == d \notin overtaken /\ d \notin timedOut

\* beginDeploy's promise, "one deploy at a time per stack": two deploys are never both
\* building the same node, as long as both are clean.
OneProvisionerPerNode ==
    \A d, e \in Deploys, n \in Nodes :
      d # e /\ Live(d, n) /\ Live(e, n) => ~Clean(d) \/ ~Clean(e)

\* The reason deployRun exists: a provisioner that is still running never finds the row of
\* its node replaced by another deploy, so what it writes last cannot land on a later
\* deploy's row.
RowHasOneWriter ==
    \A d \in Deploys, n \in Nodes :
      Live(d, n) /\ Clean(d) /\ row[n] # None => rowBy[n] = d \/ ~Clean(rowBy[n])

\* teardownStack leaves nothing: once it has swept the stack, no container and no row of a
\* deploy that had begun when it started exists, or appears later.
TeardownIsFinal ==
    \A t \in Teardowns, n \in Nodes :
      tpc[t] \in {"end", "done"} =>
        /\ cont[n] \in covered[t] => ~Clean(cont[n])
        /\ row[n] # None /\ rowBy[n] \in covered[t] => ~Clean(rowBy[n])

\* A row that says pending or provisioning has somebody who will settle it: its
\* provisioner, the handler about to start one, or a teardown that will delete it.  A
\* restart leaves none behind (failInterruptedDeployments).
InFlightHasBuilder ==
    \A n \in Nodes :
      InFlight(n) /\ overtaken = {} /\ timedOut = {} =>
        \/ \E d \in Deploys : Live(d, n) \/ cur[d] = n
        \/ \E t \in Teardowns : \/ tpc[t] \in {"wait", "list"}
                                \/ tpc[t] = "remove" /\ \E x \in tlist[t] : x[1] = n

\* finishDeploy's promise, "a later deploy is not blocked forever": every registered run is
\* dropped in the end.
RunReleased == \A d \in Deploys : registered = d ~> registered # d

\* No node stays pending or provisioning for ever, which would keep its stack's node set
\* frozen (deployInProgress).
RowsSettle ==
    \A n \in Nodes : InFlight(n) ~> (~InFlight(n) \/ overtaken # {} \/ timedOut # {})

-----------------------------------------------------------------------------
(***************************************************************************)
(* Why the safety properties hold: an inductive invariant.                 *)
(***************************************************************************)
Started(d) == hpc[d] \notin {"idle", "begin"}

\* The registry: an unstarted deploy is nowhere in it; a spawning one that no teardown
\* overtook is the registered run, with a live context.
UnstartedIsUnknown ==
    \A d \in Deploys : ~Started(d) => registered # d /\ d \notin cancelled

ReleaserAfterHandler ==
    \A d \in Deploys : rel[d] # "none" => hpc[d] = "done"

SpawningIsRegistered ==
    \A d \in Deploys : Spawning(d) /\ d \notin overtaken => registered = d /\ d \notin cancelled

JobInHand ==
    \A d \in Deploys : hpc[d] \in {"scope", "add"} => cur[d] \in Nodes

JoiningOwnRun ==
    \A d \in Deploys : hpc[d] = "add" => /\ joining[d] \in Deploys
                                         /\ d \notin overtaken => joining[d] = d

NoJobBeforeSpawn ==
    \A d \in Deploys : hpc[d] \in {"idle", "begin", "network", "list", "prune"} =>
                         \A j \in Jobs : ~Live(d, j)

WaitingForStarted ==
    \A t \in Teardowns : tpc[t] = "wait" => /\ trun[t] \in Deploys /\ Started(trun[t])
                                            /\ Spawning(trun[t]) => trun[t] \in overtaken

RegistryInv ==
    /\ UnstartedIsUnknown /\ ReleaserAfterHandler /\ SpawningIsRegistered /\ JobInHand
    /\ JoiningOwnRun /\ NoJobBeforeSpawn /\ WaitingForStarted

\* The WaitGroup: every goroutine of a deploy that was not overtaken has joined its own run
\* and is counted until it returns, so the run outlives it unless a wait timed out.
JoinedOwnRun ==
    \A d \in Deploys, j \in Jobs : Live(d, j) /\ d \notin overtaken => pjoin[d][j] /\ pctx[d][j] = d

JoinedIsCounted ==
    \A d \in Deploys, j \in Jobs : Live(d, j) /\ pjoin[d][j] =>
                                     pctx[d][j] \in Deploys /\ <<d, j>> \in wg[pctx[d][j]]

LiveIsRegistered ==
    \A d \in Deploys, j \in Jobs : Live(d, j) /\ Clean(d) => registered = d

ReleasedIsOver ==
    \A d \in Deploys, j \in Jobs : rel[d] \in {"drop", "done"} /\ Clean(d) => ~Live(d, j)

ScopeInv == JoinedOwnRun /\ JoinedIsCounted /\ LiveIsRegistered /\ ReleasedIsOver

\* A teardown under way: what it covers has finished spawning, and is over once it has waited.
CoverOf(t) ==
    tpc[t] \notin {"idle", "dead"} =>
      \A d \in covered[t] : Clean(d) =>
        /\ hpc[d] = "done"
        /\ \A j \in Jobs : Live(d, j) => tpc[t] = "wait" /\ trun[t] = d

CoverInv == \A t \in Teardowns : CoverOf(t)

\* Rows: none without a stack, and each written by the deploy that is building the node.
NoStackNoRow == stack = "gone" => \A n \in Nodes : row[n] = None

JobRow ==
    \A d \in Deploys : hpc[d] \in {"scope", "add"} /\ Clean(d) /\ row[cur[d]] # None =>
                         rowBy[cur[d]] = d \/ ~Clean(rowBy[cur[d]])

RowInv == NoStackNoRow /\ RowHasOneWriter /\ JobRow

\* What a teardown has listed still covers every row it must delete.
RemovalInv ==
    \A t \in Teardowns, n \in Nodes :
      row[n] # None /\ rowBy[n] \in covered[t] /\ Clean(rowBy[n]) =>
        /\ tpc[t] \notin {"sweep", "end", "done"}
        /\ tpc[t] = "remove" => \E x \in tlist[t] : x[1] = n

ContainersGone ==
    \A t \in Teardowns, n \in Nodes :
      tpc[t] \in {"end", "done"} /\ cont[n] \in covered[t] => ~Clean(cont[n])

IndInv ==
    TypeOK /\ RegistryInv /\ ScopeInv /\ CoverInv /\ RowInv /\ RemovalInv /\ ContainersGone

\* Why InFlightHasBuilder holds.  A handler has a job in hand only between its row and its go
\* statement; and whoever cancelled the registered run, so that its provisioners stay quiet,
\* is either its releaser, which waited for them, or a teardown still waiting for it.
JobInHandOnly == \A d \in Deploys : cur[d] # None => hpc[d] \in {"scope", "add"}

QuietForATeardown ==
    registered \in Deploys \cap cancelled /\ overtaken = {} /\ timedOut = {} =>
      \/ rel[registered] = "drop"
      \/ \E t \in Teardowns : tpc[t] = "wait" /\ trun[t] = registered

BuilderInv == JobInHandOnly /\ QuietForATeardown /\ InFlightHasBuilder

=============================================================================
