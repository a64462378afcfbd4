# DBCanvas: a TLA+ development of its control plane

DBCanvas lets a user draw a stack of database nodes on a canvas and deploys it
as containers (or virtual machines) on one host. This directory holds TLA+ models of
the concurrent core of its Go server (`src/app`), TLC configurations that check
them on small instances, and TLAPS proofs for every value of the constants.
Paths below are relative to `src/`.

## 1. Inventory

| Part | State it keeps | Operations | What is hard, and what makes it correct |
|---|---|---|---|
| **Deploy runs** `app/deployrun.go`, `app/intranet.go`, `app/stacks.go` | `App.deploys` (one run per stack: a context and a WaitGroup), table `deployments`, the stack's status, its Docker network and containers | deploy, destroy, delete, expire, restart of the server | The handler returns while goroutines go on for minutes; a teardown may arrive at any time; the process may die. One deploy at a time builds a node, a late write never lands on a newer row, a teardown leaves nothing, no row stays in flight for ever |
| **Host ports** `app/hostports.go`, `app/docker.go` | table `host_ports`, mutex `hostPortBook`, the ports containers are pinned to | choose, reserve, release, re-seed at start-up | The bind test of a stopped container's port succeeds; releases do not take the mutex; crashes fall between reservation and creation. A pinned port belongs to its container; typed ports never move |
| **Switchover** `app/switchover.go` | `switchLocks`, and the servers' own replication state | promote a member | A dozen statements on several servers, each of which can fail or run without an answer, while clients write. Never two writers, nothing lost, nothing applied twice, an honest report |
| **Rebuild, rolling restart, join, drills** `app/rebuild.go`, `app/rolling.go`, `app/join.go`, `app/drills.go` | the same locks, job records | rebuild a member, restart a group member by member | Plans made before the lock is taken. A rebuild never copies over the current primary, a rolling restart takes one member out at a time |
| **Cluster frames and the deploy barrier** `app/pxc.go`, `app/mysql.go`, `app/mariadb.go`, `app/mysqlce.go`, `app/join.go`, `app/replication.go` | one goroutine per frame, one barrier per deploy | provision, join, arrive, wait, drain | Frames wait on each other; any member may fail, at any phase, and an abandoned deploy may go on beside the next. Nobody waits for ever, nobody replicates from a server that is not at its baseline |
| **Cross-cluster replication** `app/replication.go` | the links drawn, the channels and GTID sets of the servers | reconcile after each deploy: order, seed, apply, prune | Chains and cycles, several reconciliations over the same servers, steps that fail half-way. No transaction is skipped, none is asked for that the source cannot send |
| **Design edits** `app/designedit.go`, `app/stacks.go` | the stack's design document, the edit lock | edit, save, PUT, record a new primary | Three read-modify-write paths, two of them without the lock; the node set is frozen while rows are in flight; rows of removed nodes are deleted by a goroutine that outlives the request |
| **Stack expiry** `app/stacks.go` | `expires_at` | reap, extend | Listing and teardown are apart |
| **Node provisioners** `app/pmm.go`, `app/mongodb.go`, ... | none of their own | some forty scripts of exec steps | Retried steps; their common outline is part of the deploy model |
| **Engines** `app/engine.go`, `app/docker.go`, `app/vagrant.go` | Docker's or Vagrant's | create, start, exec, remove | I/O |
| **Store, encryption** `app/store.go`, `app/encryption.go` | SQLite, one connection | SQL, key rotation | Rotation re-encrypts row by row |
| **Shared sessions** `app/sharehub.go`, `app/share.go`, `app/shareterm.go` | the registry of hubs, each hub's browsers, controller and terminals, the session's row | join, drop, leave, hand over, end | Row, registry and hub are read in separate steps; timers fire against returns. One running hub per session, an absent driver loses control, an end ends it for everybody |
| **Debuggers** `app/gdbsess.go`, `app/k3ddebugsess.go` | sessions with viewers and grace timers | attach, step, leave | Timers race with re-attachment |
| **Query Runner, Benchmark, Data Generator** | job registries | start, progress, cancel | Workers against cancellation |
| **Live view, watcher, notifications** | sampled roles, alerts | sample, notify | Stale samples |
| **Accounts, settings, diagnostics, web client, CLI, simulators, images** | rows and files | requests over single rows, parsers, packaging | Little |

How they interact: a deploy request registers a run, spawns one provisioner per
node and four trailing goroutines, all joined to the run's WaitGroup; each
`ContainerCreate` goes through the port guard; a teardown cancels the run, waits
up to 45 s and removes what is there; a switchover acts on deployed nodes under
a per-group lock, as rebuilds and rolling restarts do; a frame's goroutine waits at the
barrier of its deploy, and `reconcileReplication` behind all of them; saves of the
design and deploys meet only in the `deployments` table; at start-up `main.go` installs the port guard, re-seeds
`host_ports`, fails interrupted deployments, and only then starts the reaper
and the listener.

## 2. Modules

| Module | What it is |
|---|---|
| `StackDeploy` | The deployment life of one stack: deploy handlers, provisioners, teardowns, restart |
| `StackDeployProofs` | Its inductive invariants and five theorems |
| `HostPorts` | Choosing, reserving and pinning host ports |
| `PortLease` | Abstract specification: `host_ports` as a lease |
| `HostPortsProofs` | Its inductive invariant, four theorems, the refinement of `PortLease` |
| `AsyncSwitchover` | `switchAsync` for MySQL asynchronous replication, with and without GTIDs |
| `AsyncSwitchoverProofs` | Its inductive invariants and five theorems |
| `FrameDeploy` | Cluster frames of a stack: their phases, the deploy barrier, joins, cancellation |
| `Rendezvous` | Abstract specification: what the deploy barrier promises |
| `FrameDeployProofs` | Its inductive invariant, three theorems, the refinement of `Rendezvous` |
| `ReplChannels` | Cross-cluster links: order, seeding, channels and pruning over several deploys |
| `ReplChannelsProofs` | What the order is, two inductive invariants, five theorems |
| `ClusterOps` | Promote, rebuild and rolling restart of one group, and the lock between them |
| `ClusterOpsProofs` | Its inductive invariant and three theorems |
| `StackDesign` | The stored design, everybody who writes it, and the rows it must agree with |
| `StackDesignProofs` | Its inductive invariant and four theorems |
| `SharedSession` | The hubs of one shared session: joining, control, end, terminals |
| `SharedSessionProofs` | Its inductive invariant and four theorems |
| `MC...` | Model values for TLC, one module per model |

Which model is whose detail: `StackDeploy` has the steps of a deploy handler and of a
teardown that are single actions in `FrameDeploy` and `StackDesign`; `AsyncSwitchover` has
the statements of the switch that is one action in `ClusterOps`; `FrameDeploy` ends where
`ReplChannels` begins, at the apply loop of `reconcileReplication`.

The operators called "Seeded fault" are not part of any specification: each is the
bug that one property must notice, kept beside the definition it perverts.

### StackDeploy

A deploy request `d` names its run and the containers its provisioners create.
`hpc[d]` is where `handleDeployStack` is; `ppc[d][n]` where the provisioner of
node `n` is; `tpc[t]` where `teardownStack` is. `registered`, `cancelled` and
`wg` are `App.deploys`, the contexts and the WaitGroups. Steps are split where
another goroutine can come between: `deployScope`'s check and its `wg.Add`;
`finishDeploy`'s wait and its `CompareAndDelete`; `teardownStack`'s listing, each
removal, and the sweep by name prefix. `reconcileVanished` covers a daemon that
cannot be asked. A provisioner sets its row before it looks at its context, may
fail at every step, and reports the failure, or stays quiet while the registered
run is cancelled; `Loud` are the nodes whose provisioner does not ask
(`failNode` against `pxcProg.fail`). `Restart` loses every goroutine and the
registry and runs `failInterruptedDeployments`.

Abstractions: SQL statements and Docker removals succeed; state "running" stands
for the running and stopped rows `deployBuilt` accepts; listing the rows and
`reconcileVanished` are one step (only a deploy that a teardown overtook could
see a difference); an all-in-one node that is running and is provisioned again for what was added to it
(`app/intranet.go:2560`) is left out; the four trailing goroutines, which write no row of this
table, are one job, `Tail`. Cluster frames and their barrier are in `FrameDeploy`, the
clean-up after a design edit is in `StackDesign`; starting and stopping single nodes
during a deploy, and k3d frames, are in neither.

`rowBy`, `covered`, `timedOut` and `overtaken` are history: they name the
deploys the exclusion properties do not speak of. A deploy is **clean** unless a
teardown cancelled it while its handler was still spawning, or gave up waiting
for its goroutines after 45 s. Those two cases are in the model, are real
behaviours of the code, and are exactly where its guarantees end (see the
observations in section 3).

### HostPorts and PortLease

An owner is a container name. `want` distinguishes ports a user typed (`fixed`),
ports kept from the last deploy (`auto`) and new ones (`fresh`). A pick reads the
table under the mutex (`snap`), runs the probe container, and commits; the probe
must find the ports of running containers taken, may find any other taken (other
programs of the host), and cannot see the ports of stopped containers. Releases
(`DeleteDeployment`) do not take the mutex and come between the steps of other owners' picks.
`RemoveNode` removes a
container only if the row knows its id, as `removeNodeResources` does. Nobody looks at the
outcome of a removal, so `ContainerRemove` may leave the container where it is: a removed node then
releases ports a container is still pinned to, and a redeploy goes on to choose ports, which may be others.
Either way the pins given up are `leaked`, a history variable. `Restart`
re-seeds the table from the containers' pins, or leaves it when Docker cannot be asked.
`MaxFaults` bounds server starts and failed removals together.

Assumed: one deploy or one removal works on a node at a time. `StackDeploy` shows it of clean
deploys. A deploy that a teardown overtook, and the goroutine of `cleanupRemovedNodes` beside
a deploy that began later, can release the ports of a node being provisioned; that is not in this model,
so its properties do not speak of it.

`PortLease` is the promise: a reservation leaves its owner only by the owner's own
new choice, by its release, or when a server start rebuilds the table.
`ImplementsLease` states that `HostPorts` implements it, under the identity mapping of
`table` and `boots`.

Not in it: reservations made beside a container (owners with a `#` suffix, such as the load
balancer of Everest on a k3d cluster), which have no pins of their own, and
`releaseStackPorts`, which releases several owners at once.

### AsyncSwitchover

One action per statement `switchAsync` sends: preflight, freeze, position,
wait, stop, candidate position, promote, demote, follow, verify, and the undo path
(restart, unfreeze). Every statement has three outcomes: it ran; it failed and did
not run; it failed *and had run*, in whole or in part for the batches. Once the
four-minute deadline has passed, every later statement fails unsent, the undo
statements included. The process may die between any two statements. A probe
may miss members. Meanwhile clients commit on whatever server is writable,
replicas apply (by transaction with GTIDs, by position without), and channels
break.

The faults are exactly these: a database server that restarts by itself, and with it forgets a
setting that is not persisted, is not among them.

Abstractions: `run` is both replication threads; semi-sync, MariaDB's variant (read
lock, its own positions) and restarts of a database server are not modelled; the record
of the new primary in the design is in `StackDesign`. A candidate that is eligible but refused for
any reason ends as "refused". Servers keep replica updates in their binlog, as the
provisioned configuration does.

### FrameDeploy and Rendezvous

`pc[d][f]` is where the goroutine of frame `f` in deploy `d` is. A frame is of kind "pxc"
(`provisionPXCFrame`: prepare in parallel, form one member after the other, arrive, finish;
its drain is registered first) or "async" (`provisionMySQLFrame` and its MariaDB and MySQL
Community twins: prepare in parallel, register the drain, baseline in parallel and arrive,
wait at the barrier, attach, finish). A frame some of whose members run already is joined
instead (`joinFrame`). `rpc[d]` is `reconcileReplication`, which waits at the barrier too.
Every step may fail, because its context is cancelled or by itself (`MaxFaults`), and a
failure is recorded as `pxcProg.fail` does: not at all while the run registered *now* is
cancelled. `at[d][f]` is the barrier a frame drains when it returns: the one
`deployBarrierFor` found, which is the stack's newest, not necessarily its deploy's.

`Rendezvous` says what the barrier is for: a participant of a deploy is working, ready or
gone; a waiter leaves when nobody works any more or when its patience ends. A cancelled
deploy promises no less. `ImplementsRendezvous` maps `party` to the participants' history
(`based`, and whether their frame has returned): the mapping does not mention the barrier's
own `pending`, so the refinement really compares the mechanism with the promise.

`cancelDeploy` gives up after 45 s. In this model it may only do so when nothing but waits
that do not look at their context are left (`Deaf`): at a barrier that a frame has left
without arriving (`Stranded`), or in `waitNodeRunning`. Every other step of a cancelled deploy
is an exec or a select on the context and is assumed to return in time; in `StackDeploy` the 45 s may
run out at any moment.

Abstractions: deploys, teardowns and the removal of rows are single actions here;
database errors are left out; Group Replication, InnoDB Cluster, PostgreSQL and MongoDB
frames do not use the barrier and are not modelled; MySQL Community's attach is MySQL's.

### ReplChannels

`executed` and `purged` are a server's `gtid_executed` and `gtid_purged`; a channel is a
pair. A pass of `reconcileReplication` takes the links as its request read them (`plan`),
orders the replicas (`replicaApplyOrder`: the sequence each of whose elements is the `Candidate`
the ones before it left, which is the code's choice, ties by id included), and for each member reads the source's position, runs
`replChannelApply`, and prunes. Reading and applying are two steps, so clients and channels
run on in between. The script runs under `set -e`: it may break off before or after the
seeding (`ApplyBreaks`), or find that the threads do not start (`ApplyFails`). In that case the
channel is not kept and the prune removes it. A channel that existed before a script broke off
has been stopped by it and goes on delivering here, which only adds behaviours. Between passes links are redrawn, nodes stop and
start. `gtid_purged` knows no channels: seeding a member from one source may mark as executed what
another channel of the member still owes it; `crossed` records those channels. `Fetch`, `Fatal` and `Logged` are MySQL's side: auto-positioning
fails with 1236 as soon as the replica lacks something its source has only in
`gtid_purged`.

Abstractions: every member has a container and a row; the order of a member's
sources is arbitrary; the barrier has been passed. Left out: links without GTIDs (file and position),
and MySQL 5.7's scripts, whose seeding is best effort.

### ClusterOps

One group, its servers reduced to who is nobody's replica (`prim`, and `frozen` if a switch
left it read-only), what everybody has (`data`), who is out of service (`out`) and whose
`super_read_only` a rebuild has lifted (`open`). Requests
go `Load` (the topology), `planRebuild` (the probe, before the lock), `TakeLock`, and then
the stages of their operation: a switch probes under the lock; a rebuild prepares the
donor its plan names, prepares the recipient, clones and attaches; a rolling restart
checks everybody's health, restarts the replicas one by one, then hands the primary over
or not, and restarts the former primary. `Break` is a member that fails by itself at any
moment (`MaxBreaks`); `Recover` is one that comes back, or that somebody mends. A group without a
primary is not mended here.

Every operation may fail part-way, and leaves what its statements have done by then. A switch is
one step with four ends: refused, with nothing changed (`SwitchRefused`); given up before the promotion, with the
unfreeze and the restart of the replicas done or not (`SwitchUndone`); broken off inside the
promotion, with nobody writable (`SwitchBroken`); or moved (`SwitchMoved`), with any set of
followers left behind. In the last case there is an error, or none if the looks at those followers failed,
and a rolling restart goes on whenever there is none. A rebuild lifts its
target's `super_read_only` in `PrepareRecipient`, and again in `Attach` when the group is semi-sync;
a failure after either leaves it lifted.

What makes a stale plan harmless is a write: preparing the donor installs a plugin and an
account, and a donor that has become a replica is `super_read_only` and refuses. The model
has that refusal as the guard of `PrepareDonor`. It fails to protect in one case, which the
history variable `misled` records and `NothingWiped` excepts: the plan's donor was demoted, and a failed rebuild of *it* has left it
open. `lapsed` are the members that failed by themselves or that a hand-over left behind unseen
since a rolling restart looked at everybody's health; `RollingKeepsService` speaks of the others.

Left out: what happens inside a switch (`AsyncSwitchover`), the other engines' rebuilds and
`rebuildDump`, the copy of a join, drills. `handleRebuild`'s early refusal of a second job
for the same member is left out too, which only admits more behaviours.

### StackDesign

A design is the set of its nodes. Everybody stores a whole document made from one read
earlier: an edit through the API under the stack's edit lock, a `PUT` by a browser that shows
what it read (`Show`) without the lock, a switch (`recordNewPrimary`) from the design its
request loaded, without the lock. `saveStackDesign` is `CheckFrozen`, `Store` and
`cleanupRemovedNodes`, three steps. Its goroutine removes one row after the other. A deploy reads
the design, prunes, creates rows, and its provisioners end in either way; then the next one may begin.

The freeze looks at rows, so it cannot see a deploy that has read the design and made no row yet.
Two history variables say how far it reaches. `ahead[n]` are the writers that were past their
check when the row of `n` was made, `edited` the nodes whose place in the stored design an edit decided last.
`FrozenOnceRowsExist` then says that a save which takes a node in flight off the canvas is one of
`ahead`, or had loaded a design without the node. The leftovers of such a save are what `DeployedAsRead` is
about: from the first row the next deploy makes, only nodes it has read are deployed.


Abstractions: a node's container and row go in one step; a failed SQL statement is left out;
what an edit changes inside a node is, as far as saving over each other goes, the same
document and not distinguished; a destroy of the stack is `StackDeploy`'s.

### SharedSession

A browser's way in has three steps: `JoinCheck` (the row), `JoinHub` (`hubFor`, which starts a
hub if the registry has none) and `JoinAdd` (under the hub's mutex). So has a terminal's:
`TermCheck`, `TermHub`, `TermOpen`. `end` has four: mark,
store, close the terminals listed and drop the registry's entry *by session id*, and half a second later cancel the
sockets. The mark stops the grace timer and leaves the controller as it is. A driver's grace timer is armed, fires, checks under the mutex, and takes
control back after releasing it: three steps a return, a hand-over or the end can come
between. Timer.Stop does not stop a timer that has fired, so `armed` and `fired` are
sets. A hand-over checks that the guest is admitted and sets the controller in a second step.
A guest whose last browser dropped between the two has control and no timer: `held` is false of it, and
`AbsentDriverIsTimed` and `DriverLosesControl` except it.

Abstractions: one browser per guest; `Leave` is the mark and the drop of the sockets
in one step, and stands for the host's "remove" as well; `endShare` without a hub is
one step (`EndRow`); the host's "take control" is a hand-over to the host. Left out: lobby
and admission, chat, follow, mirror, drawing, recording and shared browser windows, which
relay messages and decide nothing the properties speak of.

## 3. Runs

| Run | Instance | Shows |
|---|---|---|
| `deploy_redeploy` | one node, two deploys, one teardown, designs with and without the node | `TypeOK`; `OneProvisionerPerNode`; `RowHasOneWriter`; `TeardownIsFinal` |
| `deploy_settles` | two nodes (one loud, one quiet), one deploy, one teardown, one crash, fairness | `InFlightHasBuilder`; `RunReleased`; `RowsSettle` |
| `host_ports_lease` | two owners, two ports, one server start or one failed removal, fairness | `PinsReserved`; `FixedNeverMoved`; `NoOrphanReservation`; `ImplementsLease`; `PickEnds` |
| `host_ports_twice` | two owners, two ports | **violation**: two containers pinned to one port |
| `switchover` | three members, two transactions, two switches, two faults, fairness | `AtMostOneWriter`; `NothingLost`; `NoDuplicate`; `SuccessMovesEveryone`; `EveryoneConverges` |
| `switchover_unfreeze` | one switch, one fault | **violation**: "writes are back" on a server that is read-only |
| `frame_deploy` | a replication group of two, and a PXC cluster drawn before the second of two deploys; one fault; teardowns at any time; fairness | `ImplementsRendezvous`; `VerdictIsOwn`; `StuckOnlyBesideAFailure`; `RunReleased` |
| `repl_channels` | three nodes; a chain against the order of ids, a pair, a fan-out one branch of which feeds the other; two passes, one redraw, one fault; fairness | `NothingSkippedOnKeptChannels`; `NoFatalGapUndisturbed`; `CatchesUp` |
| `repl_order` | a pair that feeds a third node whose id sorts first; one pass | **violation**: the third node's channel meets the fatal gap |
| `cluster_ops` | three members, one promote, two rebuilds, one rolling restart that may hand over, one transaction, one member that fails by itself, with symmetry | `NothingWiped`; `RollingKeepsService` |
| `stack_design` | two nodes, two edits, one PUT, one promote, any number of deploys, fairness | `DeployedAsRead`; `EditsSurvive`; `FrozenOnceRowsExist`; `RemovedIsTornDown` |
| `shared_session` | two guests, one terminal, two hubs, fairness | `RunningHubIsRegistered`; `AbsentDriverIsTimed`; `EndReachesEveryone`; `DriverLosesControl`; `SessionEndsForEveryone` |

Why the bounds are enough to be interesting. All of the deploy model's conflicts
are about one node's row and container, and need an old deploy, a teardown and a new
deploy: that is the instance. A second node matters for releasing and settling (one
provisioner done, the other not, one quiet and one loud), hence the other instance. Two
owners and two ports let a pick find a port held, free, or to be moved. A
candidate, an old primary and a third replica are the least group in which stopping
only the candidate differs from stopping everyone; two switches let a switch start
from what a failed one left; two faults let the undo of a fault fail. A frame of two members
has one that fails and one that is left behind; the second deploy finds the first one's
barrier, rows and abandoned goroutines, and the frame of the other kind drawn in between makes
joins and builds happen in one deploy. Three nodes are the least on which a chain, a fan-out
and a cycle with a tail differ, and two passes the least in which a kept channel is
reconciled. Two rebuilds, a promote and the hand-over of a rolling restart let a plan be overtaken by
a switch, by a second switch and by another rebuild's end. Two edits and one of every other writer give every pair that can save over
each other. Two hubs are what a browser that was on its way in at the end can start. No bound is
needed for time: a timeout may happen at any moment. Deadlock checking is off in
all runs: requests are finitely many, and when all are served the system rests.

### Findings

1. **A port given twice** (`host_ports_twice`, `app/intranet.go:3577`): a container
   that was created and whose id was never recorded outlives its node's removal,
   its reservation does not.
2. **Writes are not back** (`switchover_unfreeze`, `app/switchover.go:856`): the
   unfreeze runs on the expired context of the switch and its error is dropped.
3. **The tail of a cycle first** (`repl_order`, `app/replication.go:556`): breaking a cycle at
   the node of the smallest in-degree, ties by id, may pick a node that is not in the
   cycle. In mysql01 <-> mysql04 -> mysql07, the comment's own example, all three
   have in-degree one; with ids that sort mysql07 first it is seeded before mysql04 has
   its channel, and asks for what mysql04 has only purged. (A ring of three can leave such a
   gap whatever its ids are. Without cycles there is none, which is proved: section 5.)

### Observations without a run

Behaviours met while modelling that the properties above name as exceptions or that a run
of their own would only repeat.

- A destroy during the spawning phase of a deploy: `cancelDeploy` waits for what has
  joined so far and drops the run, and the handler's next provisioners get
  `context.Background()` (`app/deployrun.go:73`), so a container may be created after the sweep of
  `teardownStack` (`app/intranet.go:3623`, "nothing can create more"). `TeardownIsFinal` speaks of
  the others.
- `wg.Add` on a group being waited on (`app/deployrun.go:82`): the gap between the check and
  the `Add`.
- A frame abandoned after 45 s goes on and may set the state of a row the next deploy has
  inserted; `VerdictIsOwn` excepts exactly these runs.
- When one member fails in a parallel phase its siblings' rows stay "provisioning" for
  good (`app/mysql.go:193`), which freezes the node set until a redeploy or a teardown;
  `StuckOnlyBesideAFailure` says there is no other way to get stuck.
- A replication frame that fails before it has registered its drain makes everyone
  else wait at the barrier for the full deploy timeout (`app/mysql.go:202`); a PXC
  frame registers first.
- A channel that breaks off after seeding and is pruned is seeded again by the next pass:
  what its source got in between is skipped. `NothingSkippedOnKeptChannels` excepts channels
  removed although they were drawn.
- With links 1 -> 2, 2 -> 3 and 1 -> 3, seeding node 3 from node 2 adds node 2's whole position
  to node 3's `gtid_purged` (`app/replication.go:597`), and with it what node 1 has sent to node 2
  and still owes node 3: that is then skipped. `NothingSkippedOnKeptChannels` excepts channels
  whose replica was seeded from another source later (`crossed`).
- File/position channels are set to the source's current position by every deploy
  (`app/replication.go:494`); they are not modelled.
- `recordNewPrimary` writes back the whole design its request read, up to four minutes
  earlier, and a PUT stores what a browser showed: both can undo an edit saved in
  between. `EditsSurvive` is what the lock does give: an edit never undoes another edit.
- A deploy that read the design before a save, and makes its rows after it, builds nodes that
  are no longer drawn; the next deploy or save removes them. The same goes for a save that passed its
  check before the rows were made. `FrozenOnceRowsExist` names both.
- The goroutine `cleanupRemovedNodes` leaves behind removes by node id, and may remove the
  row a later deploy has made for a node drawn again (`app/stacks.go:301`).
- A removal of a container whose error nobody looks at (`app/docker.go:781`,
  `app/pxc.go:538`): the old container keeps pins that the redeploy's choice gives up. `leaked` in `HostPorts`.
- A rebuild's stale plan is harmless because `super_read_only` binds root too. MariaDB
  before 11 has only a `read_only` that admin accounts pass (`app/switchover.go:700-717`);
  its members are rebuilt from a dump, which is not modelled.
- A rebuild that fails after it has lifted its target's `super_read_only`
  (`app/rebuild.go:483`, `app/rebuild.go:543`) leaves the target open. A plan that is older than
  a switch and names this member as its donor is then not refused, and copies over the new primary
  (`misled` in `ClusterOps`); `NothingWiped` ends there.
- Only a status query that works can record that a follower does not replicate
  (`app/switchover.go:1023`): success may be reported for one that could not be looked at, and a
  rolling restart goes on (`app/rolling.go:238`) with two members out of service (`lapsed`).
- A switch that fails between the freeze and the promotion may leave the group frozen, and one that fails
  inside the promotion without a primary; a later promote or rebuild then finds no primary and refuses.
- A shared terminal whose shell was still starting when the session ended is registered on
  the ended hub and stays open until its shell exits (`app/shareterm.go:177`); `late` in
  `SharedSession`.

## 4. Fairness

- `StackDeploy`: weak fairness of each handler, releaser, provisioner, tail and
  teardown. The Go scheduler runs every goroutine, and every wait has an end: ten
  attempts per step, the deploy timeout, `cancelDeployWait`. No request and no crash
  is ever obliged to happen.
- `HostPorts`: weak fairness of each provisioner, strong fairness of taking the
  mutex. Go's `sync.Mutex` hands over to a waiter that has starved for a millisecond,
  and the probe has `probeTimeout`.
- `AsyncSwitchover`: weak fairness of the switch's next statement and of each running
  replica. Each statement returns at the latest at the deadline. Nobody has to
  commit or to promote.

- `FrameDeploy`: weak fairness of every goroutine, of `finishDeploy` and of `cancelDeploy`'s
  end. The barrier's time-out is counted on only where a frame returned without having
  registered its drain: everywhere else the barrier must open by itself, and does.
- `ReplChannels`: weak fairness of the job's next step and of each channel that has
  something to deliver. Nobody has to write, redraw, stop or start.
- `StackDesign`: weak fairness of the clean-up alone, the goroutine a save leaves behind.
- `SharedSession`: weak fairness of handlers on their way in, of cancelled sockets, of
  grace timers and their callbacks, and of `end`'s remaining steps. That the session's
  expiry goes off is not assumed but is the antecedent of `SessionEndsForEveryone`: a hub
  armed by a late browser ends by its own timer.
- `ClusterOps` has safety properties only and no fairness.

## 5. Proofs

Every invariant a passing run checks, every refinement, and the two safety properties of steps
(`EditsSurvive` and `FrozenOnceRowsExist`) is also a theorem, `NoFatalGapUndisturbed` for links without cycles. All theorems assume only the named `ASSUME`s of their modules:
the special values are distinct from the ordinary ones, bounds are naturals, a frame has members and no
two frames share one, the nodes of `ReplChannels` are finitely many numbers and no link joins a
node to itself. They hold for any sets of nodes, deploys, teardowns, ports, owners,
members, requests, guests and transactions, and any bound on faults and crashes. None of the
properties is inductive as it stands. Each proof names the stronger invariant it needs, which TLC
checked on the instances of section 3 before it was proved, keeps it in the component's own module under
"why the properties hold", and has one step per action.

- **`StackDeployProofs`**: `TypeCorrect`, `DeployExclusion`, `RowOwnership`,
  `TeardownFinality`, `NoRowForgotten`. `IndInv` adds
  `RegistryInv` (a spawning deploy that was not overtaken is the registered,
  uncancelled run), `ScopeInv` (its goroutines joined *its own* run and are counted
  until they return, hence a clean deploy with a live goroutine is still
  registered), `CoverInv` (what a teardown covers has finished spawning, and is over
  once the teardown has waited), `RowInv` and `RemovalInv` (what a teardown listed
  still contains every row it must delete). Exclusion follows because `registered`
  has one value. `NoRowForgotten` needs `BuilderInv` as well: a provisioner that fails
  quietly leaves its row in flight, and `QuietForATeardown` says it may, because whoever
  cancelled the registered run is a releaser that has waited for it or a teardown that is still
  waiting and will delete the row.
- **`HostPortsProofs`**: `TypeCorrect`, `PinnedPortsReserved`, `FixedPortsKept`,
  `NoReservationOrphaned`, `RefinesLease`. `IndInv`
  adds `LockInv`, `SnapInv` and `OutInv`: between the read of the table and the commit
  others can only *release* ports, since every grant is made under the mutex, so the
  snapshot still covers all foreign reservations. This is why the unlocked releases
  are harmless. `RemovedInv` says that nothing is left of a removed node but leaked pins, `FixedInv` that
  what a pick settled on has the ports a user typed. The
  refinement maps a commit to `Grant`, a removal to `Release`, a restart to `Rebuild`
  and everything else to a stutter.
- **`AsyncSwitchoverProofs`**: `TypeCorrect`, `SingleWriter`, `NoTransactionLost`,
  `NothingAppliedTwice`, `SuccessIsHonest`. `IndInv` records who is
  read-only in each phase: before the freeze everyone the preflight has seen, from the
  freeze to the promotion everyone, afterwards everyone but the candidate; and that a
  writer is nobody's replica (`WriterDetached`), which is what makes the preflight catch
  a writer that the probe missed. `DataInv` is about the binlogs: all are beginnings of one log
  (`Agree`), a replica's is no longer than its source's, the writer's is the longest,
  and without GTIDs a replica's position is the length of its own binlog. From this `ReplicateNext`
  shows that both ways of replicating append the same next transaction. The phases then keep it:
  from the position on the primary's binlog stands still, everyone the wait has passed is level with
  it, everyone the stop has passed stays so, and until it is re-pointed a follower stands exactly where
  the candidate's position was read. That is why the position is right without GTIDs, and why
  every replica has to be stopped and not just the candidate. `ReportInv` records who is
  re-pointed or recorded as failed.
- **`ClusterOpsProofs`**: `TypeCorrect`, `RebuildWipesNothing`, `RollingRestartKeepsService`.
  `StageInv` ties the stage to the holder of the lock, `PlanInv` says that a plan copies
  from somebody else, `MoveInv` that the primary a switch found is still the primary when it moves it,
  `CopyInv` that a donor which took the preparing write is the primary *now*, whatever
  the plan thought, unless the rebuild was misled, and that the primary, or somebody while there is none, has everything
  acknowledged; `RollInv` that between two restarts nobody is out of service but the lapsed, and the primary is
  not among those still to be restarted.
- **`FrameDeployProofs`**: `TypeCorrect`, `VerdictsAreOwn`, `NothingStuckAlone`,
  `RefinesRendezvous`. `RunInv` says that of all deploys begun only the registered one and the dropped ones
  have live goroutines, and what is left of a dropped one is behind the barrier's wait; `PhaseInv`,
  `PassInv` and `ArriveInv` what a goroutine has done in each phase and who
  has arrived; `RowInv` whose rows a live frame writes; `SettleInv` that a row in flight is one its
  goroutine has still to come to, or has a failed sibling. The refinement maps a member's
  baseline to `Ready`, the return of a frame to `GiveUp` of whoever was not at
  its baseline, and a waiter's two ways out to `Leave` and `LosePatience`; that `Leave` is
  allowed rests on `ArriveInv`.
- **`ReplChannelsProofs`**: `TypeCorrect`, `ApplyOrderPlacesAll`, `ApplyOrderIsTopological`,
  `NothingIsSkipped`, `NoGapOnAcyclicLinks`. The first two are about `replicaApplyOrder` alone: for
  any links, cyclic or not, it lists every replica once; and if the links have no cycle,
  it lists a replica after all replicas that feed it. They are proved with a least-counterexample
  lemma (`LeastNat`), since induction over data cannot be applied here. `NothingIsSkipped`: `OwedInv`
  keeps what is owed on configured channels, and seeding happens where no channel was
  configured. `NoGapOnAcyclicLinks` says that as long as no node stops, no step fails and no link
  is redrawn, auto-positioning never meets something its source has only purged: the order makes
  `GapInv` inductive, because a source is never seeded behind the back of a channel that is
  already there. `Acyclic` is a hypothesis on the links drawn and is needed: `repl_order` shows the gap
  for a cycle with a tail.
- **`StackDesignProofs`**: `TypeCorrect`, `OnlyWhatWasRead`, `FreezeHolds`, `NoEditIsLost`. `EditInv`: an edit past its load
  holds the lock, and what it read has every node as the last edit left it. `CheckInv`: a writer past
  its check that would remove a node whose row is in flight was past it before the row was made, or never
  saw the node; `FreezeHolds` is that, at the moment of the store. `PruneInv`: while a deploy prunes, only the rows it has still to remove
  are outside the design it read, which gives `OnlyWhatWasRead`.
- **`SharedSessionProofs`**: `TypeCorrect`, `RunningHubIsFound`, `AbsentDriverOnTheClock`,
  `EndMissesNobody`. `RegistryInv`: a hub that was made and whose end has not come to
  the registry is the one registered, hence there is at most one. `TimerInv`: until the hub ends, `driverLost` is the
  timer of whoever drives and runs or has fired. The last two are the safety halves of
  `DriverLosesControl` and `SessionEndsForEveryone`.

Checked by TLC only:

- the liveness properties `RunReleased` (of two models), `RowsSettle`, `PickEnds`, `EveryoneConverges`,
  `CatchesUp`, `RemovedIsTornDown`, `DriverLosesControl`, `SessionEndsForEveryone`: reasoning under
  fairness needs ENABLED, which the prover does not handle;
- `NoFatalGapUndisturbed` for the pair, a cycle, where the proof's hypothesis does not hold and
  which is right only because the two members are each other's only source.

## 6. Plan

1. Stack expiry against extension, and single-node start and stop against a deploy, in
   `StackDeploy`, with the theorems extended to them.
2. `NoFatalGapUndisturbed` for pairs that nothing else feeds or follows.
3. The debugger sessions and the job registries; MongoDB's switchover.

## 7. Not modelled

The models cover the parts of the server where several actors share state. They are a
small share of the repository's lines, and will remain so: most of it is

- what some forty provisioners run inside their containers: shell scripts and configuration
  files, one after the other, each modelled as a step that works or fails;
- parsers and reports of logs, captures and metrics (`app/ftdcsummary.go`,
  `app/stalksummary.go`, `app/opsummary.go` and others): text in, text out;
- the catalogue and the validation of designs: tables and checks without state;
- request handlers that read or write single rows: accounts, tokens, settings;
- the web client, the command line client, the demo applications and the images.

Parts that do have shared state and are left out so far: the other switchovers (Patroni,
repmgr, streaming replication, MongoDB, Group Replication), most of which hand the work to
the cluster's own tools; debugger sessions; the registries of the Query Runner, the
benchmark and the data generator; key rotation of the store; live view and notifications.
