----------------------------- MODULE FrameDeploy -----------------------------
(***************************************************************************)
(* Cluster frames of one stack: each deploy builds a frame in a goroutine  *)
(* of its own, frames meet at the stack-wide replication barrier, and a    *)
(* last goroutine configures the cross-cluster links.                      *)
(*                                                                         *)
(*   app/replication.go  deployBarrier, reconcileReplication (its waits)   *)
(*   app/intranet.go     handleDeployStack: barrier ids, frameSplit, spawn *)
(*   app/pxc.go          provisionPXCFrame                                 *)
(*   app/mysql.go        provisionMySQLFrame (mariadb.go and mysqlce.go    *)
(*                       have the same shape: kind "async")                *)
(*   app/join.go         joinMySQLFrame, joinPXCFrame                      *)
(*   app/deployrun.go    cancelDeploy and its 45 seconds, deployCancelled  *)
(*                                                                         *)
(* The handler's own steps (listing, pruning, spawning one by one) and the *)
(* steps of a teardown are in StackDeploy; here each is a single action.   *)
(***************************************************************************)
EXTENDS Naturals, Sequences, FiniteSets

CONSTANTS
    Nodes,       \* members of all frames
    Frames,
    Kind,        \* frame -> "pxc" or "async"
    Members,     \* frame -> its members in order: bootstrap member or primary first
    MaxDeploys,  \* deploy requests
    Drawn,       \* deploy -> the frames on the canvas when it is requested
    MaxFaults,   \* steps that fail although their context is alive
    Repl,        \* the reconcileReplication goroutine
    None         \* no row

Elems(s) == {s[i] : i \in DOMAIN s}

ASSUME FramesAssumption ==
    /\ Kind \in [Frames -> {"pxc", "async"}]
    /\ Members \in [Frames -> Seq(Nodes)]
    /\ \A f \in Frames : Members[f] # <<>>
    /\ \A f, g \in Frames : f # g => Elems(Members[f]) \cap Elems(Members[g]) = {}
    /\ \A n \in Nodes : \E f \in Frames : n \in Elems(Members[f])
    /\ MaxDeploys \in Nat /\ MaxFaults \in Nat
    /\ Drawn \in [1..MaxDeploys -> SUBSET Frames]
    /\ Repl \notin Frames

Deploys == 1..MaxDeploys
Waiters == {f \in Frames : Kind[f] = "async"} \cup {Repl}
Mem(f)  == Elems(Members[f])
FrameOf(n) == CHOOSE f \in Frames : n \in Mem(f)

VARIABLES
    row,        \* deployments table: node -> None, or its state, the deploy that inserted
                \* it (by) and the deploy whose goroutine last set the state (set)
    gen,        \* deploys begun; also the barrier deployBarrierFor returns (0: none)
    run,        \* App.deploys: the run in flight, 0 if none
    cancelled,  \* runs whose context is cancelled
    dropped,    \* history: runs cancelDeploy dropped without waiting to the end
    pending,    \* deploy -> deployBarrier.pending
    parts,      \* deploy -> the ids its barrier was seeded with
    pc,         \* deploy -> frame -> where its goroutine is
    left,       \* deploy -> frame -> members the current phase has still to do
    failed,     \* deploy -> frame -> a member failed in the current parallel phase
    at,         \* deploy -> frame -> the barrier it drains when it returns, 0: none
    passed,     \* deploy -> waiter -> how it got past barrier.wait
    rpc,        \* deploy -> where reconcileReplication is
    based,      \* history: deploy -> members that reached their reset baseline
    tpc,        \* teardown: "idle", or "wait" in cancelDeploy
    faults      \* how many steps have failed by themselves

tables  == <<row, gen>>
runvars == <<run, cancelled, dropped, tpc>>
barrier == <<pending, parts, at, passed, based>>
flow    == <<pc, left, failed, rpc>>
vars    == <<tables, runvars, barrier, flow, faults>>

PC == {"none", "start", "intranet", "prepare", "form", "baseline", "wait",
       "attach", "finish", "join", "done"}
Row == [state : {"pending", "provisioning", "running", "error"}, by : Deploys, set : Deploys]

ASSUME RowAssumption == None \notin Row

\* Type correctness of the tables, the runs, the barriers and the goroutines.
TypeOK ==
    /\ row \in [Nodes -> Row \cup {None}]
    /\ gen \in 0..MaxDeploys /\ run \in 0..MaxDeploys
    /\ cancelled \subseteq Deploys /\ dropped \subseteq Deploys
    /\ pending \in [Deploys -> SUBSET Nodes] /\ parts \in [Deploys -> SUBSET Nodes]
    /\ pc \in [Deploys -> [Frames -> PC]]
    /\ left \in [Deploys -> [Frames -> SUBSET Nodes]]
    /\ failed \in [Deploys -> [Frames -> BOOLEAN]]
    /\ at \in [Deploys -> [Frames -> 0..MaxDeploys]]
    /\ passed \in [Deploys -> [Waiters -> {"in", "out", "late"}]]
    /\ rpc \in [Deploys -> {"none", "barrier", "nodes", "done"}]
    /\ based \in [Deploys -> SUBSET Nodes]
    /\ tpc \in {"idle", "wait"}
    /\ faults \in 0..MaxFaults

Init ==
    /\ row = [n \in Nodes |-> None]
    /\ gen = 0 /\ run = 0 /\ cancelled = {} /\ dropped = {}
    /\ pending = [d \in Deploys |-> {}] /\ parts = [d \in Deploys |-> {}]
    /\ pc = [d \in Deploys |-> [f \in Frames |-> "none"]]
    /\ left = [d \in Deploys |-> [f \in Frames |-> {}]]
    /\ failed = [d \in Deploys |-> [f \in Frames |-> FALSE]]
    /\ at = [d \in Deploys |-> [f \in Frames |-> 0]]
    /\ passed = [d \in Deploys |-> [w \in Waiters |-> "in"]]
    /\ rpc = [d \in Deploys |-> "none"]
    /\ based = [d \in Deploys |-> {}]
    /\ tpc = "idle" /\ faults = 0

-----------------------------------------------------------------------------
(* Rows and failures *)

\* frameSplit: a member with a container that runs (or was stopped) is built.
Built(f) == {n \in Mem(f) : row[n] # None /\ row[n].state = "running"}
Fresh(f) == Mem(f) \ Built(f)

\* SetDeploymentState is an UPDATE: it writes whatever row is there, and none if there is none.
SetState(d, S, s) ==
    [n \in Nodes |-> IF n \in S /\ row[n] # None
                     THEN [row[n] EXCEPT !.state = s, !.set = d] ELSE row[n]]

\* deployCancelled asks about the run registered NOW, not about the goroutine's own.
Quiet == run # 0 /\ run \in cancelled

\* pxcProg.fail for every node of S.
FailRows(d, S) == IF Quiet THEN row ELSE SetState(d, S, "error")

\* A step fails because its context is cancelled, or by itself.
Fault(d) ==
    \/ d \in cancelled /\ UNCHANGED faults
    \/ d \notin cancelled /\ faults < MaxFaults /\ faults' = faults + 1

\* The next member of a sequential phase.
NextOf(d, f) ==
    LET i == CHOOSE i \in DOMAIN Members[f] :
                 /\ Members[f][i] \in left[d][f]
                 /\ \A j \in DOMAIN Members[f] : Members[f][j] \in left[d][f] => i <= j
    IN  Members[f][i]

Arrive(b, S) == [pending EXCEPT ![b] = @ \ S]

\* Seeded fault: the drain is forgotten.
ReturnUndrained(d, f) ==
    /\ pc' = [pc EXCEPT ![d][f] = "done"]
    /\ left' = [left EXCEPT ![d][f] = {}]
    /\ failed' = [failed EXCEPT ![d][f] = FALSE]
    /\ UNCHANGED <<pending, rpc, at>>

\* The goroutine's return: the deferred drain, if it was registered, and the scope's Done.
Return(d, f) ==
    /\ pc' = [pc EXCEPT ![d][f] = "done"]
    /\ pending' = IF at[d][f] = 0 THEN pending ELSE Arrive(at[d][f], Mem(f))
    /\ left' = [left EXCEPT ![d][f] = {}]
    /\ failed' = [failed EXCEPT ![d][f] = FALSE]
    /\ UNCHANGED <<rpc, at>>

Goto(d, f, l, S) ==
    /\ pc' = [pc EXCEPT ![d][f] = l]
    /\ left' = [left EXCEPT ![d][f] = S]
    /\ failed' = [failed EXCEPT ![d][f] = FALSE]
    /\ UNCHANGED rpc

Did(d, f, n) ==
    /\ left' = [left EXCEPT ![d][f] = @ \ {n}]
    /\ UNCHANGED <<pc, failed, rpc>>

-----------------------------------------------------------------------------
(* handleDeployStack: seed the barrier, then provision or join every frame with new members *)

BarrierIDs(d) == UNION {Fresh(f) : f \in {g \in Drawn[d] : Built(g) = {}}}

DeployStack ==
    LET d == gen + 1
        new == UNION {Fresh(f) : f \in Drawn[d]}
    IN  /\ gen < MaxDeploys /\ run = 0
        /\ gen' = d /\ run' = d
        /\ pending' = [pending EXCEPT ![d] = BarrierIDs(d)]
        /\ parts' = [parts EXCEPT ![d] = BarrierIDs(d)]
        /\ row' = [n \in Nodes |-> IF n \in new THEN [state |-> "pending", by |-> d, set |-> d]
                                   ELSE row[n]]
        /\ pc' = [pc EXCEPT ![d] = [f \in Frames |-> IF f \in Drawn[d] /\ Fresh(f) # {}
                                                    THEN "start" ELSE "done"]]
        /\ left' = [left EXCEPT ![d] = [f \in Frames |-> IF f \in Drawn[d] THEN Fresh(f) ELSE {}]]
        /\ rpc' = [rpc EXCEPT ![d] = "barrier"]
        /\ UNCHANGED <<cancelled, dropped, tpc, failed, at, passed, based, faults>>

\* A frame that was not provisioned whole joins its new members to the running cluster.
Joins(d, f) == left[d][f] # Mem(f)

-----------------------------------------------------------------------------
(* The goroutine of a frame *)

\* Rows to provisioning; a PXC frame registers its drain before anything can fail.
Start(d, f) ==
    /\ pc[d][f] = "start"
    /\ row' = SetState(d, left[d][f], "provisioning")
    /\ at' = [at EXCEPT ![d][f] = IF Kind[f] = "pxc" /\ ~Joins(d, f) THEN gen ELSE 0]
    /\ Goto(d, f, "intranet", left[d][f])
    /\ UNCHANGED <<gen, runvars, pending, parts, passed, based, faults>>

IntranetReady(d, f) ==
    /\ pc[d][f] = "intranet" /\ d \notin cancelled
    /\ Goto(d, f, IF Joins(d, f) THEN "join" ELSE "prepare", left[d][f])
    /\ UNCHANGED <<tables, runvars, barrier, faults>>

\* Seeded fault: the time-out of waitIntranet is only logged.
IntranetFailsQuietly(d, f) ==
    /\ pc[d][f] = "intranet" /\ Fault(d)
    /\ Return(d, f)
    /\ UNCHANGED <<tables, runvars, parts, passed, based>>

\* waitIntranet gives up: every member is failed.  An async frame has no drain yet.
IntranetFails(d, f) ==
    /\ pc[d][f] = "intranet" /\ Fault(d)
    /\ row' = FailRows(d, left[d][f])
    /\ Return(d, f)
    /\ UNCHANGED <<gen, runvars, parts, passed, based>>

\* Phase 1, every member in its own goroutine: a container, recorded on the row, and packages.
MemberPrepared(d, f, n) ==
    /\ pc[d][f] = "prepare" /\ n \in left[d][f] /\ d \notin cancelled
    /\ row' = [row EXCEPT ![n] = [state |-> "provisioning", by |-> d, set |-> d]]
    /\ Did(d, f, n)
    /\ UNCHANGED <<gen, runvars, barrier, faults>>

\* Phase 2 of an async frame: users and GTID reset, then arrive.
MemberBaselined(d, f, n) ==
    /\ pc[d][f] = "baseline" /\ n \in left[d][f] /\ d \notin cancelled
    /\ based' = [based EXCEPT ![d] = @ \cup {n}]
    /\ pending' = Arrive(at[d][f], {n})
    /\ Did(d, f, n)
    /\ UNCHANGED <<tables, runvars, parts, at, passed, faults>>

\* A member that fails in a parallel phase fails its own row only.
MemberFails(d, f, n) ==
    /\ pc[d][f] \in {"prepare", "baseline"} /\ n \in left[d][f] /\ Fault(d)
    /\ row' = FailRows(d, {n})
    /\ left' = [left EXCEPT ![d][f] = @ \ {n}]
    /\ failed' = [failed EXCEPT ![d][f] = TRUE]
    /\ UNCHANGED <<gen, runvars, barrier, pc, rpc>>

\* wg.Wait, then: a failure returns, "each failed node already recorded its error".
PhaseFailed(d, f) ==
    /\ pc[d][f] \in {"prepare", "baseline"} /\ left[d][f] = {} /\ failed[d][f]
    /\ Return(d, f)
    /\ UNCHANGED <<tables, runvars, parts, passed, based, faults>>

\* Without one an async frame takes the stack's barrier and registers its drain.
PhaseDone(d, f) ==
    /\ pc[d][f] \in {"prepare", "baseline"} /\ left[d][f] = {} /\ ~failed[d][f]
    /\ IF pc[d][f] = "baseline" THEN Goto(d, f, "wait", {}) /\ UNCHANGED at
       ELSE IF Kind[f] = "pxc" THEN Goto(d, f, "form", Mem(f)) /\ UNCHANGED at
       ELSE Goto(d, f, "baseline", Mem(f)) /\ at' = [at EXCEPT ![d][f] = gen]
    /\ UNCHANGED <<tables, runvars, pending, parts, passed, based, faults>>

\* Phase 2 of a PXC frame, one member after the other: bootstrap, joins by SST, garbd.
FormNext(d, f) ==
    /\ pc[d][f] = "form" /\ left[d][f] # {} /\ d \notin cancelled
    /\ based' = [based EXCEPT ![d] = @ \cup {NextOf(d, f)}]
    /\ Did(d, f, NextOf(d, f))
    /\ UNCHANGED <<tables, runvars, pending, parts, at, passed, faults>>

\* "Cluster is formed and at its reset baseline": all its members arrive.
Formed(d, f) ==
    /\ pc[d][f] = "form" /\ left[d][f] = {}
    /\ pending' = Arrive(at[d][f], Mem(f))
    /\ Goto(d, f, "finish", Mem(f))
    /\ UNCHANGED <<tables, runvars, parts, at, passed, based, faults>>

\* Seeded fault: a frame only waits for its own members.
BarrierOpensAlone(d, f) ==
    /\ pc[d][f] = "wait" /\ pending[at[d][f]] \cap Mem(f) = {}
    /\ passed' = [passed EXCEPT ![d][f] = "out"]
    /\ Goto(d, f, "attach", Mem(f) \ {Members[f][1]})
    /\ UNCHANGED <<tables, runvars, pending, parts, at, based, faults>>

\* barrier.wait: open, or deployTimeout over.  It does not look at the context.
BarrierOpens(d, f) ==
    /\ pc[d][f] = "wait" /\ pending[at[d][f]] = {}
    /\ passed' = [passed EXCEPT ![d][f] = "out"]
    /\ Goto(d, f, "attach", Mem(f) \ {Members[f][1]})
    /\ UNCHANGED <<tables, runvars, pending, parts, at, based, faults>>

BarrierTimesOut(d, f) ==
    /\ pc[d][f] = "wait" /\ pending[at[d][f]] # {}
    /\ passed' = [passed EXCEPT ![d][f] = "late"]
    /\ Goto(d, f, "attach", Mem(f) \ {Members[f][1]})
    /\ UNCHANGED <<tables, runvars, pending, parts, at, based, faults>>

\* Phase 3: the secondaries attach to the primary, one after the other.
AttachNext(d, f) ==
    /\ pc[d][f] = "attach" /\ left[d][f] # {} /\ d \notin cancelled
    /\ Did(d, f, NextOf(d, f))
    /\ UNCHANGED <<tables, runvars, barrier, faults>>

Attached(d, f) ==
    /\ pc[d][f] = "attach" /\ left[d][f] = {}
    /\ Goto(d, f, "finish", Mem(f))
    /\ UNCHANGED <<tables, runvars, barrier, faults>>

\* Last phase: certificate, monitoring (best effort), running.  Nothing in it needs a live context.
FinishNext(d, f) ==
    /\ pc[d][f] = "finish" /\ left[d][f] # {}
    /\ row' = SetState(d, {NextOf(d, f)}, "running")
    /\ Did(d, f, NextOf(d, f))
    /\ UNCHANGED <<gen, runvars, barrier, faults>>

\* A failure in a sequential phase fails that member and ends the goroutine.
SequenceFails(d, f) ==
    /\ pc[d][f] \in {"form", "attach", "finish"} /\ left[d][f] # {} /\ Fault(d)
    /\ row' = FailRows(d, {NextOf(d, f)})
    /\ Return(d, f)
    /\ UNCHANGED <<gen, runvars, parts, passed, based>>

\* joinMySQLFrame, joinPXCFrame: one member at a time, and a failure only skips that member.
JoinNext(d, f) ==
    /\ pc[d][f] = "join" /\ left[d][f] # {}
    /\ \/ d \notin cancelled /\ row' = SetState(d, {NextOf(d, f)}, "running") /\ UNCHANGED faults
       \/ Fault(d) /\ row' = FailRows(d, {NextOf(d, f)})
    /\ Did(d, f, NextOf(d, f))
    /\ UNCHANGED <<gen, runvars, barrier>>

FrameDone(d, f) ==
    /\ pc[d][f] \in {"finish", "join"} /\ left[d][f] = {}
    /\ Return(d, f)
    /\ UNCHANGED <<tables, runvars, parts, passed, based, faults>>

-----------------------------------------------------------------------------
(* reconcileReplication: the barrier, then every linked node, then the channels *)

ReplBarrierOpens(d) ==
    /\ rpc[d] = "barrier" /\ pending[d] = {}
    /\ rpc' = [rpc EXCEPT ![d] = "nodes"]
    /\ passed' = [passed EXCEPT ![d][Repl] = "out"]
    /\ UNCHANGED <<tables, runvars, pending, parts, at, based, pc, left, failed, faults>>

ReplBarrierTimesOut(d) ==
    /\ rpc[d] = "barrier" /\ pending[d] # {}
    /\ rpc' = [rpc EXCEPT ![d] = "nodes"]
    /\ passed' = [passed EXCEPT ![d][Repl] = "late"]
    /\ UNCHANGED <<tables, runvars, pending, parts, at, based, pc, left, failed, faults>>

\* waitNodeRunning for every linked node: running, error, or the time-out; then the apply loop
\* (see ReplChannels).
ReplNodes(d) ==
    /\ rpc[d] = "nodes"
    /\ rpc' = [rpc EXCEPT ![d] = "done"]
    /\ UNCHANGED <<tables, runvars, barrier, pc, left, failed, faults>>

-----------------------------------------------------------------------------
(* deployrun.go *)

Over(d) == rpc[d] = "done" /\ \A f \in Frames : pc[d][f] = "done"

\* Seeded fault: the run is released as soon as everything is spawned.
FinishDeployAtOnce ==
    /\ run # 0 /\ run \notin cancelled
    /\ run' = 0
    /\ UNCHANGED <<tables, cancelled, dropped, tpc, barrier, flow, faults>>

FinishDeploy ==
    /\ run # 0 /\ run \notin cancelled /\ Over(run)
    /\ run' = 0
    /\ UNCHANGED <<tables, cancelled, dropped, tpc, barrier, flow, faults>>

\* teardownStack: cancelDeploy first.
Destroy ==
    /\ run # 0 /\ tpc = "idle"
    /\ cancelled' = cancelled \cup {run}
    /\ tpc' = "wait"
    /\ UNCHANGED <<tables, run, dropped, barrier, flow, faults>>

\* A frame of deploy b returned before it had registered its drain: its members never arrive.
Stranded(b) ==
    \E f \in Frames : pc[b][f] = "done" /\ at[b][f] = 0 /\ pending[b] \cap Mem(f) # {}

\* Only goroutines in a wait that neither watches its context nor is about to end are left: at
\* a barrier somebody left without arriving, or in waitNodeRunning.  Everything else ends
\* within cancelDeployWait of the cancellation.
Deaf(d) ==
    /\ \/ rpc[d] \in {"nodes", "done"}
       \/ rpc[d] = "barrier" /\ Stranded(d)
    /\ \A f \in Frames : \/ pc[d][f] = "done"
                         \/ pc[d][f] = "wait" /\ Stranded(at[d][f])

\* cancelDeploy: every goroutine done, or 45 seconds; the run is dropped and the rows removed.
Torn(d) ==
    /\ run' = 0 /\ tpc' = "idle"
    /\ row' = [n \in Nodes |-> None]
    /\ dropped' = IF Over(d) THEN dropped ELSE dropped \cup {d}
    /\ UNCHANGED <<gen, cancelled, barrier, flow, faults>>

Teardown ==
    /\ tpc = "wait"
    /\ Over(run) \/ Deaf(run)
    /\ Torn(run)

\* A destroy with no deploy in flight.
TeardownIdle ==
    /\ run = 0 /\ tpc = "idle"
    /\ \E n \in Nodes : row[n] # None
    /\ row' = [n \in Nodes |-> None]
    /\ UNCHANGED <<gen, runvars, barrier, flow, faults>>

-----------------------------------------------------------------------------
FrameStep(d, f) ==
    \/ Start(d, f) \/ IntranetReady(d, f) \/ IntranetFails(d, f)
    \/ \E n \in Nodes : \/ MemberPrepared(d, f, n) \/ MemberBaselined(d, f, n)
                        \/ MemberFails(d, f, n)
    \/ PhaseFailed(d, f) \/ PhaseDone(d, f)
    \/ FormNext(d, f) \/ Formed(d, f) \/ BarrierOpens(d, f)
    \/ AttachNext(d, f) \/ Attached(d, f) \/ FinishNext(d, f) \/ SequenceFails(d, f)
    \/ JoinNext(d, f) \/ FrameDone(d, f)

ReplStep(d) == ReplBarrierOpens(d) \/ ReplNodes(d)

TimeOut(d) == ReplBarrierTimesOut(d) \/ \E f \in Frames : BarrierTimesOut(d, f)

Next ==
    \/ DeployStack
    \/ \E d \in Deploys : ReplStep(d) \/ TimeOut(d) \/ \E f \in Frames : FrameStep(d, f)
    \/ FinishDeploy \/ Destroy \/ Teardown \/ TeardownIdle

Spec == Init /\ [][Next]_vars

\* Goroutines run, finishDeploy and cancelDeploy get their turn.  barrier.wait's own time-out
\* is only counted on where a frame returned before it had registered its drain.
Fairness ==
    /\ \A d \in Deploys :
           /\ WF_vars(ReplStep(d))
           /\ WF_vars(ReplBarrierTimesOut(d) /\ Stranded(d))
           /\ \A f \in Frames :
                  /\ WF_vars(FrameStep(d, f))
                  /\ WF_vars(BarrierTimesOut(d, f) /\ Stranded(at[d][f]))
    /\ WF_vars(FinishDeploy) /\ WF_vars(Teardown)

FairSpec == Spec /\ Fairness

-----------------------------------------------------------------------------
(* Properties *)

\* The deploy barrier is the rendezvous it is meant to be: no frame attaches its replicas and
\* no cross-cluster channel is configured while a participant of the same deploy is still on
\* its way to the reset baseline, unless barrier.wait timed out (replication.go:44-52).
Party ==
    [d \in Deploys |-> [n \in Nodes |->
        IF n \notin parts[d] THEN "absent"
        ELSE IF n \in based[d] THEN "ready"
        ELSE IF pc[d][FrameOf(n)] = "done" THEN "gone" ELSE "working"]]
RV == INSTANCE Rendezvous WITH party <- Party, passed <- passed
ImplementsRendezvous == RV!Spec

\* The last state of a row was set by the deploy that inserted it, unless cancelDeploy gave up
\* waiting for the run that set it (deployrun.go:10-17, 96-117).
VerdictIsOwn ==
    \A n \in Nodes : row[n] # None => row[n].set = row[n].by \/ row[n].set \in dropped

InFlight(n) == row[n] # None /\ row[n].state \in {"pending", "provisioning"}

\* A row that stays in flight with no goroutine left to settle it stands beside a member of
\* the same frame that failed, or a teardown is about to remove it.
StuckOnlyBesideAFailure ==
    \A f \in Frames : \A n \in Mem(f) :
        InFlight(n) =>
            \/ \E d \in Deploys : pc[d][f] \notin {"none", "done"}
            \/ \E m \in Mem(f) : row[m] # None /\ row[m].state = "error"
            \/ Quiet
            \/ dropped # {}

\* Every deploy's run is released: frames never wait for each other for ever, whoever fails.
RunReleased == \A d \in Deploys : run = d ~> run # d

-----------------------------------------------------------------------------
(* The inductive invariant behind the rendezvous and the two invariants above *)

Live(d, f)  == pc[d][f] \notin {"none", "done"}
ErrorIn(S)  == \E m \in S : row[m] # None /\ row[m].state = "error"

\* One run at a time: a deploy that is not in flight is over, or was dropped while its goroutines
\* were past everything that needs a live context.
RunInv ==
    /\ run \in {0, gen} /\ dropped \subseteq cancelled /\ cancelled \subseteq 1..gen
    /\ tpc = "wait" => run # 0 /\ run \in cancelled
    /\ \A d \in Deploys :
          /\ d > gen => rpc[d] = "none" /\ parts[d] = {} /\ based[d] = {}
                        /\ \A f \in Frames : pc[d][f] = "none" /\ left[d][f] = {} /\ at[d][f] = 0
          /\ d <= gen /\ d # run /\ d \notin dropped => Over(d)
          /\ d \in dropped => d # run
                              /\ \A f \in Frames : pc[d][f] \in {"wait", "attach", "finish", "done"}

\* What a goroutine knows of its frame in each phase: it works on members of its own, with the
\* barrier of its own deploy.
PhaseOK(d, f) ==
    /\ left[d][f] \subseteq Mem(f)
    /\ at[d][f] \in {0, d}
    /\ pc[d][f] \in {"form", "baseline", "wait"} => at[d][f] = d
    /\ pc[d][f] \in {"baseline", "wait", "attach"} => Kind[f] = "async"
    /\ Kind[f] = "pxc" /\ pc[d][f] = "intranet" /\ ~Joins(d, f) => at[d][f] = d
    /\ Kind[f] = "pxc" /\ pc[d][f] = "prepare" => at[d][f] = d
    /\ pc[d][f] = "form" => Mem(f) \ left[d][f] \subseteq based[d]
PhaseInv == \A d \in Deploys, f \in Frames : PhaseOK(d, f)

\* Nobody is past the barrier before it has waited at it.
PassInv ==
    \A d \in Deploys :
        /\ rpc[d] \in {"none", "barrier"} => passed[d][Repl] = "in"
        /\ \A f \in Frames \cap Waiters :
              pc[d][f] \notin {"attach", "finish", "done"} => passed[d][f] = "in"

\* A participant that has arrived is at its baseline, or its frame has returned.
ArriveInv ==
    \A d \in Deploys, f \in Frames : \A n \in Mem(f) \cap parts[d] :
        n \in pending[d] \cup based[d] \/ pc[d][f] = "done"

\* While a frame is being built or joined, the rows of its members are there, and those its
\* goroutine writes are its deploy's.
Writes(d, f) == IF pc[d][f] \in {"start", "intranet", "join"} THEN left[d][f] ELSE Mem(f)
RowInv ==
    run # 0 => \A f \in Frames : Live(run, f) =>
        (\A n \in Mem(f) : row[n] # None) /\ \A n \in Writes(run, f) : row[n].by = run

\* Until a deploy is cancelled, and unless one before it was dropped, a row in flight is one its
\* goroutine has still to come to, or a sibling has failed.
SettleOK(f) ==
    /\ pc[run][f] \in {"start", "intranet", "join", "finish"} =>
          \A n \in Mem(f) : InFlight(n) => n \in left[run][f] \/ ErrorIn(Mem(f) \ left[run][f])
    /\ pc[run][f] \in {"prepare", "baseline"} /\ failed[run][f] => ErrorIn(Mem(f) \ left[run][f])
SettleInv ==
    dropped = {} /\ run # 0 /\ run \notin cancelled => \A f \in Frames : SettleOK(f)

IndInv ==
    /\ TypeOK /\ RunInv /\ PhaseInv /\ PassInv /\ ArriveInv /\ RowInv /\ SettleInv
    /\ VerdictIsOwn /\ StuckOnlyBesideAFailure
=============================================================================
