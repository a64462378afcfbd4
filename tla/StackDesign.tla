----------------------------- MODULE StackDesign -----------------------------
(***************************************************************************)
(* The design of ONE stack, everyone who writes it, and the deployed nodes *)
(* it must agree with:                                                     *)
(*                                                                         *)
(*   app/designedit.go  lockStackEdits, editDesign, saveStackDesign        *)
(*   app/stacks.go      handleUpdateStack, deployInProgress,               *)
(*                      cleanupRemovedNodes                                *)
(*   app/switchover.go  recordNewPrimary                                   *)
(*   app/intranet.go    handleDeployStack, as far as it reads the design   *)
(*                                                                         *)
(* Every writer stores a WHOLE design it made from one it read.  A design  *)
(* is the set of its nodes: options, positions and roles are the same      *)
(* stored document, so what happens to a node happens to them.  How a      *)
(* deploy works is StackDeploy's matter: here it reads the design, removes *)
(* and creates rows of the deployments table, and its provisioners end.    *)
(***************************************************************************)
EXTENDS Naturals, FiniteSets

CONSTANTS
    Nodes,     \* the nodes a design can hold
    Drawn,     \* the design at the start
    Edits,     \* edits through the API, each adding or removing one node
    Puts,      \* PUTs of a whole design, by a browser that shows one it has read
    Promotes,  \* switches of a primary
    Deploys,   \* who deploys, again and again
    None

Writers == Edits \cup Puts

ASSUME DesignAssumption ==
    /\ Drawn \subseteq Nodes
    /\ None \notin Writers \cup Promotes \cup Deploys \cup {"inflight", "built", "error"}
    /\ Edits \cap (Puts \cup Promotes) = {}

VARIABLES
    design,      \* stacks.design_json
    row,         \* the deployments table: node -> None, "inflight", "built" or "error"
    editing,     \* stackEditLocks: the edit that holds the stack
    wpc,         \* writer -> where it is
    target,      \* edit -> the node it adds or removes
    base,        \* writer -> the stored design its request has loaded
    next,        \* writer -> the design it stores; a browser's, what it shows
    removing,    \* writer -> rows its cleanup goroutine has still to remove
    ppc,         \* promote -> where it is
    snap,        \* promote -> the design its request has loaded
    registered,  \* App.deploys: the deploy in flight
    dpc,         \* deploy -> where its handler is
    view,        \* deploy -> the design its request has loaded
    todo,        \* deploy -> rows to remove, then rows to create
    \* history
    edited,      \* nodes that were last added or removed by an edit
    ahead        \* node -> writers that were past their check when its row was made

doc    == <<design, edited>>
writer == <<editing, wpc, target, base, next, removing>>
switch == <<ppc, snap>>
deploy == <<registered, dpc, view, todo>>
vars   == <<doc, row, writer, switch, deploy, ahead>>

Init ==
    /\ design = Drawn /\ row = [n \in Nodes |-> None]
    /\ editing = None /\ wpc = [w \in Writers |-> "idle"]
    /\ target = [e \in Edits |-> None]
    /\ base = [w \in Writers |-> {}] /\ next = [w \in Writers |-> {}]
    /\ removing = [w \in Writers |-> {}]
    /\ ppc = [p \in Promotes |-> "idle"] /\ snap = [p \in Promotes |-> {}]
    /\ registered = None /\ dpc = [d \in Deploys |-> "idle"]
    /\ view = [d \in Deploys |-> {}] /\ todo = [d \in Deploys |-> {}]
    /\ edited = {} /\ ahead = [n \in Nodes |-> {}]

Toggle(S, n) == IF n \in S THEN S \ {n} ELSE S \cup {n}

Rows == {n \in Nodes : row[n] # None}

deployInProgress == \E n \in Nodes : row[n] = "inflight"

\* UpdateStack, by w: the design is replaced, whatever it is by now.
UpdateStack(w, S) ==
    /\ design' = S
    /\ LET changed == (design \ S) \cup (S \ design) IN
       edited' = IF w \in Edits THEN edited \cup changed ELSE edited \ changed

-----------------------------------------------------------------------------
(* The requests that save a design *)

\* Seeded fault: the design loadOwnedStack read is edited, whoever is editing it.
EditLoadUnlocked(e) ==
    /\ wpc[e] = "idle"
    /\ \E n \in Nodes :
          /\ target' = [target EXCEPT ![e] = n]
          /\ next' = [next EXCEPT ![e] = Toggle(design, n)]
    /\ base' = [base EXCEPT ![e] = design]
    /\ wpc' = [wpc EXCEPT ![e] = "loaded"]
    /\ UNCHANGED <<doc, row, editing, removing, switch, deploy, ahead>>

\* editDesign: the lock, the design read again under it, and the change made to that.
EditLoad(e) ==
    /\ wpc[e] = "idle" /\ editing = None
    /\ editing' = e
    /\ \E n \in Nodes :
          /\ target' = [target EXCEPT ![e] = n]
          /\ next' = [next EXCEPT ![e] = Toggle(design, n)]
    /\ base' = [base EXCEPT ![e] = design]
    /\ wpc' = [wpc EXCEPT ![e] = "loaded"]
    /\ UNCHANGED <<doc, row, removing, switch, deploy, ahead>>

\* The designer shows the stack as it read it.
Show(p) ==
    /\ wpc[p] = "idle"
    /\ next' = [next EXCEPT ![p] = design]
    /\ wpc' = [wpc EXCEPT ![p] = "shown"]
    /\ UNCHANGED <<doc, row, editing, target, base, removing, switch, deploy, ahead>>

\* handleUpdateStack: what is shown, with a node added or removed, or moved or given other
\* options; or a new name only, and the design it has just loaded.
PutLoad(p) ==
    /\ wpc[p] = "shown"
    /\ base' = [base EXCEPT ![p] = design]
    /\ \E S \in {Toggle(next[p], n) : n \in Nodes} \cup {next[p], design} :
          next' = [next EXCEPT ![p] = S]
    /\ wpc' = [wpc EXCEPT ![p] = "loaded"]
    /\ UNCHANGED <<doc, row, editing, target, removing, switch, deploy, ahead>>

\* The request returns: the deferred unlock runs, and its locals are gone.
Return(w) ==
    /\ wpc' = [wpc EXCEPT ![w] = "done"]
    /\ editing' = IF editing = w THEN None ELSE editing
    /\ target' = [e \in Edits |-> IF e = w THEN None ELSE target[e]]
    /\ base' = [base EXCEPT ![w] = {}] /\ next' = [next EXCEPT ![w] = {}]

\* Seeded fault: the node set is not frozen.
CheckNothing(w) ==
    /\ wpc[w] = "loaded"
    /\ wpc' = [wpc EXCEPT ![w] = "checked"]
    /\ UNCHANGED <<doc, row, editing, target, base, next, removing, switch, deploy, ahead>>

\* saveStackDesign: 409 when the node set changes while a row is in flight.
CheckFrozen(w) ==
    /\ wpc[w] = "loaded"
    /\ IF base[w] # next[w] /\ deployInProgress
       THEN Return(w)
       ELSE wpc' = [wpc EXCEPT ![w] = "checked"] /\ UNCHANGED <<editing, target, base, next>>
    /\ UNCHANGED <<doc, row, removing, switch, deploy, ahead>>

Store(w) ==
    /\ wpc[w] = "checked"
    /\ UpdateStack(w, next[w])
    /\ wpc' = [wpc EXCEPT ![w] = "stored"]
    /\ ahead' = [n \in Nodes |-> ahead[n] \ {w}]
    /\ UNCHANGED <<row, editing, target, base, next, removing, switch, deploy>>

\* Seeded fault: the rows are compared with the design as it was before the save.
CleanupOld(w) ==
    /\ wpc[w] = "stored"
    /\ removing' = [removing EXCEPT ![w] = Rows \ base[w]]
    /\ Return(w)
    /\ UNCHANGED <<doc, row, switch, deploy, ahead>>

\* cleanupRemovedNodes lists the rows off the saved design and leaves a goroutine behind; the
\* request returns.
cleanupRemovedNodes(w) ==
    /\ wpc[w] = "stored"
    /\ removing' = [removing EXCEPT ![w] = Rows \ next[w]]
    /\ Return(w)
    /\ UNCHANGED <<doc, row, switch, deploy, ahead>>

\* removeNodeResources ends by deleting the row of that node id, whoever wrote it since.
Remove(w) ==
    /\ \E n \in removing[w] :
          /\ row' = [row EXCEPT ![n] = None]
          /\ removing' = [removing EXCEPT ![w] = @ \ {n}]
    /\ UNCHANGED <<doc, editing, wpc, target, base, next, switch, deploy, ahead>>

-----------------------------------------------------------------------------
(* The switch of a primary: it holds the design it loaded for as long as the switch takes *)

PromoteLoad(p) ==
    /\ ppc[p] = "idle"
    /\ ppc' = [ppc EXCEPT ![p] = "loaded"]
    /\ snap' = [snap EXCEPT ![p] = design]
    /\ UNCHANGED <<doc, row, writer, deploy, ahead>>

\* recordNewPrimary stores that design with two roles changed, or the switch failed, or nobody
\* was marked primary.
recordNewPrimary(p) ==
    /\ ppc[p] = "loaded"
    /\ UpdateStack(p, snap[p]) \/ UNCHANGED doc
    /\ ppc' = [ppc EXCEPT ![p] = "done"]
    /\ snap' = [snap EXCEPT ![p] = {}]
    /\ UNCHANGED <<row, writer, deploy, ahead>>

-----------------------------------------------------------------------------
(* The deploy *)

DeployLoad(d) ==
    /\ dpc[d] = "idle"
    /\ view' = [view EXCEPT ![d] = design]
    /\ dpc' = [dpc EXCEPT ![d] = "loaded"]
    /\ UNCHANGED <<doc, row, writer, switch, registered, todo, ahead>>

\* Seeded fault: the rows are compared with the design as it is stored by now.
DeployBeginFresh(d) ==
    /\ dpc[d] = "loaded"
    /\ registered = None
    /\ registered' = d
    /\ todo' = [todo EXCEPT ![d] = Rows \ design]
    /\ dpc' = [dpc EXCEPT ![d] = "prune"]
    /\ UNCHANGED <<doc, row, writer, switch, view, ahead>>

\* beginDeploy, and the rows of nodes that are not in the loaded design listed for removal.
DeployBegin(d) ==
    /\ dpc[d] = "loaded"
    /\ IF registered # None
       THEN /\ dpc' = [dpc EXCEPT ![d] = "idle"] /\ view' = [view EXCEPT ![d] = {}]
            /\ UNCHANGED <<registered, todo>>
       ELSE /\ registered' = d
            /\ todo' = [todo EXCEPT ![d] = Rows \ view[d]]
            /\ dpc' = [dpc EXCEPT ![d] = "prune"]
            /\ UNCHANGED view
    /\ UNCHANGED <<doc, row, writer, switch, ahead>>

DeployPrune(d) ==
    /\ dpc[d] = "prune"
    /\ \/ \E n \in todo[d] :
             /\ row' = [row EXCEPT ![n] = None]
             /\ todo' = [todo EXCEPT ![d] = @ \ {n}]
             /\ UNCHANGED dpc
       \/ /\ todo[d] = {}
          /\ todo' = [todo EXCEPT ![d] = {n \in view[d] : row[n] # "built"}]
          /\ dpc' = [dpc EXCEPT ![d] = "create"]
          /\ UNCHANGED row
    /\ UNCHANGED <<doc, writer, switch, registered, view, ahead>>

\* A provisioner's synchronous half.
DeployRow(d) ==
    /\ dpc[d] = "create"
    /\ \/ \E n \in todo[d] :
             /\ row' = [row EXCEPT ![n] = "inflight"]
             /\ todo' = [todo EXCEPT ![d] = @ \ {n}]
             /\ ahead' = [ahead EXCEPT ![n] = {w \in Writers : wpc[w] = "checked"}]
             /\ dpc' = [dpc EXCEPT ![d] = IF todo[d] = {n} THEN "wait" ELSE @]
       \/ todo[d] = {} /\ dpc' = [dpc EXCEPT ![d] = "wait"] /\ UNCHANGED <<row, todo, ahead>>
    /\ UNCHANGED <<doc, writer, switch, registered, view>>

Provisioned(n) ==
    /\ row[n] = "inflight"
    /\ \E s \in {"built", "error"} : row' = [row EXCEPT ![n] = s]
    /\ ahead' = [ahead EXCEPT ![n] = {}]
    /\ UNCHANGED <<doc, writer, switch, deploy>>

\* The run is released once its provisioners have returned; the stack may be deployed again.
DeployEnd(d) ==
    /\ dpc[d] = "wait" /\ ~deployInProgress
    /\ registered' = None
    /\ dpc' = [dpc EXCEPT ![d] = "idle"]
    /\ view' = [view EXCEPT ![d] = {}]
    /\ UNCHANGED <<doc, row, writer, switch, todo, ahead>>

-----------------------------------------------------------------------------
Cleanup == \E w \in Writers : cleanupRemovedNodes(w) \/ Remove(w)

Next ==
    \/ Cleanup
    \/ \E e \in Edits : EditLoad(e)
    \/ \E p \in Puts : Show(p) \/ PutLoad(p)
    \/ \E w \in Writers : CheckFrozen(w) \/ Store(w)
    \/ \E p \in Promotes : PromoteLoad(p) \/ recordNewPrimary(p)
    \/ \E d \in Deploys : DeployLoad(d) \/ DeployBegin(d) \/ DeployPrune(d) \/ DeployRow(d) \/ DeployEnd(d)
    \/ \E n \in Nodes : Provisioned(n)

Spec == Init /\ [][Next]_vars

\* A request that has stored its design runs on, and so does the goroutine it leaves behind.
FairSpec == Spec /\ WF_vars(Cleanup)

-----------------------------------------------------------------------------
(* Properties *)

\* Every variable keeps its type.
TypeOK ==
    /\ design \in SUBSET Nodes /\ row \in [Nodes -> {None, "inflight", "built", "error"}]
    /\ editing \in Edits \cup {None}
    /\ wpc \in [Writers -> {"idle", "shown", "loaded", "checked", "stored", "done"}]
    /\ target \in [Edits -> Nodes \cup {None}]
    /\ base \in [Writers -> SUBSET Nodes] /\ next \in [Writers -> SUBSET Nodes]
    /\ removing \in [Writers -> SUBSET Nodes]
    /\ ppc \in [Promotes -> {"idle", "loaded", "done"}] /\ snap \in [Promotes -> SUBSET Nodes]
    /\ registered \in Deploys \cup {None}
    /\ dpc \in [Deploys -> {"idle", "loaded", "prune", "create", "wait"}]
    /\ view \in [Deploys -> SUBSET Nodes] /\ todo \in [Deploys -> SUBSET Nodes]
    /\ edited \in SUBSET Nodes /\ ahead \in [Nodes -> SUBSET Writers]

\* designedit.go, stackEditLocks: edits "do not each save over the other's change".  An edit that
\* is stored leaves every node but its own as another edit made it, even when PUTs and switches,
\* which do not take the lock, store designs of their own in between.
EditsSurvive ==
    [][\A e \in Edits : wpc[e] = "checked" /\ wpc'[e] = "stored" =>
          \A n \in Nodes \ {target[e]} :
             n \in edited => (n \in design' <=> n \in design)]_vars

\* designedit.go, saveStackDesign: the freeze "keeps the canvas consistent with what the in-flight
\* provisioners are building".  What it keeps: a save that takes a node off the canvas while the
\* node's row is in flight had passed its check before that row was made, or had loaded a design
\* the node was not in and saves over whoever drew it since.  The store of a switch is not checked.
FrozenOnceRowsExist ==
    [][\A w \in Writers : wpc[w] = "checked" /\ wpc'[w] = "stored" =>
          \A n \in design \ design' :
             row[n] = "inflight" => w \in ahead[n] \/ n \notin base[w]]_vars

\* intranet.go, handleDeployStack: however saves, switches and clean-ups raced with the deploys
\* before it, and with this one since it read the design, from its first new row until it ends the
\* only nodes deployed are those of the design it read.
DeployedAsRead ==
    \A d \in Deploys : dpc[d] \in {"create", "wait"} => Rows \subseteq view[d]

\* stacks.go, cleanupRemovedNodes: a save that takes a deployed node off the canvas ends with its
\* row deleted, whatever is saved and deployed meanwhile.
RemovedIsTornDown ==
    \A n \in Nodes :
        (row[n] # None /\ \E w \in Writers : wpc[w] = "stored" /\ n \notin next[w])
            ~> row[n] = None

-----------------------------------------------------------------------------
(* The inductive invariant behind EditsSurvive, FrozenOnceRowsExist and DeployedAsRead *)

\* An edit has the lock from its load to its return, and while it has not stored, the nodes that
\* are as an edit made them are in the stored design as they are in the one it has loaded.
EditInv ==
    \A e \in Edits :
        /\ wpc[e] \in {"loaded", "checked", "stored"} => editing = e
        /\ wpc[e] \in {"loaded", "checked"} =>
              /\ target[e] \in Nodes /\ next[e] = Toggle(base[e], target[e])
              /\ \A n \in edited : n \in design <=> n \in base[e]

\* Whoever is past its check and is about to take off a node in flight was so before the row.
CheckInv ==
    \A w \in Writers : wpc[w] = "checked" =>
        \A n \in base[w] \ next[w] : row[n] = "inflight" => w \in ahead[n]

\* One deploy is at work, and it has still to remove every row that is not in what it read.
PruneInv ==
    \A d \in Deploys :
        /\ dpc[d] \in {"prune", "create", "wait"} => registered = d
        /\ dpc[d] = "prune" => Rows \subseteq view[d] \cup todo[d]
        /\ dpc[d] = "create" => todo[d] \subseteq view[d]

IndInv == TypeOK /\ EditInv /\ CheckInv /\ PruneInv /\ DeployedAsRead
=============================================================================
