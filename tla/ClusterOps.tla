------------------------------ MODULE ClusterOps ------------------------------
(***************************************************************************)
(* The operations on ONE replication group, which exclude each other by a  *)
(* lock and plan, some of them, before they hold it:                       *)
(*                                                                         *)
(*   app/switchover.go  switchLocks, handlePromote, switchPrimary          *)
(*   app/rebuild.go     planRebuild, handleRebuild, rebuildClone           *)
(*   app/rolling.go     handleRollingRestart, runRolling                   *)
(*                                                                         *)
(* The group is a MySQL asynchronous one whose members but the primary are *)
(* super_read_only.  How a switch itself works is AsyncSwitchover's matter *)
(* (here it is one step, with the states it can leave the group in), and   *)
(* what it writes into the stack's design is StackDesign's.                *)
(***************************************************************************)
EXTENDS Naturals, FiniteSets

CONSTANTS
    Members, First,  \* the group, and the member deployed as its primary
    Switches,        \* promote requests
    Rebuilds,        \* rebuild requests
    Rollings,        \* rolling restart requests
    Txns,            \* client transactions
    MaxBreaks,       \* how many members may fail by themselves
    None

Ops == Switches \cup Rebuilds \cup Rollings

ASSUME ClusterAssumption ==
    /\ First \in Members
    /\ None \notin Members \cup Ops
    /\ MaxBreaks \in Nat
    /\ Switches \cap Rebuilds = {} /\ Switches \cap Rollings = {} /\ Rebuilds \cap Rollings = {}

VARIABLES
    \* the servers
    prim,      \* the member that is nobody's replica, or None: a switch broke off between two
    frozen,    \* prim is super_read_only: a switch froze it and could not undo that
    data,      \* member -> the transactions it has
    out,       \* members out of service: down, restarting, being rebuilt, or not replicating
    open,      \* replicas whose super_read_only a rebuild has lifted
    acked,     \* transactions whose client was told they are committed
    breaks,    \* members that failed by themselves so far
    \* the requests
    lock,      \* switchLocks.m: the request that holds the group
    hpc,       \* request -> "idle", "loaded", "planned", "locked", "done"
    want,      \* request -> the member it is about
    handOver,  \* rolling restarts that hand the primary over
    from,      \* rebuild -> the member its plan copies from
    stage,     \* where the request that holds the lock is
    old,       \* the primary it found
    cand,      \* the member it is making primary
    queue,     \* rolling restart: replicas it has still to restart
    cur,       \* rolling restart: the member being restarted
    \* history
    misled,    \* a rebuild's donor was no longer the primary and took the write: it was open
    lapsed     \* members that failed by themselves, or that a hand-over left behind unseen

servers == <<prim, frozen, data, out, open, acked, breaks>>
request == <<lock, hpc, want, handOver, from>>
holder  == <<stage, old, cand, queue, cur>>
history == <<misled, lapsed>>
vars    == <<servers, request, holder, history>>

Stages == {"none", "probe", "move", "donor", "prepare", "copy", "attach",
           "health", "down", "up", "last", "lastUp"}

\* Type correctness of the servers and the requests.
TypeOK ==
    /\ prim \in Members \cup {None} /\ frozen \in BOOLEAN
    /\ data \in [Members -> SUBSET Txns] /\ breaks \in 0..MaxBreaks
    /\ out \in SUBSET Members /\ open \in SUBSET Members /\ acked \in SUBSET Txns
    /\ lock \in Ops \cup {None}
    /\ hpc \in [Ops -> {"idle", "loaded", "planned", "locked", "done"}]
    /\ want \in [Ops -> Members] /\ handOver \in SUBSET Rollings
    /\ from \in [Ops -> Members \cup {None}]
    /\ stage \in Stages /\ old \in Members /\ cand \in Members
    /\ queue \in SUBSET Members /\ cur \in Members
    /\ misled \in BOOLEAN /\ lapsed \in SUBSET Members

Init ==
    /\ prim = First /\ frozen = FALSE /\ breaks = 0 /\ data = [m \in Members |-> {}] /\ out = {} /\ open = {} /\ acked = {}
    /\ lock = None /\ hpc = [r \in Ops |-> "idle"]
    /\ want = [r \in Ops |-> First] /\ handOver = {}
    /\ from = [r \in Ops |-> None]
    /\ stage = "none" /\ old = First /\ cand = First /\ queue = {} /\ cur = First
    /\ misled = FALSE /\ lapsed = {}

-----------------------------------------------------------------------------
(* The servers *)

Write(t) ==
    /\ prim # None /\ ~frozen /\ prim \notin out /\ t \notin acked
    /\ data' = [data EXCEPT ![prim] = @ \cup {t}]
    /\ acked' = acked \cup {t}
    /\ UNCHANGED <<prim, frozen, out, open, breaks, request, holder, history>>

Replicate(m) ==
    /\ prim # None /\ prim \notin out /\ m # prim /\ m \notin out /\ data[m] # data[prim]
    /\ data' = [data EXCEPT ![m] = data[prim]]
    /\ UNCHANGED <<prim, frozen, out, open, acked, breaks, request, holder, history>>

\* A server dies, or its channel breaks, whatever operation is under way.
Break(m) ==
    /\ breaks < MaxBreaks /\ m \notin out
    /\ breaks' = breaks + 1
    /\ out' = out \cup {m} /\ lapsed' = lapsed \cup {m}
    /\ UNCHANGED <<prim, frozen, data, open, acked, request, holder, misled>>

Busy == CASE stage \in {"prepare", "copy", "attach"} -> {want[lock]}
          [] stage \in {"up", "lastUp"} -> {cur}
          [] OTHER -> {}

\* A member that is out of service comes back, or somebody mends it.
Recover(m) ==
    /\ m \in out \ Busy
    /\ out' = out \ {m} /\ lapsed' = lapsed \ {m}
    /\ UNCHANGED <<prim, frozen, data, open, acked, breaks, request, holder, misled>>

\* probeTopo: nobody's replica, and it takes writes or feeds a replica.
Primary ==
    IF prim # None /\ prim \notin out /\ (~frozen \/ Members \ (out \cup {prim}) # {})
    THEN prim ELSE None

Eligible(m) == m # prim /\ m \notin out

-----------------------------------------------------------------------------
(* The requests, up to the group's lock *)

\* loadOwnedStack: the group's members are read from the design.
Load(r, m) ==
    /\ hpc[r] = "idle"
    /\ want' = [want EXCEPT ![r] = m] /\ (r \in Rollings => m = First)
    /\ handOver' \in IF r \in Rollings THEN {handOver, handOver \cup {r}} ELSE {handOver}
    /\ hpc' = [hpc EXCEPT ![r] = IF r \in Rebuilds THEN "loaded" ELSE "planned"]
    /\ UNCHANGED <<servers, lock, from, holder, history>>

\* planRebuild, before the lock: the primary it finds now is the donor.
planRebuild(r) ==
    /\ hpc[r] = "loaded"
    /\ IF Primary = None \/ Primary = want[r]
       THEN hpc' = [hpc EXCEPT ![r] = "done"] /\ UNCHANGED from
       ELSE /\ from' = [from EXCEPT ![r] = Primary]
            /\ hpc' = [hpc EXCEPT ![r] = "planned"]
    /\ UNCHANGED <<servers, lock, want, handOver, holder, history>>

FirstStage(r) == CASE r \in Switches -> "probe" [] r \in Rebuilds -> "donor" [] r \in Rollings -> "health"

\* 409 when another operation holds the group.
TakeLock(r) ==
    /\ hpc[r] = "planned"
    /\ IF lock # None
       THEN hpc' = [hpc EXCEPT ![r] = "done"] /\ UNCHANGED <<lock, stage, cand>>
       ELSE /\ lock' = r /\ stage' = FirstStage(r)
            /\ cand' = want[r]
            /\ hpc' = [hpc EXCEPT ![r] = "locked"]
    /\ UNCHANGED <<servers, want, handOver, from, old, queue, cur, history>>

\* The deferred release, however the operation ended: its locals are gone.
Finish ==
    /\ lock' = None /\ stage' = "none"
    /\ hpc' = [hpc EXCEPT ![lock] = "done"]
    /\ want' = [want EXCEPT ![lock] = First]
    /\ handOver' = handOver \ {lock}
    /\ from' = [from EXCEPT ![lock] = None]
    /\ old' = First /\ cand' = First /\ queue' = {} /\ cur' = First

Go(s) == stage' = s /\ UNCHANGED request

-----------------------------------------------------------------------------
(* switchPrimary, with the lock held: a promote, or the last part of a rolling restart *)

SwitchProbe ==
    /\ stage = "probe"
    /\ IF Primary # None /\ Eligible(cand)
       THEN Go("move") /\ old' = Primary /\ UNCHANGED <<cand, queue, cur>>
       ELSE Finish
    /\ UNCHANGED <<servers, history>>

\* Refused by the preflight (somebody is out) or by an error before anything changed.
SwitchRefused ==
    /\ Finish
    /\ UNCHANGED <<prim, frozen, data, out, open, lapsed>>

\* An error before the promotion: whether the unfreeze ran, and which of the replicas that were
\* stopped are running again, is not looked at.
SwitchUndone ==
    /\ frozen' \in BOOLEAN
    /\ \E stopped \in SUBSET (Members \ {old}) : out' = stopped
    /\ Finish
    /\ UNCHANGED <<prim, data, open, lapsed>>

\* The promotion broke off after the candidate's channel was reset: two members that are nobody's
\* replica, both read-only, and everybody stopped.
SwitchBroken ==
    /\ prim' = None /\ frozen' = FALSE
    /\ data' = [data EXCEPT ![cand] = @ \cup data[old]]
    /\ out' = Members \ {old}
    /\ Finish
    /\ UNCHANGED <<open, lapsed>>

\* The candidate was promoted.  Some followers may not replicate from it: then there is an error,
\* or none if the looks at them failed, and a rolling restart goes on whenever there is none.
SwitchMoved ==
    /\ prim' = cand /\ frozen' = FALSE
    /\ data' = [data EXCEPT ![cand] = @ \cup data[old]]
    /\ open' = open \ {cand}
    /\ \E behind \in SUBSET (Members \ {cand}) :
         /\ out' = behind
         /\ \/ Finish /\ UNCHANGED lapsed
            \/ /\ lock \in Rollings /\ lapsed' = lapsed \cup behind
               /\ Go("last") /\ UNCHANGED <<old, cand, queue, cur>>

SwitchMove ==
    /\ stage = "move"
    /\ SwitchRefused \/ (out = {} /\ (SwitchUndone \/ SwitchBroken \/ SwitchMoved))
    /\ UNCHANGED <<acked, breaks, misled>>

-----------------------------------------------------------------------------
(* rebuildClone *)

\* Seeded fault: the donor is not written to, so nothing notices that it was demoted.
PrepareAnyDonor ==
    /\ stage = "donor"
    /\ Go("prepare") /\ UNCHANGED <<old, cand, queue, cur>>
    /\ UNCHANGED <<servers, history>>

\* The plugin and the account the recipient clones as: a super_read_only donor refuses them.
PrepareDonor ==
    /\ stage = "donor"
    /\ \/ /\ from[lock] \notin out
          /\ (from[lock] = prim /\ ~frozen) \/ from[lock] \in open
          /\ misled' = (misled \/ from[lock] # prim)
          /\ Go("prepare") /\ UNCHANGED <<old, cand, queue, cur>>
       \/ Finish /\ UNCHANGED misled
    /\ UNCHANGED <<servers, lapsed>>

\* Replication stopped, then a batch that begins by lifting super_read_only; a failure leaves what
\* was done until then.
PrepareRecipient ==
    LET n == want[lock] IN
    /\ stage = "prepare"
    /\ \/ /\ out' = out \cup {n} /\ open' = open \cup {n}
          /\ Go("copy") /\ UNCHANGED <<old, cand, queue, cur>>
       \/ out' \in {out, out \cup {n}} /\ open' \in {open, open \cup {n}} /\ Finish
    /\ UNCHANGED <<prim, frozen, data, acked, breaks, history>>

\* The recipient's data is dropped, copied, and the server comes back super_read_only; a clone
\* that failed or did not end in time leaves it open, with what it had, nothing, or the copy.
CloneInstance ==
    LET n == want[lock] IN
    /\ stage = "copy"
    /\ \/ /\ data' = [data EXCEPT ![n] = data[from[lock]]]
          /\ open' = open \ {n}
          /\ prim' = IF prim = n THEN None ELSE prim
          /\ Go("attach") /\ UNCHANGED <<old, cand, queue, cur>>
       \/ /\ \E d \in {data[n], {}, data[from[lock]]} : data' = [data EXCEPT ![n] = d]
          /\ Finish /\ UNCHANGED <<open, prim>>
    /\ UNCHANGED <<frozen, out, acked, breaks, history>>

\* With semi-sync super_read_only is lifted once more; then one batch re-attaches and ends by
\* putting it back, or fails on the way.  The threads are seen running, or not.
Attach ==
    LET n == want[lock] IN
    /\ stage = "attach"
    /\ out' \in {out, out \ {n}}
    /\ open' \in {open, open \cup {n}}
    /\ Finish
    /\ UNCHANGED <<prim, frozen, data, acked, breaks, history>>

-----------------------------------------------------------------------------
(* runRolling *)

\* Everybody must be healthy before anything is restarted; nobody has lapsed since.
RollHealth ==
    /\ stage = "health"
    /\ IF out = {} /\ Primary # None
       THEN /\ old' = Primary /\ queue' = Members \ {Primary}
            /\ lapsed' = {}
            /\ Go("down") /\ UNCHANGED <<cand, cur>>
       ELSE Finish /\ UNCHANGED lapsed
    /\ UNCHANGED <<servers, misled>>

\* A restarted server has the read-only settings that are persisted: ON on a replica.
RollDown ==
    /\ stage = "down"
    /\ \E m \in queue :
          /\ cur' = m /\ queue' = queue \ {m}
          /\ out' = out \cup {m} /\ open' = open \ {m}
    /\ Go("up") /\ UNCHANGED <<old, cand>>
    /\ UNCHANGED <<prim, frozen, data, acked, breaks, history>>

\* Seeded fault: the next member goes down without waiting for this one.
RollUpUnseen ==
    /\ stage = "up"
    /\ Go(IF queue # {} THEN "down" ELSE "last") /\ UNCHANGED <<old, cand, queue, cur>>
    /\ UNCHANGED <<servers, history>>

\* Back and healthy, or not within 15 minutes: then the rest is not restarted.
RollUp ==
    /\ stage = "up"
    /\ \/ /\ out' = out \ {cur} /\ lapsed' = lapsed \ {cur}
          /\ \/ queue # {} /\ Go("down") /\ UNCHANGED cand
             \/ queue = {} /\ lock \notin handOver /\ Go("last") /\ UNCHANGED cand
             \/ queue = {} /\ lock \in handOver /\ Go("probe") /\ cand' \in Members \ {old}
          /\ UNCHANGED <<old, queue, cur>>
       \/ Finish /\ UNCHANGED <<out, lapsed>>
    /\ UNCHANGED <<prim, frozen, data, open, acked, breaks, misled>>

\* The member that was primary when the restart began goes last.  If it still is, and was frozen,
\* it comes back writable: a freeze is not persisted.
RollLast ==
    /\ stage = "last"
    /\ cur' = old /\ out' = out \cup {old} /\ open' = open \ {old}
    /\ frozen' = (frozen /\ prim # old)
    /\ Go("lastUp") /\ UNCHANGED <<old, cand, queue>>
    /\ UNCHANGED <<prim, data, acked, breaks, history>>

RollLastUp ==
    /\ stage = "lastUp"
    /\ out' \in {out, out \ {cur}}
    /\ Finish
    /\ UNCHANGED <<prim, frozen, data, open, acked, breaks, history>>

-----------------------------------------------------------------------------
OpStep ==
    \/ SwitchProbe \/ SwitchMove
    \/ PrepareDonor \/ PrepareRecipient \/ CloneInstance \/ Attach
    \/ RollHealth \/ RollDown \/ RollUp \/ RollLast \/ RollLastUp

Next ==
    \/ OpStep
    \/ \E t \in Txns : Write(t)
    \/ \E m \in Members : Replicate(m) \/ Break(m) \/ Recover(m)
    \/ \E r \in Ops : TakeLock(r) \/ \E m \in Members : Load(r, m)
    \/ \E r \in Rebuilds : planRebuild(r)

Spec == Init /\ [][Next]_vars

-----------------------------------------------------------------------------
(* Properties *)

Copying == lock \in Rebuilds /\ stage \in {"prepare", "copy", "attach"}

\* A rebuild plans before it holds the group, so the member it is about may be the primary by the
\* time it does.  It never copies over it, and nothing a client was told is committed is lost,
\* with switches and rebuilds that fail at any point.  Excepted is what follows when a donor that is no
\* longer the primary takes the preparing write all the same, because a rebuild of it that failed
\* has left it without super_read_only (misled).
NothingWiped ==
    ~misled =>
        /\ ~(Copying /\ want[lock] = prim)
        /\ prim # None => acked \subseteq data[prim]
        /\ \E m \in Members : acked \subseteq data[m]

\* rolling.go: "replicas first, each one back and caught up before the next goes": while a rolling
\* restart has a member down, no other member is out of service but those that failed by themselves
\* since it began, or that its own hand-over left behind without an error because it could not look
\* at them (lapsed); and one that hands the primary over never takes the writer down.
RollingKeepsService ==
    lock \in Rollings /\ stage \in {"up", "lastUp"} =>
        out \ lapsed \subseteq {cur} /\ (lock \in handOver => cur # prim)

-----------------------------------------------------------------------------
(* The inductive invariant behind both properties *)

\* The holder of the lock is where its kind of operation can be.
StageInv ==
    /\ lock = None <=> stage = "none"
    /\ lock # None => hpc[lock] = "locked"
    /\ stage \in {"donor", "prepare", "copy", "attach"} <=> lock \in Rebuilds
    /\ stage \in {"health", "down", "up", "last", "lastUp"} => lock \in Rollings

\* A plan that was not refused copies from somebody else than its target.
PlanInv ==
    \A r \in Rebuilds :
        hpc[r] \in {"planned", "locked"} => from[r] \in Members /\ from[r] # want[r]

\* The primary a switch found stays the primary until the switch has moved it.
MoveInv == stage = "move" => old = prim /\ old # None /\ cand # old

\* Unless a rebuild was misled, the donor of a copy is the primary, and the primary, or if there is
\* none some member, has everything.
CopyInv ==
    ~misled =>
        /\ stage \in {"prepare", "copy", "attach"} => from[lock] = prim
        /\ prim # None => acked \subseteq data[prim]
        /\ \E m \in Members : acked \subseteq data[m]

\* What a rolling restart knows: between two restarts nobody is out but the lapsed, the primary is
\* not among those it has still to restart, and after a hand-over it is not the one to go last.
RollInv ==
    /\ stage \in {"down", "up"} => old = prim /\ prim \notin queue
    /\ lock \in Rollings /\ stage \in {"down", "probe", "move", "last"} => out \subseteq lapsed
    /\ lock \in Rollings /\ stage \in {"up", "lastUp"} => out \ lapsed \subseteq {cur}
    /\ stage = "up" => cur # prim
    /\ stage = "last" /\ lock \in handOver => old # prim
    /\ stage = "lastUp" /\ lock \in handOver => cur # prim

IndInv == TypeOK /\ StageInv /\ PlanInv /\ MoveInv /\ CopyInv /\ RollInv
=============================================================================
