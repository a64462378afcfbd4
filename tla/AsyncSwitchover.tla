--------------------------- MODULE AsyncSwitchover ---------------------------
(***************************************************************************)
(* Making a replica the primary of a MySQL asynchronous replication group, *)
(* with and without GTIDs.                                                 *)
(*                                                                         *)
(*   app/switchover.go  handlePromote, switchPrimary, probeTopo and        *)
(*                      switchAsync, one action per statement it sends     *)
(*   app/livehealth.go  the role a server is taken to have                 *)
(*                                                                         *)
(* The servers go on meanwhile: clients commit on whatever server is       *)
(* writable, replicas apply, replication may break.  A statement may fail, *)
(* with or without having run, and the deadline of the switch may pass:    *)
(* every later statement then fails unsent.                                *)
(***************************************************************************)
EXTENDS Naturals, Sequences

CONSTANTS
    Members,      \* the servers of the group
    First,        \* the one that is primary at first
    Txns,         \* the transactions clients commit, each once
    MaxSwitches,  \* how many times a member is promoted
    MaxFaults,    \* how many statements fail, deadlines pass, channels break, or processes die
    None          \* no source, no member

ASSUME GroupAssumption ==
    /\ First \in Members /\ None \notin Members
    /\ MaxSwitches \in Nat /\ MaxFaults \in Nat

VARIABLES
    gtid,      \* TRUE if the servers run with GTIDs; fixed
    binlog,    \* server -> the transactions it has committed, in order (log_replica_updates)
    ro,        \* server -> super_read_only
    source,    \* server -> the source of its default channel, or None
    pos,       \* server -> how much of its source's binlog it has applied (file/position)
    run,       \* server -> TRUE while both replication threads run
    pc,        \* switchAsync: where it is
    prim,      \* the primary it found
    cand,      \* the member being promoted
    todo,      \* members the current loop still has to visit
    stopped,   \* replicas it stopped
    endSet,    \* what the frozen primary had committed
    endPos,    \* and the length of its binlog
    cPos,      \* where the candidate's binlog ended (file/position)
    failed,    \* followers it recorded as failed
    seen,      \* followers it saw replicating
    result,    \* what the last switch reported
    expired,   \* TRUE once the deadline of the switch has passed
    switches,  \* switches so far
    faults     \* faults so far

servers == <<gtid, binlog, ro, source, pos, run>>
locals  == <<prim, cand, todo, stopped, endSet, endPos, cPos, failed, seen>>
bounds  == <<switches, faults>>
vars    == <<servers, pc, locals, result, expired, bounds>>

PC == {"idle", "preflight", "freeze", "position", "wait", "stop", "candpos", "promote",
       "demote", "follow", "verify", "restart", "unfreeze"}
Results == {"none", "refused", "error", "notCaughtUp", "partial", "ok", "died"}

Committed(m) == {binlog[m][i] : i \in 1..Len(binlog[m])}
acked == UNION {Committed(m) : m \in Members}

ServerType ==
    /\ gtid \in BOOLEAN
    /\ binlog \in [Members -> Seq(Txns)]
    /\ ro \in [Members -> BOOLEAN] /\ run \in [Members -> BOOLEAN]
    /\ source \in [Members -> Members \cup {None}]
    /\ pos \in [Members -> Nat]

SwitchType ==
    /\ pc \in PC /\ result \in Results /\ expired \in BOOLEAN
    /\ prim \in Members \cup {None} /\ cand \in Members \cup {None}
    /\ todo \in SUBSET Members /\ stopped \in SUBSET Members
    /\ failed \in SUBSET Members /\ seen \in SUBSET Members
    /\ endSet \in SUBSET Txns /\ endPos \in Nat /\ cPos \in Nat
    /\ switches \in 0..MaxSwitches /\ faults \in 0..MaxFaults

TypeOK == ServerType /\ SwitchType

Init ==
    /\ gtid \in BOOLEAN
    /\ binlog = [m \in Members |-> <<>>]
    /\ ro = [m \in Members |-> m # First]
    /\ source = [m \in Members |-> IF m = First THEN None ELSE First]
    /\ pos = [m \in Members |-> 0]
    /\ run = [m \in Members |-> m # First]
    /\ pc = "idle" /\ prim = None /\ cand = None
    /\ todo = {} /\ stopped = {} /\ endSet = {} /\ endPos = 0 /\ cPos = 0
    /\ failed = {} /\ seen = {} /\ result = "none" /\ expired = FALSE
    /\ switches = 0 /\ faults = 0

-----------------------------------------------------------------------------
(* The servers.                                                              *)

ClientCommit(m, t) ==
    /\ ~ro[m] /\ t \notin acked
    /\ binlog' = [binlog EXCEPT ![m] = Append(@, t)]
    /\ UNCHANGED <<gtid, ro, source, pos, run, pc, locals, result, expired, bounds>>

\* With GTIDs a replica applies what it has not committed yet, otherwise what comes next in
\* its source's binlog.
Replicate(m) ==
    /\ run[m] /\ source[m] # None
    /\ LET log == binlog[source[m]] IN
       IF gtid
       THEN \E i \in 1..Len(log) :
              /\ log[i] \notin Committed(m)
              /\ \A j \in 1..(i - 1) : log[j] \in Committed(m)
              /\ binlog' = [binlog EXCEPT ![m] = Append(@, log[i])]
              /\ UNCHANGED pos
       ELSE /\ pos[m] < Len(log)
            /\ binlog' = [binlog EXCEPT ![m] = Append(@, log[pos[m] + 1])]
            /\ pos' = [pos EXCEPT ![m] = @ + 1]
    /\ UNCHANGED <<gtid, ro, source, run, pc, locals, result, expired, bounds>>

ReplicationBreaks(m) ==
    /\ run[m] /\ faults < MaxFaults /\ faults' = faults + 1
    /\ run' = [run EXCEPT ![m] = FALSE]
    /\ UNCHANGED <<gtid, binlog, ro, source, pos, pc, locals, result, expired, switches>>

\* The role a probe reports: nobody's replica, and either writable or feeding a replica.
IsPrimary(m) ==
    /\ source[m] = None
    /\ ~ro[m] \/ \E r \in Members : source[r] = m /\ run[r]

-----------------------------------------------------------------------------
(* How a statement ends, and how the switch ends.                            *)

Sent == ~expired /\ UNCHANGED <<expired, faults>>

\* Before the deadline a failed statement may have run; after it, it was never sent.
Failing ==
    \/ expired /\ UNCHANGED <<expired, faults>>
    \/ ~expired /\ expired' \in BOOLEAN /\ faults < MaxFaults /\ faults' = faults + 1

DeadlinePasses ==
    /\ pc # "idle" /\ ~expired /\ expired' = TRUE
    /\ faults < MaxFaults /\ faults' = faults + 1
    /\ UNCHANGED <<servers, pc, locals, result, switches>>

\* switchAsync returns: switchPrimary records the outcome and handlePromote lets go of the lock.
End(why) ==
    /\ pc' = "idle" /\ result' = why
    /\ UNCHANGED locals

NextPhase(step, members) == pc' = step /\ todo' = members /\ UNCHANGED result

Replicas  == Members \ {prim}
Followers == Members \ {cand}

\* Visit one member of a loop, and go on to the next phase after the last.
Visited(m, step, members) ==
    IF todo = {m} THEN NextPhase(step, members) ELSE NextPhase(pc, todo \ {m})

-----------------------------------------------------------------------------
(* switchAsync                                                               *)

\* What the members that answered the probe say: exactly one is primary, and c is not it and
\* has no broken channel.
Switchable(c, p, up) ==
    /\ {m \in up : IsPrimary(m)} = {p}
    /\ c \in up \ {p} /\ (source[c] # None => run[c])

\* handlePromote takes the group's lock (one switch at a time), switchPrimary probes.
Promote(c) ==
    /\ pc = "idle" /\ switches < MaxSwitches
    /\ switches' = switches + 1
    /\ expired' = FALSE
    /\ \E up \in SUBSET Members :
         /\ IF up = Members THEN UNCHANGED faults ELSE (faults < MaxFaults /\ faults' = faults + 1)
         /\ \/ \E p \in Members :
                 /\ Switchable(c, p, up)
                 /\ prim' = p /\ cand' = c
                 /\ NextPhase("preflight", Members \ {p})
                 /\ stopped' = {} /\ failed' = {} /\ seen' = {}
                 /\ endSet' = {} /\ endPos' = 0 /\ cPos' = 0
            \/ (\A p \in Members : ~Switchable(c, p, up)) /\ End("refused")
    /\ UNCHANGED servers

\* Every replica must replicate from the primary before anything changes.
Preflight(m) ==
    /\ pc = "preflight" /\ m \in todo
    /\ \/ /\ Sent
          /\ IF source[m] = prim /\ run[m]
             THEN Visited(m, "freeze", {}) /\ UNCHANGED <<prim, cand, stopped, endSet, endPos, cPos, failed, seen>>
             ELSE End("refused")
       \/ Failing /\ End("refused")
    /\ UNCHANGED <<servers, switches>>

Freeze ==
    /\ pc = "freeze"
    /\ LET frozen == [ro EXCEPT ![prim] = TRUE] IN
       \/ Sent /\ ro' = frozen /\ NextPhase("position", {}) /\ UNCHANGED locals
       \/ Failing /\ (UNCHANGED ro \/ (~expired /\ ro' = frozen)) /\ End("error")
    /\ UNCHANGED <<gtid, binlog, source, pos, run, switches>>

\* Where the primary stopped.  On any failure from here to the promotion, unfreeze runs.
Position ==
    /\ pc = "position"
    /\ \/ /\ Sent
          /\ endSet' = Committed(prim) /\ endPos' = Len(binlog[prim])
          /\ NextPhase("wait", Replicas)
       \/ /\ Failing
          /\ pc' = "unfreeze" /\ result' = "error"
          /\ UNCHANGED <<endSet, endPos, todo>>
    /\ UNCHANGED <<servers, prim, cand, stopped, cPos, failed, seen, switches>>

\* What the wait waits for.  A wait for a position also ends if the applier is not running.
Reached(m) == IF gtid THEN endSet \subseteq Committed(m) ELSE pos[m] >= endPos

\* Seeded fault: a wait that timed out counts as caught up.
WaitAcceptsTimeout(m) ==
    /\ pc = "wait" /\ m \in todo
    /\ \/ Sent /\ Visited(m, "stop", Replicas)
       \/ Failing /\ pc' = "unfreeze" /\ result' = "error" /\ UNCHANGED todo
    /\ UNCHANGED <<servers, prim, cand, stopped, endSet, endPos, cPos, failed, seen, switches>>

Wait(m) ==
    /\ pc = "wait" /\ m \in todo
    /\ \/ Sent /\ Reached(m) /\ Visited(m, "stop", Replicas)
       \/ Sent /\ (~Reached(m) \/ (~gtid /\ ~run[m])) /\ pc' = "unfreeze" /\ result' = "notCaughtUp" /\ UNCHANGED todo
       \/ Failing /\ pc' = "unfreeze" /\ result' = "error" /\ UNCHANGED todo
    /\ UNCHANGED <<servers, prim, cand, stopped, endSet, endPos, cPos, failed, seen, switches>>

\* Seeded fault: only the candidate is stopped.
StopCandidateOnly(m) ==
    /\ pc = "stop" /\ m = cand
    /\ Sent /\ run' = [run EXCEPT ![m] = FALSE]
    /\ stopped' = {m}
    /\ NextPhase(IF gtid THEN "promote" ELSE "candpos", {})
    /\ UNCHANGED <<gtid, binlog, ro, source, pos, prim, cand, endSet, endPos, cPos, failed, seen, switches>>

\* Every replica is stopped, not only the candidate.
Stop(m) ==
    /\ pc = "stop" /\ m \in todo
    /\ LET off == [run EXCEPT ![m] = FALSE] IN
       \/ /\ Sent /\ run' = off
          /\ stopped' = stopped \cup {m}
          /\ Visited(m, IF gtid THEN "promote" ELSE "candpos", {})
       \/ /\ Failing /\ (UNCHANGED run \/ (~expired /\ run' = off))
          /\ pc' = "restart" /\ todo' = stopped /\ result' = "error"
          /\ UNCHANGED stopped
    /\ UNCHANGED <<gtid, binlog, ro, source, pos, prim, cand, endSet, endPos, cPos, failed, seen, switches>>

\* Without GTIDs: the coordinates the others will resume from.
CandidatePosition ==
    /\ pc = "candpos"
    /\ \/ Sent /\ cPos' = Len(binlog[cand]) /\ NextPhase("promote", {})
       \/ Failing /\ pc' = "restart" /\ todo' = stopped /\ result' = "error" /\ UNCHANGED cPos
    /\ UNCHANGED <<servers, prim, cand, stopped, endSet, endPos, failed, seen, switches>>

\* Seeded fault: a promotion that reports an error is rolled back like the steps before it.
MakeWritableOrUndo ==
    /\ pc = "promote"
    /\ \/ Sent /\ NextPhase("demote", {})
       \/ Failing /\ pc' = "restart" /\ todo' = stopped /\ result' = "error"
    /\ source' = [source EXCEPT ![cand] = None] /\ pos' = [pos EXCEPT ![cand] = 0]
    /\ ro' = [ro EXCEPT ![cand] = FALSE]
    /\ UNCHANGED <<gtid, binlog, run, prim, cand, stopped, endSet, endPos, cPos, failed, seen, switches>>

\* RESET REPLICA ALL and then writable, in one batch.  From here the switch goes forward.
MakeWritable ==
    /\ pc = "promote"
    /\ LET detached == /\ source' = [source EXCEPT ![cand] = None]
                       /\ pos' = [pos EXCEPT ![cand] = 0]
           writable == ro' = [ro EXCEPT ![cand] = FALSE]
       IN \/ Sent /\ detached /\ writable /\ NextPhase("demote", {}) /\ UNCHANGED locals
          \/ /\ Failing /\ End("error")
             /\ \/ UNCHANGED <<source, pos, ro>>
                \/ ~expired /\ detached /\ (writable \/ UNCHANGED ro)
    /\ UNCHANGED <<gtid, binlog, run, switches>>

\* CHANGE SOURCE, then START: the batch may fail after either.
Repoint(m) ==
    /\ source' = [source EXCEPT ![m] = cand]
    /\ pos' = [pos EXCEPT ![m] = cPos]

\* Seeded fault: START REPLICA is missing from the batch.
StartForgotten(m) == UNCHANGED run

Started(m) == run' = [run EXCEPT ![m] = TRUE]

\* The old primary follows the candidate, and is made read-only for good.
Demote ==
    /\ pc = "demote"
    /\ \/ /\ Sent /\ Repoint(prim) /\ Started(prim) /\ ro' = [ro EXCEPT ![prim] = TRUE]
          /\ UNCHANGED failed
       \/ /\ Failing /\ failed' = failed \cup {prim} /\ UNCHANGED ro
          /\ \/ UNCHANGED <<source, pos, run>>
             \/ ~expired /\ Repoint(prim) /\ (Started(prim) \/ UNCHANGED run)
    /\ LET others == Followers \ {prim} IN
       IF others = {} THEN NextPhase("verify", Followers) ELSE NextPhase("follow", others)
    /\ UNCHANGED <<gtid, binlog, prim, cand, stopped, endSet, endPos, cPos, seen, switches>>

\* Seeded fault: a follower that could not be re-pointed is not recorded as failed.
FollowIgnoresErrors(m) ==
    /\ pc = "follow" /\ m \in todo
    /\ \/ Sent /\ Repoint(m) /\ Started(m)
       \/ Failing /\ UNCHANGED <<source, pos, run>>
    /\ Visited(m, "verify", Followers)
    /\ UNCHANGED <<gtid, binlog, ro, prim, cand, stopped, endSet, endPos, cPos, failed, seen, switches>>

\* Each other replica stops again, is re-pointed and started.
Follow(m) ==
    /\ pc = "follow" /\ m \in todo
    /\ \/ Sent /\ Repoint(m) /\ Started(m) /\ UNCHANGED failed
       \/ /\ Failing /\ failed' = failed \cup {m}
          /\ \/ UNCHANGED <<source, pos, run>>
             \/ ~expired /\ Repoint(m) /\ (Started(m) \/ UNCHANGED run)
    /\ Visited(m, "verify", Followers)
    /\ UNCHANGED <<gtid, binlog, ro, prim, cand, stopped, endSet, endPos, cPos, seen, switches>>

\* Up to fifteen looks at each follower.  Only a look that worked can record a failure.
Verify(m) ==
    /\ pc = "verify" /\ m \in todo
    /\ \/ Sent /\ run[m] /\ seen' = seen \cup {m} /\ UNCHANGED failed
       \/ Sent /\ ~run[m] /\ failed' = failed \cup {m} /\ UNCHANGED seen
       \/ Failing /\ UNCHANGED <<failed, seen>>
    /\ IF todo = {m}
       THEN pc' = "idle" /\ result' = (IF failed' # {} THEN "partial" ELSE "ok") /\ todo' = {}
       ELSE NextPhase(pc, todo \ {m})
    /\ UNCHANGED <<servers, prim, cand, stopped, endSet, endPos, cPos, switches>>

\* Undo: replication is started again where it was stopped; errors are ignored.
StartAgain ==
    /\ pc = "restart"
    /\ \/ \E m \in todo :
            /\ todo' = todo \ {m} /\ UNCHANGED pc
            /\ \/ Sent /\ Started(m)
               \/ Failing /\ (UNCHANGED run \/ (~expired /\ Started(m)))
       \/ todo = {} /\ pc' = "unfreeze" /\ UNCHANGED <<run, todo, expired, faults>>
    /\ UNCHANGED <<gtid, binlog, ro, source, pos, prim, cand, stopped, endSet, endPos, cPos, failed, seen,
                   result, switches>>

Unfreeze ==
    /\ pc = "unfreeze"
    /\ LET writable == ro' = [ro EXCEPT ![prim] = FALSE] IN
       \/ Sent /\ writable
       \/ Failing /\ (UNCHANGED ro \/ (~expired /\ writable))
    /\ pc' = "idle" /\ todo' = {}
    /\ UNCHANGED <<gtid, binlog, source, pos, run, prim, cand, stopped, endSet, endPos, cPos, failed, seen,
                   result, switches>>

\* The DBCanvas process dies in the middle of a switch: nothing resumes it.
ServerDies ==
    /\ pc # "idle" /\ faults < MaxFaults /\ faults' = faults + 1
    /\ End("died")
    /\ UNCHANGED <<servers, expired, switches>>

-----------------------------------------------------------------------------
SwitchStep ==
    \/ \E m \in Members : Preflight(m) \/ Wait(m) \/ Stop(m) \/ Follow(m) \/ Verify(m)
    \/ Freeze \/ Position \/ CandidatePosition \/ MakeWritable \/ Demote \/ StartAgain \/ Unfreeze

Next ==
    \/ \E m \in Members, t \in Txns : ClientCommit(m, t)
    \/ \E m \in Members : Replicate(m) \/ ReplicationBreaks(m) \/ Promote(m)
    \/ SwitchStep \/ DeadlinePasses \/ ServerDies

Spec == Init /\ [][Next]_vars

(***************************************************************************)
(* Running replication threads apply what there is, and a switch goes on:  *)
(* each of its statements returns, at the latest when the deadline passes. *)
(* Nobody has to commit or to promote.                                     *)
(***************************************************************************)
Fairness == WF_vars(SwitchStep) /\ \A m \in Members : WF_vars(Replicate(m))

FairSpec == Spec /\ Fairness

-----------------------------------------------------------------------------
(* Properties                                                               *)

\* Whatever fails, two servers never take writes at once.
AtMostOneWriter == \A m, n \in Members : ~ro[m] /\ ~ro[n] => m = n

\* "In the order that cannot lose a transaction": the server that takes writes has every
\* transaction a client was ever told is committed.
NothingLost == \A m \in Members : ~ro[m] => acked \subseteq Committed(m)

\* No server applies a transaction twice.  Without GTIDs that is what stopping every replica
\* before the promotion is for.
NoDuplicate ==
    \A m \in Members : \A i, j \in 1..Len(binlog[m]) : binlog[m][i] = binlog[m][j] => i = j

\* A switch that reports success left every other member attached to the new primary and has seen
\* its threads run ("Every follower's threads must come up"), unless it could not look.
SuccessMovesEveryone ==
    pc = "idle" /\ result = "ok" =>
        /\ ~ro[cand] /\ \A m \in Followers : source[m] = cand
        /\ faults = 0 /\ ~expired => seen = Followers

\* Without faults, what was committed anywhere reaches every member, through any number of
\* switches.
EveryoneConverges ==
    []<>(faults > 0 \/ \A m \in Members : acked \subseteq Committed(m))

\* switchover.go, the error of step 3: "nothing was changed, writes are back on" the primary.
WritesAreBack ==
    pc = "idle" /\ result = "notCaughtUp" => ~ro[prim]

-----------------------------------------------------------------------------
(***************************************************************************)
(* Why AtMostOneWriter holds: who is read-only in each phase of a switch.  *)
(* A probe may have missed a writer; the preflight does not.               *)
(***************************************************************************)
Frozen  == {"position", "wait", "stop", "candpos", "promote", "restart", "unfreeze"}
Before  == {"preflight", "freeze"}
Forward == {"demote", "follow", "verify"}

\* A server that takes writes is nobody's replica.
WriterDetached == \A m \in Members : ~ro[m] => source[m] = None

RolesInv ==
    /\ pc # "idle" => prim \in Members /\ cand \in Members /\ prim # cand
    /\ pc \in Before \cup Frozen => source[prim] = None
    /\ pc = "follow" => cand \notin todo

ReadOnlyInv ==
    /\ pc = "preflight" => \A m \in Members : m # prim /\ m \notin todo => ro[m]
    /\ pc = "freeze" => \A m \in Members : m # prim => ro[m]
    /\ pc \in Frozen => \A m \in Members : ro[m]
    /\ pc \in Forward => \A m \in Members : m # cand => ro[m]

IndInv == TypeOK /\ WriterDetached /\ RolesInv /\ ReadOnlyInv /\ AtMostOneWriter

(***************************************************************************)
(* Why NothingLost and NoDuplicate hold: all binlogs are beginnings of one *)
(* log.  A replica's is no longer than its source's, the writer's is the   *)
(* longest, and without GTIDs a replica's position is the length of its    *)
(* own binlog.  A switch moves the writer only when all are equally long   *)
(* and nobody applies any more.                                            *)
(***************************************************************************)
Agree ==
    \A m, n \in Members : \A i \in 1..Len(binlog[m]) : i <= Len(binlog[n]) => binlog[m][i] = binlog[n][i]

SourceAhead ==
    \A m \in Members : source[m] # None => /\ Len(binlog[m]) <= Len(binlog[source[m]])
                                           /\ gtid \/ pos[m] = Len(binlog[m])

WriterAhead == \A m, n \in Members : ~ro[m] => Len(binlog[n]) <= Len(binlog[m])

LogInv == Agree /\ NoDuplicate /\ SourceAhead /\ WriterAhead

\* Everyone the preflight has seen replicates from the primary until the promotion.
AttachedInv ==
    /\ pc = "preflight" => \A m \in Replicas \ todo : source[m] = prim
    /\ pc \in {"freeze"} \cup Frozen => \A m \in Replicas : source[m] = prim

\* What the wait and the stop have established.
Level(m) == Len(binlog[m]) = Len(binlog[prim])
Still(m) == ~run[m] \/ source[m] = None

CaughtUpInv ==
    /\ pc = "wait" => endSet = Committed(prim) /\ endPos = Len(binlog[prim])
    /\ pc = "wait" => \A m \in Replicas \ todo : Level(m)
    /\ pc \in {"stop", "candpos", "promote"} => \A m \in Replicas : Level(m)

StoppedInv ==
    /\ pc = "stop" => \A m \in Replicas \ todo : Still(m)
    /\ pc \in {"candpos", "promote"} => \A m \in Replicas : Still(m)
    /\ pc = "promote" => gtid \/ cPos = Len(binlog[prim])

\* A member still to be re-pointed stands where the candidate stood.
Ready(m) ==
    /\ Still(m) /\ Len(binlog[m]) <= Len(binlog[cand])
    /\ gtid \/ cPos = Len(binlog[m])

RepointInv ==
    /\ pc = "demote" => \A m \in Followers : Ready(m)
    /\ pc = "follow" => \A m \in todo : Ready(m)

DataInv == LogInv /\ AttachedInv /\ CaughtUpInv /\ StoppedInv /\ RepointInv

\* Why SuccessMovesEveryone holds: who is re-pointed, or recorded as failed, in each phase.
Moved(m) == source[m] = cand \/ m \in failed

ReportInv ==
    /\ seen \subseteq Followers
    /\ pc \in {"restart", "unfreeze"} => result # "ok"
    /\ pc \in Forward => ~ro[cand]
    /\ pc = "follow" => \A m \in Followers \ todo : Moved(m)
    /\ pc = "verify" => /\ todo \subseteq Followers /\ \A m \in Followers : Moved(m)
                        /\ faults = 0 /\ ~expired => Followers \ todo \subseteq seen \cup failed
    /\ SuccessMovesEveryone
=============================================================================
