---------------------------- MODULE ReplChannels -----------------------------
(***************************************************************************)
(* Cross-cluster replication links (app/replication.go): the links drawn   *)
(* on the canvas between clusters that both use GTIDs, the order           *)
(* replicaApplyOrder configures them in, the apply loop of                 *)
(* reconcileReplication with its channel scripts, and the servers' GTID    *)
(* sets, over several deploys of the same stack.                           *)
(*                                                                         *)
(* A node id is a number (the code compares ids as strings), a link is     *)
(* <<source, replica>>, a transaction is <<origin, number>>.  A server's   *)
(* executed and purged sets are @@gtid_executed and @@gtid_purged: what it *)
(* purged it counts as executed but cannot send to anybody.  How MySQL     *)
(* replicates is modelled from what the scripts rely on.                   *)
(***************************************************************************)
EXTENDS Naturals, Sequences, FiniteSets

CONSTANTS
    Nodes,       \* linked cluster members
    Topologies,  \* the link sets the canvas may show
    MaxPasses,   \* deploys, each ending in one reconcileReplication
    MaxRedraws,  \* changes of the links on the canvas
    MaxFaults,   \* stopped nodes and steps that fail by themselves
    MaxWrites    \* client transactions per node

ASSUME ReplAssumption ==
    /\ Nodes \subseteq Nat /\ IsFiniteSet(Nodes) /\ Nodes # {}
    /\ Topologies \subseteq SUBSET (Nodes \X Nodes)
    /\ \A L \in Topologies : \A l \in L : l[1] # l[2]
    /\ MaxPasses \in Nat /\ MaxRedraws \in Nat /\ MaxFaults \in Nat /\ MaxWrites \in Nat

VARIABLES
    links,     \* the links drawn now
    up,        \* nodes that run (their rows say so too)
    executed,  \* node -> transactions it counts as executed
    purged,    \* node -> those it never had in a binary log
    chan,      \* the channels configured on the servers
    rpc,       \* reconcileReplication: where it is
    plan,      \* the links of the design it was started with
    order,     \* the members it has still to visit; the first is being configured
    todo,      \* sources of that member whose channel has still to be applied
    src,       \* the source being applied
    pos,       \* the position read from it
    keep,      \* channels of the member that came up
    passes, redraws, faults,
    owed,      \* history: <<s, r, t>>: t reached s's binary log while s -> r was drawn and configured
    lost,      \* history: channels removed although they were still drawn
    crossed    \* history: channels whose replica was then seeded from another source

net  == <<links, up>>
gtid == <<executed, purged>>
job  == <<rpc, plan, order, todo, src, pos, keep>>
cnt  == <<passes, redraws, faults>>
hist == <<owed, lost, crossed>>
vars == <<net, gtid, chan, job, cnt, hist>>

Links == Nodes \X Nodes
Txns  == Nodes \X (1..MaxWrites)

\* Type correctness of the servers, the job and the bookkeeping.
TypeOK ==
    /\ links \in SUBSET Links /\ up \in SUBSET Nodes
    /\ executed \in [Nodes -> SUBSET Txns] /\ purged \in [Nodes -> SUBSET Txns]
    /\ chan \in SUBSET Links
    /\ rpc \in {"idle", "visit", "link", "apply", "prune"}
    /\ plan \in SUBSET Links /\ order \in Seq(Nodes)
    /\ todo \in SUBSET Nodes /\ src \in Nodes /\ pos \in SUBSET Txns /\ keep \in SUBSET Nodes
    /\ passes \in 0..MaxPasses /\ redraws \in 0..MaxRedraws /\ faults \in 0..MaxFaults
    /\ owed \in SUBSET (Nodes \X Nodes \X Txns) /\ lost \in SUBSET Links
    /\ crossed \in SUBSET Links

Init ==
    /\ links \in Topologies
    /\ up = Nodes
    /\ executed = [n \in Nodes |-> {}] /\ purged = [n \in Nodes |-> {}]
    /\ chan = {}
    /\ rpc = "idle" /\ plan = {} /\ order = <<>> /\ todo = {} /\ keep = {} /\ pos = {}
    /\ src = CHOOSE n \in Nodes : TRUE
    /\ passes = 0 /\ redraws = 0 /\ faults = 0
    /\ owed = {} /\ lost = {} /\ crossed = {}

-----------------------------------------------------------------------------
(* replicaApplyOrder *)

Sources(L, n) == {s \in Nodes : <<s, n>> \in L}
Replicas(L)   == {n \in Nodes : Sources(L, n) # {}}

\* indeg[n] once the nodes of P are placed: each placed source was subtracted.
Indegree(L, P, n) == Cardinality((Sources(L, n) \cap Replicas(L)) \ P)

\* Seeded fault: ties and in-degrees forgotten, the smallest id next.
SmallestID(L, P) ==
    CHOOSE c \in Replicas(L) \ P : \A n \in Replicas(L) \ P : c <= n

\* The unplaced replica with the smallest in-degree, ties by id.
Candidate(L, P) ==
    CHOOSE c \in Replicas(L) \ P : \A n \in Replicas(L) \ P :
        \/ Indegree(L, P, c) < Indegree(L, P, n)
        \/ Indegree(L, P, c) = Indegree(L, P, n) /\ c <= n

\* The members placed before the i-th.
Before(s, i) == {s[j] : j \in 1..(i - 1)}

\* Each turn of the loop places the candidate that the earlier turns left.
replicaApplyOrder(L) ==
    CHOOSE s \in [1..Cardinality(Replicas(L)) -> Replicas(L)] :
        \A i \in DOMAIN s : s[i] = Candidate(L, Before(s, i))

Smallest(S) == CHOOSE c \in S : \A n \in S : c <= n

\* "Every other member is still visited", sorted by id.
Rest(L) ==
    LET left == Nodes \ Replicas(L)
    IN  CHOOSE s \in [1..Cardinality(left) -> left] :
            \A i \in DOMAIN s : s[i] = Smallest(left \ Before(s, i))

-----------------------------------------------------------------------------
(* Replication as the channel scripts rely on it *)

\* Auto-positioning asks for everything the source has and the replica has not; what the
\* source holds only in gtid_purged it cannot send: the fatal error 1236.
FatalFor(s, have) == (executed[s] \ have) \cap purged[s] # {}
Fatal(s, r) == FatalFor(s, executed[r])

\* t is written to the binary log of n: every replica of n that has not got it is to get it.
Logged(n, t) ==
    /\ executed' = [executed EXCEPT ![n] = @ \cup {t}]
    /\ owed' = owed \cup {<<n, l[2], t>> :
                            l \in {k \in chan \cap links : k[1] = n /\ t \notin executed[k[2]]}}

Write(n) ==
    /\ n \in up
    /\ \E k \in 1..MaxWrites :
          /\ <<n, k>> \notin executed[n]
          /\ \A j \in 1..(k - 1) : <<n, j>> \in executed[n]
          /\ Logged(n, <<n, k>>)
    /\ UNCHANGED <<net, purged, chan, job, cnt, lost, crossed>>

Fetch(s, r) ==
    /\ <<s, r>> \in chan /\ {s, r} \subseteq up /\ ~Fatal(s, r)
    /\ \E t \in executed[s] \ executed[r] : Logged(r, t)
    /\ UNCHANGED <<net, purged, chan, job, cnt, lost, crossed>>

-----------------------------------------------------------------------------
(* reconcileReplication *)

Fault == faults < MaxFaults /\ faults' = faults + 1

Reconcile ==
    /\ rpc = "idle" /\ passes < MaxPasses
    /\ passes' = passes + 1
    /\ plan' = links
    /\ order' = replicaApplyOrder(links) \o Rest(links)
    /\ rpc' = "visit"
    /\ UNCHANGED <<net, gtid, chan, todo, src, pos, keep, redraws, faults, hist>>

\* A member whose row is not running is left alone.
SkipMember ==
    /\ rpc = "visit" /\ order # <<>> /\ Head(order) \notin up
    /\ order' = Tail(order)
    /\ UNCHANGED <<net, gtid, chan, rpc, plan, todo, src, pos, keep, cnt, hist>>

VisitMember ==
    /\ rpc = "visit" /\ order # <<>> /\ Head(order) \in up
    /\ todo' = Sources(plan, Head(order))
    /\ rpc' = "link"
    /\ UNCHANGED <<net, gtid, chan, plan, order, src, pos, keep, cnt, hist>>

\* The source's gtid_executed, read when the channel is about to be applied; a failed read is
\* an empty string.
ReadPosition(s) ==
    /\ rpc = "link" /\ s \in todo
    /\ src' = s
    /\ \/ s \in up /\ pos' = executed[s] /\ UNCHANGED faults
       \/ s \notin up /\ pos' = {} /\ UNCHANGED faults
       \/ Fault /\ pos' = {}
    /\ rpc' = "apply"
    /\ UNCHANGED <<net, gtid, chan, plan, order, todo, keep, passes, redraws, hist>>

\* Seeded fault: the seeding forgets the channel-exists guard.
SeedAlways(n) == pos \ executed[n]

\* replChannelApply: only a channel that does not exist yet is seeded from SRC_GTID.
Seed(n) == IF <<src, n>> \notin chan THEN pos \ executed[n] ELSE {}

\* SET GLOBAL gtid_purged = '+S' on n; gtid_purged knows no channels, so S is passed over on the
\* channels n has from other sources too.
SetPurged(n, S) ==
    /\ purged' = [purged EXCEPT ![n] = @ \cup S]
    /\ executed' = [executed EXCEPT ![n] = @ \cup S]
    /\ crossed' = crossed \cup {l \in chan : S # {} /\ l[2] = n /\ l[1] # src}

\* The script: stop, seed, CHANGE SOURCE, start, and wait for both threads.
ApplyChannel ==
    LET n     == Head(order)
        fatal == FatalFor(src, executed[n] \cup Seed(n))
    IN
    /\ rpc = "apply" /\ n \in up
    /\ SetPurged(n, Seed(n))
    /\ chan' = chan \cup {<<src, n>>}
    /\ \/ src \in up /\ ~fatal /\ keep' = keep \cup {src} /\ UNCHANGED faults
       \/ (src \notin up \/ fatal) /\ UNCHANGED <<keep, faults>>
       \/ Fault /\ UNCHANGED keep
    /\ todo' = todo \ {src} /\ pos' = {} /\ rpc' = "link"
    /\ UNCHANGED <<net, plan, order, src, passes, redraws, owed, lost>>

\* The replica stopped answering: the script fails before it has changed anything.
ApplyFails ==
    /\ rpc = "apply" /\ Head(order) \notin up
    /\ todo' = todo \ {src} /\ pos' = {} /\ rpc' = "link"
    /\ UNCHANGED <<net, gtid, chan, plan, order, src, keep, cnt, hist>>

\* set -e: the script breaks off before or after the seeding, and no channel is made.  One that existed
\* has been stopped by then, until the prune removes it; that it goes on delivering here only adds
\* behaviours.
ApplyBreaks ==
    LET n == Head(order) IN
    /\ rpc = "apply" /\ n \in up /\ Fault
    /\ \E S \in {{}, Seed(n)} : SetPurged(n, S)
    /\ todo' = todo \ {src} /\ pos' = {} /\ rpc' = "link"
    /\ UNCHANGED <<net, chan, plan, order, src, keep, passes, redraws, owed, lost>>

\* Seeded fault: KEEP is not passed on.
PruneAll(n) == {l \in chan : l[2] = n}

\* replChannelPrune removes every DBCanvas channel of the member that is not in KEEP.
Pruned(n) == {l \in chan : l[2] = n /\ l[1] \notin keep}

\* Best effort: a failure changes nothing.
Prune ==
    LET n == Head(order) IN
    /\ rpc = "link" /\ todo = {}
    /\ \/ /\ n \in up /\ UNCHANGED faults
          /\ chan' = chan \ Pruned(n)
          /\ lost' = lost \cup (Pruned(n) \cap links)
       \/ n \notin up /\ UNCHANGED <<chan, lost, faults>>
       \/ Fault /\ UNCHANGED <<chan, lost>>
    /\ order' = Tail(order) /\ keep' = {} /\ rpc' = "visit"
    /\ UNCHANGED <<net, gtid, plan, todo, src, pos, passes, redraws, owed, crossed>>

PassDone ==
    /\ rpc = "visit" /\ order = <<>>
    /\ rpc' = "idle" /\ plan' = {}
    /\ UNCHANGED <<net, gtid, chan, order, todo, src, pos, keep, cnt, hist>>

-----------------------------------------------------------------------------
(* The user: edits of the canvas, nodes stopped and started *)

Redraw(L) ==
    /\ redraws < MaxRedraws /\ L # links
    /\ redraws' = redraws + 1
    /\ links' = L
    /\ owed' = {o \in owed : <<o[1], o[2]>> \in L}
    /\ UNCHANGED <<up, gtid, chan, job, passes, faults, lost, crossed>>

Stop(n) ==
    /\ n \in up /\ Fault
    /\ up' = up \ {n}
    /\ UNCHANGED <<links, gtid, chan, job, passes, redraws, hist>>

StartNode(n) ==
    /\ n \notin up
    /\ up' = up \cup {n}
    /\ UNCHANGED <<links, gtid, chan, job, cnt, hist>>

JobStep ==
    \/ SkipMember \/ VisitMember \/ (\E s \in Nodes : ReadPosition(s))
    \/ ApplyChannel \/ ApplyFails \/ ApplyBreaks \/ Prune \/ PassDone

Next ==
    \/ Reconcile \/ JobStep
    \/ \E n \in Nodes : Write(n) \/ Stop(n) \/ StartNode(n) \/ \E s \in Nodes : Fetch(s, n)
    \/ \E L \in Topologies : Redraw(L)

Spec == Init /\ [][Next]_vars

\* The job runs on, and a channel delivers as long as there is something to deliver.
Fairness ==
    /\ WF_vars(JobStep)
    /\ \A s, r \in Nodes : WF_vars(Fetch(s, r))

FairSpec == Spec /\ Fairness

-----------------------------------------------------------------------------
(* Properties *)

\* The channels whose transactions may have been passed over for a reason of their own.
Excepted == lost \cup crossed

\* Seeding "happens once at creation, never on a later reconcile (which would wrongly skip
\* transactions committed on the source since)" (replication.go:587-589): what reached the
\* source while the link was up is never skipped, unless the channel was removed in between
\* although it was still drawn, or the replica was seeded from a second source.
NothingSkippedOnKeptChannels ==
    \A o \in owed : <<o[1], o[2]>> \notin Excepted => o[3] \notin purged[o[2]]

Undisturbed == faults = 0 /\ redraws = 0

\* No channel ever asks its source for transactions the source holds only in gtid_purged
\* (replication.go:420-430), as long as nothing fails and nothing is redrawn.
NoFatalGapUndisturbed ==
    Undisturbed => \A l \in chan : ~Fatal(l[1], l[2])

\* ... and then every replica really gets what reached its sources while they were linked: none of
\* it is only marked as executed, unless a second source's seed passed over it.
CatchesUp ==
    []<>(Undisturbed => \A o \in owed :
            /\ o[3] \in executed[o[2]]
            /\ <<o[1], o[2]>> \notin crossed => o[3] \notin purged[o[2]])

\* replication_test.go:20-23: mysql04 is ordered before mysql07 "so mysql07's seed reflects the
\* upstream (mysql01) GTIDs mysql04 has acquired"; otherwise it "would request GTIDs the source
\* holds only in gtid_purged -> fatal 1236".
NoFatalGap == \A l \in chan : ~Fatal(l[1], l[2])

-----------------------------------------------------------------------------
(* The inductive invariant *)

\* What a server purged it counts as executed.
PurgedInv == \A n \in Nodes : purged[n] \subseteq executed[n]

\* Whatever is owed is owed over a link that is drawn, and whose channel is configured unless it
\* was removed while drawn.
OwedInv == \A o \in owed : <<o[1], o[2]>> \in links /\ <<o[1], o[2]>> \in chan \cup lost

\* Between visits the job is at a member.
JobInv == rpc \in {"link", "apply"} => order # <<>>

IndInv == TypeOK /\ JobInv /\ PurgedInv /\ OwedInv /\ NothingSkippedOnKeptChannels

-----------------------------------------------------------------------------
(* Why acyclic links never leave a gap while nothing disturbs the passes *)

\* No node is, through links, a source of its own: there are layers that every link goes down.
Acyclic(L) ==
    \E layer \in [Nodes -> 1..Cardinality(Nodes)] : \A l \in L : layer[l[1]] < layer[l[2]]

\* Every member occurs once in s, and a replica before the replicas it feeds.
Ordered(s, L) ==
    /\ \A i, j \in 1..Len(s) : s[i] = s[j] => i = j
    /\ \A i \in 1..Len(s), r \in Nodes :
          s[i] \in Replicas(L) /\ <<s[i], r>> \in L => \E j \in (i + 1)..Len(s) : s[j] = r

AtMember == rpc \in {"link", "apply"}

\* Members whose channels this pass has not come to.
Unvisited == {order[i] : i \in (IF AtMember THEN 2 ELSE 1)..Len(order)}

\* l has still to be applied for the first time.
Pending(l) ==
    \/ passes = 0
    \/ passes = 1 /\ l[2] \in Unvisited
    \/ passes = 1 /\ AtMember /\ l[2] = Head(order) /\ l[1] \in todo

\* The job works on the links as they are drawn, in order.
StageInv ==
    /\ up = Nodes /\ Acyclic(links)
    /\ rpc = "idle" => order = <<>>
    /\ rpc # "idle" => plan = links /\ passes >= 1
    /\ Ordered(order, links)
    /\ rpc = "apply" => src \in todo
    /\ AtMember => todo \subseteq Sources(links, Head(order))

\* Exactly the links that have been applied are configured, and the ones of the member that is
\* being configured are kept.
MadeInv ==
    /\ chan \subseteq links
    /\ \A l \in links : Pending(l) \/ l \in chan
    /\ passes = 0 => chan = {}
    /\ passes = 1 => \A l \in chan : l[2] \notin Unvisited
    /\ AtMember => \A s \in Sources(links, Head(order)) \ todo :
                       <<s, Head(order)>> \in chan /\ s \in keep

\* What a source purged its replicas have, and the position that was read covers it.
CoveredInv ==
    /\ \A l \in chan : purged[l[1]] \subseteq executed[l[2]]
    /\ rpc = "apply" => purged[src] \subseteq pos

GapInv == Undisturbed => StageInv /\ MadeInv /\ CoveredInv
=============================================================================
