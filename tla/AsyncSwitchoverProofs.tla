------------------------ MODULE AsyncSwitchoverProofs ------------------------
(***************************************************************************)
(* For any group, any number of switches and any number of faults: two     *)
(* servers never take writes at once, the one that does has everything     *)
(* that was committed, nobody applies anything twice, and a switch that    *)
(* reports success has moved everyone.                                     *)
(***************************************************************************)
EXTENDS AsyncSwitchover, TLAPS

\* Init establishes the inductive invariant: one writer, and no switch under way.
LEMMA InitInv == Init => IndInv
<1> SUFFICES ASSUME Init PROVE IndInv
  OBVIOUS
<1>1. ServerType
  <2>1. <<>> \in Seq(Txns)
    OBVIOUS
  <2> QED
    BY <2>1, GroupAssumption DEF Init, ServerType
<1>2. SwitchType
  <2>1. 0 \in 0..MaxSwitches /\ 0 \in 0..MaxFaults
    BY GroupAssumption
  <2> QED
    BY <2>1 DEF Init, SwitchType, PC, Results
<1>3. \A m \in Members : ro[m] = (m # First) /\ source[m] = (IF m = First THEN None ELSE First)
  BY DEF Init
<1>4. WriterDetached /\ AtMostOneWriter
  BY <1>3 DEF WriterDetached, AtMostOneWriter
<1>5. RolesInv /\ ReadOnlyInv
  BY DEF Init, RolesInv, ReadOnlyInv, Before, Frozen, Forward
<1> QED
  BY <1>1, <1>2, <1>4, <1>5 DEF IndInv, TypeOK

\* Every step keeps the types of the servers.
LEMMA ServerTypeStep == ServerType /\ SwitchType /\ RolesInv /\ [Next]_vars => ServerType'
<1> SUFFICES ASSUME ServerType /\ SwitchType /\ RolesInv, [Next]_vars PROVE ServerType'
  OBVIOUS
<1> USE GroupAssumption DEF ServerType, SwitchType, RolesInv
<1>1. ASSUME NEW m \in Members, NEW t \in Txns, ClientCommit(m, t) PROVE ServerType'
  BY <1>1 DEF ClientCommit, locals, bounds
<1>2. ASSUME NEW m \in Members, Replicate(m) PROVE ServerType'
  <2> DEFINE log == binlog[source[m]]
  <2>1. UNCHANGED <<gtid, ro, source, run>> /\ source[m] \in Members
    BY <1>2 DEF Replicate
  <2>2. log \in Seq(Txns)
    BY <2>1
  <2>3. \E i \in 1..Len(log) :
           /\ binlog' = [binlog EXCEPT ![m] = Append(@, log[i])]
           /\ pos' = pos \/ pos' = [pos EXCEPT ![m] = @ + 1]
    <3>1. CASE gtid
      BY <1>2, <3>1 DEF Replicate
    <3>2. CASE ~gtid
      <4>1. pos[m] + 1 \in 1..Len(log)
        BY <1>2, <2>2, <3>2 DEF Replicate
      <4>2. /\ binlog' = [binlog EXCEPT ![m] = Append(@, log[pos[m] + 1])]
            /\ pos' = [pos EXCEPT ![m] = @ + 1]
        BY <1>2, <3>2 DEF Replicate
      <4> QED
        BY <4>1, <4>2
    <3> QED
      BY <3>1, <3>2
  <2>4. PICK i \in 1..Len(log) :
           /\ binlog' = [binlog EXCEPT ![m] = Append(@, log[i])]
           /\ pos' = pos \/ pos' = [pos EXCEPT ![m] = @ + 1]
    BY <2>3
  <2>5. log[i] \in Txns
    BY <2>2
  <2>6. Append(binlog[m], log[i]) \in Seq(Txns)
    BY <2>5
  <2>7. binlog' \in [Members -> Seq(Txns)]
    BY <2>4, <2>6
  <2>T. /\ ro \in [Members -> BOOLEAN] /\ run \in [Members -> BOOLEAN] /\ cPos \in Nat
        /\ source \in [Members -> Members \cup {None}] /\ pos \in [Members -> Nat]
    OBVIOUS
  <2> HIDE DEF ServerType, SwitchType, RolesInv
  <2>8. pos' \in [Members -> Nat]
    BY <2>4, <2>T
  <2> QED
    BY <2>1, <2>7, <2>8 DEF ServerType
<1>3. ASSUME NEW m \in Members, ReplicationBreaks(m) PROVE ServerType'
  BY <1>3 DEF ReplicationBreaks, locals
<1>4. ASSUME NEW m \in Members, Promote(m) PROVE ServerType'
  BY <1>4 DEF Promote, NextPhase, End, locals, servers
<1>5. ASSUME NEW m \in Members, Preflight(m) PROVE ServerType'
  BY <1>5 DEF Preflight, Sent, Failing, Visited, NextPhase, End, locals, servers
<1>6. ASSUME NEW m \in Members, Wait(m) PROVE ServerType'
  BY <1>6 DEF Wait, Sent, Failing, Visited, NextPhase, Replicas, servers
<1>7. ASSUME NEW m \in Members, Stop(m) PROVE ServerType'
  BY <1>7 DEF Stop, Sent, Failing, Visited, NextPhase
<1>8. ASSUME NEW m \in Members, Follow(m) PROVE ServerType'
  <2>1. UNCHANGED <<gtid, binlog, ro>> /\ cand \in Members
    BY <1>8 DEF Follow
  <2>2. \/ UNCHANGED <<source, pos>>
        \/ source' = [source EXCEPT ![m] = cand] /\ pos' = [pos EXCEPT ![m] = cPos]
    BY <1>8 DEF Follow, Repoint
  <2>3. run' = run \/ run' = [run EXCEPT ![m] = TRUE]
    BY <1>8 DEF Follow, Started
  <2>T. /\ ro \in [Members -> BOOLEAN] /\ run \in [Members -> BOOLEAN] /\ cPos \in Nat
        /\ source \in [Members -> Members \cup {None}] /\ pos \in [Members -> Nat]
    OBVIOUS
  <2> HIDE DEF ServerType, SwitchType, RolesInv
  <2>4. source' \in [Members -> Members \cup {None}]
    BY <2>1, <2>2, <2>T
  <2>5. pos' \in [Members -> Nat]
    BY <2>1, <2>2, <2>T
  <2>6. run' \in [Members -> BOOLEAN]
    BY <2>3, <2>T
  <2> QED
    BY <2>1, <2>4, <2>5, <2>6 DEF ServerType
<1>9. ASSUME NEW m \in Members, Verify(m) PROVE ServerType'
  BY <1>9 DEF Verify, Sent, Failing, NextPhase, servers
<1>10. ASSUME Freeze PROVE ServerType'
  BY <1>10 DEF Freeze, Sent, Failing, NextPhase, End, locals
<1>11. ASSUME Position PROVE ServerType'
  BY <1>11 DEF Position, Sent, Failing, NextPhase, Replicas, servers
<1>12. ASSUME CandidatePosition PROVE ServerType'
  BY <1>12 DEF CandidatePosition, Sent, Failing, NextPhase, servers
<1>13. ASSUME MakeWritable PROVE ServerType'
  <2>1. UNCHANGED <<gtid, binlog, run>> /\ cand \in Members
    BY <1>13 DEF MakeWritable
  <2>2. \/ UNCHANGED <<source, pos>>
        \/ source' = [source EXCEPT ![cand] = None] /\ pos' = [pos EXCEPT ![cand] = 0]
    BY <1>13 DEF MakeWritable
  <2>3. ro' = ro \/ ro' = [ro EXCEPT ![cand] = FALSE]
    BY <1>13 DEF MakeWritable
  <2>T. /\ ro \in [Members -> BOOLEAN] /\ run \in [Members -> BOOLEAN] /\ cPos \in Nat
        /\ source \in [Members -> Members \cup {None}] /\ pos \in [Members -> Nat]
    OBVIOUS
  <2> HIDE DEF ServerType, SwitchType, RolesInv
  <2>4. source' \in [Members -> Members \cup {None}]
    BY <2>1, <2>2, <2>T
  <2>5. pos' \in [Members -> Nat]
    BY <2>1, <2>2, <2>T
  <2>6. ro' \in [Members -> BOOLEAN]
    BY <2>1, <2>3, <2>T
  <2> QED
    BY <2>1, <2>4, <2>5, <2>6 DEF ServerType
<1>14. ASSUME Demote PROVE ServerType'
  <2>1. UNCHANGED <<gtid, binlog>> /\ prim \in Members /\ cand \in Members
    BY <1>14 DEF Demote
  <2>2. ro' = ro \/ ro' = [ro EXCEPT ![prim] = TRUE]
    BY <1>14 DEF Demote
  <2>3. \/ UNCHANGED <<source, pos>>
        \/ source' = [source EXCEPT ![prim] = cand] /\ pos' = [pos EXCEPT ![prim] = cPos]
    BY <1>14 DEF Demote, Repoint
  <2>4. run' = run \/ run' = [run EXCEPT ![prim] = TRUE]
    BY <1>14 DEF Demote, Started
  <2>T. /\ ro \in [Members -> BOOLEAN] /\ run \in [Members -> BOOLEAN] /\ cPos \in Nat
        /\ source \in [Members -> Members \cup {None}] /\ pos \in [Members -> Nat]
    OBVIOUS
  <2> HIDE DEF ServerType, SwitchType, RolesInv
  <2>5. ro' \in [Members -> BOOLEAN]
    BY <2>1, <2>2, <2>T
  <2>6. source' \in [Members -> Members \cup {None}]
    BY <2>1, <2>3, <2>T
  <2>7. pos' \in [Members -> Nat]
    BY <2>1, <2>3, <2>T
  <2>8. run' \in [Members -> BOOLEAN]
    BY <2>1, <2>4, <2>T
  <2> QED
    BY <2>1, <2>5, <2>6, <2>7, <2>8 DEF ServerType
<1>15. ASSUME StartAgain PROVE ServerType'
  BY <1>15 DEF StartAgain, Sent, Failing, Started
<1>16. ASSUME Unfreeze PROVE ServerType'
  BY <1>16 DEF Unfreeze, Sent, Failing
<1>17. ASSUME DeadlinePasses PROVE ServerType'
  BY <1>17 DEF DeadlinePasses, servers, locals
<1>18. ASSUME ServerDies PROVE ServerType'
  BY <1>18 DEF ServerDies, End, servers, locals
<1>19. CASE UNCHANGED vars
  BY <1>19 DEF vars, servers, locals, bounds
<1> QED
  BY <1>1, <1>2, <1>3, <1>4, <1>5, <1>6, <1>7, <1>8, <1>9, <1>10, <1>11, <1>12, <1>13, <1>14, <1>15, <1>16, <1>17, <1>18, <1>19 DEF Next, SwitchStep

\* Every step keeps the types of the switch.
LEMMA SwitchTypeStep == ServerType /\ SwitchType /\ RolesInv /\ [Next]_vars => SwitchType'
<1> SUFFICES ASSUME ServerType /\ SwitchType /\ RolesInv, [Next]_vars PROVE SwitchType'
  OBVIOUS
<1> USE GroupAssumption DEF SwitchType, PC, Results
<1>1. ASSUME NEW m \in Members, NEW t \in Txns, ClientCommit(m, t) PROVE SwitchType'
  BY <1>1 DEF ClientCommit, locals, bounds
<1>2. ASSUME NEW m \in Members, Replicate(m) PROVE SwitchType'
  BY <1>2 DEF Replicate, locals, bounds
<1>3. ASSUME NEW m \in Members, ReplicationBreaks(m) PROVE SwitchType'
  BY <1>3 DEF ReplicationBreaks, locals
<1>4. ASSUME NEW m \in Members, Promote(m) PROVE SwitchType'
  <2>1. /\ switches < MaxSwitches /\ switches' = switches + 1 /\ expired' = FALSE
        /\ UNCHANGED faults \/ (faults < MaxFaults /\ faults' = faults + 1)
    BY <1>4 DEF Promote
  <2>2. switches \in 0..MaxSwitches /\ faults \in 0..MaxFaults
    OBVIOUS
  <2>3. switches' \in 0..MaxSwitches /\ faults' \in 0..MaxFaults
    <3> HIDE DEF SwitchType
    <3> QED
      BY <2>1, <2>2
  <2>4. CASE End("refused")
    BY <2>1, <2>3, <2>4 DEF End, locals
  <2>5. ASSUME NEW p \in Members, prim' = p, cand' = m, NextPhase("preflight", Members \ {p}),
               stopped' = {}, failed' = {}, seen' = {}, endSet' = {}, endPos' = 0, cPos' = 0
        PROVE SwitchType'
    BY <2>1, <2>3, <2>5 DEF NextPhase
  <2> QED
    BY <1>4, <2>4, <2>5 DEF Promote
<1>5. ASSUME NEW m \in Members, Preflight(m) PROVE SwitchType'
  BY <1>5 DEF Preflight, Sent, Failing, Visited, NextPhase, End, locals, servers
<1>6. ASSUME NEW m \in Members, Wait(m) PROVE SwitchType'
  BY <1>6 DEF Wait, Sent, Failing, Visited, NextPhase, Replicas, servers
<1>7. ASSUME NEW m \in Members, Stop(m) PROVE SwitchType'
  BY <1>7 DEF Stop, Sent, Failing, Visited, NextPhase
<1>8. ASSUME NEW m \in Members, Follow(m) PROVE SwitchType'
  BY <1>8 DEF Follow, Sent, Failing, Visited, NextPhase, Repoint, Started, Followers
<1>9. ASSUME NEW m \in Members, Verify(m) PROVE SwitchType'
  BY <1>9 DEF Verify, Sent, Failing, NextPhase, servers
<1>10. ASSUME Freeze PROVE SwitchType'
  BY <1>10 DEF Freeze, Sent, Failing, NextPhase, End, locals
<1>11. ASSUME Position PROVE SwitchType'
  <2>1. prim \in Members /\ binlog[prim] \in Seq(Txns)
    BY <1>11 DEF Position, RolesInv, ServerType
  <2>2. Committed(prim) \in SUBSET Txns /\ Len(binlog[prim]) \in Nat
    BY <2>1 DEF Committed
  <2>3. endSet' \in SUBSET Txns /\ endPos' \in Nat
    BY <1>11, <2>2 DEF Position
  <2>4. todo' \in SUBSET Members
    BY <1>11 DEF Position, NextPhase, Replicas
  <2>5. faults' \in 0..MaxFaults /\ expired' \in BOOLEAN
    BY <1>11 DEF Position, Sent, Failing
  <2>6. pc' \in PC /\ result' \in Results
    BY <1>11 DEF Position, NextPhase
  <2> QED
    BY <1>11, <2>3, <2>4, <2>5, <2>6 DEF Position
<1>12. ASSUME CandidatePosition PROVE SwitchType'
  BY <1>12 DEF CandidatePosition, Sent, Failing, NextPhase, servers
<1>13. ASSUME MakeWritable PROVE SwitchType'
  BY <1>13 DEF MakeWritable, Sent, Failing, NextPhase, End, locals
<1>14. ASSUME Demote PROVE SwitchType'
  <2>1. failed' \in SUBSET Members
    BY <1>14 DEF Demote, RolesInv
  <2>2. todo' \in SUBSET Members /\ pc' \in PC /\ result' \in Results
    BY <1>14 DEF Demote, NextPhase, Followers
  <2>3. faults' \in 0..MaxFaults /\ expired' \in BOOLEAN
    BY <1>14 DEF Demote, Sent, Failing
  <2> QED
    BY <1>14, <2>1, <2>2, <2>3 DEF Demote
<1>15. ASSUME StartAgain PROVE SwitchType'
  BY <1>15 DEF StartAgain, Sent, Failing, Started
<1>16. ASSUME Unfreeze PROVE SwitchType'
  BY <1>16 DEF Unfreeze, Sent, Failing
<1>17. ASSUME DeadlinePasses PROVE SwitchType'
  BY <1>17 DEF DeadlinePasses, servers, locals
<1>18. ASSUME ServerDies PROVE SwitchType'
  BY <1>18 DEF ServerDies, End, servers, locals
<1>19. CASE UNCHANGED vars
  BY <1>19 DEF vars, servers, locals, bounds
<1> QED
  BY <1>1, <1>2, <1>3, <1>4, <1>5, <1>6, <1>7, <1>8, <1>9, <1>10, <1>11, <1>12, <1>13, <1>14, <1>15, <1>16, <1>17, <1>18, <1>19 DEF Next, SwitchStep

\* The server that takes writes replicates from nobody.
LEMMA DetachedStep == TypeOK /\ WriterDetached /\ RolesInv /\ ReadOnlyInv /\ [Next]_vars => WriterDetached'
<1> SUFFICES ASSUME TypeOK /\ WriterDetached /\ RolesInv /\ ReadOnlyInv, [Next]_vars PROVE WriterDetached'
  OBVIOUS
<1> USE GroupAssumption DEF TypeOK, ServerType, SwitchType, WriterDetached, RolesInv, ReadOnlyInv, PC, Before, Frozen, Forward
<1>1. ASSUME NEW m \in Members, NEW t \in Txns, ClientCommit(m, t) PROVE WriterDetached'
  BY <1>1 DEF ClientCommit, locals, bounds
<1>2. ASSUME NEW m \in Members, Replicate(m) PROVE WriterDetached'
  BY <1>2 DEF Replicate, locals, bounds
<1>3. ASSUME NEW m \in Members, ReplicationBreaks(m) PROVE WriterDetached'
  BY <1>3 DEF ReplicationBreaks, locals
<1>4. ASSUME NEW m \in Members, Promote(m) PROVE WriterDetached'
  BY <1>4 DEF Promote, NextPhase, End, locals, servers
<1>5. ASSUME NEW m \in Members, Preflight(m) PROVE WriterDetached'
  BY <1>5 DEF Preflight, Sent, Failing, Visited, NextPhase, End, locals, servers
<1>6. ASSUME NEW m \in Members, Wait(m) PROVE WriterDetached'
  BY <1>6 DEF Wait, Sent, Failing, Visited, NextPhase, Replicas, servers
<1>7. ASSUME NEW m \in Members, Stop(m) PROVE WriterDetached'
  BY <1>7 DEF Stop, Sent, Failing, Visited, NextPhase
<1>8. ASSUME NEW m \in Members, Follow(m) PROVE WriterDetached'
  BY <1>8 DEF Follow, Sent, Failing, Visited, NextPhase, Repoint, Started, Followers
<1>9. ASSUME NEW m \in Members, Verify(m) PROVE WriterDetached'
  BY <1>9 DEF Verify, Sent, Failing, NextPhase, servers
<1>10. ASSUME Freeze PROVE WriterDetached'
  BY <1>10 DEF Freeze, Sent, Failing, NextPhase, End, locals
<1>11. ASSUME Position PROVE WriterDetached'
  BY <1>11 DEF Position, Sent, Failing, NextPhase, Replicas, servers
<1>12. ASSUME CandidatePosition PROVE WriterDetached'
  BY <1>12 DEF CandidatePosition, Sent, Failing, NextPhase, servers
<1>13. ASSUME MakeWritable PROVE WriterDetached'
  BY <1>13 DEF MakeWritable, Sent, Failing, NextPhase, End, locals
<1>14. ASSUME Demote PROVE WriterDetached'
  <2>1. prim \in Members /\ ro[prim]
    BY <1>14 DEF Demote
  <2>2. ro' = ro \/ ro' = [ro EXCEPT ![prim] = TRUE]
    BY <1>14 DEF Demote
  <2>3. source' = source \/ source' = [source EXCEPT ![prim] = cand]
    BY <1>14 DEF Demote, Repoint
  <2>4. ro \in [Members -> BOOLEAN] /\ source \in [Members -> Members \cup {None}] /\ cand \in Members
    BY <1>14 DEF Demote
  <2>5. \A n \in Members : ~ro[n] => source[n] = None
    OBVIOUS
  <2> HIDE DEF TypeOK, ServerType, SwitchType, WriterDetached, RolesInv, ReadOnlyInv
  <2>6. \A n \in Members : ~ro'[n] => ~ro[n] /\ n # prim
    BY <2>1, <2>2, <2>4
  <2>7. \A n \in Members : n # prim => source'[n] = source[n]
    BY <2>3, <2>4
  <2> QED
    BY <2>5, <2>6, <2>7 DEF WriterDetached
<1>15. ASSUME StartAgain PROVE WriterDetached'
  BY <1>15 DEF StartAgain, Sent, Failing, Started
<1>16. ASSUME Unfreeze PROVE WriterDetached'
  BY <1>16 DEF Unfreeze, Sent, Failing
<1>17. ASSUME DeadlinePasses PROVE WriterDetached'
  BY <1>17 DEF DeadlinePasses, servers, locals
<1>18. ASSUME ServerDies PROVE WriterDetached'
  BY <1>18 DEF ServerDies, End, servers, locals
<1>19. CASE UNCHANGED vars
  BY <1>19 DEF vars, servers, locals, bounds
<1> QED
  BY <1>1, <1>2, <1>3, <1>4, <1>5, <1>6, <1>7, <1>8, <1>9, <1>10, <1>11, <1>12, <1>13, <1>14, <1>15, <1>16, <1>17, <1>18, <1>19 DEF Next, SwitchStep

\* The primary and the candidate of a switch are two members, and the primary replicates from nobody.
LEMMA RolesStep == TypeOK /\ RolesInv /\ [Next]_vars => RolesInv'
<1> SUFFICES ASSUME TypeOK /\ RolesInv, [Next]_vars PROVE RolesInv'
  OBVIOUS
<1> USE GroupAssumption DEF TypeOK, ServerType, SwitchType, RolesInv, PC, Before, Frozen, Forward
<1>1. ASSUME NEW m \in Members, NEW t \in Txns, ClientCommit(m, t) PROVE RolesInv'
  BY <1>1 DEF ClientCommit, locals, bounds
<1>2. ASSUME NEW m \in Members, Replicate(m) PROVE RolesInv'
  BY <1>2 DEF Replicate, locals, bounds
<1>3. ASSUME NEW m \in Members, ReplicationBreaks(m) PROVE RolesInv'
  BY <1>3 DEF ReplicationBreaks, locals
<1>4. ASSUME NEW m \in Members, Promote(m) PROVE RolesInv'
  <2>1. CASE End("refused")
    BY <2>1 DEF End
  <2>2. ASSUME NEW p \in Members, NEW up \in SUBSET Members, Switchable(m, p, up),
               prim' = p, cand' = m, NextPhase("preflight", Members \ {p}), UNCHANGED source
        PROVE RolesInv'
    <3>1. source[p] = None /\ m # p
      BY <2>2 DEF Switchable, IsPrimary
    <3> QED
      BY <2>2, <3>1 DEF NextPhase
  <2> QED
    BY <1>4, <2>1, <2>2 DEF Promote, servers
<1>5. ASSUME NEW m \in Members, Preflight(m) PROVE RolesInv'
  BY <1>5 DEF Preflight, Sent, Failing, Visited, NextPhase, End, locals, servers
<1>6. ASSUME NEW m \in Members, Wait(m) PROVE RolesInv'
  BY <1>6 DEF Wait, Sent, Failing, Visited, NextPhase, Replicas, servers
<1>7. ASSUME NEW m \in Members, Stop(m) PROVE RolesInv'
  BY <1>7 DEF Stop, Sent, Failing, Visited, NextPhase
<1>8. ASSUME NEW m \in Members, Follow(m) PROVE RolesInv'
  BY <1>8 DEF Follow, Sent, Failing, Visited, NextPhase, Repoint, Started, Followers
<1>9. ASSUME NEW m \in Members, Verify(m) PROVE RolesInv'
  BY <1>9 DEF Verify, Sent, Failing, NextPhase, servers
<1>10. ASSUME Freeze PROVE RolesInv'
  BY <1>10 DEF Freeze, Sent, Failing, NextPhase, End, locals
<1>11. ASSUME Position PROVE RolesInv'
  BY <1>11 DEF Position, Sent, Failing, NextPhase, Replicas, servers
<1>12. ASSUME CandidatePosition PROVE RolesInv'
  BY <1>12 DEF CandidatePosition, Sent, Failing, NextPhase, servers
<1>13. ASSUME MakeWritable PROVE RolesInv'
  BY <1>13 DEF MakeWritable, Sent, Failing, NextPhase, End, locals
<1>14. ASSUME Demote PROVE RolesInv'
  BY <1>14 DEF Demote, Sent, Failing, NextPhase, Repoint, Started, Followers
<1>15. ASSUME StartAgain PROVE RolesInv'
  BY <1>15 DEF StartAgain, Sent, Failing, Started
<1>16. ASSUME Unfreeze PROVE RolesInv'
  BY <1>16 DEF Unfreeze, Sent, Failing
<1>17. ASSUME DeadlinePasses PROVE RolesInv'
  BY <1>17 DEF DeadlinePasses, servers, locals
<1>18. ASSUME ServerDies PROVE RolesInv'
  BY <1>18 DEF ServerDies, End, servers, locals
<1>19. CASE UNCHANGED vars
  BY <1>19 DEF vars, servers, locals, bounds
<1> QED
  BY <1>1, <1>2, <1>3, <1>4, <1>5, <1>6, <1>7, <1>8, <1>9, <1>10, <1>11, <1>12, <1>13, <1>14, <1>15, <1>16, <1>17, <1>18, <1>19 DEF Next, SwitchStep

\* Each phase of a switch keeps every server read-only that must not take writes.
LEMMA ReadOnlyStep == TypeOK /\ WriterDetached /\ RolesInv /\ ReadOnlyInv /\ [Next]_vars => ReadOnlyInv'
<1> SUFFICES ASSUME TypeOK /\ WriterDetached /\ RolesInv /\ ReadOnlyInv, [Next]_vars PROVE ReadOnlyInv'
  OBVIOUS
<1> USE GroupAssumption DEF TypeOK, ServerType, SwitchType, WriterDetached, RolesInv, ReadOnlyInv, IsPrimary, PC, Before, Frozen, Forward
<1>1. ASSUME NEW m \in Members, NEW t \in Txns, ClientCommit(m, t) PROVE ReadOnlyInv'
  BY <1>1 DEF ClientCommit, locals, bounds
<1>2. ASSUME NEW m \in Members, Replicate(m) PROVE ReadOnlyInv'
  BY <1>2 DEF Replicate, locals, bounds
<1>3. ASSUME NEW m \in Members, ReplicationBreaks(m) PROVE ReadOnlyInv'
  BY <1>3 DEF ReplicationBreaks, locals
<1>4. ASSUME NEW m \in Members, Promote(m) PROVE ReadOnlyInv'
  <2>1. CASE End("refused")
    BY <2>1 DEF End
  <2>2. ASSUME NEW p \in Members, prim' = p, NextPhase("preflight", Members \ {p})
        PROVE ReadOnlyInv'
    BY <2>2 DEF NextPhase
  <2> QED
    BY <1>4, <2>1, <2>2 DEF Promote
<1>5. ASSUME NEW m \in Members, Preflight(m) PROVE ReadOnlyInv'
  BY <1>5 DEF Preflight, Sent, Failing, Visited, NextPhase, End, locals, servers
<1>6. ASSUME NEW m \in Members, Wait(m) PROVE ReadOnlyInv'
  BY <1>6 DEF Wait, Sent, Failing, Visited, NextPhase, Replicas, servers
<1>7. ASSUME NEW m \in Members, Stop(m) PROVE ReadOnlyInv'
  BY <1>7 DEF Stop, Sent, Failing, Visited, NextPhase
<1>8. ASSUME NEW m \in Members, Follow(m) PROVE ReadOnlyInv'
  BY <1>8 DEF Follow, Sent, Failing, Visited, NextPhase, Repoint, Started, Followers
<1>9. ASSUME NEW m \in Members, Verify(m) PROVE ReadOnlyInv'
  BY <1>9 DEF Verify, Sent, Failing, NextPhase, servers
<1>10. ASSUME Freeze PROVE ReadOnlyInv'
  BY <1>10 DEF Freeze, Sent, Failing, NextPhase, End, locals
<1>11. ASSUME Position PROVE ReadOnlyInv'
  BY <1>11 DEF Position, Sent, Failing, NextPhase, Replicas, servers
<1>12. ASSUME CandidatePosition PROVE ReadOnlyInv'
  BY <1>12 DEF CandidatePosition, Sent, Failing, NextPhase, servers
<1>13. ASSUME MakeWritable PROVE ReadOnlyInv'
  BY <1>13 DEF MakeWritable, Sent, Failing, NextPhase, End, locals
<1>14. ASSUME Demote PROVE ReadOnlyInv'
  BY <1>14 DEF Demote, Sent, Failing, NextPhase, Repoint, Started, Followers
<1>15. ASSUME StartAgain PROVE ReadOnlyInv'
  BY <1>15 DEF StartAgain, Sent, Failing, Started
<1>16. ASSUME Unfreeze PROVE ReadOnlyInv'
  BY <1>16 DEF Unfreeze, Sent, Failing
<1>17. ASSUME DeadlinePasses PROVE ReadOnlyInv'
  BY <1>17 DEF DeadlinePasses, servers, locals
<1>18. ASSUME ServerDies PROVE ReadOnlyInv'
  BY <1>18 DEF ServerDies, End, servers, locals
<1>19. CASE UNCHANGED vars
  BY <1>19 DEF vars, servers, locals, bounds
<1> QED
  BY <1>1, <1>2, <1>3, <1>4, <1>5, <1>6, <1>7, <1>8, <1>9, <1>10, <1>11, <1>12, <1>13, <1>14, <1>15, <1>16, <1>17, <1>18, <1>19 DEF Next, SwitchStep

\* No step makes a second server writable.
LEMMA WriterStep == TypeOK /\ RolesInv /\ ReadOnlyInv /\ AtMostOneWriter /\ [Next]_vars => AtMostOneWriter'
<1> SUFFICES ASSUME TypeOK /\ RolesInv /\ ReadOnlyInv /\ AtMostOneWriter, [Next]_vars PROVE AtMostOneWriter'
  OBVIOUS
<1> USE GroupAssumption DEF TypeOK, ServerType, SwitchType, RolesInv, ReadOnlyInv, AtMostOneWriter, PC, Before, Frozen, Forward
<1>1. ASSUME NEW m \in Members, NEW t \in Txns, ClientCommit(m, t) PROVE AtMostOneWriter'
  BY <1>1 DEF ClientCommit, locals, bounds
<1>2. ASSUME NEW m \in Members, Replicate(m) PROVE AtMostOneWriter'
  BY <1>2 DEF Replicate, locals, bounds
<1>3. ASSUME NEW m \in Members, ReplicationBreaks(m) PROVE AtMostOneWriter'
  BY <1>3 DEF ReplicationBreaks, locals
<1>4. ASSUME NEW m \in Members, Promote(m) PROVE AtMostOneWriter'
  BY <1>4 DEF Promote, NextPhase, End, locals, servers
<1>5. ASSUME NEW m \in Members, Preflight(m) PROVE AtMostOneWriter'
  BY <1>5 DEF Preflight, Sent, Failing, Visited, NextPhase, End, locals, servers
<1>6. ASSUME NEW m \in Members, Wait(m) PROVE AtMostOneWriter'
  BY <1>6 DEF Wait, Sent, Failing, Visited, NextPhase, Replicas, servers
<1>7. ASSUME NEW m \in Members, Stop(m) PROVE AtMostOneWriter'
  BY <1>7 DEF Stop, Sent, Failing, Visited, NextPhase
<1>8. ASSUME NEW m \in Members, Follow(m) PROVE AtMostOneWriter'
  BY <1>8 DEF Follow, Sent, Failing, Visited, NextPhase, Repoint, Started, Followers
<1>9. ASSUME NEW m \in Members, Verify(m) PROVE AtMostOneWriter'
  BY <1>9 DEF Verify, Sent, Failing, NextPhase, servers
<1>10. ASSUME Freeze PROVE AtMostOneWriter'
  <2>1. ro' = ro \/ ro' = [ro EXCEPT ![prim] = TRUE]
    BY <1>10 DEF Freeze
  <2>2. \A n \in Members : ~ro'[n] => ~ro[n]
    BY <2>1
  <2> QED
    BY <2>2
<1>11. ASSUME Position PROVE AtMostOneWriter'
  BY <1>11 DEF Position, Sent, Failing, NextPhase, Replicas, servers
<1>12. ASSUME CandidatePosition PROVE AtMostOneWriter'
  BY <1>12 DEF CandidatePosition, Sent, Failing, NextPhase, servers
<1>13. ASSUME MakeWritable PROVE AtMostOneWriter'
  <2>1. \A n \in Members : ~ro'[n] => n = cand \/ ~ro[n]
    BY <1>13 DEF MakeWritable, Sent, Failing, NextPhase, End, locals
  <2> QED
    BY <1>13, <2>1 DEF MakeWritable
<1>14. ASSUME Demote PROVE AtMostOneWriter'
  <2>1. ro' = ro \/ ro' = [ro EXCEPT ![prim] = TRUE]
    BY <1>14 DEF Demote
  <2>2. \A n \in Members : ~ro'[n] => ~ro[n]
    BY <2>1
  <2> QED
    BY <2>2
<1>15. ASSUME StartAgain PROVE AtMostOneWriter'
  BY <1>15 DEF StartAgain, Sent, Failing, Started
<1>16. ASSUME Unfreeze PROVE AtMostOneWriter'
  <2>1. \A n \in Members : ~ro'[n] => n = prim
    BY <1>16 DEF Unfreeze, Sent, Failing
  <2> QED
    BY <1>16, <2>1 DEF Unfreeze
<1>17. ASSUME DeadlinePasses PROVE AtMostOneWriter'
  BY <1>17 DEF DeadlinePasses, servers, locals
<1>18. ASSUME ServerDies PROVE AtMostOneWriter'
  BY <1>18 DEF ServerDies, End, servers, locals
<1>19. CASE UNCHANGED vars
  BY <1>19 DEF vars, servers, locals, bounds
<1> QED
  BY <1>1, <1>2, <1>3, <1>4, <1>5, <1>6, <1>7, <1>8, <1>9, <1>10, <1>11, <1>12, <1>13, <1>14, <1>15, <1>16, <1>17, <1>18, <1>19 DEF Next, SwitchStep

\* The inductive invariant holds in every state.
THEOREM IndInvHolds == Spec => []IndInv
<1>1. IndInv /\ [Next]_vars => IndInv'
  BY ServerTypeStep, SwitchTypeStep, DetachedStep, RolesStep, ReadOnlyStep, WriterStep DEF IndInv, TypeOK
<1> QED
  BY <1>1, InitInv, PTL DEF Spec

\* Every variable of a switch and of its servers keeps its type.
THEOREM TypeCorrect == Spec => []TypeOK
<1>1. IndInv => TypeOK
  BY DEF IndInv
<1> QED
  BY <1>1, IndInvHolds, PTL

\* switchAsync never leaves, and never passes through, a state with two writable servers,
\* whichever statement fails and whether or not it ran, and wherever the process dies.
THEOREM SingleWriter == Spec => []AtMostOneWriter
<1>1. IndInv => AtMostOneWriter
  BY DEF IndInv
<1> QED
  BY <1>1, IndInvHolds, PTL

-----------------------------------------------------------------------------
(* What the binlogs hold.                                                    *)

\* Appending to a sequence keeps what it had and ends with the new element.
LEMMA AppendFacts ==
    ASSUME NEW S, NEW s \in Seq(S), NEW e \in S
    PROVE  /\ Append(s, e) \in Seq(S) /\ Len(Append(s, e)) = Len(s) + 1
           /\ \A i \in 1..Len(s) : Append(s, e)[i] = s[i]
           /\ Append(s, e)[Len(s) + 1] = e
OBVIOUS

\* A server may append what any longer binlog has at that place and its own has not yet.
LEMMA GrowLog ==
    ASSUME ServerType, Agree, NoDuplicate, NEW m \in Members, NEW t \in Txns,
           binlog' = [binlog EXCEPT ![m] = Append(@, t)],
           \A n \in Members : Len(binlog[n]) > Len(binlog[m]) => binlog[n][Len(binlog[m]) + 1] = t,
           \A i \in 1..Len(binlog[m]) : binlog[m][i] # t
    PROVE  /\ Agree' /\ NoDuplicate'
           /\ Len(binlog'[m]) = Len(binlog[m]) + 1
           /\ \A n \in Members : n # m => binlog'[n] = binlog[n]
<1> DEFINE L == Len(binlog[m])
<1>1. /\ \A n \in Members : Len(binlog[n]) \in Nat
      /\ \A n \in Members : n # m => binlog'[n] = binlog[n]
  BY DEF ServerType
<1>2. /\ Len(binlog'[m]) = L + 1 /\ binlog'[m][L + 1] = t
      /\ \A i \in 1..L : binlog'[m][i] = binlog[m][i]
  <2>1. binlog[m] \in Seq(Txns) /\ binlog'[m] = Append(binlog[m], t)
    BY DEF ServerType
  <2> QED
    BY <2>1, AppendFacts
<1>3. L \in Nat
  BY <1>1
<1> HIDE DEF L
<1>4. Agree'
  <2> SUFFICES ASSUME NEW a \in Members, NEW b \in Members, NEW i \in 1..Len(binlog'[a]),
                      i <= Len(binlog'[b])
               PROVE  binlog'[a][i] = binlog'[b][i]
    BY DEF Agree
  <2>1. CASE a # m /\ b # m
    BY <1>1, <2>1 DEF Agree
  <2>2. CASE a = m /\ b = m
    BY <2>2
  <2>3. CASE a = m /\ b # m
    <3>1. i \in 1..(L + 1) /\ i <= Len(binlog[b]) /\ binlog'[b] = binlog[b]
      BY <1>1, <1>2, <2>3
    <3>2. CASE i \in 1..L
      BY <1>1, <1>2, <2>3, <3>1, <3>2 DEF Agree, L
    <3>3. CASE i = L + 1
      BY <1>1, <1>2, <1>3, <2>3, <3>1, <3>3 DEF L
    <3> QED
      BY <1>3, <3>1, <3>2, <3>3
  <2>4. CASE a # m /\ b = m
    <3>1. i \in 1..Len(binlog[a]) /\ i <= L + 1 /\ binlog'[a] = binlog[a]
      BY <1>1, <1>2, <2>4
    <3>2. CASE i <= L
      BY <1>1, <1>2, <1>3, <2>4, <3>1, <3>2 DEF Agree, L
    <3>3. CASE i = L + 1
      BY <1>1, <1>2, <1>3, <2>4, <3>1, <3>3 DEF L
    <3> QED
      BY <1>1, <1>3, <3>1, <3>2, <3>3
  <2> QED
    BY <2>1, <2>2, <2>3, <2>4
<1>5. NoDuplicate'
  <2> SUFFICES ASSUME NEW a \in Members, NEW i \in 1..Len(binlog'[a]), NEW j \in 1..Len(binlog'[a]),
                      binlog'[a][i] = binlog'[a][j]
               PROVE  i = j
    BY DEF NoDuplicate
  <2>1. CASE a # m
    BY <1>1, <2>1 DEF NoDuplicate
  <2>2. CASE a = m
    <3>1. i \in 1..(L + 1) /\ j \in 1..(L + 1)
      BY <1>2, <2>2
    <3>2. CASE i \in 1..L /\ j \in 1..L
      BY <1>2, <2>2, <3>2 DEF NoDuplicate, L
    <3>3. CASE i = L + 1 /\ j = L + 1
      BY <3>3
    <3>4. CASE i = L + 1 /\ j \in 1..L
      BY <1>2, <2>2, <3>4 DEF L
    <3>5. CASE i \in 1..L /\ j = L + 1
      BY <1>2, <2>2, <3>5 DEF L
    <3> QED
      BY <1>3, <3>1, <3>2, <3>3, <3>4, <3>5
  <2> QED
    BY <2>1, <2>2
<1> QED
  BY <1>1, <1>2, <1>4, <1>5 DEF L

\* What a replica applies is what its source has right behind the replica's own last
\* transaction: with GTIDs because the binlogs agree, without because of its position.
LEMMA ReplicateNext ==
    ASSUME TypeOK, LogInv, NEW m \in Members, Replicate(m)
    PROVE  /\ source[m] \in Members /\ Len(binlog[m]) < Len(binlog[source[m]])
           /\ binlog[source[m]][Len(binlog[m]) + 1] \in Txns
           /\ binlog' = [binlog EXCEPT ![m] = Append(@, binlog[source[m]][Len(binlog[m]) + 1])]
           /\ ~gtid => pos' = [pos EXCEPT ![m] = Len(binlog[m]) + 1]
<1> DEFINE s == source[m]
           log == binlog[s]
           L == Len(binlog[m])
<1>1. s \in Members /\ log \in Seq(Txns) /\ binlog[m] \in Seq(Txns) /\ L \in Nat /\ L <= Len(log)
  BY DEF Replicate, TypeOK, ServerType, LogInv, SourceAhead
<1>2. CASE ~gtid
  <2>1. pos[m] = L /\ pos \in [Members -> Nat]
    BY <1>1, <1>2 DEF LogInv, SourceAhead, TypeOK, ServerType, Replicate
  <2>2. L < Len(log) /\ binlog' = [binlog EXCEPT ![m] = Append(@, log[L + 1])]
    BY <1>2, <2>1 DEF Replicate
  <2>3. pos' = [pos EXCEPT ![m] = L + 1]
    BY <1>2, <2>1 DEF Replicate
  <2> HIDE DEF L
  <2>4. log[L + 1] \in Txns
    BY <1>1, <2>2 DEF L
  <2> QED
    BY <1>1, <2>2, <2>3, <2>4 DEF L
<1>3. CASE gtid
  <2>1. PICK i \in 1..Len(log) :
           /\ log[i] \notin Committed(m)
           /\ \A j \in 1..(i - 1) : log[j] \in Committed(m)
           /\ binlog' = [binlog EXCEPT ![m] = Append(@, log[i])]
    BY <1>3 DEF Replicate
  <2>2. \A j \in 1..L : log[j] = binlog[m][j]
    BY <1>1 DEF LogInv, Agree
  <2>3. i > L
    <3>1. \A j \in 1..L : binlog[m][j] \in Committed(m)
      BY DEF Committed
    <3> QED
      BY <1>1, <2>1, <2>2, <3>1
  <2>4. i = L + 1
    <3> SUFFICES ASSUME i # L + 1 PROVE FALSE
      OBVIOUS
    <3>1. L + 1 \in 1..(i - 1) /\ L + 1 \in 1..Len(log)
      BY <1>1, <2>3
    <3>2. log[L + 1] \in Committed(m)
      BY <2>1, <3>1
    <3>3. PICK k \in 1..L : log[L + 1] = binlog[m][k]
      BY <3>2 DEF Committed
    <3>4. log[L + 1] = log[k] /\ k \in 1..Len(log)
      BY <1>1, <2>2, <3>1, <3>3
    <3>5. k = L + 1
      BY <1>1, <3>1, <3>4 DEF LogInv, NoDuplicate
    <3> QED
      BY <1>1, <3>3, <3>5
  <2>5. log[L + 1] \in Txns /\ L < Len(log)
    BY <1>1, <2>1, <2>4
  <2> QED
    BY <1>1, <1>3, <2>1, <2>4, <2>5
<1> QED
  BY <1>2, <1>3

\* What a step that writes to no binlog has to keep.
LEMMA LogFrame ==
    /\ LogInv /\ UNCHANGED binlog => Agree' /\ NoDuplicate'
    /\ LogInv /\ UNCHANGED <<gtid, binlog, source, pos>> => SourceAhead'
    /\ LogInv /\ UNCHANGED <<gtid, binlog, ro, source, pos>> => LogInv'
BY DEF LogInv, Agree, NoDuplicate, SourceAhead, WriterAhead

\* Clients append behind everybody, replicas behind themselves, and a switch changes the writer
\* and the sources only where nobody is ahead.
LEMMA LogStep == IndInv /\ DataInv /\ [Next]_vars => LogInv'
<1> SUFFICES ASSUME IndInv /\ DataInv, [Next]_vars PROVE LogInv'
  OBVIOUS
<1>0. LogInv
  BY DEF DataInv
<1>1. ASSUME NEW m \in Members, NEW t \in Txns, ClientCommit(m, t) PROVE LogInv'
  <2>1. ~ro[m] /\ t \notin acked /\ binlog' = [binlog EXCEPT ![m] = Append(@, t)]
        /\ UNCHANGED <<gtid, ro, source, pos>>
    BY <1>1 DEF ClientCommit
  <2>2. \A n \in Members : Len(binlog[n]) <= Len(binlog[m]) /\ Len(binlog[n]) \in Nat
    BY <2>1 DEF IndInv, TypeOK, ServerType, DataInv, LogInv, WriterAhead
  <2>3. \A i \in 1..Len(binlog[m]) : binlog[m][i] # t
    <3>1. t \notin Committed(m)
      BY <2>1 DEF acked
    <3> QED
      BY <3>1 DEF Committed
  <2>4. /\ Agree' /\ NoDuplicate' /\ Len(binlog'[m]) = Len(binlog[m]) + 1
        /\ \A n \in Members : n # m => binlog'[n] = binlog[n]
    <3>1. ServerType /\ Agree /\ NoDuplicate
      BY DEF IndInv, TypeOK, DataInv, LogInv
    <3>2. \A n \in Members : ~(Len(binlog[n]) > Len(binlog[m]))
      BY <2>2
    <3> QED
      BY <2>1, <2>3, <3>1, <3>2, GrowLog
  <2>5. SourceAhead'
    <3> SUFFICES ASSUME NEW n \in Members, source[n] # None
                 PROVE  Len(binlog'[n]) <= Len(binlog'[source[n]]) /\ (gtid \/ pos[n] = Len(binlog'[n]))
      BY <2>1 DEF SourceAhead
    <3>1. source[n] \in Members /\ n # m
      BY <2>1 DEF IndInv, TypeOK, ServerType, WriterDetached
    <3>2. Len(binlog[n]) <= Len(binlog[source[n]]) /\ (gtid \/ pos[n] = Len(binlog[n]))
      BY DEF DataInv, LogInv, SourceAhead
    <3>3. CASE source[n] = m
      BY <2>2, <2>4, <3>1, <3>2, <3>3
    <3>4. CASE source[n] # m
      BY <2>4, <3>1, <3>2, <3>4
    <3> QED
      BY <3>3, <3>4
  <2>6. WriterAhead'
    <3> SUFFICES ASSUME NEW a \in Members, NEW b \in Members, ~ro[a]
                 PROVE  Len(binlog'[b]) <= Len(binlog'[a])
      BY <2>1 DEF WriterAhead
    <3>1. a = m
      BY <2>1 DEF IndInv, AtMostOneWriter
    <3> QED
      BY <2>2, <2>4, <3>1
  <2> QED
    BY <2>4, <2>5, <2>6 DEF LogInv
<1>2. ASSUME NEW m \in Members, Replicate(m) PROVE LogInv'
  <2> DEFINE s == source[m]
             L == Len(binlog[m])
             t == binlog[s][L + 1]
  <2>1. /\ s \in Members /\ L < Len(binlog[s]) /\ t \in Txns
        /\ binlog' = [binlog EXCEPT ![m] = Append(@, t)]
        /\ ~gtid => pos' = [pos EXCEPT ![m] = L + 1]
        /\ gtid => pos' = pos
        /\ UNCHANGED <<gtid, ro, source>>
    BY <1>2, ReplicateNext DEF Replicate, IndInv, DataInv
  <2>2. \A n \in Members : Len(binlog[n]) \in Nat
    BY DEF IndInv, TypeOK, ServerType
  <2>3. \A n \in Members : Len(binlog[n]) > L => binlog[n][L + 1] = t
    BY <2>1, <2>2 DEF DataInv, LogInv, Agree
  <2>4. \A i \in 1..L : binlog[m][i] # t
    <3> SUFFICES ASSUME NEW i \in 1..L, binlog[m][i] = t PROVE FALSE
      OBVIOUS
    <3>1. binlog[s][i] = t /\ i \in 1..Len(binlog[s]) /\ L + 1 \in 1..Len(binlog[s])
      BY <2>1, <2>2 DEF DataInv, LogInv, Agree
    <3>2. i = L + 1
      BY <2>1, <3>1 DEF DataInv, LogInv, NoDuplicate
    <3> QED
      BY <2>2, <3>2
  <2>5. /\ Agree' /\ NoDuplicate' /\ Len(binlog'[m]) = L + 1
        /\ \A n \in Members : n # m => binlog'[n] = binlog[n]
    <3>1. ServerType /\ Agree /\ NoDuplicate
      BY DEF IndInv, TypeOK, DataInv, LogInv
    <3> HIDE DEF t
    <3> QED
      BY <2>1, <2>3, <2>4, <3>1, GrowLog
  <2>6. s # m
    BY <2>1, <2>2
  <2>p. pos \in [Members -> Nat]
    BY DEF IndInv, TypeOK, ServerType
  <2> HIDE DEF t
  <2>7. SourceAhead'
    <3> SUFFICES ASSUME NEW n \in Members, source[n] # None
                 PROVE  Len(binlog'[n]) <= Len(binlog'[source[n]]) /\ (gtid \/ pos'[n] = Len(binlog'[n]))
      BY <2>1 DEF SourceAhead
    <3>1. source[n] \in Members
      BY DEF IndInv, TypeOK, ServerType
    <3>2. Len(binlog[n]) <= Len(binlog[source[n]]) /\ (gtid \/ pos[n] = Len(binlog[n]))
      BY DEF DataInv, LogInv, SourceAhead
    <3>3. CASE n = m
      <4>1. Len(binlog'[n]) <= Len(binlog'[source[n]])
        BY <2>1, <2>2, <2>5, <2>6, <3>3
      <4>2. gtid \/ pos'[n] = Len(binlog'[n])
        BY <2>1, <2>p, <2>5, <3>3
      <4> QED
        BY <4>1, <4>2
    <3>4. CASE n # m
      <4>1. Len(binlog'[n]) = Len(binlog[n]) /\ Len(binlog'[source[n]]) >= Len(binlog[source[n]])
        BY <2>2, <2>5, <3>1, <3>4
      <4>2. pos'[n] = pos[n]
        BY <2>1, <2>p, <3>4
      <4>3. Len(binlog'[source[n]]) \in Nat
        BY <2>2, <2>5, <3>1
      <4> QED
        BY <2>2, <3>1, <3>2, <4>1, <4>2, <4>3
    <3> QED
      BY <3>3, <3>4
  <2>8. WriterAhead'
    <3> SUFFICES ASSUME NEW a \in Members, NEW b \in Members, ~ro[a]
                 PROVE  Len(binlog'[b]) <= Len(binlog'[a])
      BY <2>1 DEF WriterAhead
    <3>1. a # m /\ Len(binlog[b]) <= Len(binlog[a]) /\ Len(binlog[s]) <= Len(binlog[a])
      BY <1>2, <2>1 DEF Replicate, IndInv, WriterDetached, DataInv, LogInv, WriterAhead
    <3> QED
      BY <2>1, <2>2, <2>5, <3>1
  <2> QED
    BY <2>5, <2>7, <2>8 DEF LogInv
<1>3. ASSUME NEW m \in Members, ReplicationBreaks(m) PROVE LogInv'
  <2>1. UNCHANGED <<gtid, binlog, ro, source, pos>>
    BY <1>3 DEF ReplicationBreaks, locals
  <2> QED
    BY <2>1, <1>0, LogFrame
<1>4. ASSUME NEW m \in Members, Promote(m) PROVE LogInv'
  <2>1. UNCHANGED <<gtid, binlog, ro, source, pos>>
    BY <1>4 DEF Promote, NextPhase, End, locals, servers
  <2> QED
    BY <2>1, <1>0, LogFrame
<1>5. ASSUME NEW m \in Members, Preflight(m) PROVE LogInv'
  <2>1. UNCHANGED <<gtid, binlog, ro, source, pos>>
    BY <1>5 DEF Preflight, Visited, NextPhase, End, locals, servers
  <2> QED
    BY <2>1, <1>0, LogFrame
<1>6. ASSUME NEW m \in Members, Wait(m) PROVE LogInv'
  <2>1. UNCHANGED <<gtid, binlog, ro, source, pos>>
    BY <1>6 DEF Wait, Visited, NextPhase, Replicas, servers
  <2> QED
    BY <2>1, <1>0, LogFrame
<1>7. ASSUME NEW m \in Members, Stop(m) PROVE LogInv'
  <2>1. UNCHANGED <<gtid, binlog, ro, source, pos>>
    BY <1>7 DEF Stop, Visited, NextPhase
  <2> QED
    BY <2>1, <1>0, LogFrame
<1>8. ASSUME NEW m \in Members, Follow(m) PROVE LogInv'
  <2>1. UNCHANGED <<gtid, binlog>> /\ cand \in Members /\ m \in Members /\ Ready(m)
    BY <1>8 DEF Follow, IndInv, RolesInv, DataInv, RepointInv, Followers
  <2>2. \/ UNCHANGED <<source, pos>>
        \/ source' = [source EXCEPT ![m] = cand] /\ pos' = [pos EXCEPT ![m] = cPos]
    BY <1>8 DEF Follow, Repoint
  <2>3. \A a \in Members : ~ro'[a] => ~ro[a]
    BY <1>8, <2>1 DEF Follow, IndInv, TypeOK, ServerType
  <2>4. WriterAhead'
    BY <2>1, <2>3 DEF DataInv, LogInv, WriterAhead
  <2>5. SourceAhead'
    <3>1. \A n \in Members : \/ source'[n] = source[n] /\ pos'[n] = pos[n]
                             \/ n = m /\ source'[n] = cand /\ pos'[n] = cPos
      BY <2>1, <2>2 DEF IndInv, TypeOK, ServerType
    <3>2. Len(binlog[m]) <= Len(binlog[cand]) /\ (gtid \/ cPos = Len(binlog[m]))
      BY <2>1 DEF Ready
    <3> QED
      BY <2>1, <3>1, <3>2 DEF DataInv, LogInv, SourceAhead
  <2> QED
    BY <2>1, <2>4, <2>5, <1>0, LogFrame DEF LogInv
<1>9. ASSUME NEW m \in Members, Verify(m) PROVE LogInv'
  <2>1. UNCHANGED <<gtid, binlog, ro, source, pos>>
    BY <1>9 DEF Verify, NextPhase, servers
  <2> QED
    BY <2>1, <1>0, LogFrame
<1>10. ASSUME Freeze PROVE LogInv'
  <2>1. UNCHANGED <<gtid, binlog, source, pos>>
    BY <1>10 DEF Freeze
  <2>2. \A a \in Members : ~ro'[a] => ~ro[a]
    BY <1>10 DEF Freeze, IndInv, TypeOK, ServerType

  <2>3. WriterAhead'
    BY <2>1, <2>2 DEF DataInv, LogInv, WriterAhead
  <2> QED
    BY <2>1, <2>3, <1>0, LogFrame DEF LogInv
<1>11. ASSUME Position PROVE LogInv'
  <2>1. UNCHANGED <<gtid, binlog, ro, source, pos>>
    BY <1>11 DEF Position, NextPhase, Replicas, servers
  <2> QED
    BY <2>1, <1>0, LogFrame
<1>12. ASSUME CandidatePosition PROVE LogInv'
  <2>1. UNCHANGED <<gtid, binlog, ro, source, pos>>
    BY <1>12 DEF CandidatePosition, NextPhase, servers
  <2> QED
    BY <2>1, <1>0, LogFrame
<1>13. ASSUME MakeWritable PROVE LogInv'
  <2>1. UNCHANGED <<gtid, binlog>> /\ cand \in Members /\ prim \in Members
    BY <1>13 DEF MakeWritable, IndInv, RolesInv
  <2>2. \/ UNCHANGED <<source, pos>>
        \/ source' = [source EXCEPT ![cand] = None] /\ pos' = [pos EXCEPT ![cand] = 0]
    BY <1>13 DEF MakeWritable
  <2>3. ro' = ro \/ ro' = [ro EXCEPT ![cand] = FALSE]
    BY <1>13 DEF MakeWritable
  <2>4. \A a, b \in Members : Len(binlog[a]) = Len(binlog[b])
    <3>1. \A a \in Members : Len(binlog[a]) = Len(binlog[prim])
      BY <1>13, <2>1 DEF MakeWritable, DataInv, CaughtUpInv, Level, Replicas
    <3> QED
      BY <2>1, <3>1
  <2>5. WriterAhead'
    <3>1. \A a \in Members : Len(binlog[a]) \in Nat
      BY DEF IndInv, TypeOK, ServerType
    <3> QED
      BY <2>1, <2>4, <3>1 DEF WriterAhead
  <2>6. SourceAhead'
    <3>1. \A n \in Members : source'[n] # None => source'[n] = source[n] /\ pos'[n] = pos[n]
      BY <2>1, <2>2 DEF IndInv, TypeOK, ServerType
    <3> QED
      BY <2>1, <3>1 DEF DataInv, LogInv, SourceAhead
  <2> QED
    BY <2>1, <2>5, <2>6, <1>0, LogFrame DEF LogInv
<1>14. ASSUME Demote PROVE LogInv'
  <2>1. UNCHANGED <<gtid, binlog>> /\ cand \in Members /\ prim \in Members /\ Ready(prim)
    BY <1>14 DEF Demote, IndInv, RolesInv, DataInv, RepointInv, Followers
  <2>2. \/ UNCHANGED <<source, pos>>
        \/ source' = [source EXCEPT ![prim] = cand] /\ pos' = [pos EXCEPT ![prim] = cPos]
    BY <1>14 DEF Demote, Repoint
  <2>3. \A a \in Members : ~ro'[a] => ~ro[a]
    BY <1>14, <2>1 DEF Demote, IndInv, TypeOK, ServerType
  <2>4. WriterAhead'
    BY <2>1, <2>3 DEF DataInv, LogInv, WriterAhead
  <2>5. SourceAhead'
    <3>1. \A n \in Members : \/ source'[n] = source[n] /\ pos'[n] = pos[n]
                             \/ n = prim /\ source'[n] = cand /\ pos'[n] = cPos
      BY <2>1, <2>2 DEF IndInv, TypeOK, ServerType
    <3>2. Len(binlog[prim]) <= Len(binlog[cand]) /\ (gtid \/ cPos = Len(binlog[prim]))
      BY <2>1 DEF Ready
    <3> QED
      BY <2>1, <3>1, <3>2 DEF DataInv, LogInv, SourceAhead
  <2> QED
    BY <2>1, <2>4, <2>5, <1>0, LogFrame DEF LogInv
<1>15. ASSUME StartAgain PROVE LogInv'
  <2>1. UNCHANGED <<gtid, binlog, ro, source, pos>>
    BY <1>15 DEF StartAgain, Started
  <2> QED
    BY <2>1, <1>0, LogFrame
<1>16. ASSUME Unfreeze PROVE LogInv'
  <2>1. UNCHANGED <<gtid, binlog, source, pos>>
    BY <1>16 DEF Unfreeze
  <2>2. \A a \in Members : ~ro'[a] => a = prim
    BY <1>16 DEF Unfreeze, IndInv, TypeOK, ServerType, ReadOnlyInv, Frozen

  <2>3. \A b \in Members : Len(binlog[b]) <= Len(binlog[prim])
    <3> SUFFICES ASSUME NEW b \in Members, b # prim PROVE Len(binlog[b]) <= Len(binlog[prim])
      BY <1>16 DEF Unfreeze, IndInv, RolesInv, TypeOK, ServerType
    <3>1. source[b] = prim /\ prim \in Members
      BY <1>16 DEF Unfreeze, IndInv, RolesInv, DataInv, AttachedInv, Frozen, Replicas
    <3> QED
      BY <3>1, GroupAssumption DEF DataInv, LogInv, SourceAhead
  <2>4. WriterAhead'
    BY <2>1, <2>2, <2>3 DEF WriterAhead
  <2> QED
    BY <2>1, <2>4, <1>0, LogFrame DEF LogInv
<1>17. ASSUME DeadlinePasses PROVE LogInv'
  <2>1. UNCHANGED <<gtid, binlog, ro, source, pos>>
    BY <1>17 DEF DeadlinePasses, servers, locals
  <2> QED
    BY <2>1, <1>0, LogFrame
<1>18. ASSUME ServerDies PROVE LogInv'
  <2>1. UNCHANGED <<gtid, binlog, ro, source, pos>>
    BY <1>18 DEF ServerDies, End, servers, locals
  <2> QED
    BY <2>1, <1>0, LogFrame
<1>19. CASE UNCHANGED vars
  <2>1. UNCHANGED <<gtid, binlog, ro, source, pos>>
    BY <1>19 DEF vars, servers
  <2> QED
    BY <2>1, <1>0, LogFrame
<1> QED
  BY <1>1, <1>2, <1>3, <1>4, <1>5, <1>6, <1>7, <1>8, <1>9, <1>10, <1>11, <1>12, <1>13, <1>14, <1>15, <1>16, <1>17, <1>18, <1>19 DEF Next, SwitchStep

\* Nobody but the switch changes a source, and it does so only after the promotion.
LEMMA AttachedStep == IndInv /\ DataInv /\ [Next]_vars => AttachedInv'
<1> SUFFICES ASSUME IndInv /\ DataInv, [Next]_vars PROVE AttachedInv'
  OBVIOUS
<1> USE GroupAssumption DEF IndInv, DataInv, TypeOK, ServerType, SwitchType, RolesInv, Before, Frozen, Forward, Replicas, AttachedInv
<1>1. ASSUME NEW m \in Members, NEW t \in Txns, ClientCommit(m, t) PROVE AttachedInv'
  BY <1>1 DEF ClientCommit, locals, bounds
<1>2. ASSUME NEW m \in Members, Replicate(m) PROVE AttachedInv'
  BY <1>2 DEF Replicate, locals, bounds
<1>3. ASSUME NEW m \in Members, ReplicationBreaks(m) PROVE AttachedInv'
  BY <1>3 DEF ReplicationBreaks, locals
<1>4. ASSUME NEW m \in Members, Promote(m) PROVE AttachedInv'
  <2>1. CASE End("refused")
    BY <2>1 DEF End
  <2>2. ASSUME NEW p \in Members, prim' = p, NextPhase("preflight", Members \ {p})
        PROVE AttachedInv'
    BY <2>2 DEF NextPhase
  <2> QED
    BY <1>4, <2>1, <2>2 DEF Promote
<1>5. ASSUME NEW m \in Members, Preflight(m) PROVE AttachedInv'
  BY <1>5 DEF Preflight, Visited, NextPhase, End, locals, servers
<1>6. ASSUME NEW m \in Members, Wait(m) PROVE AttachedInv'
  BY <1>6 DEF Wait, Visited, NextPhase, Replicas, servers
<1>7. ASSUME NEW m \in Members, Stop(m) PROVE AttachedInv'
  BY <1>7 DEF Stop, Visited, NextPhase
<1>8. ASSUME NEW m \in Members, Follow(m) PROVE AttachedInv'
  BY <1>8 DEF Follow, Visited, NextPhase, Repoint, Started, Followers
<1>9. ASSUME NEW m \in Members, Verify(m) PROVE AttachedInv'
  BY <1>9 DEF Verify, NextPhase, servers
<1>10. ASSUME Freeze PROVE AttachedInv'
  BY <1>10 DEF Freeze, NextPhase, End, locals
<1>11. ASSUME Position PROVE AttachedInv'
  BY <1>11 DEF Position, NextPhase, Replicas, servers
<1>12. ASSUME CandidatePosition PROVE AttachedInv'
  BY <1>12 DEF CandidatePosition, NextPhase, servers
<1>13. ASSUME MakeWritable PROVE AttachedInv'
  BY <1>13 DEF MakeWritable, NextPhase, End, locals
<1>14. ASSUME Demote PROVE AttachedInv'
  BY <1>14 DEF Demote, NextPhase, Repoint, Started, Followers
<1>15. ASSUME StartAgain PROVE AttachedInv'
  BY <1>15 DEF StartAgain, Started
<1>16. ASSUME Unfreeze PROVE AttachedInv'
  BY <1>16 DEF Unfreeze
<1>17. ASSUME DeadlinePasses PROVE AttachedInv'
  BY <1>17 DEF DeadlinePasses, servers, locals
<1>18. ASSUME ServerDies PROVE AttachedInv'
  BY <1>18 DEF ServerDies, End, servers, locals
<1>19. CASE UNCHANGED vars
  BY <1>19 DEF vars, servers, locals, bounds
<1> QED
  BY <1>1, <1>2, <1>3, <1>4, <1>5, <1>6, <1>7, <1>8, <1>9, <1>10, <1>11, <1>12, <1>13, <1>14, <1>15, <1>16, <1>17, <1>18, <1>19 DEF Next, SwitchStep

\* A replica that has reached the primary's end has everything the primary has.
LEMMA ReachedIsLevel ==
    ASSUME IndInv, DataInv, pc = "wait", NEW m \in Replicas, Reached(m)
    PROVE  Level(m)
<1> DEFINE P == Len(binlog[prim])
           L == Len(binlog[m])
<1>1. m \in Members /\ prim \in Members /\ source[m] = prim
  BY DEF IndInv, RolesInv, DataInv, AttachedInv, Replicas, Frozen
<1>2. L \in Nat /\ P \in Nat /\ L <= P /\ (gtid \/ pos[m] = L)
  BY <1>1, GroupAssumption DEF IndInv, TypeOK, ServerType, DataInv, LogInv, SourceAhead
<1>3. CASE ~gtid
  <2>1. pos[m] >= P
    BY <1>3 DEF Reached, DataInv, CaughtUpInv
  <2> QED
    BY <1>2, <1>3, <2>1 DEF Level
<1>4. CASE gtid
  <2> SUFFICES ASSUME L # P PROVE FALSE
    BY DEF Level
  <2>1. P \in 1..P /\ L < P
    BY <1>2
  <2>2. binlog[prim][P] \in Committed(prim)
    BY <2>1 DEF Committed
  <2>3. binlog[prim][P] \in Committed(m)
    BY <1>4, <2>2 DEF Reached, DataInv, CaughtUpInv
  <2>4. PICK i \in 1..L : binlog[prim][P] = binlog[m][i]
    BY <2>3 DEF Committed
  <2>5. binlog[m][i] = binlog[prim][i] /\ i \in 1..P
    BY <1>1, <1>2, <2>1, <2>4 DEF DataInv, LogInv, Agree
  <2>6. i = P
    BY <1>1, <2>1, <2>4, <2>5 DEF DataInv, LogInv, NoDuplicate
  <2> QED
    BY <1>2, <2>1, <2>4, <2>6
<1> QED
  BY <1>3, <1>4

\* While the group is frozen, what the primary has and who is level with it does not change.
LEMMA FrozenLogs ==
    ASSUME IndInv, DataInv, pc \in Frozen, NEW m \in Members, Replicate(m)
    PROVE  /\ m # prim /\ ~Level(m) /\ Still(m) = FALSE
           /\ \A n \in Members : n # m => binlog'[n] = binlog[n]
<1>1. /\ source[m] \in Members /\ Len(binlog[m]) < Len(binlog[source[m]])
      /\ binlog' = [binlog EXCEPT ![m] = Append(@, binlog[source[m]][Len(binlog[m]) + 1])]
  BY ReplicateNext DEF IndInv, DataInv
<1>2. m # prim /\ source[m] = prim
  BY <1>1, GroupAssumption DEF IndInv, RolesInv, DataInv, AttachedInv, Replicas
<1>3. ~Level(m)
  BY <1>1, <1>2 DEF Level, IndInv, TypeOK, ServerType
<1>4. Still(m) = FALSE
  BY DEF Still, Replicate, IndInv, TypeOK, ServerType
<1>5. \A n \in Members : n # m => binlog'[n] = binlog[n]
  BY <1>1 DEF IndInv, TypeOK, ServerType
<1> QED
  BY <1>2, <1>3, <1>4, <1>5

\* From the position on the frozen primary's binlog stands still, and a replica that was level
\* with it stays so.
LEMMA CaughtUpStep == IndInv /\ DataInv /\ [Next]_vars => CaughtUpInv'
<1> SUFFICES ASSUME IndInv /\ DataInv, [Next]_vars PROVE CaughtUpInv'
  OBVIOUS
<1>1. ASSUME NEW m \in Members, NEW t \in Txns, ClientCommit(m, t) PROVE CaughtUpInv'
  <2>1. pc \notin Frozen /\ UNCHANGED pc
    BY <1>1 DEF ClientCommit, IndInv, ReadOnlyInv
  <2> QED
    BY <2>1 DEF CaughtUpInv, Frozen
<1>2. ASSUME NEW m \in Members, Replicate(m) PROVE CaughtUpInv'
  <2>1. CASE pc \notin Frozen
    BY <1>2, <2>1 DEF Replicate, locals, CaughtUpInv, Frozen
  <2>2. CASE pc \in Frozen
    <3>1. /\ m # prim /\ ~Level(m)
          /\ \A n \in Members : n # m => binlog'[n] = binlog[n]
      BY <1>2, <2>2, FrozenLogs
    <3>2. prim \in Members /\ UNCHANGED <<pc, prim, todo, endSet, endPos>>
      BY <1>2, <2>2 DEF Replicate, locals, IndInv, RolesInv, Frozen
    <3>3. binlog'[prim] = binlog[prim]
      BY <3>1, <3>2
    <3>4. \A n \in Replicas : Level(n) => Level(n)'
      BY <3>1, <3>2, <3>3 DEF Replicas, Level
    <3>5. Committed(prim)' = Committed(prim)
      BY <3>2, <3>3 DEF Committed
    <3> QED
      BY <3>2, <3>3, <3>4, <3>5 DEF DataInv, CaughtUpInv, Replicas
  <2> QED
    BY <2>1, <2>2
<1>3. ASSUME NEW m \in Members, ReplicationBreaks(m) PROVE CaughtUpInv'
  <2>1. UNCHANGED binlog /\ UNCHANGED prim /\ (pc' = pc \/ pc' \notin {"wait", "stop", "candpos", "promote"})
        /\ (pc = "wait" => UNCHANGED <<todo, endSet, endPos>> \/ pc' # "wait")
    BY <1>3 DEF ReplicationBreaks, locals
  <2> QED
    BY <2>1 DEF DataInv, CaughtUpInv, Level, Committed, Replicas
<1>4. ASSUME NEW m \in Members, Promote(m) PROVE CaughtUpInv'
  <2>1. pc' \in {"idle", "preflight"}
    BY <1>4 DEF Promote, End, NextPhase
  <2> QED
    BY <2>1 DEF CaughtUpInv
<1>5. ASSUME NEW m \in Members, Preflight(m) PROVE CaughtUpInv'
  <2>1. UNCHANGED binlog /\ UNCHANGED prim /\ (pc' = pc \/ pc' \notin {"wait", "stop", "candpos", "promote"})
        /\ (pc = "wait" => UNCHANGED <<todo, endSet, endPos>> \/ pc' # "wait")
    BY <1>5 DEF Preflight, Visited, NextPhase, End, locals, servers
  <2> QED
    BY <2>1 DEF DataInv, CaughtUpInv, Level, Committed, Replicas
<1>6. ASSUME NEW m \in Members, Wait(m) PROVE CaughtUpInv'
  <2>1. UNCHANGED <<binlog, prim, endSet, endPos>> /\ pc = "wait" /\ m \in todo
    BY <1>6 DEF Wait, servers
  <2>2. \A n \in Replicas : Level(n)' = Level(n)
    BY <2>1 DEF Level
  <2>3. Committed(prim)' = Committed(prim) /\ Replicas' = Replicas
    BY <2>1 DEF Committed, Replicas
  <2>4. CASE pc' = "unfreeze"
    BY <2>4 DEF CaughtUpInv
  <2>5. CASE Reached(m) /\ Visited(m, "stop", Replicas)
    <3>1. \A n \in Replicas : n = m => Level(n)
      BY <2>1, <2>5, ReachedIsLevel
    <3>2. CASE todo = {m} /\ pc' = "stop"
      <4>1. \A n \in Replicas : Level(n)
        BY <2>1, <3>1, <3>2 DEF DataInv, CaughtUpInv
      <4> QED
        BY <2>2, <2>3, <3>2, <4>1 DEF CaughtUpInv
    <3>3. CASE pc' = "wait" /\ todo' = todo \ {m}
      <4>1. \A n \in Replicas \ todo' : Level(n)
        BY <2>1, <3>1, <3>3 DEF DataInv, CaughtUpInv
      <4>2. endSet' = Committed(prim)' /\ endPos' = Len(binlog'[prim'])
        BY <2>1, <2>3 DEF DataInv, CaughtUpInv
      <4> QED
        BY <2>2, <2>3, <3>3, <4>1, <4>2 DEF CaughtUpInv
    <3> QED
      BY <2>1, <2>5, <3>2, <3>3 DEF Visited, NextPhase
  <2> QED
    BY <1>6, <2>4, <2>5 DEF Wait
<1>7. ASSUME NEW m \in Members, Stop(m) PROVE CaughtUpInv'
  <2>1. UNCHANGED <<binlog, prim>> /\ pc = "stop" /\ pc' \in {"stop", "candpos", "promote", "restart"}
    BY <1>7 DEF Stop, Visited, NextPhase
  <2> QED
    BY <2>1 DEF DataInv, CaughtUpInv, Level, Replicas
<1>8. ASSUME NEW m \in Members, Follow(m) PROVE CaughtUpInv'
  <2>1. UNCHANGED binlog /\ UNCHANGED prim /\ (pc' = pc \/ pc' \notin {"wait", "stop", "candpos", "promote"})
        /\ (pc = "wait" => UNCHANGED <<todo, endSet, endPos>> \/ pc' # "wait")
    BY <1>8 DEF Follow, Visited, NextPhase, Repoint, Started, Followers
  <2> QED
    BY <2>1 DEF DataInv, CaughtUpInv, Level, Committed, Replicas
<1>9. ASSUME NEW m \in Members, Verify(m) PROVE CaughtUpInv'
  <2>1. UNCHANGED binlog /\ UNCHANGED prim /\ (pc' = pc \/ pc' \notin {"wait", "stop", "candpos", "promote"})
        /\ (pc = "wait" => UNCHANGED <<todo, endSet, endPos>> \/ pc' # "wait")
    BY <1>9 DEF Verify, NextPhase, servers
  <2> QED
    BY <2>1 DEF DataInv, CaughtUpInv, Level, Committed, Replicas
<1>10. ASSUME Freeze PROVE CaughtUpInv'
  <2>1. UNCHANGED binlog /\ UNCHANGED prim /\ (pc' = pc \/ pc' \notin {"wait", "stop", "candpos", "promote"})
        /\ (pc = "wait" => UNCHANGED <<todo, endSet, endPos>> \/ pc' # "wait")
    BY <1>10 DEF Freeze, NextPhase, End, locals
  <2> QED
    BY <2>1 DEF DataInv, CaughtUpInv, Level, Committed, Replicas
<1>11. ASSUME Position PROVE CaughtUpInv'
  <2>1. UNCHANGED <<binlog, prim>>
    BY <1>11 DEF Position, servers
  <2>2. CASE pc' = "unfreeze"
    BY <2>2 DEF CaughtUpInv
  <2>3. CASE endSet' = Committed(prim) /\ endPos' = Len(binlog[prim]) /\ NextPhase("wait", Replicas)
    BY <2>1, <2>3 DEF CaughtUpInv, NextPhase, Replicas, Committed
  <2> QED
    BY <1>11, <2>2, <2>3 DEF Position
<1>12. ASSUME CandidatePosition PROVE CaughtUpInv'
  <2>1. UNCHANGED <<binlog, prim>> /\ pc = "candpos" /\ pc' \in {"stop", "candpos", "promote", "restart"}
    BY <1>12 DEF CandidatePosition, NextPhase, servers
  <2> QED
    BY <2>1 DEF DataInv, CaughtUpInv, Level, Replicas
<1>13. ASSUME MakeWritable PROVE CaughtUpInv'
  <2>1. pc' \in {"idle", "demote"}
    BY <1>13 DEF MakeWritable, End, NextPhase
  <2> QED
    BY <2>1 DEF CaughtUpInv
<1>14. ASSUME Demote PROVE CaughtUpInv'
  <2>1. UNCHANGED binlog /\ UNCHANGED prim /\ (pc' = pc \/ pc' \notin {"wait", "stop", "candpos", "promote"})
        /\ (pc = "wait" => UNCHANGED <<todo, endSet, endPos>> \/ pc' # "wait")
    BY <1>14 DEF Demote, NextPhase, Repoint, Started, Followers
  <2> QED
    BY <2>1 DEF DataInv, CaughtUpInv, Level, Committed, Replicas
<1>15. ASSUME StartAgain PROVE CaughtUpInv'
  <2>1. UNCHANGED binlog /\ UNCHANGED prim /\ (pc' = pc \/ pc' \notin {"wait", "stop", "candpos", "promote"})
        /\ (pc = "wait" => UNCHANGED <<todo, endSet, endPos>> \/ pc' # "wait")
    BY <1>15 DEF StartAgain, Started
  <2> QED
    BY <2>1 DEF DataInv, CaughtUpInv, Level, Committed, Replicas
<1>16. ASSUME Unfreeze PROVE CaughtUpInv'
  <2>1. UNCHANGED binlog /\ UNCHANGED prim /\ (pc' = pc \/ pc' \notin {"wait", "stop", "candpos", "promote"})
        /\ (pc = "wait" => UNCHANGED <<todo, endSet, endPos>> \/ pc' # "wait")
    BY <1>16 DEF Unfreeze
  <2> QED
    BY <2>1 DEF DataInv, CaughtUpInv, Level, Committed, Replicas
<1>17. ASSUME DeadlinePasses PROVE CaughtUpInv'
  <2>1. UNCHANGED binlog /\ UNCHANGED prim /\ (pc' = pc \/ pc' \notin {"wait", "stop", "candpos", "promote"})
        /\ (pc = "wait" => UNCHANGED <<todo, endSet, endPos>> \/ pc' # "wait")
    BY <1>17 DEF DeadlinePasses, servers, locals
  <2> QED
    BY <2>1 DEF DataInv, CaughtUpInv, Level, Committed, Replicas
<1>18. ASSUME ServerDies PROVE CaughtUpInv'
  <2>1. UNCHANGED binlog /\ UNCHANGED prim /\ (pc' = pc \/ pc' \notin {"wait", "stop", "candpos", "promote"})
        /\ (pc = "wait" => UNCHANGED <<todo, endSet, endPos>> \/ pc' # "wait")
    BY <1>18 DEF ServerDies, End, servers, locals
  <2> QED
    BY <2>1 DEF DataInv, CaughtUpInv, Level, Committed, Replicas
<1>19. CASE UNCHANGED vars
  BY <1>19 DEF vars, servers, locals, bounds, DataInv, CaughtUpInv, Level, Committed, Replicas
<1> QED
  BY <1>1, <1>2, <1>3, <1>4, <1>5, <1>6, <1>7, <1>8, <1>9, <1>10, <1>11, <1>12, <1>13, <1>14, <1>15, <1>16, <1>17, <1>18, <1>19 DEF Next, SwitchStep

\* A stopped replica stays stopped until the switch starts it, and the candidate's position is
\* everybody's.
LEMMA StoppedStep == IndInv /\ DataInv /\ [Next]_vars => StoppedInv'
<1> SUFFICES ASSUME IndInv /\ DataInv, [Next]_vars PROVE StoppedInv'
  OBVIOUS
<1>1. ASSUME NEW m \in Members, NEW t \in Txns, ClientCommit(m, t) PROVE StoppedInv'
  <2>1. pc \notin Frozen /\ UNCHANGED pc
    BY <1>1 DEF ClientCommit, IndInv, ReadOnlyInv
  <2> QED
    BY <2>1 DEF StoppedInv, Frozen
<1>2. ASSUME NEW m \in Members, Replicate(m) PROVE StoppedInv'
  <2>1. CASE pc \notin Frozen
    BY <1>2, <2>1 DEF Replicate, StoppedInv, Frozen
  <2>2. CASE pc \in Frozen
    <3>1. m # prim /\ \A n \in Members : n # m => binlog'[n] = binlog[n]
      BY <1>2, <2>2, FrozenLogs
    <3>2. prim \in Members /\ UNCHANGED <<gtid, pc, prim, todo, cPos, run, source>>
      BY <1>2, <2>2 DEF Replicate, locals, IndInv, RolesInv, Frozen
    <3>3. binlog'[prim] = binlog[prim]
      BY <3>1, <3>2
    <3> QED
      BY <3>2, <3>3 DEF DataInv, StoppedInv, Still, Replicas
  <2> QED
    BY <2>1, <2>2
<1>3. ASSUME NEW m \in Members, ReplicationBreaks(m) PROVE StoppedInv'
  <2>1. UNCHANGED <<gtid, binlog, source, pc, prim, todo, cPos>> /\ \A n \in Members : run'[n] => run[n]
    BY <1>3 DEF ReplicationBreaks, locals, IndInv, TypeOK, ServerType
  <2> QED
    BY <2>1 DEF DataInv, StoppedInv, Still, Replicas
<1>4. ASSUME NEW m \in Members, Promote(m) PROVE StoppedInv'
  <2>1. pc' \notin {"stop", "candpos", "promote"}
    BY <1>4 DEF Promote, NextPhase, End, locals, servers
  <2> QED
    BY <2>1 DEF StoppedInv
<1>5. ASSUME NEW m \in Members, Preflight(m) PROVE StoppedInv'
  <2>1. pc' \notin {"stop", "candpos", "promote"}
    BY <1>5 DEF Preflight, Visited, NextPhase, End, locals, servers
  <2> QED
    BY <2>1 DEF StoppedInv
<1>6. ASSUME NEW m \in Members, Wait(m) PROVE StoppedInv'
  <2>1. pc' \in {"wait", "unfreeze"} \/ (pc' = "stop" /\ todo' = Replicas /\ UNCHANGED prim)
    BY <1>6 DEF Wait, Visited, NextPhase
  <2> QED
    BY <2>1 DEF StoppedInv, Replicas
<1>7. ASSUME NEW m \in Members, Stop(m) PROVE StoppedInv'
  <2>1. UNCHANGED <<gtid, binlog, source, prim>> /\ pc = "stop" /\ m \in todo
    BY <1>7 DEF Stop
  <2>2. CASE pc' = "restart"
    BY <2>2 DEF StoppedInv
  <2>3. CASE run' = [run EXCEPT ![m] = FALSE] /\ Visited(m, IF gtid THEN "promote" ELSE "candpos", {})
    <3>1. \A n \in Members : n = m \/ Still(n) => Still(n)'
      BY <2>1, <2>3 DEF Still, IndInv, TypeOK, ServerType
    <3>2. \A n \in Replicas : n \notin todo => Still(n)
      BY <2>1 DEF DataInv, StoppedInv
    <3>3. CASE pc' = "stop" /\ todo' = todo \ {m}
      BY <2>1, <3>1, <3>2, <3>3 DEF StoppedInv, Replicas
    <3>4. todo = {m} => \A n \in Replicas' : Still(n)'
      BY <2>1, <3>1, <3>2 DEF Replicas
    <3>5. CASE todo # {m}
      BY <2>1, <2>3, <3>3, <3>5 DEF Visited, NextPhase
    <3>6. CASE todo = {m}
      <4>1. pc' = IF gtid THEN "promote" ELSE "candpos"
        BY <2>3, <3>6 DEF Visited, NextPhase
      <4>2. CASE gtid
        <5>1. pc' = "promote"
          BY <4>1, <4>2
        <5> QED
          BY <2>1, <3>4, <3>6, <4>2, <5>1 DEF StoppedInv
      <4>3. CASE ~gtid
        <5>1. pc' = "candpos"
          BY <4>1, <4>3
        <5> QED
          BY <3>4, <3>6, <5>1 DEF StoppedInv
      <4> QED
        BY <4>2, <4>3
    <3> QED
      BY <3>5, <3>6
  <2> QED
    BY <1>7, <2>2, <2>3 DEF Stop
<1>8. ASSUME NEW m \in Members, Follow(m) PROVE StoppedInv'
  <2>1. pc' \notin {"stop", "candpos", "promote"}
    BY <1>8 DEF Follow, Visited, NextPhase, Repoint, Started, Followers
  <2> QED
    BY <2>1 DEF StoppedInv
<1>9. ASSUME NEW m \in Members, Verify(m) PROVE StoppedInv'
  <2>1. pc' \notin {"stop", "candpos", "promote"}
    BY <1>9 DEF Verify, NextPhase, servers
  <2> QED
    BY <2>1 DEF StoppedInv
<1>10. ASSUME Freeze PROVE StoppedInv'
  <2>1. pc' \notin {"stop", "candpos", "promote"}
    BY <1>10 DEF Freeze, NextPhase, End, locals
  <2> QED
    BY <2>1 DEF StoppedInv
<1>11. ASSUME Position PROVE StoppedInv'
  <2>1. pc' \notin {"stop", "candpos", "promote"}
    BY <1>11 DEF Position, NextPhase, Replicas, servers
  <2> QED
    BY <2>1 DEF StoppedInv
<1>12. ASSUME CandidatePosition PROVE StoppedInv'
  <2>1. UNCHANGED <<gtid, binlog, source, run, prim, cand>> /\ pc = "candpos"
    BY <1>12 DEF CandidatePosition, servers
  <2>2. CASE pc' = "restart"
    BY <2>2 DEF StoppedInv
  <2>3. CASE cPos' = Len(binlog[cand]) /\ NextPhase("promote", {})
    <3>1. cand \in Replicas
      BY <2>1 DEF IndInv, RolesInv, Replicas
    <3>2. Len(binlog[cand]) = Len(binlog[prim])
      BY <2>1, <3>1 DEF DataInv, CaughtUpInv, Level
    <3> QED
      BY <2>1, <2>3, <3>2 DEF NextPhase, DataInv, StoppedInv, Still, Replicas
  <2> QED
    BY <1>12, <2>2, <2>3 DEF CandidatePosition
<1>13. ASSUME MakeWritable PROVE StoppedInv'
  <2>1. pc' \notin {"stop", "candpos", "promote"}
    BY <1>13 DEF MakeWritable, NextPhase, End, locals
  <2> QED
    BY <2>1 DEF StoppedInv
<1>14. ASSUME Demote PROVE StoppedInv'
  <2>1. pc' \notin {"stop", "candpos", "promote"}
    BY <1>14 DEF Demote, NextPhase, Repoint, Started, Followers
  <2> QED
    BY <2>1 DEF StoppedInv
<1>15. ASSUME StartAgain PROVE StoppedInv'
  <2>1. pc' \notin {"stop", "candpos", "promote"}
    BY <1>15 DEF StartAgain, Started
  <2> QED
    BY <2>1 DEF StoppedInv
<1>16. ASSUME Unfreeze PROVE StoppedInv'
  <2>1. pc' \notin {"stop", "candpos", "promote"}
    BY <1>16 DEF Unfreeze
  <2> QED
    BY <2>1 DEF StoppedInv
<1>17. ASSUME DeadlinePasses PROVE StoppedInv'
  <2>1. UNCHANGED <<gtid, binlog, source, run, pc, prim, todo, cPos>>
    BY <1>17 DEF DeadlinePasses, servers, locals
  <2> QED
    BY <2>1 DEF DataInv, StoppedInv, Still, Replicas
<1>18. ASSUME ServerDies PROVE StoppedInv'
  <2>1. pc' \notin {"stop", "candpos", "promote"}
    BY <1>18 DEF ServerDies, End, servers, locals
  <2> QED
    BY <2>1 DEF StoppedInv
<1>19. CASE UNCHANGED vars
  BY <1>19 DEF vars, servers, locals, bounds, DataInv, StoppedInv, Still, Replicas
<1> QED
  BY <1>1, <1>2, <1>3, <1>4, <1>5, <1>6, <1>7, <1>8, <1>9, <1>10, <1>11, <1>12, <1>13, <1>14, <1>15, <1>16, <1>17, <1>18, <1>19 DEF Next, SwitchStep

\* A member the switch has not re-pointed yet applies nothing, and stands where the candidate
\* stood.
LEMMA RepointStep == IndInv /\ DataInv /\ [Next]_vars => RepointInv'
<1> SUFFICES ASSUME IndInv /\ DataInv, [Next]_vars PROVE RepointInv'
  OBVIOUS
<1>1. ASSUME NEW m \in Members, NEW t \in Txns, ClientCommit(m, t) PROVE RepointInv'
  <2>1. UNCHANGED <<gtid, source, run, pc, cand, todo, cPos>>
    BY <1>1 DEF ClientCommit, locals
  <2>2. CASE pc \notin {"demote", "follow"}
    BY <2>1, <2>2 DEF RepointInv
  <2>3. CASE pc \in {"demote", "follow"}
    <3>1. m = cand /\ cand \in Members /\ (pc = "follow" => cand \notin todo) /\ todo \subseteq Members
      BY <1>1, <2>3 DEF ClientCommit, IndInv, ReadOnlyInv, Forward, RolesInv, TypeOK, SwitchType
    <3>2. /\ \A n \in Members : n # cand => binlog'[n] = binlog[n]
          /\ \A n \in Members : Len(binlog[n]) \in Nat
      BY <1>1, <3>1 DEF ClientCommit, IndInv, TypeOK, ServerType
    <3>3. Len(binlog'[cand]) = Len(binlog[cand]) + 1
      <4>1. binlog'[cand] = Append(binlog[cand], t) /\ binlog[cand] \in Seq(Txns)
        BY <1>1, <3>1 DEF ClientCommit, IndInv, TypeOK, ServerType
      <4> QED
        BY <4>1, AppendFacts
    <3>4. \A n \in Members : n # cand /\ Ready(n) => Ready(n)'
      BY <2>1, <3>1, <3>2, <3>3 DEF Ready, Still
    <3> QED
      BY <2>1, <2>3, <3>1, <3>4 DEF DataInv, RepointInv, Followers
  <2> QED
    BY <2>2, <2>3
<1>2. ASSUME NEW m \in Members, Replicate(m) PROVE RepointInv'
  <2>1. UNCHANGED <<gtid, source, run, pc, cand, todo, cPos>> /\ ~Still(m)
    BY <1>2 DEF Replicate, locals, Still
  <2>2. CASE pc \notin {"demote", "follow"}
    BY <2>1, <2>2 DEF RepointInv
  <2>3. CASE pc \in {"demote", "follow"}
    <3>1. cand \in Members /\ todo \subseteq Members
      BY <2>3 DEF IndInv, RolesInv, TypeOK, SwitchType
    <3>2. /\ binlog' = [binlog EXCEPT ![m] = Append(@, binlog[source[m]][Len(binlog[m]) + 1])]
          /\ binlog[source[m]][Len(binlog[m]) + 1] \in Txns
      BY <1>2, ReplicateNext DEF IndInv, DataInv
    <3>3. /\ \A n \in Members : n # m => binlog'[n] = binlog[n]
          /\ binlog'[m] = Append(binlog[m], binlog[source[m]][Len(binlog[m]) + 1])
          /\ binlog[m] \in Seq(Txns)
          /\ \A n \in Members : Len(binlog[n]) \in Nat
      BY <3>2 DEF IndInv, TypeOK, ServerType
    <3>4. Len(binlog'[m]) = Len(binlog[m]) + 1
      BY <3>2, <3>3, AppendFacts
    <3>5. Len(binlog'[cand]) >= Len(binlog[cand]) /\ Len(binlog'[cand]) \in Nat
      BY <3>1, <3>3, <3>4
    <3>6. \A n \in Members : Ready(n) => Ready(n)'
      BY <2>1, <3>1, <3>3, <3>5 DEF Ready, Still
    <3> QED
      BY <2>1, <2>3, <3>1, <3>6 DEF DataInv, RepointInv, Followers
  <2> QED
    BY <2>2, <2>3
<1>3. ASSUME NEW m \in Members, ReplicationBreaks(m) PROVE RepointInv'
  <2>1. UNCHANGED <<gtid, binlog, source, pc, cand, todo, cPos>> /\ todo \subseteq Members
        /\ \A n \in Members : run'[n] => run[n]
    BY <1>3 DEF ReplicationBreaks, locals, IndInv, TypeOK, ServerType, SwitchType
  <2> QED
    BY <2>1 DEF DataInv, RepointInv, Ready, Still, Followers
<1>4. ASSUME NEW m \in Members, Promote(m) PROVE RepointInv'
  <2>1. pc' \notin {"demote", "follow"}
    BY <1>4 DEF Promote, NextPhase, End, locals, servers
  <2> QED
    BY <2>1 DEF RepointInv
<1>5. ASSUME NEW m \in Members, Preflight(m) PROVE RepointInv'
  <2>1. pc' \notin {"demote", "follow"}
    BY <1>5 DEF Preflight, Visited, NextPhase, End, locals, servers
  <2> QED
    BY <2>1 DEF RepointInv
<1>6. ASSUME NEW m \in Members, Wait(m) PROVE RepointInv'
  <2>1. pc' \notin {"demote", "follow"}
    BY <1>6 DEF Wait, Visited, NextPhase, Replicas, servers
  <2> QED
    BY <2>1 DEF RepointInv
<1>7. ASSUME NEW m \in Members, Stop(m) PROVE RepointInv'
  <2>1. pc' \notin {"demote", "follow"}
    BY <1>7 DEF Stop, Visited, NextPhase
  <2> QED
    BY <2>1 DEF RepointInv
<1>8. ASSUME NEW m \in Members, Follow(m) PROVE RepointInv'
  <2>1. /\ UNCHANGED <<gtid, binlog, prim, cand, cPos>> /\ pc = "follow" /\ todo \subseteq Members
        /\ pc' = "verify" \/ (pc' = "follow" /\ todo' = todo \ {m})
    BY <1>8 DEF Follow, Visited, NextPhase, IndInv, TypeOK, SwitchType
  <2>2. /\ source' = source \/ source' = [source EXCEPT ![m] = cand]
        /\ run' = run \/ run' = [run EXCEPT ![m] = TRUE]
    BY <1>8 DEF Follow, Repoint, Started
  <2>3. \A n \in Members : n # m => source'[n] = source[n] /\ run'[n] = run[n]
    BY <2>2 DEF IndInv, TypeOK, ServerType
  <2>4. \A n \in todo \ {m} : Ready(n)'
    BY <2>1, <2>3 DEF DataInv, RepointInv, Ready, Still
  <2> QED
    BY <2>1, <2>4 DEF RepointInv
<1>9. ASSUME NEW m \in Members, Verify(m) PROVE RepointInv'
  <2>1. pc' \notin {"demote", "follow"}
    BY <1>9 DEF Verify, NextPhase, servers
  <2> QED
    BY <2>1 DEF RepointInv
<1>10. ASSUME Freeze PROVE RepointInv'
  <2>1. pc' \notin {"demote", "follow"}
    BY <1>10 DEF Freeze, NextPhase, End, locals
  <2> QED
    BY <2>1 DEF RepointInv
<1>11. ASSUME Position PROVE RepointInv'
  <2>1. pc' \notin {"demote", "follow"}
    BY <1>11 DEF Position, NextPhase, Replicas, servers
  <2> QED
    BY <2>1 DEF RepointInv
<1>12. ASSUME CandidatePosition PROVE RepointInv'
  <2>1. pc' \notin {"demote", "follow"}
    BY <1>12 DEF CandidatePosition, NextPhase, servers
  <2> QED
    BY <2>1 DEF RepointInv
<1>13. ASSUME MakeWritable PROVE RepointInv'
  <2>1. pc' = "idle" \/ /\ pc' = "demote" /\ UNCHANGED <<gtid, binlog, run, prim, cand, cPos>>
                        /\ source' = [source EXCEPT ![cand] = None]
    BY <1>13 DEF MakeWritable, End, NextPhase, locals
  <2>2. CASE pc' = "idle"
    BY <2>2 DEF RepointInv
  <2>3. CASE /\ pc' = "demote" /\ UNCHANGED <<gtid, binlog, run, prim, cand, cPos>>
             /\ source' = [source EXCEPT ![cand] = None]
    <3>1. /\ prim \in Members /\ cand \in Members /\ source[prim] = None
          /\ \A n \in Members : n # prim => Still(n)
          /\ \A n \in Members : n # prim => Len(binlog[n]) = Len(binlog[prim])
          /\ gtid \/ cPos = Len(binlog[prim])
      BY <1>13 DEF MakeWritable, IndInv, RolesInv, Frozen, DataInv, CaughtUpInv, StoppedInv, Level, Replicas
    <3>2. \A n \in Members : n # cand => source'[n] = source[n]
      BY <2>3, <3>1 DEF IndInv, TypeOK, ServerType
    <3>3. \A n \in Members : n # cand => Still(n)'
      BY <2>3, <3>1, <3>2 DEF Still
    <3>4. \A n \in Members : Len(binlog[n]) \in Nat
      BY DEF IndInv, TypeOK, ServerType
    <3> QED
      BY <2>3, <3>1, <3>3, <3>4 DEF RepointInv, Ready, Followers
  <2> QED
    BY <2>1, <2>2, <2>3
<1>14. ASSUME Demote PROVE RepointInv'
  <2>1. /\ UNCHANGED <<gtid, binlog, prim, cand, cPos>> /\ pc = "demote"
        /\ pc' = "verify" \/ (pc' = "follow" /\ todo' = Followers \ {prim})
    BY <1>14 DEF Demote, NextPhase
  <2>2. /\ source' = source \/ source' = [source EXCEPT ![prim] = cand]
        /\ run' = run \/ run' = [run EXCEPT ![prim] = TRUE]
    BY <1>14 DEF Demote, Repoint, Started
  <2>3. \A n \in Members : n # prim => source'[n] = source[n] /\ run'[n] = run[n]
    BY <2>1, <2>2 DEF IndInv, RolesInv, TypeOK, ServerType
  <2>4. \A n \in Followers \ {prim} : Ready(n)'
    BY <2>1, <2>3 DEF DataInv, RepointInv, Ready, Still, Followers
  <2> QED
    BY <2>1, <2>4 DEF RepointInv
<1>15. ASSUME StartAgain PROVE RepointInv'
  <2>1. pc' \notin {"demote", "follow"}
    BY <1>15 DEF StartAgain, Started
  <2> QED
    BY <2>1 DEF RepointInv
<1>16. ASSUME Unfreeze PROVE RepointInv'
  <2>1. pc' \notin {"demote", "follow"}
    BY <1>16 DEF Unfreeze
  <2> QED
    BY <2>1 DEF RepointInv
<1>17. ASSUME DeadlinePasses PROVE RepointInv'
  <2>1. UNCHANGED <<gtid, binlog, source, run, pc, cand, todo, cPos>>
    BY <1>17 DEF DeadlinePasses, servers, locals
  <2> QED
    BY <2>1 DEF DataInv, RepointInv, Ready, Still, Followers
<1>18. ASSUME ServerDies PROVE RepointInv'
  <2>1. pc' \notin {"demote", "follow"}
    BY <1>18 DEF ServerDies, End, servers, locals
  <2> QED
    BY <2>1 DEF RepointInv
<1>19. CASE UNCHANGED vars
  BY <1>19 DEF vars, servers, locals, bounds, DataInv, RepointInv, Ready, Still, Followers
<1> QED
  BY <1>1, <1>2, <1>3, <1>4, <1>5, <1>6, <1>7, <1>8, <1>9, <1>10, <1>11, <1>12, <1>13, <1>14, <1>15, <1>16, <1>17, <1>18, <1>19 DEF Next, SwitchStep

\* A switch that goes forward re-points every member or records it as failed, and reports success
\* only if it recorded none.
LEMMA ReportStep == IndInv /\ ReportInv /\ [Next]_vars => ReportInv'
<1> SUFFICES ASSUME IndInv /\ ReportInv, [Next]_vars PROVE ReportInv'
  OBVIOUS
<1>1. ASSUME NEW m \in Members, NEW t \in Txns, ClientCommit(m, t) PROVE ReportInv'
  <2>1. UNCHANGED <<ro, source, pc, cand, todo, failed, seen, result>>
        /\ (faults' = 0 => faults = 0) /\ (expired => expired')
    BY <1>1 DEF ClientCommit, locals, bounds, IndInv, TypeOK, SwitchType, bounds
  <2> QED
    BY <2>1 DEF ReportInv, Moved, SuccessMovesEveryone, Followers
<1>2. ASSUME NEW m \in Members, Replicate(m) PROVE ReportInv'
  <2>1. UNCHANGED <<ro, source, pc, cand, todo, failed, seen, result>>
        /\ (faults' = 0 => faults = 0) /\ (expired => expired')
    BY <1>2 DEF Replicate, locals, bounds, IndInv, TypeOK, SwitchType, bounds
  <2> QED
    BY <2>1 DEF ReportInv, Moved, SuccessMovesEveryone, Followers
<1>3. ASSUME NEW m \in Members, ReplicationBreaks(m) PROVE ReportInv'
  <2>1. UNCHANGED <<ro, source, pc, cand, todo, failed, seen, result>>
        /\ (faults' = 0 => faults = 0) /\ (expired => expired')
    BY <1>3 DEF ReplicationBreaks, locals, IndInv, TypeOK, SwitchType, bounds
  <2> QED
    BY <2>1 DEF ReportInv, Moved, SuccessMovesEveryone, Followers
<1>4. ASSUME NEW m \in Members, Promote(m) PROVE ReportInv'
  <2>1. UNCHANGED <<ro, source>> /\ pc = "idle"
    BY <1>4 DEF Promote, servers
  <2>2. CASE End("refused")
    BY <2>1, <2>2 DEF End, locals, ReportInv, SuccessMovesEveryone, Followers, Forward
  <2>3. CASE NextPhase("preflight", todo') /\ seen' = {}
    BY <2>1, <2>3 DEF NextPhase, ReportInv, SuccessMovesEveryone, Followers, Forward
  <2> QED
    BY <1>4, <2>2, <2>3 DEF Promote, NextPhase
<1>5. ASSUME NEW m \in Members, Preflight(m) PROVE ReportInv'
  <2>1. UNCHANGED <<cand, seen>>
    BY <1>5 DEF Preflight, Visited, NextPhase, End, locals, servers
  <2>2. \/ pc' = "idle" /\ result' # "ok"
        \/ pc' \in {"restart", "unfreeze"} /\ result' # "ok"
        \/ pc' \in {"preflight", "freeze", "position", "wait", "stop", "candpos", "promote"}
    BY <1>5 DEF Preflight, Visited, NextPhase, End, locals, servers
  <2> QED
    BY <2>1, <2>2 DEF ReportInv, SuccessMovesEveryone, Followers, Forward
<1>6. ASSUME NEW m \in Members, Wait(m) PROVE ReportInv'
  <2>1. UNCHANGED <<cand, seen>>
    BY <1>6 DEF Wait, Visited, NextPhase, Replicas, servers
  <2>2. \/ pc' = "idle" /\ result' # "ok"
        \/ pc' \in {"restart", "unfreeze"} /\ result' # "ok"
        \/ pc' \in {"preflight", "freeze", "position", "wait", "stop", "candpos", "promote"}
    BY <1>6 DEF Wait, Visited, NextPhase, Replicas, servers
  <2> QED
    BY <2>1, <2>2 DEF ReportInv, SuccessMovesEveryone, Followers, Forward
<1>7. ASSUME NEW m \in Members, Stop(m) PROVE ReportInv'
  <2>1. UNCHANGED <<cand, seen>>
    BY <1>7 DEF Stop, Visited, NextPhase
  <2>2. \/ pc' = "idle" /\ result' # "ok"
        \/ pc' \in {"restart", "unfreeze"} /\ result' # "ok"
        \/ pc' \in {"preflight", "freeze", "position", "wait", "stop", "candpos", "promote"}
    BY <1>7 DEF Stop, Visited, NextPhase
  <2> QED
    BY <2>1, <2>2 DEF ReportInv, SuccessMovesEveryone, Followers, Forward
<1>8. ASSUME NEW m \in Members, Follow(m) PROVE ReportInv'
  <2>1. UNCHANGED <<ro, cand, seen>> /\ cand \in Members /\ pc = "follow"
    BY <1>8 DEF Follow, IndInv, RolesInv
  <2>2. \/ pc' = "verify" /\ todo' = Followers /\ todo = {m}
        \/ pc' = "follow" /\ todo' = todo \ {m}
    BY <1>8, <2>1 DEF Follow, Visited, NextPhase
  <2>3. \/ source' = [source EXCEPT ![m] = cand] /\ failed' = failed
        \/ failed' = failed \cup {m} /\ (source' = source \/ source' = [source EXCEPT ![m] = cand])
    BY <1>8 DEF Follow, Repoint
  <2>4. \A n \in Members : Moved(n) \/ n = m => Moved(n)'
    BY <2>1, <2>3 DEF Moved, IndInv, TypeOK, ServerType
  <2>5. \A n \in Followers : n \notin todo => Moved(n)
    BY <2>1 DEF ReportInv
  <2>6. ~ro[cand] /\ seen \subseteq Followers
    BY <2>1 DEF ReportInv, Forward
  <2>7. CASE pc' = "verify" /\ todo' = Followers /\ todo = {m}
    BY <2>1, <2>4, <2>5, <2>6, <2>7 DEF ReportInv, SuccessMovesEveryone, Followers, Forward
  <2>8. CASE pc' = "follow" /\ todo' = todo \ {m}
    BY <2>1, <2>4, <2>5, <2>6, <2>8 DEF ReportInv, SuccessMovesEveryone, Followers, Forward
  <2> QED
    BY <2>2, <2>7, <2>8
<1>9. ASSUME NEW m \in Members, Verify(m) PROVE ReportInv'
  <2>1. UNCHANGED <<ro, source, cand>> /\ pc = "verify" /\ m \in todo
    BY <1>9 DEF Verify, servers
  <2>2. /\ ~ro[cand] /\ seen \subseteq Followers /\ \A n \in Followers : Moved(n)
        /\ faults = 0 /\ ~expired => \A n \in Followers : n \in todo \/ n \in seen \/ n \in failed
    BY <2>1 DEF ReportInv, Forward
  <2>3. m \in Followers
    BY <2>1 DEF ReportInv
  <2>4. /\ seen \subseteq seen' /\ seen' \subseteq Followers /\ failed \subseteq failed'
        /\ faults' = 0 /\ ~expired' => faults = 0 /\ ~expired /\ (m \in seen' \/ m \in failed')
    BY <1>9, <2>2, <2>3 DEF Verify, Sent, Failing, IndInv, TypeOK, SwitchType
  <2>5. \A n \in Followers : Moved(n)'
    BY <2>1, <2>2, <2>4 DEF Moved
  <2>6. CASE todo # {m} /\ pc' = "verify" /\ todo' = todo \ {m}
    <3>1. faults' = 0 /\ ~expired' => \A n \in Followers : n \in todo' \/ n \in seen' \/ n \in failed'
      BY <2>2, <2>4, <2>6
    <3> QED
      BY <2>1, <2>2, <2>4, <2>5, <2>6, <3>1 DEF ReportInv, SuccessMovesEveryone, Followers, Forward
  <2>7. CASE todo = {m} /\ pc' = "idle" /\ result' = (IF failed' # {} THEN "partial" ELSE "ok")
    <3>1. faults' = 0 /\ ~expired' => \A n \in Followers : n \in seen' \/ n \in failed'
      BY <2>2, <2>4, <2>7
    <3>2. SuccessMovesEveryone'
      BY <2>1, <2>2, <2>4, <2>5, <2>7, <3>1 DEF SuccessMovesEveryone, Followers, Moved
    <3> QED
      BY <2>1, <2>4, <2>7, <3>2 DEF ReportInv, Followers, Forward
  <2> QED
    BY <1>9, <2>1, <2>6, <2>7 DEF Verify, NextPhase
<1>10. ASSUME Freeze PROVE ReportInv'
  <2>1. UNCHANGED <<cand, seen>>
    BY <1>10 DEF Freeze, NextPhase, End, locals
  <2>2. \/ pc' = "idle" /\ result' # "ok"
        \/ pc' \in {"restart", "unfreeze"} /\ result' # "ok"
        \/ pc' \in {"preflight", "freeze", "position", "wait", "stop", "candpos", "promote"}
    BY <1>10 DEF Freeze, NextPhase, End, locals
  <2> QED
    BY <2>1, <2>2 DEF ReportInv, SuccessMovesEveryone, Followers, Forward
<1>11. ASSUME Position PROVE ReportInv'
  <2>1. UNCHANGED <<cand, seen>>
    BY <1>11 DEF Position, NextPhase, Replicas, servers
  <2>2. \/ pc' = "idle" /\ result' # "ok"
        \/ pc' \in {"restart", "unfreeze"} /\ result' # "ok"
        \/ pc' \in {"preflight", "freeze", "position", "wait", "stop", "candpos", "promote"}
    BY <1>11 DEF Position, NextPhase, Replicas, servers
  <2> QED
    BY <2>1, <2>2 DEF ReportInv, SuccessMovesEveryone, Followers, Forward
<1>12. ASSUME CandidatePosition PROVE ReportInv'
  <2>1. UNCHANGED <<cand, seen>>
    BY <1>12 DEF CandidatePosition, NextPhase, servers
  <2>2. \/ pc' = "idle" /\ result' # "ok"
        \/ pc' \in {"restart", "unfreeze"} /\ result' # "ok"
        \/ pc' \in {"preflight", "freeze", "position", "wait", "stop", "candpos", "promote"}
    BY <1>12 DEF CandidatePosition, NextPhase, servers
  <2> QED
    BY <2>1, <2>2 DEF ReportInv, SuccessMovesEveryone, Followers, Forward
<1>13. ASSUME MakeWritable PROVE ReportInv'
  <2>1. UNCHANGED <<cand, seen>> /\ cand \in Members
    BY <1>13 DEF MakeWritable, End, NextPhase, locals, IndInv, RolesInv
  <2>2. \/ pc' = "idle" /\ result' # "ok"
        \/ pc' = "demote" /\ ro' = [ro EXCEPT ![cand] = FALSE]
    BY <1>13 DEF MakeWritable, End, NextPhase
  <2>3. pc' = "demote" => ~ro'[cand]
    BY <2>1, <2>2 DEF IndInv, TypeOK, ServerType
  <2> QED
    BY <2>1, <2>2, <2>3 DEF ReportInv, SuccessMovesEveryone, Followers, Forward
<1>14. ASSUME Demote PROVE ReportInv'
  <2>1. UNCHANGED <<prim, cand, seen>> /\ prim \in Members /\ cand \in Members /\ prim # cand /\ pc = "demote"
    BY <1>14 DEF Demote, IndInv, RolesInv
  <2>2. \/ pc' = "verify" /\ todo' = Followers /\ Followers \ {prim} = {}
        \/ pc' = "follow" /\ todo' = Followers \ {prim}
    BY <1>14 DEF Demote, NextPhase
  <2>3. ~ro'[cand]
    BY <1>14, <2>1 DEF Demote, IndInv, TypeOK, ServerType, ReportInv, Forward
  <2>4. Moved(prim)'
    <3>1. source' = [source EXCEPT ![prim] = cand] \/ failed' = failed \cup {prim}
      BY <1>14 DEF Demote, Repoint
    <3> QED
      BY <2>1, <3>1 DEF Moved, IndInv, TypeOK, ServerType
  <2> QED
    BY <2>1, <2>2, <2>3, <2>4 DEF ReportInv, SuccessMovesEveryone, Followers, Forward
<1>15. ASSUME StartAgain PROVE ReportInv'
  <2>1. UNCHANGED <<cand, seen, result>> /\ pc = "restart" /\ pc' \in {"restart", "unfreeze"}
    BY <1>15 DEF StartAgain
  <2> QED
    BY <2>1 DEF ReportInv, SuccessMovesEveryone, Followers, Forward
<1>16. ASSUME Unfreeze PROVE ReportInv'
  <2>1. UNCHANGED <<cand, seen, result>> /\ pc = "unfreeze" /\ pc' = "idle"
    BY <1>16 DEF Unfreeze
  <2> QED
    BY <2>1 DEF ReportInv, SuccessMovesEveryone, Followers, Forward
<1>17. ASSUME DeadlinePasses PROVE ReportInv'
  <2>1. UNCHANGED <<ro, source, pc, cand, todo, failed, seen, result>>
        /\ (faults' = 0 => faults = 0) /\ (expired => expired')
    BY <1>17 DEF DeadlinePasses, servers, locals, IndInv, TypeOK, SwitchType, bounds
  <2> QED
    BY <2>1 DEF ReportInv, Moved, SuccessMovesEveryone, Followers
<1>18. ASSUME ServerDies PROVE ReportInv'
  <2>1. UNCHANGED <<cand, seen>>
    BY <1>18 DEF ServerDies, End, servers, locals
  <2>2. \/ pc' = "idle" /\ result' # "ok"
        \/ pc' \in {"restart", "unfreeze"} /\ result' # "ok"
        \/ pc' \in {"preflight", "freeze", "position", "wait", "stop", "candpos", "promote"}
    BY <1>18 DEF ServerDies, End, servers, locals
  <2> QED
    BY <2>1, <2>2 DEF ReportInv, SuccessMovesEveryone, Followers, Forward
<1>19. CASE UNCHANGED vars
  BY <1>19 DEF vars, servers, locals, bounds, ReportInv, Moved, SuccessMovesEveryone, Followers
<1> QED
  BY <1>1, <1>2, <1>3, <1>4, <1>5, <1>6, <1>7, <1>8, <1>9, <1>10, <1>11, <1>12, <1>13, <1>14, <1>15, <1>16, <1>17, <1>18, <1>19 DEF Next, SwitchStep

-----------------------------------------------------------------------------
(* The theorems about the data.                                              *)

\* The binlogs and the phases of a switch always stand as DataInv says.
THEOREM DataInvHolds == Spec => []DataInv
<1>1. Init => DataInv
  <2> SUFFICES ASSUME Init PROVE DataInv
    OBVIOUS
  <2>1. \A m \in Members : Len(binlog[m]) = 0 /\ pos[m] = 0
    BY DEF Init
  <2>2. \A m \in Members : source[m] # None => source[m] \in Members
    BY GroupAssumption DEF Init
  <2>3. LogInv
    BY <2>1, <2>2 DEF LogInv, Agree, NoDuplicate, SourceAhead, WriterAhead
  <2>4. AttachedInv /\ CaughtUpInv /\ StoppedInv /\ RepointInv
    BY DEF Init, AttachedInv, CaughtUpInv, StoppedInv, RepointInv, Frozen
  <2> QED
    BY <2>3, <2>4 DEF DataInv
<1>2. IndInv /\ DataInv /\ [Next]_vars => DataInv'
  BY LogStep, AttachedStep, CaughtUpStep, StoppedStep, RepointStep DEF DataInv
<1> QED
  BY <1>1, <1>2, IndInvHolds, PTL DEF Spec

\* "In the order that cannot lose a transaction": whichever statements of switchAsync fail, ran or
\* did not run, and wherever the process dies, the server that takes writes has every transaction
\* that was ever committed anywhere, with GTIDs and without.
THEOREM NoTransactionLost == Spec => []NothingLost
<1>1. IndInv /\ DataInv => NothingLost
  <2> SUFFICES ASSUME IndInv, DataInv, NEW m \in Members, ~ro[m], NEW n \in Members,
                      NEW i \in 1..Len(binlog[n])
               PROVE  binlog[n][i] \in Committed(m)
    BY DEF NothingLost, acked, Committed
  <2>1. Len(binlog[n]) <= Len(binlog[m]) /\ Len(binlog[m]) \in Nat /\ Len(binlog[n]) \in Nat
    BY DEF IndInv, TypeOK, ServerType, DataInv, LogInv, WriterAhead
  <2>2. i \in 1..Len(binlog[m])
    BY <2>1
  <2>3. binlog[m][i] = binlog[n][i]
    BY <2>1, <2>2 DEF DataInv, LogInv, Agree
  <2> QED
    BY <2>2, <2>3 DEF Committed
<1> QED
  BY <1>1, IndInvHolds, DataInvHolds, PTL

\* No server ever applies a transaction twice: the positions switchAsync hands out without GTIDs
\* are right, whatever it was that failed before.
THEOREM NothingAppliedTwice == Spec => []NoDuplicate
<1>1. DataInv => NoDuplicate
  BY DEF DataInv, LogInv
<1> QED
  BY <1>1, DataInvHolds, PTL

\* A switch that reports success has left every follower attached to the new primary, which takes
\* writes, and, unless a look at a follower failed, has seen each of them replicate.
THEOREM SuccessIsHonest == Spec => []SuccessMovesEveryone
<1>1. Init => ReportInv
  BY DEF Init, ReportInv, SuccessMovesEveryone, Forward
<1>2. IndInv /\ ReportInv /\ [Next]_vars => ReportInv'
  BY ReportStep
<1>3. ReportInv => SuccessMovesEveryone
  BY DEF ReportInv
<1> QED
  BY <1>1, <1>2, <1>3, IndInvHolds, PTL DEF Spec
=============================================================================
