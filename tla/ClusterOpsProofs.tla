-------------------------- MODULE ClusterOpsProofs ---------------------------
(***************************************************************************)
(* Proofs about ClusterOps for any group, any number of promotes, rebuilds *)
(* and rolling restarts, and any transactions.  IndInv is inductive; its   *)
(* parts are proved one lemma at a time, each with one step per action.    *)
(***************************************************************************)
EXTENDS ClusterOps, TLAPS

\* A group as it was deployed satisfies the invariant.
LEMMA InitInv == Init => IndInv
<1> SUFFICES ASSUME Init PROVE IndInv
  OBVIOUS
<1> USE ClusterAssumption DEF Init, Ops
<1>1. TypeOK
  <2>1. prim \in Members \cup {None} /\ frozen \in BOOLEAN
    OBVIOUS
  <2>2. /\ data \in [Members -> SUBSET Txns] /\ out \in SUBSET Members /\ open \in SUBSET Members
        /\ acked \in SUBSET Txns
    OBVIOUS
  <2>3. /\ lock \in Ops \cup {None} /\ want \in [Ops -> Members] /\ handOver \in SUBSET Rollings
        /\ hpc \in [Ops -> {"idle", "loaded", "planned", "locked", "done"}]
        /\ from \in [Ops -> Members \cup {None}]
    OBVIOUS
  <2>4. /\ stage \in Stages /\ old \in Members /\ cand \in Members /\ queue \in SUBSET Members
        /\ cur \in Members /\ misled \in BOOLEAN /\ lapsed \in SUBSET Members
    BY DEF Stages
  <2>5. breaks \in 0..MaxBreaks
    OBVIOUS
  <2> QED
    BY <2>1, <2>2, <2>3, <2>4, <2>5 DEF TypeOK
<1>2. acked \subseteq data[First] /\ First \in Members
  OBVIOUS
<1>3. CopyInv
  BY <1>2 DEF CopyInv
<1>4. StageInv /\ PlanInv /\ MoveInv /\ RollInv
  BY DEF StageInv, PlanInv, MoveInv, RollInv
<1> QED
  BY <1>1, <1>3, <1>4 DEF IndInv

\* Every step keeps the types: PlanInv says that a plan names a member to copy from.
LEMMA TypeStep == TypeOK /\ StageInv /\ PlanInv /\ [Next]_vars => TypeOK'
<1> SUFFICES ASSUME TypeOK, StageInv, PlanInv, [Next]_vars PROVE TypeOK'
  OBVIOUS
<1> USE ClusterAssumption DEF TypeOK, Stages, Ops
<1>1. ASSUME NEW t \in Txns, Write(t) PROVE TypeOK'
  BY <1>1 DEF Write, request, holder, history
<1>2. ASSUME NEW m \in Members, Replicate(m) PROVE TypeOK'
  BY <1>2 DEF Replicate, request, holder, history
<1>3. ASSUME NEW m \in Members, Recover(m) PROVE TypeOK'
  BY <1>3 DEF Recover, Busy, request, holder, history
<1>4. ASSUME NEW r \in Ops, NEW m \in Members, Load(r, m) PROVE TypeOK'
  BY <1>4 DEF Load, servers, holder, history
<1>5. ASSUME NEW r \in Rebuilds, planRebuild(r) PROVE TypeOK'
  BY <1>5 DEF planRebuild, Primary, servers, holder, history
<1>6. ASSUME NEW r \in Ops, TakeLock(r) PROVE TypeOK'
  BY <1>6 DEF TakeLock, FirstStage, servers, history
<1>7. ASSUME SwitchProbe PROVE TypeOK'
  BY <1>7 DEF SwitchProbe, Primary, Eligible, Finish, Go, servers, request, history
<1>8. ASSUME SwitchMove PROVE TypeOK'
  <2>1. acked' = acked /\ breaks' = breaks /\ misled' = misled
    BY <1>8 DEF SwitchMove
  <2>2. CASE SwitchRefused
    BY <2>1, <2>2 DEF SwitchRefused, Finish
  <2>3. CASE SwitchUndone
    BY <2>1, <2>3 DEF SwitchUndone, Finish
  <2>4. CASE SwitchBroken
    BY <2>1, <2>4 DEF SwitchBroken, Finish
  <2>5. CASE SwitchMoved
    <3>1. PICK behind \in SUBSET (Members \ {cand}) :
             /\ out' = behind
             /\ \/ Finish /\ lapsed' = lapsed
                \/ /\ lapsed' = lapsed \cup behind
                   /\ Go("last") /\ UNCHANGED <<old, cand, queue, cur>>
      BY <2>5 DEF SwitchMoved
    <3>2. /\ prim' \in Members \cup {None} /\ frozen' \in BOOLEAN /\ open' \in SUBSET Members
          /\ out' \in SUBSET Members /\ lapsed' \in SUBSET Members
          /\ data' \in [Members -> SUBSET Txns]
      <4>1. prim' = cand /\ frozen' = FALSE /\ open' = open \ {cand}
            /\ data' = [data EXCEPT ![cand] = @ \cup data[old]]
        BY <2>5 DEF SwitchMoved
      <4> QED
        BY <3>1, <4>1
    <3>3. CASE Finish
      BY <2>1, <3>2, <3>3 DEF Finish
    <3>4. CASE Go("last") /\ UNCHANGED <<old, cand, queue, cur>>
      BY <2>1, <3>2, <3>4 DEF Go, request
    <3> QED
      BY <3>1, <3>3, <3>4
  <2> QED
    BY <1>8, <2>2, <2>3, <2>4, <2>5 DEF SwitchMove
<1>9. ASSUME PrepareDonor PROVE TypeOK'
  <2>1. misled' \in BOOLEAN
    BY <1>9, Zenon DEF PrepareDonor
  <2> QED
    BY <1>9, <2>1 DEF PrepareDonor, Finish, Go, servers, request
<1>10. ASSUME PrepareRecipient PROVE TypeOK'
  <2>1. lock \in Ops /\ want[lock] \in Members
    BY <1>10 DEF PrepareRecipient, StageInv
  <2>2. out' \in SUBSET Members /\ open' \in SUBSET Members
    BY <1>10, <2>1 DEF PrepareRecipient
  <2> QED
    BY <1>10, <2>1, <2>2 DEF PrepareRecipient, Finish, Go, request, history
<1>11. ASSUME CloneInstance PROVE TypeOK'
  <2>1. lock \in Ops /\ from[lock] \in Members /\ want[lock] \in Members
    BY <1>11 DEF CloneInstance, StageInv, PlanInv
  <2>2. data' \in [Members -> SUBSET Txns]
    BY <1>11, <2>1 DEF CloneInstance
  <2>3. prim' \in Members \cup {None} /\ open' \in SUBSET Members 
    BY <1>11 DEF CloneInstance
  <2>4. CASE Go("attach") /\ UNCHANGED <<old, cand, queue, cur>>
    BY <1>11, <2>2, <2>3, <2>4 DEF CloneInstance, Go, request, history
  <2>5. CASE Finish
    BY <1>11, <2>1, <2>2, <2>3, <2>5 DEF CloneInstance, Finish, history
  <2> QED
    BY <1>11, <2>4, <2>5 DEF CloneInstance
<1>12. ASSUME Attach PROVE TypeOK'
  <2>1. out' \in SUBSET Members /\ open' \in SUBSET Members
    BY <1>12 DEF Attach, StageInv
  <2> QED
    BY <1>12, <2>1 DEF Attach, Finish, history
<1>13. ASSUME RollHealth PROVE TypeOK'
  BY <1>13 DEF RollHealth, Primary, Finish, Go, servers, request, history
<1>14. ASSUME RollDown PROVE TypeOK'
  BY <1>14 DEF RollDown, Go, request, history
<1>15. ASSUME RollUp PROVE TypeOK'
  BY <1>15 DEF RollUp, Finish, Go, request
<1>16. ASSUME RollLast PROVE TypeOK'
  BY <1>16 DEF RollLast, Go, request, history
<1>17. ASSUME RollLastUp PROVE TypeOK'
  BY <1>17 DEF RollLastUp, Finish, history
<1>18. ASSUME NEW m \in Members, Break(m) PROVE TypeOK'
  BY <1>18 DEF Break, request, holder, history
<1>19. CASE UNCHANGED vars
  BY <1>19 DEF vars, servers, request, holder, history
<1> QED
  BY <1>1, <1>2, <1>3, <1>4, <1>5, <1>6, <1>7, <1>8, <1>9, <1>10, <1>11, <1>12, <1>13, <1>14,
     <1>15, <1>16, <1>17, <1>18, <1>19 DEF Next, OpStep

\* The lock and the stage go together.
LEMMA StageStep == TypeOK /\ StageInv /\ [Next]_vars => StageInv'
<1> SUFFICES ASSUME TypeOK, StageInv, [Next]_vars PROVE StageInv'
  OBVIOUS
<1> USE ClusterAssumption DEF TypeOK, StageInv, Ops, Stages
<1>1. ASSUME NEW t \in Txns, Write(t) PROVE StageInv'
  BY <1>1 DEF Write, request, holder, history
<1>2. ASSUME NEW m \in Members, Replicate(m) PROVE StageInv'
  BY <1>2 DEF Replicate, request, holder, history
<1>3. ASSUME NEW m \in Members, Recover(m) PROVE StageInv'
  BY <1>3 DEF Recover, Busy, request, holder, history
<1>4. ASSUME NEW r \in Ops, NEW m \in Members, Load(r, m) PROVE StageInv'
  BY <1>4 DEF Load, servers, holder, history
<1>5. ASSUME NEW r \in Rebuilds, planRebuild(r) PROVE StageInv'
  BY <1>5 DEF planRebuild, Primary, servers, holder, history
<1>6. ASSUME NEW r \in Ops, TakeLock(r) PROVE StageInv'
  BY <1>6 DEF TakeLock, FirstStage, servers, history
<1>7. ASSUME SwitchProbe PROVE StageInv'
  BY <1>7 DEF SwitchProbe, Primary, Eligible, Finish, Go, servers, request, history
<1>8. ASSUME SwitchMove PROVE StageInv'
  BY <1>8 DEF SwitchMove, SwitchRefused, SwitchUndone, SwitchBroken, SwitchMoved, Finish, Go,
     request
<1>9. ASSUME PrepareDonor PROVE StageInv'
  BY <1>9 DEF PrepareDonor, Finish, Go, servers, request, history
<1>10. ASSUME PrepareRecipient PROVE StageInv'
  BY <1>10 DEF PrepareRecipient, Finish, Go, request, history
<1>11. ASSUME CloneInstance PROVE StageInv'
  BY <1>11 DEF CloneInstance, Finish, Go, request, history
<1>12. ASSUME Attach PROVE StageInv'
  BY <1>12 DEF Attach, Finish, history
<1>13. ASSUME RollHealth PROVE StageInv'
  BY <1>13 DEF RollHealth, Primary, Finish, Go, servers, request, history
<1>14. ASSUME RollDown PROVE StageInv'
  BY <1>14 DEF RollDown, Go, request, history
<1>15. ASSUME RollUp PROVE StageInv'
  BY <1>15 DEF RollUp, Finish, Go, request
<1>16. ASSUME RollLast PROVE StageInv'
  BY <1>16 DEF RollLast, Go, request, history
<1>17. ASSUME RollLastUp PROVE StageInv'
  BY <1>17 DEF RollLastUp, Finish, history
<1>18. ASSUME NEW m \in Members, Break(m) PROVE StageInv'
  BY <1>18 DEF Break, request, holder, history
<1>19. CASE UNCHANGED vars
  BY <1>19 DEF vars, servers, request, holder, history
<1> QED
  BY <1>1, <1>2, <1>3, <1>4, <1>5, <1>6, <1>7, <1>8, <1>9, <1>10, <1>11, <1>12, <1>13, <1>14,
     <1>15, <1>16, <1>17, <1>18, <1>19 DEF Next, OpStep

\* Neither a plan nor what it is about changes once it is made.
LEMMA PlanStep == TypeOK /\ StageInv /\ PlanInv /\ [Next]_vars => PlanInv'
<1> SUFFICES ASSUME TypeOK, StageInv, PlanInv, [Next]_vars PROVE PlanInv'
  OBVIOUS
<1> USE ClusterAssumption DEF TypeOK, StageInv, PlanInv, Ops
<1>1. ASSUME NEW t \in Txns, Write(t) PROVE PlanInv'
  BY <1>1 DEF Write, request, holder, history
<1>2. ASSUME NEW m \in Members, Replicate(m) PROVE PlanInv'
  BY <1>2 DEF Replicate, request, holder, history
<1>3. ASSUME NEW m \in Members, Recover(m) PROVE PlanInv'
  BY <1>3 DEF Recover, Busy, request, holder, history
<1>4. ASSUME NEW r \in Ops, NEW m \in Members, Load(r, m) PROVE PlanInv'
  BY <1>4 DEF Load, servers, holder, history
<1>5. ASSUME NEW r \in Rebuilds, planRebuild(r) PROVE PlanInv'
  BY <1>5 DEF planRebuild, Primary, servers, holder, history
<1>6. ASSUME NEW r \in Ops, TakeLock(r) PROVE PlanInv'
  BY <1>6 DEF TakeLock, FirstStage, servers, history
<1>7. ASSUME SwitchProbe PROVE PlanInv'
  BY <1>7 DEF SwitchProbe, Primary, Eligible, Finish, Go, servers, request, history
<1>8. ASSUME SwitchMove PROVE PlanInv'
  BY <1>8 DEF SwitchMove, SwitchRefused, SwitchUndone, SwitchBroken, SwitchMoved, Finish, Go,
     request
<1>9. ASSUME PrepareDonor PROVE PlanInv'
  BY <1>9 DEF PrepareDonor, Finish, Go, servers, request, history
<1>10. ASSUME PrepareRecipient PROVE PlanInv'
  BY <1>10 DEF PrepareRecipient, Finish, Go, request, history
<1>11. ASSUME CloneInstance PROVE PlanInv'
  BY <1>11 DEF CloneInstance, Finish, Go, request, history
<1>12. ASSUME Attach PROVE PlanInv'
  BY <1>12 DEF Attach, Finish, history
<1>13. ASSUME RollHealth PROVE PlanInv'
  BY <1>13 DEF RollHealth, Primary, Finish, Go, servers, request, history
<1>14. ASSUME RollDown PROVE PlanInv'
  BY <1>14 DEF RollDown, Go, request, history
<1>15. ASSUME RollUp PROVE PlanInv'
  BY <1>15 DEF RollUp, Finish, Go, request
<1>16. ASSUME RollLast PROVE PlanInv'
  BY <1>16 DEF RollLast, Go, request, history
<1>17. ASSUME RollLastUp PROVE PlanInv'
  BY <1>17 DEF RollLastUp, Finish, history
<1>18. ASSUME NEW m \in Members, Break(m) PROVE PlanInv'
  BY <1>18 DEF Break, request, holder, history
<1>19. CASE UNCHANGED vars
  BY <1>19 DEF vars, servers, request, holder, history
<1> QED
  BY <1>1, <1>2, <1>3, <1>4, <1>5, <1>6, <1>7, <1>8, <1>9, <1>10, <1>11, <1>12, <1>13, <1>14,
     <1>15, <1>16, <1>17, <1>18, <1>19 DEF Next, OpStep

\* Only the holder of the lock moves the primary.
LEMMA MoveStep == TypeOK /\ StageInv /\ MoveInv /\ [Next]_vars => MoveInv'
<1> SUFFICES ASSUME TypeOK, StageInv, MoveInv, [Next]_vars PROVE MoveInv'
  OBVIOUS
<1> USE ClusterAssumption DEF TypeOK, StageInv, MoveInv, Ops
<1>1. ASSUME NEW t \in Txns, Write(t) PROVE MoveInv'
  BY <1>1 DEF Write, request, holder, history
<1>2. ASSUME NEW m \in Members, Replicate(m) PROVE MoveInv'
  BY <1>2 DEF Replicate, request, holder, history
<1>3. ASSUME NEW m \in Members, Recover(m) PROVE MoveInv'
  BY <1>3 DEF Recover, Busy, request, holder, history
<1>4. ASSUME NEW r \in Ops, NEW m \in Members, Load(r, m) PROVE MoveInv'
  BY <1>4 DEF Load, servers, holder, history
<1>5. ASSUME NEW r \in Rebuilds, planRebuild(r) PROVE MoveInv'
  BY <1>5 DEF planRebuild, Primary, servers, holder, history
<1>6. ASSUME NEW r \in Ops, TakeLock(r) PROVE MoveInv'
  BY <1>6 DEF TakeLock, FirstStage, servers, history
<1>7. ASSUME SwitchProbe PROVE MoveInv'
  BY <1>7 DEF SwitchProbe, Primary, Eligible, Finish, Go, servers, request, history
<1>8. ASSUME SwitchMove PROVE MoveInv'
  BY <1>8 DEF SwitchMove, SwitchRefused, SwitchUndone, SwitchBroken, SwitchMoved, Finish, Go,
     request
<1>9. ASSUME PrepareDonor PROVE MoveInv'
  BY <1>9 DEF PrepareDonor, Finish, Go, servers, request, history
<1>10. ASSUME PrepareRecipient PROVE MoveInv'
  BY <1>10 DEF PrepareRecipient, Finish, Go, request, history
<1>11. ASSUME CloneInstance PROVE MoveInv'
  BY <1>11 DEF CloneInstance, Finish, Go, request, history
<1>12. ASSUME Attach PROVE MoveInv'
  BY <1>12 DEF Attach, Finish, history
<1>13. ASSUME RollHealth PROVE MoveInv'
  BY <1>13 DEF RollHealth, Primary, Finish, Go, servers, request, history
<1>14. ASSUME RollDown PROVE MoveInv'
  BY <1>14 DEF RollDown, Go, request, history
<1>15. ASSUME RollUp PROVE MoveInv'
  BY <1>15 DEF RollUp, Finish, Go, request
<1>16. ASSUME RollLast PROVE MoveInv'
  BY <1>16 DEF RollLast, Go, request, history
<1>17. ASSUME RollLastUp PROVE MoveInv'
  BY <1>17 DEF RollLastUp, Finish, history
<1>18. ASSUME NEW m \in Members, Break(m) PROVE MoveInv'
  BY <1>18 DEF Break, request, holder, history
<1>19. CASE UNCHANGED vars
  BY <1>19 DEF vars, servers, request, holder, history
<1> QED
  BY <1>1, <1>2, <1>3, <1>4, <1>5, <1>6, <1>7, <1>8, <1>9, <1>10, <1>11, <1>12, <1>13, <1>14,
     <1>15, <1>16, <1>17, <1>18, <1>19 DEF Next, OpStep

\* The donor of a copy stays the primary until the copy is over.
LEMMA CopyStep == TypeOK /\ StageInv /\ PlanInv /\ MoveInv /\ CopyInv /\ [Next]_vars => CopyInv'
<1> SUFFICES ASSUME TypeOK, StageInv, PlanInv, MoveInv, CopyInv, [Next]_vars PROVE CopyInv'
  OBVIOUS
<1> USE ClusterAssumption DEF TypeOK, StageInv, PlanInv, MoveInv, CopyInv, Ops
<1>1. ASSUME NEW t \in Txns, Write(t) PROVE CopyInv'
  BY <1>1 DEF Write, request, holder, history
<1>2. ASSUME NEW m \in Members, Replicate(m) PROVE CopyInv'
  BY <1>2 DEF Replicate, request, holder, history
<1>3. ASSUME NEW m \in Members, Recover(m) PROVE CopyInv'
  BY <1>3 DEF Recover, Busy, request, holder, history
<1>4. ASSUME NEW r \in Ops, NEW m \in Members, Load(r, m) PROVE CopyInv'
  BY <1>4 DEF Load, servers, holder, history
<1>5. ASSUME NEW r \in Rebuilds, planRebuild(r) PROVE CopyInv'
  BY <1>5 DEF planRebuild, Primary, servers, holder, history
<1>6. ASSUME NEW r \in Ops, TakeLock(r) PROVE CopyInv'
  BY <1>6 DEF TakeLock, FirstStage, servers, history
<1>7. ASSUME SwitchProbe PROVE CopyInv'
  BY <1>7 DEF SwitchProbe, Primary, Eligible, Finish, Go, servers, request, history
<1>8. ASSUME SwitchMove PROVE CopyInv'
  BY <1>8 DEF SwitchMove, SwitchRefused, SwitchUndone, SwitchBroken, SwitchMoved, Finish, Go,
     request
<1>9. ASSUME PrepareDonor PROVE CopyInv'
  BY <1>9 DEF PrepareDonor, Finish, Go, servers, request, history
<1>10. ASSUME PrepareRecipient PROVE CopyInv'
  BY <1>10 DEF PrepareRecipient, Finish, Go, request, history
<1>11. ASSUME CloneInstance PROVE CopyInv'
  BY <1>11 DEF CloneInstance, Finish, Go, request, history
<1>12. ASSUME Attach PROVE CopyInv'
  BY <1>12 DEF Attach, Finish, history
<1>13. ASSUME RollHealth PROVE CopyInv'
  BY <1>13 DEF RollHealth, Primary, Finish, Go, servers, request, history
<1>14. ASSUME RollDown PROVE CopyInv'
  BY <1>14 DEF RollDown, Go, request, history
<1>15. ASSUME RollUp PROVE CopyInv'
  BY <1>15 DEF RollUp, Finish, Go, request
<1>16. ASSUME RollLast PROVE CopyInv'
  BY <1>16 DEF RollLast, Go, request, history
<1>17. ASSUME RollLastUp PROVE CopyInv'
  BY <1>17 DEF RollLastUp, Finish, history
<1>18. ASSUME NEW m \in Members, Break(m) PROVE CopyInv'
  BY <1>18 DEF Break, request, holder, history
<1>19. CASE UNCHANGED vars
  BY <1>19 DEF vars, servers, request, holder, history
<1> QED
  BY <1>1, <1>2, <1>3, <1>4, <1>5, <1>6, <1>7, <1>8, <1>9, <1>10, <1>11, <1>12, <1>13, <1>14,
     <1>15, <1>16, <1>17, <1>18, <1>19 DEF Next, OpStep

\* A rolling restart has one member out at a time.
LEMMA RollStep == TypeOK /\ StageInv /\ MoveInv /\ RollInv /\ [Next]_vars => RollInv'
<1> SUFFICES ASSUME TypeOK, StageInv, MoveInv, RollInv, [Next]_vars PROVE RollInv'
  OBVIOUS
<1> USE ClusterAssumption DEF TypeOK, StageInv, MoveInv, RollInv, Ops
<1>1. ASSUME NEW t \in Txns, Write(t) PROVE RollInv'
  BY <1>1 DEF Write, request, holder, history
<1>2. ASSUME NEW m \in Members, Replicate(m) PROVE RollInv'
  BY <1>2 DEF Replicate, request, holder, history
<1>3. ASSUME NEW m \in Members, Recover(m) PROVE RollInv'
  BY <1>3 DEF Recover, Busy, request, holder, history
<1>4. ASSUME NEW r \in Ops, NEW m \in Members, Load(r, m) PROVE RollInv'
  BY <1>4 DEF Load, servers, holder, history
<1>5. ASSUME NEW r \in Rebuilds, planRebuild(r) PROVE RollInv'
  BY <1>5 DEF planRebuild, Primary, servers, holder, history
<1>6. ASSUME NEW r \in Ops, TakeLock(r) PROVE RollInv'
  BY <1>6 DEF TakeLock, FirstStage, servers, history
<1>7. ASSUME SwitchProbe PROVE RollInv'
  BY <1>7 DEF SwitchProbe, Primary, Eligible, Finish, Go, servers, request, history
<1>8. ASSUME SwitchMove PROVE RollInv'
  BY <1>8 DEF SwitchMove, SwitchRefused, SwitchUndone, SwitchBroken, SwitchMoved, Finish, Go,
     request
<1>9. ASSUME PrepareDonor PROVE RollInv'
  BY <1>9 DEF PrepareDonor, Finish, Go, servers, request, history
<1>10. ASSUME PrepareRecipient PROVE RollInv'
  BY <1>10 DEF PrepareRecipient, Finish, Go, request, history
<1>11. ASSUME CloneInstance PROVE RollInv'
  BY <1>11 DEF CloneInstance, Finish, Go, request, history
<1>12. ASSUME Attach PROVE RollInv'
  BY <1>12 DEF Attach, Finish, history
<1>13. ASSUME RollHealth PROVE RollInv'
  BY <1>13 DEF RollHealth, Primary, Finish, Go, servers, request, history
<1>14. ASSUME RollDown PROVE RollInv'
  BY <1>14 DEF RollDown, Go, request, history
<1>15. ASSUME RollUp PROVE RollInv'
  BY <1>15 DEF RollUp, Finish, Go, request
<1>16. ASSUME RollLast PROVE RollInv'
  BY <1>16 DEF RollLast, Go, request, history
<1>17. ASSUME RollLastUp PROVE RollInv'
  BY <1>17 DEF RollLastUp, Finish, history
<1>18. ASSUME NEW m \in Members, Break(m) PROVE RollInv'
  BY <1>18 DEF Break, request, holder, history
<1>19. CASE UNCHANGED vars
  BY <1>19 DEF vars, servers, request, holder, history
<1> QED
  BY <1>1, <1>2, <1>3, <1>4, <1>5, <1>6, <1>7, <1>8, <1>9, <1>10, <1>11, <1>12, <1>13, <1>14,
     <1>15, <1>16, <1>17, <1>18, <1>19 DEF Next, OpStep

\* The inductive invariant holds in every state.
THEOREM IndInvHolds == Spec => []IndInv
<1>1. IndInv /\ [Next]_vars => IndInv'
  BY TypeStep, StageStep, PlanStep, MoveStep, CopyStep, RollStep DEF IndInv
<1> QED
  BY <1>1, InitInv, PTL DEF Spec

\* Every variable of the group and of the requests keeps its type.
THEOREM TypeCorrect == Spec => []TypeOK
<1>1. IndInv => TypeOK
  BY DEF IndInv
<1> QED
  BY <1>1, IndInvHolds, PTL

\* rebuild.go plans before it takes the group's lock, and still never copies over the member that
\* is the primary by then, nor loses what a client was told: the stale donor refuses the write that
\* prepares the copy.  Excepted are runs in which a donor that is no longer the primary took that
\* write, an earlier rebuild of it having failed and left it without super_read_only (misled).
THEOREM RebuildWipesNothing == Spec => []NothingWiped
<1>1. IndInv => NothingWiped
  BY DEF IndInv, NothingWiped, Copying, CopyInv, StageInv, PlanInv
<1> QED
  BY <1>1, IndInvHolds, PTL

\* rolling.go takes one member out of service at a time, beside promotes and rebuilds of the same
\* group, and never the writer after a hand-over.  Not counted are members that fail by themselves
\* while it is under way, and followers its hand-over left behind without an error (lapsed).
THEOREM RollingRestartKeepsService == Spec => []RollingKeepsService
<1>1. IndInv => RollingKeepsService
  BY DEF IndInv, RollingKeepsService, RollInv
<1> QED
  BY <1>1, IndInvHolds, PTL
=============================================================================
