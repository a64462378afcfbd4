-------------------------- MODULE FrameDeployProofs --------------------------
(***************************************************************************)
(* Proofs about FrameDeploy for any frames of both kinds, any designs and  *)
(* any number of deploys, teardowns and faults.  IndInv is inductive; its  *)
(* parts are proved one lemma at a time, each with one step per action.    *)
(* The same facts show that every step is a step of Rendezvous or none.    *)
(***************************************************************************)
EXTENDS FrameDeploy, WellFoundedInduction, TLAPS

-----------------------------------------------------------------------------
(* Frames and their members *)

\* A set of numbers that is not empty has a least one.
LEMMA LeastNat ==
    ASSUME NEW T \in SUBSET Nat, T # {}
    PROVE  \E i \in T : \A j \in T : i <= j
<1> DEFINE R == OpToRel(<, Nat)
<1>1. IsWellFoundedOn(R, Nat)
  BY NatLessThanWellFounded
<1>2. \A i, j \in Nat : i < j => <<i, j>> \in R
  BY DEF OpToRel
<1> HIDE DEF R
<1>3. PICK i \in T : \A j \in T : ~(<<j, i>> \in R)
  BY <1>1, WFMin
<1>4. ASSUME NEW j \in T PROVE i <= j
  <2>1. i \in Nat /\ j \in Nat
    OBVIOUS
  <2>2. ~(j < i)
    BY <2>1, <1>2, <1>3
  <2> QED
    BY <2>1, <2>2
<1> QED
  BY <1>4

\* Members are nodes, and no node is in two frames.
LEMMA MemFacts ==
    /\ \A f \in Frames : Mem(f) \subseteq Nodes
    /\ \A f, g \in Frames : f # g => Mem(f) \cap Mem(g) = {}
    /\ \A n \in Nodes : \E f \in Frames : n \in Mem(f)
<1>1. ASSUME NEW f \in Frames PROVE Mem(f) \subseteq Nodes
  <2>1. Members[f] \in Seq(Nodes)
    BY FramesAssumption
  <2> QED
    BY <2>1 DEF Mem, Elems
<1> QED
  BY <1>1, FramesAssumption DEF Mem

\* A member's frame is the one it is a member of.
LEMMA FrameOfMem ==
    ASSUME NEW f \in Frames, NEW n \in Mem(f)
    PROVE  FrameOf(n) = f
<1>1. FrameOf(n) \in Frames /\ n \in Mem(FrameOf(n))
  BY DEF FrameOf
<1> QED
  BY <1>1, MemFacts

\* A sequential phase comes to a member that it has still to do.
LEMMA NextOfLeft ==
    ASSUME NEW d, NEW f \in Frames, left[d][f] \subseteq Mem(f), left[d][f] # {}
    PROVE  NextOf(d, f) \in left[d][f]
<1> DEFINE I == {i \in DOMAIN Members[f] : Members[f][i] \in left[d][f]}
<1>1. I \in SUBSET Nat
  <2>1. Members[f] \in Seq(Nodes)
    BY FramesAssumption
  <2> QED
    BY <2>1
<1>2. I # {}
  BY DEF Mem, Elems
<1>3. PICK i \in I : \A j \in I : i <= j
  <2> HIDE DEF I
  <2> QED
    BY <1>1, <1>2, LeastNat
<1>4. \E k \in DOMAIN Members[f] :
          /\ Members[f][k] \in left[d][f]
          /\ \A j \in DOMAIN Members[f] : Members[f][j] \in left[d][f] => k <= j
  BY <1>3
<1> QED
  BY <1>4 DEF NextOf

-----------------------------------------------------------------------------
(* The inductive invariant *)

\* A stack without rows satisfies the invariant.
LEMMA InitInv == Init => IndInv
<1> SUFFICES ASSUME Init PROVE IndInv
  OBVIOUS
<1>1. TypeOK
  BY FramesAssumption DEF Init, TypeOK, Deploys, PC
<1>2. RunInv /\ PhaseInv /\ ArriveInv
  BY FramesAssumption, MemFacts DEF Init, RunInv, PhaseInv, PhaseOK, ArriveInv, Deploys
<1>3. PassInv /\ RowInv /\ SettleInv
  BY FramesAssumption DEF Init, PassInv, RowInv, SettleInv, Waiters
<1>4. VerdictIsOwn /\ StuckOnlyBesideAFailure
  BY MemFacts DEF Init, VerdictIsOwn, StuckOnlyBesideAFailure, InFlight
<1> QED
  BY <1>1, <1>2, <1>3, <1>4 DEF IndInv

-----------------------------------------------------------------------------
(* What the parts of the actions do *)

\* Nothing changes for any other goroutine than that of frame f in deploy d.
Elsewhere(d, f) ==
    \A e \in Deploys, g \in Frames : e # d \/ g # f =>
        /\ pc'[e][g] = pc[e][g] /\ left'[e][g] = left[e][g] /\ failed'[e][g] = failed[e][g]

\* The types of the goroutines' variables.
FlowType ==
    /\ pc \in [Deploys -> [Frames -> PC]]
    /\ left \in [Deploys -> [Frames -> SUBSET Nodes]]
    /\ failed \in [Deploys -> [Frames -> BOOLEAN]]
    /\ rpc \in [Deploys -> {"none", "barrier", "nodes", "done"}]

\* The types of the tables and of the count of faults.
TableType ==
    row \in [Nodes -> Row \cup {None}] /\ gen \in 0..MaxDeploys /\ faults \in 0..MaxFaults

\* The types of the runs.
RunType ==
    /\ run \in 0..MaxDeploys /\ cancelled \subseteq Deploys /\ dropped \subseteq Deploys
    /\ tpc \in {"idle", "wait"}

\* The types of the barriers.
BarrierType ==
    /\ pending \in [Deploys -> SUBSET Nodes] /\ parts \in [Deploys -> SUBSET Nodes]
    /\ at \in [Deploys -> [Frames -> 0..MaxDeploys]]
    /\ passed \in [Deploys -> [Waiters -> {"in", "out", "late"}]]
    /\ based \in [Deploys -> SUBSET Nodes]

\* Together they are the type invariant.
LEMMA TypeParts ==
    /\ TypeOK => TableType /\ RunType /\ BarrierType /\ FlowType
    /\ TableType' /\ RunType' /\ BarrierType' /\ FlowType' => TypeOK'
  BY DEF TypeOK, TableType, RunType, BarrierType, FlowType

\* A goroutine goes on to its next phase.
LEMMA GotoGives ==
    ASSUME TypeOK, NEW d \in Deploys, NEW f \in Frames, NEW l \in PC, NEW S \in SUBSET Nodes,
           Goto(d, f, l, S)
    PROVE  /\ FlowType' /\ Elsewhere(d, f) /\ rpc' = rpc
           /\ pc'[d][f] = l /\ left'[d][f] = S /\ ~failed'[d][f]
  BY DEF Goto, TypeOK, FlowType, Elsewhere

\* A goroutine is done with one member.
LEMMA DidGives ==
    ASSUME TypeOK, NEW d \in Deploys, NEW f \in Frames, NEW n, Did(d, f, n)
    PROVE  /\ FlowType' /\ Elsewhere(d, f) /\ UNCHANGED <<pc, failed, rpc>>
           /\ left'[d][f] = left[d][f] \ {n}
  BY DEF Did, TypeOK, FlowType, Elsewhere

\* A goroutine returns: it arrives for its members at the barrier it has taken, if any.
LEMMA ReturnGives ==
    ASSUME TypeOK, NEW d \in Deploys, NEW f \in Frames, Return(d, f)
    PROVE  /\ FlowType' /\ Elsewhere(d, f) /\ rpc' = rpc /\ at' = at
           /\ pc'[d][f] = "done" /\ left'[d][f] = {} /\ ~failed'[d][f]
           /\ pending' \in [Deploys -> SUBSET Nodes]
           /\ \A b \in Deploys : pending'[b] = IF b = at[d][f] THEN pending[b] \ Mem(f) ELSE pending[b]
<1>1. /\ FlowType' /\ Elsewhere(d, f) /\ rpc' = rpc /\ at' = at
      /\ pc'[d][f] = "done" /\ left'[d][f] = {} /\ ~failed'[d][f]
  BY DEF Return, TypeOK, FlowType, Elsewhere, PC
<1>2. /\ pending' \in [Deploys -> SUBSET Nodes]
      /\ \A b \in Deploys : pending'[b] = IF b = at[d][f] THEN pending[b] \ Mem(f) ELSE pending[b]
  <2>1. CASE at[d][f] = 0
    BY <2>1 DEF Return, TypeOK, Deploys
  <2>2. CASE at[d][f] # 0
    <3>1. pending' = [pending EXCEPT ![at[d][f]] = @ \ Mem(f)]
      BY <2>2 DEF Return, Arrive
    <3>2. pending \in [Deploys -> SUBSET Nodes] /\ at[d][f] \in Deploys
      BY <2>2, FramesAssumption DEF TypeOK, Deploys
    <3> QED
      BY <3>1, <3>2
  <2> QED
    BY <2>1, <2>2
<1> QED
  BY <1>1, <1>2

\* A member of a parallel phase has failed.
LEMMA FailsGives ==
    ASSUME TypeOK, NEW d \in Deploys, NEW f \in Frames, NEW n, MemberFails(d, f, n)
    PROVE  /\ FlowType' /\ Elsewhere(d, f) /\ UNCHANGED <<pc, rpc>>
           /\ left'[d][f] = left[d][f] \ {n} /\ failed'[d][f]
  BY DEF MemberFails, TypeOK, FlowType, Elsewhere

\* r is the table with the state of the rows of S set to s by deploy d.
States == {"pending", "provisioning", "running", "error"}
Updated(r, d, S, s) ==
    /\ r \in [Nodes -> Row \cup {None}]
    /\ \A n \in Nodes :
          /\ row[n] = None => r[n] = None
          /\ row[n] # None => r[n] # None /\ r[n].by = row[n].by
          /\ row[n] # None /\ n \in S => r[n].state = s /\ r[n].set = d
          /\ n \notin S => r[n] = row[n]

\* SetState updates rows and neither inserts nor deletes any.
LEMMA SetStateGives ==
    ASSUME TypeOK, NEW d \in Deploys, NEW S, NEW s \in States
    PROVE  Updated(SetState(d, S, s), d, S, s)
<1> DEFINE r == SetState(d, S, s)
<1>1. ASSUME NEW n \in Nodes
      PROVE  /\ r[n] \in Row \cup {None}
             /\ row[n] = None => r[n] = None
             /\ row[n] # None => r[n] # None /\ r[n].by = row[n].by
             /\ row[n] # None /\ n \in S => r[n].state = s /\ r[n].set = d
             /\ n \notin S => r[n] = row[n]
  <2>1. CASE n \in S /\ row[n] # None
    <3>1. row[n] \in Row
      BY <2>1 DEF TypeOK
    <3>2. r[n] = [row[n] EXCEPT !.state = s, !.set = d]
      BY <2>1 DEF SetState
    <3>3. r[n] \in Row /\ r[n].by = row[n].by /\ r[n].state = s /\ r[n].set = d
      BY <3>1, <3>2 DEF Row, States
    <3> QED
      BY <2>1, <3>3, RowAssumption
  <2>2. CASE ~(n \in S /\ row[n] # None)
    BY <2>2 DEF SetState, TypeOK
  <2> QED
    BY <2>1, <2>2
<1>2. r = [n \in Nodes |-> r[n]]
  BY DEF SetState
<1> HIDE DEF r
<1>3. Updated(r, d, S, s)
  BY <1>1, <1>2 DEF Updated
<1> QED
  BY <1>3 DEF r

\* A failure is recorded, unless the run registered now is cancelled.
LEMMA FailRowsGives ==
    ASSUME TypeOK, NEW d \in Deploys, NEW S
    PROVE  IF Quiet THEN FailRows(d, S) = row ELSE Updated(FailRows(d, S), d, S, "error")
  BY SetStateGives DEF FailRows, States

\* Every step keeps the types.
LEMMA TypeStep ==
    TypeOK /\ RunInv /\ PhaseInv /\ [Next]_vars => TypeOK'
<1> SUFFICES ASSUME TypeOK, RunInv, PhaseInv, [Next]_vars PROVE TypeOK'
  OBVIOUS
<1>0. /\ TableType /\ RunType /\ BarrierType /\ FlowType
      /\ \A g \in Frames : Mem(g) \in SUBSET Nodes
      /\ \A e \in Deploys, g \in Frames : left[e][g] \in SUBSET Nodes /\ pc[e][g] \in PC
      /\ MaxDeploys \in Nat /\ MaxFaults \in Nat
  BY TypeParts, MemFacts, FramesAssumption DEF FlowType
<1>1. ASSUME DeployStack PROVE TypeOK'
  <2> DEFINE b == gen + 1
             new == UNION {Fresh(f) : f \in Drawn[b]}
  <2>1. b \in Deploys /\ b \in 0..MaxDeploys
    BY <1>1, <1>0 DEF DeployStack, TableType, Deploys
  <2>2. \A f \in Frames : Fresh(f) \in SUBSET Nodes
    BY <1>0 DEF Fresh
  <2>3. Drawn[b] \subseteq Frames
    BY <2>1, FramesAssumption DEF Deploys
  <2>4. BarrierIDs(b) \in SUBSET Nodes
    BY <2>2, <2>3 DEF BarrierIDs
  <2>5. TableType'
    <3>1. [state |-> "pending", by |-> b, set |-> b] \in Row
      BY <2>1 DEF Row
    <3> QED
      BY <1>1, <1>0, <2>1, <3>1 DEF DeployStack, TableType
  <2>6. RunType'
    BY <1>1, <1>0, <2>1 DEF DeployStack, RunType
  <2>7. BarrierType'
    BY <1>1, <1>0, <2>1, <2>4 DEF DeployStack, BarrierType
  <2>8. FlowType'
    <3>1. pc' \in [Deploys -> [Frames -> PC]]
      BY <1>1, <1>0, <2>1 DEF DeployStack, FlowType, PC
    <3>2. left' \in [Deploys -> [Frames -> SUBSET Nodes]]
      BY <1>1, <1>0, <2>1, <2>2 DEF DeployStack, FlowType
    <3> QED
      BY <1>1, <1>0, <2>1, <3>1, <3>2 DEF DeployStack, FlowType
  <2> QED
    BY <2>5, <2>6, <2>7, <2>8, TypeParts
<1>2. ASSUME NEW d \in Deploys, NEW f \in Frames, Start(d, f) PROVE TypeOK'
  <2>1. FlowType'
    BY <1>2, <1>0, GotoGives DEF Start, PC
  <2>2. TableType'
    BY <1>2, <1>0, SetStateGives DEF Start, States, Updated, TableType
  <2>3. RunType'
    BY <1>2, <1>0 DEF Start, runvars, RunType
  <2>4. BarrierType'
    <3>1. gen \in 0..MaxDeploys /\ 0 \in 0..MaxDeploys
      BY <1>0 DEF TableType
    <3>2. at' \in [Deploys -> [Frames -> 0..MaxDeploys]]
      BY <1>2, <1>0, <3>1 DEF Start, BarrierType
    <3> QED
      BY <1>2, <1>0, <3>2 DEF Start, BarrierType
  <2> QED
    BY <2>1, <2>2, <2>3, <2>4, TypeParts
<1>3. ASSUME NEW d \in Deploys, NEW f \in Frames, IntranetReady(d, f) PROVE TypeOK'
  <2>1. FlowType'
    BY <1>3, <1>0, GotoGives DEF IntranetReady, PC
  <2>2. TableType'
    BY <1>3, <1>0 DEF IntranetReady, tables, TableType
  <2>3. RunType'
    BY <1>3, <1>0 DEF IntranetReady, runvars, RunType
  <2>4. BarrierType'
    BY <1>3, <1>0 DEF IntranetReady, barrier, BarrierType, TableType, Deploys, Waiters
  <2> QED
    BY <2>1, <2>2, <2>3, <2>4, TypeParts
<1>4. ASSUME NEW d \in Deploys, NEW f \in Frames, IntranetFails(d, f) PROVE TypeOK'
  <2>1. FlowType'
    BY <1>4, <1>0, ReturnGives DEF IntranetFails
  <2>2. TableType'
    BY <1>4, <1>0, FailRowsGives DEF IntranetFails, Fault, Updated, TableType
  <2>3. RunType'
    BY <1>4, <1>0 DEF IntranetFails, runvars, RunType
  <2>4. BarrierType'
    BY <1>4, <1>0, ReturnGives DEF IntranetFails, BarrierType
  <2> QED
    BY <2>1, <2>2, <2>3, <2>4, TypeParts
<1>5. ASSUME NEW d \in Deploys, NEW f \in Frames, NEW n \in Nodes, MemberPrepared(d, f, n) PROVE
   TypeOK'
  <2>1. FlowType'
    BY <1>5, <1>0, DidGives DEF MemberPrepared
  <2>2. TableType'
    <3>1. [state |-> "provisioning", by |-> d, set |-> d] \in Row
      BY DEF Row
    <3> QED
      BY <1>5, <1>0, <3>1 DEF MemberPrepared, TableType
  <2>3. RunType'
    BY <1>5, <1>0 DEF MemberPrepared, runvars, RunType
  <2>4. BarrierType'
    BY <1>5, <1>0 DEF MemberPrepared, barrier, BarrierType, TableType, Deploys, Waiters
  <2> QED
    BY <2>1, <2>2, <2>3, <2>4, TypeParts
<1>6. ASSUME NEW d \in Deploys, NEW f \in Frames, NEW n \in Nodes, MemberBaselined(d, f, n) PROVE
   TypeOK'
  <2>1. FlowType'
    BY <1>6, <1>0, DidGives DEF MemberBaselined
  <2>2. TableType'
    BY <1>6, <1>0 DEF MemberBaselined, tables, TableType
  <2>3. RunType'
    BY <1>6, <1>0 DEF MemberBaselined, runvars, RunType
  <2>4. BarrierType'
    BY <1>6, <1>0 DEF MemberBaselined, Arrive, BarrierType, TableType, Deploys, Waiters
  <2> QED
    BY <2>1, <2>2, <2>3, <2>4, TypeParts
<1>7. ASSUME NEW d \in Deploys, NEW f \in Frames, NEW n \in Nodes, MemberFails(d, f, n) PROVE
   TypeOK'
  <2>1. FlowType'
    BY <1>7, <1>0 DEF MemberFails, FlowType
  <2>2. TableType'
    BY <1>7, <1>0, FailRowsGives DEF MemberFails, Fault, Updated, TableType
  <2>3. RunType'
    BY <1>7, <1>0 DEF MemberFails, runvars, RunType
  <2>4. BarrierType'
    BY <1>7, <1>0 DEF MemberFails, barrier, BarrierType, TableType, Deploys, Waiters
  <2> QED
    BY <2>1, <2>2, <2>3, <2>4, TypeParts
<1>8. ASSUME NEW d \in Deploys, NEW f \in Frames, PhaseFailed(d, f) PROVE TypeOK'
  <2>1. FlowType'
    BY <1>8, <1>0, ReturnGives DEF PhaseFailed
  <2>2. TableType'
    BY <1>8, <1>0 DEF PhaseFailed, tables, TableType
  <2>3. RunType'
    BY <1>8, <1>0 DEF PhaseFailed, runvars, RunType
  <2>4. BarrierType'
    BY <1>8, <1>0, ReturnGives DEF PhaseFailed, BarrierType
  <2> QED
    BY <2>1, <2>2, <2>3, <2>4, TypeParts
<1>9. ASSUME NEW d \in Deploys, NEW f \in Frames, PhaseDone(d, f) PROVE TypeOK'
  <2>1. FlowType'
    BY <1>9, <1>0, GotoGives DEF PhaseDone, PC
  <2>2. TableType'
    BY <1>9, <1>0 DEF PhaseDone, tables, TableType
  <2>3. RunType'
    BY <1>9, <1>0 DEF PhaseDone, runvars, RunType
  <2>4. BarrierType'
    <3>1. gen \in 0..MaxDeploys /\ 0 \in 0..MaxDeploys
      BY <1>0 DEF TableType
    <3>2. at' \in [Deploys -> [Frames -> 0..MaxDeploys]]
      <4>1. at' = at \/ at' = [at EXCEPT ![d][f] = gen]
        BY <1>9 DEF PhaseDone
      <4>2. at \in [Deploys -> [Frames -> 0..MaxDeploys]]
        BY <1>0 DEF BarrierType
      <4> QED
        BY <4>1, <4>2, <3>1
    <3> QED
      BY <1>9, <1>0, <3>2 DEF PhaseDone, BarrierType
  <2> QED
    BY <2>1, <2>2, <2>3, <2>4, TypeParts
<1>10. ASSUME NEW d \in Deploys, NEW f \in Frames, FormNext(d, f) PROVE TypeOK'
  <2>1. FlowType'
    BY <1>10, <1>0, DidGives DEF FormNext
  <2>2. TableType'
    BY <1>10, <1>0 DEF FormNext, tables, TableType
  <2>3. RunType'
    BY <1>10, <1>0 DEF FormNext, runvars, RunType
  <2>4. BarrierType'
    <3>1. NextOf(d, f) \in Nodes
      BY <1>10, <1>0, NextOfLeft DEF FormNext, PhaseInv, PhaseOK
    <3> QED
      BY <1>10, <1>0, <3>1 DEF FormNext, BarrierType
  <2> QED
    BY <2>1, <2>2, <2>3, <2>4, TypeParts
<1>11. ASSUME NEW d \in Deploys, NEW f \in Frames, Formed(d, f) PROVE TypeOK'
  <2>1. FlowType'
    BY <1>11, <1>0, GotoGives DEF Formed, PC
  <2>2. TableType'
    BY <1>11, <1>0 DEF Formed, tables, TableType
  <2>3. RunType'
    BY <1>11, <1>0 DEF Formed, runvars, RunType
  <2>4. BarrierType'
    BY <1>11, <1>0 DEF Formed, Arrive, BarrierType, TableType, Deploys, Waiters
  <2> QED
    BY <2>1, <2>2, <2>3, <2>4, TypeParts
<1>12. ASSUME NEW d \in Deploys, NEW f \in Frames, BarrierOpens(d, f) PROVE TypeOK'
  <2>1. FlowType'
    BY <1>12, <1>0, GotoGives DEF BarrierOpens, PC
  <2>2. TableType'
    BY <1>12, <1>0 DEF BarrierOpens, tables, TableType
  <2>3. RunType'
    BY <1>12, <1>0 DEF BarrierOpens, runvars, RunType
  <2>4. BarrierType'
    BY <1>12, <1>0 DEF BarrierOpens, BarrierType, TableType, Deploys, Waiters
  <2> QED
    BY <2>1, <2>2, <2>3, <2>4, TypeParts
<1>13. ASSUME NEW d \in Deploys, NEW f \in Frames, BarrierTimesOut(d, f) PROVE TypeOK'
  <2>1. FlowType'
    BY <1>13, <1>0, GotoGives DEF BarrierTimesOut, PC
  <2>2. TableType'
    BY <1>13, <1>0 DEF BarrierTimesOut, tables, TableType
  <2>3. RunType'
    BY <1>13, <1>0 DEF BarrierTimesOut, runvars, RunType
  <2>4. BarrierType'
    BY <1>13, <1>0 DEF BarrierTimesOut, BarrierType, TableType, Deploys, Waiters
  <2> QED
    BY <2>1, <2>2, <2>3, <2>4, TypeParts
<1>14. ASSUME NEW d \in Deploys, NEW f \in Frames, AttachNext(d, f) PROVE TypeOK'
  <2>1. FlowType'
    BY <1>14, <1>0, DidGives DEF AttachNext
  <2>2. TableType'
    BY <1>14, <1>0 DEF AttachNext, tables, TableType
  <2>3. RunType'
    BY <1>14, <1>0 DEF AttachNext, runvars, RunType
  <2>4. BarrierType'
    BY <1>14, <1>0 DEF AttachNext, barrier, BarrierType, TableType, Deploys, Waiters
  <2> QED
    BY <2>1, <2>2, <2>3, <2>4, TypeParts
<1>15. ASSUME NEW d \in Deploys, NEW f \in Frames, Attached(d, f) PROVE TypeOK'
  <2>1. FlowType'
    BY <1>15, <1>0, GotoGives DEF Attached, PC
  <2>2. TableType'
    BY <1>15, <1>0 DEF Attached, tables, TableType
  <2>3. RunType'
    BY <1>15, <1>0 DEF Attached, runvars, RunType
  <2>4. BarrierType'
    BY <1>15, <1>0 DEF Attached, barrier, BarrierType, TableType, Deploys, Waiters
  <2> QED
    BY <2>1, <2>2, <2>3, <2>4, TypeParts
<1>16. ASSUME NEW d \in Deploys, NEW f \in Frames, FinishNext(d, f) PROVE TypeOK'
  <2>1. FlowType'
    BY <1>16, <1>0, DidGives DEF FinishNext
  <2>2. TableType'
    BY <1>16, <1>0, SetStateGives DEF FinishNext, States, Updated, TableType
  <2>3. RunType'
    BY <1>16, <1>0 DEF FinishNext, runvars, RunType
  <2>4. BarrierType'
    BY <1>16, <1>0 DEF FinishNext, barrier, BarrierType, TableType, Deploys, Waiters
  <2> QED
    BY <2>1, <2>2, <2>3, <2>4, TypeParts
<1>17. ASSUME NEW d \in Deploys, NEW f \in Frames, SequenceFails(d, f) PROVE TypeOK'
  <2>1. FlowType'
    BY <1>17, <1>0, ReturnGives DEF SequenceFails
  <2>2. TableType'
    BY <1>17, <1>0, FailRowsGives DEF SequenceFails, Fault, Updated, TableType
  <2>3. RunType'
    BY <1>17, <1>0 DEF SequenceFails, runvars, RunType
  <2>4. BarrierType'
    BY <1>17, <1>0, ReturnGives DEF SequenceFails, BarrierType
  <2> QED
    BY <2>1, <2>2, <2>3, <2>4, TypeParts
<1>18. ASSUME NEW d \in Deploys, NEW f \in Frames, JoinNext(d, f) PROVE TypeOK'
  <2>1. FlowType'
    BY <1>18, <1>0, DidGives DEF JoinNext
  <2>2. TableType'
    BY <1>18, <1>0, SetStateGives, FailRowsGives DEF JoinNext, Fault, States, Updated, TableType
  <2>3. RunType'
    BY <1>18, <1>0 DEF JoinNext, runvars, RunType
  <2>4. BarrierType'
    BY <1>18, <1>0 DEF JoinNext, barrier, BarrierType, TableType, Deploys, Waiters
  <2> QED
    BY <2>1, <2>2, <2>3, <2>4, TypeParts
<1>19. ASSUME NEW d \in Deploys, NEW f \in Frames, FrameDone(d, f) PROVE TypeOK'
  <2>1. FlowType'
    BY <1>19, <1>0, ReturnGives DEF FrameDone
  <2>2. TableType'
    BY <1>19, <1>0 DEF FrameDone, tables, TableType
  <2>3. RunType'
    BY <1>19, <1>0 DEF FrameDone, runvars, RunType
  <2>4. BarrierType'
    BY <1>19, <1>0, ReturnGives DEF FrameDone, BarrierType
  <2> QED
    BY <2>1, <2>2, <2>3, <2>4, TypeParts
<1>20. ASSUME NEW d \in Deploys, ReplBarrierOpens(d) PROVE TypeOK'
  <2>1. TableType'
    BY <1>20, <1>0 DEF ReplBarrierOpens, tables, TableType
  <2>2. RunType'
    BY <1>20, <1>0 DEF ReplBarrierOpens, runvars, RunType, Deploys
  <2>3. BarrierType'
    BY <1>20, <1>0 DEF ReplBarrierOpens, BarrierType, Waiters
  <2>4. FlowType'
    BY <1>20, <1>0 DEF ReplBarrierOpens, FlowType
  <2> QED
    BY <2>1, <2>2, <2>3, <2>4, TypeParts
<1>21. ASSUME NEW d \in Deploys, ReplBarrierTimesOut(d) PROVE TypeOK'
  <2>1. TableType'
    BY <1>21, <1>0 DEF ReplBarrierTimesOut, tables, TableType
  <2>2. RunType'
    BY <1>21, <1>0 DEF ReplBarrierTimesOut, runvars, RunType, Deploys
  <2>3. BarrierType'
    BY <1>21, <1>0 DEF ReplBarrierTimesOut, BarrierType, Waiters
  <2>4. FlowType'
    BY <1>21, <1>0 DEF ReplBarrierTimesOut, FlowType
  <2> QED
    BY <2>1, <2>2, <2>3, <2>4, TypeParts
<1>22. ASSUME NEW d \in Deploys, ReplNodes(d) PROVE TypeOK'
  <2>1. TableType'
    BY <1>22, <1>0 DEF ReplNodes, tables, TableType
  <2>2. RunType'
    BY <1>22, <1>0 DEF ReplNodes, runvars, RunType, Deploys
  <2>3. BarrierType'
    BY <1>22, <1>0 DEF ReplNodes, barrier, BarrierType, Waiters
  <2>4. FlowType'
    BY <1>22, <1>0 DEF ReplNodes, FlowType
  <2> QED
    BY <2>1, <2>2, <2>3, <2>4, TypeParts
<1>23. ASSUME FinishDeploy PROVE TypeOK'
  <2>1. TableType'
    BY <1>23, <1>0 DEF FinishDeploy, tables, TableType
  <2>2. RunType'
    BY <1>23, <1>0 DEF FinishDeploy, RunType, Deploys
  <2>3. BarrierType'
    BY <1>23, <1>0 DEF FinishDeploy, barrier, BarrierType, Waiters
  <2>4. FlowType'
    BY <1>23, <1>0 DEF FinishDeploy, flow, FlowType
  <2> QED
    BY <2>1, <2>2, <2>3, <2>4, TypeParts
<1>24. ASSUME Destroy PROVE TypeOK'
  <2>1. run \in Deploys
    BY <1>24, <1>0 DEF Destroy, RunType, Deploys
  <2>2. TableType' /\ RunType'
    BY <1>24, <1>0, <2>1 DEF Destroy, tables, TableType, RunType
  <2>3. BarrierType' /\ FlowType'
    BY <1>24, <1>0 DEF Destroy, barrier, flow, BarrierType, FlowType
  <2> QED
    BY <2>2, <2>3, TypeParts
<1>25. ASSUME Teardown PROVE TypeOK'
  <2>1. run \in Deploys
    BY <1>25, <1>0 DEF Teardown, RunInv, RunType, Deploys
  <2>2. TableType' /\ RunType'
    <3>1. /\ run' = 0 /\ tpc' = "idle" /\ row' = [n \in Nodes |-> None]
          /\ UNCHANGED <<gen, cancelled, faults>>
          /\ dropped' = dropped \/ dropped' = dropped \cup {run}
      BY <1>25 DEF Teardown, Torn
    <3>2. TableType'
      BY <1>0, <3>1 DEF TableType
    <3>3. 0 \in 0..MaxDeploys
      BY FramesAssumption
    <3>4. RunType'
      <4>1. run' \in 0..MaxDeploys /\ tpc' \in {"idle", "wait"}
        BY <3>1, <3>3
      <4>2. cancelled' \subseteq Deploys
        BY <1>0, <3>1 DEF RunType
      <4>3. dropped' \subseteq Deploys
        BY <1>0, <2>1, <3>1 DEF RunType
      <4> QED
        BY <4>1, <4>2, <4>3 DEF RunType
    <3> QED
      BY <3>2, <3>4
  <2>3. BarrierType' /\ FlowType'
    BY <1>25, <1>0 DEF Teardown, Torn, barrier, flow, BarrierType, FlowType
  <2> QED
    BY <2>2, <2>3, TypeParts
<1>26. ASSUME TeardownIdle PROVE TypeOK'
  <2>1. TableType'
    BY <1>26, <1>0 DEF TeardownIdle, TableType
  <2>2. RunType'
    BY <1>26, <1>0 DEF TeardownIdle, runvars, RunType, Deploys
  <2>3. BarrierType'
    BY <1>26, <1>0 DEF TeardownIdle, barrier, BarrierType, Waiters
  <2>4. FlowType'
    BY <1>26, <1>0 DEF TeardownIdle, flow, FlowType
  <2> QED
    BY <2>1, <2>2, <2>3, <2>4, TypeParts
<1>27. CASE UNCHANGED vars
  BY <1>27 DEF vars, tables, runvars, barrier, flow, TypeOK
<1> QED
  BY <1>1, <1>2, <1>3, <1>4, <1>5, <1>6, <1>7, <1>8, <1>9, <1>10, <1>11, <1>12, <1>13, <1>14,
     <1>15, <1>16, <1>17, <1>18, <1>19, <1>20, <1>21, <1>22, <1>23, <1>24, <1>25, <1>26, <1>27 DEF
     Next, ReplStep, TimeOut, FrameStep

-----------------------------------------------------------------------------
(* What a step of one goroutine leaves alone *)

\* It is a step of a goroutine that is running, and of no other; once past the barrier it never goes
\* back.
Moves(d, f) ==
    /\ Live(d, f) /\ Elsewhere(d, f)
    /\ UNCHANGED <<run, cancelled, dropped, tpc, gen, rpc, parts>>
    /\ pc'[d][f] # "none"
    /\ pc[d][f] \in {"wait", "attach", "finish"} => pc'[d][f] \in {"attach", "finish", "done"}

\* At the barriers it only arrives for members of its own frame, at that of its own deploy: they are
\* at their baseline, or the goroutine returns.
Meets(d, f) ==
    /\ \A e \in Deploys, g \in Frames : e # d \/ g # f => at'[e][g] = at[e][g]
    /\ \A e \in Deploys : based[e] \subseteq based'[e] /\ (e # d => based'[e] = based[e])
    /\ \A e \in Deploys, w \in Waiters :
          e # d \/ w # f \/ pc'[d][f] # "attach" => passed'[e][w] = passed[e][w]
    /\ \A e \in Deploys : \A n \in pending[e] \ pending'[e] :
          e = d /\ n \in Mem(f) /\ (n \in based'[d] \/ pc'[d][f] = "done")

\* It writes the rows of its own members only, and takes over none while it is cancelled.
Sets(d, f) ==
    /\ \A n \in Nodes :
          \/ row'[n] = row[n]
          \/ /\ n \in Writes(d, f) /\ row'[n] # None /\ row'[n].set = d
             /\ \/ row[n] # None /\ row'[n].by = row[n].by
                \/ row'[n].by = d /\ d \notin cancelled
    /\ pc'[d][f] # "done" => Writes(d, f)' \subseteq Writes(d, f)

\* A step of a frame moves its own goroutine.
LEMMA FrameMoves ==
    ASSUME TypeOK, PhaseInv, NEW d \in Deploys, NEW f \in Frames,
           FrameStep(d, f) \/ BarrierTimesOut(d, f)
    PROVE  Moves(d, f)
<1>0. /\ TableType /\ RunType /\ BarrierType /\ FlowType
      /\ \A g \in Frames : Mem(g) \in SUBSET Nodes
      /\ \A e \in Deploys, g \in Frames : left[e][g] \in SUBSET Nodes /\ pc[e][g] \in PC
      /\ MaxDeploys \in Nat /\ MaxFaults \in Nat
  BY TypeParts, MemFacts, FramesAssumption DEF FlowType
<1>1. ASSUME Start(d, f) PROVE Moves(d, f)
  BY <1>1, <1>0, GotoGives DEF Start, Moves, Live, PC, runvars, tables, barrier
<1>2. ASSUME IntranetReady(d, f) PROVE Moves(d, f)
  BY <1>2, <1>0, GotoGives DEF IntranetReady, Moves, Live, PC, runvars, tables, barrier
<1>3. ASSUME IntranetFails(d, f) PROVE Moves(d, f)
  BY <1>3, <1>0, ReturnGives DEF IntranetFails, Moves, Live, PC, runvars, tables, barrier
<1>4. ASSUME NEW n \in Nodes, MemberPrepared(d, f, n) PROVE Moves(d, f)
  BY <1>4, <1>0, DidGives DEF MemberPrepared, Moves, Live, PC, runvars, tables, barrier
<1>5. ASSUME NEW n \in Nodes, MemberBaselined(d, f, n) PROVE Moves(d, f)
  BY <1>5, <1>0, DidGives DEF MemberBaselined, Moves, Live, PC, runvars, tables, barrier
<1>6. ASSUME NEW n \in Nodes, MemberFails(d, f, n) PROVE Moves(d, f)
  BY <1>6, <1>0, FailsGives DEF MemberFails, Moves, Live, PC, runvars, tables, barrier
<1>7. ASSUME PhaseFailed(d, f) PROVE Moves(d, f)
  BY <1>7, <1>0, ReturnGives DEF PhaseFailed, Moves, Live, PC, runvars, tables, barrier
<1>8. ASSUME PhaseDone(d, f) PROVE Moves(d, f)
  BY <1>8, <1>0, GotoGives DEF PhaseDone, Moves, Live, PC, runvars, tables, barrier
<1>9. ASSUME FormNext(d, f) PROVE Moves(d, f)
  BY <1>9, <1>0, DidGives DEF FormNext, Moves, Live, PC, runvars, tables, barrier
<1>10. ASSUME Formed(d, f) PROVE Moves(d, f)
  BY <1>10, <1>0, GotoGives DEF Formed, Moves, Live, PC, runvars, tables, barrier
<1>11. ASSUME BarrierOpens(d, f) PROVE Moves(d, f)
  BY <1>11, <1>0, GotoGives DEF BarrierOpens, Moves, Live, PC, runvars, tables, barrier
<1>12. ASSUME BarrierTimesOut(d, f) PROVE Moves(d, f)
  BY <1>12, <1>0, GotoGives DEF BarrierTimesOut, Moves, Live, PC, runvars, tables, barrier
<1>13. ASSUME AttachNext(d, f) PROVE Moves(d, f)
  BY <1>13, <1>0, DidGives DEF AttachNext, Moves, Live, PC, runvars, tables, barrier
<1>14. ASSUME Attached(d, f) PROVE Moves(d, f)
  BY <1>14, <1>0, GotoGives DEF Attached, Moves, Live, PC, runvars, tables, barrier
<1>15. ASSUME FinishNext(d, f) PROVE Moves(d, f)
  BY <1>15, <1>0, DidGives DEF FinishNext, Moves, Live, PC, runvars, tables, barrier
<1>16. ASSUME SequenceFails(d, f) PROVE Moves(d, f)
  BY <1>16, <1>0, ReturnGives DEF SequenceFails, Moves, Live, PC, runvars, tables, barrier
<1>17. ASSUME JoinNext(d, f) PROVE Moves(d, f)
  BY <1>17, <1>0, DidGives DEF JoinNext, Moves, Live, PC, runvars, tables, barrier
<1>18. ASSUME FrameDone(d, f) PROVE Moves(d, f)
  BY <1>18, <1>0, ReturnGives DEF FrameDone, Moves, Live, PC, runvars, tables, barrier
<1> QED
  BY <1>1, <1>2, <1>3, <1>4, <1>5, <1>6, <1>7, <1>8, <1>9, <1>10, <1>11, <1>12, <1>13, <1>14,
     <1>15, <1>16, <1>17, <1>18 DEF FrameStep

\* A step of a frame keeps to the barrier of its own deploy.
LEMMA FrameMeets ==
    ASSUME TypeOK, PhaseInv, NEW d \in Deploys, NEW f \in Frames,
           FrameStep(d, f) \/ BarrierTimesOut(d, f)
    PROVE  Meets(d, f)
<1>0. /\ TableType /\ RunType /\ BarrierType /\ FlowType
      /\ \A g \in Frames : Mem(g) \in SUBSET Nodes
      /\ \A e \in Deploys, g \in Frames : left[e][g] \in SUBSET Nodes /\ pc[e][g] \in PC
      /\ MaxDeploys \in Nat /\ MaxFaults \in Nat
  BY TypeParts, MemFacts, FramesAssumption DEF FlowType
<1>1. ASSUME Start(d, f) PROVE Meets(d, f)
  <2>1. UNCHANGED <<pending, passed, based>>
    BY <1>1 DEF Start
  <2>2. \A e \in Deploys, g \in Frames : e # d \/ g # f => at'[e][g] = at[e][g]
    BY <1>1, <1>0 DEF Start, BarrierType
  <2> QED
    BY <2>1, <2>2 DEF Meets
<1>2. ASSUME IntranetReady(d, f) PROVE Meets(d, f)
  BY <1>2, <1>0 DEF IntranetReady, Meets, barrier
<1>3. ASSUME IntranetFails(d, f) PROVE Meets(d, f)
  <2>1. /\ at' = at /\ pc'[d][f] = "done"
        /\ \A b \in Deploys : pending'[b] = IF b = at[d][f] THEN pending[b] \ Mem(f) ELSE pending[b]
    BY <1>3, ReturnGives DEF IntranetFails
  <2>2. UNCHANGED <<passed, based>> /\ at[d][f] \in {0, d} /\ 0 \notin Deploys
    BY <1>3 DEF IntranetFails, PhaseInv, PhaseOK, Deploys
  <2> QED
    BY <2>1, <2>2 DEF Meets
<1>4. ASSUME NEW n \in Nodes, MemberPrepared(d, f, n) PROVE Meets(d, f)
  BY <1>4, <1>0 DEF MemberPrepared, Meets, barrier
<1>5. ASSUME NEW n \in Nodes, MemberBaselined(d, f, n) PROVE Meets(d, f)
  <2>1. at[d][f] = d /\ n \in Mem(f)
    BY <1>5 DEF MemberBaselined, PhaseInv, PhaseOK
  <2> QED
    BY <1>5, <1>0, <2>1 DEF MemberBaselined, Arrive, Meets, BarrierType
<1>6. ASSUME NEW n \in Nodes, MemberFails(d, f, n) PROVE Meets(d, f)
  BY <1>6, <1>0 DEF MemberFails, Meets, barrier
<1>7. ASSUME PhaseFailed(d, f) PROVE Meets(d, f)
  <2>1. /\ at' = at /\ pc'[d][f] = "done"
        /\ \A b \in Deploys : pending'[b] = IF b = at[d][f] THEN pending[b] \ Mem(f) ELSE pending[b]
    BY <1>7, ReturnGives DEF PhaseFailed
  <2>2. UNCHANGED <<passed, based>> /\ at[d][f] \in {0, d} /\ 0 \notin Deploys
    BY <1>7 DEF PhaseFailed, PhaseInv, PhaseOK, Deploys
  <2> QED
    BY <2>1, <2>2 DEF Meets
<1>8. ASSUME PhaseDone(d, f) PROVE Meets(d, f)
  <2>1. UNCHANGED <<pending, passed, based>>
    BY <1>8 DEF PhaseDone
  <2>2. \A e \in Deploys, g \in Frames : e # d \/ g # f => at'[e][g] = at[e][g]
    BY <1>8, <1>0 DEF PhaseDone, BarrierType
  <2> QED
    BY <2>1, <2>2 DEF Meets
<1>9. ASSUME FormNext(d, f) PROVE Meets(d, f)
  <2>1. NextOf(d, f) \in Nodes
    BY <1>9, <1>0, NextOfLeft DEF FormNext, PhaseInv, PhaseOK
  <2> QED
    BY <1>9, <1>0, <2>1 DEF FormNext, Meets, BarrierType
<1>10. ASSUME Formed(d, f) PROVE Meets(d, f)
  <2>1. at[d][f] = d /\ Mem(f) \subseteq based[d]
    BY <1>10 DEF Formed, PhaseInv, PhaseOK
  <2> QED
    BY <1>10, <1>0, <2>1 DEF Formed, Arrive, Meets, BarrierType
<1>11. ASSUME BarrierOpens(d, f) PROVE Meets(d, f)
  BY <1>11, <1>0, GotoGives DEF BarrierOpens, Meets, BarrierType, PC, Waiters
<1>12. ASSUME BarrierTimesOut(d, f) PROVE Meets(d, f)
  BY <1>12, <1>0, GotoGives DEF BarrierTimesOut, Meets, BarrierType, PC, Waiters
<1>13. ASSUME AttachNext(d, f) PROVE Meets(d, f)
  BY <1>13, <1>0 DEF AttachNext, Meets, barrier
<1>14. ASSUME Attached(d, f) PROVE Meets(d, f)
  BY <1>14, <1>0 DEF Attached, Meets, barrier
<1>15. ASSUME FinishNext(d, f) PROVE Meets(d, f)
  BY <1>15, <1>0 DEF FinishNext, Meets, barrier
<1>16. ASSUME SequenceFails(d, f) PROVE Meets(d, f)
  <2>1. /\ at' = at /\ pc'[d][f] = "done"
        /\ \A b \in Deploys : pending'[b] = IF b = at[d][f] THEN pending[b] \ Mem(f) ELSE pending[b]
    BY <1>16, ReturnGives DEF SequenceFails
  <2>2. UNCHANGED <<passed, based>> /\ at[d][f] \in {0, d} /\ 0 \notin Deploys
    BY <1>16 DEF SequenceFails, PhaseInv, PhaseOK, Deploys
  <2> QED
    BY <2>1, <2>2 DEF Meets
<1>17. ASSUME JoinNext(d, f) PROVE Meets(d, f)
  BY <1>17, <1>0 DEF JoinNext, Meets, barrier
<1>18. ASSUME FrameDone(d, f) PROVE Meets(d, f)
  <2>1. /\ at' = at /\ pc'[d][f] = "done"
        /\ \A b \in Deploys : pending'[b] = IF b = at[d][f] THEN pending[b] \ Mem(f) ELSE pending[b]
    BY <1>18, ReturnGives DEF FrameDone
  <2>2. UNCHANGED <<passed, based>> /\ at[d][f] \in {0, d} /\ 0 \notin Deploys
    BY <1>18 DEF FrameDone, PhaseInv, PhaseOK, Deploys
  <2> QED
    BY <2>1, <2>2 DEF Meets
<1> QED
  BY <1>1, <1>2, <1>3, <1>4, <1>5, <1>6, <1>7, <1>8, <1>9, <1>10, <1>11, <1>12, <1>13, <1>14,
     <1>15, <1>16, <1>17, <1>18 DEF FrameStep

\* A step of a frame writes rows of its own members.
LEMMA FrameSets ==
    ASSUME TypeOK, PhaseInv, NEW d \in Deploys, NEW f \in Frames,
           FrameStep(d, f) \/ BarrierTimesOut(d, f)
    PROVE  Sets(d, f)
<1>0. /\ TableType /\ RunType /\ BarrierType /\ FlowType
      /\ \A g \in Frames : Mem(g) \in SUBSET Nodes
      /\ \A e \in Deploys, g \in Frames : left[e][g] \in SUBSET Nodes /\ pc[e][g] \in PC
      /\ MaxDeploys \in Nat /\ MaxFaults \in Nat
  BY TypeParts, MemFacts, FramesAssumption DEF FlowType
<1>1. ASSUME Start(d, f) PROVE Sets(d, f)
  <2>1. left[d][f] \subseteq Mem(f)
    BY DEF PhaseInv, PhaseOK
  <2>3. left[d][f] \subseteq Writes(d, f)
    BY <1>1, <2>1 DEF Start, Writes
  <2>4. Updated(row', d, left[d][f], "provisioning")
    BY <1>1, SetStateGives DEF Start, States
  <2>5. pc'[d][f] # "done" => Writes(d, f)' \subseteq Writes(d, f)
    BY <1>1, <1>0, <2>1, GotoGives DEF Start, Writes, Joins, PC
  <2> QED
    BY <2>3, <2>4, <2>5 DEF Sets, Updated
<1>2. ASSUME IntranetReady(d, f) PROVE Sets(d, f)
  <2>1. left[d][f] \subseteq Mem(f)
    BY DEF PhaseInv, PhaseOK
  <2>4. row' = row
    BY <1>2 DEF IntranetReady, tables
  <2>5. pc'[d][f] # "done" => Writes(d, f)' \subseteq Writes(d, f)
    BY <1>2, <1>0, <2>1, GotoGives DEF IntranetReady, Writes, Joins, PC
  <2> QED
    BY <2>4, <2>5 DEF Sets
<1>3. ASSUME IntranetFails(d, f) PROVE Sets(d, f)
  <2>1. left[d][f] \subseteq Mem(f)
    BY DEF PhaseInv, PhaseOK
  <2>3. left[d][f] \subseteq Writes(d, f)
    BY <1>3, <2>1 DEF IntranetFails, Writes
  <2>4. row' = row \/ Updated(row', d, left[d][f], "error")
    BY <1>3, FailRowsGives DEF IntranetFails
  <2>5. pc'[d][f] # "done" => Writes(d, f)' \subseteq Writes(d, f)
    BY <1>3, <1>0, <2>1, ReturnGives DEF IntranetFails, Writes, Joins, PC
  <2> QED
    BY <2>3, <2>4, <2>5 DEF Sets, Updated
<1>4. ASSUME NEW n \in Nodes, MemberPrepared(d, f, n) PROVE Sets(d, f)
  <2>1. left[d][f] \subseteq Mem(f)
    BY DEF PhaseInv, PhaseOK
  <2>3. {n} \subseteq Writes(d, f)
    BY <1>4, <2>1 DEF MemberPrepared, Writes
  <2>4. /\ \A m \in Nodes : m # n => row'[m] = row[m]
        /\ row'[n] # None /\ row'[n].set = d /\ row'[n].by = d /\ d \notin cancelled
    <3>1. [state |-> "provisioning", by |-> d, set |-> d] \in Row
      BY DEF Row
    <3> QED
      BY <1>4, <1>0, <3>1, RowAssumption DEF MemberPrepared, TableType
  <2>5. pc'[d][f] # "done" => Writes(d, f)' \subseteq Writes(d, f)
    BY <1>4, <1>0, <2>1, DidGives DEF MemberPrepared, Writes, Joins, PC
  <2> QED
    BY <2>3, <2>4, <2>5 DEF Sets
<1>5. ASSUME NEW n \in Nodes, MemberBaselined(d, f, n) PROVE Sets(d, f)
  <2>1. left[d][f] \subseteq Mem(f)
    BY DEF PhaseInv, PhaseOK
  <2>4. row' = row
    BY <1>5 DEF MemberBaselined, tables
  <2>5. pc'[d][f] # "done" => Writes(d, f)' \subseteq Writes(d, f)
    BY <1>5, <1>0, <2>1, DidGives DEF MemberBaselined, Writes, Joins, PC
  <2> QED
    BY <2>4, <2>5 DEF Sets
<1>6. ASSUME NEW n \in Nodes, MemberFails(d, f, n) PROVE Sets(d, f)
  <2>1. left[d][f] \subseteq Mem(f)
    BY DEF PhaseInv, PhaseOK
  <2>3. {n} \subseteq Writes(d, f)
    BY <1>6, <2>1 DEF MemberFails, Writes
  <2>4. row' = row \/ Updated(row', d, {n}, "error")
    BY <1>6, FailRowsGives DEF MemberFails
  <2>5. pc'[d][f] # "done" => Writes(d, f)' \subseteq Writes(d, f)
    BY <1>6, <1>0, <2>1, FailsGives DEF MemberFails, Writes, Joins, PC
  <2> QED
    BY <2>3, <2>4, <2>5 DEF Sets, Updated
<1>7. ASSUME PhaseFailed(d, f) PROVE Sets(d, f)
  <2>1. left[d][f] \subseteq Mem(f)
    BY DEF PhaseInv, PhaseOK
  <2>4. row' = row
    BY <1>7 DEF PhaseFailed, tables
  <2>5. pc'[d][f] # "done" => Writes(d, f)' \subseteq Writes(d, f)
    BY <1>7, <1>0, <2>1, ReturnGives DEF PhaseFailed, Writes, Joins, PC
  <2> QED
    BY <2>4, <2>5 DEF Sets
<1>8. ASSUME PhaseDone(d, f) PROVE Sets(d, f)
  <2>1. left[d][f] \subseteq Mem(f)
    BY DEF PhaseInv, PhaseOK
  <2>4. row' = row
    BY <1>8 DEF PhaseDone, tables
  <2>5. pc'[d][f] # "done" => Writes(d, f)' \subseteq Writes(d, f)
    BY <1>8, <1>0, <2>1, GotoGives DEF PhaseDone, Writes, Joins, PC
  <2> QED
    BY <2>4, <2>5 DEF Sets
<1>9. ASSUME FormNext(d, f) PROVE Sets(d, f)
  <2>1. left[d][f] \subseteq Mem(f)
    BY DEF PhaseInv, PhaseOK
  <2>4. row' = row
    BY <1>9 DEF FormNext, tables
  <2>5. pc'[d][f] # "done" => Writes(d, f)' \subseteq Writes(d, f)
    BY <1>9, <1>0, <2>1, DidGives DEF FormNext, Writes, Joins, PC
  <2> QED
    BY <2>4, <2>5 DEF Sets
<1>10. ASSUME Formed(d, f) PROVE Sets(d, f)
  <2>1. left[d][f] \subseteq Mem(f)
    BY DEF PhaseInv, PhaseOK
  <2>4. row' = row
    BY <1>10 DEF Formed, tables
  <2>5. pc'[d][f] # "done" => Writes(d, f)' \subseteq Writes(d, f)
    BY <1>10, <1>0, <2>1, GotoGives DEF Formed, Writes, Joins, PC
  <2> QED
    BY <2>4, <2>5 DEF Sets
<1>11. ASSUME BarrierOpens(d, f) PROVE Sets(d, f)
  <2>1. left[d][f] \subseteq Mem(f)
    BY DEF PhaseInv, PhaseOK
  <2>4. row' = row
    BY <1>11 DEF BarrierOpens, tables
  <2>5. pc'[d][f] # "done" => Writes(d, f)' \subseteq Writes(d, f)
    BY <1>11, <1>0, <2>1, GotoGives DEF BarrierOpens, Writes, Joins, PC
  <2> QED
    BY <2>4, <2>5 DEF Sets
<1>12. ASSUME BarrierTimesOut(d, f) PROVE Sets(d, f)
  <2>1. left[d][f] \subseteq Mem(f)
    BY DEF PhaseInv, PhaseOK
  <2>4. row' = row
    BY <1>12 DEF BarrierTimesOut, tables
  <2>5. pc'[d][f] # "done" => Writes(d, f)' \subseteq Writes(d, f)
    BY <1>12, <1>0, <2>1, GotoGives DEF BarrierTimesOut, Writes, Joins, PC
  <2> QED
    BY <2>4, <2>5 DEF Sets
<1>13. ASSUME AttachNext(d, f) PROVE Sets(d, f)
  <2>1. left[d][f] \subseteq Mem(f)
    BY DEF PhaseInv, PhaseOK
  <2>4. row' = row
    BY <1>13 DEF AttachNext, tables
  <2>5. pc'[d][f] # "done" => Writes(d, f)' \subseteq Writes(d, f)
    BY <1>13, <1>0, <2>1, DidGives DEF AttachNext, Writes, Joins, PC
  <2> QED
    BY <2>4, <2>5 DEF Sets
<1>14. ASSUME Attached(d, f) PROVE Sets(d, f)
  <2>1. left[d][f] \subseteq Mem(f)
    BY DEF PhaseInv, PhaseOK
  <2>4. row' = row
    BY <1>14 DEF Attached, tables
  <2>5. pc'[d][f] # "done" => Writes(d, f)' \subseteq Writes(d, f)
    BY <1>14, <1>0, <2>1, GotoGives DEF Attached, Writes, Joins, PC
  <2> QED
    BY <2>4, <2>5 DEF Sets
<1>15. ASSUME FinishNext(d, f) PROVE Sets(d, f)
  <2>1. left[d][f] \subseteq Mem(f)
    BY DEF PhaseInv, PhaseOK
  <2>2. NextOf(d, f) \in left[d][f]
    BY <1>15, <2>1, NextOfLeft DEF FinishNext
  <2>3. {NextOf(d, f)} \subseteq Writes(d, f)
    BY <1>15, <2>1, <2>2 DEF FinishNext, Writes
  <2>4. Updated(row', d, {NextOf(d, f)}, "running")
    BY <1>15, SetStateGives DEF FinishNext, States
  <2>5. pc'[d][f] # "done" => Writes(d, f)' \subseteq Writes(d, f)
    BY <1>15, <1>0, <2>1, DidGives DEF FinishNext, Writes, Joins, PC
  <2> QED
    BY <2>3, <2>4, <2>5 DEF Sets, Updated
<1>16. ASSUME SequenceFails(d, f) PROVE Sets(d, f)
  <2>1. left[d][f] \subseteq Mem(f)
    BY DEF PhaseInv, PhaseOK
  <2>2. NextOf(d, f) \in left[d][f]
    BY <1>16, <2>1, NextOfLeft DEF SequenceFails
  <2>3. {NextOf(d, f)} \subseteq Writes(d, f)
    BY <1>16, <2>1, <2>2 DEF SequenceFails, Writes
  <2>4. row' = row \/ Updated(row', d, {NextOf(d, f)}, "error")
    BY <1>16, FailRowsGives DEF SequenceFails
  <2>5. pc'[d][f] # "done" => Writes(d, f)' \subseteq Writes(d, f)
    BY <1>16, <1>0, <2>1, ReturnGives DEF SequenceFails, Writes, Joins, PC
  <2> QED
    BY <2>3, <2>4, <2>5 DEF Sets, Updated
<1>17. ASSUME JoinNext(d, f) PROVE Sets(d, f)
  <2>1. left[d][f] \subseteq Mem(f)
    BY DEF PhaseInv, PhaseOK
  <2>2. NextOf(d, f) \in left[d][f]
    BY <1>17, <2>1, NextOfLeft DEF JoinNext
  <2>3. {NextOf(d, f)} \subseteq Writes(d, f)
    BY <1>17, <2>1, <2>2 DEF JoinNext, Writes
  <2>4. \/ row' = row \/ Updated(row', d, {NextOf(d, f)}, "error")
        \/ Updated(row', d, {NextOf(d, f)}, "running")
    BY <1>17, SetStateGives, FailRowsGives DEF JoinNext, States
  <2>5. pc'[d][f] # "done" => Writes(d, f)' \subseteq Writes(d, f)
    BY <1>17, <1>0, <2>1, DidGives DEF JoinNext, Writes, Joins, PC
  <2> QED
    BY <2>3, <2>4, <2>5 DEF Sets, Updated
<1>18. ASSUME FrameDone(d, f) PROVE Sets(d, f)
  <2>1. left[d][f] \subseteq Mem(f)
    BY DEF PhaseInv, PhaseOK
  <2>4. row' = row
    BY <1>18 DEF FrameDone, tables
  <2>5. pc'[d][f] # "done" => Writes(d, f)' \subseteq Writes(d, f)
    BY <1>18, <1>0, <2>1, ReturnGives DEF FrameDone, Writes, Joins, PC
  <2> QED
    BY <2>4, <2>5 DEF Sets
<1> QED
  BY <1>1, <1>2, <1>3, <1>4, <1>5, <1>6, <1>7, <1>8, <1>9, <1>10, <1>11, <1>12, <1>13, <1>14,
     <1>15, <1>16, <1>17, <1>18 DEF FrameStep

-----------------------------------------------------------------------------
(* The parts of the invariant, one step of any goroutine at a time *)

\* What a deploy leaves: a run of its own, a barrier for the frames it builds, new rows for the
\* members that are not built, and everything of other deploys as it was.
Gives(b) ==
    /\ b \in Deploys /\ b = gen + 1 /\ gen' = b /\ run = 0 /\ run' = b
    /\ UNCHANGED <<cancelled, dropped, tpc, failed, at, passed, based, faults>>
    /\ \A e \in Deploys : e # b =>
          /\ pending'[e] = pending[e] /\ parts'[e] = parts[e] /\ rpc'[e] = rpc[e]
          /\ \A f \in Frames : pc'[e][f] = pc[e][f] /\ left'[e][f] = left[e][f]
    /\ pending'[b] = parts'[b] /\ parts'[b] = BarrierIDs(b) /\ rpc'[b] = "barrier"
    /\ \A f \in Frames :
          /\ pc'[b][f] = IF f \in Drawn[b] /\ Fresh(f) # {} THEN "start" ELSE "done"
          /\ left'[b][f] = IF f \in Drawn[b] THEN Fresh(f) ELSE {}
          /\ \A n \in Mem(f) :
                IF f \in Drawn[b] /\ n \in Fresh(f)
                THEN /\ row'[n] # None /\ row'[n].state = "pending"
                     /\ row'[n].by = b /\ row'[n].set = b
                ELSE row'[n] = row[n]

\* handleDeployStack does that.
LEMMA DeployGives ==
    ASSUME TypeOK, DeployStack
    PROVE  \E b \in Deploys : Gives(b)
<1> DEFINE b == gen + 1
           new == UNION {Fresh(f) : f \in Drawn[b]}
<1>0. TableType /\ RunType /\ BarrierType /\ FlowType /\ MaxDeploys \in Nat
  BY TypeParts, FramesAssumption
<1>1. b \in Deploys /\ gen' = b /\ run = 0 /\ run' = b
  BY <1>0 DEF DeployStack, TableType, Deploys
<1>2. UNCHANGED <<cancelled, dropped, tpc, failed, at, passed, based, faults>>
  BY DEF DeployStack
<1>3. ASSUME NEW e \in Deploys, e # b
      PROVE  /\ pending'[e] = pending[e] /\ parts'[e] = parts[e] /\ rpc'[e] = rpc[e]
             /\ \A f \in Frames : pc'[e][f] = pc[e][f] /\ left'[e][f] = left[e][f]
  BY <1>0, <1>1, <1>3 DEF DeployStack, BarrierType, FlowType
<1>4. pending'[b] = parts'[b] /\ parts'[b] = BarrierIDs(b) /\ rpc'[b] = "barrier"
  BY <1>0, <1>1 DEF DeployStack, BarrierType, FlowType
<1>5. ASSUME NEW f \in Frames
      PROVE  /\ pc'[b][f] = IF f \in Drawn[b] /\ Fresh(f) # {} THEN "start" ELSE "done"
             /\ left'[b][f] = IF f \in Drawn[b] THEN Fresh(f) ELSE {}
  BY <1>0, <1>1 DEF DeployStack, FlowType
<1>6. ASSUME NEW f \in Frames, NEW n \in Mem(f)
      PROVE  IF f \in Drawn[b] /\ n \in Fresh(f)
             THEN row'[n] # None /\ row'[n].state = "pending" /\ row'[n].by = b /\ row'[n].set = b
             ELSE row'[n] = row[n]
  <2>1. n \in Nodes /\ Drawn[b] \subseteq Frames
    BY <1>1, MemFacts, FramesAssumption DEF Deploys
  <2>2. n \in new <=> f \in Drawn[b] /\ n \in Fresh(f)
    BY <2>1, MemFacts DEF Fresh
  <2>3. row'[n] = IF n \in new THEN [state |-> "pending", by |-> b, set |-> b] ELSE row[n]
    BY <2>1 DEF DeployStack
  <2>4. [state |-> "pending", by |-> b, set |-> b] \in Row
    BY <1>1 DEF Row
  <2> HIDE DEF new
  <2> QED
    BY <2>2, <2>3, <2>4, RowAssumption
<1> HIDE DEF b
<1>7. b = gen + 1
  BY DEF b
<1> QED
  BY <1>1, <1>2, <1>3, <1>4, <1>5, <1>6, <1>7 DEF Gives

\* A goroutine that is running is one of the run in flight, or of a run that was dropped.
LEMMA LiveRun ==
    ASSUME TypeOK, RunInv, NEW d \in Deploys, NEW f \in Frames, Live(d, f)
    PROVE  d = run \/ d \in dropped
<1>1. d <= gen
  <2>1. d \in Nat /\ gen \in Nat /\ ~(d > gen)
    BY FramesAssumption DEF RunInv, Live, Deploys, TypeOK
  <2> QED
    BY <2>1
<1> QED
  BY <1>1 DEF RunInv, Over, Live

\* Before the barrier it is one of the run in flight, which is the latest deploy.
LEMMA EarlyRun ==
    ASSUME TypeOK, RunInv, NEW d \in Deploys, NEW f \in Frames,
           pc[d][f] \in {"start", "intranet", "prepare", "form", "baseline", "join"}
    PROVE  d = run /\ d = gen
<1>1. Live(d, f)
  BY DEF Live
<1>2. d = run
  BY <1>1, LiveRun DEF RunInv
<1> QED
  BY <1>2 DEF RunInv, Deploys

\* A run is dropped only when what is left of it is past the barrier or waits at it.
LEMMA RunStep ==
    TypeOK /\ RunInv /\ PhaseInv /\ [Next]_vars => RunInv'
<1> SUFFICES ASSUME TypeOK, RunInv, PhaseInv, [Next]_vars PROVE RunInv'
  OBVIOUS
<1>0. /\ TableType /\ RunType /\ BarrierType /\ FlowType /\ MaxDeploys \in Nat
      /\ \A f \in Frames : Mem(f) \in SUBSET Nodes
      /\ Repl \notin Frames /\ Repl \in Waiters /\ 0 \notin Deploys
  BY TypeParts, MemFacts, FramesAssumption DEF Waiters, Deploys
<1> USE <1>0 DEF RunInv, Over, Deploys
<1>1. ASSUME DeployStack PROVE RunInv'
  <2>1. PICK b \in Deploys : Gives(b)
    BY <1>1, DeployGives
  <2> QED
    BY <2>1 DEF Gives, TableType, RunType
<1>2. ASSUME NEW d \in Deploys, NEW f \in Frames, FrameStep(d, f) \/ BarrierTimesOut(d, f) PROVE
   RunInv'
  <2>1. Moves(d, f) /\ Meets(d, f)
    BY <1>2, FrameMoves, FrameMeets DEF Deploys
  <2> QED
    BY <2>1 DEF Moves, Meets, Elsewhere, Live, TableType
<1>3. ASSUME NEW d \in Deploys, ReplBarrierOpens(d) PROVE RunInv'
  BY <1>3 DEF ReplBarrierOpens, tables, runvars
<1>4. ASSUME NEW d \in Deploys, ReplBarrierTimesOut(d) PROVE RunInv'
  BY <1>4 DEF ReplBarrierTimesOut, tables, runvars
<1>5. ASSUME NEW d \in Deploys, ReplNodes(d) PROVE RunInv'
  BY <1>5 DEF ReplNodes, tables, runvars, barrier
<1>6. ASSUME FinishDeploy PROVE RunInv'
  BY <1>6 DEF FinishDeploy, tables, barrier, flow
<1>7. ASSUME Destroy PROVE RunInv'
  <2>1. run \in 1..gen
    BY <1>7 DEF Destroy, TableType
  <2> QED
    BY <1>7, <2>1 DEF Destroy, tables, barrier, flow
<1>8. ASSUME Teardown PROVE RunInv'
  <2>1. run \in cancelled /\ run # 0
    BY <1>8 DEF Teardown
  <2>2. CASE Over(run)
    <3>1. dropped' = dropped /\ run' = 0 /\ UNCHANGED <<gen, cancelled, pc, rpc>>
      BY <1>8, <2>2 DEF Teardown, Torn, flow
    <3>2. UNCHANGED <<parts, based, left, at>> /\ tpc' = "idle"
      BY <1>8 DEF Teardown, Torn, barrier, flow
    <3> QED
      BY <2>1, <2>2, <3>1, <3>2
  <2>3. CASE ~Over(run)
    <3>1. \A f \in Frames : pc[run][f] \in {"wait", "done"}
      BY <1>8, <2>3 DEF Teardown, Deaf
    <3>2. dropped' = dropped \cup {run} /\ run' = 0 /\ UNCHANGED <<gen, cancelled, pc, rpc>>
      BY <1>8, <2>3 DEF Teardown, Torn, flow
    <3>3. UNCHANGED <<parts, based, left, at>> /\ tpc' = "idle"
      BY <1>8 DEF Teardown, Torn, barrier, flow
    <3> QED
      BY <2>1, <3>1, <3>2, <3>3
  <2> QED
    BY <2>2, <2>3
<1>9. ASSUME TeardownIdle PROVE RunInv'
  BY <1>9 DEF TeardownIdle, runvars, barrier, flow
<1>10. CASE UNCHANGED vars
  BY <1>10 DEF vars, tables, runvars, barrier, flow
<1> QED
  BY <1>1, <1>2, <1>3, <1>4, <1>5, <1>6, <1>7, <1>8, <1>9, <1>10 DEF Next, ReplStep, TimeOut

\* Whoever is past the barrier has been at it.
LEMMA PassStep ==
    TypeOK /\ RunInv /\ PhaseInv /\ PassInv /\ [Next]_vars => PassInv'
<1> SUFFICES ASSUME TypeOK, RunInv, PhaseInv, PassInv, [Next]_vars PROVE PassInv'
  OBVIOUS
<1>0. /\ TableType /\ RunType /\ BarrierType /\ FlowType /\ MaxDeploys \in Nat
      /\ \A f \in Frames : Mem(f) \in SUBSET Nodes
      /\ Repl \notin Frames /\ Repl \in Waiters /\ 0 \notin Deploys
  BY TypeParts, MemFacts, FramesAssumption DEF Waiters, Deploys
<1> USE <1>0 DEF PassInv
<1>1. ASSUME DeployStack PROVE PassInv'
  <2>1. PICK b \in Deploys : Gives(b)
    BY <1>1, DeployGives
  <2>2. passed' = passed
    BY <2>1 DEF Gives
  <2>3. rpc[b] = "none" /\ \A f \in Frames : pc[b][f] = "none"
    BY <2>1 DEF Gives, RunInv, Deploys, TableType
  <2>4. \A e \in Deploys : e # b => rpc'[e] = rpc[e] /\ \A f \in Frames : pc'[e][f] = pc[e][f]
    BY <2>1 DEF Gives
  <2> QED
    BY <2>2, <2>3, <2>4
<1>2. ASSUME NEW d \in Deploys, NEW f \in Frames, FrameStep(d, f) \/ BarrierTimesOut(d, f) PROVE
   PassInv'
  <2>1. Moves(d, f) /\ Meets(d, f)
    BY <1>2, FrameMoves, FrameMeets
  <2>2. ASSUME NEW e \in Deploys, rpc'[e] \in {"none", "barrier"} PROVE passed'[e][Repl] = "in"
    BY <2>1, <2>2 DEF Moves, Meets
  <2>3. ASSUME NEW e \in Deploys, NEW g \in Frames \cap Waiters,
               pc'[e][g] \notin {"attach", "finish", "done"}
        PROVE  passed'[e][g] = "in"
    <3>1. CASE e = d /\ g = f
      BY <2>1, <2>3, <3>1 DEF Moves, Meets, Live
    <3>2. CASE e # d \/ g # f
      BY <2>1, <2>3, <3>2 DEF Moves, Meets, Elsewhere
    <3> QED
      BY <3>1, <3>2
  <2> QED
    BY <2>2, <2>3
<1>3. ASSUME NEW d \in Deploys, ReplBarrierOpens(d) PROVE PassInv'
  BY <1>3 DEF ReplBarrierOpens, BarrierType, FlowType
<1>4. ASSUME NEW d \in Deploys, ReplBarrierTimesOut(d) PROVE PassInv'
  BY <1>4 DEF ReplBarrierTimesOut, BarrierType, FlowType
<1>5. ASSUME NEW d \in Deploys, ReplNodes(d) PROVE PassInv'
  BY <1>5 DEF ReplNodes, barrier, FlowType
<1>6. ASSUME FinishDeploy PROVE PassInv'
  BY <1>6 DEF FinishDeploy, tables, barrier, flow
<1>7. ASSUME Destroy PROVE PassInv'
  BY <1>7 DEF Destroy, tables, barrier, flow
<1>8. ASSUME Teardown PROVE PassInv'
  BY <1>8 DEF Teardown, Torn, barrier, flow
<1>9. ASSUME TeardownIdle PROVE PassInv'
  BY <1>9 DEF TeardownIdle, runvars, barrier, flow
<1>10. CASE UNCHANGED vars
  BY <1>10 DEF vars, tables, runvars, barrier, flow
<1> QED
  BY <1>1, <1>2, <1>3, <1>4, <1>5, <1>6, <1>7, <1>8, <1>9, <1>10 DEF Next, ReplStep, TimeOut

\* Nobody arrives before its baseline, unless its frame returns.
LEMMA ArriveStep ==
    TypeOK /\ RunInv /\ PhaseInv /\ ArriveInv /\ [Next]_vars => ArriveInv'
<1> SUFFICES ASSUME TypeOK, RunInv, PhaseInv, ArriveInv, [Next]_vars PROVE ArriveInv'
  OBVIOUS
<1>0. /\ TableType /\ RunType /\ BarrierType /\ FlowType /\ MaxDeploys \in Nat
      /\ \A f \in Frames : Mem(f) \in SUBSET Nodes
      /\ Repl \notin Frames /\ Repl \in Waiters /\ 0 \notin Deploys
  BY TypeParts, MemFacts, FramesAssumption DEF Waiters, Deploys
<1> USE <1>0 DEF ArriveInv
<1>1. ASSUME DeployStack PROVE ArriveInv'
  <2>1. PICK b \in Deploys : Gives(b)
    BY <1>1, DeployGives
  <2> QED
    BY <2>1 DEF Gives
<1>2. ASSUME NEW d \in Deploys, NEW f \in Frames, FrameStep(d, f) \/ BarrierTimesOut(d, f) PROVE
   ArriveInv'
  <2>1. Moves(d, f) /\ Meets(d, f)
    BY <1>2, FrameMoves, FrameMeets
  <2> SUFFICES ASSUME NEW e \in Deploys, NEW g \in Frames, NEW n \in Mem(g) \cap parts'[e]
               PROVE  n \in pending'[e] \cup based'[e] \/ pc'[e][g] = "done"
    OBVIOUS
  <2>2. n \in pending[e] \cup based[e] \/ pc[e][g] = "done"
    BY <2>1 DEF Moves
  <2>3. CASE pc[e][g] = "done"
    BY <2>1, <2>3 DEF Moves, Elsewhere, Live
  <2>4. CASE n \in based[e]
    BY <2>1, <2>4 DEF Meets
  <2>5. CASE n \in pending[e]
    BY <2>1, <2>5, MemFacts DEF Meets
  <2> QED
    BY <2>2, <2>3, <2>4, <2>5
<1>3. ASSUME NEW d \in Deploys, ReplBarrierOpens(d) PROVE ArriveInv'
  BY <1>3 DEF ReplBarrierOpens, tables, runvars
<1>4. ASSUME NEW d \in Deploys, ReplBarrierTimesOut(d) PROVE ArriveInv'
  BY <1>4 DEF ReplBarrierTimesOut, tables, runvars
<1>5. ASSUME NEW d \in Deploys, ReplNodes(d) PROVE ArriveInv'
  BY <1>5 DEF ReplNodes, tables, runvars, barrier
<1>6. ASSUME FinishDeploy PROVE ArriveInv'
  BY <1>6 DEF FinishDeploy, tables, barrier, flow
<1>7. ASSUME Destroy PROVE ArriveInv'
  BY <1>7 DEF Destroy, tables, barrier, flow
<1>8. ASSUME Teardown PROVE ArriveInv'
  BY <1>8 DEF Teardown, Torn, barrier, flow
<1>9. ASSUME TeardownIdle PROVE ArriveInv'
  BY <1>9 DEF TeardownIdle, runvars, barrier, flow
<1>10. CASE UNCHANGED vars
  BY <1>10 DEF vars, tables, runvars, barrier, flow
<1> QED
  BY <1>1, <1>2, <1>3, <1>4, <1>5, <1>6, <1>7, <1>8, <1>9, <1>10 DEF Next, ReplStep, TimeOut

\* Only goroutines of the run in flight take rows over.
LEMMA RowStep ==
    TypeOK /\ RunInv /\ PhaseInv /\ RowInv /\ [Next]_vars => RowInv'
<1> SUFFICES ASSUME TypeOK, RunInv, PhaseInv, RowInv, [Next]_vars PROVE RowInv'
  OBVIOUS
<1>0. /\ TableType /\ RunType /\ BarrierType /\ FlowType /\ MaxDeploys \in Nat
      /\ \A f \in Frames : Mem(f) \in SUBSET Nodes
      /\ Repl \notin Frames /\ Repl \in Waiters /\ 0 \notin Deploys
  BY TypeParts, MemFacts, FramesAssumption DEF Waiters, Deploys
<1> USE <1>0
<1>1. ASSUME DeployStack PROVE RowInv'
  <2>1. PICK b \in Deploys : Gives(b)
    BY <1>1, DeployGives
  <2> SUFFICES ASSUME NEW g \in Frames, Live(b, g)'
               PROVE  /\ \A n \in Mem(g) : row'[n] # None
                      /\ \A n \in Writes(b, g)' : row'[n].by = b
    BY <2>1 DEF RowInv, Gives
  <2>2. g \in Drawn[b] /\ pc'[b][g] = "start" /\ left'[b][g] = Fresh(g)
    BY <2>1 DEF Gives, Live
  <2>3. ASSUME NEW n \in Mem(g) PROVE row'[n] # None
    <3>1. CASE n \in Fresh(g)
      BY <2>1, <2>2, <3>1 DEF Gives
    <3>2. CASE n \notin Fresh(g)
      <4>1. row'[n] = row[n]
        BY <2>1, <3>2 DEF Gives
      <4> QED
        BY <3>2, <4>1 DEF Fresh, Built
    <3> QED
      BY <3>1, <3>2
  <2>4. ASSUME NEW n \in Fresh(g) PROVE row'[n].by = b
    BY <2>1, <2>2 DEF Gives, Fresh
  <2> QED
    BY <2>2, <2>3, <2>4 DEF Writes
<1>2. ASSUME NEW d \in Deploys, NEW f \in Frames, FrameStep(d, f) \/ BarrierTimesOut(d, f) PROVE
   RowInv'
  <2>1. Moves(d, f) /\ Sets(d, f)
    BY <1>2, FrameMoves, FrameSets
  <2>2. d = run \/ d \in dropped
    BY <2>1, LiveRun DEF Moves
  <2> SUFFICES ASSUME run # 0, NEW g \in Frames, Live(run, g)'
               PROVE  /\ \A n \in Mem(g) : row'[n] # None
                      /\ \A n \in Writes(run, g)' : row'[n].by = run
    BY <2>1 DEF RowInv, Moves
  <2>3. run \in Deploys /\ run' = run
    BY <2>1 DEF RunType, Deploys, Moves
  <2>4. Live(run, g) /\ Writes(run, g)' \subseteq Writes(run, g)
    <3>1. CASE run = d /\ g = f
      BY <2>1, <2>3, <3>1 DEF Moves, Sets, Live
    <3>2. CASE run # d \/ g # f
      BY <2>1, <2>3, <3>2 DEF Moves, Elsewhere, Live, Writes
    <3> QED
      BY <3>1, <3>2
  <2>5. (\A n \in Mem(g) : row[n] # None) /\ \A n \in Writes(run, g) : row[n].by = run
    BY <2>4 DEF RowInv
  <2>6. Writes(run, g) \subseteq Nodes
    BY <2>3 DEF Writes, PhaseInv, PhaseOK
  <2>7. ASSUME NEW n \in Mem(g) PROVE row'[n] # None
    BY <2>1, <2>5 DEF Sets
  <2>8. ASSUME NEW n \in Writes(run, g) PROVE row'[n].by = run
    BY <2>1, <2>2, <2>5, <2>6 DEF Sets, RunInv
  <2> QED
    BY <2>4, <2>7, <2>8
<1>3. ASSUME NEW d \in Deploys, ReplBarrierOpens(d) PROVE RowInv'
  BY <1>3 DEF ReplBarrierOpens, tables, runvars, RowInv, Live, Writes
<1>4. ASSUME NEW d \in Deploys, ReplBarrierTimesOut(d) PROVE RowInv'
  BY <1>4 DEF ReplBarrierTimesOut, tables, runvars, RowInv, Live, Writes
<1>5. ASSUME NEW d \in Deploys, ReplNodes(d) PROVE RowInv'
  BY <1>5 DEF ReplNodes, tables, runvars, RowInv, Live, Writes
<1>6. ASSUME FinishDeploy PROVE RowInv'
  BY <1>6 DEF FinishDeploy, RowInv
<1>7. ASSUME Destroy PROVE RowInv'
  BY <1>7 DEF Destroy, tables, flow, RowInv, Live, Writes
<1>8. ASSUME Teardown PROVE RowInv'
  BY <1>8 DEF Teardown, Torn, RowInv
<1>9. ASSUME TeardownIdle PROVE RowInv'
  BY <1>9 DEF TeardownIdle, runvars, RowInv
<1>10. CASE UNCHANGED vars
  BY <1>10 DEF vars, tables, runvars, flow, RowInv, Live, Writes
<1> QED
  BY <1>1, <1>2, <1>3, <1>4, <1>5, <1>6, <1>7, <1>8, <1>9, <1>10 DEF Next, ReplStep, TimeOut

\* A goroutine that is not of the run in flight is one of a dropped run.
LEMMA VerdictStep ==
    TypeOK /\ RunInv /\ PhaseInv /\ RowInv /\ VerdictIsOwn /\ [Next]_vars => VerdictIsOwn'
<1> SUFFICES ASSUME TypeOK, RunInv, PhaseInv, RowInv, VerdictIsOwn, [Next]_vars PROVE
   VerdictIsOwn'
  OBVIOUS
<1>0. /\ TableType /\ RunType /\ BarrierType /\ FlowType /\ MaxDeploys \in Nat
      /\ \A f \in Frames : Mem(f) \in SUBSET Nodes
      /\ Repl \notin Frames /\ Repl \in Waiters /\ 0 \notin Deploys
  BY TypeParts, MemFacts, FramesAssumption DEF Waiters, Deploys
<1> USE <1>0 DEF VerdictIsOwn
<1>1. ASSUME DeployStack PROVE VerdictIsOwn'
  <2>1. PICK b \in Deploys : Gives(b)
    BY <1>1, DeployGives
  <2> SUFFICES ASSUME NEW n \in Nodes, row'[n] # None
               PROVE  row'[n].set = row'[n].by \/ row'[n].set \in dropped'
    OBVIOUS
  <2>2. PICK g \in Frames : n \in Mem(g)
    BY MemFacts
  <2> QED
    BY <2>1, <2>2 DEF Gives
<1>2. ASSUME NEW d \in Deploys, NEW f \in Frames, FrameStep(d, f) \/ BarrierTimesOut(d, f) PROVE
   VerdictIsOwn'
  <2>1. Moves(d, f) /\ Sets(d, f)
    BY <1>2, FrameMoves, FrameSets
  <2>2. d = run \/ d \in dropped
    BY <2>1, LiveRun DEF Moves
  <2> SUFFICES ASSUME NEW n \in Nodes, row'[n] # None
               PROVE  row'[n].set = row'[n].by \/ row'[n].set \in dropped
    BY <2>1 DEF Moves
  <2>3. CASE row'[n] = row[n]
    BY <2>3
  <2>4. CASE row'[n] # row[n]
    <3>1. /\ n \in Writes(d, f) /\ row'[n].set = d
          /\ (row[n] # None /\ row'[n].by = row[n].by) \/ row'[n].by = d
      BY <2>1, <2>4 DEF Sets
    <3>2. d = run => row'[n].by = d
      BY <2>1, <3>1 DEF RowInv, Moves
    <3> QED
      BY <2>2, <3>1, <3>2
  <2> QED
    BY <2>3, <2>4
<1>3. ASSUME NEW d \in Deploys, ReplBarrierOpens(d) PROVE VerdictIsOwn'
  BY <1>3 DEF ReplBarrierOpens, tables, runvars
<1>4. ASSUME NEW d \in Deploys, ReplBarrierTimesOut(d) PROVE VerdictIsOwn'
  BY <1>4 DEF ReplBarrierTimesOut, tables, runvars
<1>5. ASSUME NEW d \in Deploys, ReplNodes(d) PROVE VerdictIsOwn'
  BY <1>5 DEF ReplNodes, tables, runvars, barrier
<1>6. ASSUME FinishDeploy PROVE VerdictIsOwn'
  BY <1>6 DEF FinishDeploy, tables, barrier, flow
<1>7. ASSUME Destroy PROVE VerdictIsOwn'
  BY <1>7 DEF Destroy, tables, barrier, flow
<1>8. ASSUME Teardown PROVE VerdictIsOwn'
  BY <1>8 DEF Teardown, Torn, barrier, flow
<1>9. ASSUME TeardownIdle PROVE VerdictIsOwn'
  BY <1>9 DEF TeardownIdle, runvars, barrier, flow
<1>10. CASE UNCHANGED vars
  BY <1>10 DEF vars, tables, runvars, barrier, flow
<1> QED
  BY <1>1, <1>2, <1>3, <1>4, <1>5, <1>6, <1>7, <1>8, <1>9, <1>10 DEF Next, ReplStep, TimeOut

\* A step of a frame keeps what its goroutine knows.
LEMMA FramePhase ==
    ASSUME TypeOK, RunInv, PhaseInv, NEW d \in Deploys, NEW f \in Frames,
           FrameStep(d, f) \/ BarrierTimesOut(d, f)
    PROVE  PhaseOK(d, f)'
<1>0. /\ TableType /\ RunType /\ BarrierType /\ FlowType
      /\ \A g \in Frames : Mem(g) \in SUBSET Nodes
      /\ \A e \in Deploys, g \in Frames : left[e][g] \in SUBSET Nodes /\ pc[e][g] \in PC
      /\ MaxDeploys \in Nat /\ MaxFaults \in Nat
  BY TypeParts, MemFacts, FramesAssumption DEF FlowType
<1>a. PhaseOK(d, f) /\ Kind[f] \in {"pxc", "async"} /\ 0 \notin Deploys
  BY FramesAssumption DEF PhaseInv, Deploys
<1>1. ASSUME Start(d, f) PROVE PhaseOK(d, f)'
  <2>1. gen = d
    BY <1>1, EarlyRun DEF Start
  <2>2. at'[d][f] = IF Kind[f] = "pxc" /\ ~Joins(d, f) THEN gen ELSE 0
    BY <1>1, <1>0 DEF Start, BarrierType
  <2>3. pc'[d][f] = "intranet" /\ left'[d][f] = left[d][f]
    BY <1>1, <1>0, GotoGives DEF Start, PC
  <2> QED
    BY <1>a, <2>1, <2>2, <2>3 DEF PhaseOK, Joins
<1>2. ASSUME IntranetReady(d, f) PROVE PhaseOK(d, f)'
  BY <1>2, <1>0, <1>a, GotoGives DEF IntranetReady, PhaseOK, PC, Joins, barrier
<1>3. ASSUME IntranetFails(d, f) PROVE PhaseOK(d, f)'
  BY <1>3, <1>0, <1>a, ReturnGives DEF IntranetFails, PhaseOK, PC, barrier
<1>4. ASSUME NEW n \in Nodes, MemberPrepared(d, f, n) PROVE PhaseOK(d, f)'
  BY <1>4, <1>0, <1>a, DidGives DEF MemberPrepared, PhaseOK, PC, barrier
<1>5. ASSUME NEW n \in Nodes, MemberBaselined(d, f, n) PROVE PhaseOK(d, f)'
  BY <1>5, <1>0, <1>a, DidGives DEF MemberBaselined, PhaseOK, PC, barrier
<1>6. ASSUME NEW n \in Nodes, MemberFails(d, f, n) PROVE PhaseOK(d, f)'
  BY <1>6, <1>0, <1>a, FailsGives DEF MemberFails, PhaseOK, PC, barrier
<1>7. ASSUME PhaseFailed(d, f) PROVE PhaseOK(d, f)'
  BY <1>7, <1>0, <1>a, ReturnGives DEF PhaseFailed, PhaseOK, PC, barrier
<1>8. ASSUME PhaseDone(d, f) PROVE PhaseOK(d, f)'
  <2>1. CASE pc[d][f] = "baseline"
    BY <1>8, <1>0, <1>a, <2>1, GotoGives DEF PhaseDone, PhaseOK, PC
  <2>2. CASE pc[d][f] = "prepare" /\ Kind[f] = "pxc"
    BY <1>8, <1>0, <1>a, <2>2, GotoGives DEF PhaseDone, PhaseOK, PC
  <2>3. CASE pc[d][f] = "prepare" /\ Kind[f] # "pxc"
    <3>1. gen = d
      BY <1>8, <2>3, EarlyRun
    <3>2. at'[d][f] = gen
      BY <1>8, <1>0, <2>3 DEF PhaseDone, BarrierType
    <3>3. pc'[d][f] = "baseline" /\ left'[d][f] = Mem(f)
      BY <1>8, <1>0, <2>3, GotoGives DEF PhaseDone, PC
    <3> QED
      BY <1>a, <2>3, <3>1, <3>2, <3>3 DEF PhaseOK
  <2> QED
    BY <1>8, <2>1, <2>2, <2>3 DEF PhaseDone
<1>9. ASSUME FormNext(d, f) PROVE PhaseOK(d, f)'
  <2>1. NextOf(d, f) \in Mem(f) /\ based'[d] = based[d] \cup {NextOf(d, f)}
    BY <1>9, <1>0, <1>a, NextOfLeft DEF FormNext, PhaseOK, BarrierType
  <2> QED
    BY <1>9, <1>0, <1>a, <2>1, DidGives DEF FormNext, PhaseOK
<1>10. ASSUME Formed(d, f) PROVE PhaseOK(d, f)'
  BY <1>10, <1>0, <1>a, GotoGives DEF Formed, PhaseOK, PC, barrier
<1>11. ASSUME BarrierOpens(d, f) PROVE PhaseOK(d, f)'
  BY <1>11, <1>0, <1>a, GotoGives DEF BarrierOpens, PhaseOK, PC, barrier
<1>12. ASSUME BarrierTimesOut(d, f) PROVE PhaseOK(d, f)'
  BY <1>12, <1>0, <1>a, GotoGives DEF BarrierTimesOut, PhaseOK, PC, barrier
<1>13. ASSUME AttachNext(d, f) PROVE PhaseOK(d, f)'
  BY <1>13, <1>0, <1>a, DidGives DEF AttachNext, PhaseOK, PC, barrier
<1>14. ASSUME Attached(d, f) PROVE PhaseOK(d, f)'
  BY <1>14, <1>0, <1>a, GotoGives DEF Attached, PhaseOK, PC, barrier
<1>15. ASSUME FinishNext(d, f) PROVE PhaseOK(d, f)'
  BY <1>15, <1>0, <1>a, DidGives DEF FinishNext, PhaseOK, PC, barrier
<1>16. ASSUME SequenceFails(d, f) PROVE PhaseOK(d, f)'
  BY <1>16, <1>0, <1>a, ReturnGives DEF SequenceFails, PhaseOK, PC, barrier
<1>17. ASSUME JoinNext(d, f) PROVE PhaseOK(d, f)'
  BY <1>17, <1>0, <1>a, DidGives DEF JoinNext, PhaseOK, PC, barrier
<1>18. ASSUME FrameDone(d, f) PROVE PhaseOK(d, f)'
  BY <1>18, <1>0, <1>a, ReturnGives DEF FrameDone, PhaseOK, PC, barrier
<1> QED
  BY <1>1, <1>2, <1>3, <1>4, <1>5, <1>6, <1>7, <1>8, <1>9, <1>10, <1>11, <1>12, <1>13, <1>14,
     <1>15, <1>16, <1>17, <1>18 DEF FrameStep

\* No other step touches what a goroutine knows of its frame.
LEMMA PhaseStep ==
    TypeOK /\ RunInv /\ PhaseInv /\ [Next]_vars => PhaseInv'
<1> SUFFICES ASSUME TypeOK, RunInv, PhaseInv, [Next]_vars PROVE PhaseInv'
  OBVIOUS
<1>0. /\ TableType /\ RunType /\ BarrierType /\ FlowType /\ MaxDeploys \in Nat
      /\ \A f \in Frames : Mem(f) \in SUBSET Nodes
      /\ Repl \notin Frames /\ Repl \in Waiters /\ 0 \notin Deploys
  BY TypeParts, MemFacts, FramesAssumption DEF Waiters, Deploys
<1> USE <1>0
<1>1. ASSUME DeployStack PROVE PhaseInv'
  <2>1. PICK b \in Deploys : Gives(b)
    BY <1>1, DeployGives
  <2>2. \A e \in Deploys, g \in Frames : based'[e] = based[e] /\ at'[e][g] = at[e][g]
    BY <2>1 DEF Gives
  <2>3. ASSUME NEW e \in Deploys, NEW g \in Frames, e # b PROVE PhaseOK(e, g)'
    BY <2>1, <2>2, <2>3 DEF Gives, PhaseInv, PhaseOK, Joins
  <2>4. ASSUME NEW g \in Frames PROVE PhaseOK(b, g)'
    <3>1. at[b][g] = 0 /\ Fresh(g) \subseteq Mem(g)
      BY <2>1 DEF Gives, RunInv, TableType, Deploys, Fresh
    <3>2. pc'[b][g] \in {"start", "done"} /\ left'[b][g] \in {{}, Fresh(g)}
      BY <2>1 DEF Gives
    <3> QED
      BY <2>2, <3>1, <3>2 DEF PhaseOK
  <2> QED
    BY <2>3, <2>4 DEF PhaseInv
<1>2. ASSUME NEW d \in Deploys, NEW f \in Frames, FrameStep(d, f) \/ BarrierTimesOut(d, f) PROVE
   PhaseInv'
  <2>1. Moves(d, f) /\ Meets(d, f) /\ PhaseOK(d, f)'
    BY <1>2, FrameMoves, FrameMeets, FramePhase
  <2>2. ASSUME NEW e \in Deploys, NEW g \in Frames, e # d \/ g # f PROVE PhaseOK(e, g)'
    BY <2>1, <2>2 DEF Moves, Meets, Elsewhere, PhaseInv, PhaseOK, Joins
  <2> QED
    BY <2>1, <2>2 DEF PhaseInv
<1>3. ASSUME NEW d \in Deploys, ReplBarrierOpens(d) PROVE PhaseInv'
  BY <1>3 DEF ReplBarrierOpens, PhaseInv, PhaseOK, Joins
<1>4. ASSUME NEW d \in Deploys, ReplBarrierTimesOut(d) PROVE PhaseInv'
  BY <1>4 DEF ReplBarrierTimesOut, PhaseInv, PhaseOK, Joins
<1>5. ASSUME NEW d \in Deploys, ReplNodes(d) PROVE PhaseInv'
  BY <1>5 DEF ReplNodes, barrier, PhaseInv, PhaseOK, Joins
<1>6. ASSUME FinishDeploy PROVE PhaseInv'
  BY <1>6 DEF FinishDeploy, barrier, flow, PhaseInv, PhaseOK, Joins
<1>7. ASSUME Destroy PROVE PhaseInv'
  BY <1>7 DEF Destroy, barrier, flow, PhaseInv, PhaseOK, Joins
<1>8. ASSUME Teardown PROVE PhaseInv'
  BY <1>8 DEF Teardown, Torn, barrier, flow, PhaseInv, PhaseOK, Joins
<1>9. ASSUME TeardownIdle PROVE PhaseInv'
  BY <1>9 DEF TeardownIdle, barrier, flow, PhaseInv, PhaseOK, Joins
<1>10. CASE UNCHANGED vars
  BY <1>10 DEF vars, barrier, flow, PhaseInv, PhaseOK, Joins
<1> QED
  BY <1>1, <1>2, <1>3, <1>4, <1>5, <1>6, <1>7, <1>8, <1>9, <1>10 DEF Next, ReplStep, TimeOut

\* A step of a frame leaves the rows of other frames alone.
LEMMA FrameRows ==
    ASSUME TypeOK, PhaseInv, NEW d \in Deploys, NEW f \in Frames,
           FrameStep(d, f) \/ BarrierTimesOut(d, f), NEW g \in Frames, g # f, NEW n \in Mem(g)
    PROVE  row'[n] = row[n]
<1>1. Writes(d, f) \subseteq Mem(f) /\ n \in Nodes /\ n \notin Mem(f)
  BY MemFacts DEF Writes, PhaseInv, PhaseOK
<1> QED
  BY <1>1, FrameSets DEF Sets

\* A goroutine comes to every member of its frame, or fails one of them.
LEMMA FrameSettle ==
    ASSUME TypeOK, RunInv, PhaseInv, RowInv, SettleInv, ~Quiet, dropped = {}, NEW d \in Deploys, NEW f \in Frames,
           FrameStep(d, f) \/ BarrierTimesOut(d, f)
    PROVE  SettleOK(f)'
<1>0. /\ TableType /\ RunType /\ BarrierType /\ FlowType
      /\ \A g \in Frames : Mem(g) \in SUBSET Nodes
      /\ \A e \in Deploys, g \in Frames : left[e][g] \in SUBSET Nodes /\ pc[e][g] \in PC
      /\ MaxDeploys \in Nat /\ MaxFaults \in Nat
  BY TypeParts, MemFacts, FramesAssumption DEF FlowType
<1>b. /\ d = run /\ run' = run /\ ~Quiet /\ left[d][f] \subseteq Mem(f) /\ Mem(f) \subseteq Nodes
      /\ SettleOK(f) /\ \A n \in Mem(f) : row[n] # None
  <2>1. Moves(d, f)
    BY FrameMoves
  <2>2. d = run
    BY <2>1, LiveRun DEF Moves
  <2>3. run \notin cancelled /\ SettleOK(f) /\ run' = run
    BY <2>1, <2>2 DEF Quiet, Moves, SettleInv, Deploys
  <2>4. \A n \in Mem(f) : row[n] # None
    BY <2>1, <2>2 DEF RowInv, Moves, Deploys
  <2> QED
    BY <1>0, <2>2, <2>3, <2>4 DEF PhaseInv, PhaseOK
<1>1. ASSUME Start(d, f) PROVE SettleOK(f)'
  <2>1. left'[d][f] = left[d][f] /\ pc'[d][f] = "intranet"
    BY <1>1, <1>0, GotoGives DEF Start, PC
  <2>2. Updated(row', d, left[d][f], "provisioning")
    BY <1>1, SetStateGives DEF Start, States
  <2>3. \A m \in Mem(f) \ left[d][f] : row'[m] = row[m]
    BY <1>0, <2>2 DEF Updated
  <2> QED
    BY <1>1, <1>b, <2>1, <2>3 DEF Start, SettleOK, InFlight, ErrorIn
<1>2. ASSUME IntranetReady(d, f) PROVE SettleOK(f)'
  <2>1. /\ left'[d][f] = left[d][f] /\ pc'[d][f] \in {"join", "prepare"}
        /\ ~failed'[d][f] /\ row' = row
    BY <1>2, <1>0, GotoGives DEF IntranetReady, PC, tables
  <2> QED
    BY <1>2, <1>b, <2>1 DEF IntranetReady, SettleOK, InFlight, ErrorIn
<1>3. ASSUME IntranetFails(d, f) PROVE SettleOK(f)'
  <2>1. pc'[d][f] = "done"
    BY <1>3, ReturnGives DEF IntranetFails
  <2> QED
    BY <2>1, <1>b DEF SettleOK
<1>4. ASSUME NEW n \in Nodes, MemberPrepared(d, f, n) PROVE SettleOK(f)'
  <2>1. pc' = pc /\ failed' = failed /\ left'[d][f] = left[d][f] \ {n} /\ n \in left[d][f]
    BY <1>4, DidGives DEF MemberPrepared
  <2>2. \A m \in Nodes : m # n => row'[m] = row[m]
    BY <1>4, <1>0 DEF MemberPrepared, TableType
  <2> QED
    BY <1>4, <1>0, <1>b, <2>1, <2>2 DEF MemberPrepared, SettleOK, ErrorIn
<1>5. ASSUME NEW n \in Nodes, MemberBaselined(d, f, n) PROVE SettleOK(f)'
  <2>1. pc' = pc /\ failed' = failed /\ left'[d][f] = left[d][f] \ {n} /\ row' = row
    BY <1>5, DidGives DEF MemberBaselined, tables
  <2> QED
    BY <1>5, <1>b, <2>1 DEF MemberBaselined, SettleOK, ErrorIn
<1>6. ASSUME NEW n \in Nodes, MemberFails(d, f, n) PROVE SettleOK(f)'
  <2>1. pc' = pc /\ left'[d][f] = left[d][f] \ {n} /\ n \in Mem(f)
    BY <1>6, <1>b, FailsGives DEF MemberFails
  <2>2. row'[n] # None /\ row'[n].state = "error"
    BY <1>6, <1>b, <2>1, FailRowsGives DEF MemberFails, Updated
  <2> QED
    BY <1>6, <1>b, <2>1, <2>2 DEF MemberFails, SettleOK, ErrorIn
<1>7. ASSUME PhaseFailed(d, f) PROVE SettleOK(f)'
  <2>1. pc'[d][f] = "done"
    BY <1>7, ReturnGives DEF PhaseFailed
  <2> QED
    BY <2>1, <1>b DEF SettleOK
<1>8. ASSUME PhaseDone(d, f) PROVE SettleOK(f)'
  <2>1. pc'[d][f] \in {"form", "baseline", "wait"} /\ ~failed'[d][f]
    BY <1>8, <1>0, GotoGives DEF PhaseDone, PC
  <2> QED
    BY <1>b, <2>1 DEF SettleOK
<1>9. ASSUME FormNext(d, f) PROVE SettleOK(f)'
  <2>1. pc'[d][f] \in {"form", "attach"}
    BY <1>9, DidGives DEF FormNext
  <2> QED
    BY <1>b, <2>1 DEF SettleOK
<1>10. ASSUME Formed(d, f) PROVE SettleOK(f)'
  <2>1. pc'[d][f] = "finish" /\ left'[d][f] = Mem(f)
    BY <1>10, <1>0, GotoGives DEF Formed, PC
  <2> QED
    BY <1>b, <2>1 DEF SettleOK
<1>11. ASSUME BarrierOpens(d, f) PROVE SettleOK(f)'
  <2>1. pc'[d][f] = "attach"
    BY <1>11, <1>0, GotoGives DEF BarrierOpens, PC
  <2> QED
    BY <1>b, <2>1 DEF SettleOK
<1>12. ASSUME BarrierTimesOut(d, f) PROVE SettleOK(f)'
  <2>1. pc'[d][f] = "attach"
    BY <1>12, <1>0, GotoGives DEF BarrierTimesOut, PC
  <2> QED
    BY <1>b, <2>1 DEF SettleOK
<1>13. ASSUME AttachNext(d, f) PROVE SettleOK(f)'
  <2>1. pc'[d][f] \in {"form", "attach"}
    BY <1>13, DidGives DEF AttachNext
  <2> QED
    BY <1>b, <2>1 DEF SettleOK
<1>14. ASSUME Attached(d, f) PROVE SettleOK(f)'
  <2>1. pc'[d][f] = "finish" /\ left'[d][f] = Mem(f)
    BY <1>14, <1>0, GotoGives DEF Attached, PC
  <2> QED
    BY <1>b, <2>1 DEF SettleOK
<1>15. ASSUME FinishNext(d, f) PROVE SettleOK(f)'
  <2>1. pc' = pc /\ left'[d][f] = left[d][f] \ {NextOf(d, f)} /\ NextOf(d, f) \in left[d][f]
    BY <1>15, <1>b, DidGives, NextOfLeft DEF FinishNext
  <2>2. Updated(row', d, {NextOf(d, f)}, "running")
    BY <1>15, <1>b, SetStateGives DEF FinishNext, States
  <2>3. /\ row'[NextOf(d, f)] # None /\ row'[NextOf(d, f)].state \in {"running", "error"}
        /\ \A m \in Mem(f) : m # NextOf(d, f) => row'[m] = row[m]
    BY <1>0, <1>b, <2>1, <2>2 DEF Updated
  <2>4. \A m \in Mem(f) \ left[d][f] : row'[m] = row[m]
    BY <2>1, <2>3
  <2> QED
    BY <1>15, <1>b, <2>1, <2>3, <2>4 DEF FinishNext, SettleOK, InFlight, ErrorIn
<1>16. ASSUME SequenceFails(d, f) PROVE SettleOK(f)'
  <2>1. pc'[d][f] = "done"
    BY <1>16, ReturnGives DEF SequenceFails
  <2> QED
    BY <2>1, <1>b DEF SettleOK
<1>17. ASSUME JoinNext(d, f) PROVE SettleOK(f)'
  <2>1. pc' = pc /\ left'[d][f] = left[d][f] \ {NextOf(d, f)} /\ NextOf(d, f) \in left[d][f]
    BY <1>17, <1>b, DidGives, NextOfLeft DEF JoinNext
  <2>2. \/ Updated(row', d, {NextOf(d, f)}, "running")
        \/ Updated(row', d, {NextOf(d, f)}, "error")
    BY <1>17, <1>b, SetStateGives, FailRowsGives DEF JoinNext, States
  <2>3. /\ row'[NextOf(d, f)] # None /\ row'[NextOf(d, f)].state \in {"running", "error"}
        /\ \A m \in Mem(f) : m # NextOf(d, f) => row'[m] = row[m]
    BY <1>0, <1>b, <2>1, <2>2 DEF Updated
  <2>4. \A m \in Mem(f) \ left[d][f] : row'[m] = row[m]
    BY <2>1, <2>3
  <2> QED
    BY <1>17, <1>b, <2>1, <2>3, <2>4 DEF JoinNext, SettleOK, InFlight, ErrorIn
<1>18. ASSUME FrameDone(d, f) PROVE SettleOK(f)'
  <2>1. pc'[d][f] = "done"
    BY <1>18, ReturnGives DEF FrameDone
  <2> QED
    BY <2>1, <1>b DEF SettleOK
<1> QED
  BY <1>1, <1>2, <1>3, <1>4, <1>5, <1>6, <1>7, <1>8, <1>9, <1>10, <1>11, <1>12, <1>13, <1>14,
     <1>15, <1>16, <1>17, <1>18 DEF FrameStep

\* What one goroutine does is nothing to the other frames.
LEMMA SettleStep ==
    TypeOK /\ RunInv /\ PhaseInv /\ RowInv /\ SettleInv /\ [Next]_vars => SettleInv'
<1> SUFFICES ASSUME TypeOK, RunInv, PhaseInv, RowInv, SettleInv, [Next]_vars PROVE SettleInv'
  OBVIOUS
<1>0. /\ TableType /\ RunType /\ BarrierType /\ FlowType /\ MaxDeploys \in Nat
      /\ \A f \in Frames : Mem(f) \in SUBSET Nodes
      /\ Repl \notin Frames /\ Repl \in Waiters /\ 0 \notin Deploys
  BY TypeParts, MemFacts, FramesAssumption DEF Waiters, Deploys
<1> USE <1>0
<1>1. ASSUME DeployStack PROVE SettleInv'
  <2>1. PICK b \in Deploys : Gives(b)
    BY <1>1, DeployGives
  <2> SUFFICES ASSUME NEW g \in Frames PROVE SettleOK(g)'
    BY DEF SettleInv
  <2>2. /\ run' = b /\ pc'[b][g] \in {"start", "done"}
        /\ pc'[b][g] = "start" => left'[b][g] = Fresh(g)
        /\ \A n \in Mem(g) : n \notin Fresh(g) => row'[n] = row[n]
    BY <2>1 DEF Gives
  <2>3. \A n \in Mem(g) : n \notin Fresh(g) => row[n].state = "running"
    BY DEF Fresh, Built
  <2> QED
    BY <2>2, <2>3 DEF SettleOK, InFlight
<1>2. ASSUME NEW d \in Deploys, NEW f \in Frames, FrameStep(d, f) \/ BarrierTimesOut(d, f) PROVE
   SettleInv'
  <2> SUFFICES ASSUME dropped' = {}, run' # 0, run' \notin cancelled', NEW g \in Frames
               PROVE  SettleOK(g)'
    BY DEF SettleInv
  <2>1. Moves(d, f) /\ Sets(d, f)
    BY <1>2, FrameMoves, FrameSets
  <2>2. dropped = {} /\ run # 0 /\ run \notin cancelled /\ run' = run
    BY <2>1 DEF Moves
  <2>3. CASE g = f
    BY <1>2, <2>2, <2>3, FrameSettle DEF Quiet
  <2>4. CASE g # f
    <3>1. run \in Deploys /\ SettleOK(g)
      BY <2>2 DEF RunType, Deploys, SettleInv
    <3>2. pc'[run][g] = pc[run][g] /\ left'[run][g] = left[run][g] /\ failed'[run][g] = failed[run][g]
      BY <2>1, <2>4, <3>1 DEF Moves, Elsewhere
    <3>3. \A n \in Mem(g) : row'[n] = row[n]
      BY <1>2, <2>4, FrameRows
    <3> QED
      BY <2>2, <3>1, <3>2, <3>3 DEF SettleOK, InFlight, ErrorIn
  <2> QED
    BY <2>3, <2>4
<1>3. ASSUME NEW d \in Deploys, ReplBarrierOpens(d) PROVE SettleInv'
  BY <1>3 DEF ReplBarrierOpens, tables, runvars, SettleInv, SettleOK, InFlight, ErrorIn
<1>4. ASSUME NEW d \in Deploys, ReplBarrierTimesOut(d) PROVE SettleInv'
  BY <1>4 DEF ReplBarrierTimesOut, tables, runvars, SettleInv, SettleOK, InFlight, ErrorIn
<1>5. ASSUME NEW d \in Deploys, ReplNodes(d) PROVE SettleInv'
  BY <1>5 DEF ReplNodes, tables, runvars, SettleInv, SettleOK, InFlight, ErrorIn
<1>6. ASSUME FinishDeploy PROVE SettleInv'
  BY <1>6 DEF FinishDeploy, SettleInv
<1>7. ASSUME Destroy PROVE SettleInv'
  BY <1>7 DEF Destroy, SettleInv
<1>8. ASSUME Teardown PROVE SettleInv'
  BY <1>8 DEF Teardown, Torn, SettleInv
<1>9. ASSUME TeardownIdle PROVE SettleInv'
  BY <1>9 DEF TeardownIdle, runvars, SettleInv
<1>10. CASE UNCHANGED vars
  BY <1>10 DEF vars, tables, runvars, flow, SettleInv, SettleOK, InFlight, ErrorIn
<1> QED
  BY <1>1, <1>2, <1>3, <1>4, <1>5, <1>6, <1>7, <1>8, <1>9, <1>10 DEF Next, ReplStep, TimeOut

\* A goroutine that returns leaves no row in flight, unless a sibling has failed.
LEMMA FrameReturns ==
    ASSUME TypeOK, RunInv, PhaseInv, RowInv, SettleInv, ~Quiet, dropped = {}, NEW d \in Deploys, NEW f \in Frames,
           FrameStep(d, f) \/ BarrierTimesOut(d, f)
    PROVE  pc'[d][f] = "done" => \A k \in Mem(f) : InFlight(k)' => ErrorIn(Mem(f))'
<1>0. /\ TableType /\ RunType /\ BarrierType /\ FlowType
      /\ \A g \in Frames : Mem(g) \in SUBSET Nodes
      /\ \A e \in Deploys, g \in Frames : left[e][g] \in SUBSET Nodes /\ pc[e][g] \in PC
      /\ MaxDeploys \in Nat /\ MaxFaults \in Nat
  BY TypeParts, MemFacts, FramesAssumption DEF FlowType
<1>b. /\ d = run /\ run' = run /\ ~Quiet /\ left[d][f] \subseteq Mem(f) /\ Mem(f) \subseteq Nodes
      /\ SettleOK(f) /\ \A n \in Mem(f) : row[n] # None
  <2>1. Moves(d, f)
    BY FrameMoves
  <2>2. d = run
    BY <2>1, LiveRun DEF Moves
  <2>3. run \notin cancelled /\ SettleOK(f) /\ run' = run
    BY <2>1, <2>2 DEF Quiet, Moves, SettleInv, Deploys
  <2>4. \A n \in Mem(f) : row[n] # None
    BY <2>1, <2>2 DEF RowInv, Moves, Deploys
  <2> QED
    BY <1>0, <2>2, <2>3, <2>4 DEF PhaseInv, PhaseOK
<1>1. ASSUME Start(d, f) PROVE pc'[d][f] = "done" => \A k \in Mem(f) : InFlight(k)' => ErrorIn(Mem(f))'
  <2>1. pc'[d][f] # "done"
    BY <1>1, <1>0, GotoGives DEF Start, PC
  <2> QED
    BY <2>1
<1>2. ASSUME IntranetReady(d, f) PROVE pc'[d][f] = "done" => \A k \in Mem(f) : InFlight(k)' => ErrorIn(Mem(f))'
  <2>1. pc'[d][f] # "done"
    BY <1>2, <1>0, GotoGives DEF IntranetReady, PC
  <2> QED
    BY <2>1
<1>3. ASSUME IntranetFails(d, f) PROVE pc'[d][f] = "done" => \A k \in Mem(f) : InFlight(k)' => ErrorIn(Mem(f))'
  <2>1. Updated(row', d, left[d][f], "error")
    BY <1>3, <1>b, FailRowsGives DEF IntranetFails
  <2> SUFFICES ASSUME NEW n \in Mem(f), InFlight(n)' PROVE ErrorIn(Mem(f))'
    OBVIOUS
  <2>2. n \notin left[d][f] /\ row'[n] = row[n]
    BY <1>b, <2>1 DEF Updated, InFlight
  <2>3. PICK m \in Mem(f) \ left[d][f] : row[m] # None /\ row[m].state = "error"
    BY <1>3, <1>b, <2>2 DEF IntranetFails, SettleOK, InFlight, ErrorIn
  <2>4. row'[m] = row[m]
    BY <1>b, <2>1 DEF Updated
  <2> QED
    BY <2>3, <2>4 DEF ErrorIn
<1>4. ASSUME NEW n \in Nodes, MemberPrepared(d, f, n) PROVE pc'[d][f] = "done" => \A k \in Mem(f) : InFlight(k)' => ErrorIn(Mem(f))'
  <2>1. pc'[d][f] # "done"
    BY <1>4, <1>0, DidGives DEF MemberPrepared, PC
  <2> QED
    BY <2>1
<1>5. ASSUME NEW n \in Nodes, MemberBaselined(d, f, n) PROVE pc'[d][f] = "done" => \A k \in Mem(f) : InFlight(k)' => ErrorIn(Mem(f))'
  <2>1. pc'[d][f] # "done"
    BY <1>5, <1>0, DidGives DEF MemberBaselined, PC
  <2> QED
    BY <2>1
<1>6. ASSUME NEW n \in Nodes, MemberFails(d, f, n) PROVE pc'[d][f] = "done" => \A k \in Mem(f) : InFlight(k)' => ErrorIn(Mem(f))'
  <2>1. pc'[d][f] # "done"
    BY <1>6, <1>0, FailsGives DEF MemberFails, PC
  <2> QED
    BY <2>1
<1>7. ASSUME PhaseFailed(d, f) PROVE pc'[d][f] = "done" => \A k \in Mem(f) : InFlight(k)' => ErrorIn(Mem(f))'
  <2>1. row' = row
    BY <1>7 DEF PhaseFailed, tables
  <2> QED
    BY <1>7, <1>b, <2>1 DEF PhaseFailed, SettleOK, InFlight, ErrorIn
<1>8. ASSUME PhaseDone(d, f) PROVE pc'[d][f] = "done" => \A k \in Mem(f) : InFlight(k)' => ErrorIn(Mem(f))'
  <2>1. pc'[d][f] # "done"
    BY <1>8, <1>0, GotoGives DEF PhaseDone, PC
  <2> QED
    BY <2>1
<1>9. ASSUME FormNext(d, f) PROVE pc'[d][f] = "done" => \A k \in Mem(f) : InFlight(k)' => ErrorIn(Mem(f))'
  <2>1. pc'[d][f] # "done"
    BY <1>9, <1>0, DidGives DEF FormNext, PC
  <2> QED
    BY <2>1
<1>10. ASSUME Formed(d, f) PROVE pc'[d][f] = "done" => \A k \in Mem(f) : InFlight(k)' => ErrorIn(Mem(f))'
  <2>1. pc'[d][f] # "done"
    BY <1>10, <1>0, GotoGives DEF Formed, PC
  <2> QED
    BY <2>1
<1>11. ASSUME BarrierOpens(d, f) PROVE pc'[d][f] = "done" => \A k \in Mem(f) : InFlight(k)' => ErrorIn(Mem(f))'
  <2>1. pc'[d][f] # "done"
    BY <1>11, <1>0, GotoGives DEF BarrierOpens, PC
  <2> QED
    BY <2>1
<1>12. ASSUME BarrierTimesOut(d, f) PROVE pc'[d][f] = "done" => \A k \in Mem(f) : InFlight(k)' => ErrorIn(Mem(f))'
  <2>1. pc'[d][f] # "done"
    BY <1>12, <1>0, GotoGives DEF BarrierTimesOut, PC
  <2> QED
    BY <2>1
<1>13. ASSUME AttachNext(d, f) PROVE pc'[d][f] = "done" => \A k \in Mem(f) : InFlight(k)' => ErrorIn(Mem(f))'
  <2>1. pc'[d][f] # "done"
    BY <1>13, <1>0, DidGives DEF AttachNext, PC
  <2> QED
    BY <2>1
<1>14. ASSUME Attached(d, f) PROVE pc'[d][f] = "done" => \A k \in Mem(f) : InFlight(k)' => ErrorIn(Mem(f))'
  <2>1. pc'[d][f] # "done"
    BY <1>14, <1>0, GotoGives DEF Attached, PC
  <2> QED
    BY <2>1
<1>15. ASSUME FinishNext(d, f) PROVE pc'[d][f] = "done" => \A k \in Mem(f) : InFlight(k)' => ErrorIn(Mem(f))'
  <2>1. pc'[d][f] # "done"
    BY <1>15, <1>0, DidGives DEF FinishNext, PC
  <2> QED
    BY <2>1
<1>16. ASSUME SequenceFails(d, f) PROVE pc'[d][f] = "done" => \A k \in Mem(f) : InFlight(k)' => ErrorIn(Mem(f))'
  <2>1. NextOf(d, f) \in Mem(f)
    BY <1>16, <1>b, NextOfLeft DEF SequenceFails
  <2>2. Updated(row', d, {NextOf(d, f)}, "error")
    BY <1>16, <1>b, FailRowsGives DEF SequenceFails
  <2> QED
    BY <1>b, <2>1, <2>2 DEF Updated, ErrorIn
<1>17. ASSUME JoinNext(d, f) PROVE pc'[d][f] = "done" => \A k \in Mem(f) : InFlight(k)' => ErrorIn(Mem(f))'
  <2>1. pc'[d][f] # "done"
    BY <1>17, <1>0, DidGives DEF JoinNext, PC
  <2> QED
    BY <2>1
<1>18. ASSUME FrameDone(d, f) PROVE pc'[d][f] = "done" => \A k \in Mem(f) : InFlight(k)' => ErrorIn(Mem(f))'
  <2>1. row' = row
    BY <1>18 DEF FrameDone, tables
  <2> QED
    BY <1>18, <1>b, <2>1 DEF FrameDone, SettleOK, InFlight, ErrorIn
<1> QED
  BY <1>1, <1>2, <1>3, <1>4, <1>5, <1>6, <1>7, <1>8, <1>9, <1>10, <1>11, <1>12, <1>13, <1>14,
     <1>15, <1>16, <1>17, <1>18 DEF FrameStep

\* Nobody leaves a row in flight behind, unless a sibling has failed.
LEMMA StuckStep ==
    TypeOK /\ RunInv /\ PhaseInv /\ RowInv /\ SettleInv /\ StuckOnlyBesideAFailure /\ [Next]_vars
       => StuckOnlyBesideAFailure'
<1> SUFFICES ASSUME TypeOK, RunInv, PhaseInv, RowInv, SettleInv, StuckOnlyBesideAFailure,
   [Next]_vars PROVE StuckOnlyBesideAFailure'
  OBVIOUS
<1>0. /\ TableType /\ RunType /\ BarrierType /\ FlowType /\ MaxDeploys \in Nat
      /\ \A f \in Frames : Mem(f) \in SUBSET Nodes
      /\ Repl \notin Frames /\ Repl \in Waiters /\ 0 \notin Deploys
  BY TypeParts, MemFacts, FramesAssumption DEF Waiters, Deploys
<1> USE <1>0
<1>1. ASSUME DeployStack PROVE StuckOnlyBesideAFailure'
  <2>1. PICK b \in Deploys : Gives(b)
    BY <1>1, DeployGives
  <2> SUFFICES ASSUME NEW g \in Frames, NEW n \in Mem(g), InFlight(n)', dropped = {}
               PROVE  (\E e \in Deploys : Live(e, g)') \/ ErrorIn(Mem(g))'
    BY <2>1 DEF StuckOnlyBesideAFailure, Live, ErrorIn, Gives
  <2>2. CASE g \in Drawn[b] /\ Fresh(g) # {}
    BY <2>1, <2>2 DEF Gives, Live
  <2>3. CASE ~(g \in Drawn[b] /\ Fresh(g) # {})
    <3>1. \A m \in Mem(g) : row'[m] = row[m]
      BY <2>1, <2>3 DEF Gives
    <3>2. ~Quiet /\ InFlight(n)
      BY <2>1, <3>1 DEF Gives, Quiet, InFlight
    <3>3. CASE ErrorIn(Mem(g))
      BY <3>1, <3>3 DEF ErrorIn
    <3>4. CASE \E e \in Deploys : Live(e, g)
      <4>1. PICK e \in Deploys : Live(e, g)
        BY <3>4
      <4>2. e # b
        BY <2>1, <4>1 DEF Gives, RunInv, Live, TableType, Deploys
      <4> QED
        BY <2>1, <4>1, <4>2 DEF Gives, Live
    <3> QED
      BY <3>2, <3>3, <3>4 DEF StuckOnlyBesideAFailure, Live, ErrorIn
  <2> QED
    BY <2>2, <2>3
<1>2. ASSUME NEW d \in Deploys, NEW f \in Frames, FrameStep(d, f) \/ BarrierTimesOut(d, f) PROVE
   StuckOnlyBesideAFailure'
  <2>1. Moves(d, f)
    BY <1>2, FrameMoves
  <2> SUFFICES ASSUME NEW g \in Frames, NEW n \in Mem(g), InFlight(n)', dropped = {}, ~Quiet
               PROVE  (\E e \in Deploys : Live(e, g)') \/ ErrorIn(Mem(g))'
    BY <2>1 DEF StuckOnlyBesideAFailure, Live, ErrorIn, Moves, Quiet
  <2>2. CASE g = f /\ pc'[d][f] = "done"
    BY <1>2, <2>2, FrameReturns
  <2>3. CASE g = f /\ pc'[d][f] # "done"
    BY <2>1, <2>3 DEF Moves, Live
  <2>4. CASE g # f
    <3>1. \A m \in Mem(g) : row'[m] = row[m]
      BY <1>2, <2>4, FrameRows
    <3>2. InFlight(n)
      BY <3>1 DEF InFlight
    <3>3. \A e \in Deploys : Live(e, g) => Live(e, g)'
      BY <2>1, <2>4 DEF Moves, Elsewhere, Live
    <3> QED
      BY <3>1, <3>2, <3>3 DEF StuckOnlyBesideAFailure, Live, ErrorIn
  <2> QED
    BY <2>2, <2>3, <2>4
<1>3. ASSUME NEW d \in Deploys, ReplBarrierOpens(d) PROVE StuckOnlyBesideAFailure'
  BY <1>3 DEF ReplBarrierOpens, tables, runvars, StuckOnlyBesideAFailure, InFlight, Quiet
<1>4. ASSUME NEW d \in Deploys, ReplBarrierTimesOut(d) PROVE StuckOnlyBesideAFailure'
  BY <1>4 DEF ReplBarrierTimesOut, tables, runvars, StuckOnlyBesideAFailure, InFlight, Quiet
<1>5. ASSUME NEW d \in Deploys, ReplNodes(d) PROVE StuckOnlyBesideAFailure'
  BY <1>5 DEF ReplNodes, tables, runvars, StuckOnlyBesideAFailure, InFlight, Quiet
<1>6. ASSUME FinishDeploy PROVE StuckOnlyBesideAFailure'
  BY <1>6 DEF FinishDeploy, tables, flow, StuckOnlyBesideAFailure, InFlight, Quiet
<1>7. ASSUME Destroy PROVE StuckOnlyBesideAFailure'
  BY <1>7 DEF Destroy, StuckOnlyBesideAFailure, Quiet
<1>8. ASSUME Teardown PROVE StuckOnlyBesideAFailure'
  BY <1>8 DEF Teardown, Torn, StuckOnlyBesideAFailure, InFlight
<1>9. ASSUME TeardownIdle PROVE StuckOnlyBesideAFailure'
  BY <1>9 DEF TeardownIdle, StuckOnlyBesideAFailure, InFlight
<1>10. CASE UNCHANGED vars
  BY <1>10 DEF vars, tables, runvars, flow, StuckOnlyBesideAFailure, InFlight, Quiet
<1> QED
  BY <1>1, <1>2, <1>3, <1>4, <1>5, <1>6, <1>7, <1>8, <1>9, <1>10 DEF Next, ReplStep, TimeOut

-----------------------------------------------------------------------------
(* The theorems *)

\* The inductive invariant holds in every state.
THEOREM IndInvHolds == Spec => []IndInv
<1>1. IndInv /\ [Next]_vars => IndInv'
  BY TypeStep, RunStep, PhaseStep, PassStep, ArriveStep, RowStep, SettleStep, VerdictStep, StuckStep
     DEF IndInv
<1> QED
  BY <1>1, InitInv, PTL DEF Spec

\* Every variable of the tables, the runs, the barriers and the goroutines keeps its type.
THEOREM TypeCorrect == Spec => []TypeOK
<1>1. IndInv => TypeOK
  BY DEF IndInv
<1> QED
  BY <1>1, IndInvHolds, PTL

\* deployrun.go: a goroutine never gives its verdict on a row of a later deploy, unless cancelDeploy
\* gave up waiting for it.
THEOREM VerdictsAreOwn == Spec => []VerdictIsOwn
<1>1. IndInv => VerdictIsOwn
  BY DEF IndInv
<1> QED
  BY <1>1, IndInvHolds, PTL

\* mysql.go, pxc.go, join.go: whichever member fails at whichever step, a row that is left in flight
\* for good stands beside a failed sibling.
THEOREM NothingStuckAlone == Spec => []StuckOnlyBesideAFailure
<1>1. IndInv => StuckOnlyBesideAFailure
  BY DEF IndInv
<1> QED
  BY <1>1, IndInvHolds, PTL

-----------------------------------------------------------------------------
(* The barrier implements the rendezvous *)

\* The party of one node.
PartyOf(d, n) ==
    IF n \notin parts[d] THEN "absent"
    ELSE IF n \in based[d] THEN "ready"
    ELSE IF pc[d][FrameOf(n)] = "done" THEN "gone" ELSE "working"

\* Party is made of them.
LEMMA PartyIs ==
    /\ Party = [d \in Deploys |-> [n \in Nodes |-> PartyOf(d, n)]]
    /\ Party' = [d \in Deploys |-> [n \in Nodes |-> PartyOf(d, n)']]
  BY DEF Party, PartyOf

\* Every node has a frame, and it is the only one it is in.
LEMMA FrameOfNode == \A n \in Nodes : FrameOf(n) \in Frames /\ n \in Mem(FrameOf(n))
  BY MemFacts DEF FrameOf

\* In the first state nobody takes part.
LEMMA RefineInit == Init => RV!Init
  BY FramesAssumption DEF Init, RV!Init, Party

\* A deploy seats the members of the frames it builds.
LEMMA RefineDeploy ==
    ASSUME IndInv, DeployStack
    PROVE  [RV!Next]_(RV!rendezvousVars)
<1>1. PICK b \in Deploys : Gives(b)
  BY DeployGives DEF IndInv
<1> DEFINE S == BarrierIDs(b)
<1>2. /\ S \in SUBSET Nodes
      /\ \A n \in S : \E g \in Frames : g \in Drawn[b] /\ n \in Mem(g) /\ n \in Fresh(g)
  <2>1. Drawn[b] \subseteq Frames
    BY FramesAssumption DEF Deploys
  <2>2. \A g \in Frames : Fresh(g) \subseteq Mem(g) /\ Mem(g) \subseteq Nodes
    BY MemFacts DEF Fresh
  <2> QED
    BY <2>1, <2>2 DEF BarrierIDs
<1>3. parts[b] = {} /\ based[b] = {}
  <2>1. gen \in Nat /\ b = gen + 1
    BY <1>1, FramesAssumption DEF IndInv, TypeOK, Gives
  <2>2. b > gen
    BY <2>1
  <2> QED
    BY <2>2 DEF IndInv, RunInv
<1>4. ASSUME NEW n \in Nodes
      PROVE  PartyOf(b, n) = "absent" /\ PartyOf(b, n)' = IF n \in S THEN "working" ELSE "absent"
  <2>1. parts'[b] = S /\ based'[b] = {}
    BY <1>1, <1>3 DEF Gives
  <2>2. n \in S => pc'[b][FrameOf(n)] = "start"
    BY <1>1, <1>2, FrameOfMem DEF Gives
  <2> QED
    BY <1>3, <2>1, <2>2 DEF PartyOf
<1>5. ASSUME NEW e \in Deploys, e # b, NEW n \in Nodes
      PROVE  PartyOf(e, n)' = PartyOf(e, n)
  BY <1>1, <1>5, FrameOfNode DEF Gives, PartyOf
<1>6. Party' = [Party EXCEPT ![b] = [n \in Nodes |-> IF n \in S THEN "working" ELSE "absent"]]
  BY <1>4, <1>5, PartyIs
<1>7. \A n \in Nodes : Party[b][n] = "absent"
  BY <1>4, PartyIs
<1>8. passed' = passed
  BY <1>1 DEF Gives
<1>9. RV!Seat(b, S)
  BY <1>6, <1>7, <1>8 DEF RV!Seat
<1> QED
  BY <1>2, <1>9 DEF RV!Next

\* A step of a frame changes no party of another deploy or of another frame, and its own only when a
\* member reaches its baseline or the goroutine returns.
LEMMA PartyElsewhere ==
    ASSUME IndInv, NEW d \in Deploys, NEW f \in Frames,
           FrameStep(d, f) \/ BarrierTimesOut(d, f), NEW e \in Deploys, NEW n \in Nodes,
           \/ e # d
           \/ n \in based'[d] <=> n \in based[d]
    PROVE  \/ PartyOf(e, n)' = PartyOf(e, n)
           \/ /\ e = d /\ n \in Mem(f) /\ pc'[d][f] = "done"
              /\ PartyOf(e, n) = "working" /\ PartyOf(e, n)' = "gone"
<1>1. Moves(d, f) /\ Meets(d, f)
  BY FrameMoves, FrameMeets DEF IndInv
<1>2. parts' = parts /\ (n \in based'[e] <=> n \in based[e])
  BY <1>1 DEF Moves, Meets
<1>3. FrameOf(n) \in Frames /\ n \in Mem(FrameOf(n))
  BY FrameOfNode
<1>4. CASE e # d \/ FrameOf(n) # f
  BY <1>1, <1>2, <1>3, <1>4 DEF Moves, Elsewhere, PartyOf
<1>5. CASE e = d /\ FrameOf(n) = f
  BY <1>1, <1>2, <1>3, <1>5 DEF Moves, Live, PartyOf
<1> QED
  BY <1>4, <1>5

\* A step that brings nobody to its baseline lets the members of a frame that returns give up.
LEMMA RefineGiveUp ==
    ASSUME IndInv, NEW d \in Deploys, NEW f \in Frames, FrameStep(d, f) \/ BarrierTimesOut(d, f),
           based' = based, pc'[d][f] = "done"
    PROVE  [RV!Next]_(RV!rendezvousVars)
<1> DEFINE S == {n \in Mem(f) : PartyOf(d, n) = "working"}
<1>1. S \in SUBSET Nodes /\ Mem(f) \subseteq Nodes
  BY MemFacts
<1>2. Moves(d, f) /\ Meets(d, f)
  BY FrameMoves, FrameMeets DEF IndInv
<1>3. passed' = passed
  <2>1. TypeOK /\ TypeOK'
    BY TypeStep DEF IndInv, Next, TimeOut
  <2>2. \A e \in Deploys, w \in Waiters : passed'[e][w] = passed[e][w]
    BY <1>2 DEF Meets
  <2> QED
    BY <2>1, <2>2 DEF TypeOK
<1>4. ASSUME NEW e \in Deploys, NEW n \in Nodes
      PROVE  PartyOf(e, n)' = IF e = d /\ n \in S THEN "gone" ELSE PartyOf(e, n)
  <2>1. CASE e = d /\ n \in S
    <3>1. FrameOf(n) = f
      BY <2>1, FrameOfMem
    <3> QED
      BY <1>2, <2>1, <3>1 DEF PartyOf, Moves
  <2>2. CASE ~(e = d /\ n \in S)
    BY <2>2, PartyElsewhere
  <2> QED
    BY <2>1, <2>2
<1>5. Party' = [Party EXCEPT ![d] = [n \in Nodes |-> IF n \in S THEN "gone" ELSE Party[d][n]]]
  <2> HIDE DEF S
  <2> QED
    BY <1>4, PartyIs
<1>6. S \subseteq RV!Working(d)
  BY <1>1, PartyIs DEF RV!Working
<1>7. RV!GiveUp(d, S)
  BY <1>3, <1>5, <1>6 DEF RV!GiveUp
<1> QED
  BY <1>1, <1>7 DEF RV!Next

\* A member at its baseline is ready.
LEMMA RefineReady ==
    ASSUME IndInv, NEW d \in Deploys, NEW f \in Frames, FrameStep(d, f), NEW n \in Mem(f),
           based' = [based EXCEPT ![d] = @ \cup {n}], pc' = pc, passed' = passed
    PROVE  [RV!Next]_(RV!rendezvousVars)
<1>1. Moves(d, f) /\ n \in Nodes /\ FrameOf(n) = f /\ based \in [Deploys -> SUBSET Nodes]
  BY FrameMoves, MemFacts, FrameOfMem DEF IndInv, TypeOK
<1>2. ASSUME NEW e \in Deploys, NEW m \in Nodes, e # d \/ m # n
      PROVE  PartyOf(e, m)' = PartyOf(e, m)
  BY <1>1, <1>2 DEF PartyOf, Moves
<1>3. CASE n \in parts[d] \ based[d]
  <2>1. PartyOf(d, n) = "working" /\ PartyOf(d, n)' = "ready"
    BY <1>1, <1>3 DEF PartyOf, Moves, Live
  <2>2. Party' = [Party EXCEPT ![d][n] = "ready"]
    <3>1. \A e \in Deploys, m \in Nodes :
             PartyOf(e, m)' = IF e = d /\ m = n THEN "ready" ELSE PartyOf(e, m)
      BY <1>2, <2>1
    <3>2. /\ DOMAIN Party' = Deploys
          /\ \A e \in Deploys : Party'[e] = [m \in Nodes |-> PartyOf(e, m)']
      BY PartyIs
    <3>3. [Party EXCEPT ![d][n] = "ready"]
            = [e \in Deploys |-> IF e = d THEN [Party[d] EXCEPT ![n] = "ready"] ELSE Party[e]]
      <4>1. DOMAIN Party = Deploys
        BY PartyIs
      <4> QED
        BY <4>1
    <3>4. \A e \in Deploys : e # d => Party'[e] = Party[e]
      BY <3>1, <3>2, PartyIs
    <3>5. Party'[d] = [Party[d] EXCEPT ![n] = "ready"]
      BY <3>1, <3>2, PartyIs
    <3>6. Party' = [e \in Deploys |-> Party'[e]]
      BY PartyIs
    <3> QED
      BY <3>3, <3>4, <3>5, <3>6
  <2>3. n \in RV!Working(d)
    BY <1>1, <2>1, PartyIs DEF RV!Working
  <2>4. RV!Ready(d, n)
    BY <2>2, <2>3 DEF RV!Ready
  <2> QED
    BY <1>1, <2>4 DEF RV!Next
<1>4. CASE n \notin parts[d] \ based[d]
  <2>1. PartyOf(d, n)' = PartyOf(d, n)
    BY <1>1, <1>4 DEF PartyOf, Moves
  <2>2. Party' = Party
    BY <1>2, <2>1, PartyIs
  <2> QED
    BY <2>2 DEF RV!rendezvousVars
<1> QED
  BY <1>3, <1>4

\* Where neither the baselines nor the goroutines' ends change, no party does.
LEMMA PartySame ==
    ASSUME UNCHANGED <<parts, based>>,
           \A e \in Deploys, g \in Frames : pc'[e][g] = "done" <=> pc[e][g] = "done"
    PROVE  Party' = Party
<1>1. ASSUME NEW e \in Deploys, NEW n \in Nodes PROVE PartyOf(e, n)' = PartyOf(e, n)
  BY FrameOfNode DEF PartyOf
<1> QED
  BY <1>1, PartyIs

\* An open barrier: nobody is still on its way to the baseline.
LEMMA OpenBarrier ==
    ASSUME IndInv, NEW d \in Deploys, pending[d] = {}
    PROVE  RV!Working(d) = {}
<1>1. ASSUME NEW n \in Nodes PROVE PartyOf(d, n) # "working"
  BY FrameOfNode DEF IndInv, ArriveInv, PartyOf
<1> QED
  BY <1>1, PartyIs DEF RV!Working

\* Every step of a frame is a step of the rendezvous, or none.
LEMMA RefineFrame ==
    ASSUME IndInv, NEW d \in Deploys, NEW f \in Frames,
           FrameStep(d, f) \/ BarrierTimesOut(d, f)
    PROVE  [RV!Next]_(RV!rendezvousVars)
<1>0. TypeOK /\ PhaseInv /\ PassInv
  BY DEF IndInv
<1>c. Mem(f) \in SUBSET Nodes /\ left[d][f] \in SUBSET Nodes
  BY <1>0, MemFacts DEF TypeOK
<1>1. ASSUME Start(d, f) PROVE [RV!Next]_(RV!rendezvousVars)
  <2>1. UNCHANGED <<parts, based, passed>>
    BY <1>1 DEF Start
  <2>2. Elsewhere(d, f) /\ pc'[d][f] # "done" /\ pc[d][f] # "done"
    BY <1>1, <1>0, <1>c, GotoGives DEF Start, PC
  <2>3. Party' = Party
    BY <2>1, <2>2, PartySame DEF Elsewhere
  <2> QED
    BY <2>1, <2>3 DEF RV!rendezvousVars
<1>2. ASSUME IntranetReady(d, f) PROVE [RV!Next]_(RV!rendezvousVars)
  <2>1. UNCHANGED <<parts, based, passed>>
    BY <1>2 DEF IntranetReady, barrier
  <2>2. Elsewhere(d, f) /\ pc'[d][f] # "done" /\ pc[d][f] # "done"
    BY <1>2, <1>0, <1>c, GotoGives DEF IntranetReady, PC
  <2>3. Party' = Party
    BY <2>1, <2>2, PartySame DEF Elsewhere
  <2> QED
    BY <2>1, <2>3 DEF RV!rendezvousVars
<1>3. ASSUME IntranetFails(d, f) PROVE [RV!Next]_(RV!rendezvousVars)
  <2>1. based' = based /\ pc'[d][f] = "done"
    BY <1>3, <1>0, ReturnGives DEF IntranetFails
  <2> QED
    BY <2>1, RefineGiveUp
<1>4. ASSUME NEW n \in Nodes, MemberPrepared(d, f, n) PROVE [RV!Next]_(RV!rendezvousVars)
  <2>1. UNCHANGED <<parts, based, passed>>
    BY <1>4 DEF MemberPrepared, barrier
  <2>2. pc' = pc
    BY <1>4, <1>0, DidGives DEF MemberPrepared
  <2>3. Party' = Party
    BY <2>1, <2>2, PartySame
  <2> QED
    BY <2>1, <2>3 DEF RV!rendezvousVars
<1>5. ASSUME NEW n \in Nodes, MemberBaselined(d, f, n) PROVE [RV!Next]_(RV!rendezvousVars)
  <2>1. n \in Mem(f) /\ pc' = pc /\ passed' = passed
    BY <1>5, <1>0, DidGives DEF MemberBaselined, PhaseInv, PhaseOK
  <2>2. FrameStep(d, f) /\ based' = [based EXCEPT ![d] = @ \cup {n}]
    BY <1>5 DEF FrameStep, MemberBaselined
  <2> QED
    BY <2>1, <2>2, RefineReady
<1>6. ASSUME NEW n \in Nodes, MemberFails(d, f, n) PROVE [RV!Next]_(RV!rendezvousVars)
  <2>1. UNCHANGED <<parts, based, passed>>
    BY <1>6 DEF MemberFails, barrier
  <2>2. pc' = pc
    BY <1>6, <1>0, FailsGives DEF MemberFails
  <2>3. Party' = Party
    BY <2>1, <2>2, PartySame
  <2> QED
    BY <2>1, <2>3 DEF RV!rendezvousVars
<1>7. ASSUME PhaseFailed(d, f) PROVE [RV!Next]_(RV!rendezvousVars)
  <2>1. based' = based /\ pc'[d][f] = "done"
    BY <1>7, <1>0, ReturnGives DEF PhaseFailed
  <2> QED
    BY <2>1, RefineGiveUp
<1>8. ASSUME PhaseDone(d, f) PROVE [RV!Next]_(RV!rendezvousVars)
  <2>1. UNCHANGED <<parts, based, passed>>
    BY <1>8 DEF PhaseDone
  <2>2. Elsewhere(d, f) /\ pc'[d][f] # "done" /\ pc[d][f] # "done"
    BY <1>8, <1>0, <1>c, GotoGives DEF PhaseDone, PC
  <2>3. Party' = Party
    BY <2>1, <2>2, PartySame DEF Elsewhere
  <2> QED
    BY <2>1, <2>3 DEF RV!rendezvousVars
<1>9. ASSUME FormNext(d, f) PROVE [RV!Next]_(RV!rendezvousVars)
  <2>1. NextOf(d, f) \in Mem(f) /\ pc' = pc /\ passed' = passed
    BY <1>9, <1>0, DidGives, NextOfLeft DEF FormNext, PhaseInv, PhaseOK
  <2>2. FrameStep(d, f) /\ based' = [based EXCEPT ![d] = @ \cup {NextOf(d, f)}]
    BY <1>9 DEF FrameStep, FormNext
  <2> QED
    BY <2>1, <2>2, RefineReady
<1>10. ASSUME Formed(d, f) PROVE [RV!Next]_(RV!rendezvousVars)
  <2>1. UNCHANGED <<parts, based, passed>>
    BY <1>10 DEF Formed
  <2>2. Elsewhere(d, f) /\ pc'[d][f] # "done" /\ pc[d][f] # "done"
    BY <1>10, <1>0, <1>c, GotoGives DEF Formed, PC
  <2>3. Party' = Party
    BY <2>1, <2>2, PartySame DEF Elsewhere
  <2> QED
    BY <2>1, <2>3 DEF RV!rendezvousVars
<1>11. ASSUME BarrierOpens(d, f) PROVE [RV!Next]_(RV!rendezvousVars)
  <2>1. Party' = Party
    <3>1. UNCHANGED <<parts, based>>
      BY <1>11 DEF BarrierOpens
    <3>2. Elsewhere(d, f) /\ pc'[d][f] = "attach"
      BY <1>11, <1>0, <1>c, GotoGives DEF BarrierOpens, PC
    <3> QED
      BY <1>11, <3>1, <3>2, PartySame DEF BarrierOpens, Elsewhere
  <2>2. f \in Waiters
    BY <1>11, <1>0 DEF BarrierOpens, PhaseInv, PhaseOK, Waiters
  <2>3. passed[d][f] = "in" /\ passed' = [passed EXCEPT ![d][f] = "out"]
    BY <1>11, <1>0, <2>2 DEF BarrierOpens, PassInv
  <2>4. at[d][f] = d /\ RV!Working(d) = {}
    <3>1. at[d][f] = d
      BY <1>11, <1>0 DEF BarrierOpens, PhaseInv, PhaseOK
    <3> QED
      BY <1>11, <3>1, OpenBarrier DEF BarrierOpens
  <2>5. RV!Leave(d, f)
    BY <2>1, <2>3, <2>4 DEF RV!Leave
  <2> QED
    BY <2>2, <2>5 DEF RV!Next
<1>12. ASSUME BarrierTimesOut(d, f) PROVE [RV!Next]_(RV!rendezvousVars)
  <2>1. Party' = Party
    <3>1. UNCHANGED <<parts, based>>
      BY <1>12 DEF BarrierTimesOut
    <3>2. Elsewhere(d, f) /\ pc'[d][f] = "attach"
      BY <1>12, <1>0, <1>c, GotoGives DEF BarrierTimesOut, PC
    <3> QED
      BY <1>12, <3>1, <3>2, PartySame DEF BarrierTimesOut, Elsewhere
  <2>2. f \in Waiters
    BY <1>12, <1>0 DEF BarrierTimesOut, PhaseInv, PhaseOK, Waiters
  <2>3. passed[d][f] = "in" /\ passed' = [passed EXCEPT ![d][f] = "late"]
    BY <1>12, <1>0, <2>2 DEF BarrierTimesOut, PassInv
  <2>5. RV!LosePatience(d, f)
    BY <2>1, <2>3 DEF RV!LosePatience
  <2> QED
    BY <2>2, <2>5 DEF RV!Next
<1>13. ASSUME AttachNext(d, f) PROVE [RV!Next]_(RV!rendezvousVars)
  <2>1. UNCHANGED <<parts, based, passed>>
    BY <1>13 DEF AttachNext, barrier
  <2>2. pc' = pc
    BY <1>13, <1>0, DidGives DEF AttachNext
  <2>3. Party' = Party
    BY <2>1, <2>2, PartySame
  <2> QED
    BY <2>1, <2>3 DEF RV!rendezvousVars
<1>14. ASSUME Attached(d, f) PROVE [RV!Next]_(RV!rendezvousVars)
  <2>1. UNCHANGED <<parts, based, passed>>
    BY <1>14 DEF Attached, barrier
  <2>2. Elsewhere(d, f) /\ pc'[d][f] # "done" /\ pc[d][f] # "done"
    BY <1>14, <1>0, <1>c, GotoGives DEF Attached, PC
  <2>3. Party' = Party
    BY <2>1, <2>2, PartySame DEF Elsewhere
  <2> QED
    BY <2>1, <2>3 DEF RV!rendezvousVars
<1>15. ASSUME FinishNext(d, f) PROVE [RV!Next]_(RV!rendezvousVars)
  <2>1. UNCHANGED <<parts, based, passed>>
    BY <1>15 DEF FinishNext, barrier
  <2>2. pc' = pc
    BY <1>15, <1>0, DidGives DEF FinishNext
  <2>3. Party' = Party
    BY <2>1, <2>2, PartySame
  <2> QED
    BY <2>1, <2>3 DEF RV!rendezvousVars
<1>16. ASSUME SequenceFails(d, f) PROVE [RV!Next]_(RV!rendezvousVars)
  <2>1. based' = based /\ pc'[d][f] = "done"
    BY <1>16, <1>0, ReturnGives DEF SequenceFails
  <2> QED
    BY <2>1, RefineGiveUp
<1>17. ASSUME JoinNext(d, f) PROVE [RV!Next]_(RV!rendezvousVars)
  <2>1. UNCHANGED <<parts, based, passed>>
    BY <1>17 DEF JoinNext, barrier
  <2>2. pc' = pc
    BY <1>17, <1>0, DidGives DEF JoinNext
  <2>3. Party' = Party
    BY <2>1, <2>2, PartySame
  <2> QED
    BY <2>1, <2>3 DEF RV!rendezvousVars
<1>18. ASSUME FrameDone(d, f) PROVE [RV!Next]_(RV!rendezvousVars)
  <2>1. based' = based /\ pc'[d][f] = "done"
    BY <1>18, <1>0, ReturnGives DEF FrameDone
  <2> QED
    BY <2>1, RefineGiveUp
<1> QED
  BY <1>1, <1>2, <1>3, <1>4, <1>5, <1>6, <1>7, <1>8, <1>9, <1>10, <1>11, <1>12, <1>13, <1>14,
     <1>15, <1>16, <1>17, <1>18 DEF FrameStep

\* Every step of the stack is a step of the rendezvous, or none.
LEMMA RefineStep == IndInv /\ [Next]_vars => [RV!Next]_(RV!rendezvousVars)
<1> SUFFICES ASSUME IndInv, [Next]_vars PROVE [RV!Next]_(RV!rendezvousVars)
  OBVIOUS
<1>1. CASE DeployStack
  BY <1>1, RefineDeploy
<1>2. ASSUME NEW d \in Deploys, NEW f \in Frames, FrameStep(d, f) \/ BarrierTimesOut(d, f)
      PROVE  [RV!Next]_(RV!rendezvousVars)
  BY <1>2, RefineFrame
<1>3. ASSUME NEW d \in Deploys, ReplBarrierOpens(d) PROVE [RV!Next]_(RV!rendezvousVars)
  <2>1. Party' = Party
    BY <1>3, PartySame DEF ReplBarrierOpens
  <2>2. Repl \in Waiters /\ passed[d][Repl] = "in" /\ passed' = [passed EXCEPT ![d][Repl] = "out"]
    BY <1>3 DEF ReplBarrierOpens, Waiters, IndInv, PassInv
  <2>3. RV!Working(d) = {}
    BY <1>3, OpenBarrier DEF ReplBarrierOpens
  <2>4. RV!Leave(d, Repl)
    BY <2>1, <2>2, <2>3 DEF RV!Leave
  <2> QED
    BY <2>2, <2>4 DEF RV!Next
<1>4. ASSUME NEW d \in Deploys, ReplBarrierTimesOut(d) PROVE [RV!Next]_(RV!rendezvousVars)
  <2>1. Party' = Party
    BY <1>4, PartySame DEF ReplBarrierTimesOut
  <2>2. Repl \in Waiters /\ passed[d][Repl] = "in" /\ passed' = [passed EXCEPT ![d][Repl] = "late"]
    BY <1>4 DEF ReplBarrierTimesOut, Waiters, IndInv, PassInv
  <2>4. RV!LosePatience(d, Repl)
    BY <2>1, <2>2 DEF RV!LosePatience
  <2> QED
    BY <2>2, <2>4 DEF RV!Next
<1>5. CASE \/ \E d \in Deploys : ReplNodes(d)
           \/ FinishDeploy \/ Destroy \/ Teardown \/ TeardownIdle \/ UNCHANGED vars
  <2>1. UNCHANGED <<parts, based, passed, pc>>
    BY <1>5 DEF ReplNodes, FinishDeploy, Destroy, Teardown, Torn, TeardownIdle, vars, barrier, flow
  <2> QED
    BY <2>1, PartySame DEF RV!rendezvousVars
<1> QED
  BY <1>1, <1>2, <1>3, <1>4, <1>5 DEF Next, ReplStep, TimeOut

\* replication.go, deployBarrier: the barrier of a deploy is a rendezvous of that deploy's own
\* participants, whatever earlier deploys left behind and whoever fails, times out or is torn down.
THEOREM RefinesRendezvous == Spec => ImplementsRendezvous
<1>1. Init => RV!Init
  BY RefineInit
<1> QED
  BY <1>1, RefineStep, IndInvHolds, PTL DEF Spec, ImplementsRendezvous, RV!Spec

=============================================================================
