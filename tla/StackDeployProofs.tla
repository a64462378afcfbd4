-------------------------- MODULE StackDeployProofs --------------------------
(***************************************************************************)
(* Proofs about StackDeploy for any number of nodes, deploy requests,      *)
(* teardowns and restarts.  IndInv is inductive; its parts are proved one  *)
(* lemma at a time, each with one step per action.                         *)
(***************************************************************************)
EXTENDS StackDeploy, TLAPS

\* Starting a job with a context and a join flag keeps the goroutines' types.
LEMMA StartJobType ==
    ASSUME NEW d \in Deploys, NEW j \in Jobs, NEW c \in Deploys \cup {None, Background},
           NEW b \in BOOLEAN, ProvType, StartJob(d, j, c, b)
    PROVE  ProvType'
<1>1. ppc' \in [Deploys -> [Jobs -> ProvPC]]
  BY DEF ProvType, StartJob, ProvPC
<1>2. pctx' \in [Deploys -> [Jobs -> Deploys \cup {None, Background}]]
  BY DEF ProvType, StartJob
<1>3. pjoin' \in [Deploys -> [Jobs -> BOOLEAN]]
  BY DEF ProvType, StartJob
<1>4. QED
  BY <1>1, <1>2, <1>3 DEF ProvType

\* Every step keeps the types: RegistryInv says which run a teardown waits on.
LEMMA TypeStep == TypeOK /\ RegistryInv /\ [Next]_vars => TypeOK'
<1> SUFFICES ASSUME TypeOK, RegistryInv, [Next]_vars PROVE TypeOK'
  OBVIOUS
<1>jobs. Nodes \subseteq Jobs /\ Tail \in Jobs
  BY DEF Jobs
<1> USE ConstantsAssumption, <1>jobs DEF TypeOK, RegistryInv, db, docker, runs, handlr, provs,
        tears, hist
<1>1. ASSUME NEW d \in Deploys, DeployRequest(d) PROVE TypeOK'
  <2>1. HandlerType'
    BY <1>1 DEF HandlerType, Jobs, HandlerPC, DeployRequest
  <2>2. QED
    BY <1>1, <2>1 DEF DeployRequest, StoreType, DockerType, RunType, ProvType, TeardownType,
            HistoryType
<1>2. ASSUME NEW d \in Deploys, beginDeploy(d) PROVE TypeOK'
  <2>1. RunType'
    BY <1>2 DEF RunType, Jobs, beginDeploy
  <2>2. HandlerType'
    BY <1>2 DEF HandlerType, Jobs, HandlerPC, beginDeploy
  <2>3. QED
    BY <1>2, <2>1, <2>2 DEF beginDeploy, StoreType, DockerType, ProvType, TeardownType,
            HistoryType
<1>3. ASSUME NEW d \in Deploys, NetworkEnsure(d) PROVE TypeOK'
  <2>1. DockerType'
    BY <1>3 DEF DockerType, NetworkEnsure, abortDeploy, Drop
  <2>2. RunType'
    BY <1>3 DEF RunType, Jobs, NetworkEnsure, abortDeploy, Drop
  <2>3. HandlerType'
    BY <1>3 DEF HandlerType, Jobs, HandlerPC, NetworkEnsure, abortDeploy, Drop
  <2>4. QED
    BY <1>3, <2>1, <2>2, <2>3 DEF NetworkEnsure, StoreType, ProvType, TeardownType, HistoryType
<1>4. ASSUME NEW d \in Deploys, ListExisting(d) PROVE TypeOK'
  <2>1. StoreType'
    BY <1>4 DEF StoreType, Row, RowState, ListExisting, reconcileVanished, Listed, deployBuilt,
            DockerType, HandlerType
  <2>2. HandlerType'
    BY <1>4 DEF HandlerType, Jobs, HandlerPC, ListExisting, reconcileVanished, Listed,
            deployBuilt, StoreType, Row, RowState
  <2>3. QED
    BY <1>4, <2>1, <2>2 DEF ListExisting, DockerType, RunType, ProvType, TeardownType, HistoryType
<1>5. ASSUME NEW d \in Deploys, PruneRemoved(d) PROVE TypeOK'
  <2>1. StoreType'
    BY <1>5 DEF StoreType, Row, RowState, PruneRemoved, removeNodeResources, HandlerType
  <2>2. DockerType'
    BY <1>5 DEF DockerType, PruneRemoved, removeNodeResources, HandlerType
  <2>3. HandlerType'
    BY <1>5 DEF HandlerType, Jobs, HandlerPC, PruneRemoved, removeNodeResources
  <2>4. QED
    BY <1>5, <2>1, <2>2, <2>3 DEF PruneRemoved, RunType, ProvType, TeardownType, HistoryType
<1>6. ASSUME NEW d \in Deploys, SpawnNode(d) PROVE TypeOK'
  <2>1. StoreType'
    BY <1>6 DEF StoreType, Row, RowState, SpawnNode, UpsertDeployment, HandlerType
  <2>2. HandlerType'
    BY <1>6 DEF HandlerType, Jobs, HandlerPC, SpawnNode, UpsertDeployment
  <2>3. QED
    BY <1>6, <2>1, <2>2 DEF SpawnNode, DockerType, RunType, ProvType, TeardownType, HistoryType
<1>7. ASSUME NEW d \in Deploys, SpawnTail(d) PROVE TypeOK'
  <2>1. RunType'
    BY <1>7 DEF RunType, Jobs, SpawnTail, StartJob
  <2>2. HandlerType'
    BY <1>7 DEF HandlerType, Jobs, HandlerPC, SpawnTail, StartJob
  <2>3. ProvType'
    <3>1. PICK c \in Deploys \cup {None, Background}, b \in BOOLEAN : StartJob(d, Tail, c, b)
      BY <1>7 DEF SpawnTail, RunType
    <3>2. QED
      BY <3>1, StartJobType
  <2>4. QED
    BY <1>7, <2>1, <2>2, <2>3 DEF SpawnTail, StoreType, DockerType, TeardownType, HistoryType
<1>8. ASSUME NEW d \in Deploys, deployScope(d) PROVE TypeOK'
  <2>1. HandlerType'
    BY <1>8 DEF HandlerType, Jobs, HandlerPC, deployScope, Spawn, StartJob, RunType
  <2>2. ProvType'
    <3>1. CASE UNCHANGED provs
      BY <3>1 DEF ProvType
    <3>2. CASE \E c \in Deploys \cup {None, Background}, b \in BOOLEAN : Spawn(d, c, b)
      <4>1. cur[d] \in Jobs
        BY <1>8 DEF JobInHand, deployScope
      <4>2. PICK c \in Deploys \cup {None, Background}, b \in BOOLEAN : StartJob(d, cur[d], c, b)
        BY <3>2 DEF Spawn
      <4>3. QED
        BY <4>1, <4>2, StartJobType
    <3>3. QED
      BY <1>8, <3>1, <3>2 DEF deployScope, RunType
  <2>3. QED
    BY <1>8, <2>1, <2>2 DEF deployScope, StoreType, DockerType, RunType, TeardownType, HistoryType
<1>9. ASSUME NEW d \in Deploys, deployScopeAdd(d) PROVE TypeOK'
  <2>1. RunType'
    BY <1>9 DEF RunType, deployScopeAdd, JobInHand, JoiningOwnRun
  <2>2. HandlerType'
    BY <1>9 DEF HandlerType, Jobs, HandlerPC, deployScopeAdd, Spawn, StartJob
  <2>3. ProvType'
    BY <1>9 DEF ProvType, Jobs, ProvPC, deployScopeAdd, Spawn, StartJob, RunType, HandlerType
  <2>4. QED
    BY <1>9, <2>1, <2>2, <2>3 DEF deployScopeAdd, StoreType, DockerType, TeardownType, HistoryType
<1>10. ASSUME NEW d \in Deploys, finishDeploy(d) PROVE TypeOK'
  <2>1. StoreType'
    BY <1>10 DEF StoreType, Row, RowState, finishDeploy
  <2>2. HandlerType'
    BY <1>10 DEF HandlerType, Jobs, HandlerPC, finishDeploy
  <2>3. QED
    BY <1>10, <2>1, <2>2 DEF finishDeploy, DockerType, RunType, ProvType, TeardownType,
            HistoryType
<1>11. ASSUME NEW d \in Deploys, ReleaseWait(d) PROVE TypeOK'
  <2>1. RunType'
    BY <1>11 DEF RunType, Jobs, ReleaseWait
  <2>2. HandlerType'
    BY <1>11 DEF HandlerType, Jobs, HandlerPC, ReleaseWait
  <2>3. QED
    BY <1>11, <2>1, <2>2 DEF ReleaseWait, StoreType, DockerType, ProvType, TeardownType,
            HistoryType
<1>12. ASSUME NEW d \in Deploys, ReleaseDrop(d) PROVE TypeOK'
  <2>1. RunType'
    BY <1>12 DEF RunType, Jobs, ReleaseDrop, Drop
  <2>2. HandlerType'
    BY <1>12 DEF HandlerType, Jobs, HandlerPC, ReleaseDrop, Drop
  <2>3. QED
    BY <1>12, <2>1, <2>2 DEF ReleaseDrop, StoreType, DockerType, ProvType, TeardownType,
            HistoryType
<1>13. ASSUME NEW d \in Deploys, TailReturn(d) PROVE TypeOK'
  <2>1. RunType'
    BY <1>13 DEF RunType, Jobs, TailReturn, ProvReturn, ProvType
  <2>2. ProvType'
    BY <1>13 DEF ProvType, Jobs, ProvPC, TailReturn, ProvReturn
  <2>3. QED
    BY <1>13, <2>1, <2>2 DEF TailReturn, StoreType, DockerType, HandlerType, TeardownType,
            HistoryType
<1>14. ASSUME NEW d \in Deploys, NEW n \in Nodes, ProvBegin(d, n) PROVE TypeOK'
  <2>1. StoreType'
    BY <1>14 DEF StoreType, Row, RowState, ProvBegin, SetDeploymentState, ProvGo
  <2>2. RunType'
    BY <1>14 DEF RunType, Jobs, ProvBegin, SetDeploymentState, ProvGo
  <2>3. ProvType'
    BY <1>14 DEF ProvType, Jobs, ProvPC, ProvBegin, SetDeploymentState, ProvGo
  <2>4. QED
    BY <1>14, <2>1, <2>2, <2>3 DEF ProvBegin, DockerType, HandlerType, TeardownType, HistoryType
<1>15. ASSUME NEW d \in Deploys, NEW n \in Nodes, ProvCreate(d, n) PROVE TypeOK'
  <2>1. DockerType'
    BY <1>15 DEF DockerType, ProvCreate, ProvGo
  <2>2. RunType'
    BY <1>15 DEF RunType, Jobs, ProvCreate, ProvGo
  <2>3. ProvType'
    BY <1>15 DEF ProvType, Jobs, ProvPC, ProvCreate, ProvGo
  <2>4. QED
    BY <1>15, <2>1, <2>2, <2>3 DEF ProvCreate, StoreType, HandlerType, TeardownType, HistoryType
<1>16. ASSUME NEW d \in Deploys, NEW n \in Nodes, ProvRecord(d, n) PROVE TypeOK'
  <2>1. StoreType'
    BY <1>16 DEF StoreType, Row, RowState, ProvRecord, UpsertDeployment, ProvGo
  <2>2. RunType'
    BY <1>16 DEF RunType, Jobs, ProvRecord, UpsertDeployment, ProvGo
  <2>3. ProvType'
    BY <1>16 DEF ProvType, Jobs, ProvPC, ProvRecord, UpsertDeployment, ProvGo
  <2>4. QED
    BY <1>16, <2>1, <2>2, <2>3 DEF ProvRecord, DockerType, HandlerType, TeardownType, HistoryType
<1>17. ASSUME NEW d \in Deploys, NEW n \in Nodes, ProvSteps(d, n) PROVE TypeOK'
  <2>1. RunType'
    BY <1>17 DEF RunType, Jobs, ProvSteps, ProvGo
  <2>2. ProvType'
    BY <1>17 DEF ProvType, Jobs, ProvPC, ProvSteps, ProvGo
  <2>3. QED
    BY <1>17, <2>1, <2>2 DEF ProvSteps, StoreType, DockerType, HandlerType, TeardownType,
            HistoryType
<1>18. ASSUME NEW d \in Deploys, NEW n \in Nodes, ProvFinish(d, n) PROVE TypeOK'
  <2>1. StoreType'
    BY <1>18 DEF StoreType, Row, RowState, ProvFinish, SetDeploymentState, ProvReturn
  <2>2. RunType'
    BY <1>18 DEF RunType, Jobs, ProvFinish, SetDeploymentState, ProvReturn
  <2>3. ProvType'
    BY <1>18 DEF ProvType, Jobs, ProvPC, ProvFinish, SetDeploymentState, ProvReturn
  <2>4. QED
    BY <1>18, <2>1, <2>2, <2>3 DEF ProvFinish, DockerType, HandlerType, TeardownType, HistoryType
<1>19. ASSUME NEW d \in Deploys, NEW n \in Nodes, ProvFail(d, n) PROVE TypeOK'
  <2>1. StoreType'
    BY <1>19 DEF StoreType, Row, RowState, ProvFail, SetDeploymentState, ProvReturn
  <2>2. RunType'
    BY <1>19 DEF RunType, Jobs, ProvFail, SetDeploymentState, ProvReturn
  <2>3. ProvType'
    BY <1>19 DEF ProvType, Jobs, ProvPC, ProvFail, SetDeploymentState, ProvReturn
  <2>4. QED
    BY <1>19, <2>1, <2>2, <2>3 DEF ProvFail, DockerType, HandlerType, TeardownType, HistoryType
<1>20. ASSUME NEW t \in Teardowns, TeardownCancel(t) PROVE TypeOK'
  <2>1. RunType'
    BY <1>20 DEF RunType, Jobs, TeardownCancel, Spawning, HandlerType
  <2>2. TeardownType'
    BY <1>20 DEF TeardownType, TeardownPC, TeardownCancel, Spawning, RunType
  <2>3. HistoryType'
    BY <1>20 DEF HistoryType, TeardownCancel, Spawning
  <2>4. QED
    BY <1>20, <2>1, <2>2, <2>3 DEF TeardownCancel, StoreType, DockerType, HandlerType, ProvType
<1>21. ASSUME NEW t \in Teardowns, TeardownWaited(t) PROVE TypeOK'
  <2>1. RunType'
    BY <1>21 DEF RunType, Jobs, TeardownWaited, Drop, TeardownType
  <2>2. TeardownType'
    BY <1>21 DEF TeardownType, TeardownPC, TeardownWaited, Drop
  <2>3. HistoryType'
    BY <1>21 DEF HistoryType, TeardownWaited, WaitingForStarted
  <2>4. QED
    BY <1>21, <2>1, <2>2, <2>3 DEF TeardownWaited, StoreType, DockerType, HandlerType, ProvType
<1>22. ASSUME NEW t \in Teardowns, TeardownList(t) PROVE TypeOK'
  <2>1. TeardownType'
    BY <1>22 DEF TeardownType, TeardownPC, TeardownList, Listed, StoreType, Row, RowState
  <2>2. QED
    BY <1>22, <2>1 DEF TeardownList, StoreType, DockerType, RunType, HandlerType, ProvType,
            HistoryType
<1>23. ASSUME NEW t \in Teardowns, TeardownRemove(t) PROVE TypeOK'
  <2>1. StoreType'
    BY <1>23 DEF StoreType, Row, RowState, TeardownRemove, removeNodeResources, TeardownType
  <2>2. DockerType'
    BY <1>23 DEF DockerType, TeardownRemove, removeNodeResources, TeardownType
  <2>3. TeardownType'
    BY <1>23 DEF TeardownType, TeardownPC, TeardownRemove, removeNodeResources
  <2>4. QED
    BY <1>23, <2>1, <2>2, <2>3 DEF TeardownRemove, RunType, HandlerType, ProvType, HistoryType
<1>24. ASSUME NEW t \in Teardowns, TeardownSweep(t) PROVE TypeOK'
  <2>1. DockerType'
    BY <1>24 DEF DockerType, TeardownSweep
  <2>2. TeardownType'
    BY <1>24 DEF TeardownType, TeardownPC, TeardownSweep
  <2>3. QED
    BY <1>24, <2>1, <2>2 DEF TeardownSweep, StoreType, RunType, HandlerType, ProvType, HistoryType
<1>25. ASSUME NEW t \in Teardowns, TeardownEnd(t) PROVE TypeOK'
  <2>1. StoreType'
    BY <1>25 DEF StoreType, Row, RowState, TeardownEnd
  <2>2. TeardownType'
    BY <1>25 DEF TeardownType, TeardownPC, TeardownEnd
  <2>3. QED
    BY <1>25, <2>1, <2>2 DEF TeardownEnd, DockerType, RunType, HandlerType, ProvType, HistoryType
<1>26. ASSUME Restart PROVE TypeOK'
  <2>1. StoreType'
    BY <1>26 DEF StoreType, Row, RowState, Restart, failInterruptedDeployments, InFlight
  <2>2. RunType'
    BY <1>26 DEF RunType, Jobs, Restart, failInterruptedDeployments, InFlight
  <2>3. HandlerType'
    BY <1>26 DEF HandlerType, Jobs, HandlerPC, Restart, failInterruptedDeployments, InFlight
  <2>4. ProvType'
    BY <1>26 DEF ProvType, Jobs, ProvPC, Restart, failInterruptedDeployments, InFlight
  <2>5. TeardownType'
    BY <1>26 DEF TeardownType, TeardownPC, Restart, failInterruptedDeployments, InFlight
  <2>6. QED
    BY <1>26, <2>1, <2>2, <2>3, <2>4, <2>5 DEF Restart, DockerType, HistoryType
<1>27. CASE UNCHANGED vars
  BY <1>27 DEF vars, StoreType, DockerType, RunType, HandlerType, ProvType, TeardownType,
          HistoryType
<1>28. QED
  BY <1>1, <1>2, <1>3, <1>4, <1>5, <1>6, <1>7, <1>8, <1>9, <1>10, <1>11, <1>12, <1>13,
     <1>14, <1>15, <1>16, <1>17, <1>18, <1>19, <1>20, <1>21, <1>22, <1>23, <1>24, <1>25,
     <1>26, <1>27 DEF Next, HandlerStep, ReleaseStep, ProvStep, TeardownStep

\* The registry facts survive every step.
LEMMA RegistryStep == TypeOK /\ RegistryInv /\ [Next]_vars => RegistryInv'
<1> SUFFICES ASSUME TypeOK /\ RegistryInv, [Next]_vars PROVE RegistryInv'
  OBVIOUS
<1>jobs. Nodes \subseteq Jobs /\ Tail \in Jobs
  BY DEF Jobs
<1> USE ConstantsAssumption, <1>jobs DEF TypeOK, RunType, HandlerType, ProvType, TeardownType,
        HistoryType, RegistryInv, UnstartedIsUnknown, ReleaserAfterHandler, SpawningIsRegistered,
        JobInHand, JoiningOwnRun, NoJobBeforeSpawn, WaitingForStarted, Started, Spawning, Live, db,
        docker, runs, handlr, provs, tears, hist
<1>1. ASSUME NEW d \in Deploys, DeployRequest(d) PROVE RegistryInv'
  BY <1>1 DEF DeployRequest
<1>2. ASSUME NEW d \in Deploys, beginDeploy(d) PROVE RegistryInv'
  <2>1. UnstartedIsUnknown'
    BY <1>2 DEF beginDeploy
  <2>2. ReleaserAfterHandler'
    BY <1>2 DEF beginDeploy
  <2>3. SpawningIsRegistered'
    BY <1>2 DEF beginDeploy
  <2>4. JobInHand'
    BY <1>2 DEF beginDeploy
  <2>5. JoiningOwnRun'
    BY <1>2 DEF beginDeploy
  <2>6. NoJobBeforeSpawn'
    <3>1. ASSUME NEW e \in Deploys, hpc'[e] \in {"idle", "begin", "network", "list", "prune"}
          PROVE hpc[e] \in {"idle", "begin", "network", "list", "prune"} /\ ppc'[e] = ppc[e]
      BY <1>2, <3>1 DEF beginDeploy
    <3>2. QED
      BY <3>1
  <2>7. WaitingForStarted'
    BY <1>2 DEF beginDeploy
  <2>8. QED
    BY <2>1, <2>2, <2>3, <2>4, <2>5, <2>6, <2>7
<1>3. ASSUME NEW d \in Deploys, NetworkEnsure(d) PROVE RegistryInv'
  <2>1. CASE hpc' = [hpc EXCEPT ![d] = "list"] /\ UNCHANGED <<registered, cancelled>>
    BY <1>3, <2>1 DEF NetworkEnsure, abortDeploy, Drop
  <2>2. CASE hpc' = [hpc EXCEPT ![d] = "done"] /\ abortDeploy(d)
    BY <1>3, <2>2 DEF NetworkEnsure, abortDeploy, Drop
  <2>3. QED
    BY <1>3, <2>1, <2>2 DEF NetworkEnsure
<1>4. ASSUME NEW d \in Deploys, ListExisting(d) PROVE RegistryInv'
  BY <1>4 DEF ListExisting, reconcileVanished, Listed, deployBuilt
<1>5. ASSUME NEW d \in Deploys, PruneRemoved(d) PROVE RegistryInv'
  <2>1. CASE UNCHANGED hpc
    BY <1>5, <2>1 DEF PruneRemoved, removeNodeResources
  <2>2. CASE hpc' = [hpc EXCEPT ![d] = "spawn"]
    BY <1>5, <2>2 DEF PruneRemoved, removeNodeResources
  <2>3. QED
    BY <1>5, <2>1, <2>2 DEF PruneRemoved
<1>6. ASSUME NEW d \in Deploys, SpawnNode(d) PROVE RegistryInv'
  BY <1>6 DEF SpawnNode, UpsertDeployment
<1>7. ASSUME NEW d \in Deploys, SpawnTail(d) PROVE RegistryInv'
  BY <1>7 DEF SpawnTail, StartJob
<1>8. ASSUME NEW d \in Deploys, deployScope(d) PROVE RegistryInv'
  <2>1. CASE registered # None /\ registered \notin cancelled
    <3>1. hpc' = [hpc EXCEPT ![d] = "add"] /\ joining' = [joining EXCEPT ![d] = registered]
      BY <1>8, <2>1 DEF deployScope
    <3>2. UNCHANGED <<registered, cancelled, cur, rel, ppc, tpc, trun, overtaken>> /\ hpc[d] = "scope"
      BY <1>8, <2>1 DEF deployScope
    <3>3. JoiningOwnRun'
      BY <2>1, <3>1, <3>2
    <3>4. NoJobBeforeSpawn'
      BY <3>1, <3>2
    <3>5. QED
      BY <3>1, <3>2, <3>3, <3>4
  <2>2. CASE registered = None \/ registered \in cancelled
    <3>1. hpc' = [hpc EXCEPT ![d] = "spawn"]
      BY <1>8, <2>2 DEF deployScope, Spawn, StartJob
    <3>2. UNCHANGED <<registered, cancelled, joining, rel, tpc, trun, overtaken>> /\ hpc[d] = "scope"
      BY <1>8, <2>2 DEF deployScope
    <3>3. ASSUME NEW e \in Deploys, e # d PROVE ppc'[e] = ppc[e] /\ cur'[e] = cur[e]
      BY <1>8, <2>2, <3>3 DEF deployScope, Spawn, StartJob
    <3>4. JobInHand' /\ JoiningOwnRun'
      BY <3>1, <3>2, <3>3
    <3>5. NoJobBeforeSpawn'
      BY <3>1, <3>2, <3>3
    <3>6. QED
      BY <3>1, <3>2, <3>4, <3>5
  <2>3. QED
    BY <2>1, <2>2
<1>9. ASSUME NEW d \in Deploys, deployScopeAdd(d) PROVE RegistryInv'
  BY <1>9 DEF deployScopeAdd, Spawn, StartJob
<1>10. ASSUME NEW d \in Deploys, finishDeploy(d) PROVE RegistryInv'
  BY <1>10 DEF finishDeploy
<1>11. ASSUME NEW d \in Deploys, ReleaseWait(d) PROVE RegistryInv'
  BY <1>11 DEF ReleaseWait
<1>12. ASSUME NEW d \in Deploys, ReleaseDrop(d) PROVE RegistryInv'
  BY <1>12 DEF ReleaseDrop, Drop
<1>13. ASSUME NEW d \in Deploys, TailReturn(d) PROVE RegistryInv'
  BY <1>13 DEF TailReturn, ProvReturn
<1>14. ASSUME NEW d \in Deploys, NEW n \in Nodes, ProvBegin(d, n) PROVE RegistryInv'
  BY <1>14 DEF ProvBegin, SetDeploymentState, ProvGo
<1>15. ASSUME NEW d \in Deploys, NEW n \in Nodes, ProvCreate(d, n) PROVE RegistryInv'
  BY <1>15 DEF ProvCreate, ProvGo
<1>16. ASSUME NEW d \in Deploys, NEW n \in Nodes, ProvRecord(d, n) PROVE RegistryInv'
  BY <1>16 DEF ProvRecord, UpsertDeployment, ProvGo
<1>17. ASSUME NEW d \in Deploys, NEW n \in Nodes, ProvSteps(d, n) PROVE RegistryInv'
  BY <1>17 DEF ProvSteps, ProvGo
<1>18. ASSUME NEW d \in Deploys, NEW n \in Nodes, ProvFinish(d, n) PROVE RegistryInv'
  BY <1>18 DEF ProvFinish, SetDeploymentState, ProvReturn
<1>19. ASSUME NEW d \in Deploys, NEW n \in Nodes, ProvFail(d, n) PROVE RegistryInv'
  BY <1>19 DEF ProvFail, SetDeploymentState, ProvReturn
<1>20. ASSUME NEW t \in Teardowns, TeardownCancel(t) PROVE RegistryInv'
  BY <1>20 DEF TeardownCancel, Spawning
<1>21. ASSUME NEW t \in Teardowns, TeardownWaited(t) PROVE RegistryInv'
  BY <1>21 DEF TeardownWaited, Drop
<1>22. ASSUME NEW t \in Teardowns, TeardownList(t) PROVE RegistryInv'
  BY <1>22 DEF TeardownList, Listed
<1>23. ASSUME NEW t \in Teardowns, TeardownRemove(t) PROVE RegistryInv'
  BY <1>23 DEF TeardownRemove, removeNodeResources
<1>24. ASSUME NEW t \in Teardowns, TeardownSweep(t) PROVE RegistryInv'
  BY <1>24 DEF TeardownSweep
<1>25. ASSUME NEW t \in Teardowns, TeardownEnd(t) PROVE RegistryInv'
  BY <1>25 DEF TeardownEnd
<1>26. ASSUME Restart PROVE RegistryInv'
  BY <1>26 DEF Restart, failInterruptedDeployments, InFlight
<1>27. CASE UNCHANGED vars
  BY <1>27 DEF vars
<1>28. QED
  BY <1>1, <1>2, <1>3, <1>4, <1>5, <1>6, <1>7, <1>8, <1>9, <1>10, <1>11, <1>12, <1>13,
     <1>14, <1>15, <1>16, <1>17, <1>18, <1>19, <1>20, <1>21, <1>22, <1>23, <1>24, <1>25,
     <1>26, <1>27 DEF Next, HandlerStep, ReleaseStep, ProvStep, TeardownStep

\* The WaitGroup facts survive every step, given the registry's.
LEMMA ScopeStep == TypeOK /\ RegistryInv /\ ScopeInv /\ [Next]_vars => ScopeInv'
<1> SUFFICES ASSUME TypeOK /\ RegistryInv /\ ScopeInv, [Next]_vars PROVE ScopeInv'
  OBVIOUS
<1>jobs. Nodes \subseteq Jobs /\ Tail \in Jobs
  BY DEF Jobs
<1> USE ConstantsAssumption, <1>jobs DEF TypeOK, RunType, HandlerType, ProvType, RegistryInv,
        UnstartedIsUnknown, ReleaserAfterHandler, SpawningIsRegistered, JobInHand, JoiningOwnRun,
        NoJobBeforeSpawn, WaitingForStarted, ScopeInv, JoinedOwnRun, JoinedIsCounted, LiveIsRegistered,
        ReleasedIsOver, Started, Spawning, Live, Clean, db, docker, runs, handlr, provs, tears, hist
<1>1. ASSUME NEW d \in Deploys, DeployRequest(d) PROVE ScopeInv'
  BY <1>1 DEF DeployRequest
<1>2. ASSUME NEW d \in Deploys, beginDeploy(d) PROVE ScopeInv'
  BY <1>2 DEF beginDeploy
<1>3. ASSUME NEW d \in Deploys, NetworkEnsure(d) PROVE ScopeInv'
  BY <1>3 DEF NetworkEnsure, abortDeploy, Drop
<1>4. ASSUME NEW d \in Deploys, ListExisting(d) PROVE ScopeInv'
  BY <1>4 DEF ListExisting, reconcileVanished, Listed, deployBuilt
<1>5. ASSUME NEW d \in Deploys, PruneRemoved(d) PROVE ScopeInv'
  BY <1>5 DEF PruneRemoved, removeNodeResources
<1>6. ASSUME NEW d \in Deploys, SpawnNode(d) PROVE ScopeInv'
  BY <1>6 DEF SpawnNode, UpsertDeployment
<1>7. ASSUME NEW d \in Deploys, SpawnTail(d) PROVE ScopeInv'
  <2>1. /\ d \notin overtaken => registered = d /\ d \notin cancelled
        /\ rel[d] = "none"
    BY <1>7 DEF SpawnTail, StartJob
  <2>2. ASSUME NEW e \in Deploys, NEW j \in Jobs, e # d \/ j # Tail
        PROVE ppc'[e][j] = ppc[e][j] /\ pctx'[e][j] = pctx[e][j] /\ pjoin'[e][j] = pjoin[e][j]
    BY <1>7, <2>2 DEF SpawnTail, StartJob
  <2>3. \A r \in Deploys : wg[r] \subseteq wg'[r]
    <3>1. CASE UNCHANGED wg
      BY <3>1
    <3>2. CASE wg' = [wg EXCEPT ![registered] = wg[registered] \cup {<<d, Tail>>}]
      <4>1. ASSUME NEW r \in Deploys PROVE wg[r] \subseteq wg'[r]
        BY <3>2, <4>1
      <4>2. QED
        BY <4>1
    <3>3. QED
      BY <1>7, <3>1, <3>2 DEF SpawnTail
  <2>4. d \notin overtaken => pjoin'[d][Tail] /\ pctx'[d][Tail] = d
    BY <1>7, <2>1 DEF SpawnTail, StartJob
  <2>5. pjoin'[d][Tail] => pctx'[d][Tail] \in Deploys /\ <<d, Tail>> \in wg'[pctx'[d][Tail]]
    <3>1. CASE registered # None /\ registered \notin cancelled
      BY <1>7, <3>1 DEF SpawnTail, StartJob
    <3>2. CASE registered = None \/ registered \in cancelled
      BY <1>7, <3>2 DEF SpawnTail, StartJob
    <3>3. QED
      BY <3>1, <3>2
  <2>6. UNCHANGED <<registered, rel, overtaken, timedOut>>
    BY <1>7 DEF SpawnTail, StartJob
  <2>7. ASSUME NEW e \in Deploys, NEW j \in Jobs, Live(e, j)'
        PROVE /\ e \notin overtaken => pjoin'[e][j] /\ pctx'[e][j] = e
              /\ pjoin'[e][j] => pctx'[e][j] \in Deploys /\ <<e, j>> \in wg'[pctx'[e][j]]
              /\ Clean(e) => registered = e /\ rel[e] \notin {"drop", "done"}
    <3>1. CASE e = d /\ j = Tail
      BY <2>1, <2>4, <2>5, <3>1
    <3>2. CASE e # d \/ j # Tail
      BY <2>2, <2>3, <2>7, <3>2
    <3>3. QED
      BY <3>1, <3>2
  <2>8. QED
    BY <2>6, <2>7
<1>8. ASSUME NEW d \in Deploys, deployScope(d) PROVE ScopeInv'
  <2>1. CASE registered # None /\ registered \notin cancelled
    BY <1>8, <2>1 DEF deployScope
  <2>2. CASE registered = None \/ registered \in cancelled
    <3>1. d \in overtaken
      BY <1>8, <2>2 DEF deployScope
    <3>2. ASSUME NEW e \in Deploys, NEW j \in Jobs, e # d \/ j # cur[d]
          PROVE ppc'[e][j] = ppc[e][j] /\ pctx'[e][j] = pctx[e][j] /\ pjoin'[e][j] = pjoin[e][j]
      BY <1>8, <2>2, <3>2 DEF deployScope, Spawn, StartJob
    <3>3. cur[d] \in Jobs /\ ~pjoin'[d][cur[d]]
      BY <1>8, <2>2 DEF deployScope, Spawn, StartJob
    <3>4. UNCHANGED <<registered, wg, rel, overtaken, timedOut>>
      BY <1>8 DEF deployScope
    <3>5. ASSUME NEW e \in Deploys, NEW j \in Jobs, Live(e, j)'
          PROVE /\ e \notin overtaken => pjoin'[e][j] /\ pctx'[e][j] = e
                /\ pjoin'[e][j] => pctx'[e][j] \in Deploys /\ <<e, j>> \in wg[pctx'[e][j]]
                /\ Clean(e) => registered = e /\ rel[e] \notin {"drop", "done"}
      <4>1. CASE e = d /\ j = cur[d]
        BY <3>1, <3>3, <4>1
      <4>2. CASE e # d \/ j # cur[d]
        BY <3>2, <3>5, <4>2
      <4>3. QED
        BY <4>1, <4>2
    <3>6. QED
      BY <3>4, <3>5
  <2>3. QED
    BY <2>1, <2>2
<1>9. ASSUME NEW d \in Deploys, deployScopeAdd(d) PROVE ScopeInv'
  BY <1>9 DEF deployScopeAdd, Spawn, StartJob
<1>10. ASSUME NEW d \in Deploys, finishDeploy(d) PROVE ScopeInv'
  BY <1>10 DEF finishDeploy
<1>11. ASSUME NEW d \in Deploys, ReleaseWait(d) PROVE ScopeInv'
  <2>1. JoinedOwnRun'
    BY <1>11 DEF ReleaseWait
  <2>2. JoinedIsCounted'
    BY <1>11 DEF ReleaseWait
  <2>3. LiveIsRegistered'
    BY <1>11 DEF ReleaseWait
  <2>4. ReleasedIsOver'
    <3>1. ASSUME NEW j \in Jobs, Live(d, j), d \notin overtaken PROVE <<d, j>> \in wg[d]
      BY <3>1
    <3>2. ASSUME NEW e \in Deploys, e # d PROVE rel'[e] = rel[e]
      BY <1>11, <3>2 DEF ReleaseWait
    <3>3. QED
      BY <1>11, <3>1, <3>2 DEF ReleaseWait
  <2>5. QED
    BY <2>1, <2>2, <2>3, <2>4
<1>12. ASSUME NEW d \in Deploys, ReleaseDrop(d) PROVE ScopeInv'
  BY <1>12 DEF ReleaseDrop, Drop
<1>13. ASSUME NEW d \in Deploys, TailReturn(d) PROVE ScopeInv'
  BY <1>13 DEF TailReturn, ProvReturn
<1>14. ASSUME NEW d \in Deploys, NEW n \in Nodes, ProvBegin(d, n) PROVE ScopeInv'
  BY <1>14 DEF ProvBegin, SetDeploymentState, ProvGo
<1>15. ASSUME NEW d \in Deploys, NEW n \in Nodes, ProvCreate(d, n) PROVE ScopeInv'
  BY <1>15 DEF ProvCreate, ProvGo
<1>16. ASSUME NEW d \in Deploys, NEW n \in Nodes, ProvRecord(d, n) PROVE ScopeInv'
  BY <1>16 DEF ProvRecord, UpsertDeployment, ProvGo
<1>17. ASSUME NEW d \in Deploys, NEW n \in Nodes, ProvSteps(d, n) PROVE ScopeInv'
  BY <1>17 DEF ProvSteps, ProvGo
<1>18. ASSUME NEW d \in Deploys, NEW n \in Nodes, ProvFinish(d, n) PROVE ScopeInv'
  BY <1>18 DEF ProvFinish, SetDeploymentState, ProvReturn
<1>19. ASSUME NEW d \in Deploys, NEW n \in Nodes, ProvFail(d, n) PROVE ScopeInv'
  BY <1>19 DEF ProvFail, SetDeploymentState, ProvReturn
<1>20. ASSUME NEW t \in Teardowns, TeardownCancel(t) PROVE ScopeInv'
  BY <1>20 DEF TeardownCancel, Spawning
<1>21. ASSUME NEW t \in Teardowns, TeardownWaited(t) PROVE ScopeInv'
  <2>1. trun[t] \in Deploys
    BY <1>21 DEF TeardownWaited
  <2>2. ASSUME trun[t] \notin overtaken, wg[trun[t]] = {} PROVE \A j \in Jobs : ~Live(trun[t], j)
    BY <2>1, <2>2
  <2>3. CASE wg[trun[t]] = {}
    BY <1>21, <2>1, <2>2, <2>3 DEF TeardownWaited, Drop
  <2>4. CASE wg[trun[t]] # {}
    BY <1>21, <2>1, <2>4 DEF TeardownWaited, Drop
  <2>5. QED
    BY <2>3, <2>4
<1>22. ASSUME NEW t \in Teardowns, TeardownList(t) PROVE ScopeInv'
  BY <1>22 DEF TeardownList, Listed
<1>23. ASSUME NEW t \in Teardowns, TeardownRemove(t) PROVE ScopeInv'
  BY <1>23 DEF TeardownRemove, removeNodeResources
<1>24. ASSUME NEW t \in Teardowns, TeardownSweep(t) PROVE ScopeInv'
  BY <1>24 DEF TeardownSweep
<1>25. ASSUME NEW t \in Teardowns, TeardownEnd(t) PROVE ScopeInv'
  BY <1>25 DEF TeardownEnd
<1>26. ASSUME Restart PROVE ScopeInv'
  BY <1>26 DEF Restart, failInterruptedDeployments, InFlight
<1>27. CASE UNCHANGED vars
  BY <1>27 DEF vars
<1>28. QED
  BY <1>1, <1>2, <1>3, <1>4, <1>5, <1>6, <1>7, <1>8, <1>9, <1>10, <1>11, <1>12, <1>13,
     <1>14, <1>15, <1>16, <1>17, <1>18, <1>19, <1>20, <1>21, <1>22, <1>23, <1>24, <1>25,
     <1>26, <1>27 DEF Next, HandlerStep, ReleaseStep, ProvStep, TeardownStep

\* A deploy that a teardown covers and that stayed clean is over once the teardown has waited.
LEMMA CoverStep == TypeOK /\ RegistryInv /\ ScopeInv /\ CoverInv /\ [Next]_vars => CoverInv'
<1> SUFFICES ASSUME TypeOK /\ RegistryInv /\ ScopeInv /\ CoverInv, [Next]_vars PROVE CoverInv'
  OBVIOUS
<1>jobs. Nodes \subseteq Jobs /\ Tail \in Jobs
  BY DEF Jobs
<1> USE ConstantsAssumption, <1>jobs DEF TypeOK, HandlerType, ProvType, TeardownType,
        HistoryType, RegistryInv, UnstartedIsUnknown, ReleaserAfterHandler, SpawningIsRegistered,
        JobInHand, JoiningOwnRun, NoJobBeforeSpawn, WaitingForStarted, ScopeInv, JoinedOwnRun,
        JoinedIsCounted, LiveIsRegistered, ReleasedIsOver, CoverInv, CoverOf, Started, Spawning, Live,
        Clean, db, docker, runs, handlr, provs, tears, hist
<1>1. ASSUME NEW d \in Deploys, DeployRequest(d) PROVE CoverInv'
  BY <1>1 DEF DeployRequest
<1>2. ASSUME NEW d \in Deploys, beginDeploy(d) PROVE CoverInv'
  BY <1>2 DEF beginDeploy
<1>3. ASSUME NEW d \in Deploys, NetworkEnsure(d) PROVE CoverInv'
  BY <1>3 DEF NetworkEnsure, abortDeploy, Drop
<1>4. ASSUME NEW d \in Deploys, ListExisting(d) PROVE CoverInv'
  BY <1>4 DEF ListExisting, reconcileVanished, Listed, deployBuilt
<1>5. ASSUME NEW d \in Deploys, PruneRemoved(d) PROVE CoverInv'
  BY <1>5 DEF PruneRemoved, removeNodeResources
<1>6. ASSUME NEW d \in Deploys, SpawnNode(d) PROVE CoverInv'
  BY <1>6 DEF SpawnNode, UpsertDeployment
<1>7. ASSUME NEW d \in Deploys, SpawnTail(d) PROVE CoverInv'
  BY <1>7 DEF SpawnTail, StartJob
<1>8. ASSUME NEW d \in Deploys, deployScope(d) PROVE CoverInv'
  BY <1>8 DEF deployScope, Spawn, StartJob
<1>9. ASSUME NEW d \in Deploys, deployScopeAdd(d) PROVE CoverInv'
  BY <1>9 DEF deployScopeAdd, Spawn, StartJob
<1>10. ASSUME NEW d \in Deploys, finishDeploy(d) PROVE CoverInv'
  BY <1>10 DEF finishDeploy
<1>11. ASSUME NEW d \in Deploys, ReleaseWait(d) PROVE CoverInv'
  BY <1>11 DEF ReleaseWait
<1>12. ASSUME NEW d \in Deploys, ReleaseDrop(d) PROVE CoverInv'
  BY <1>12 DEF ReleaseDrop, Drop
<1>13. ASSUME NEW d \in Deploys, TailReturn(d) PROVE CoverInv'
  BY <1>13 DEF TailReturn, ProvReturn
<1>14. ASSUME NEW d \in Deploys, NEW n \in Nodes, ProvBegin(d, n) PROVE CoverInv'
  BY <1>14 DEF ProvBegin, SetDeploymentState, ProvGo
<1>15. ASSUME NEW d \in Deploys, NEW n \in Nodes, ProvCreate(d, n) PROVE CoverInv'
  BY <1>15 DEF ProvCreate, ProvGo
<1>16. ASSUME NEW d \in Deploys, NEW n \in Nodes, ProvRecord(d, n) PROVE CoverInv'
  BY <1>16 DEF ProvRecord, UpsertDeployment, ProvGo
<1>17. ASSUME NEW d \in Deploys, NEW n \in Nodes, ProvSteps(d, n) PROVE CoverInv'
  BY <1>17 DEF ProvSteps, ProvGo
<1>18. ASSUME NEW d \in Deploys, NEW n \in Nodes, ProvFinish(d, n) PROVE CoverInv'
  BY <1>18 DEF ProvFinish, SetDeploymentState, ProvReturn
<1>19. ASSUME NEW d \in Deploys, NEW n \in Nodes, ProvFail(d, n) PROVE CoverInv'
  BY <1>19 DEF ProvFail, SetDeploymentState, ProvReturn
<1>20. ASSUME NEW t \in Teardowns, TeardownCancel(t) PROVE CoverInv'
  <2>1. ASSUME NEW s \in Teardowns, s # t PROVE CoverOf(s)'
    BY <1>20, <2>1 DEF TeardownCancel
  <2>2. CoverOf(t)'
    <3>1. SUFFICES ASSUME NEW d \in Deploys, Started(d), Clean(d)'
                   PROVE /\ hpc[d] = "done"
                         /\ \A j \in Jobs : Live(d, j) => tpc'[t] = "wait" /\ trun'[t] = d
      BY <1>20 DEF TeardownCancel
    <3>2. ~Spawning(d)
      BY <1>20, <3>1 DEF TeardownCancel
    <3>3. hpc[d] = "done"
      BY <3>1, <3>2 DEF HandlerPC
    <3>4. ASSUME NEW j \in Jobs, Live(d, j) PROVE registered = d
      BY <1>20, <3>1, <3>4 DEF TeardownCancel
    <3>5. QED
      BY <1>20, <3>3, <3>4 DEF TeardownCancel
  <2>3. QED
    BY <2>1, <2>2
<1>21. ASSUME NEW t \in Teardowns, TeardownWaited(t) PROVE CoverInv'
  <2>1. trun[t] \in Deploys
    BY <1>21 DEF TeardownWaited
  <2>2. ASSUME NEW j \in Jobs, Live(trun[t], j), trun[t] \notin overtaken PROVE wg[trun[t]] # {}
    <3>1. <<trun[t], j>> \in wg[trun[t]]
      BY <2>1, <2>2
    <3>2. QED
      BY <3>1
  <2>3. ASSUME NEW s \in Teardowns, s # t PROVE CoverOf(s)'
    BY <1>21, <2>3 DEF TeardownWaited
  <2>4. UNCHANGED <<hpc, ppc, covered, overtaken>> /\ timedOut \subseteq timedOut' /\ tpc[t] = "wait"
    BY <1>21 DEF TeardownWaited
  <2>5. ASSUME trun[t] \notin timedOut' PROVE wg[trun[t]] = {}
    BY <1>21, <2>5 DEF TeardownWaited
  <2>6. ASSUME NEW d \in covered[t], Clean(d)' PROVE hpc[d] = "done" /\ \A j \in Jobs : ~Live(d, j)
    <3>1. Clean(d)
      BY <2>4, <2>6
    <3>2. d # trun[t] => \A j \in Jobs : ~Live(d, j)
      BY <2>4, <2>6, <3>1
    <3>3. d = trun[t] => \A j \in Jobs : ~Live(d, j)
      <4>1. SUFFICES ASSUME d = trun[t], NEW j \in Jobs, Live(d, j) PROVE FALSE
        OBVIOUS
      <4>2. wg[trun[t]] = {}
        BY <2>5, <2>6, <4>1
      <4>3. QED
        BY <2>2, <3>1, <4>1, <4>2
    <3>4. QED
      BY <2>4, <2>6, <3>1, <3>2, <3>3
  <2>7. CoverOf(t)'
    BY <2>4, <2>6
  <2>8. QED
    BY <2>3, <2>7
<1>22. ASSUME NEW t \in Teardowns, TeardownList(t) PROVE CoverInv'
  BY <1>22 DEF TeardownList, Listed
<1>23. ASSUME NEW t \in Teardowns, TeardownRemove(t) PROVE CoverInv'
  <2>1. CASE UNCHANGED tpc
    BY <1>23, <2>1 DEF TeardownRemove, removeNodeResources
  <2>2. CASE tpc' = [tpc EXCEPT ![t] = "sweep"]
    BY <1>23, <2>2 DEF TeardownRemove, removeNodeResources
  <2>3. QED
    BY <1>23, <2>1, <2>2 DEF TeardownRemove
<1>24. ASSUME NEW t \in Teardowns, TeardownSweep(t) PROVE CoverInv'
  BY <1>24 DEF TeardownSweep
<1>25. ASSUME NEW t \in Teardowns, TeardownEnd(t) PROVE CoverInv'
  BY <1>25 DEF TeardownEnd
<1>26. ASSUME Restart PROVE CoverInv'
  BY <1>26 DEF Restart, failInterruptedDeployments, InFlight
<1>27. CASE UNCHANGED vars
  BY <1>27 DEF vars
<1>28. QED
  BY <1>1, <1>2, <1>3, <1>4, <1>5, <1>6, <1>7, <1>8, <1>9, <1>10, <1>11, <1>12, <1>13,
     <1>14, <1>15, <1>16, <1>17, <1>18, <1>19, <1>20, <1>21, <1>22, <1>23, <1>24, <1>25,
     <1>26, <1>27 DEF Next, HandlerStep, ReleaseStep, ProvStep, TeardownStep

\* A row is only ever upserted by the registered deploy or by one that is not clean.
LEMMA RowStep == TypeOK /\ RegistryInv /\ ScopeInv /\ RowInv /\ [Next]_vars => RowInv'
<1> SUFFICES ASSUME TypeOK /\ RegistryInv /\ ScopeInv /\ RowInv, [Next]_vars PROVE RowInv'
  OBVIOUS
<1>jobs. Nodes \subseteq Jobs /\ Tail \in Jobs
  BY DEF Jobs
<1> USE ConstantsAssumption, <1>jobs DEF TypeOK, StoreType, HandlerType, ProvType, RegistryInv,
        UnstartedIsUnknown, ReleaserAfterHandler, SpawningIsRegistered, JobInHand, JoiningOwnRun,
        NoJobBeforeSpawn, WaitingForStarted, ScopeInv, JoinedOwnRun, JoinedIsCounted, LiveIsRegistered,
        ReleasedIsOver, RowInv, NoStackNoRow, JobRow, RowHasOneWriter, Spawning, Live, Clean, db,
        docker, runs, handlr, provs, tears, hist
<1>1. ASSUME NEW d \in Deploys, DeployRequest(d) PROVE RowInv'
  BY <1>1 DEF DeployRequest
<1>2. ASSUME NEW d \in Deploys, beginDeploy(d) PROVE RowInv'
  BY <1>2 DEF beginDeploy
<1>3. ASSUME NEW d \in Deploys, NetworkEnsure(d) PROVE RowInv'
  BY <1>3 DEF NetworkEnsure, abortDeploy, Drop
<1>4. ASSUME NEW d \in Deploys, ListExisting(d) PROVE RowInv'
  BY <1>4 DEF ListExisting, reconcileVanished, Listed, deployBuilt
<1>5. ASSUME NEW d \in Deploys, PruneRemoved(d) PROVE RowInv'
  BY <1>5 DEF PruneRemoved, removeNodeResources
<1>6. ASSUME NEW d \in Deploys, SpawnNode(d) PROVE RowInv'
  <2>1. CASE stack = "gone"
    BY <1>6, <2>1 DEF SpawnNode, UpsertDeployment
  <2>2. CASE stack # "gone"
    <3>1. PICK n \in todo[d] : /\ UpsertDeployment(n, "pending", None, d)
                              /\ cur' = [cur EXCEPT ![d] = n]
      BY <1>6 DEF SpawnNode
    <3>2. n \in Nodes /\ rowBy' = [rowBy EXCEPT ![n] = d]
      BY <2>2, <3>1 DEF UpsertDeployment
    <3>3. ASSUME NEW e \in Deploys, Clean(e), Clean(d), registered = e PROVE e = d
      BY <1>6, <3>3 DEF SpawnNode
    <3>4. QED
      BY <1>6, <2>2, <3>1, <3>2, <3>3 DEF SpawnNode, UpsertDeployment
  <2>3. QED
    BY <2>1, <2>2
<1>7. ASSUME NEW d \in Deploys, SpawnTail(d) PROVE RowInv'
  BY <1>7 DEF SpawnTail, StartJob
<1>8. ASSUME NEW d \in Deploys, deployScope(d) PROVE RowInv'
  <2>1. NoStackNoRow'
    BY <1>8 DEF deployScope
  <2>2. RowHasOneWriter'
    <3>1. ASSUME NEW e \in Deploys, NEW n \in Nodes, Live(e, n)', ~Live(e, n) PROVE e = d /\ n = cur[d]
      BY <1>8, <3>1 DEF deployScope, Spawn, StartJob
    <3>2. QED
      BY <1>8, <3>1 DEF deployScope
  <2>3. JobRow'
    <3>1. ASSUME NEW e \in Deploys, hpc'[e] \in {"scope", "add"}
          PROVE hpc[e] \in {"scope", "add"} /\ cur'[e] = cur[e]
      BY <1>8, <3>1 DEF deployScope, Spawn, StartJob
    <3>2. QED
      BY <1>8, <3>1 DEF deployScope
  <2>4. QED
    BY <2>1, <2>2, <2>3
<1>9. ASSUME NEW d \in Deploys, deployScopeAdd(d) PROVE RowInv'
  BY <1>9 DEF deployScopeAdd, Spawn, StartJob
<1>10. ASSUME NEW d \in Deploys, finishDeploy(d) PROVE RowInv'
  BY <1>10 DEF finishDeploy
<1>11. ASSUME NEW d \in Deploys, ReleaseWait(d) PROVE RowInv'
  BY <1>11 DEF ReleaseWait
<1>12. ASSUME NEW d \in Deploys, ReleaseDrop(d) PROVE RowInv'
  BY <1>12 DEF ReleaseDrop, Drop
<1>13. ASSUME NEW d \in Deploys, TailReturn(d) PROVE RowInv'
  BY <1>13 DEF TailReturn, ProvReturn
<1>14. ASSUME NEW d \in Deploys, NEW n \in Nodes, ProvBegin(d, n) PROVE RowInv'
  BY <1>14 DEF ProvBegin, SetDeploymentState, ProvGo
<1>15. ASSUME NEW d \in Deploys, NEW n \in Nodes, ProvCreate(d, n) PROVE RowInv'
  BY <1>15 DEF ProvCreate, ProvGo
<1>16. ASSUME NEW d \in Deploys, NEW n \in Nodes, ProvRecord(d, n) PROVE RowInv'
  <2>1. CASE stack = "gone"
    BY <1>16, <2>1 DEF ProvRecord, UpsertDeployment, ProvGo
  <2>2. CASE stack # "gone"
    <3>1. rowBy' = [rowBy EXCEPT ![n] = d] /\ row' = [row EXCEPT ![n] = [state |-> "provisioning", cid |-> d]]
      BY <1>16, <2>2 DEF ProvRecord, UpsertDeployment
    <3>2. Live(d, n)
      BY <1>16 DEF ProvRecord
    <3>3. ASSUME NEW e \in Deploys, Clean(e), Clean(d), registered = e PROVE e = d
      BY <3>2, <3>3
    <3>4. QED
      BY <1>16, <2>2, <3>1, <3>2, <3>3 DEF ProvRecord, ProvGo
  <2>3. QED
    BY <2>1, <2>2
<1>17. ASSUME NEW d \in Deploys, NEW n \in Nodes, ProvSteps(d, n) PROVE RowInv'
  BY <1>17 DEF ProvSteps, ProvGo
<1>18. ASSUME NEW d \in Deploys, NEW n \in Nodes, ProvFinish(d, n) PROVE RowInv'
  BY <1>18 DEF ProvFinish, SetDeploymentState, ProvReturn
<1>19. ASSUME NEW d \in Deploys, NEW n \in Nodes, ProvFail(d, n) PROVE RowInv'
  BY <1>19 DEF ProvFail, SetDeploymentState, ProvReturn
<1>20. ASSUME NEW t \in Teardowns, TeardownCancel(t) PROVE RowInv'
  BY <1>20 DEF TeardownCancel, Spawning
<1>21. ASSUME NEW t \in Teardowns, TeardownWaited(t) PROVE RowInv'
  BY <1>21 DEF TeardownWaited, Drop
<1>22. ASSUME NEW t \in Teardowns, TeardownList(t) PROVE RowInv'
  BY <1>22 DEF TeardownList, Listed
<1>23. ASSUME NEW t \in Teardowns, TeardownRemove(t) PROVE RowInv'
  BY <1>23 DEF TeardownRemove, removeNodeResources
<1>24. ASSUME NEW t \in Teardowns, TeardownSweep(t) PROVE RowInv'
  BY <1>24 DEF TeardownSweep
<1>25. ASSUME NEW t \in Teardowns, TeardownEnd(t) PROVE RowInv'
  BY <1>25 DEF TeardownEnd
<1>26. ASSUME Restart PROVE RowInv'
  BY <1>26 DEF Restart, failInterruptedDeployments, InFlight
<1>27. CASE UNCHANGED vars
  BY <1>27 DEF vars
<1>28. QED
  BY <1>1, <1>2, <1>3, <1>4, <1>5, <1>6, <1>7, <1>8, <1>9, <1>10, <1>11, <1>12, <1>13,
     <1>14, <1>15, <1>16, <1>17, <1>18, <1>19, <1>20, <1>21, <1>22, <1>23, <1>24, <1>25,
     <1>26, <1>27 DEF Next, HandlerStep, ReleaseStep, ProvStep, TeardownStep

\* Every row a teardown must delete is on its list until it is deleted.
LEMMA RemovalStep == TypeOK /\ RegistryInv /\ CoverInv /\ RemovalInv /\ [Next]_vars => RemovalInv'
<1> SUFFICES ASSUME TypeOK /\ RegistryInv /\ CoverInv /\ RemovalInv, [Next]_vars PROVE RemovalInv'
  OBVIOUS
<1>jobs. Nodes \subseteq Jobs /\ Tail \in Jobs
  BY DEF Jobs
<1> USE ConstantsAssumption, <1>jobs DEF TypeOK, StoreType, HandlerType, ProvType, TeardownType,
        HistoryType, RegistryInv, UnstartedIsUnknown, ReleaserAfterHandler, SpawningIsRegistered,
        JobInHand, JoiningOwnRun, NoJobBeforeSpawn, WaitingForStarted, CoverInv, CoverOf, RemovalInv,
        Spawning, Live, Clean, db, docker, runs, handlr, provs, tears, hist
<1>1. ASSUME NEW d \in Deploys, DeployRequest(d) PROVE RemovalInv'
  BY <1>1 DEF DeployRequest
<1>2. ASSUME NEW d \in Deploys, beginDeploy(d) PROVE RemovalInv'
  BY <1>2 DEF beginDeploy
<1>3. ASSUME NEW d \in Deploys, NetworkEnsure(d) PROVE RemovalInv'
  BY <1>3 DEF NetworkEnsure, abortDeploy, Drop
<1>4. ASSUME NEW d \in Deploys, ListExisting(d) PROVE RemovalInv'
  <2>1. UNCHANGED <<tpc, tlist, covered, overtaken, timedOut>>
    BY <1>4 DEF ListExisting
  <2>2. SUFFICES ASSUME NEW s \in Teardowns, NEW m \in Nodes, row'[m] # None,
                        rowBy'[m] \in covered[s], Clean(rowBy'[m])
                 PROVE /\ tpc'[s] \notin {"sweep", "end", "done"}
                       /\ tpc'[s] = "remove" => \E x \in tlist'[s] : x[1] = m
    BY <2>1
  <2>3. CASE rowBy'[m] = d
    <3>1. hpc[d] # "done"
      BY <1>4 DEF ListExisting
    <3>2. tpc[s] \in {"idle", "dead", "wait"}
      BY <2>2, <2>3, <3>1
    <3>3. QED
      BY <2>1, <3>2
  <2>4. CASE rowBy'[m] # d
    <3>1. rowBy'[m] = rowBy[m] /\ row[m] # None
      BY <1>4, <2>2, <2>4 DEF ListExisting, reconcileVanished, Listed, deployBuilt
    <3>2. QED
      BY <2>1, <2>2, <3>1
  <2>5. QED
    BY <2>3, <2>4
<1>5. ASSUME NEW d \in Deploys, PruneRemoved(d) PROVE RemovalInv'
  <2>1. UNCHANGED <<rowBy, tpc, tlist, covered, overtaken, timedOut>>
    BY <1>5 DEF PruneRemoved
  <2>2. ASSUME NEW m \in Nodes, row'[m] # None PROVE row[m] # None
    BY <1>5, <2>2 DEF PruneRemoved, removeNodeResources
  <2>3. QED
    BY <2>1, <2>2
<1>6. ASSUME NEW d \in Deploys, SpawnNode(d) PROVE RemovalInv'
  <2>1. UNCHANGED <<tpc, tlist, covered, overtaken, timedOut>>
    BY <1>6 DEF SpawnNode
  <2>2. SUFFICES ASSUME NEW s \in Teardowns, NEW m \in Nodes, row'[m] # None,
                        rowBy'[m] \in covered[s], Clean(rowBy'[m])
                 PROVE /\ tpc'[s] \notin {"sweep", "end", "done"}
                       /\ tpc'[s] = "remove" => \E x \in tlist'[s] : x[1] = m
    BY <2>1
  <2>3. CASE rowBy'[m] = d
    <3>1. hpc[d] # "done"
      BY <1>6 DEF SpawnNode
    <3>2. tpc[s] \in {"idle", "dead", "wait"}
      BY <2>2, <2>3, <3>1
    <3>3. QED
      BY <2>1, <3>2
  <2>4. CASE rowBy'[m] # d
    <3>1. rowBy'[m] = rowBy[m] /\ row[m] # None
      BY <1>6, <2>2, <2>4 DEF SpawnNode, UpsertDeployment
    <3>2. QED
      BY <2>1, <2>2, <3>1
  <2>5. QED
    BY <2>3, <2>4
<1>7. ASSUME NEW d \in Deploys, SpawnTail(d) PROVE RemovalInv'
  BY <1>7 DEF SpawnTail, StartJob
<1>8. ASSUME NEW d \in Deploys, deployScope(d) PROVE RemovalInv'
  BY <1>8 DEF deployScope, Spawn, StartJob
<1>9. ASSUME NEW d \in Deploys, deployScopeAdd(d) PROVE RemovalInv'
  BY <1>9 DEF deployScopeAdd, Spawn, StartJob
<1>10. ASSUME NEW d \in Deploys, finishDeploy(d) PROVE RemovalInv'
  BY <1>10 DEF finishDeploy
<1>11. ASSUME NEW d \in Deploys, ReleaseWait(d) PROVE RemovalInv'
  BY <1>11 DEF ReleaseWait
<1>12. ASSUME NEW d \in Deploys, ReleaseDrop(d) PROVE RemovalInv'
  BY <1>12 DEF ReleaseDrop, Drop
<1>13. ASSUME NEW d \in Deploys, TailReturn(d) PROVE RemovalInv'
  BY <1>13 DEF TailReturn, ProvReturn
<1>14. ASSUME NEW d \in Deploys, NEW n \in Nodes, ProvBegin(d, n) PROVE RemovalInv'
  BY <1>14 DEF ProvBegin, SetDeploymentState, ProvGo
<1>15. ASSUME NEW d \in Deploys, NEW n \in Nodes, ProvCreate(d, n) PROVE RemovalInv'
  BY <1>15 DEF ProvCreate, ProvGo
<1>16. ASSUME NEW d \in Deploys, NEW n \in Nodes, ProvRecord(d, n) PROVE RemovalInv'
  <2>1. UNCHANGED <<tpc, tlist, covered, overtaken, timedOut>>
    BY <1>16 DEF ProvRecord
  <2>2. SUFFICES ASSUME NEW s \in Teardowns, NEW m \in Nodes, row'[m] # None,
                        rowBy'[m] \in covered[s], Clean(rowBy'[m])
                 PROVE /\ tpc'[s] \notin {"sweep", "end", "done"}
                       /\ tpc'[s] = "remove" => \E x \in tlist'[s] : x[1] = m
    BY <2>1
  <2>3. CASE rowBy'[m] = d
    <3>1. Live(d, n) /\ n \in Jobs
      BY <1>16 DEF ProvRecord
    <3>2. tpc[s] \in {"idle", "dead", "wait"}
      BY <2>2, <2>3, <3>1
    <3>3. QED
      BY <2>1, <3>2
  <2>4. CASE rowBy'[m] # d
    <3>1. rowBy'[m] = rowBy[m] /\ row[m] # None
      BY <1>16, <2>2, <2>4 DEF ProvRecord, UpsertDeployment, ProvGo
    <3>2. QED
      BY <2>1, <2>2, <3>1
  <2>5. QED
    BY <2>3, <2>4
<1>17. ASSUME NEW d \in Deploys, NEW n \in Nodes, ProvSteps(d, n) PROVE RemovalInv'
  BY <1>17 DEF ProvSteps, ProvGo
<1>18. ASSUME NEW d \in Deploys, NEW n \in Nodes, ProvFinish(d, n) PROVE RemovalInv'
  BY <1>18 DEF ProvFinish, SetDeploymentState, ProvReturn
<1>19. ASSUME NEW d \in Deploys, NEW n \in Nodes, ProvFail(d, n) PROVE RemovalInv'
  <2>1. \A m \in Nodes : row'[m] # None => row[m] # None
    BY <1>19 DEF ProvFail, SetDeploymentState
  <2>2. UNCHANGED <<rowBy, tpc, tlist, covered, overtaken, timedOut>>
    BY <1>19 DEF ProvFail
  <2>3. QED
    BY <2>1, <2>2
<1>20. ASSUME NEW t \in Teardowns, TeardownCancel(t) PROVE RemovalInv'
  BY <1>20 DEF TeardownCancel, Spawning
<1>21. ASSUME NEW t \in Teardowns, TeardownWaited(t) PROVE RemovalInv'
  BY <1>21 DEF TeardownWaited, Drop
<1>22. ASSUME NEW t \in Teardowns, TeardownList(t) PROVE RemovalInv'
  <2>1. UNCHANGED <<row, rowBy, covered, overtaken, timedOut>>
    BY <1>22 DEF TeardownList
  <2>2. SUFFICES ASSUME NEW s \in Teardowns, NEW m \in Nodes, row'[m] # None,
                        rowBy'[m] \in covered[s], Clean(rowBy'[m])
                 PROVE /\ tpc'[s] \notin {"sweep", "end", "done"}
                       /\ tpc'[s] = "remove" => \E x \in tlist'[s] : x[1] = m
    BY <2>1
  <2>3. CASE s = t
    <3>1. tpc'[t] = "remove"
      BY <1>22 DEF TeardownList
    <3>2. <<m, row[m].cid>> \in tlist'[t]
      BY <1>22, <2>1, <2>2 DEF TeardownList, Listed
    <3>3. QED
      BY <2>3, <3>1, <3>2
  <2>4. CASE s # t
    <3>1. tpc'[s] = tpc[s] /\ tlist'[s] = tlist[s]
      BY <1>22, <2>4 DEF TeardownList
    <3>2. QED
      BY <2>1, <2>2, <3>1
  <2>5. QED
    BY <2>3, <2>4
<1>23. ASSUME NEW t \in Teardowns, TeardownRemove(t) PROVE RemovalInv'
  <2>1. UNCHANGED <<rowBy, covered, overtaken, timedOut>> /\ tpc[t] = "remove"
    BY <1>23 DEF TeardownRemove
  <2>2. SUFFICES ASSUME NEW s \in Teardowns, NEW m \in Nodes, row'[m] # None,
                        rowBy'[m] \in covered[s], Clean(rowBy'[m])
                 PROVE /\ tpc'[s] \notin {"sweep", "end", "done"}
                       /\ tpc'[s] = "remove" => \E x \in tlist'[s] : x[1] = m
    BY <2>1
  <2>3. row[m] # None
    BY <1>23, <2>2 DEF TeardownRemove, removeNodeResources
  <2>4. CASE s # t
    <3>1. tpc'[s] = tpc[s] /\ tlist'[s] = tlist[s]
      BY <1>23, <2>4 DEF TeardownRemove
    <3>2. QED
      BY <2>1, <2>2, <2>3, <3>1
  <2>5. CASE s = t
    <3>1. PICK x \in tlist[t] : x[1] = m
      BY <2>1, <2>2, <2>3, <2>5
    <3>2. PICK y \in tlist[t] : /\ removeNodeResources(y[1], y[2])
                               /\ tlist' = [tlist EXCEPT ![t] = @ \ {y}]
                               /\ UNCHANGED tpc
      BY <1>23, <3>1 DEF TeardownRemove
    <3>3. y[1] \in Nodes /\ y[1] # m
      BY <2>2, <3>2 DEF removeNodeResources
    <3>4. x \in tlist'[t]
      BY <3>1, <3>2, <3>3
    <3>5. QED
      BY <2>1, <2>5, <3>1, <3>2, <3>4
  <2>6. QED
    BY <2>4, <2>5
<1>24. ASSUME NEW t \in Teardowns, TeardownSweep(t) PROVE RemovalInv'
  BY <1>24 DEF TeardownSweep
<1>25. ASSUME NEW t \in Teardowns, TeardownEnd(t) PROVE RemovalInv'
  BY <1>25 DEF TeardownEnd
<1>26. ASSUME Restart PROVE RemovalInv'
  BY <1>26 DEF Restart, failInterruptedDeployments, InFlight
<1>27. CASE UNCHANGED vars
  BY <1>27 DEF vars
<1>28. QED
  BY <1>1, <1>2, <1>3, <1>4, <1>5, <1>6, <1>7, <1>8, <1>9, <1>10, <1>11, <1>12, <1>13,
     <1>14, <1>15, <1>16, <1>17, <1>18, <1>19, <1>20, <1>21, <1>22, <1>23, <1>24, <1>25,
     <1>26, <1>27 DEF Next, HandlerStep, ReleaseStep, ProvStep, TeardownStep

\* No container of a covered clean deploy appears after the sweep.
LEMMA FinalStep == TypeOK /\ CoverInv /\ ContainersGone /\ [Next]_vars => ContainersGone'
<1> SUFFICES ASSUME TypeOK /\ CoverInv /\ ContainersGone, [Next]_vars PROVE ContainersGone'
  OBVIOUS
<1>jobs. Nodes \subseteq Jobs /\ Tail \in Jobs
  BY DEF Jobs
<1> USE ConstantsAssumption, <1>jobs DEF TypeOK, DockerType, ProvType, TeardownType,
        HistoryType, CoverInv, CoverOf, ContainersGone, Live, Clean, db, docker, runs, handlr, provs,
        tears, hist
<1>1. ASSUME NEW d \in Deploys, DeployRequest(d) PROVE ContainersGone'
  BY <1>1 DEF DeployRequest
<1>2. ASSUME NEW d \in Deploys, beginDeploy(d) PROVE ContainersGone'
  BY <1>2 DEF beginDeploy
<1>3. ASSUME NEW d \in Deploys, NetworkEnsure(d) PROVE ContainersGone'
  BY <1>3 DEF NetworkEnsure, abortDeploy, Drop
<1>4. ASSUME NEW d \in Deploys, ListExisting(d) PROVE ContainersGone'
  BY <1>4 DEF ListExisting, reconcileVanished, Listed, deployBuilt
<1>5. ASSUME NEW d \in Deploys, PruneRemoved(d) PROVE ContainersGone'
  <2>1. UNCHANGED <<covered, overtaken, timedOut>>
    BY <1>5 DEF PruneRemoved
  <2>2. SUFFICES ASSUME NEW s \in Teardowns, NEW m \in Nodes, tpc'[s] \in {"end", "done"},
                        cont'[m] \in covered[s], Clean(cont'[m])
                 PROVE FALSE
    BY <2>1
  <2>3. cont'[m] # None
    BY <2>2
  <2>4. cont'[m] = cont[m]
    BY <1>5, <2>3 DEF PruneRemoved, removeNodeResources
  <2>5. tpc[s] \in {"end", "done"}
    BY <1>5, <2>2 DEF PruneRemoved
  <2>6. QED
    BY <2>2, <2>4, <2>5
<1>6. ASSUME NEW d \in Deploys, SpawnNode(d) PROVE ContainersGone'
  BY <1>6 DEF SpawnNode, UpsertDeployment
<1>7. ASSUME NEW d \in Deploys, SpawnTail(d) PROVE ContainersGone'
  BY <1>7 DEF SpawnTail, StartJob
<1>8. ASSUME NEW d \in Deploys, deployScope(d) PROVE ContainersGone'
  BY <1>8 DEF deployScope, Spawn, StartJob
<1>9. ASSUME NEW d \in Deploys, deployScopeAdd(d) PROVE ContainersGone'
  BY <1>9 DEF deployScopeAdd, Spawn, StartJob
<1>10. ASSUME NEW d \in Deploys, finishDeploy(d) PROVE ContainersGone'
  BY <1>10 DEF finishDeploy
<1>11. ASSUME NEW d \in Deploys, ReleaseWait(d) PROVE ContainersGone'
  BY <1>11 DEF ReleaseWait
<1>12. ASSUME NEW d \in Deploys, ReleaseDrop(d) PROVE ContainersGone'
  BY <1>12 DEF ReleaseDrop, Drop
<1>13. ASSUME NEW d \in Deploys, TailReturn(d) PROVE ContainersGone'
  BY <1>13 DEF TailReturn, ProvReturn
<1>14. ASSUME NEW d \in Deploys, NEW n \in Nodes, ProvBegin(d, n) PROVE ContainersGone'
  BY <1>14 DEF ProvBegin, SetDeploymentState, ProvGo
<1>15. ASSUME NEW d \in Deploys, NEW n \in Nodes, ProvCreate(d, n) PROVE ContainersGone'
  <2>1. cont' = [cont EXCEPT ![n] = d] /\ UNCHANGED <<tpc, covered, overtaken, timedOut>>
    BY <1>15 DEF ProvCreate
  <2>2. Live(d, n) /\ n \in Jobs
    BY <1>15 DEF ProvCreate
  <2>3. SUFFICES ASSUME NEW s \in Teardowns, NEW m \in Nodes, tpc[s] \in {"end", "done"},
                        cont'[m] \in covered[s], Clean(cont'[m])
                 PROVE FALSE
    BY <2>1
  <2>4. cont'[m] = cont[m] \/ cont'[m] = d
    BY <2>1
  <2>5. d \in covered[s] /\ Clean(d) => tpc[s] \in {"idle", "dead", "wait"}
    BY <2>2
  <2>6. QED
    BY <2>3, <2>4, <2>5
<1>16. ASSUME NEW d \in Deploys, NEW n \in Nodes, ProvRecord(d, n) PROVE ContainersGone'
  BY <1>16 DEF ProvRecord, UpsertDeployment, ProvGo
<1>17. ASSUME NEW d \in Deploys, NEW n \in Nodes, ProvSteps(d, n) PROVE ContainersGone'
  BY <1>17 DEF ProvSteps, ProvGo
<1>18. ASSUME NEW d \in Deploys, NEW n \in Nodes, ProvFinish(d, n) PROVE ContainersGone'
  BY <1>18 DEF ProvFinish, SetDeploymentState, ProvReturn
<1>19. ASSUME NEW d \in Deploys, NEW n \in Nodes, ProvFail(d, n) PROVE ContainersGone'
  BY <1>19 DEF ProvFail, SetDeploymentState, ProvReturn
<1>20. ASSUME NEW t \in Teardowns, TeardownCancel(t) PROVE ContainersGone'
  BY <1>20 DEF TeardownCancel, Spawning
<1>21. ASSUME NEW t \in Teardowns, TeardownWaited(t) PROVE ContainersGone'
  BY <1>21 DEF TeardownWaited, Drop
<1>22. ASSUME NEW t \in Teardowns, TeardownList(t) PROVE ContainersGone'
  BY <1>22 DEF TeardownList, Listed
<1>23. ASSUME NEW t \in Teardowns, TeardownRemove(t) PROVE ContainersGone'
  <2>1. UNCHANGED <<covered, overtaken, timedOut>>
    BY <1>23 DEF TeardownRemove
  <2>2. SUFFICES ASSUME NEW s \in Teardowns, NEW m \in Nodes, tpc'[s] \in {"end", "done"},
                        cont'[m] \in covered[s], Clean(cont'[m])
                 PROVE FALSE
    BY <2>1
  <2>3. cont'[m] # None
    BY <2>2
  <2>4. cont'[m] = cont[m]
    BY <1>23, <2>3 DEF TeardownRemove, removeNodeResources
  <2>5. tpc[s] \in {"end", "done"}
    BY <1>23, <2>2 DEF TeardownRemove
  <2>6. QED
    BY <2>2, <2>4, <2>5
<1>24. ASSUME NEW t \in Teardowns, TeardownSweep(t) PROVE ContainersGone'
  <2>1. \A m \in Nodes : cont'[m] = None
    BY <1>24 DEF TeardownSweep
  <2>2. UNCHANGED covered /\ None \notin Deploys
    BY <1>24 DEF TeardownSweep
  <2>3. QED
    BY <2>1, <2>2
<1>25. ASSUME NEW t \in Teardowns, TeardownEnd(t) PROVE ContainersGone'
  BY <1>25 DEF TeardownEnd
<1>26. ASSUME Restart PROVE ContainersGone'
  BY <1>26 DEF Restart, failInterruptedDeployments, InFlight
<1>27. CASE UNCHANGED vars
  BY <1>27 DEF vars
<1>28. QED
  BY <1>1, <1>2, <1>3, <1>4, <1>5, <1>6, <1>7, <1>8, <1>9, <1>10, <1>11, <1>12, <1>13,
     <1>14, <1>15, <1>16, <1>17, <1>18, <1>19, <1>20, <1>21, <1>22, <1>23, <1>24, <1>25,
     <1>26, <1>27 DEF Next, HandlerStep, ReleaseStep, ProvStep, TeardownStep

-----------------------------------------------------------------------------
\* Init establishes the inductive invariant: no run, no row, no container and no goroutine.
LEMMA InitIndInv == Init => IndInv
<1> SUFFICES ASSUME Init PROVE IndInv
  OBVIOUS
<1> USE ConstantsAssumption DEF Init
<1>1. TypeOK
  <2>1. StoreType /\ DockerType /\ RunType
    BY DEF StoreType, DockerType, RunType
  <2>2. HandlerType
    BY DEF HandlerType, HandlerPC
  <2>3. ProvType
    BY DEF ProvType, ProvPC
  <2>4. TeardownType /\ HistoryType
    BY DEF TeardownType, TeardownPC, HistoryType
  <2>5. QED
    BY <2>1, <2>2, <2>3, <2>4 DEF TypeOK
<1>2. RegistryInv
  BY DEF RegistryInv, UnstartedIsUnknown, ReleaserAfterHandler, SpawningIsRegistered, JobInHand,
         JoiningOwnRun, NoJobBeforeSpawn, WaitingForStarted, Started, Spawning, Live
<1>3. ScopeInv
  BY DEF ScopeInv, JoinedOwnRun, JoinedIsCounted, LiveIsRegistered, ReleasedIsOver, Live
<1>4. CoverInv
  BY DEF CoverInv, CoverOf
<1>5. RowInv /\ RemovalInv /\ ContainersGone
  BY DEF RowInv, NoStackNoRow, RowHasOneWriter, JobRow, RemovalInv, ContainersGone
<1>6. QED
  BY <1>1, <1>2, <1>3, <1>4, <1>5 DEF IndInv

\* IndInv holds in every reachable state.
THEOREM IndInvHolds == Spec => []IndInv
<1>1. IndInv /\ [Next]_vars => IndInv'
  BY TypeStep, RegistryStep, ScopeStep, CoverStep, RowStep, RemovalStep, FinalStep DEF IndInv
<1>2. QED
  BY InitIndInv, <1>1, PTL DEF Spec

\* The type invariant, for every value of the constants.
THEOREM TypeCorrect == Spec => []TypeOK
<1>1. IndInv => TypeOK
  BY DEF IndInv
<1>2. QED
  BY IndInvHolds, <1>1, PTL

\* beginDeploy and finishDeploy keep deploys apart: two clean deploys never provision the same
\* node at once, because a live goroutine of a clean deploy keeps its run registered.
THEOREM DeployExclusion == Spec => []OneProvisionerPerNode
<1>1. IndInv => OneProvisionerPerNode
  <2>1. Nodes \subseteq Jobs
    BY DEF Jobs
  <2>2. QED
    BY <2>1 DEF IndInv, ScopeInv, LiveIsRegistered, OneProvisionerPerNode
<1>2. QED
  BY IndInvHolds, <1>1, PTL

\* A live provisioner of a clean deploy never finds its row replaced by another clean deploy.
THEOREM RowOwnership == Spec => []RowHasOneWriter
<1>1. IndInv => RowHasOneWriter
  BY DEF IndInv, RowInv
<1>2. QED
  BY IndInvHolds, <1>1, PTL

\* teardownStack is final: after its sweep no container and no row of a clean deploy that had
\* begun before it is left, and none appears later.
THEOREM TeardownFinality == Spec => []TeardownIsFinal
<1>1. IndInv => TeardownIsFinal
  BY DEF IndInv, RemovalInv, ContainersGone, TeardownIsFinal
<1>2. QED
  BY IndInvHolds, <1>1, PTL

-----------------------------------------------------------------------------
(* Who settles a row that is in flight.                                      *)

\* A handler takes a job in hand with its row and lets go of it with the go statement.
LEMMA JobInHandStep == TypeOK /\ JobInHandOnly /\ [Next]_vars => JobInHandOnly'
<1> SUFFICES ASSUME TypeOK /\ JobInHandOnly, [Next]_vars PROVE JobInHandOnly'
  OBVIOUS
<1> USE ConstantsAssumption DEF TypeOK, HandlerType, JobInHandOnly, db, docker, runs, handlr, provs, tears, hist
<1>1. ASSUME NEW d \in Deploys, DeployRequest(d) PROVE JobInHandOnly'
  BY <1>1 DEF DeployRequest
<1>2. ASSUME NEW d \in Deploys, beginDeploy(d) PROVE JobInHandOnly'
  BY <1>2 DEF beginDeploy
<1>3. ASSUME NEW d \in Deploys, NetworkEnsure(d) PROVE JobInHandOnly'
  BY <1>3 DEF NetworkEnsure, abortDeploy, Drop
<1>4. ASSUME NEW d \in Deploys, ListExisting(d) PROVE JobInHandOnly'
  BY <1>4 DEF ListExisting, reconcileVanished, deployBuilt
<1>5. ASSUME NEW d \in Deploys, PruneRemoved(d) PROVE JobInHandOnly'
  BY <1>5 DEF PruneRemoved, removeNodeResources
<1>6. ASSUME NEW d \in Deploys, SpawnNode(d) PROVE JobInHandOnly'
  BY <1>6 DEF SpawnNode, UpsertDeployment
<1>7. ASSUME NEW d \in Deploys, SpawnTail(d) PROVE JobInHandOnly'
  BY <1>7 DEF SpawnTail, StartJob
<1>8. ASSUME NEW d \in Deploys, deployScope(d) PROVE JobInHandOnly'
  BY <1>8 DEF deployScope, Spawn, StartJob
<1>9. ASSUME NEW d \in Deploys, deployScopeAdd(d) PROVE JobInHandOnly'
  BY <1>9 DEF deployScopeAdd, Spawn, StartJob
<1>10. ASSUME NEW d \in Deploys, finishDeploy(d) PROVE JobInHandOnly'
  BY <1>10 DEF finishDeploy
<1>11. ASSUME NEW d \in Deploys, ReleaseWait(d) PROVE JobInHandOnly'
  BY <1>11 DEF ReleaseWait
<1>12. ASSUME NEW d \in Deploys, ReleaseDrop(d) PROVE JobInHandOnly'
  BY <1>12 DEF ReleaseDrop, Drop
<1>13. ASSUME NEW d \in Deploys, TailReturn(d) PROVE JobInHandOnly'
  BY <1>13 DEF TailReturn, ProvReturn
<1>14. ASSUME NEW d \in Deploys, NEW n \in Nodes, ProvBegin(d, n) PROVE JobInHandOnly'
  BY <1>14 DEF ProvBegin, SetDeploymentState, ProvGo
<1>15. ASSUME NEW d \in Deploys, NEW n \in Nodes, ProvCreate(d, n) PROVE JobInHandOnly'
  BY <1>15 DEF ProvCreate, ProvGo
<1>16. ASSUME NEW d \in Deploys, NEW n \in Nodes, ProvRecord(d, n) PROVE JobInHandOnly'
  BY <1>16 DEF ProvRecord, UpsertDeployment, ProvGo
<1>17. ASSUME NEW d \in Deploys, NEW n \in Nodes, ProvSteps(d, n) PROVE JobInHandOnly'
  BY <1>17 DEF ProvSteps, ProvGo
<1>18. ASSUME NEW d \in Deploys, NEW n \in Nodes, ProvFinish(d, n) PROVE JobInHandOnly'
  BY <1>18 DEF ProvFinish, SetDeploymentState, ProvReturn
<1>19. ASSUME NEW d \in Deploys, NEW n \in Nodes, ProvFail(d, n) PROVE JobInHandOnly'
  BY <1>19 DEF ProvFail, SetDeploymentState, ProvReturn
<1>20. ASSUME NEW t \in Teardowns, TeardownCancel(t) PROVE JobInHandOnly'
  BY <1>20 DEF TeardownCancel
<1>21. ASSUME NEW t \in Teardowns, TeardownWaited(t) PROVE JobInHandOnly'
  BY <1>21 DEF TeardownWaited, Drop
<1>22. ASSUME NEW t \in Teardowns, TeardownList(t) PROVE JobInHandOnly'
  BY <1>22 DEF TeardownList, Listed
<1>23. ASSUME NEW t \in Teardowns, TeardownRemove(t) PROVE JobInHandOnly'
  BY <1>23 DEF TeardownRemove, removeNodeResources
<1>24. ASSUME NEW t \in Teardowns, TeardownSweep(t) PROVE JobInHandOnly'
  BY <1>24 DEF TeardownSweep
<1>25. ASSUME NEW t \in Teardowns, TeardownEnd(t) PROVE JobInHandOnly'
  BY <1>25 DEF TeardownEnd
<1>26. ASSUME Restart PROVE JobInHandOnly'
  BY <1>26 DEF Restart, failInterruptedDeployments
<1>27. CASE UNCHANGED vars
  BY <1>27 DEF vars
<1>28. QED
  BY <1>1, <1>2, <1>3, <1>4, <1>5, <1>6, <1>7, <1>8, <1>9, <1>10, <1>11, <1>12, <1>13,
     <1>14, <1>15, <1>16, <1>17, <1>18, <1>19, <1>20, <1>21, <1>22, <1>23, <1>24, <1>25,
     <1>26, <1>27 DEF Next, HandlerStep, ReleaseStep, ProvStep, TeardownStep

\* Only a releaser that has waited, or a teardown that is waiting, cancels the registered run.
LEMMA QuietStep == TypeOK /\ RegistryInv /\ QuietForATeardown /\ [Next]_vars => QuietForATeardown'
<1> SUFFICES ASSUME TypeOK /\ RegistryInv /\ QuietForATeardown, [Next]_vars PROVE QuietForATeardown'
  OBVIOUS
<1> USE ConstantsAssumption DEF TypeOK, RunType, HandlerType, TeardownType, HistoryType, RegistryInv,
        UnstartedIsUnknown, ReleaserAfterHandler, SpawningIsRegistered, Started, Spawning,
        QuietForATeardown, db, docker, runs, handlr, provs, tears, hist
<1>1. ASSUME NEW d \in Deploys, DeployRequest(d) PROVE QuietForATeardown'
  BY <1>1 DEF DeployRequest
<1>2. ASSUME NEW d \in Deploys, beginDeploy(d) PROVE QuietForATeardown'
  BY <1>2 DEF beginDeploy
<1>3. ASSUME NEW d \in Deploys, NetworkEnsure(d) PROVE QuietForATeardown'
  BY <1>3 DEF NetworkEnsure, abortDeploy, Drop
<1>4. ASSUME NEW d \in Deploys, ListExisting(d) PROVE QuietForATeardown'
  BY <1>4 DEF ListExisting, reconcileVanished, deployBuilt
<1>5. ASSUME NEW d \in Deploys, PruneRemoved(d) PROVE QuietForATeardown'
  BY <1>5 DEF PruneRemoved, removeNodeResources
<1>6. ASSUME NEW d \in Deploys, SpawnNode(d) PROVE QuietForATeardown'
  BY <1>6 DEF SpawnNode, UpsertDeployment
<1>7. ASSUME NEW d \in Deploys, SpawnTail(d) PROVE QuietForATeardown'
  BY <1>7 DEF SpawnTail, StartJob
<1>8. ASSUME NEW d \in Deploys, deployScope(d) PROVE QuietForATeardown'
  BY <1>8 DEF deployScope, Spawn, StartJob
<1>9. ASSUME NEW d \in Deploys, deployScopeAdd(d) PROVE QuietForATeardown'
  BY <1>9 DEF deployScopeAdd, Spawn, StartJob
<1>10. ASSUME NEW d \in Deploys, finishDeploy(d) PROVE QuietForATeardown'
  BY <1>10 DEF finishDeploy
<1>11. ASSUME NEW d \in Deploys, ReleaseWait(d) PROVE QuietForATeardown'
  BY <1>11 DEF ReleaseWait
<1>12. ASSUME NEW d \in Deploys, ReleaseDrop(d) PROVE QuietForATeardown'
  BY <1>12 DEF ReleaseDrop, Drop
<1>13. ASSUME NEW d \in Deploys, TailReturn(d) PROVE QuietForATeardown'
  BY <1>13 DEF TailReturn, ProvReturn
<1>14. ASSUME NEW d \in Deploys, NEW n \in Nodes, ProvBegin(d, n) PROVE QuietForATeardown'
  BY <1>14 DEF ProvBegin, SetDeploymentState, ProvGo
<1>15. ASSUME NEW d \in Deploys, NEW n \in Nodes, ProvCreate(d, n) PROVE QuietForATeardown'
  BY <1>15 DEF ProvCreate, ProvGo
<1>16. ASSUME NEW d \in Deploys, NEW n \in Nodes, ProvRecord(d, n) PROVE QuietForATeardown'
  BY <1>16 DEF ProvRecord, UpsertDeployment, ProvGo
<1>17. ASSUME NEW d \in Deploys, NEW n \in Nodes, ProvSteps(d, n) PROVE QuietForATeardown'
  BY <1>17 DEF ProvSteps, ProvGo
<1>18. ASSUME NEW d \in Deploys, NEW n \in Nodes, ProvFinish(d, n) PROVE QuietForATeardown'
  BY <1>18 DEF ProvFinish, SetDeploymentState, ProvReturn
<1>19. ASSUME NEW d \in Deploys, NEW n \in Nodes, ProvFail(d, n) PROVE QuietForATeardown'
  BY <1>19 DEF ProvFail, SetDeploymentState, ProvReturn
<1>20. ASSUME NEW t \in Teardowns, TeardownCancel(t) PROVE QuietForATeardown'
  BY <1>20 DEF TeardownCancel
<1>21. ASSUME NEW t \in Teardowns, TeardownWaited(t) PROVE QuietForATeardown'
  BY <1>21 DEF TeardownWaited, Drop
<1>22. ASSUME NEW t \in Teardowns, TeardownList(t) PROVE QuietForATeardown'
  BY <1>22 DEF TeardownList, Listed
<1>23. ASSUME NEW t \in Teardowns, TeardownRemove(t) PROVE QuietForATeardown'
  BY <1>23 DEF TeardownRemove, removeNodeResources
<1>24. ASSUME NEW t \in Teardowns, TeardownSweep(t) PROVE QuietForATeardown'
  BY <1>24 DEF TeardownSweep
<1>25. ASSUME NEW t \in Teardowns, TeardownEnd(t) PROVE QuietForATeardown'
  BY <1>25 DEF TeardownEnd
<1>26. ASSUME Restart PROVE QuietForATeardown'
  BY <1>26 DEF Restart, failInterruptedDeployments
<1>27. CASE UNCHANGED vars
  BY <1>27 DEF vars
<1>28. QED
  BY <1>1, <1>2, <1>3, <1>4, <1>5, <1>6, <1>7, <1>8, <1>9, <1>10, <1>11, <1>12, <1>13,
     <1>14, <1>15, <1>16, <1>17, <1>18, <1>19, <1>20, <1>21, <1>22, <1>23, <1>24, <1>25,
     <1>26, <1>27 DEF Next, HandlerStep, ReleaseStep, ProvStep, TeardownStep

\* Whoever will settle the row of node n.
Builder(n) ==
    \/ \E d \in Deploys : Live(d, n) \/ cur[d] = n
    \/ \E t \in Teardowns : \/ tpc[t] \in {"wait", "list"}
                            \/ tpc[t] = "remove" /\ \E x \in tlist[t] : x[1] = n

\* Nobody has been overtaken and no wait has timed out: every deploy is clean.
Undisturbed == overtaken = {} /\ timedOut = {}

\* To keep InFlightHasBuilder, a step has to leave a builder to every row it leaves in flight.
LEMMA BuilderFrame ==
    ASSUME InFlightHasBuilder, Undisturbed' => Undisturbed,
           \A n \in Nodes : InFlight(n)' /\ Undisturbed =>
             \/ Builder(n)'
             \/ InFlight(n) /\ (Builder(n) => Builder(n)')
    PROVE  InFlightHasBuilder'
BY DEF InFlightHasBuilder, Builder, Undisturbed

\* A row whose builders all stay keeps them.
LEMMA BuildersStay ==
    ASSUME NEW n \in Nodes, Builder(n),
           \A d \in Deploys : Live(d, n) \/ cur[d] = n => (Live(d, n) \/ cur[d] = n)',
           UNCHANGED <<tpc, tlist>>
    PROVE  Builder(n)'
BY DEF Builder

\* A provisioner that returns settles its row, or leaves it to the teardown that made it quiet; a
\* teardown deletes what it listed.
LEMMA BuilderStep == IndInv /\ BuilderInv /\ [Next]_vars => InFlightHasBuilder'
<1> SUFFICES ASSUME IndInv /\ BuilderInv, [Next]_vars PROVE InFlightHasBuilder'
  OBVIOUS
<1>jobs. Nodes \subseteq Jobs /\ Tail \in Jobs /\ Tail \notin Nodes
  BY ConstantsAssumption DEF Jobs
<1> USE ConstantsAssumption, <1>jobs DEF IndInv, TypeOK, BuilderInv, db, docker, runs, handlr, provs, tears, hist
<1>1. ASSUME NEW d \in Deploys, DeployRequest(d) PROVE InFlightHasBuilder'
  <2>1. \A k \in Nodes : InFlight(k)' => InFlight(k)
    BY <1>1 DEF DeployRequest, InFlight, StoreType
  <2>2. \A k \in Nodes, e \in Deploys : Live(e, k) \/ cur[e] = k => (Live(e, k) \/ cur[e] = k)'
    BY <1>1 DEF DeployRequest, Live, ProvType, HandlerType
  <2>3. UNCHANGED <<tpc, tlist>>
    BY <1>1 DEF DeployRequest
  <2>4. Undisturbed' => Undisturbed
    BY <1>1 DEF DeployRequest, Undisturbed
  <2> QED
    BY <2>1, <2>2, <2>3, <2>4, BuilderFrame, BuildersStay
<1>2. ASSUME NEW d \in Deploys, beginDeploy(d) PROVE InFlightHasBuilder'
  <2>1. \A k \in Nodes : InFlight(k)' => InFlight(k)
    BY <1>2 DEF beginDeploy, InFlight, StoreType
  <2>2. \A k \in Nodes, e \in Deploys : Live(e, k) \/ cur[e] = k => (Live(e, k) \/ cur[e] = k)'
    BY <1>2 DEF beginDeploy, Live, ProvType, HandlerType
  <2>3. UNCHANGED <<tpc, tlist>>
    BY <1>2 DEF beginDeploy
  <2>4. Undisturbed' => Undisturbed
    BY <1>2 DEF beginDeploy, Undisturbed
  <2> QED
    BY <2>1, <2>2, <2>3, <2>4, BuilderFrame, BuildersStay
<1>3. ASSUME NEW d \in Deploys, NetworkEnsure(d) PROVE InFlightHasBuilder'
  <2>1. \A k \in Nodes : InFlight(k)' => InFlight(k)
    BY <1>3 DEF NetworkEnsure, abortDeploy, Drop, InFlight, StoreType
  <2>2. \A k \in Nodes, e \in Deploys : Live(e, k) \/ cur[e] = k => (Live(e, k) \/ cur[e] = k)'
    BY <1>3 DEF NetworkEnsure, abortDeploy, Drop, Live, ProvType, HandlerType
  <2>3. UNCHANGED <<tpc, tlist>>
    BY <1>3 DEF NetworkEnsure, abortDeploy, Drop
  <2>4. Undisturbed' => Undisturbed
    BY <1>3 DEF NetworkEnsure, abortDeploy, Drop, Undisturbed
  <2> QED
    BY <2>1, <2>2, <2>3, <2>4, BuilderFrame, BuildersStay
<1>4. ASSUME NEW d \in Deploys, ListExisting(d) PROVE InFlightHasBuilder'
  <2>1. \A k \in Nodes : InFlight(k)' => InFlight(k)
    BY <1>4 DEF ListExisting, reconcileVanished, deployBuilt, InFlight, StoreType
  <2>2. \A k \in Nodes, e \in Deploys : Live(e, k) \/ cur[e] = k => (Live(e, k) \/ cur[e] = k)'
    BY <1>4 DEF ListExisting, reconcileVanished, deployBuilt, Live, ProvType, HandlerType
  <2>3. UNCHANGED <<tpc, tlist>>
    BY <1>4 DEF ListExisting, reconcileVanished, deployBuilt
  <2>4. Undisturbed' => Undisturbed
    BY <1>4 DEF ListExisting, reconcileVanished, deployBuilt, Undisturbed
  <2> QED
    BY <2>1, <2>2, <2>3, <2>4, BuilderFrame, BuildersStay
<1>5. ASSUME NEW d \in Deploys, PruneRemoved(d) PROVE InFlightHasBuilder'
  <2>1. \A k \in Nodes : InFlight(k)' => InFlight(k)
    BY <1>5 DEF PruneRemoved, removeNodeResources, InFlight, StoreType
  <2>2. \A k \in Nodes, e \in Deploys : Live(e, k) \/ cur[e] = k => (Live(e, k) \/ cur[e] = k)'
    BY <1>5 DEF PruneRemoved, removeNodeResources, Live, ProvType, HandlerType
  <2>3. UNCHANGED <<tpc, tlist>>
    BY <1>5 DEF PruneRemoved, removeNodeResources
  <2>4. Undisturbed' => Undisturbed
    BY <1>5 DEF PruneRemoved, removeNodeResources, Undisturbed
  <2> QED
    BY <2>1, <2>2, <2>3, <2>4, BuilderFrame, BuildersStay
<1>6. ASSUME NEW d \in Deploys, SpawnNode(d) PROVE InFlightHasBuilder'
  <2>1. PICK n \in todo[d] :
           /\ UpsertDeployment(n, "pending", None, d)
           /\ cur' = [cur EXCEPT ![d] = n]
    BY <1>6 DEF SpawnNode
  <2>2. n \in Nodes /\ cur'[d] = n
    BY <2>1 DEF HandlerType
  <2>3. \A k \in Nodes : InFlight(k)' /\ k # n => InFlight(k)
    BY <2>1 DEF UpsertDeployment, InFlight, StoreType
  <2>4. \A k \in Nodes, e \in Deploys : Live(e, k) \/ cur[e] = k => (Live(e, k) \/ cur[e] = k)'
    <3>1. cur[d] = None
      BY <1>6 DEF SpawnNode, JobInHandOnly
    <3> QED
      BY <1>6, <2>1, <3>1 DEF SpawnNode, Live, HandlerType
  <2>5. UNCHANGED <<tpc, tlist>> /\ (Undisturbed' => Undisturbed)
    BY <1>6 DEF SpawnNode, Undisturbed
  <2>6. Builder(n)'
    BY <2>2 DEF Builder
  <2> QED
    BY <2>2, <2>3, <2>4, <2>5, <2>6, BuilderFrame, BuildersStay
<1>7. ASSUME NEW d \in Deploys, SpawnTail(d) PROVE InFlightHasBuilder'
  <2>1. \A k \in Nodes : InFlight(k)' => InFlight(k)
    BY <1>7 DEF SpawnTail, StartJob, InFlight, StoreType
  <2>2. \A k \in Nodes, e \in Deploys : Live(e, k) \/ cur[e] = k => (Live(e, k) \/ cur[e] = k)'
    <3>1. ppc' = [ppc EXCEPT ![d][Tail] = "begin"] /\ cur' = cur
      BY <1>7 DEF SpawnTail, StartJob
    <3> QED
      BY <3>1 DEF Live, ProvType
  <2>3. UNCHANGED <<tpc, tlist>>
    BY <1>7 DEF SpawnTail, StartJob
  <2>4. Undisturbed' => Undisturbed
    BY <1>7 DEF SpawnTail, StartJob, Undisturbed
  <2> QED
    BY <2>1, <2>2, <2>3, <2>4, BuilderFrame, BuildersStay
<1>8. ASSUME NEW d \in Deploys, deployScope(d) PROVE InFlightHasBuilder'
  <2>1. \A k \in Nodes : InFlight(k)' => InFlight(k)
    BY <1>8 DEF deployScope, Spawn, StartJob, InFlight, StoreType
  <2>2. \A k \in Nodes, e \in Deploys : Live(e, k) \/ cur[e] = k => (Live(e, k) \/ cur[e] = k)'
    <3>1. \/ UNCHANGED <<ppc, cur>>
          \/ /\ ppc' = [ppc EXCEPT ![d][cur[d]] = "begin"]
             /\ cur' = [cur EXCEPT ![d] = None]
      BY <1>8 DEF deployScope, Spawn, StartJob
    <3>2. cur[d] \in Jobs
      BY <1>8 DEF deployScope, RegistryInv, JobInHand
    <3> QED
      BY <3>1, <3>2 DEF Live, ProvType, HandlerType
  <2>3. UNCHANGED <<tpc, tlist>>
    BY <1>8 DEF deployScope, Spawn, StartJob
  <2>4. Undisturbed' => Undisturbed
    BY <1>8 DEF deployScope, Spawn, StartJob, Undisturbed
  <2> QED
    BY <2>1, <2>2, <2>3, <2>4, BuilderFrame, BuildersStay
<1>9. ASSUME NEW d \in Deploys, deployScopeAdd(d) PROVE InFlightHasBuilder'
  <2>1. \A k \in Nodes : InFlight(k)' => InFlight(k)
    BY <1>9 DEF deployScopeAdd, Spawn, StartJob, InFlight, StoreType
  <2>2. \A k \in Nodes, e \in Deploys : Live(e, k) \/ cur[e] = k => (Live(e, k) \/ cur[e] = k)'
    BY <1>9 DEF deployScopeAdd, Spawn, StartJob, Live, ProvType, HandlerType
  <2>3. UNCHANGED <<tpc, tlist>>
    BY <1>9 DEF deployScopeAdd, Spawn, StartJob
  <2>4. Undisturbed' => Undisturbed
    BY <1>9 DEF deployScopeAdd, Spawn, StartJob, Undisturbed
  <2> QED
    BY <2>1, <2>2, <2>3, <2>4, BuilderFrame, BuildersStay
<1>10. ASSUME NEW d \in Deploys, finishDeploy(d) PROVE InFlightHasBuilder'
  <2>1. \A k \in Nodes : InFlight(k)' => InFlight(k)
    BY <1>10 DEF finishDeploy, InFlight, StoreType
  <2>2. \A k \in Nodes, e \in Deploys : Live(e, k) \/ cur[e] = k => (Live(e, k) \/ cur[e] = k)'
    BY <1>10 DEF finishDeploy, Live, ProvType, HandlerType
  <2>3. UNCHANGED <<tpc, tlist>>
    BY <1>10 DEF finishDeploy
  <2>4. Undisturbed' => Undisturbed
    BY <1>10 DEF finishDeploy, Undisturbed
  <2> QED
    BY <2>1, <2>2, <2>3, <2>4, BuilderFrame, BuildersStay
<1>11. ASSUME NEW d \in Deploys, ReleaseWait(d) PROVE InFlightHasBuilder'
  <2>1. \A k \in Nodes : InFlight(k)' => InFlight(k)
    BY <1>11 DEF ReleaseWait, InFlight, StoreType
  <2>2. \A k \in Nodes, e \in Deploys : Live(e, k) \/ cur[e] = k => (Live(e, k) \/ cur[e] = k)'
    BY <1>11 DEF ReleaseWait, Live, ProvType, HandlerType
  <2>3. UNCHANGED <<tpc, tlist>>
    BY <1>11 DEF ReleaseWait
  <2>4. Undisturbed' => Undisturbed
    BY <1>11 DEF ReleaseWait, Undisturbed
  <2> QED
    BY <2>1, <2>2, <2>3, <2>4, BuilderFrame, BuildersStay
<1>12. ASSUME NEW d \in Deploys, ReleaseDrop(d) PROVE InFlightHasBuilder'
  <2>1. \A k \in Nodes : InFlight(k)' => InFlight(k)
    BY <1>12 DEF ReleaseDrop, Drop, InFlight, StoreType
  <2>2. \A k \in Nodes, e \in Deploys : Live(e, k) \/ cur[e] = k => (Live(e, k) \/ cur[e] = k)'
    BY <1>12 DEF ReleaseDrop, Drop, Live, ProvType, HandlerType
  <2>3. UNCHANGED <<tpc, tlist>>
    BY <1>12 DEF ReleaseDrop, Drop
  <2>4. Undisturbed' => Undisturbed
    BY <1>12 DEF ReleaseDrop, Drop, Undisturbed
  <2> QED
    BY <2>1, <2>2, <2>3, <2>4, BuilderFrame, BuildersStay
<1>13. ASSUME NEW d \in Deploys, TailReturn(d) PROVE InFlightHasBuilder'
  <2>1. \A k \in Nodes : InFlight(k)' => InFlight(k)
    BY <1>13 DEF TailReturn, ProvReturn, InFlight, StoreType
  <2>2. \A k \in Nodes, e \in Deploys : Live(e, k) \/ cur[e] = k => (Live(e, k) \/ cur[e] = k)'
    BY <1>13 DEF TailReturn, ProvReturn, Live, ProvType, HandlerType
  <2>3. UNCHANGED <<tpc, tlist>>
    BY <1>13 DEF TailReturn, ProvReturn
  <2>4. Undisturbed' => Undisturbed
    BY <1>13 DEF TailReturn, ProvReturn, Undisturbed
  <2> QED
    BY <2>1, <2>2, <2>3, <2>4, BuilderFrame, BuildersStay
<1>14. ASSUME NEW d \in Deploys, NEW n \in Nodes, ProvBegin(d, n) PROVE InFlightHasBuilder'
  <2>1. \A k \in Nodes : InFlight(k)' /\ k # n => InFlight(k)
    BY <1>14 DEF ProvBegin, SetDeploymentState, ProvGo, InFlight, StoreType
  <2>2. \A k \in Nodes, e \in Deploys : Live(e, k) \/ cur[e] = k => (Live(e, k) \/ cur[e] = k)'
    BY <1>14 DEF ProvBegin, SetDeploymentState, ProvGo, Live, ProvType, HandlerType
  <2>3. UNCHANGED <<tpc, tlist>>
    BY <1>14 DEF ProvBegin, SetDeploymentState, ProvGo
  <2>4. Undisturbed' => Undisturbed
    BY <1>14 DEF ProvBegin, SetDeploymentState, ProvGo, Undisturbed
  <2>5. Builder(n)'
    <3>1. Live(d, n)'
      BY <1>14 DEF ProvBegin, SetDeploymentState, ProvGo, Live, ProvType
    <3> QED
      BY <3>1 DEF Builder
  <2> QED
    BY <2>1, <2>2, <2>3, <2>4, <2>5, BuilderFrame, BuildersStay
<1>15. ASSUME NEW d \in Deploys, NEW n \in Nodes, ProvCreate(d, n) PROVE InFlightHasBuilder'
  <2>1. \A k \in Nodes : InFlight(k)' => InFlight(k)
    BY <1>15 DEF ProvCreate, ProvGo, InFlight, StoreType
  <2>2. \A k \in Nodes, e \in Deploys : Live(e, k) \/ cur[e] = k => (Live(e, k) \/ cur[e] = k)'
    BY <1>15 DEF ProvCreate, ProvGo, Live, ProvType, HandlerType
  <2>3. UNCHANGED <<tpc, tlist>>
    BY <1>15 DEF ProvCreate, ProvGo
  <2>4. Undisturbed' => Undisturbed
    BY <1>15 DEF ProvCreate, ProvGo, Undisturbed
  <2> QED
    BY <2>1, <2>2, <2>3, <2>4, BuilderFrame, BuildersStay
<1>16. ASSUME NEW d \in Deploys, NEW n \in Nodes, ProvRecord(d, n) PROVE InFlightHasBuilder'
  <2>1. \A k \in Nodes : InFlight(k)' /\ k # n => InFlight(k)
    BY <1>16 DEF ProvRecord, UpsertDeployment, ProvGo, InFlight, StoreType
  <2>2. \A k \in Nodes, e \in Deploys : Live(e, k) \/ cur[e] = k => (Live(e, k) \/ cur[e] = k)'
    BY <1>16 DEF ProvRecord, UpsertDeployment, ProvGo, Live, ProvType, HandlerType
  <2>3. UNCHANGED <<tpc, tlist>>
    BY <1>16 DEF ProvRecord, UpsertDeployment, ProvGo
  <2>4. Undisturbed' => Undisturbed
    BY <1>16 DEF ProvRecord, UpsertDeployment, ProvGo, Undisturbed
  <2>5. Builder(n)'
    <3>1. Live(d, n)'
      BY <1>16 DEF ProvRecord, UpsertDeployment, ProvGo, Live, ProvType
    <3> QED
      BY <3>1 DEF Builder
  <2> QED
    BY <2>1, <2>2, <2>3, <2>4, <2>5, BuilderFrame, BuildersStay
<1>17. ASSUME NEW d \in Deploys, NEW n \in Nodes, ProvSteps(d, n) PROVE InFlightHasBuilder'
  <2>1. \A k \in Nodes : InFlight(k)' => InFlight(k)
    BY <1>17 DEF ProvSteps, ProvGo, InFlight, StoreType
  <2>2. \A k \in Nodes, e \in Deploys : Live(e, k) \/ cur[e] = k => (Live(e, k) \/ cur[e] = k)'
    BY <1>17 DEF ProvSteps, ProvGo, Live, ProvType, HandlerType
  <2>3. UNCHANGED <<tpc, tlist>>
    BY <1>17 DEF ProvSteps, ProvGo
  <2>4. Undisturbed' => Undisturbed
    BY <1>17 DEF ProvSteps, ProvGo, Undisturbed
  <2> QED
    BY <2>1, <2>2, <2>3, <2>4, BuilderFrame, BuildersStay
<1>18. ASSUME NEW d \in Deploys, NEW n \in Nodes, ProvFinish(d, n) PROVE InFlightHasBuilder'
  <2>1. \A k \in Nodes : InFlight(k)' => InFlight(k) /\ k # n
    BY <1>18 DEF ProvFinish, SetDeploymentState, InFlight, StoreType
  <2>2. \A k \in Nodes, e \in Deploys : k # n /\ (Live(e, k) \/ cur[e] = k) => (Live(e, k) \/ cur[e] = k)'
    BY <1>18 DEF ProvFinish, ProvReturn, Live, ProvType
  <2>3. UNCHANGED <<tpc, tlist>> /\ (Undisturbed' => Undisturbed)
    BY <1>18 DEF ProvFinish, Undisturbed
  <2> QED
    BY <2>1, <2>2, <2>3, BuilderFrame, BuildersStay
<1>19. ASSUME NEW d \in Deploys, NEW n \in Nodes, ProvFail(d, n) PROVE InFlightHasBuilder'
  <2>1. \A k \in Nodes : InFlight(k)' => InFlight(k)
    BY <1>19 DEF ProvFail, SetDeploymentState, InFlight, StoreType
  <2>2. \A k \in Nodes, e \in Deploys : k # n /\ (Live(e, k) \/ cur[e] = k) => (Live(e, k) \/ cur[e] = k)'
    BY <1>19 DEF ProvFail, ProvReturn, Live, ProvType
  <2>3. UNCHANGED <<tpc, trun, tlist>> /\ (Undisturbed' => Undisturbed)
    BY <1>19 DEF ProvFail, Undisturbed
  <2>4. InFlight(n)' /\ Undisturbed => Builder(n)'
    <3> SUFFICES ASSUME InFlight(n)', Undisturbed PROVE Builder(n)'
      OBVIOUS
    <3>1. deployCancelled
      BY <1>19 DEF ProvFail, SetDeploymentState, InFlight, StoreType
    <3>2. Live(d, n) /\ Clean(d)
      BY <1>19 DEF ProvFail, Live, Undisturbed, Clean
    <3>3. registered = d /\ rel[d] \notin {"drop", "done"}
      BY <3>2 DEF ScopeInv, LiveIsRegistered, ReleasedIsOver
    <3>4. \E t \in Teardowns : tpc[t] = "wait" /\ trun[t] = registered
      BY <3>1, <3>3 DEF deployCancelled, QuietForATeardown, Undisturbed
    <3> QED
      BY <2>3, <3>4 DEF Builder
  <2> QED
    BY <2>1, <2>2, <2>3, <2>4, BuilderFrame, BuildersStay
<1>20. ASSUME NEW t \in Teardowns, TeardownCancel(t) PROVE InFlightHasBuilder'
  <2>1. \A k \in Nodes : InFlight(k)' => InFlight(k)
    BY <1>20 DEF TeardownCancel, InFlight, StoreType
  <2>2. UNCHANGED <<ppc, cur>> /\ (Undisturbed' => Undisturbed)
    BY <1>20 DEF TeardownCancel, Undisturbed
  <2>3. \A k \in Nodes : Builder(k) => Builder(k)'
    <3>1. \A s \in Teardowns : s # t => tpc'[s] = tpc[s] /\ tlist'[s] = tlist[s]
      BY <1>20 DEF TeardownCancel, TeardownType
    <3>2. tpc[t] = "idle"
      BY <1>20 DEF TeardownCancel
    <3> QED
      BY <2>2, <3>1, <3>2 DEF Builder, Live
  <2> QED
    BY <2>1, <2>2, <2>3, BuilderFrame
<1>21. ASSUME NEW t \in Teardowns, TeardownWaited(t) PROVE InFlightHasBuilder'
  <2>1. \A k \in Nodes : InFlight(k)' => InFlight(k)
    BY <1>21 DEF TeardownWaited, InFlight, StoreType
  <2>2. UNCHANGED <<ppc, cur>> /\ (Undisturbed' => Undisturbed)
    BY <1>21 DEF TeardownWaited, Undisturbed
  <2>3. \A k \in Nodes : Builder(k) => Builder(k)'
    <3>1. \A s \in Teardowns : s # t => tpc'[s] = tpc[s] /\ tlist'[s] = tlist[s]
      BY <1>21 DEF TeardownWaited, TeardownType
    <3>2. tpc'[t] = "list"
      BY <1>21 DEF TeardownWaited, TeardownType
    <3> QED
      BY <2>2, <3>1, <3>2 DEF Builder, Live
  <2> QED
    BY <2>1, <2>2, <2>3, BuilderFrame
<1>22. ASSUME NEW t \in Teardowns, TeardownList(t) PROVE InFlightHasBuilder'
  <2>1. \A k \in Nodes : InFlight(k)' => InFlight(k) /\ row[k] # None
    BY <1>22 DEF TeardownList, InFlight
  <2>2. Undisturbed' => Undisturbed
    BY <1>22 DEF TeardownList, Undisturbed
  <2>3. tpc'[t] = "remove" /\ tlist'[t] = Listed(Nodes)
    BY <1>22 DEF TeardownList, TeardownType
  <2>4. \A k \in Nodes : row[k] # None => \E x \in Listed(Nodes) : x[1] = k
    <3> SUFFICES ASSUME NEW k \in Nodes, row[k] # None PROVE \E x \in Listed(Nodes) : x[1] = k
      OBVIOUS
    <3>1. <<k, row[k].cid>> \in Listed(Nodes)
      BY DEF Listed
    <3> QED
      BY <3>1
  <2>5. \A k \in Nodes : InFlight(k)' => Builder(k)'
    BY <2>1, <2>3, <2>4 DEF Builder
  <2> QED
    BY <2>2, <2>5, BuilderFrame
<1>23. ASSUME NEW t \in Teardowns, TeardownRemove(t) PROVE InFlightHasBuilder'
  <2>1. UNCHANGED <<ppc, cur>> /\ (Undisturbed' => Undisturbed) /\ tpc[t] = "remove"
    BY <1>23 DEF TeardownRemove, Undisturbed
  <2>2. \A s \in Teardowns : s # t => tpc'[s] = tpc[s] /\ tlist'[s] = tlist[s]
    BY <1>23 DEF TeardownRemove, TeardownType
  <2>3. ASSUME NEW x \in tlist[t], removeNodeResources(x[1], x[2]), tlist' = [tlist EXCEPT ![t] = @ \ {x}],
               UNCHANGED tpc
        PROVE  InFlightHasBuilder'
    <3>1. \A k \in Nodes : InFlight(k)' => InFlight(k) /\ k # x[1]
      BY <2>3 DEF removeNodeResources, InFlight, StoreType
    <3>2. tlist'[t] = tlist[t] \ {x}
      BY <2>3 DEF TeardownType
    <3>3. \A k \in Nodes : k # x[1] /\ Builder(k) => Builder(k)'
      BY <2>1, <2>2, <2>3, <3>2 DEF Builder, Live
    <3> QED
      BY <2>1, <3>1, <3>3, BuilderFrame
  <2>4. ASSUME tlist[t] = {}, tpc' = [tpc EXCEPT ![t] = "sweep"], UNCHANGED <<row, tlist>>
        PROVE  InFlightHasBuilder'
    <3>1. \A k \in Nodes : Builder(k) => Builder(k)'
      BY <2>1, <2>2, <2>4 DEF Builder, Live
    <3>2. \A k \in Nodes : InFlight(k)' => InFlight(k)
      BY <2>4 DEF InFlight
    <3> QED
      BY <2>1, <3>1, <3>2, BuilderFrame
  <2> QED
    BY <1>23, <2>3, <2>4 DEF TeardownRemove
<1>24. ASSUME NEW t \in Teardowns, TeardownSweep(t) PROVE InFlightHasBuilder'
  <2>1. \A k \in Nodes : InFlight(k)' => InFlight(k)
    BY <1>24 DEF TeardownSweep, InFlight, StoreType
  <2>2. UNCHANGED <<ppc, cur>> /\ (Undisturbed' => Undisturbed)
    BY <1>24 DEF TeardownSweep, Undisturbed
  <2>3. \A k \in Nodes : Builder(k) => Builder(k)'
    <3>1. \A s \in Teardowns : s # t => tpc'[s] = tpc[s] /\ tlist'[s] = tlist[s]
      BY <1>24 DEF TeardownSweep, TeardownType
    <3>2. tpc[t] = "sweep"
      BY <1>24 DEF TeardownSweep
    <3> QED
      BY <2>2, <3>1, <3>2 DEF Builder, Live
  <2> QED
    BY <2>1, <2>2, <2>3, BuilderFrame
<1>25. ASSUME NEW t \in Teardowns, TeardownEnd(t) PROVE InFlightHasBuilder'
  <2>1. \A k \in Nodes : InFlight(k)' => InFlight(k)
    BY <1>25 DEF TeardownEnd, InFlight, StoreType
  <2>2. UNCHANGED <<ppc, cur>> /\ (Undisturbed' => Undisturbed)
    BY <1>25 DEF TeardownEnd, Undisturbed
  <2>3. \A k \in Nodes : Builder(k) => Builder(k)'
    <3>1. \A s \in Teardowns : s # t => tpc'[s] = tpc[s] /\ tlist'[s] = tlist[s]
      BY <1>25 DEF TeardownEnd, TeardownType
    <3>2. tpc[t] = "end"
      BY <1>25 DEF TeardownEnd
    <3> QED
      BY <2>2, <3>1, <3>2 DEF Builder, Live
  <2> QED
    BY <2>1, <2>2, <2>3, BuilderFrame
<1>26. ASSUME Restart PROVE InFlightHasBuilder'
  <2>1. \A k \in Nodes : ~InFlight(k)'
    BY <1>26 DEF Restart, failInterruptedDeployments, InFlight, StoreType
  <2> QED
    BY <2>1 DEF InFlightHasBuilder
<1>27. CASE UNCHANGED vars
  BY <1>27 DEF vars, InFlightHasBuilder, InFlight, Live
<1>28. QED
  BY <1>1, <1>2, <1>3, <1>4, <1>5, <1>6, <1>7, <1>8, <1>9, <1>10, <1>11, <1>12, <1>13,
     <1>14, <1>15, <1>16, <1>17, <1>18, <1>19, <1>20, <1>21, <1>22, <1>23, <1>24, <1>25,
     <1>26, <1>27 DEF Next, HandlerStep, ReleaseStep, ProvStep, TeardownStep

\* No row stays in flight without somebody to settle it, as long as no teardown overtook a handler
\* or gave up waiting: failNode, the quiet pxcProg.fail and failInterruptedDeployments leave none.
THEOREM NoRowForgotten == Spec => []InFlightHasBuilder
<1>1. Init => BuilderInv
  BY DEF Init, BuilderInv, JobInHandOnly, QuietForATeardown, InFlightHasBuilder, InFlight
<1>2. IndInv /\ BuilderInv /\ [Next]_vars => BuilderInv'
  BY JobInHandStep, QuietStep, BuilderStep DEF IndInv, BuilderInv
<1>3. BuilderInv => InFlightHasBuilder
  BY DEF BuilderInv
<1> QED
  BY <1>1, <1>2, <1>3, IndInvHolds, PTL DEF Spec

=============================================================================
