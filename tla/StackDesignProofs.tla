-------------------------- MODULE StackDesignProofs --------------------------
(***************************************************************************)
(* Proofs about StackDesign for any nodes and any number of edits, PUTs,   *)
(* switches and deploys.  IndInv is inductive; its parts are proved one    *)
(* lemma at a time, each with one step per action.                         *)
(***************************************************************************)
EXTENDS StackDesign, TLAPS

\* A stack as it was drawn, before anybody saves or deploys it, satisfies the invariant.
LEMMA InitInv == Init => IndInv
<1> SUFFICES ASSUME Init PROVE IndInv
  OBVIOUS
<1>1. TypeOK
  BY DesignAssumption DEF Init, TypeOK, Writers
<1>2. EditInv /\ CheckInv
  BY DesignAssumption DEF Init, EditInv, CheckInv, Writers
<1>3. PruneInv /\ DeployedAsRead
  BY DEF Init, PruneInv, DeployedAsRead
<1> QED
  BY <1>1, <1>2, <1>3 DEF IndInv

\* Every step keeps the types.
LEMMA TypeStep == TypeOK /\ [Next]_vars => TypeOK'
<1> SUFFICES ASSUME TypeOK, [Next]_vars PROVE TypeOK'
  OBVIOUS
<1> USE DesignAssumption DEF TypeOK, Writers, Toggle
<1>1. ASSUME NEW e \in Edits, EditLoad(e) PROVE TypeOK'
  BY <1>1 DEF EditLoad, doc, switch, deploy
<1>2. ASSUME NEW p \in Puts, Show(p) PROVE TypeOK'
  BY <1>2 DEF Show, doc, switch, deploy
<1>3. ASSUME NEW p \in Puts, PutLoad(p) PROVE TypeOK'
  BY <1>3 DEF PutLoad, doc, switch, deploy
<1>4. ASSUME NEW w \in Writers, CheckFrozen(w) PROVE TypeOK'
  BY <1>4 DEF CheckFrozen, Return, doc, switch, deploy
<1>5. ASSUME NEW w \in Writers, Store(w) PROVE TypeOK'
  BY <1>5 DEF Store, UpdateStack, switch, deploy
<1>6. ASSUME NEW w \in Writers, cleanupRemovedNodes(w) PROVE TypeOK'
  BY <1>6 DEF cleanupRemovedNodes, Return, Rows, doc, switch, deploy
<1>7. ASSUME NEW w \in Writers, Remove(w) PROVE TypeOK'
  BY <1>7 DEF Remove, doc, switch, deploy
<1>8. ASSUME NEW p \in Promotes, PromoteLoad(p) PROVE TypeOK'
  BY <1>8 DEF PromoteLoad, doc, writer, deploy
<1>9. ASSUME NEW p \in Promotes, recordNewPrimary(p) PROVE TypeOK'
  BY <1>9 DEF recordNewPrimary, UpdateStack, doc, writer, deploy
<1>10. ASSUME NEW d \in Deploys, DeployLoad(d) PROVE TypeOK'
  BY <1>10 DEF DeployLoad, doc, writer, switch
<1>11. ASSUME NEW d \in Deploys, DeployBegin(d) PROVE TypeOK'
  BY <1>11 DEF DeployBegin, Rows, doc, writer, switch
<1>12. ASSUME NEW d \in Deploys, DeployPrune(d) PROVE TypeOK'
  BY <1>12 DEF DeployPrune, doc, writer, switch
<1>13. ASSUME NEW d \in Deploys, DeployRow(d) PROVE TypeOK'
  BY <1>13 DEF DeployRow, doc, writer, switch
<1>14. ASSUME NEW n \in Nodes, Provisioned(n) PROVE TypeOK'
  BY <1>14 DEF Provisioned, doc, writer, switch, deploy
<1>15. ASSUME NEW d \in Deploys, DeployEnd(d) PROVE TypeOK'
  BY <1>15 DEF DeployEnd, doc, writer, switch
<1>16. CASE UNCHANGED vars
  BY <1>16 DEF vars, doc, writer, switch, deploy
<1> QED
  BY <1>1, <1>2, <1>3, <1>4, <1>5, <1>6, <1>7, <1>8, <1>9, <1>10, <1>11, <1>12, <1>13, <1>14,
     <1>15, <1>16 DEF Next, Cleanup

\* Only the edit that has the lock changes a node that an edit made, as far as edited tells.
LEMMA EditStep == TypeOK /\ EditInv /\ [Next]_vars => EditInv'
<1> SUFFICES ASSUME TypeOK, EditInv, [Next]_vars PROVE EditInv'
  OBVIOUS
<1> USE DesignAssumption DEF TypeOK, EditInv, Writers
<1>1. ASSUME NEW e \in Edits, EditLoad(e) PROVE EditInv'
  BY <1>1 DEF EditLoad, doc, switch, deploy
<1>2. ASSUME NEW p \in Puts, Show(p) PROVE EditInv'
  BY <1>2 DEF Show, doc, switch, deploy
<1>3. ASSUME NEW p \in Puts, PutLoad(p) PROVE EditInv'
  BY <1>3 DEF PutLoad, doc, switch, deploy
<1>4. ASSUME NEW w \in Writers, CheckFrozen(w) PROVE EditInv'
  BY <1>4 DEF CheckFrozen, Return, doc, switch, deploy
<1>5. ASSUME NEW w \in Writers, Store(w) PROVE EditInv'
  BY <1>5 DEF Store, UpdateStack, switch, deploy
<1>6. ASSUME NEW w \in Writers, cleanupRemovedNodes(w) PROVE EditInv'
  BY <1>6 DEF cleanupRemovedNodes, Return, Rows, doc, switch, deploy
<1>7. ASSUME NEW w \in Writers, Remove(w) PROVE EditInv'
  BY <1>7 DEF Remove, doc, switch, deploy
<1>8. ASSUME NEW p \in Promotes, PromoteLoad(p) PROVE EditInv'
  BY <1>8 DEF PromoteLoad, doc, writer, deploy
<1>9. ASSUME NEW p \in Promotes, recordNewPrimary(p) PROVE EditInv'
  BY <1>9 DEF recordNewPrimary, UpdateStack, doc, writer, deploy
<1>10. ASSUME NEW d \in Deploys, DeployLoad(d) PROVE EditInv'
  BY <1>10 DEF DeployLoad, doc, writer, switch
<1>11. ASSUME NEW d \in Deploys, DeployBegin(d) PROVE EditInv'
  BY <1>11 DEF DeployBegin, Rows, doc, writer, switch
<1>12. ASSUME NEW d \in Deploys, DeployPrune(d) PROVE EditInv'
  BY <1>12 DEF DeployPrune, doc, writer, switch
<1>13. ASSUME NEW d \in Deploys, DeployRow(d) PROVE EditInv'
  BY <1>13 DEF DeployRow, doc, writer, switch
<1>14. ASSUME NEW n \in Nodes, Provisioned(n) PROVE EditInv'
  BY <1>14 DEF Provisioned, doc, writer, switch, deploy
<1>15. ASSUME NEW d \in Deploys, DeployEnd(d) PROVE EditInv'
  BY <1>15 DEF DeployEnd, doc, writer, switch
<1>16. CASE UNCHANGED vars
  BY <1>16 DEF vars, doc, writer, switch, deploy
<1> QED
  BY <1>1, <1>2, <1>3, <1>4, <1>5, <1>6, <1>7, <1>8, <1>9, <1>10, <1>11, <1>12, <1>13, <1>14,
     <1>15, <1>16 DEF Next, Cleanup

\* No writer gets past its check to take off a node whose row is in flight by then.
LEMMA CheckStep == TypeOK /\ CheckInv /\ [Next]_vars => CheckInv'
<1> SUFFICES ASSUME TypeOK, CheckInv, [Next]_vars PROVE CheckInv'
  OBVIOUS
<1> USE DesignAssumption DEF TypeOK, CheckInv, deployInProgress
<1>1. ASSUME NEW e \in Edits, EditLoad(e) PROVE CheckInv'
  BY <1>1 DEF EditLoad, doc, switch, deploy
<1>2. ASSUME NEW p \in Puts, Show(p) PROVE CheckInv'
  BY <1>2 DEF Show, doc, switch, deploy
<1>3. ASSUME NEW p \in Puts, PutLoad(p) PROVE CheckInv'
  BY <1>3 DEF PutLoad, doc, switch, deploy
<1>4. ASSUME NEW w \in Writers, CheckFrozen(w) PROVE CheckInv'
  BY <1>4 DEF CheckFrozen, Return, doc, switch, deploy
<1>5. ASSUME NEW w \in Writers, Store(w) PROVE CheckInv'
  BY <1>5 DEF Store, UpdateStack, switch, deploy
<1>6. ASSUME NEW w \in Writers, cleanupRemovedNodes(w) PROVE CheckInv'
  BY <1>6 DEF cleanupRemovedNodes, Return, Rows, doc, switch, deploy
<1>7. ASSUME NEW w \in Writers, Remove(w) PROVE CheckInv'
  BY <1>7 DEF Remove, doc, switch, deploy
<1>8. ASSUME NEW p \in Promotes, PromoteLoad(p) PROVE CheckInv'
  BY <1>8 DEF PromoteLoad, doc, writer, deploy
<1>9. ASSUME NEW p \in Promotes, recordNewPrimary(p) PROVE CheckInv'
  BY <1>9 DEF recordNewPrimary, UpdateStack, doc, writer, deploy
<1>10. ASSUME NEW d \in Deploys, DeployLoad(d) PROVE CheckInv'
  BY <1>10 DEF DeployLoad, doc, writer, switch
<1>11. ASSUME NEW d \in Deploys, DeployBegin(d) PROVE CheckInv'
  BY <1>11 DEF DeployBegin, Rows, doc, writer, switch
<1>12. ASSUME NEW d \in Deploys, DeployPrune(d) PROVE CheckInv'
  BY <1>12 DEF DeployPrune, doc, writer, switch
<1>13. ASSUME NEW d \in Deploys, DeployRow(d) PROVE CheckInv'
  BY <1>13 DEF DeployRow, doc, writer, switch
<1>14. ASSUME NEW n \in Nodes, Provisioned(n) PROVE CheckInv'
  BY <1>14 DEF Provisioned, doc, writer, switch, deploy
<1>15. ASSUME NEW d \in Deploys, DeployEnd(d) PROVE CheckInv'
  BY <1>15 DEF DeployEnd, doc, writer, switch
<1>16. CASE UNCHANGED vars
  BY <1>16 DEF vars, doc, writer, switch, deploy
<1> QED
  BY <1>1, <1>2, <1>3, <1>4, <1>5, <1>6, <1>7, <1>8, <1>9, <1>10, <1>11, <1>12, <1>13, <1>14,
     <1>15, <1>16 DEF Next, Cleanup

\* The deploy that is registered removes every row that is not in what it read.
LEMMA PruneStep == TypeOK /\ PruneInv /\ [Next]_vars => PruneInv'
<1> SUFFICES ASSUME TypeOK, PruneInv, [Next]_vars PROVE PruneInv'
  OBVIOUS
<1> USE DesignAssumption DEF TypeOK, PruneInv, Rows
<1>1. ASSUME NEW e \in Edits, EditLoad(e) PROVE PruneInv'
  BY <1>1 DEF EditLoad, doc, switch, deploy
<1>2. ASSUME NEW p \in Puts, Show(p) PROVE PruneInv'
  BY <1>2 DEF Show, doc, switch, deploy
<1>3. ASSUME NEW p \in Puts, PutLoad(p) PROVE PruneInv'
  BY <1>3 DEF PutLoad, doc, switch, deploy
<1>4. ASSUME NEW w \in Writers, CheckFrozen(w) PROVE PruneInv'
  BY <1>4 DEF CheckFrozen, Return, doc, switch, deploy
<1>5. ASSUME NEW w \in Writers, Store(w) PROVE PruneInv'
  BY <1>5 DEF Store, UpdateStack, switch, deploy
<1>6. ASSUME NEW w \in Writers, cleanupRemovedNodes(w) PROVE PruneInv'
  BY <1>6 DEF cleanupRemovedNodes, Return, Rows, doc, switch, deploy
<1>7. ASSUME NEW w \in Writers, Remove(w) PROVE PruneInv'
  BY <1>7 DEF Remove, doc, switch, deploy
<1>8. ASSUME NEW p \in Promotes, PromoteLoad(p) PROVE PruneInv'
  BY <1>8 DEF PromoteLoad, doc, writer, deploy
<1>9. ASSUME NEW p \in Promotes, recordNewPrimary(p) PROVE PruneInv'
  BY <1>9 DEF recordNewPrimary, UpdateStack, doc, writer, deploy
<1>10. ASSUME NEW d \in Deploys, DeployLoad(d) PROVE PruneInv'
  BY <1>10 DEF DeployLoad, doc, writer, switch
<1>11. ASSUME NEW d \in Deploys, DeployBegin(d) PROVE PruneInv'
  BY <1>11 DEF DeployBegin, Rows, doc, writer, switch
<1>12. ASSUME NEW d \in Deploys, DeployPrune(d) PROVE PruneInv'
  BY <1>12 DEF DeployPrune, doc, writer, switch
<1>13. ASSUME NEW d \in Deploys, DeployRow(d) PROVE PruneInv'
  BY <1>13 DEF DeployRow, doc, writer, switch
<1>14. ASSUME NEW n \in Nodes, Provisioned(n) PROVE PruneInv'
  BY <1>14 DEF Provisioned, doc, writer, switch, deploy
<1>15. ASSUME NEW d \in Deploys, DeployEnd(d) PROVE PruneInv'
  BY <1>15 DEF DeployEnd, doc, writer, switch
<1>16. CASE UNCHANGED vars
  BY <1>16 DEF vars, doc, writer, switch, deploy
<1> QED
  BY <1>1, <1>2, <1>3, <1>4, <1>5, <1>6, <1>7, <1>8, <1>9, <1>10, <1>11, <1>12, <1>13, <1>14,
     <1>15, <1>16 DEF Next, Cleanup

\* Nobody but that deploy makes rows, and it makes them for what it read.
LEMMA DeployedStep == TypeOK /\ PruneInv /\ DeployedAsRead /\ [Next]_vars => DeployedAsRead'
<1> SUFFICES ASSUME TypeOK, PruneInv, DeployedAsRead, [Next]_vars PROVE DeployedAsRead'
  OBVIOUS
<1> USE DesignAssumption DEF TypeOK, PruneInv, DeployedAsRead, Rows
<1>1. ASSUME NEW e \in Edits, EditLoad(e) PROVE DeployedAsRead'
  BY <1>1 DEF EditLoad, doc, switch, deploy
<1>2. ASSUME NEW p \in Puts, Show(p) PROVE DeployedAsRead'
  BY <1>2 DEF Show, doc, switch, deploy
<1>3. ASSUME NEW p \in Puts, PutLoad(p) PROVE DeployedAsRead'
  BY <1>3 DEF PutLoad, doc, switch, deploy
<1>4. ASSUME NEW w \in Writers, CheckFrozen(w) PROVE DeployedAsRead'
  BY <1>4 DEF CheckFrozen, Return, doc, switch, deploy
<1>5. ASSUME NEW w \in Writers, Store(w) PROVE DeployedAsRead'
  BY <1>5 DEF Store, UpdateStack, switch, deploy
<1>6. ASSUME NEW w \in Writers, cleanupRemovedNodes(w) PROVE DeployedAsRead'
  BY <1>6 DEF cleanupRemovedNodes, Return, Rows, doc, switch, deploy
<1>7. ASSUME NEW w \in Writers, Remove(w) PROVE DeployedAsRead'
  BY <1>7 DEF Remove, doc, switch, deploy
<1>8. ASSUME NEW p \in Promotes, PromoteLoad(p) PROVE DeployedAsRead'
  BY <1>8 DEF PromoteLoad, doc, writer, deploy
<1>9. ASSUME NEW p \in Promotes, recordNewPrimary(p) PROVE DeployedAsRead'
  BY <1>9 DEF recordNewPrimary, UpdateStack, doc, writer, deploy
<1>10. ASSUME NEW d \in Deploys, DeployLoad(d) PROVE DeployedAsRead'
  BY <1>10 DEF DeployLoad, doc, writer, switch
<1>11. ASSUME NEW d \in Deploys, DeployBegin(d) PROVE DeployedAsRead'
  BY <1>11 DEF DeployBegin, Rows, doc, writer, switch
<1>12. ASSUME NEW d \in Deploys, DeployPrune(d) PROVE DeployedAsRead'
  BY <1>12 DEF DeployPrune, doc, writer, switch
<1>13. ASSUME NEW d \in Deploys, DeployRow(d) PROVE DeployedAsRead'
  BY <1>13 DEF DeployRow, doc, writer, switch
<1>14. ASSUME NEW n \in Nodes, Provisioned(n) PROVE DeployedAsRead'
  BY <1>14 DEF Provisioned, doc, writer, switch, deploy
<1>15. ASSUME NEW d \in Deploys, DeployEnd(d) PROVE DeployedAsRead'
  BY <1>15 DEF DeployEnd, doc, writer, switch
<1>16. CASE UNCHANGED vars
  BY <1>16 DEF vars, doc, writer, switch, deploy
<1> QED
  BY <1>1, <1>2, <1>3, <1>4, <1>5, <1>6, <1>7, <1>8, <1>9, <1>10, <1>11, <1>12, <1>13, <1>14,
     <1>15, <1>16 DEF Next, Cleanup

\* The inductive invariant holds in every state.
THEOREM IndInvHolds == Spec => []IndInv
<1>1. IndInv /\ [Next]_vars => IndInv'
  BY TypeStep, EditStep, CheckStep, PruneStep, DeployedStep DEF IndInv
<1> QED
  BY <1>1, InitInv, PTL DEF Spec

\* Every variable of the design, the requests that save it and the deploys keeps its type.
THEOREM TypeCorrect == Spec => []TypeOK
<1>1. IndInv => TypeOK
  BY DEF IndInv
<1> QED
  BY <1>1, IndInvHolds, PTL

\* intranet.go, handleDeployStack: from its first new row until it ends, the only nodes deployed are
\* those of the design it read, however saves, switches and clean-ups raced with it and with the
\* deploys before it.
THEOREM OnlyWhatWasRead == Spec => []DeployedAsRead
<1>1. IndInv => DeployedAsRead
  BY DEF IndInv
<1> QED
  BY <1>1, IndInvHolds, PTL

\* A step that stores the design of a writer stores what that writer has prepared.
LEMMA OnlyStoreStores ==
    ASSUME TypeOK, [Next]_vars, NEW w \in Writers, wpc[w] = "checked", wpc'[w] = "stored"
    PROVE  design' = next[w]
<1> USE DesignAssumption DEF TypeOK, Writers
<1>1. CASE \E v \in Writers : Store(v)
  BY <1>1 DEF Store, UpdateStack
<1>2. CASE \E v \in Writers : CheckFrozen(v) \/ cleanupRemovedNodes(v)
  BY <1>2 DEF CheckFrozen, cleanupRemovedNodes, Return
<1>3. CASE \/ \E k \in Edits : EditLoad(k)
           \/ \E p \in Puts : Show(p) \/ PutLoad(p)
  BY <1>3 DEF EditLoad, Show, PutLoad
<1>4. CASE UNCHANGED wpc
  BY <1>4
<1> QED
  BY <1>1, <1>2, <1>3, <1>4 DEF Next, Cleanup, Remove, PromoteLoad, recordNewPrimary, DeployLoad,
     DeployBegin, DeployPrune, DeployRow, DeployEnd, Provisioned, vars, writer

\* designedit.go, saveStackDesign: a save that takes a node off the canvas while the node's row is in
\* flight had passed its check before that row was made, or had loaded a design without the node.
THEOREM FreezeHolds == Spec => FrozenOnceRowsExist
<1> DEFINE Frozen == \A w \in Writers : wpc[w] = "checked" /\ wpc'[w] = "stored" =>
                        \A n \in design \ design' :
                            row[n] = "inflight" => w \in ahead[n] \/ n \notin base[w]
<1>1. TypeOK /\ CheckInv /\ [Next]_vars => [Frozen]_vars
  BY OnlyStoreStores DEF CheckInv
<1>2. IndInv => TypeOK /\ CheckInv
  BY DEF IndInv
<1> QED
  BY <1>1, <1>2, IndInvHolds, PTL DEF Spec, FrozenOnceRowsExist

\* designedit.go, lockStackEdits: no edit is saved over by another edit, whatever the writers without
\* the lock store in between.
THEOREM NoEditIsLost == Spec => EditsSurvive
<1> DEFINE Keeps == \A e \in Edits : wpc[e] = "checked" /\ wpc'[e] = "stored" =>
                        \A n \in Nodes \ {target[e]} :
                            n \in edited => (n \in design' <=> n \in design)
<1>1. TypeOK /\ EditInv /\ [Next]_vars => [Keeps]_vars
  <2> SUFFICES ASSUME TypeOK, EditInv, [Next]_vars,
                      NEW e \in Edits, wpc[e] = "checked", wpc'[e] = "stored",
                      NEW n \in Nodes \ {target[e]}, n \in edited
               PROVE  n \in design' <=> n \in design
    OBVIOUS
  <2>1. design' = next[e]
    BY OnlyStoreStores DEF Writers
  <2>2. /\ next[e] = Toggle(base[e], target[e])
        /\ n \in design <=> n \in base[e]
    BY DEF EditInv
  <2> QED
    BY <2>1, <2>2 DEF Toggle
<1>2. IndInv => TypeOK /\ EditInv
  BY DEF IndInv
<1> QED
  BY <1>1, <1>2, IndInvHolds, PTL DEF Spec, EditsSurvive
=============================================================================
