--------------------------- MODULE HostPortsProofs ---------------------------
(***************************************************************************)
(* Every published port is reserved for the container that pins it, and    *)
(* the host_ports table is a lease, for any ports, owners and bounds.      *)
(***************************************************************************)
EXTENDS HostPorts, TLAPS

\* Init establishes the inductive invariant: nothing is reserved, pinned or in progress.
LEMMA InitInv == Init => IndInv
  BY PortsAssumption DEF Init, IndInv, TypeOK, LockInv, SnapInv, OutInv, RemovedInv,
     PinsReserved, FixedInv, FixedNeverMoved, NoOrphanReservation, Pins, Want, NoWant, PC, Container

\* Every step keeps the types.
LEMMA TypeStep == TypeOK /\ [Next]_vars => TypeOK'
<1> SUFFICES ASSUME TypeOK, [Next]_vars PROVE TypeOK'
  OBVIOUS
<1> USE PortsAssumption DEF TypeOK, Want, NoWant, PC, Container, Pins
<1>1. ASSUME NEW o \in Owners, Deploy(o) PROVE TypeOK'
  BY <1>1 DEF Deploy, Goto
<1>2. ASSUME NEW o \in Owners, RemoveOld(o) PROVE TypeOK'
  <2>1. stuck' \in 0..MaxFaults /\ cont' \in [Owners -> Container \cup {None}]
    BY <1>2 DEF RemoveOld, ContainerRemove
  <2>2. pc' \in [Owners -> PC] /\ out' \in [Owners -> SUBSET Ports]
    BY <1>2 DEF RemoveOld, guardPublish, Goto
  <2> QED
    BY <1>2, <2>1, <2>2 DEF RemoveOld
<1>3. ASSUME NEW o \in Owners, PickLock(o) PROVE TypeOK'
  <2>1. NoWant \in Want
    BY DEF NoWant, Want
  <2>2. /\ pc' \in [Owners -> PC] /\ lock' \in Owners \cup {None}
        /\ want' \in [Owners -> Want] /\ snap' \in [Owners -> SUBSET Ports]
        /\ out' \in [Owners -> SUBSET Ports]
    <3> HIDE DEF Want, NoWant
    <3> QED
      BY <1>3, <2>1 DEF PickLock, Goto, Return
  <2> QED
    BY <1>3, <2>2 DEF PickLock
<1>4. ASSUME NEW o \in Owners, PickProbe(o) PROVE TypeOK'
  BY <1>4 DEF PickProbe, Goto
<1>5. ASSUME NEW o \in Owners, PickCommit(o) PROVE TypeOK'
  BY <1>5 DEF PickCommit, Goto, pickVars
<1>6. ASSUME NEW o \in Owners, ContainerCreate(o) PROVE TypeOK'
  BY <1>6 DEF ContainerCreate, Goto, pickVars
<1>7. ASSUME NEW o \in Owners, ContainerStart(o) PROVE TypeOK'
  BY <1>7 DEF ContainerStart, Goto, pickVars
<1>8. ASSUME NEW o \in Owners, Record(o) PROVE TypeOK'
  BY <1>8 DEF Record, Return
<1>9. ASSUME NEW o \in Owners, Fail(o) PROVE TypeOK'
  BY <1>9 DEF Fail, Return
<1>10. ASSUME NEW o \in Owners, StopStart(o) PROVE TypeOK'
  BY <1>10 DEF StopStart, pickVars
<1>11. ASSUME NEW o \in Owners, RemoveNode(o) PROVE TypeOK'
  BY <1>11 DEF RemoveNode, Goto, pickVars, ContainerRemove
<1>12. ASSUME NEW o \in Owners, DeleteDeployment(o) PROVE TypeOK'
  BY <1>12 DEF DeleteDeployment, Goto, pickVars
<1>13. ASSUME Restart PROVE TypeOK'
  BY <1>13 DEF Restart, reseedHostPorts
<1>14. CASE UNCHANGED vars
  BY <1>14 DEF vars, pickVars
<1> QED
  BY <1>1, <1>2, <1>3, <1>4, <1>5, <1>6, <1>7, <1>8, <1>9, <1>10, <1>11, <1>12, <1>13, <1>14 DEF Next, OwnerNext, ProvStep, PickStep

\* Only the holder of hostPortBook is between the read of the table and its commit.
LEMMA LockStep == TypeOK /\ LockInv /\ [Next]_vars => LockInv'
<1> SUFFICES ASSUME TypeOK /\ LockInv, [Next]_vars PROVE LockInv'
  OBVIOUS
<1> USE PortsAssumption DEF TypeOK, LockInv, PC
<1>1. ASSUME NEW o \in Owners, Deploy(o) PROVE LockInv'
  BY <1>1 DEF Deploy, Goto
<1>2. ASSUME NEW o \in Owners, RemoveOld(o) PROVE LockInv'
  BY <1>2 DEF RemoveOld, guardPublish, Goto, ContainerRemove
<1>3. ASSUME NEW o \in Owners, PickLock(o) PROVE LockInv'
  BY <1>3 DEF PickLock, Goto, Return
<1>4. ASSUME NEW o \in Owners, PickProbe(o) PROVE LockInv'
  BY <1>4 DEF PickProbe, Goto
<1>5. ASSUME NEW o \in Owners, PickCommit(o) PROVE LockInv'
  BY <1>5 DEF PickCommit, Goto, pickVars
<1>6. ASSUME NEW o \in Owners, ContainerCreate(o) PROVE LockInv'
  BY <1>6 DEF ContainerCreate, Goto, pickVars
<1>7. ASSUME NEW o \in Owners, ContainerStart(o) PROVE LockInv'
  BY <1>7 DEF ContainerStart, Goto, pickVars
<1>8. ASSUME NEW o \in Owners, Record(o) PROVE LockInv'
  BY <1>8 DEF Record, Return
<1>9. ASSUME NEW o \in Owners, Fail(o) PROVE LockInv'
  BY <1>9 DEF Fail, Return
<1>10. ASSUME NEW o \in Owners, StopStart(o) PROVE LockInv'
  BY <1>10 DEF StopStart, pickVars
<1>11. ASSUME NEW o \in Owners, RemoveNode(o) PROVE LockInv'
  BY <1>11 DEF RemoveNode, Goto, pickVars, ContainerRemove
<1>12. ASSUME NEW o \in Owners, DeleteDeployment(o) PROVE LockInv'
  BY <1>12 DEF DeleteDeployment, Goto, pickVars
<1>13. ASSUME Restart PROVE LockInv'
  BY <1>13 DEF Restart, reseedHostPorts
<1>14. CASE UNCHANGED vars
  BY <1>14 DEF vars, pickVars
<1> QED
  BY <1>1, <1>2, <1>3, <1>4, <1>5, <1>6, <1>7, <1>8, <1>9, <1>10, <1>11, <1>12, <1>13, <1>14 DEF Next, OwnerNext, ProvStep, PickStep

\* While one pick is under way other owners only release ports, so its snapshot covers them.
LEMMA SnapStep == TypeOK /\ LockInv /\ SnapInv /\ [Next]_vars => SnapInv'
<1> SUFFICES ASSUME TypeOK /\ LockInv /\ SnapInv, [Next]_vars PROVE SnapInv'
  OBVIOUS
<1> USE PortsAssumption DEF TypeOK, LockInv, SnapInv, PC
<1>1. ASSUME NEW o \in Owners, Deploy(o) PROVE SnapInv'
  BY <1>1 DEF Deploy, Goto
<1>2. ASSUME NEW o \in Owners, RemoveOld(o) PROVE SnapInv'
  BY <1>2 DEF RemoveOld, guardPublish, Goto, ContainerRemove
<1>3. ASSUME NEW o \in Owners, PickLock(o) PROVE SnapInv'
  BY <1>3 DEF PickLock, Goto, Return
<1>4. ASSUME NEW o \in Owners, PickProbe(o) PROVE SnapInv'
  BY <1>4 DEF PickProbe, Goto
<1>5. ASSUME NEW o \in Owners, PickCommit(o) PROVE SnapInv'
  BY <1>5 DEF PickCommit, Goto, pickVars
<1>6. ASSUME NEW o \in Owners, ContainerCreate(o) PROVE SnapInv'
  BY <1>6 DEF ContainerCreate, Goto, pickVars
<1>7. ASSUME NEW o \in Owners, ContainerStart(o) PROVE SnapInv'
  BY <1>7 DEF ContainerStart, Goto, pickVars
<1>8. ASSUME NEW o \in Owners, Record(o) PROVE SnapInv'
  BY <1>8 DEF Record, Return
<1>9. ASSUME NEW o \in Owners, Fail(o) PROVE SnapInv'
  BY <1>9 DEF Fail, Return
<1>10. ASSUME NEW o \in Owners, StopStart(o) PROVE SnapInv'
  BY <1>10 DEF StopStart, pickVars
<1>11. ASSUME NEW o \in Owners, RemoveNode(o) PROVE SnapInv'
  BY <1>11 DEF RemoveNode, Goto, pickVars, ContainerRemove
<1>12. ASSUME NEW o \in Owners, DeleteDeployment(o) PROVE SnapInv'
  BY <1>12 DEF DeleteDeployment, Goto, pickVars
<1>13. ASSUME Restart PROVE SnapInv'
  BY <1>13 DEF Restart, reseedHostPorts
<1>14. CASE UNCHANGED vars
  BY <1>14 DEF vars, pickVars
<1> QED
  BY <1>1, <1>2, <1>3, <1>4, <1>5, <1>6, <1>7, <1>8, <1>9, <1>10, <1>11, <1>12, <1>13, <1>14 DEF Next, OwnerNext, ProvStep, PickStep

\* What a pick settled on stays free, or its own, until the container is created.
LEMMA OutStep == TypeOK /\ LockInv /\ SnapInv /\ OutInv /\ [Next]_vars => OutInv'
<1> SUFFICES ASSUME TypeOK /\ LockInv /\ SnapInv /\ OutInv, [Next]_vars PROVE OutInv'
  OBVIOUS
<1> USE PortsAssumption DEF TypeOK, LockInv, SnapInv, OutInv, PC
<1>1. ASSUME NEW o \in Owners, Deploy(o) PROVE OutInv'
  BY <1>1 DEF Deploy, Goto
<1>2. ASSUME NEW o \in Owners, RemoveOld(o) PROVE OutInv'
  BY <1>2 DEF RemoveOld, guardPublish, Goto, ContainerRemove
<1>3. ASSUME NEW o \in Owners, PickLock(o) PROVE OutInv'
  BY <1>3 DEF PickLock, Goto, Return
<1>4. ASSUME NEW o \in Owners, PickProbe(o) PROVE OutInv'
  <2> DEFINE check == (want[o].fixed \cup want[o].auto) \ snap[o]
  <2>1. PICK free \in SUBSET (check \ Bound), picked \in SUBSET (Ports \ (snap[o] \cup check \cup Bound)) :
          \E K \in SUBSET picked : out' = [out EXCEPT ![o] = free \cup K]
    <3> HIDE DEF TypeOK, LockInv, SnapInv, OutInv, PC
    <3> QED
      BY <1>4, Zenon DEF PickProbe
  <2>2. want[o] \in Want
    BY DEF TypeOK
  <2>3. check \subseteq Ports
    BY <2>2 DEF Want
  <2>4. out'[o] \cap snap[o] = {} /\ out'[o] \subseteq Ports
    BY <2>1, <2>3
  <2>5. \A q \in Owners : q # o => out'[q] = out[q] /\ pc'[q] = pc[q]
    BY <1>4 DEF PickProbe, Goto
  <2>6. table' = table /\ pc[o] = "probe" /\ pc'[o] = "commit"
    BY <1>4 DEF PickProbe, Goto
  <2> QED
    BY <2>4, <2>5, <2>6
<1>5. ASSUME NEW o \in Owners, PickCommit(o) PROVE OutInv'
  BY <1>5 DEF PickCommit, Goto, pickVars
<1>6. ASSUME NEW o \in Owners, ContainerCreate(o) PROVE OutInv'
  BY <1>6 DEF ContainerCreate, Goto, pickVars
<1>7. ASSUME NEW o \in Owners, ContainerStart(o) PROVE OutInv'
  BY <1>7 DEF ContainerStart, Goto, pickVars
<1>8. ASSUME NEW o \in Owners, Record(o) PROVE OutInv'
  BY <1>8 DEF Record, Return
<1>9. ASSUME NEW o \in Owners, Fail(o) PROVE OutInv'
  BY <1>9 DEF Fail, Return
<1>10. ASSUME NEW o \in Owners, StopStart(o) PROVE OutInv'
  BY <1>10 DEF StopStart, pickVars
<1>11. ASSUME NEW o \in Owners, RemoveNode(o) PROVE OutInv'
  BY <1>11 DEF RemoveNode, Goto, pickVars, ContainerRemove
<1>12. ASSUME NEW o \in Owners, DeleteDeployment(o) PROVE OutInv'
  BY <1>12 DEF DeleteDeployment, Goto, pickVars
<1>13. ASSUME Restart PROVE OutInv'
  BY <1>13 DEF Restart, reseedHostPorts
<1>14. CASE UNCHANGED vars
  BY <1>14 DEF vars, pickVars
<1> QED
  BY <1>1, <1>2, <1>3, <1>4, <1>5, <1>6, <1>7, <1>8, <1>9, <1>10, <1>11, <1>12, <1>13, <1>14 DEF Next, OwnerNext, ProvStep, PickStep

\* The container of a removed node is gone, or its ports are counted as leaked.
LEMMA RemovedStep == TypeOK /\ RemovedInv /\ [Next]_vars => RemovedInv'
<1> SUFFICES ASSUME TypeOK /\ RemovedInv, [Next]_vars PROVE RemovedInv'
  OBVIOUS
<1> USE PortsAssumption DEF TypeOK, RemovedInv, PC, Pins, Container
<1>1. ASSUME NEW o \in Owners, Deploy(o) PROVE RemovedInv'
  BY <1>1 DEF Deploy, Goto
<1>2. ASSUME NEW o \in Owners, RemoveOld(o) PROVE RemovedInv'
  BY <1>2 DEF RemoveOld, guardPublish, Goto, ContainerRemove
<1>3. ASSUME NEW o \in Owners, PickLock(o) PROVE RemovedInv'
  BY <1>3 DEF PickLock, Goto, Return
<1>4. ASSUME NEW o \in Owners, PickProbe(o) PROVE RemovedInv'
  BY <1>4 DEF PickProbe, Goto
<1>5. ASSUME NEW o \in Owners, PickCommit(o) PROVE RemovedInv'
  BY <1>5 DEF PickCommit, Goto, pickVars
<1>6. ASSUME NEW o \in Owners, ContainerCreate(o) PROVE RemovedInv'
  BY <1>6 DEF ContainerCreate, Goto, pickVars
<1>7. ASSUME NEW o \in Owners, ContainerStart(o) PROVE RemovedInv'
  BY <1>7 DEF ContainerStart, Goto, pickVars
<1>8. ASSUME NEW o \in Owners, Record(o) PROVE RemovedInv'
  BY <1>8 DEF Record, Return
<1>9. ASSUME NEW o \in Owners, Fail(o) PROVE RemovedInv'
  BY <1>9 DEF Fail, Return
<1>10. ASSUME NEW o \in Owners, StopStart(o) PROVE RemovedInv'
  BY <1>10 DEF StopStart, pickVars
<1>11. ASSUME NEW o \in Owners, RemoveNode(o) PROVE RemovedInv'
  BY <1>11 DEF RemoveNode, Goto, pickVars, ContainerRemove
<1>12. ASSUME NEW o \in Owners, DeleteDeployment(o) PROVE RemovedInv'
  BY <1>12 DEF DeleteDeployment, Goto, pickVars
<1>13. ASSUME Restart PROVE RemovedInv'
  BY <1>13 DEF Restart, reseedHostPorts
<1>14. CASE UNCHANGED vars
  BY <1>14 DEF vars, pickVars
<1> QED
  BY <1>1, <1>2, <1>3, <1>4, <1>5, <1>6, <1>7, <1>8, <1>9, <1>10, <1>11, <1>12, <1>13, <1>14 DEF Next, OwnerNext, ProvStep, PickStep

\* No step takes a pinned port from its container's reservation.
LEMMA PinsStep == TypeOK /\ LockInv /\ OutInv /\ RemovedInv /\ PinsReserved /\ [Next]_vars => PinsReserved'
<1> SUFFICES ASSUME TypeOK /\ LockInv /\ OutInv /\ RemovedInv /\ PinsReserved, [Next]_vars PROVE PinsReserved'
  OBVIOUS
<1> USE PortsAssumption DEF TypeOK, LockInv, OutInv, RemovedInv, PinsReserved, PC, Pins, Container
<1>1. ASSUME NEW o \in Owners, Deploy(o) PROVE PinsReserved'
  BY <1>1 DEF Deploy, Goto
<1>2. ASSUME NEW o \in Owners, RemoveOld(o) PROVE PinsReserved'
  BY <1>2 DEF RemoveOld, guardPublish, Goto, ContainerRemove
<1>3. ASSUME NEW o \in Owners, PickLock(o) PROVE PinsReserved'
  BY <1>3 DEF PickLock, Goto, Return
<1>4. ASSUME NEW o \in Owners, PickProbe(o) PROVE PinsReserved'
  BY <1>4 DEF PickProbe, Goto
<1>5. ASSUME NEW o \in Owners, PickCommit(o) PROVE PinsReserved'
  BY <1>5 DEF PickCommit, Goto, pickVars
<1>6. ASSUME NEW o \in Owners, ContainerCreate(o) PROVE PinsReserved'
  BY <1>6 DEF ContainerCreate, Goto, pickVars
<1>7. ASSUME NEW o \in Owners, ContainerStart(o) PROVE PinsReserved'
  BY <1>7 DEF ContainerStart, Goto, pickVars
<1>8. ASSUME NEW o \in Owners, Record(o) PROVE PinsReserved'
  BY <1>8 DEF Record, Return
<1>9. ASSUME NEW o \in Owners, Fail(o) PROVE PinsReserved'
  BY <1>9 DEF Fail, Return
<1>10. ASSUME NEW o \in Owners, StopStart(o) PROVE PinsReserved'
  BY <1>10 DEF StopStart, pickVars
<1>11. ASSUME NEW o \in Owners, RemoveNode(o) PROVE PinsReserved'
  BY <1>11 DEF RemoveNode, Goto, pickVars, ContainerRemove
<1>12. ASSUME NEW o \in Owners, DeleteDeployment(o) PROVE PinsReserved'
  BY <1>12 DEF DeleteDeployment, Goto, pickVars
<1>13. ASSUME Restart PROVE PinsReserved'
  BY <1>13 DEF Restart, reseedHostPorts
<1>14. CASE UNCHANGED vars
  BY <1>14 DEF vars, pickVars
<1> QED
  BY <1>1, <1>2, <1>3, <1>4, <1>5, <1>6, <1>7, <1>8, <1>9, <1>10, <1>11, <1>12, <1>13, <1>14 DEF Next, OwnerNext, ProvStep, PickStep

\* A pick keeps the ports a user typed, or fails.
LEMMA FixedPickStep == TypeOK /\ FixedInv /\ [Next]_vars => FixedInv'
<1> SUFFICES ASSUME TypeOK /\ FixedInv, [Next]_vars PROVE FixedInv'
  OBVIOUS
<1> USE PortsAssumption DEF TypeOK, FixedInv, PC, Want, NoWant
<1>1. ASSUME NEW o \in Owners, Deploy(o) PROVE FixedInv'
  BY <1>1 DEF Deploy, Goto
<1>2. ASSUME NEW o \in Owners, RemoveOld(o) PROVE FixedInv'
  BY <1>2 DEF RemoveOld, guardPublish, Goto, ContainerRemove
<1>3. ASSUME NEW o \in Owners, PickLock(o) PROVE FixedInv'
  BY <1>3 DEF PickLock, Goto, Return
<1>4. ASSUME NEW o \in Owners, PickProbe(o) PROVE FixedInv'
  BY <1>4 DEF PickProbe, Goto
<1>5. ASSUME NEW o \in Owners, PickCommit(o) PROVE FixedInv'
  BY <1>5 DEF PickCommit, Goto, pickVars
<1>6. ASSUME NEW o \in Owners, ContainerCreate(o) PROVE FixedInv'
  BY <1>6 DEF ContainerCreate, Goto, pickVars
<1>7. ASSUME NEW o \in Owners, ContainerStart(o) PROVE FixedInv'
  BY <1>7 DEF ContainerStart, Goto, pickVars
<1>8. ASSUME NEW o \in Owners, Record(o) PROVE FixedInv'
  BY <1>8 DEF Record, Return
<1>9. ASSUME NEW o \in Owners, Fail(o) PROVE FixedInv'
  BY <1>9 DEF Fail, Return
<1>10. ASSUME NEW o \in Owners, StopStart(o) PROVE FixedInv'
  BY <1>10 DEF StopStart, pickVars
<1>11. ASSUME NEW o \in Owners, RemoveNode(o) PROVE FixedInv'
  BY <1>11 DEF RemoveNode, Goto, pickVars, ContainerRemove
<1>12. ASSUME NEW o \in Owners, DeleteDeployment(o) PROVE FixedInv'
  BY <1>12 DEF DeleteDeployment, Goto, pickVars
<1>13. ASSUME Restart PROVE FixedInv'
  BY <1>13 DEF Restart, reseedHostPorts
<1>14. CASE UNCHANGED vars
  BY <1>14 DEF vars, pickVars
<1> QED
  BY <1>1, <1>2, <1>3, <1>4, <1>5, <1>6, <1>7, <1>8, <1>9, <1>10, <1>11, <1>12, <1>13, <1>14 DEF Next, OwnerNext, ProvStep, PickStep

\* A container is created with what the pick settled on.
LEMMA FixedStep == TypeOK /\ FixedInv /\ FixedNeverMoved /\ [Next]_vars => FixedNeverMoved'
<1> SUFFICES ASSUME TypeOK /\ FixedInv /\ FixedNeverMoved, [Next]_vars PROVE FixedNeverMoved'
  OBVIOUS
<1> USE PortsAssumption DEF TypeOK, FixedInv, FixedNeverMoved, PC, Pins, Container
<1>1. ASSUME NEW o \in Owners, Deploy(o) PROVE FixedNeverMoved'
  BY <1>1 DEF Deploy, Goto
<1>2. ASSUME NEW o \in Owners, RemoveOld(o) PROVE FixedNeverMoved'
  BY <1>2 DEF RemoveOld, guardPublish, Goto, ContainerRemove
<1>3. ASSUME NEW o \in Owners, PickLock(o) PROVE FixedNeverMoved'
  BY <1>3 DEF PickLock, Goto, Return
<1>4. ASSUME NEW o \in Owners, PickProbe(o) PROVE FixedNeverMoved'
  BY <1>4 DEF PickProbe, Goto
<1>5. ASSUME NEW o \in Owners, PickCommit(o) PROVE FixedNeverMoved'
  BY <1>5 DEF PickCommit, Goto, pickVars
<1>6. ASSUME NEW o \in Owners, ContainerCreate(o) PROVE FixedNeverMoved'
  <2>1. /\ cont' = [cont EXCEPT ![o] = [pins |-> out[o], up |-> FALSE]]
        /\ want' = want /\ \A q \in Owners : q # o => pc'[q] = pc[q]
    BY <1>6 DEF ContainerCreate, Goto, pickVars
  <2>2. /\ cont'[o] = [pins |-> out[o], up |-> FALSE]
        /\ \A q \in Owners : q # o => cont'[q] = cont[q]
    BY <2>1
  <2>3. Pins(o)' = out[o]
    <3>1. cont'[o] \in Container
      BY <2>2
    <3>2. cont'[o] # None
      BY <3>1, ContainerAssumption
    <3> QED
      BY <2>2, <3>2
  <2>4. want[o].fixed \subseteq out[o]
    BY <1>6 DEF ContainerCreate
  <2>5. \A q \in Owners : q # o => Pins(q)' = Pins(q)
    BY <2>2
  <2> HIDE DEF Pins
  <2> QED
    BY <2>1, <2>3, <2>4, <2>5
<1>7. ASSUME NEW o \in Owners, ContainerStart(o) PROVE FixedNeverMoved'
  <2>1. /\ cont' = [cont EXCEPT ![o] = [pins |-> Pins(o), up |-> TRUE]]
        /\ want' = want /\ \A q \in Owners : q # o => pc'[q] = pc[q]
    BY <1>7 DEF ContainerStart, Goto, pickVars
  <2>2. /\ cont'[o] = [pins |-> Pins(o), up |-> TRUE]
        /\ \A q \in Owners : q # o => cont'[q] = cont[q]
    BY <2>1
  <2>3. Pins(o)' = Pins(o)
    <3>1. cont'[o] \in Container
      BY <2>2
    <3>2. cont'[o] # None
      BY <3>1, ContainerAssumption
    <3> QED
      BY <2>2, <3>2
  <2>4. want[o].fixed \subseteq Pins(o)
    BY <1>7 DEF ContainerStart
  <2>5. \A q \in Owners : q # o => Pins(q)' = Pins(q)
    BY <2>2
  <2> HIDE DEF Pins
  <2> QED
    BY <2>1, <2>3, <2>4, <2>5
<1>8. ASSUME NEW o \in Owners, Record(o) PROVE FixedNeverMoved'
  BY <1>8 DEF Record, Return
<1>9. ASSUME NEW o \in Owners, Fail(o) PROVE FixedNeverMoved'
  BY <1>9 DEF Fail, Return
<1>10. ASSUME NEW o \in Owners, StopStart(o) PROVE FixedNeverMoved'
  BY <1>10 DEF StopStart, pickVars
<1>11. ASSUME NEW o \in Owners, RemoveNode(o) PROVE FixedNeverMoved'
  BY <1>11 DEF RemoveNode, Goto, pickVars, ContainerRemove
<1>12. ASSUME NEW o \in Owners, DeleteDeployment(o) PROVE FixedNeverMoved'
  BY <1>12 DEF DeleteDeployment, Goto, pickVars
<1>13. ASSUME Restart PROVE FixedNeverMoved'
  BY <1>13 DEF Restart, reseedHostPorts
<1>14. CASE UNCHANGED vars
  BY <1>14 DEF vars, pickVars
<1> QED
  BY <1>1, <1>2, <1>3, <1>4, <1>5, <1>6, <1>7, <1>8, <1>9, <1>10, <1>11, <1>12, <1>13, <1>14 DEF Next, OwnerNext, ProvStep, PickStep

\* Reservations are made for deployed nodes, and go with them.
LEMMA OrphanStep == TypeOK /\ RemovedInv /\ NoOrphanReservation /\ [Next]_vars => NoOrphanReservation'
<1> SUFFICES ASSUME TypeOK /\ RemovedInv /\ NoOrphanReservation, [Next]_vars PROVE NoOrphanReservation'
  OBVIOUS
<1> USE PortsAssumption DEF TypeOK, RemovedInv, NoOrphanReservation, PC, Pins, Container
<1>1. ASSUME NEW o \in Owners, Deploy(o) PROVE NoOrphanReservation'
  BY <1>1 DEF Deploy, Goto
<1>2. ASSUME NEW o \in Owners, RemoveOld(o) PROVE NoOrphanReservation'
  BY <1>2 DEF RemoveOld, guardPublish, Goto, ContainerRemove
<1>3. ASSUME NEW o \in Owners, PickLock(o) PROVE NoOrphanReservation'
  BY <1>3 DEF PickLock, Goto, Return
<1>4. ASSUME NEW o \in Owners, PickProbe(o) PROVE NoOrphanReservation'
  BY <1>4 DEF PickProbe, Goto
<1>5. ASSUME NEW o \in Owners, PickCommit(o) PROVE NoOrphanReservation'
  BY <1>5 DEF PickCommit, Goto, pickVars
<1>6. ASSUME NEW o \in Owners, ContainerCreate(o) PROVE NoOrphanReservation'
  BY <1>6 DEF ContainerCreate, Goto, pickVars
<1>7. ASSUME NEW o \in Owners, ContainerStart(o) PROVE NoOrphanReservation'
  BY <1>7 DEF ContainerStart, Goto, pickVars
<1>8. ASSUME NEW o \in Owners, Record(o) PROVE NoOrphanReservation'
  BY <1>8 DEF Record, Return
<1>9. ASSUME NEW o \in Owners, Fail(o) PROVE NoOrphanReservation'
  BY <1>9 DEF Fail, Return
<1>10. ASSUME NEW o \in Owners, StopStart(o) PROVE NoOrphanReservation'
  BY <1>10 DEF StopStart, pickVars
<1>11. ASSUME NEW o \in Owners, RemoveNode(o) PROVE NoOrphanReservation'
  BY <1>11 DEF RemoveNode, Goto, pickVars, ContainerRemove
<1>12. ASSUME NEW o \in Owners, DeleteDeployment(o) PROVE NoOrphanReservation'
  BY <1>12 DEF DeleteDeployment, Goto, pickVars
<1>13. ASSUME Restart PROVE NoOrphanReservation'
  BY <1>13 DEF Restart, reseedHostPorts
<1>14. CASE UNCHANGED vars
  BY <1>14 DEF vars, pickVars
<1> QED
  BY <1>1, <1>2, <1>3, <1>4, <1>5, <1>6, <1>7, <1>8, <1>9, <1>10, <1>11, <1>12, <1>13, <1>14 DEF Next, OwnerNext, ProvStep, PickStep

\* The inductive invariant holds in every state.
THEOREM IndInvHolds == Spec => []IndInv
<1>1. Init => IndInv
  BY InitInv
<1>2. IndInv /\ [Next]_vars => IndInv'
  BY TypeStep, LockStep, SnapStep, OutStep, RemovedStep, PinsStep,
     FixedPickStep, FixedStep, OrphanStep DEF IndInv
<1> QED
  BY <1>1, <1>2, PTL DEF Spec

\* Every variable of the port bookkeeping keeps its type.
THEOREM TypeCorrect == Spec => []TypeOK
<1>1. IndInv => TypeOK
  BY DEF IndInv
<1> QED
  BY <1>1, IndInvHolds, PTL

\* hostports.go, item 3: a port that a container is pinned to is reserved for that container,
\* running or stopped, through concurrent picks, removals and restarts, except the ports of a
\* container that outlived its removal: by the removal of its node, or by a redeploy that could not
\* remove it and chose other ports.
THEOREM PinnedPortsReserved == Spec => []PinsReserved
<1>1. IndInv => PinsReserved
  BY DEF IndInv
<1> QED
  BY <1>1, IndInvHolds, PTL

\* hostports.go, pickHostPorts: a port a user typed is never moved, whatever others hold, release or
\* pick meanwhile: a container has it or was not created.
THEOREM FixedPortsKept == Spec => []FixedNeverMoved
<1>1. IndInv => FixedNeverMoved
  BY DEF IndInv
<1> QED
  BY <1>1, IndInvHolds, PTL

\* store.go, releaseNodePorts: no reservation outlives the deployment it was made for, over unlocked
\* releases, failed provisioners and restarts, but for ports of containers left behind.
THEOREM NoReservationOrphaned == Spec => []NoOrphanReservation
<1>1. IndInv => NoOrphanReservation
  BY DEF IndInv
<1> QED
  BY <1>1, IndInvHolds, PTL

\* Every step of the bookkeeping is a grant, a release, a rebuild or no step of the lease.
LEMMA LeaseStep == IndInv /\ [Next]_vars => [Lease!Next]_(Lease!leaseVars)
<1> SUFFICES ASSUME IndInv, [Next]_vars PROVE Lease!Next \/ UNCHANGED <<table, boots>>
  BY DEF Lease!leaseVars
<1>1. ASSUME NEW o \in Owners, PickCommit(o) PROVE Lease!Grant(o, out[o]) /\ out[o] \in SUBSET Ports
  BY <1>1 DEF PickCommit, Lease!Grant, IndInv, OutInv, TypeOK
<1>2. ASSUME NEW o \in Owners, DeleteDeployment(o) PROVE Lease!Release(o)
  BY <1>2 DEF DeleteDeployment, Lease!Release
<1>3. ASSUME Restart PROVE Lease!Rebuild
  BY <1>3 DEF Restart, reseedHostPorts, Lease!Rebuild, IndInv, TypeOK
<1>4. ASSUME NEW o \in Owners, OwnerNext(o), ~PickCommit(o), ~DeleteDeployment(o)
      PROVE  UNCHANGED <<table, boots>>
  BY <1>4 DEF OwnerNext, ProvStep, PickStep, Deploy, RemoveOld, PickLock, PickProbe, ContainerCreate,
     ContainerStart, Record, Fail, StopStart, RemoveNode
<1>5. CASE UNCHANGED vars
  BY <1>5 DEF vars
<1> QED
  BY <1>1, <1>2, <1>3, <1>4, <1>5 DEF Next, Lease!Next

\* The table is a lease: a reserved port leaves its owner only by the owner's own commit, by
\* the removal of the owner's node, or when the server starts over.
THEOREM RefinesLease == Spec => ImplementsLease
<1>1. Init => Lease!Init
  BY DEF Init, Lease!Init
<1> QED
  BY <1>1, LeaseStep, IndInvHolds, PTL DEF Spec, ImplementsLease, Lease!Spec

=============================================================================
