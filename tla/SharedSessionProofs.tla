------------------------- MODULE SharedSessionProofs -------------------------
(***************************************************************************)
(* Proofs about SharedSession for any guests, any shared terminals and any *)
(* number of hubs started one after the other.  IndInv is inductive; its   *)
(* parts are proved one lemma at a time, each with one step per action.    *)
(***************************************************************************)
EXTENDS SharedSession, TLAPS

\* A session nobody has joined yet satisfies the invariant.
LEMMA InitInv == Init => IndInv
  BY SessionAssumption DEF Init, IndInv, TypeOK, RegistryInv, BrowserInv, TimerInv,
     AbsentDriverIsTimed, EndReachesEveryone

\* What hubFor leaves: the registered hub, or a new one that is now registered.
Looked(h) ==
    \/ reg = h /\ reg # 0 /\ made' = made
    \/ reg = 0 /\ h \notin made /\ made' = made \cup {h}

\* Whichever it is, the hub it returns is the one that is registered.
LEMMA HubForGives ==
    ASSUME NEW h, hubFor(h)
    PROVE  h \in Hubs /\ reg' = h /\ Looked(h)
  BY SessionAssumption DEF hubFor, Looked

\* setController keeps the types of what it writes.
LEMMA SetControllerTypes ==
    ASSUME TypeOK, NEW h \in Hubs, NEW to \in Guests \cup {Host}, setController(h, to)
    PROVE  /\ ctrl' \in [Hubs -> Guests \cup {Host}] /\ handle' \in [Hubs -> Guests \cup {None}]
           /\ armed' \in [Hubs -> SUBSET Guests] /\ held' \in [Hubs -> BOOLEAN]
<1>1. CASE h \in ended \/ ctrl[h] = to
  BY <1>1 DEF setController, TypeOK
<1>2. CASE ~(h \in ended \/ ctrl[h] = to)
  <2>1. held' \in [Hubs -> BOOLEAN]
    <3>1. held \in [Hubs -> BOOLEAN] /\ held' = [held EXCEPT ![h] = to \in clients[h]]
      BY <1>2 DEF setController, TypeOK
    <3>2. (to \in clients[h]) \in BOOLEAN
      OBVIOUS
    <3> QED
      BY <3>1, <3>2
  <2>2. ctrl' \in [Hubs -> Guests \cup {Host}]
    BY <1>2 DEF setController, TypeOK
  <2>3. handle' \in [Hubs -> Guests \cup {None}] /\ armed' \in [Hubs -> SUBSET Guests]
    BY <1>2 DEF setController, StopGrace, TypeOK
  <2> QED
    BY <2>1, <2>2, <2>3
<1> QED
  BY <1>1, <1>2

\* Every step keeps the types.
LEMMA TypeStep == TypeOK /\ [Next]_vars => TypeOK'
<1> SUFFICES ASSUME TypeOK, [Next]_vars PROVE TypeOK'
  OBVIOUS
<1> USE SessionAssumption DEF TypeOK
<1>1. ASSUME NEW g \in Guests, JoinCheck(g) PROVE TypeOK'
  BY <1>1 DEF JoinCheck, control, life, terms
<1>2. ASSUME NEW g \in Guests, JoinHub(g) PROVE TypeOK'
  <2>1. PICK h \in Hubs : hubFor(h) /\ bhub' = [bhub EXCEPT ![g] = h]
    BY <1>2 DEF JoinHub
  <2>2. h \in Hubs /\ reg' = h /\ Looked(h)
    BY <2>1, HubForGives
  <2> QED
    BY <1>2, <2>1, <2>2 DEF JoinHub, Looked, control, terms
<1>3. ASSUME NEW g \in Guests, JoinAdd(g) PROVE TypeOK'
  <2> DEFINE h == bhub[g]
  <2>1. CASE h \in ended
    BY <1>3, <2>1 DEF JoinAdd, life, terms
  <2>2. CASE h \notin ended
    <3>1. held' \in [Hubs -> BOOLEAN]
      BY <1>3, <2>2, Zenon DEF JoinAdd
    <3>2. handle' \in [Hubs -> Guests \cup {None}] /\ armed' \in [Hubs -> SUBSET Guests]
      BY <1>3, <2>2 DEF JoinAdd, StopGrace
    <3>3. clients' \in [Hubs -> SUBSET Guests]
      BY <1>3, <2>2 DEF JoinAdd
    <3> QED
      BY <1>3, <2>2, <3>1, <3>2, <3>3 DEF JoinAdd, life, terms
  <2> QED
    BY <2>1, <2>2
<1>4. ASSUME NEW g \in Guests, clientGone(g) PROVE TypeOK'
  <2>1. handle' \in [Hubs -> Guests \cup {None}] /\ armed' \in [Hubs -> SUBSET Guests]
    BY <1>4 DEF clientGone
  <2>2. clients' \in [Hubs -> SUBSET Guests] /\ bhub' \in [Guests -> Hubs \cup {0}]
    BY <1>4 DEF clientGone
  <2> QED
    BY <1>4, <2>1, <2>2 DEF clientGone, life, terms
<1>5. ASSUME NEW h \in Hubs, NEW g \in Guests, GraceFires(h, g) PROVE TypeOK'
  BY <1>5 DEF GraceFires, people, life, terms
<1>6. ASSUME NEW h \in Hubs, NEW g \in Guests, GraceCheck(h, g) PROVE TypeOK'
  BY <1>6 DEF GraceCheck, people, life, terms
<1>7. ASSUME NEW g \in Guests, Release(g) PROVE TypeOK'
  BY <1>7 DEF Release, people, life, terms
<1>8. ASSUME NEW h \in Hubs, NEW g \in Guests, TakeBack(h, g) PROVE TypeOK'
  <2>1. /\ ctrl' \in [Hubs -> Guests \cup {Host}] /\ handle' \in [Hubs -> Guests \cup {None}]
        /\ armed' \in [Hubs -> SUBSET Guests] /\ held' \in [Hubs -> BOOLEAN]
    BY <1>8, SetControllerTypes DEF TakeBack
  <2> QED
    BY <1>8, <2>1 DEF TakeBack, people, life, terms
<1>9. ASSUME ControlCheck PROVE TypeOK'
  BY <1>9 DEF ControlCheck, control, people, life, terms
<1>10. ASSUME ControlSet PROVE TypeOK'
  <2>1. PICK h \in Hubs : hubFor(h) /\ setController(h, grant)
    BY <1>10 DEF ControlSet
  <2>2. h \in Hubs /\ reg' = h /\ Looked(h)
    BY <2>1, HubForGives
  <2>3. grant \in Guests \cup {Host}
    BY <1>10 DEF ControlSet
  <2>4. /\ ctrl' \in [Hubs -> Guests \cup {Host}] /\ handle' \in [Hubs -> Guests \cup {None}]
        /\ armed' \in [Hubs -> SUBSET Guests] /\ held' \in [Hubs -> BOOLEAN]
    BY <2>1, <2>3, SetControllerTypes
  <2> QED
    BY <1>10, <2>2, <2>4 DEF ControlSet, Looked, people, terms
<1>11. ASSUME NEW g \in Guests, Leave(g) PROVE TypeOK'
  BY <1>11 DEF Leave, life, terms
<1>12. ASSUME NEW h \in Hubs, EndMark(h) PROVE TypeOK'
  BY <1>12 DEF EndMark, people, terms
<1>13. ASSUME NEW h \in Hubs, EndStore(h) PROVE TypeOK'
  BY <1>13 DEF EndStore, control, people, terms
<1>14. ASSUME NEW h \in Hubs, EndClose(h) PROVE TypeOK'
  BY <1>14 DEF EndClose, Close, control, people
<1>15. ASSUME NEW h \in Hubs, EndCancel(h) PROVE TypeOK'
  BY <1>15 DEF EndCancel, control, terms
<1>16. ASSUME EndRow PROVE TypeOK'
  BY <1>16 DEF EndRow, control, people, terms
<1>17. ASSUME NEW t \in Terms, TermHub(t) PROVE TypeOK'
  <2>1. PICK h \in Hubs : hubFor(h) /\ thub' = [thub EXCEPT ![t] = h]
    BY <1>17 DEF TermHub
  <2>2. h \in Hubs /\ reg' = h /\ Looked(h)
    BY <2>1, HubForGives
  <2> QED
    BY <1>17, <2>1, <2>2 DEF TermHub, Looked, control, people
<1>18. ASSUME NEW t \in Terms, TermOpen(t) PROVE TypeOK'
  BY <1>18 DEF TermOpen, Close, control, people, life
<1>19. ASSUME NEW t \in Terms, TermClose(t) PROVE TypeOK'
  BY <1>19 DEF TermClose, Close, control, people, life
<1>20. ASSUME NEW t \in Terms, TermCheck(t) PROVE TypeOK'
  BY <1>20 DEF TermCheck, control, people, life
<1>21. CASE UNCHANGED vars
  BY <1>21 DEF vars, control, people, life, terms
<1> QED
  BY <1>1, <1>2, <1>3, <1>4, <1>5, <1>6, <1>7, <1>8, <1>9, <1>10, <1>11, <1>12, <1>13, <1>14,
     <1>15, <1>16, <1>17, <1>18, <1>19, <1>20, <1>21 DEF Next, Runs, Grace

\* The entry an end drops is its own: no other hub is started while it is there.
LEMMA RegistryStep == TypeOK /\ RegistryInv /\ [Next]_vars => RegistryInv'
<1> SUFFICES ASSUME TypeOK, RegistryInv, [Next]_vars PROVE RegistryInv'
  OBVIOUS
<1> USE SessionAssumption DEF TypeOK, RegistryInv
<1>1. ASSUME NEW g \in Guests, JoinCheck(g) PROVE RegistryInv'
  BY <1>1 DEF JoinCheck, control, life, terms
<1>2. ASSUME NEW g \in Guests, JoinHub(g) PROVE RegistryInv'
  <2>1. PICK h \in Hubs : hubFor(h) /\ bhub' = [bhub EXCEPT ![g] = h]
    BY <1>2 DEF JoinHub
  <2>2. h \in Hubs /\ reg' = h /\ Looked(h)
    BY <2>1, HubForGives
  <2> QED
    BY <1>2, <2>1, <2>2 DEF JoinHub, Looked, control, terms
<1>3. ASSUME NEW g \in Guests, JoinAdd(g) PROVE RegistryInv'
  BY <1>3 DEF JoinAdd, StopGrace, life, terms
<1>4. ASSUME NEW g \in Guests, clientGone(g) PROVE RegistryInv'
  BY <1>4 DEF clientGone, life, terms
<1>5. ASSUME NEW h \in Hubs, NEW g \in Guests, GraceFires(h, g) PROVE RegistryInv'
  BY <1>5 DEF GraceFires, people, life, terms
<1>6. ASSUME NEW h \in Hubs, NEW g \in Guests, GraceCheck(h, g) PROVE RegistryInv'
  BY <1>6 DEF GraceCheck, people, life, terms
<1>7. ASSUME NEW g \in Guests, Release(g) PROVE RegistryInv'
  BY <1>7 DEF Release, people, life, terms
<1>8. ASSUME NEW h \in Hubs, NEW g \in Guests, TakeBack(h, g) PROVE RegistryInv'
  BY <1>8 DEF TakeBack, setController, StopGrace, people, life, terms
<1>9. ASSUME ControlCheck PROVE RegistryInv'
  BY <1>9 DEF ControlCheck, control, people, life, terms
<1>10. ASSUME ControlSet PROVE RegistryInv'
  <2>1. PICK h \in Hubs : hubFor(h) /\ setController(h, grant)
    BY <1>10 DEF ControlSet
  <2>2. h \in Hubs /\ reg' = h /\ Looked(h)
    BY <2>1, HubForGives
  <2> QED
    BY <1>10, <2>2 DEF ControlSet, Looked, people
<1>11. ASSUME NEW g \in Guests, Leave(g) PROVE RegistryInv'
  BY <1>11 DEF Leave, life, terms
<1>12. ASSUME NEW h \in Hubs, EndMark(h) PROVE RegistryInv'
  BY <1>12 DEF EndMark, people, terms
<1>13. ASSUME NEW h \in Hubs, EndStore(h) PROVE RegistryInv'
  BY <1>13 DEF EndStore, control, people, terms
<1>14. ASSUME NEW h \in Hubs, EndClose(h) PROVE RegistryInv'
  BY <1>14 DEF EndClose, Close, control, people
<1>15. ASSUME NEW h \in Hubs, EndCancel(h) PROVE RegistryInv'
  BY <1>15 DEF EndCancel, control, terms
<1>16. ASSUME EndRow PROVE RegistryInv'
  BY <1>16 DEF EndRow, control, people, terms
<1>17. ASSUME NEW t \in Terms, TermHub(t) PROVE RegistryInv'
  <2>1. PICK h \in Hubs : hubFor(h) /\ thub' = [thub EXCEPT ![t] = h]
    BY <1>17 DEF TermHub
  <2>2. h \in Hubs /\ reg' = h /\ Looked(h)
    BY <2>1, HubForGives
  <2> QED
    BY <1>17, <2>1, <2>2 DEF TermHub, Looked, control, people
<1>18. ASSUME NEW t \in Terms, TermOpen(t) PROVE RegistryInv'
  BY <1>18 DEF TermOpen, Close, control, people, life
<1>19. ASSUME NEW t \in Terms, TermClose(t) PROVE RegistryInv'
  BY <1>19 DEF TermClose, Close, control, people, life
<1>20. ASSUME NEW t \in Terms, TermCheck(t) PROVE RegistryInv'
  BY <1>20 DEF TermCheck, control, people, life
<1>21. CASE UNCHANGED vars
  BY <1>21 DEF vars, control, people, life, terms
<1> QED
  BY <1>1, <1>2, <1>3, <1>4, <1>5, <1>6, <1>7, <1>8, <1>9, <1>10, <1>11, <1>12, <1>13, <1>14,
     <1>15, <1>16, <1>17, <1>18, <1>19, <1>20, <1>21 DEF Next, Runs, Grace

\* A browser enters only the hub it has looked up, and forgets it on its way out.
LEMMA BrowserStep == TypeOK /\ BrowserInv /\ [Next]_vars => BrowserInv'
<1> SUFFICES ASSUME TypeOK, BrowserInv, [Next]_vars PROVE BrowserInv'
  OBVIOUS
<1> USE SessionAssumption DEF TypeOK, BrowserInv
<1>1. ASSUME NEW g \in Guests, JoinCheck(g) PROVE BrowserInv'
  BY <1>1 DEF JoinCheck, control, life, terms
<1>2. ASSUME NEW g \in Guests, JoinHub(g) PROVE BrowserInv'
  <2>1. PICK h \in Hubs : hubFor(h) /\ bhub' = [bhub EXCEPT ![g] = h]
    BY <1>2 DEF JoinHub
  <2>2. h \in Hubs /\ reg' = h /\ Looked(h)
    BY <2>1, HubForGives
  <2> QED
    BY <1>2, <2>1, <2>2 DEF JoinHub, Looked, control, terms
<1>3. ASSUME NEW g \in Guests, JoinAdd(g) PROVE BrowserInv'
  BY <1>3 DEF JoinAdd, StopGrace, life, terms
<1>4. ASSUME NEW g \in Guests, clientGone(g) PROVE BrowserInv'
  BY <1>4 DEF clientGone, life, terms
<1>5. ASSUME NEW h \in Hubs, NEW g \in Guests, GraceFires(h, g) PROVE BrowserInv'
  BY <1>5 DEF GraceFires, people, life, terms
<1>6. ASSUME NEW h \in Hubs, NEW g \in Guests, GraceCheck(h, g) PROVE BrowserInv'
  BY <1>6 DEF GraceCheck, people, life, terms
<1>7. ASSUME NEW g \in Guests, Release(g) PROVE BrowserInv'
  BY <1>7 DEF Release, people, life, terms
<1>8. ASSUME NEW h \in Hubs, NEW g \in Guests, TakeBack(h, g) PROVE BrowserInv'
  BY <1>8 DEF TakeBack, setController, StopGrace, people, life, terms
<1>9. ASSUME ControlCheck PROVE BrowserInv'
  BY <1>9 DEF ControlCheck, control, people, life, terms
<1>10. ASSUME ControlSet PROVE BrowserInv'
  BY <1>10 DEF ControlSet, people
<1>11. ASSUME NEW g \in Guests, Leave(g) PROVE BrowserInv'
  BY <1>11 DEF Leave, life, terms
<1>12. ASSUME NEW h \in Hubs, EndMark(h) PROVE BrowserInv'
  BY <1>12 DEF EndMark, people, terms
<1>13. ASSUME NEW h \in Hubs, EndStore(h) PROVE BrowserInv'
  BY <1>13 DEF EndStore, control, people, terms
<1>14. ASSUME NEW h \in Hubs, EndClose(h) PROVE BrowserInv'
  BY <1>14 DEF EndClose, Close, control, people
<1>15. ASSUME NEW h \in Hubs, EndCancel(h) PROVE BrowserInv'
  BY <1>15 DEF EndCancel, control, terms
<1>16. ASSUME EndRow PROVE BrowserInv'
  BY <1>16 DEF EndRow, control, people, terms
<1>17. ASSUME NEW t \in Terms, TermHub(t) PROVE BrowserInv'
  <2>1. PICK h \in Hubs : hubFor(h) /\ thub' = [thub EXCEPT ![t] = h]
    BY <1>17 DEF TermHub
  <2>2. h \in Hubs /\ reg' = h /\ Looked(h)
    BY <2>1, HubForGives
  <2> QED
    BY <1>17, <2>1, <2>2 DEF TermHub, Looked, control, people
<1>18. ASSUME NEW t \in Terms, TermOpen(t) PROVE BrowserInv'
  BY <1>18 DEF TermOpen, Close, control, people, life
<1>19. ASSUME NEW t \in Terms, TermClose(t) PROVE BrowserInv'
  BY <1>19 DEF TermClose, Close, control, people, life
<1>20. ASSUME NEW t \in Terms, TermCheck(t) PROVE BrowserInv'
  BY <1>20 DEF TermCheck, control, people, life
<1>21. CASE UNCHANGED vars
  BY <1>21 DEF vars, control, people, life, terms
<1> QED
  BY <1>1, <1>2, <1>3, <1>4, <1>5, <1>6, <1>7, <1>8, <1>9, <1>10, <1>11, <1>12, <1>13, <1>14,
     <1>15, <1>16, <1>17, <1>18, <1>19, <1>20, <1>21 DEF Next, Runs, Grace

\* driverLost changes with the controller.
LEMMA TimerStep == TypeOK /\ RegistryInv /\ TimerInv /\ [Next]_vars => TimerInv'
<1> SUFFICES ASSUME TypeOK, RegistryInv, TimerInv, [Next]_vars PROVE TimerInv'
  OBVIOUS
<1> USE SessionAssumption DEF TypeOK, RegistryInv, TimerInv
<1>1. ASSUME NEW g \in Guests, JoinCheck(g) PROVE TimerInv'
  BY <1>1 DEF JoinCheck, control, life, terms
<1>2. ASSUME NEW g \in Guests, JoinHub(g) PROVE TimerInv'
  <2>1. PICK h \in Hubs : hubFor(h) /\ bhub' = [bhub EXCEPT ![g] = h]
    BY <1>2 DEF JoinHub
  <2>2. h \in Hubs /\ reg' = h /\ Looked(h)
    BY <2>1, HubForGives
  <2> QED
    BY <1>2, <2>1, <2>2 DEF JoinHub, Looked, control, terms
<1>3. ASSUME NEW g \in Guests, JoinAdd(g) PROVE TimerInv'
  BY <1>3 DEF JoinAdd, StopGrace, life, terms
<1>4. ASSUME NEW g \in Guests, clientGone(g) PROVE TimerInv'
  BY <1>4 DEF clientGone, life, terms
<1>5. ASSUME NEW h \in Hubs, NEW g \in Guests, GraceFires(h, g) PROVE TimerInv'
  BY <1>5 DEF GraceFires, people, life, terms
<1>6. ASSUME NEW h \in Hubs, NEW g \in Guests, GraceCheck(h, g) PROVE TimerInv'
  BY <1>6 DEF GraceCheck, people, life, terms
<1>7. ASSUME NEW g \in Guests, Release(g) PROVE TimerInv'
  BY <1>7 DEF Release, people, life, terms
<1>8. ASSUME NEW h \in Hubs, NEW g \in Guests, TakeBack(h, g) PROVE TimerInv'
  BY <1>8 DEF TakeBack, setController, StopGrace, people, life, terms
<1>9. ASSUME ControlCheck PROVE TimerInv'
  BY <1>9 DEF ControlCheck, control, people, life, terms
<1>10. ASSUME ControlSet PROVE TimerInv'
  <2>1. PICK h \in Hubs : hubFor(h) /\ setController(h, grant)
    BY <1>10 DEF ControlSet
  <2>2. UNCHANGED <<fired, back, clients, bpc, bhub, ended, epc>>
    BY <1>10 DEF ControlSet, people
  <2>5. made' = made \cup {h}
    <3>1. CASE reg = h /\ made' = made
      BY <3>1 DEF RegistryInv
    <3>2. CASE made' = made \cup {h}
      BY <3>2
    <3> QED
      BY <2>1, <3>1, <3>2, HubForGives DEF Looked
  <2>3. CASE h \in ended \/ ctrl[h] = grant
    BY <2>1, <2>2, <2>3, <2>5 DEF setController
  <2>4. CASE ~(h \in ended \/ ctrl[h] = grant)
    <3>1. /\ ctrl' = [ctrl EXCEPT ![h] = grant] /\ handle' = [handle EXCEPT ![h] = None]
          /\ held' = [held EXCEPT ![h] = grant \in clients[h]]
          /\ armed' = [armed EXCEPT ![h] = armed[h] \ {handle[h]}]
      BY <2>1, <2>4 DEF setController, StopGrace
    <3>2. ASSUME NEW k \in Hubs, k # h
          PROVE  /\ ctrl'[k] = ctrl[k] /\ handle'[k] = handle[k] /\ armed'[k] = armed[k]
                 /\ held'[k] <=> held[k]
      BY <3>1, <3>2
    <3>3. ctrl'[h] = grant /\ handle'[h] = None
      BY <3>1
    <3>4. held'[h] = (grant \in clients[h])
      BY <3>1
    <3> QED
      BY <2>2, <2>4, <2>5, <3>2, <3>3, <3>4
  <2> QED
    BY <2>3, <2>4
<1>11. ASSUME NEW g \in Guests, Leave(g) PROVE TimerInv'
  BY <1>11 DEF Leave, life, terms
<1>12. ASSUME NEW h \in Hubs, EndMark(h) PROVE TimerInv'
  BY <1>12 DEF EndMark, people, terms
<1>13. ASSUME NEW h \in Hubs, EndStore(h) PROVE TimerInv'
  BY <1>13 DEF EndStore, control, people, terms
<1>14. ASSUME NEW h \in Hubs, EndClose(h) PROVE TimerInv'
  BY <1>14 DEF EndClose, Close, control, people
<1>15. ASSUME NEW h \in Hubs, EndCancel(h) PROVE TimerInv'
  BY <1>15 DEF EndCancel, control, terms
<1>16. ASSUME EndRow PROVE TimerInv'
  BY <1>16 DEF EndRow, control, people, terms
<1>17. ASSUME NEW t \in Terms, TermHub(t) PROVE TimerInv'
  <2>1. PICK h \in Hubs : hubFor(h) /\ thub' = [thub EXCEPT ![t] = h]
    BY <1>17 DEF TermHub
  <2>2. h \in Hubs /\ reg' = h /\ Looked(h)
    BY <2>1, HubForGives
  <2> QED
    BY <1>17, <2>1, <2>2 DEF TermHub, Looked, control, people
<1>18. ASSUME NEW t \in Terms, TermOpen(t) PROVE TimerInv'
  BY <1>18 DEF TermOpen, Close, control, people, life
<1>19. ASSUME NEW t \in Terms, TermClose(t) PROVE TimerInv'
  BY <1>19 DEF TermClose, Close, control, people, life
<1>20. ASSUME NEW t \in Terms, TermCheck(t) PROVE TimerInv'
  BY <1>20 DEF TermCheck, control, people, life
<1>21. CASE UNCHANGED vars
  BY <1>21 DEF vars, control, people, life, terms
<1> QED
  BY <1>1, <1>2, <1>3, <1>4, <1>5, <1>6, <1>7, <1>8, <1>9, <1>10, <1>11, <1>12, <1>13, <1>14,
     <1>15, <1>16, <1>17, <1>18, <1>19, <1>20, <1>21 DEF Next, Runs, Grace

\* No race of timers, returns and hand-overs leaves an absent driver without a clock.
LEMMA AbsentStep ==
    TypeOK /\ RegistryInv /\ BrowserInv /\ TimerInv /\ AbsentDriverIsTimed /\ [Next]_vars
        => AbsentDriverIsTimed'
<1> SUFFICES ASSUME TypeOK, RegistryInv, BrowserInv, TimerInv, AbsentDriverIsTimed, [Next]_vars
             PROVE  AbsentDriverIsTimed'
  OBVIOUS
<1> USE SessionAssumption DEF TypeOK, BrowserInv, TimerInv, AbsentDriverIsTimed
<1>1. ASSUME NEW g \in Guests, JoinCheck(g) PROVE AbsentDriverIsTimed'
  BY <1>1 DEF JoinCheck, control, life, terms
<1>2. ASSUME NEW g \in Guests, JoinHub(g) PROVE AbsentDriverIsTimed'
  <2>1. PICK h \in Hubs : hubFor(h) /\ bhub' = [bhub EXCEPT ![g] = h]
    BY <1>2 DEF JoinHub
  <2>2. h \in Hubs /\ reg' = h /\ Looked(h)
    BY <2>1, HubForGives
  <2>3. /\ UNCHANGED <<ctrl, armed, fired, back, held, clients, ended>>
        /\ made' \subseteq made \cup {h} /\ made \subseteq made'
    BY <1>2, <2>2 DEF JoinHub, Looked, control, people
  <2>4. ASSUME NEW k \in made' \ ended' PROVE k \in made \ ended \/ ctrl[k] = Host
    BY <2>3, <2>4
  <2> QED
    BY <2>3, <2>4
<1>3. ASSUME NEW g \in Guests, JoinAdd(g) PROVE AbsentDriverIsTimed'
  BY <1>3 DEF JoinAdd, StopGrace, life, terms
<1>4. ASSUME NEW g \in Guests, clientGone(g) PROVE AbsentDriverIsTimed'
  BY <1>4 DEF clientGone, life, terms
<1>5. ASSUME NEW h \in Hubs, NEW g \in Guests, GraceFires(h, g) PROVE AbsentDriverIsTimed'
  BY <1>5 DEF GraceFires, people, life, terms
<1>6. ASSUME NEW h \in Hubs, NEW g \in Guests, GraceCheck(h, g) PROVE AbsentDriverIsTimed'
  BY <1>6 DEF GraceCheck, people, life, terms
<1>7. ASSUME NEW g \in Guests, Release(g) PROVE AbsentDriverIsTimed'
  BY <1>7 DEF Release, people, life, terms
<1>8. ASSUME NEW h \in Hubs, NEW g \in Guests, TakeBack(h, g) PROVE AbsentDriverIsTimed'
  BY <1>8 DEF TakeBack, setController, StopGrace, people, life, terms
<1>9. ASSUME ControlCheck PROVE AbsentDriverIsTimed'
  BY <1>9 DEF ControlCheck, control, people, life, terms
<1>10. ASSUME ControlSet PROVE AbsentDriverIsTimed'
  <2>1. PICK h \in Hubs : hubFor(h) /\ setController(h, grant)
    BY <1>10 DEF ControlSet
  <2>2. UNCHANGED <<fired, back, clients, bpc, bhub, ended, epc>>
    BY <1>10 DEF ControlSet, people
  <2>5. made' = made \cup {h}
    <3>1. CASE reg = h /\ made' = made
      BY <3>1 DEF RegistryInv
    <3>2. CASE made' = made \cup {h}
      BY <3>2
    <3> QED
      BY <2>1, <3>1, <3>2, HubForGives DEF Looked
  <2>3. CASE h \in ended \/ ctrl[h] = grant
    BY <2>1, <2>2, <2>3, <2>5 DEF setController
  <2>4. CASE ~(h \in ended \/ ctrl[h] = grant)
    <3>1. /\ ctrl' = [ctrl EXCEPT ![h] = grant] /\ handle' = [handle EXCEPT ![h] = None]
          /\ held' = [held EXCEPT ![h] = grant \in clients[h]]
          /\ armed' = [armed EXCEPT ![h] = armed[h] \ {handle[h]}]
      BY <2>1, <2>4 DEF setController, StopGrace
    <3>2. ASSUME NEW k \in Hubs, k # h
          PROVE  /\ ctrl'[k] = ctrl[k] /\ handle'[k] = handle[k] /\ armed'[k] = armed[k]
                 /\ held'[k] <=> held[k]
      BY <3>1, <3>2
    <3>3. ctrl'[h] = grant /\ handle'[h] = None
      BY <3>1
    <3>4. held'[h] = (grant \in clients[h])
      BY <3>1
    <3> QED
      BY <2>2, <2>4, <2>5, <3>2, <3>3, <3>4
  <2> QED
    BY <2>3, <2>4
<1>11. ASSUME NEW g \in Guests, Leave(g) PROVE AbsentDriverIsTimed'
  BY <1>11 DEF Leave, life, terms
<1>12. ASSUME NEW h \in Hubs, EndMark(h) PROVE AbsentDriverIsTimed'
  BY <1>12 DEF EndMark, people, terms
<1>13. ASSUME NEW h \in Hubs, EndStore(h) PROVE AbsentDriverIsTimed'
  BY <1>13 DEF EndStore, control, people, terms
<1>14. ASSUME NEW h \in Hubs, EndClose(h) PROVE AbsentDriverIsTimed'
  BY <1>14 DEF EndClose, Close, control, people
<1>15. ASSUME NEW h \in Hubs, EndCancel(h) PROVE AbsentDriverIsTimed'
  BY <1>15 DEF EndCancel, control, terms
<1>16. ASSUME EndRow PROVE AbsentDriverIsTimed'
  BY <1>16 DEF EndRow, control, people, terms
<1>17. ASSUME NEW t \in Terms, TermHub(t) PROVE AbsentDriverIsTimed'
  <2>1. PICK h \in Hubs : hubFor(h) /\ thub' = [thub EXCEPT ![t] = h]
    BY <1>17 DEF TermHub
  <2>2. h \in Hubs /\ reg' = h /\ Looked(h)
    BY <2>1, HubForGives
  <2>3. /\ UNCHANGED <<ctrl, armed, fired, back, held, clients, ended>>
        /\ made' \subseteq made \cup {h} /\ made \subseteq made'
    BY <1>17, <2>2 DEF TermHub, Looked, control, people
  <2>4. ASSUME NEW k \in made' \ ended' PROVE k \in made \ ended \/ ctrl[k] = Host
    BY <2>3, <2>4
  <2> QED
    BY <2>3, <2>4
<1>18. ASSUME NEW t \in Terms, TermOpen(t) PROVE AbsentDriverIsTimed'
  BY <1>18 DEF TermOpen, Close, control, people, life
<1>19. ASSUME NEW t \in Terms, TermClose(t) PROVE AbsentDriverIsTimed'
  BY <1>19 DEF TermClose, Close, control, people, life
<1>20. ASSUME NEW t \in Terms, TermCheck(t) PROVE AbsentDriverIsTimed'
  BY <1>20 DEF TermCheck, control, people, life
<1>21. CASE UNCHANGED vars
  BY <1>21 DEF vars, control, people, life, terms
<1> QED
  BY <1>1, <1>2, <1>3, <1>4, <1>5, <1>6, <1>7, <1>8, <1>9, <1>10, <1>11, <1>12, <1>13, <1>14,
     <1>15, <1>16, <1>17, <1>18, <1>19, <1>20, <1>21 DEF Next, Runs, Grace

\* Nothing enters a hub behind the back of its end.
LEMMA EndStep == TypeOK /\ RegistryInv /\ BrowserInv /\ EndReachesEveryone /\ [Next]_vars => EndReachesEveryone'
<1> SUFFICES ASSUME TypeOK, RegistryInv, BrowserInv, EndReachesEveryone, [Next]_vars PROVE EndReachesEveryone'
  OBVIOUS
<1> USE SessionAssumption DEF TypeOK, RegistryInv, BrowserInv, EndReachesEveryone
<1>1. ASSUME NEW g \in Guests, JoinCheck(g) PROVE EndReachesEveryone'
  BY <1>1 DEF JoinCheck, control, life, terms
<1>2. ASSUME NEW g \in Guests, JoinHub(g) PROVE EndReachesEveryone'
  <2>1. PICK h \in Hubs : hubFor(h) /\ bhub' = [bhub EXCEPT ![g] = h]
    BY <1>2 DEF JoinHub
  <2>2. h \in Hubs /\ reg' = h /\ Looked(h)
    BY <2>1, HubForGives
  <2> QED
    BY <1>2, <2>1, <2>2 DEF JoinHub, Looked, control, terms
<1>3. ASSUME NEW g \in Guests, JoinAdd(g) PROVE EndReachesEveryone'
  BY <1>3 DEF JoinAdd, StopGrace, life, terms
<1>4. ASSUME NEW g \in Guests, clientGone(g) PROVE EndReachesEveryone'
  BY <1>4 DEF clientGone, life, terms
<1>5. ASSUME NEW h \in Hubs, NEW g \in Guests, GraceFires(h, g) PROVE EndReachesEveryone'
  BY <1>5 DEF GraceFires, people, life, terms
<1>6. ASSUME NEW h \in Hubs, NEW g \in Guests, GraceCheck(h, g) PROVE EndReachesEveryone'
  BY <1>6 DEF GraceCheck, people, life, terms
<1>7. ASSUME NEW g \in Guests, Release(g) PROVE EndReachesEveryone'
  BY <1>7 DEF Release, people, life, terms
<1>8. ASSUME NEW h \in Hubs, NEW g \in Guests, TakeBack(h, g) PROVE EndReachesEveryone'
  BY <1>8 DEF TakeBack, setController, StopGrace, people, life, terms
<1>9. ASSUME ControlCheck PROVE EndReachesEveryone'
  BY <1>9 DEF ControlCheck, control, people, life, terms
<1>10. ASSUME ControlSet PROVE EndReachesEveryone'
  BY <1>10 DEF ControlSet, people, terms
<1>11. ASSUME NEW g \in Guests, Leave(g) PROVE EndReachesEveryone'
  BY <1>11 DEF Leave, life, terms
<1>12. ASSUME NEW h \in Hubs, EndMark(h) PROVE EndReachesEveryone'
  BY <1>12 DEF EndMark, people, terms
<1>13. ASSUME NEW h \in Hubs, EndStore(h) PROVE EndReachesEveryone'
  BY <1>13 DEF EndStore, control, people, terms
<1>14. ASSUME NEW h \in Hubs, EndClose(h) PROVE EndReachesEveryone'
  BY <1>14 DEF EndClose, Close, control, people
<1>15. ASSUME NEW h \in Hubs, EndCancel(h) PROVE EndReachesEveryone'
  BY <1>15 DEF EndCancel, control, terms
<1>16. ASSUME EndRow PROVE EndReachesEveryone'
  BY <1>16 DEF EndRow, control, people, terms
<1>17. ASSUME NEW t \in Terms, TermHub(t) PROVE EndReachesEveryone'
  <2>1. PICK h \in Hubs : hubFor(h) /\ thub' = [thub EXCEPT ![t] = h]
    BY <1>17 DEF TermHub
  <2>2. h \in Hubs /\ reg' = h /\ Looked(h)
    BY <2>1, HubForGives
  <2> QED
    BY <1>17, <2>1, <2>2 DEF TermHub, Looked, control, people
<1>18. ASSUME NEW t \in Terms, TermOpen(t) PROVE EndReachesEveryone'
  BY <1>18 DEF TermOpen, Close, control, people, life
<1>19. ASSUME NEW t \in Terms, TermClose(t) PROVE EndReachesEveryone'
  BY <1>19 DEF TermClose, Close, control, people, life
<1>20. ASSUME NEW t \in Terms, TermCheck(t) PROVE EndReachesEveryone'
  BY <1>20 DEF TermCheck, control, people, life
<1>21. CASE UNCHANGED vars
  BY <1>21 DEF vars, control, people, life, terms
<1> QED
  BY <1>1, <1>2, <1>3, <1>4, <1>5, <1>6, <1>7, <1>8, <1>9, <1>10, <1>11, <1>12, <1>13, <1>14,
     <1>15, <1>16, <1>17, <1>18, <1>19, <1>20, <1>21 DEF Next, Runs, Grace

\* The inductive invariant holds in every state.
THEOREM IndInvHolds == Spec => []IndInv
<1>1. IndInv /\ [Next]_vars => IndInv'
  BY TypeStep, RegistryStep, BrowserStep, TimerStep, AbsentStep, EndStep DEF IndInv
<1> QED
  BY <1>1, InitInv, PTL DEF Spec

\* Every variable of the session, its hubs, browsers and terminals keeps its type.
THEOREM TypeCorrect == Spec => []TypeOK
<1>1. IndInv => TypeOK
  BY DEF IndInv
<1> QED
  BY <1>1, IndInvHolds, PTL

\* sharehub.go, end: although it deletes the registry's entry by the session's id, long after it has
\* let the mutex go, it never deletes the entry of a hub that is running.
THEOREM RunningHubIsFound == Spec => []RunningHubIsRegistered
<1>1. IndInv => RunningHubIsRegistered
  BY DEF IndInv, RunningHubIsRegistered, RegistryInv, TypeOK
<1> QED
  BY <1>1, IndInvHolds, PTL

\* sharehub.go, clientGone and setController: until the session ends, a guest who drove from a browser
\* and has none left is always on the clock.  Excepted is one who is given control while no browser
\* of theirs is in the hub (held).
THEOREM AbsentDriverOnTheClock == Spec => []AbsentDriverIsTimed
<1>1. IndInv => AbsentDriverIsTimed
  BY DEF IndInv
<1> QED
  BY <1>1, IndInvHolds, PTL

\* sharehub.go, end: every browser and every terminal that was in the hub is reached.
THEOREM EndMissesNobody == Spec => []EndReachesEveryone
<1>1. IndInv => EndReachesEveryone
  BY DEF IndInv
<1> QED
  BY <1>1, IndInvHolds, PTL
=============================================================================
