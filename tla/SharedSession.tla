---------------------------- MODULE SharedSession ----------------------------
(***************************************************************************)
(* The live half of ONE shared session:                                    *)
(*                                                                         *)
(*   app/sharehub.go   the registry of hubs, joining, control, the grace   *)
(*                     timer of a driver who drops, the end                *)
(*   app/share.go      handleShareControl, handleJoinLeave, endShare       *)
(*   app/shareterm.go  handleShareTermOpen                                 *)
(*                                                                         *)
(* A request reads the session's row, looks its hub up (starting one when  *)
(* there is none) and only then takes the hub's mutex: the three are       *)
(* separate steps, and the session may end between any two of them.  Each  *)
(* step here is one stretch of code under a mutex or one write of the row. *)
(* What the hub relays (chat, follow, cursor, mirror) is left out.         *)
(***************************************************************************)
EXTENDS Naturals, FiniteSets

CONSTANTS
    Guests,    \* admitted guests, each with one browser
    Host,      \* controller 0
    Terms,     \* shared terminals, each opened at most once
    Hubs,      \* hubs, in the order in which they can be started
    None

ASSUME SessionAssumption ==
    /\ Host \notin Guests /\ None \notin Guests \cup {Host}
    /\ Hubs \subseteq Nat /\ 0 \notin Hubs

VARIABLES
    row,       \* share_sessions: "live" or "ended"
    reg,       \* shareHubs: the session's hub, 0 when it has none
    made,      \* hubs started so far
    ended,     \* hubs with ended set
    epc,       \* hub -> how far its end() has come
    ctrl,      \* hub -> controller
    clients,   \* hub -> the guests whose browser is in it
    handle,    \* hub -> driverLost: the guest its timer is for
    armed,     \* hub -> guests with a grace timer running
    fired,     \* hub -> guests whose timer has fired and waits for the mutex
    back,      \* hub -> guests found to have lost or given up control: setController(0) is next
    state,     \* guest -> "admitted" or "left"
    bpc, bhub, \* guest's browser -> "away", "checked", "hub", "in", and the hub it has looked up
    cut,       \* guests whose browser's context is cancelled
    grant,     \* handleShareControl: whom it has found admitted
    tpc, thub, \* terminal -> "none", "checked", "hub", "open", "closed", and its hub
    listed,    \* hub -> terminals end() has listed
    \* history
    held,      \* hub -> TRUE if its controller has had a browser in it since it got control
    late       \* terminals registered on a hub that had ended

control == <<ctrl, handle, armed, fired, back, held>>
people  == <<clients, bpc, bhub, cut, state>>
life    == <<row, reg, made, ended, epc, listed>>
terms   == <<tpc, thub, late>>
vars    == <<control, people, life, terms, grant>>

Init ==
    /\ row = "live" /\ reg = 0 /\ made = {} /\ ended = {} /\ epc = [h \in Hubs |-> "no"]
    /\ ctrl = [h \in Hubs |-> Host] /\ clients = [h \in Hubs |-> {}]
    /\ handle = [h \in Hubs |-> None]
    /\ armed = [h \in Hubs |-> {}] /\ fired = [h \in Hubs |-> {}] /\ back = [h \in Hubs |-> {}]
    /\ state = [g \in Guests |-> "admitted"]
    /\ bpc = [g \in Guests |-> "away"] /\ bhub = [g \in Guests |-> 0] /\ cut = {}
    /\ grant = None
    /\ tpc = [t \in Terms |-> "none"] /\ thub = [t \in Terms |-> 0]
    /\ listed = [h \in Hubs |-> {}]
    /\ held = [h \in Hubs |-> FALSE] /\ late = {}

-----------------------------------------------------------------------------
(* The registry *)

\* hubFor: the registered hub, or one that is started; its timers are armed with it.
hubFor(h) ==
    /\ h \in Hubs
    /\ IF reg # 0
       THEN h = reg /\ UNCHANGED <<reg, made>>
       ELSE /\ h \notin made /\ \A k \in Hubs \ made : h <= k
            /\ reg' = h /\ made' = made \cup {h}

\* Timer.Stop on driverLost: it keeps a timer from firing, not one that has fired.
StopGrace(h) ==
    /\ armed' = [armed EXCEPT ![h] = @ \ {handle[h]}]
    /\ handle' = [handle EXCEPT ![h] = None]

\* setController, with the mutex held throughout.
setController(h, to) ==
    IF h \in ended \/ ctrl[h] = to
    THEN UNCHANGED <<ctrl, handle, armed, held>>
    ELSE /\ ctrl' = [ctrl EXCEPT ![h] = to]
         /\ held' = [held EXCEPT ![h] = to \in clients[h]]
         /\ StopGrace(h)

-----------------------------------------------------------------------------
(* A browser joining: shareCaller, hubFor, and the part under the hub's mutex *)

JoinCheck(g) ==
    /\ bpc[g] = "away" /\ row = "live" /\ state[g] = "admitted"
    /\ bpc' = [bpc EXCEPT ![g] = "checked"]
    /\ UNCHANGED <<control, clients, bhub, cut, state, life, terms, grant>>

JoinHub(g) ==
    /\ bpc[g] = "checked"
    /\ \E h \in Hubs : hubFor(h) /\ bhub' = [bhub EXCEPT ![g] = h]
    /\ bpc' = [bpc EXCEPT ![g] = "hub"]
    /\ UNCHANGED <<control, clients, cut, state, row, ended, epc, listed, terms, grant>>

\* Seeded fault: the browser is added without asking whether the hub has ended.
JoinAddAnyway(g) ==
    LET h == bhub[g] IN
    /\ bpc[g] = "hub"
    /\ clients' = [clients EXCEPT ![h] = @ \cup {g}]
    /\ bpc' = [bpc EXCEPT ![g] = "in"]
    /\ held' = [held EXCEPT ![h] = @ \/ ctrl[h] = g]
    /\ IF handle[h] # None /\ ctrl[h] = g THEN StopGrace(h) ELSE UNCHANGED <<handle, armed>>
    /\ UNCHANGED <<ctrl, fired, back, bhub, cut, state, life, terms, grant>>

\* Refused by a hub that has ended; a driver who is back in time stops the timer.
JoinAdd(g) ==
    LET h == bhub[g] IN
    /\ bpc[g] = "hub"
    /\ IF h \in ended
       THEN /\ bpc' = [bpc EXCEPT ![g] = "away"] /\ bhub' = [bhub EXCEPT ![g] = 0]
            /\ UNCHANGED <<clients, handle, armed, held>>
       ELSE /\ clients' = [clients EXCEPT ![h] = @ \cup {g}]
            /\ bpc' = [bpc EXCEPT ![g] = "in"] /\ UNCHANGED bhub
            /\ held' = [held EXCEPT ![h] = @ \/ ctrl[h] = g]
            /\ IF handle[h] # None /\ ctrl[h] = g THEN StopGrace(h) ELSE UNCHANGED <<handle, armed>>
    /\ UNCHANGED <<ctrl, fired, back, cut, state, life, terms, grant>>

\* Seeded fault: no timer is armed.
clientGoneQuietly(g) ==
    LET h == bhub[g] IN
    /\ bpc[g] = "in"
    /\ clients' = [clients EXCEPT ![h] = @ \ {g}]
    /\ bpc' = [bpc EXCEPT ![g] = "away"] /\ bhub' = [bhub EXCEPT ![g] = 0]
    /\ cut' = cut \ {g}
    /\ UNCHANGED <<control, state, life, terms, grant>>

\* The socket is gone, cancelled or broken: a driver's grace timer is armed.
clientGone(g) ==
    LET h == bhub[g] IN
    /\ bpc[g] = "in"
    /\ clients' = [clients EXCEPT ![h] = @ \ {g}]
    /\ bpc' = [bpc EXCEPT ![g] = "away"] /\ bhub' = [bhub EXCEPT ![g] = 0]
    /\ cut' = cut \ {g}
    /\ IF ctrl[h] = g /\ handle[h] = None /\ h \notin ended
       THEN /\ handle' = [handle EXCEPT ![h] = g]
            /\ armed' = [armed EXCEPT ![h] = @ \cup {g}]
       ELSE UNCHANGED <<handle, armed>>
    /\ UNCHANGED <<ctrl, fired, back, held, state, life, terms, grant>>

-----------------------------------------------------------------------------
(* Control *)

GraceFires(h, g) ==
    /\ g \in armed[h]
    /\ armed' = [armed EXCEPT ![h] = @ \ {g}]
    /\ fired' = [fired EXCEPT ![h] = @ \cup {g}]
    /\ UNCHANGED <<ctrl, handle, back, held, people, life, terms, grant>>

\* The callback, under the mutex: driverLost is cleared, whichever timer it is by now.
GraceCheck(h, g) ==
    /\ g \in fired[h]
    /\ fired' = [fired EXCEPT ![h] = @ \ {g}]
    /\ handle' = [handle EXCEPT ![h] = None]
    /\ back' = IF ctrl[h] = g /\ g \notin clients[h] THEN [back EXCEPT ![h] = @ \cup {g}] ELSE back
    /\ UNCHANGED <<ctrl, armed, held, people, life, terms, grant>>

\* "control-release": the driver hands control back.
Release(g) ==
    LET h == bhub[g] IN
    /\ bpc[g] = "in" /\ ctrl[h] = g /\ h \notin ended
    /\ back' = [back EXCEPT ![h] = @ \cup {g}]
    /\ UNCHANGED <<ctrl, handle, armed, fired, held, people, life, terms, grant>>

\* The setController(0) that follows a check made earlier: whoever drives now loses control.
TakeBack(h, g) ==
    /\ g \in back[h]
    /\ back' = [back EXCEPT ![h] = @ \ {g}]
    /\ setController(h, Host)
    /\ UNCHANGED <<fired, people, life, terms, grant>>

\* handleShareControl: a guest is found admitted, or the host takes control back ...
ControlCheck ==
    /\ grant = None /\ row = "live"
    /\ \E to \in {g \in Guests : state[g] = "admitted"} \cup {Host} : grant' = to
    /\ UNCHANGED <<control, people, life, terms>>

\* ... and then the hub is looked up and told.
ControlSet ==
    /\ grant # None
    /\ \E h \in Hubs : hubFor(h) /\ setController(h, grant)
    /\ grant' = None
    /\ UNCHANGED <<fired, back, people, row, ended, epc, listed, terms>>

\* handleJoinLeave: the guest's state, then dropGuest, if there is a hub.
Leave(g) ==
    /\ state[g] = "admitted" /\ row = "live"
    /\ state' = [state EXCEPT ![g] = "left"]
    /\ cut' = IF reg # 0 /\ g \in clients[reg] THEN cut \cup {g} ELSE cut
    /\ back' = IF reg # 0 /\ reg \notin ended /\ ctrl[reg] = g
               THEN [back EXCEPT ![reg] = @ \cup {g}] ELSE back
    /\ UNCHANGED <<ctrl, handle, armed, fired, held, clients, bpc, bhub, life, terms, grant>>

-----------------------------------------------------------------------------
(* The end *)

\* sharedTerm.close: the terminal leaves its hub.
Close(S) ==
    /\ tpc' = [t \in Terms |-> IF t \in S THEN "closed" ELSE tpc[t]]
    /\ thub' = [t \in Terms |-> IF t \in S THEN 0 ELSE thub[t]]
    /\ late' = late \ S

\* Seeded fault: the registry's entry is dropped first, and again at the end.
EndMarkDrops(h) ==
    /\ h \in made \ ended
    /\ ended' = ended \cup {h}
    /\ epc' = [epc EXCEPT ![h] = "marked"]
    /\ reg' = 0
    /\ armed' = [armed EXCEPT ![h] = {}] /\ fired' = [fired EXCEPT ![h] = {}]
    /\ back' = [back EXCEPT ![h] = {}] /\ held' = [held EXCEPT ![h] = FALSE]
    /\ listed' = [listed EXCEPT ![h] = {t \in Terms : tpc[t] = "open" /\ thub[t] = h}]
    /\ UNCHANGED <<ctrl, handle, people, row, made, terms, grant>>

\* end, under the mutex: from the host's click on the hub it finds, or the hub's own expiry timer.
\* Whoever drives stays the controller, and driverLost stays what it is, stopped; a callback that
\* goes off all the same finds the hub ended and changes nothing that anybody reads.
EndMark(h) ==
    /\ h \in made \ ended
    /\ ended' = ended \cup {h}
    /\ epc' = [epc EXCEPT ![h] = "marked"]
    /\ armed' = [armed EXCEPT ![h] = {}] /\ fired' = [fired EXCEPT ![h] = {}]
    /\ back' = [back EXCEPT ![h] = {}] /\ held' = [held EXCEPT ![h] = FALSE]
    /\ listed' = [listed EXCEPT ![h] = {t \in Terms : tpc[t] = "open" /\ thub[t] = h}]
    /\ UNCHANGED <<ctrl, handle, people, row, reg, made, terms, grant>>

\* EndShareSession.
EndStore(h) ==
    /\ epc[h] = "marked"
    /\ row' = "ended"
    /\ epc' = [epc EXCEPT ![h] = "stored"]
    /\ UNCHANGED <<control, people, reg, made, ended, listed, terms, grant>>

\* The listed terminals are closed, and the hub leaves the registry.
EndClose(h) ==
    /\ epc[h] = "stored"
    /\ Close(listed[h])
    /\ listed' = [listed EXCEPT ![h] = {}]
    /\ reg' = 0
    /\ epc' = [epc EXCEPT ![h] = "closed"]
    /\ UNCHANGED <<control, people, row, made, ended, grant>>

\* Half a second later the sockets go.
EndCancel(h) ==
    /\ epc[h] = "closed"
    /\ cut' = cut \cup clients[h]
    /\ epc' = [epc EXCEPT ![h] = "done"]
    /\ UNCHANGED <<control, clients, bpc, bhub, state, row, reg, made, ended, listed, terms, grant>>

\* endShare, from the host or the reaper, when no hub is running: the row alone.
EndRow ==
    /\ row = "live" /\ reg = 0
    /\ row' = "ended"
    /\ UNCHANGED <<control, people, reg, made, ended, epc, listed, terms, grant>>

-----------------------------------------------------------------------------
(* A shared terminal: shareCaller, hubFor, then a shell on the node, which takes as long as it takes *)

TermCheck(t) ==
    /\ tpc[t] = "none" /\ row = "live"
    /\ tpc' = [tpc EXCEPT ![t] = "checked"]
    /\ UNCHANGED <<control, people, life, thub, late, grant>>

TermHub(t) ==
    /\ tpc[t] = "checked"
    /\ \E h \in Hubs : hubFor(h) /\ thub' = [thub EXCEPT ![t] = h]
    /\ tpc' = [tpc EXCEPT ![t] = "hub"]
    /\ UNCHANGED <<control, people, row, ended, epc, listed, late, grant>>

TermOpen(t) ==
    /\ tpc[t] = "hub"
    /\ \/ /\ tpc' = [tpc EXCEPT ![t] = "open"]
          /\ late' = IF thub[t] \in ended THEN late \cup {t} ELSE late
          /\ UNCHANGED thub
       \/ Close({t})
    /\ UNCHANGED <<control, people, life, grant>>

\* Somebody closes the terminal, or its shell exits.
TermClose(t) ==
    /\ tpc[t] = "open"
    /\ Close({t})
    /\ UNCHANGED <<control, people, life, grant>>

-----------------------------------------------------------------------------
\* Everything that runs on by itself once it has begun, and the timers.
Runs ==
    \/ \E g \in Guests : JoinHub(g) \/ JoinAdd(g) \/ (g \in cut /\ clientGone(g))
    \/ \E h \in Hubs : EndStore(h) \/ EndClose(h) \/ EndCancel(h)
    \/ \E t \in Terms : TermHub(t) \/ TermOpen(t)
    \/ ControlSet

Grace == \E h \in Hubs, g \in Guests : GraceFires(h, g) \/ GraceCheck(h, g) \/ TakeBack(h, g)

Next ==
    \/ Runs \/ Grace
    \/ \E g \in Guests : JoinCheck(g) \/ clientGone(g) \/ Release(g) \/ Leave(g)
    \/ \E h \in Hubs : EndMark(h)
    \/ ControlCheck \/ EndRow
    \/ \E t \in Terms : TermCheck(t) \/ TermClose(t)

Spec == Init /\ [][Next]_vars

\* Handlers, callbacks and the grace timers run on.
Fairness ==
    /\ \A g \in Guests :
          /\ WF_vars(JoinHub(g) \/ JoinAdd(g))
          /\ WF_vars(g \in cut /\ clientGone(g))
          /\ WF_vars(\E h \in Hubs : GraceFires(h, g))
          /\ WF_vars(\E h \in Hubs : GraceCheck(h, g))
          /\ WF_vars(\E h \in Hubs : TakeBack(h, g))
    /\ WF_vars(\E h \in Hubs : EndStore(h) \/ EndClose(h) \/ EndCancel(h))

FairSpec == Spec /\ Fairness

\* A session lasts at most two hours: the expiry timer of a running hub goes off.
ExpiryGoesOff == WF_vars(\E h \in Hubs : EndMark(h))

-----------------------------------------------------------------------------
(* Properties *)

\* Every variable keeps its type.
TypeOK ==
    /\ row \in {"live", "ended"} /\ reg \in Hubs \cup {0} /\ made \subseteq Hubs /\ ended \subseteq made
    /\ epc \in [Hubs -> {"no", "marked", "stored", "closed", "done"}]
    /\ ctrl \in [Hubs -> Guests \cup {Host}] /\ clients \in [Hubs -> SUBSET Guests]
    /\ handle \in [Hubs -> Guests \cup {None}]
    /\ armed \in [Hubs -> SUBSET Guests] /\ fired \in [Hubs -> SUBSET Guests]
    /\ back \in [Hubs -> SUBSET Guests]
    /\ state \in [Guests -> {"admitted", "left"}]
    /\ bpc \in [Guests -> {"away", "checked", "hub", "in"}] /\ bhub \in [Guests -> Hubs \cup {0}]
    /\ cut \subseteq Guests /\ grant \in Guests \cup {Host, None}
    /\ tpc \in [Terms -> {"none", "checked", "hub", "open", "closed"}]
    /\ thub \in [Terms -> Hubs \cup {0}]
    /\ listed \in [Hubs -> SUBSET Terms] /\ held \in [Hubs -> BOOLEAN] /\ late \subseteq Terms

\* end() drops the registry's entry by the session's id, not by hub: the entry it drops is its own,
\* so a browser is never in a running hub that nobody can find any more.
RunningHubIsRegistered == \A h \in made \ ended : reg = h

\* sharehub.go, clientGone: until the session ends, however timers, returns and hand-overs race, a
\* guest who drove from a browser and has none left is on the clock: its grace timer runs, or has
\* fired, or control is about to be taken back.  A guest who is given control with no browser in
\* the hub, having dropped since the hand-over's check, is not (held).
AbsentDriverIsTimed ==
    \A h \in made \ ended :
        held[h] /\ ctrl[h] \notin clients[h] \cup {Host} => ctrl[h] \in armed[h] \cup fired[h] \cup back[h]

\* sharehub.go, end: it works on what it finds in its hub at two moments, and misses nobody: when it
\* is through, every browser still in the hub is cut, and an open terminal of an ended hub is one it
\* is about to close, but for a shell that was still starting.
EndReachesEveryone ==
    \A h \in ended :
        /\ epc[h] = "done" => clients[h] \subseteq cut
        /\ \A t \in Terms : tpc[t] = "open" /\ thub[t] = h => t \in listed[h] \cup late

\* docs/SHARED_SESSIONS.md: "A driver who disconnects keeps control for 30 seconds, then loses it":
\* a guest who has driven from a browser and has none left gets back or loses control, however
\* timers, returns, hand-overs and the session's end interleave.
DriverLosesControl ==
    []<>(\A h \in made \ ended : held[h] => ctrl[h] \in clients[h] \cup {Host})

\* docs/SHARED_SESSIONS.md, of a session's end: "Guests are disconnected, ... shared terminals
\* close": once the row is ended nobody stays, although browsers that were on their way in when it
\* ended may start another hub.  A shell that was still starting on the ended hub is left out.
SessionEndsForEveryone ==
    ExpiryGoesOff =>
        <>[](row = "live" \/ ((\A h \in Hubs : clients[h] = {})
                              /\ \A t \in Terms \ late : tpc[t] # "open"))

-----------------------------------------------------------------------------
(* The inductive invariant behind the three safety properties *)

\* Until its end has come to the registry, a hub is the one that is registered.
RegistryInv ==
    /\ reg # 0 => reg \in made
    /\ \A h \in Hubs : h \in ended <=> epc[h] # "no"
    /\ \A h \in made : epc[h] \in {"no", "marked", "stored"} => reg = h

\* A browser in a hub knows that hub.
BrowserInv == \A h \in Hubs : \A g \in clients[h] : bpc[g] = "in" /\ bhub[g] = h

\* Until the hub ends, driverLost is the timer of whoever drives, and it runs or has fired; in a hub
\* that is not started nobody drives.
TimerInv ==
    /\ \A h \in Hubs \ ended :
          handle[h] # None => handle[h] = ctrl[h] /\ handle[h] \in armed[h] \cup fired[h]
    /\ \A h \in Hubs \ made : ctrl[h] = Host

IndInv ==
    /\ TypeOK /\ RegistryInv /\ BrowserInv /\ TimerInv
    /\ AbsentDriverIsTimed /\ EndReachesEveryone
=============================================================================
