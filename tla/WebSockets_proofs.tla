------------------------- MODULE WebSockets_proofs -------------------------
(***************************************************************************)
(* Proofs about both ends of the live channels (WebSockets), for any       *)
(* connections, sockets, instruments, capacities and bounds.               *)
(***************************************************************************)
EXTENDS WebSockets, TLAPS, SequenceTheorems, FiniteSetTheorems

-----------------------------------------------------------------------------
(* The browser's socket.  A socket that is connecting is new at its        *)
(* endpoint, so that onopen, which adds what the views have asked for,     *)
(* leaves exactly that there.                                              *)
BsShape ==
    /\ desired \in BOOLEAN /\ timer \in BOOLEAN /\ keepalive \in BOOLEAN /\ overlap \in BOOLEAN
    /\ ws \in Sockets \cup {None}
    /\ handled \in [Sockets -> BOOLEAN]
    /\ server \in [Sockets -> SUBSET Instruments]
    /\ silent \in [Sockets -> BOOLEAN]
    /\ \A s \in Sockets : phase[s] = "connecting" => server[s] = {} /\ ~silent[s]

(* Sole without a sum: the live socket, if any, is the one in use.         *)
SoleByWs ==
    /\ opening = 0 \/ (opening = 1 /\ ~timer /\ ws = None)
    /\ timer => ws = None
    /\ Live \subseteq {ws}
    /\ ~desired => ws = None /\ ~timer

LEMMA SoleIsByWs == ASSUME BsTypeOK, BsShape PROVE Sole <=> SoleByWs
<1>1. ws \in Live \cup {None} /\ None \notin Live /\ opening \in Nat /\ timer \in BOOLEAN
  BY SocketAssumption DEF BsTypeOK, BsShape, Live
<1>2. ASSUME Live \subseteq {ws} PROVE Cardinality(Live) = IF ws = None THEN 0 ELSE 1
  <2>1. CASE ws = None
    BY <1>1, <1>2, <2>1, FS_EmptySet, Live = {}
  <2>2. CASE ws # None
    BY <1>1, <1>2, <2>2, FS_Singleton, Live = {ws}
  <2> QED BY <2>1, <2>2
<1>3. Live \subseteq {ws} => (Live = {} <=> ws = None)
  BY <1>1
<1>4. CASE timer
  BY <1>1, <1>2, <1>3, <1>4 DEF Sole, SoleByWs
<1>5. CASE ~timer
  BY <1>1, <1>2, <1>3, <1>5 DEF Sole, SoleByWs
<1> QED BY <1>1, <1>4, <1>5

(* The invariant with Sole replaced. *)
Serving ==
    /\ ~overlap => SoleByWs /\ Shown
    /\ desired => OnItsWay
    /\ ws # None /\ phase[ws] = "open" => (desired => keepalive) /\ Subscribed

LEMMA ServingIs == ASSUME BsTypeOK, BsShape PROVE OneServingSocket <=> Serving
BY SoleIsByWs DEF OneServingSocket, Serving

BsGood == BsTypeOK /\ BsShape /\ Serving

USE DEF BsGood

(* close(): whatever was in use is let go. *)
LEMMA DetachKeeps ==
    ASSUME BsGood, Detached, desired' \in BOOLEAN, overlap' \in BOOLEAN
    PROVE  /\ ws' = None /\ timer' = FALSE /\ keepalive' = FALSE
           /\ phase' \in [Sockets -> {"unused", "connecting", "open", "closing"}]
           /\ BsShape'
           /\ \A s \in Sockets : /\ handled'[s] <=> phase'[s] # "unused"
                                 /\ ~handled'[s] => server'[s] = {} /\ ~silent'[s]
           /\ Live' = Live \ {ws}
<1>1. ws \in Sockets \cup {None} /\ None \notin Sockets
  BY SocketAssumption DEF BsShape
<1>2. ws' = None /\ timer' = FALSE /\ keepalive' = FALSE
  BY DEF Detached
<1>3. CASE ws = None
  BY <1>1, <1>2, <1>3 DEF Detached, BsTypeOK, BsShape, Live, net
<1>4. CASE ws # None
  <2>1. /\ phase' = [phase EXCEPT ![ws] = "unused"]
        /\ handled' = [handled EXCEPT ![ws] = FALSE]
        /\ server' = [server EXCEPT ![ws] = {}]
        /\ silent' = [silent EXCEPT ![ws] = FALSE]
        /\ ws \in Sockets
    BY <1>1, <1>4 DEF Detached, HandlersOff
  <2>2. /\ phase' \in [Sockets -> {"unused", "connecting", "open", "closing"}]
        /\ handled' \in [Sockets -> BOOLEAN]
        /\ server' \in [Sockets -> SUBSET Instruments]
        /\ silent' \in [Sockets -> BOOLEAN]
    BY <2>1 DEF BsTypeOK, BsShape
  <2>3. ASSUME NEW s \in Sockets
        PROVE  /\ phase'[s] = IF s = ws THEN "unused" ELSE phase[s]
               /\ handled'[s] = IF s = ws THEN FALSE ELSE handled[s]
               /\ server'[s] = IF s = ws THEN {} ELSE server[s]
               /\ silent'[s] = IF s = ws THEN FALSE ELSE silent[s]
    BY <2>1 DEF BsTypeOK, BsShape
  <2>4. Live' = Live \ {ws}
    BY <2>1, <2>3 DEF Live
  <2>5. \A s \in Sockets : /\ handled'[s] <=> phase'[s] # "unused"
                           /\ ~handled'[s] => server'[s] = {} /\ ~silent'[s]
    BY <2>3 DEF BsTypeOK
  <2>6. BsShape'
    BY <1>2, <2>2, <2>3 DEF BsShape
  <2> QED BY <1>2, <2>2, <2>4, <2>5, <2>6
<1> QED BY <1>3, <1>4

LEMMA StopStartKeep ==
    ASSUME BsGood, Stop \/ Start
    PROVE  BsGood'
<1>1. /\ Detached
      /\ desired' \in BOOLEAN /\ overlap' \in BOOLEAN
      /\ state' \in {"idle", "connecting", "open", "reconnecting", "closed"}
      /\ subscriptions' = subscriptions
  BY DEF Stop, Start, BsShape
<1>2. /\ ws' = None /\ timer' = FALSE /\ keepalive' = FALSE
      /\ BsShape' /\ Live' = Live \ {ws}
  BY <1>1, DetachKeeps
<1>3. opening' \in 0..MaxOpens /\ opening \in Nat
  BY SocketAssumption DEF Stop, Start, BsTypeOK
<1>4. BsTypeOK'
  BY <1>1, <1>2, <1>3, DetachKeeps DEF BsTypeOK, BsShape
<1>5. Serving'
  <2>1. CASE Stop
    <3>1. desired' = FALSE /\ state' = "closed" /\ opening' = opening /\ overlap' = overlap
      BY <2>1 DEF Stop
    <3>2. ~overlap' => Live' \subseteq {ws'} /\ opening' \in {0, 1}
      BY <1>2, <3>1 DEF Serving, SoleByWs
    <3> QED BY <1>2, <3>1, <3>2 DEF Serving, SoleByWs, Shown, OnItsWay
  <2>2. CASE Start
    <3>1. desired' = TRUE /\ state' = "connecting" /\ opening' = opening + 1
      BY <2>2 DEF Start
    <3>2. ~overlap' => ~overlap /\ opening = 0
      <4>1. ~overlap' => ~overlap /\ ~(opening > 0)
        BY <2>2, Zenon DEF Start
      <4> QED BY <1>3, <4>1
    <3>3. ~overlap' => Live' \subseteq {ws'} /\ opening' = 1
      BY <1>2, <3>1, <3>2 DEF Serving, SoleByWs
    <3>4. opening' > 0
      BY <1>3, <3>1
    <3> QED BY <1>2, <3>1, <3>3, <3>4 DEF Serving, SoleByWs, Shown, OnItsWay
  <2> QED BY <2>1, <2>2
<1> QED BY <1>2, <1>4, <1>5

(* A frame that subscribes or unsubscribes. *)
LEMMA SubscriptionsKeep ==
    ASSUME BsGood, NEW i \in Instruments, SubscribeTo(i) \/ UnsubscribeFrom(i)
    PROVE  BsGood'
<1>1. ws \in Sockets \cup {None} /\ None \notin Sockets
  BY SocketAssumption DEF BsShape
<1>2. /\ UNCHANGED <<desired, state, timer, ws, keepalive, opening, phase, handled, silent, overlap>>
      /\ subscriptions' \subseteq Instruments
  BY DEF SubscribeTo, UnsubscribeFrom, BsTypeOK
<1>3. CASE ws # None /\ phase[ws] = "open" /\ ~silent[ws]
  <2>1. server[ws] = subscriptions
    BY <1>3 DEF Serving, Subscribed
  <2>2. server' = [server EXCEPT ![ws] = subscriptions']
    BY <1>3, <2>1 DEF SubscribeTo, UnsubscribeFrom, Sent, AtServer
  <2>3. ws \in Sockets
    BY <1>1, <1>3
  <2>4. BsShape'
    BY <1>2, <1>3, <2>2, <2>3 DEF BsShape
  <2>5. BsTypeOK'
    BY <1>2, <1>3, <2>2, <2>3 DEF BsTypeOK, BsShape, Live
  <2>6. server'[ws] = subscriptions'
    BY <2>2, <2>3 DEF BsShape
  <2> QED BY <1>2, <2>4, <2>5, <2>6 DEF Serving, SoleByWs, Shown, OnItsWay, Subscribed, Live
<1>4. CASE ~(ws # None /\ phase[ws] = "open" /\ ~silent[ws])
  <2>1. server' = server
    BY <1>4 DEF SubscribeTo, UnsubscribeFrom, Sent
  <2>2. BsShape' /\ BsTypeOK'
    BY <1>2, <2>1 DEF BsShape, BsTypeOK, Live
  <2> QED BY <1>2, <1>4, <2>1, <2>2 DEF Serving, SoleByWs, Shown, OnItsWay, Subscribed, Live
<1> QED BY <1>3, <1>4

LEMMA ReconnectKeeps == ASSUME BsGood, Reconnect PROVE BsGood'
<1>1. /\ timer /\ timer' = FALSE /\ state' = "reconnecting" /\ opening' = opening + 1
      /\ UNCHANGED <<desired, subscriptions, ws, keepalive, phase, handled, server, silent>>
  BY DEF Reconnect, wants, net
<1>2. opening' \in 0..MaxOpens /\ opening \in Nat /\ opening' > 0
  BY SocketAssumption DEF Reconnect, BsTypeOK
<1>3. overlap' \in BOOLEAN /\ (~overlap' => ~overlap /\ opening = 0)
  <2>1. overlap' \in BOOLEAN /\ (~overlap' => ~overlap /\ ~(opening > 0))
    BY Zenon DEF Reconnect
  <2> QED BY <1>2, <2>1
<1>4. BsShape' /\ BsTypeOK'
  BY <1>1, <1>2, <1>3 DEF BsShape, BsTypeOK, Live
<1>5. ~overlap' => ws = None /\ desired /\ opening' = 1 /\ Live' \subseteq {ws}
  BY <1>1, <1>3 DEF Serving, SoleByWs, Live
<1> QED BY <1>1, <1>2, <1>4, <1>5 DEF Serving, SoleByWs, Shown, OnItsWay, Subscribed

LEMMA NoTicketKeeps == ASSUME BsGood, NoTicket PROVE BsGood'
<1>1. /\ opening > 0 /\ opening' = opening - 1 /\ opening \in Nat /\ opening' \in 0..MaxOpens
      /\ UNCHANGED <<desired, subscriptions, ws, keepalive, phase, handled, server, silent, overlap>>
  BY SocketAssumption DEF NoTicket, wants, net, BsTypeOK
<1>2. \/ timer' = timer /\ state' = state /\ (timer \/ ~desired)
      \/ timer' = TRUE /\ state' = "reconnecting" /\ desired
  BY DEF NoTicket, ScheduleReconnect
<1>3. BsShape' /\ BsTypeOK'
  BY <1>1, <1>2 DEF BsShape, BsTypeOK, Live
<1>4. ~overlap => ws = None /\ ~timer /\ opening' = 0 /\ Live' \subseteq {ws}
  BY <1>1 DEF Serving, SoleByWs, Live
<1> QED BY <1>1, <1>2, <1>3, <1>4 DEF Serving, SoleByWs, Shown, OnItsWay, Subscribed

LEMMA TicketKeeps == ASSUME BsGood, Ticket PROVE BsGood'
<1>1. /\ opening > 0 /\ opening' = opening - 1 /\ opening \in Nat /\ opening' \in 0..MaxOpens
      /\ UNCHANGED <<desired, subscriptions, state, timer, keepalive, overlap>>
  BY SocketAssumption DEF Ticket, wants, BsTypeOK
<1>2. ~overlap => ws = None /\ ~timer /\ opening' = 0 /\ Live \subseteq {ws}
  BY <1>1 DEF Serving, SoleByWs
<1>3. CASE ~desired
  <2>1. UNCHANGED <<ws, phase, handled, server, silent>>
    BY <1>3 DEF Ticket, StillDesired, net
  <2>2. BsShape' /\ BsTypeOK' /\ Live' = Live
    BY <1>1, <2>1 DEF BsShape, BsTypeOK, Live
  <2> QED BY <1>1, <1>2, <1>3, <2>1, <2>2 DEF Serving, SoleByWs, Shown, OnItsWay, Subscribed
<1>4. CASE desired
  <2>1. PICK s \in Sockets :
          /\ phase[s] = "unused" /\ ws' = s
          /\ phase' = [phase EXCEPT ![s] = "connecting"]
          /\ handled' = [handled EXCEPT ![s] = TRUE]
          /\ UNCHANGED <<server, silent>>
    BY <1>4 DEF Ticket, StillDesired
  <2>2. BsShape'
    BY <1>1, <2>1 DEF BsShape, BsTypeOK
  <2>3. Live' = Live \cup {s}
    BY <2>1 DEF Live, BsShape
  <2>4. BsTypeOK'
    BY <1>1, <2>1, <2>3 DEF BsShape, BsTypeOK
  <2>5. s # None /\ phase'[s] = "connecting"
    BY <2>1, SocketAssumption DEF BsTypeOK
  <2>6. ~overlap => Live' \subseteq {s} /\ state # "open" /\ state # "closed"
    BY <1>2, <1>4, <2>3, SocketAssumption DEF Serving, Shown, Live
  <2> QED BY <1>1, <1>2, <1>4, <2>1, <2>2, <2>4, <2>5, <2>6
          DEF Serving, SoleByWs, Shown, OnItsWay
<1> QED BY <1>3, <1>4 DEF BsShape

LEMMA OpenedKeeps == ASSUME BsGood, NEW s \in Sockets, Opened(s) PROVE BsGood'
<1>1. /\ phase[s] = "connecting" /\ phase' = [phase EXCEPT ![s] = "open"]
      /\ state' = "open" /\ keepalive' = TRUE
      /\ UNCHANGED <<desired, subscriptions, timer, ws, opening, handled, silent, overlap>>
  BY DEF Opened, KeepaliveStarted, wants
<1>2. ws \in Sockets \cup {None} /\ None \notin Sockets
  BY SocketAssumption DEF BsShape
<1>3. handled[s] /\ server[s] = {} /\ ~silent[s] /\ Live' = Live /\ s \in Live
  BY <1>1 DEF BsShape, BsTypeOK, Live
<1>4. IF ws # None /\ (ws = s \/ phase[ws] = "open") /\ ~silent[ws]
        THEN server' = [server EXCEPT ![ws] = subscriptions]
        ELSE server' = server
  <2>1. CASE ws # None /\ (ws = s \/ phase[ws] = "open") /\ ~silent[ws]
    <3>1. server[ws] \cup subscriptions = subscriptions
      BY <1>3, <2>1 DEF Serving, Subscribed
    <3> QED BY <2>1, <3>1 DEF Opened, Resubscribed
  <2>2. CASE ~(ws # None /\ (ws = s \/ phase[ws] = "open") /\ ~silent[ws])
    BY <2>2 DEF Opened, Resubscribed
  <2> QED BY <2>1, <2>2
<1>5. subscriptions \subseteq Instruments
  BY DEF BsTypeOK
<1>6. \A t \in Sockets : phase'[t] = IF t = s THEN "open" ELSE phase[t]
  BY <1>1 DEF BsTypeOK
<1>7. CASE ws # None /\ (ws = s \/ phase[ws] = "open") /\ ~silent[ws]
  <2>1. server' = [server EXCEPT ![ws] = subscriptions] /\ ws \in Sockets
    BY <1>2, <1>4, <1>7
  <2>2. \A t \in Sockets : server'[t] = IF t = ws THEN subscriptions ELSE server[t]
    BY <2>1 DEF BsShape
  <2>3. server' \in [Sockets -> SUBSET Instruments]
    BY <1>5, <2>1 DEF BsShape
  <2>4. BsShape'
    BY <1>1, <1>6, <1>7, <2>2, <2>3 DEF BsShape
  <2>5. handled[ws]
    BY <1>3, <1>7, <2>1 DEF BsTypeOK
  <2>6. BsTypeOK'
    BY <1>1, <1>3, <1>6, <2>2, <2>5 DEF BsShape, BsTypeOK
  <2> QED BY <1>1, <1>2, <1>3, <1>6, <1>7, <2>1, <2>2, <2>4, <2>6
          DEF Serving, SoleByWs, Shown, OnItsWay, Subscribed
<1>8. CASE ~(ws # None /\ (ws = s \/ phase[ws] = "open") /\ ~silent[ws])
  <2>1. server' = server
    BY <1>4, <1>8
  <2>2. BsShape'
    BY <1>1, <1>6, <2>1 DEF BsShape
  <2>3. BsTypeOK'
    BY <1>1, <1>3, <1>6, <2>1 DEF BsShape, BsTypeOK
  <2>4. ws # None /\ phase'[ws] = "open" => silent[ws]
    BY <1>2, <1>3, <1>6, <1>8
  <2> QED BY <1>1, <1>2, <1>3, <1>6, <1>8, <2>1, <2>2, <2>3, <2>4
          DEF Serving, SoleByWs, Shown, OnItsWay, Subscribed
<1> QED BY <1>7, <1>8

LEMMA QuietWatchdogKeep ==
    ASSUME BsGood, NEW s \in Sockets, Quiet(s) \/ Watchdog
    PROVE  BsGood'
<1>1. ws \in Sockets \cup {None} /\ None \notin Sockets
  BY SocketAssumption DEF BsShape
<1>2. CASE Quiet(s)
  <2>1. /\ phase[s] = "open" /\ silent' = [silent EXCEPT ![s] = TRUE]
        /\ UNCHANGED <<desired, subscriptions, state, timer, ws, keepalive, opening, phase,
                       handled, server, overlap>>
    BY <1>2 DEF Quiet, wants
  <2>2. BsShape' /\ BsTypeOK' /\ Live' = Live
    BY <2>1 DEF BsShape, BsTypeOK, Live
  <2>3. ASSUME ws # None, ~silent'[ws] PROVE ~silent[ws]
    BY <1>1, <2>1, <2>3 DEF BsShape
  <2> QED BY <2>1, <2>2, <2>3 DEF Serving, SoleByWs, Shown, OnItsWay, Subscribed
<1>3. CASE Watchdog
  <2>1. /\ ws \in Sockets /\ phase[ws] = "open" /\ phase' = [phase EXCEPT ![ws] = "closing"]
        /\ UNCHANGED <<desired, subscriptions, state, timer, ws, keepalive, opening,
                       handled, server, silent, overlap>>
    BY <1>1, <1>3 DEF Watchdog, wants
  <2>2. \A t \in Sockets : phase'[t] = IF t = ws THEN "closing" ELSE phase[t]
    BY <2>1 DEF BsTypeOK
  <2>3. BsShape' /\ BsTypeOK' /\ Live' = Live
    BY <2>1, <2>2 DEF BsShape, BsTypeOK, Live
  <2> QED BY <1>1, <2>1, <2>2, <2>3 DEF Serving, SoleByWs, Shown, OnItsWay, Subscribed
<1> QED BY <1>2, <1>3

LEMMA EndedKeeps == ASSUME BsGood, NEW s \in Sockets, Ended(s) PROVE BsGood'
<1>1. /\ handled[s]
      /\ phase' = [phase EXCEPT ![s] = "unused"]
      /\ handled' = [handled EXCEPT ![s] = FALSE]
      /\ server' = [server EXCEPT ![s] = {}]
      /\ silent' = [silent EXCEPT ![s] = FALSE]
      /\ keepalive' = FALSE /\ ws' = None
      /\ UNCHANGED <<desired, subscriptions, opening, overlap>>
  BY DEF Ended, wants
<1>2. \/ timer' = timer /\ state' = state /\ (timer \/ ~desired)
      \/ timer' = TRUE /\ state' = "reconnecting" /\ desired
  BY DEF Ended, StartAgain, ScheduleReconnect
<1>3. ASSUME NEW t \in Sockets
      PROVE  /\ phase'[t] = IF t = s THEN "unused" ELSE phase[t]
             /\ handled'[t] = IF t = s THEN FALSE ELSE handled[t]
             /\ server'[t] = IF t = s THEN {} ELSE server[t]
             /\ silent'[t] = IF t = s THEN FALSE ELSE silent[t]
  BY <1>1 DEF BsTypeOK, BsShape
<1>4. Live' = Live \ {s} /\ s \in Live /\ s # None
  BY <1>1, <1>3, SocketAssumption DEF Live
<1>5. BsShape'
  <2>1. /\ handled' \in [Sockets -> BOOLEAN] /\ server' \in [Sockets -> SUBSET Instruments]
        /\ silent' \in [Sockets -> BOOLEAN]
    BY <1>1 DEF BsShape
  <2>2. timer' \in BOOLEAN /\ desired' \in BOOLEAN /\ overlap' \in BOOLEAN
    BY <1>1, <1>2 DEF BsShape
  <2>3. \A t \in Sockets : phase'[t] = "connecting" => server'[t] = {} /\ ~silent'[t]
    BY <1>3 DEF BsShape
  <2> QED BY <1>1, <2>1, <2>2, <2>3 DEF BsShape
<1>6. BsTypeOK'
  <2>1. phase' \in [Sockets -> {"unused", "connecting", "open", "closing"}]
    BY <1>1 DEF BsTypeOK
  <2>2. \A t \in Sockets : /\ handled'[t] <=> phase'[t] # "unused"
                           /\ ~handled'[t] => server'[t] = {} /\ ~silent'[t]
    BY <1>3 DEF BsTypeOK
  <2> QED BY <1>1, <1>2, <2>1, <2>2 DEF BsTypeOK, BsShape
<1>7. ~overlap => ws = s /\ ~timer /\ opening = 0 /\ desired
  BY <1>4, <1>1 DEF Serving, SoleByWs, BsTypeOK
<1>8. ~overlap => Live' \subseteq {None} /\ state' = "reconnecting" /\ timer'
  BY <1>2, <1>4, <1>7 DEF Serving, SoleByWs
<1>9. desired' => OnItsWay'
  BY <1>1, <1>2 DEF OnItsWay
<1> QED BY <1>1, <1>5, <1>6, <1>7, <1>8, <1>9 DEF Serving, SoleByWs, Shown

LEMMA BsNextKeeps == ASSUME BsGood, BsNext PROVE BsGood'
<1>1. CASE Stop \/ Start
  BY <1>1, StopStartKeep
<1>2. CASE Reconnect
  BY <1>2, ReconnectKeeps
<1>3. CASE NoTicket
  BY <1>3, NoTicketKeeps
<1>4. CASE Ticket
  BY <1>4, TicketKeeps
<1>5. CASE Watchdog
  <2>1. ws \in Sockets
    BY <1>5 DEF Watchdog, BsShape
  <2> QED BY <1>5, <2>1, QuietWatchdogKeep
<1>6. CASE \E i \in Instruments : SubscribeTo(i) \/ UnsubscribeFrom(i)
  BY <1>6, SubscriptionsKeep
<1>7. CASE \E s \in Sockets : Opened(s) \/ Quiet(s) \/ Ended(s)
  <2>1. PICK s \in Sockets : Opened(s) \/ Quiet(s) \/ Ended(s)
    BY <1>7
  <2> QED BY <2>1, OpenedKeeps, QuietWatchdogKeep, EndedKeeps
<1> QED BY <1>1, <1>2, <1>3, <1>4, <1>5, <1>6, <1>7 DEF BsNext

LEMMA BsGoodHolds == SocketsSpec => []BsGood
<1>1. SocketsInit => BsGood
  <2> SUFFICES ASSUME BsInit PROVE BsGood
    BY DEF SocketsInit
  <2>1. BsShape
    BY DEF BsInit, BsShape
  <2>2. Live = {} /\ opening = 0 /\ ws = None
    BY DEF BsInit, Live
  <2>3. BsTypeOK
    <3>1. /\ phase \in [Sockets -> {"unused", "connecting", "open", "closing"}]
          /\ \A s \in Sockets : /\ handled[s] <=> phase[s] # "unused"
                                /\ ~handled[s] => server[s] = {} /\ ~silent[s]
      BY DEF BsInit
    <3>2. opening \in 0..MaxOpens /\ ws \in Live \cup {None} /\ subscriptions \subseteq Instruments
      BY <2>2, SocketAssumption DEF BsInit
    <3>3. /\ state \in {"idle", "connecting", "open", "reconnecting", "closed"}
          /\ {desired, timer, keepalive, overlap} \subseteq BOOLEAN
      BY DEF BsInit
    <3> QED BY <3>1, <3>2, <3>3 DEF BsTypeOK
  <2>4. Serving
    BY <2>2 DEF BsInit, Serving, SoleByWs, Shown
  <2> QED BY <2>1, <2>3, <2>4
<1>2. BsGood /\ [SocketsNext]_socketVars => BsGood'
  <2> SUFFICES ASSUME BsGood, [SocketsNext]_socketVars PROVE BsGood'
    OBVIOUS
  <2>1. BsNext \/ UNCHANGED bsVars
    BY DEF SocketsNext, AtServerEnd, AtBrowserEnd, socketVars
  <2>2. CASE UNCHANGED bsVars
    BY <2>2 DEF bsVars, net, BsTypeOK, BsShape, Serving, SoleByWs, Shown,
                OnItsWay, Subscribed, Live
  <2> QED BY <2>1, <2>2, BsNextKeeps
<1> QED BY <1>1, <1>2, PTL DEF SocketsSpec

(* One socket serves the channel in the browser and none is left after     *)
(* close(), whatever the order of open(), scheduleReconnect(), close() and *)
(* the handlers (client.ts:2-6).                                           *)
THEOREM OneServingSocketHolds == SocketsSpec => []OneServingSocket
<1>1. BsGood => OneServingSocket
  BY ServingIs
<1> QED BY <1>1, BsGoodHolds, PTL
-----------------------------------------------------------------------------
(* The hub.  A queue of event numbers and service frames. *)
Elems(q) == {q[n] : n \in DOMAIN q}
Ordered(q) == \A m, n \in DOMAIN q :
                 m < n /\ q[m] # Service /\ q[n] # Service => q[m] < q[n]

LEMMA AppendElems ==
    ASSUME NEW q \in Seq(Nat), NEW f \in Nat
    PROVE  /\ Append(q, f) \in Seq(Nat)
           /\ Len(Append(q, f)) = Len(q) + 1
           /\ Elems(Append(q, f)) = Elems(q) \cup {f}
           /\ Ordered(q) /\ (f = Service \/ \A e \in Elems(q) : e < f) => Ordered(Append(q, f))
<1>1. /\ Append(q, f) \in Seq(Nat) /\ Len(q) \in Nat
      /\ Len(Append(q, f)) = Len(q) + 1
      /\ \A i \in 1..Len(q) : Append(q, f)[i] = q[i]
      /\ Append(q, f)[Len(q) + 1] = f
      /\ DOMAIN q = 1..Len(q) /\ DOMAIN Append(q, f) = 1..(Len(q) + 1)
  BY AppendProperties, LenProperties
<1> DEFINE a == Append(q, f)
<1> HIDE DEF a
<1>2. Elems(a) = Elems(q) \cup {f}
  <2>1. Len(q) + 1 \in DOMAIN a
    BY <1>1 DEF a
  <2>2. \A i \in DOMAIN a : i = Len(q) + 1 \/ i \in DOMAIN q
    BY <1>1 DEF a
  <2>3. \A i \in DOMAIN q : i \in DOMAIN a /\ a[i] = q[i]
    BY <1>1 DEF a
  <2>4. a[Len(q) + 1] = f
    BY <1>1 DEF a
  <2> QED BY <2>1, <2>2, <2>3, <2>4 DEF Elems
<1>3. ASSUME Ordered(q), f = Service \/ \A e \in Elems(q) : e < f PROVE Ordered(a)
  <2> SUFFICES ASSUME NEW m \in DOMAIN a, NEW n \in DOMAIN a,
                      m < n, a[m] # Service, a[n] # Service
               PROVE  a[m] < a[n]
    BY DEF Ordered
  <2>1. m \in DOMAIN q /\ a[m] = q[m]
    BY <1>1 DEF a
  <2>2. CASE n \in DOMAIN q
    BY <1>1, <1>3, <2>1, <2>2 DEF Ordered, a
  <2>3. CASE n \notin DOMAIN q
    BY <1>1, <1>3, <2>1, <2>3 DEF Elems, a
  <2> QED BY <2>2, <2>3
<1> QED BY <1>1, <1>2, <1>3 DEF a

LEMMA TailElems ==
    ASSUME NEW q \in Seq(Nat), q # <<>>
    PROVE  /\ Head(q) \in Nat /\ Tail(q) \in Seq(Nat) /\ Len(Tail(q)) = Len(q) - 1
           /\ Elems(q) = {Head(q)} \cup Elems(Tail(q))
           /\ Ordered(q) => Ordered(Tail(q))
           /\ Ordered(q) /\ Head(q) # Service =>
                \A e \in Elems(Tail(q)) \ {Service} : Head(q) < e
<1>1. /\ Head(q) \in Nat /\ Tail(q) \in Seq(Nat) /\ Len(q) \in Nat
      /\ Len(Tail(q)) = Len(q) - 1
      /\ \A i \in 1..Len(Tail(q)) : Tail(q)[i] = q[i + 1]
      /\ Len(q) > 0 /\ Head(q) = q[1]
      /\ DOMAIN q = 1..Len(q) /\ DOMAIN Tail(q) = 1..(Len(q) - 1)
  BY HeadTailProperties, LenProperties, EmptySeq
<1> DEFINE t == Tail(q)
           h == Head(q)
<1>2. /\ h = q[1] /\ 1 \in DOMAIN q
      /\ \A i \in DOMAIN t : (t[i] = q[i + 1] /\ i + 1 \in DOMAIN q /\ i \in Nat)
      /\ \A i \in DOMAIN q : i = 1 \/ (i - 1 \in DOMAIN t /\ q[i] = t[i - 1])
      /\ \A i \in DOMAIN q : i \in Nat
  BY <1>1
<1> HIDE DEF t, h
<1>3. Elems(q) = {h} \cup Elems(t)
  BY <1>2 DEF Elems
<1>4. Ordered(q) => Ordered(t)
  BY <1>2 DEF Ordered
<1>5. ASSUME Ordered(q), h # Service PROVE \A e \in Elems(t) \ {Service} : h < e
  <2> SUFFICES ASSUME NEW i \in DOMAIN t, t[i] # Service PROVE h < t[i]
    BY DEF Elems
  <2>1. /\ 1 \in DOMAIN q /\ i + 1 \in DOMAIN q /\ 1 < i + 1 /\ h = q[1] /\ t[i] = q[i + 1]
    BY <1>2, <1>1 DEF t
  <2> QED BY <1>5, <2>1 DEF Ordered
<1> QED BY <1>1, <1>3, <1>4, <1>5 DEF t, h

(* What a send queue is, to a connection: q waits, R was chosen for it, T  *)
(* has been taken by its sender, C and P were dropped for a quote or a     *)
(* service frame.                                                          *)
Flow(q, dd, R, T, C, P) ==
    /\ q \in Seq(Nat) /\ R \subseteq Nat /\ Service \notin R
    /\ Ordered(q)
    /\ Elems(q) \ {Service} \subseteq R /\ T \subseteq R
    /\ \A f \in Elems(q) \ {Service}, g \in T : g < f
    /\ ~dd => R \subseteq Elems(q) \cup T \cup C \cup P
    /\ ~dd => \A n \in R : (\A m \in R : m <= n) => n \in Elems(q) \cup T \cup P

(* A routed event that finds room. *)
LEMMA FlowAppend ==
    ASSUME NEW q, NEW dd, NEW R, NEW T, NEW C, NEW P, Flow(q, dd, R, T, C, P),
           NEW f \in Nat, f # Service, \A r \in R : r < f
    PROVE  Flow(Append(q, f), dd, R \cup {f}, T, C, P)
<1>1. /\ Append(q, f) \in Seq(Nat) /\ Elems(Append(q, f)) = Elems(q) \cup {f}
      /\ (\A e \in Elems(q) : e < f) => Ordered(Append(q, f))
  BY AppendElems DEF Flow
<1>2. ASSUME NEW e \in Elems(q) PROVE e < f
  <2>1. CASE e = Service
    BY <2>1 DEF Service
  <2>2. CASE e # Service
    BY <2>2 DEF Flow
  <2> QED BY <2>1, <2>2
<1>3. \A n \in R \cup {f} : (\A m \in R \cup {f} : m <= n) => n = f
  BY DEF Flow
<1> QED BY <1>1, <1>2, <1>3 DEF Flow

(* One that pushes the oldest frame out. *)
LEMMA FlowConflate ==
    ASSUME NEW q, NEW dd, NEW R, NEW T, NEW C, NEW P, Flow(q, dd, R, T, C, P), q # <<>>,
           NEW f \in Nat, f # Service, \A r \in R : r < f
    PROVE  Flow(Append(Tail(q), f), dd, R \cup {f}, T, C \cup ({Head(q)} \ {Service}), P)
<1> DEFINE t == Tail(q)
<1>1. t \in Seq(Nat) /\ Elems(q) = {Head(q)} \cup Elems(t) /\ Ordered(t)
  BY TailElems DEF Flow
<1> HIDE DEF t
<1>2. /\ Append(t, f) \in Seq(Nat) /\ Elems(Append(t, f)) = Elems(t) \cup {f}
      /\ (\A e \in Elems(t) : e < f) => Ordered(Append(t, f))
  BY <1>1, AppendElems
<1>3. ASSUME NEW e \in Elems(t) PROVE e < f
  <2>1. CASE e = Service
    BY <2>1 DEF Service
  <2>2. CASE e # Service
    BY <1>1, <2>2 DEF Flow
  <2> QED BY <2>1, <2>2
<1>4. \A n \in R \cup {f} : (\A m \in R \cup {f} : m <= n) => n = f
  BY DEF Flow
<1>5. Elems(t) \ {Service} \subseteq R /\ Elems(Append(t, f)) \ {Service} \subseteq R \cup {f}
  BY <1>1, <1>2 DEF Flow
<1>6. \A e \in Elems(Append(t, f)) \ {Service}, g \in T : g < e
  BY <1>1, <1>2 DEF Flow
<1>7. ~dd => R \cup {f} \subseteq Elems(Append(t, f)) \cup T \cup (C \cup ({Head(q)} \ {Service})) \cup P
  BY <1>1, <1>2 DEF Flow
<1> QED BY <1>1, <1>2, <1>3, <1>4, <1>5, <1>6, <1>7 DEF Flow, t

(* A service frame, with and without room. *)
LEMMA FlowService ==
    ASSUME NEW q, NEW dd, NEW R, NEW T, NEW C, NEW P, Flow(q, dd, R, T, C, P)
    PROVE  /\ Flow(Append(q, Service), dd, R, T, C, P)
           /\ q # <<>> => Flow(Append(Tail(q), Service), dd, R, T, C, P \cup ({Head(q)} \ {Service}))
<1>1. Service \in Nat
  BY DEF Service
<1>2. Flow(Append(q, Service), dd, R, T, C, P)
  <2>1. /\ Append(q, Service) \in Seq(Nat) /\ Elems(Append(q, Service)) = Elems(q) \cup {Service}
        /\ Ordered(Append(q, Service))
    BY <1>1, AppendElems DEF Flow
  <2> QED BY <2>1 DEF Flow
<1>3. ASSUME q # <<>>
      PROVE  Flow(Append(Tail(q), Service), dd, R, T, C, P \cup ({Head(q)} \ {Service}))
  <2> DEFINE t == Tail(q)
  <2>1. t \in Seq(Nat) /\ Elems(q) = {Head(q)} \cup Elems(t) /\ Ordered(t)
    BY <1>3, TailElems DEF Flow
  <2> HIDE DEF t
  <2>2. /\ Append(t, Service) \in Seq(Nat) /\ Elems(Append(t, Service)) = Elems(t) \cup {Service}
        /\ Ordered(Append(t, Service))
    BY <1>1, <2>1, AppendElems
  <2> QED BY <2>1, <2>2 DEF Flow, t
<1> QED BY <1>2, <1>3

(* The sender takes the oldest frame. *)
LEMMA FlowTake ==
    ASSUME NEW q, NEW dd, NEW R, NEW T, NEW C, NEW P, Flow(q, dd, R, T, C, P), q # <<>>
    PROVE  Flow(Tail(q), dd, R, T \cup ({Head(q)} \ {Service}), C, P)
<1> DEFINE t == Tail(q)
           h == Head(q)
<1>1. /\ t \in Seq(Nat) /\ Elems(q) = {h} \cup Elems(t) /\ Ordered(t)
      /\ h # Service => \A e \in Elems(t) \ {Service} : h < e
  BY TailElems DEF Flow
<1> HIDE DEF t, h
<1>2. \A f \in Elems(t) \ {Service}, g \in T \cup ({h} \ {Service}) : g < f
  BY <1>1 DEF Flow
<1> QED BY <1>1, <1>2 DEF Flow, t, h

(* A dead connection owes nothing. *)
LEMMA FlowDead ==
    ASSUME NEW q, NEW dd, NEW R, NEW T, NEW C, NEW P, Flow(q, dd, R, T, C, P),
           NEW f \in Nat, f # Service
    PROVE  Flow(q, TRUE, R \cup {f}, T, C, P) /\ Flow(q, TRUE, R, T, C, P)
BY DEF Flow
-----------------------------------------------------------------------------
ConnFlow(c) == Flow(sendQueue[c], dead[c], routed[c], taken[c], conflated[c], pushedOut[c])

(* Events come to the hub in the order of their numbers, and a connection  *)
(* that is not there yet has been given none.                              *)
HubOrder ==
    /\ Ordered(busq)
    /\ \A c \in Conns : \A b \in Elems(busq), r \in routed[c] : r < b
    /\ \A c \in Conns : life[c] = "new" => sender[c] = "done" /\ routed[c] = {}

HubInv == HubTypeOK /\ HubOrder /\ \A c \in Conns : ConnFlow(c)

(* The facts of HubTypeOK in a form the provers take up easily. *)
LEMMA HubFacts ==
    ASSUME HubTypeOK
    PROVE  /\ Published = 1..Len(kinds) /\ Len(kinds) \in Nat /\ Len(kinds) <= MaxEvent
           /\ Published \subseteq Nat /\ Service \notin Published
           /\ Published \subseteq Frame /\ Service \in Frame /\ Frame \subseteq Nat
           /\ busq \in Seq(Nat) /\ Elems(busq) \subseteq Published
           /\ Nothing \notin Frame
           /\ \A c \in Conns : sendQueue[c] \in Seq(Frame) /\ Len(sendQueue[c]) \in Nat
<1>1. Published = 1..Len(kinds) /\ Len(kinds) \in Nat /\ Len(kinds) <= MaxEvent
  BY LenProperties DEF HubTypeOK, Published
<1>2. /\ Published \subseteq Nat /\ Service \notin Published
      /\ Published \subseteq Frame /\ Service \in Frame /\ Frame \subseteq Nat
      /\ Nothing \notin Frame
  BY <1>1, CapacityAssumption DEF Service, Frame, Nothing
<1>3. busq \in [1..Len(busq) -> Published] /\ Len(busq) \in Nat
  BY LenProperties DEF HubTypeOK
<1>4. busq \in Seq(Nat)
  <2>1. busq \in [1..Len(busq) -> Nat]
    BY <1>2, <1>3
  <2> QED BY <1>3, <2>1, SeqDef
<1>5. Elems(busq) \subseteq Published
  BY <1>3 DEF Elems
<1>6. \A c \in Conns : sendQueue[c] \in Seq(Frame) /\ Len(sendQueue[c]) \in Nat
  BY LenProperties DEF HubTypeOK
<1> QED BY <1>1, <1>2, <1>4, <1>5, <1>6

LEMMA PublishKeeps ==
    ASSUME HubInv, NEW kind \in {"quote", "micro"}, Publish(kind)
    PROVE  HubInv'
<1> DEFINE n == Len(kinds) + 1
<1>1. /\ n <= MaxEvent /\ kinds' = Append(kinds, kind)
      /\ \/ Len(busq) < BusMax /\ busq' = Append(busq, n) /\ dropped' = dropped
         \/ dropped' = dropped \cup {n} /\ busq' = busq
      /\ UNCHANGED <<connVars, history>>
  BY DEF Publish
<1>2. /\ Published = 1..Len(kinds) /\ Len(kinds) \in Nat /\ Published \subseteq Nat
      /\ Service \notin Published /\ busq \in Seq(Nat) /\ Elems(busq) \subseteq Published
  BY HubFacts DEF HubInv
<1>3. /\ kinds' \in Seq({"quote", "micro"}) /\ Len(kinds') = n /\ Published' = 1..n
  BY <1>1, AppendProperties, LenProperties DEF HubInv, HubTypeOK, Published
<1>4. Published \subseteq Published' /\ n \in Published' /\ n \in Nat /\ n \notin Published /\ n # Service
  BY <1>2, <1>3 DEF Service
<1>5. /\ busq' \in Seq(Published') /\ Len(busq') <= BusMax /\ dropped' \subseteq Published'
  <2>1. busq \in [1..Len(busq) -> Published] /\ Len(busq) \in Nat
    BY LenProperties DEF HubInv, HubTypeOK
  <2>2. busq \in Seq(Published')
    BY <1>4, <2>1, SeqDef
  <2>3. Append(busq, n) \in Seq(Published') /\ Len(Append(busq, n)) = Len(busq) + 1
    BY <1>4, <2>2, AppendProperties
  <2>4. busq' \in Seq(Published')
    BY <1>1, <2>2, <2>3
  <2>5. Len(busq') <= BusMax
    BY <1>1, <2>1, <2>3, CapacityAssumption DEF HubInv, HubTypeOK
  <2>6. dropped' \subseteq Published'
    BY <1>1, <1>4 DEF HubInv, HubTypeOK
  <2> QED BY <2>4, <2>5, <2>6
<1>6. HubTypeOK'
  <2>1. \A h \in {routed', taken', conflated', pushedOut'} : h \in [Conns -> SUBSET Published']
    BY <1>1, <1>4 DEF HubInv, HubTypeOK, history
  <2> QED BY <1>1, <1>3, <1>5, <2>1 DEF HubInv, HubTypeOK, connVars
<1>7. \A c \in Conns : ConnFlow(c)'
  BY <1>1 DEF HubInv, ConnFlow, connVars, history
<1>8. HubOrder'
  <2>1. CASE busq' = busq
    BY <1>1, <2>1 DEF HubInv, HubOrder, connVars, history
  <2>2. CASE busq' = Append(busq, n)
    <3>1. \A e \in Published : e < n
      BY <1>2
    <3>2. Elems(busq') = Elems(busq) \cup {n} /\ Ordered(busq')
      BY <1>2, <1>4, <2>2, <3>1, AppendElems DEF HubInv, HubOrder
    <3>3. ASSUME NEW c \in Conns PROVE routed[c] \subseteq Published
      BY DEF HubInv, HubTypeOK
    <3> QED BY <1>1, <3>1, <3>2, <3>3 DEF HubInv, HubOrder, connVars, history
  <2> QED BY <1>1, <2>1, <2>2
<1> QED BY <1>6, <1>7, <1>8 DEF HubInv

(* What _enqueue() of f does to connection c.  There is room; the oldest   *)
(* frame is pushed out; or the connection is ended.                        *)
Lose(c) == {Head(sendQueue[c])} \ {Service}
Same(c) == dead'[c] = dead[c] /\ conflated'[c] = conflated[c] /\ pushedOut'[c] = pushedOut[c]
Untouched(c) == sendQueue'[c] = sendQueue[c] /\ Same(c)
Took(c, f) == sendQueue'[c] = Append(sendQueue[c], f) /\ Len(sendQueue[c]) < QueueMax /\ Same(c)
Pushed(c, f) ==
    /\ sendQueue'[c] = Append(Tail(sendQueue[c]), f) /\ sendQueue[c] # <<>> /\ dead'[c] = dead[c]
    /\ conflated'[c] = IF f = Service THEN conflated[c] ELSE conflated[c] \cup Lose(c)
    /\ pushedOut'[c] = IF f = Service THEN pushedOut[c] \cup Lose(c) ELSE pushedOut[c]
Overflowed(c) ==
    /\ sendQueue'[c] = sendQueue[c] /\ dead'[c] = TRUE
    /\ conflated'[c] = conflated[c] /\ pushedOut'[c] = pushedOut[c]

LEMMA EnqueueEffect ==
    ASSUME HubInv, NEW S, S \subseteq Conns, NEW f \in Frame, NEW conflate \in BOOLEAN,
           Enqueue(S, f, conflate)
    PROVE  /\ \A c \in Conns \ S : Untouched(c)
           /\ \A c \in S : Took(c, f) \/ (conflate /\ Pushed(c, f)) \/ (~conflate /\ Overflowed(c))
           /\ dead' \in [Conns -> BOOLEAN] /\ closing' \in [Conns -> BOOLEAN]
           /\ sendQueue' \in [Conns -> Seq(Frame)]
           /\ \A c \in Conns : Len(sendQueue'[c]) <= QueueMax
           /\ conflated' \in [Conns -> SUBSET Published]
           /\ pushedOut' \in [Conns -> SUBSET Published]
           /\ \A c \in Conns : dead[c] => dead'[c]
<1> DEFINE Lost == {c \in S : Full(c) /\ conflate}
           Kill == {c \in S : ~conflate /\ Full(c)}
<1>1. /\ sendQueue' = [c \in Conns |->
              IF c \in Lost THEN Append(Tail(sendQueue[c]), f)
              ELSE IF c \in S /\ ~Full(c) THEN Append(sendQueue[c], f)
              ELSE sendQueue[c]]
      /\ dead' = [c \in Conns |-> dead[c] \/ c \in Kill]
      /\ closing' = [c \in Conns |-> IF c \in Kill THEN TRUE ELSE closing[c]]
  BY DEF Enqueue, OldestDropped, Killed, CloseCreated
<1>2. ASSUME NEW c \in Conns
      PROVE  /\ conflated'[c] = IF c \in Lost /\ f # Service THEN conflated[c] \cup Lose(c)
                                ELSE conflated[c]
             /\ pushedOut'[c] = IF c \in Lost /\ f = Service THEN pushedOut[c] \cup Lose(c)
                                ELSE pushedOut[c]
  BY DEF Enqueue, Lose
<1>3. conflated' \in [Conns -> SUBSET Published] /\ pushedOut' \in [Conns -> SUBSET Published]
  <2>1. conflated' = [c \in Conns |-> conflated'[c]] /\ pushedOut' = [c \in Conns |-> pushedOut'[c]]
    BY DEF Enqueue, HubInv, HubTypeOK
  <2>2. ASSUME NEW c \in Conns PROVE Full(c) => Lose(c) \subseteq Published
    <3>1. SUFFICES ASSUME Full(c) PROVE Head(sendQueue[c]) \in Elems(sendQueue[c])
      BY DEF HubInv, ConnFlow, Flow, HubTypeOK, Lose
    <3>2. sendQueue[c] \in Seq(Nat) /\ sendQueue[c] # <<>>
      BY <3>1, CapacityAssumption, EmptySeq DEF HubInv, ConnFlow, Flow, Full
    <3> QED BY <3>2, TailElems
  <2> QED BY <1>2, <2>1, <2>2 DEF HubInv, HubTypeOK
<1>4. ASSUME NEW c \in Conns
      PROVE  /\ sendQueue[c] \in Seq(Frame) /\ Len(sendQueue[c]) \in Nat /\ Len(sendQueue[c]) <= QueueMax
             /\ Full(c) => sendQueue[c] # <<>> /\ Append(Tail(sendQueue[c]), f) \in Seq(Frame)
                           /\ Len(Append(Tail(sendQueue[c]), f)) = QueueMax
             /\ Append(sendQueue[c], f) \in Seq(Frame)
             /\ Len(Append(sendQueue[c], f)) = Len(sendQueue[c]) + 1
             /\ ~Full(c) <=> Len(sendQueue[c]) < QueueMax
  <2>1. sendQueue[c] \in Seq(Frame) /\ Len(sendQueue[c]) \in Nat /\ Len(sendQueue[c]) <= QueueMax
    BY HubFacts DEF HubInv, HubTypeOK
  <2>2. Append(sendQueue[c], f) \in Seq(Frame) /\ Len(Append(sendQueue[c], f)) = Len(sendQueue[c]) + 1
    BY <2>1, AppendProperties
  <2>3. ASSUME Full(c)
        PROVE  sendQueue[c] # <<>> /\ Append(Tail(sendQueue[c]), f) \in Seq(Frame)
               /\ Len(Append(Tail(sendQueue[c]), f)) = QueueMax
    <3>1. sendQueue[c] # <<>>
      BY <2>1, <2>3, CapacityAssumption, EmptySeq DEF Full
    <3>2. Tail(sendQueue[c]) \in Seq(Frame) /\ Len(Tail(sendQueue[c])) = Len(sendQueue[c]) - 1
      BY <2>1, <3>1, HeadTailProperties
    <3>3. Append(Tail(sendQueue[c]), f) \in Seq(Frame)
          /\ Len(Append(Tail(sendQueue[c]), f)) = Len(Tail(sendQueue[c])) + 1
      BY <3>2, AppendProperties
    <3> QED BY <2>1, <2>3, <3>1, <3>2, <3>3, CapacityAssumption DEF Full
  <2>4. ~Full(c) <=> Len(sendQueue[c]) < QueueMax
    BY <2>1, CapacityAssumption DEF Full
  <2> QED BY <2>1, <2>2, <2>3, <2>4
<1>5. ASSUME NEW c \in Conns PROVE sendQueue'[c] \in Seq(Frame) /\ Len(sendQueue'[c]) <= QueueMax
  <2>1. CASE c \in Lost
    BY <1>1, <1>4, <2>1, CapacityAssumption
  <2>2. CASE c \notin Lost /\ c \in S /\ ~Full(c)
    BY <1>1, <1>4, <2>2, CapacityAssumption
  <2>3. CASE c \notin Lost /\ ~(c \in S /\ ~Full(c))
    BY <1>1, <1>4, <2>3
  <2> QED BY <2>1, <2>2, <2>3
<1>6. sendQueue' \in [Conns -> Seq(Frame)]
  BY <1>1, <1>5
<1>7. dead' \in [Conns -> BOOLEAN] /\ closing' \in [Conns -> BOOLEAN]
  BY <1>1 DEF HubInv, HubTypeOK
<1>8. \A c \in Conns : dead[c] => dead'[c]
  BY <1>1
<1>9. ASSUME NEW c \in Conns, c \notin Kill PROVE dead'[c] = dead[c]
  BY <1>1, <1>9 DEF HubInv, HubTypeOK
<1>10. ASSUME NEW c \in Conns \ S PROVE Untouched(c)
  BY <1>1, <1>2, <1>9, <1>10 DEF Untouched, Same
<1>11. ASSUME NEW c \in S
       PROVE  Took(c, f) \/ (conflate /\ Pushed(c, f)) \/ (~conflate /\ Overflowed(c))
  <2>1. CASE ~Full(c)
    BY <1>1, <1>2, <1>4, <1>9, <1>11, <2>1 DEF Took, Same
  <2>2. CASE Full(c) /\ conflate
    BY <1>1, <1>2, <1>4, <1>9, <1>11, <2>2 DEF Pushed
  <2>3. CASE Full(c) /\ ~conflate
    <3>1. c \notin Lost /\ c \in Kill /\ c \in Conns
      BY <1>11, <2>3
    <3> QED BY <1>1, <1>2, <2>3, <3>1 DEF Overflowed
  <2> QED BY <2>1, <2>2, <2>3
<1> QED BY <1>3, <1>5, <1>6, <1>7, <1>8, <1>10, <1>11

LEMMA RouteKeeps == ASSUME HubInv, Route PROVE HubInv'
<1> DEFINE S == {c \in Conns : life[c] = "registered" /\ ~dead[c] /\ subscribed[c]}
           n == Head(busq)
<1>1. /\ busq # <<>> /\ busq' = Tail(busq)
      /\ Enqueue(S, n, kinds[n] = "quote")
      /\ routed' = [c \in Conns |-> IF c \in S THEN routed[c] \cup {n} ELSE routed[c]]
      /\ UNCHANGED <<kinds, dropped, life, subscribed, sender, frame, broken, taken>>
  BY DEF Route
<1>2. S \subseteq Conns /\ (kinds[n] = "quote") \in BOOLEAN
  OBVIOUS
<1>3. /\ Published \subseteq Nat /\ Service \notin Published /\ Published \subseteq Frame
      /\ busq \in Seq(Nat) /\ Elems(busq) \subseteq Published
  BY HubFacts DEF HubInv
<1>4. /\ Elems(busq) = {n} \cup Elems(Tail(busq)) /\ Ordered(Tail(busq))
      /\ \A e \in Elems(Tail(busq)) : n < e
  <2>1. /\ Elems(busq) = {n} \cup Elems(Tail(busq)) /\ Ordered(Tail(busq))
        /\ n # Service => \A e \in Elems(Tail(busq)) \ {Service} : n < e
    BY <1>1, <1>3, TailElems DEF HubInv, HubOrder
  <2> QED BY <1>3, <2>1
<1>5. n \in Published /\ n \in Nat /\ n # Service /\ n \in Frame
  BY <1>3, <1>4
<1> HIDE DEF n, S
<1>6. /\ \A c \in Conns \ S : Untouched(c)
      /\ \A c \in S : Took(c, n) \/ Pushed(c, n) \/ Overflowed(c)
      /\ dead' \in [Conns -> BOOLEAN] /\ closing' \in [Conns -> BOOLEAN]
      /\ sendQueue' \in [Conns -> Seq(Frame)]
      /\ \A c \in Conns : Len(sendQueue'[c]) <= QueueMax
      /\ conflated' \in [Conns -> SUBSET Published]
      /\ pushedOut' \in [Conns -> SUBSET Published]
      /\ \A c \in Conns : dead[c] => dead'[c]
  BY <1>1, <1>2, <1>5, EnqueueEffect
<1>7. HubTypeOK'
  <2>1. busq' \in Seq(Published) /\ Len(busq') <= BusMax
    <3>1. Tail(busq) \in Seq(Published) /\ Len(Tail(busq)) = Len(busq) - 1 /\ Len(busq) \in Nat
      BY <1>1, HeadTailProperties, LenProperties DEF HubInv, HubTypeOK
    <3> QED BY <1>1, <3>1, CapacityAssumption DEF HubInv, HubTypeOK
  <2>2. routed' \in [Conns -> SUBSET Published]
    BY <1>1, <1>5 DEF HubInv, HubTypeOK
  <2>3. Published' = Published
    BY <1>1 DEF Published
  <2>4. \A c \in Conns : life'[c] = "registered" /\ sender'[c] = "done" => dead'[c]
    BY <1>1, <1>6 DEF HubInv, HubTypeOK
  <2>5. \A h \in {routed', taken', conflated', pushedOut'} : h \in [Conns -> SUBSET Published']
    BY <1>1, <1>6, <2>2, <2>3 DEF HubInv, HubTypeOK
  <2> QED BY <1>1, <1>6, <2>1, <2>3, <2>4, <2>5 DEF HubInv, HubTypeOK
<1>8. HubOrder'
  <2>1. ASSUME NEW c \in Conns, NEW b \in Elems(Tail(busq)), NEW r \in routed'[c] PROVE r < b
    BY <1>1, <1>4, <2>1 DEF HubInv, HubOrder
  <2>2. ASSUME NEW c \in Conns, life[c] = "new" PROVE routed'[c] = {}
    BY <1>1, <2>2 DEF HubInv, HubOrder, S
  <2> QED BY <1>1, <1>4, <2>1, <2>2 DEF HubInv, HubOrder
<1>9. ASSUME NEW c \in Conns PROVE ConnFlow(c)'
  <2>1. ConnFlow(c) /\ \A r \in routed[c] : r < n
    BY <1>4, <1>9 DEF HubInv, HubOrder
  <2>2. CASE c \notin S
    BY <1>1, <1>6, <2>1, <2>2 DEF ConnFlow, Untouched, Same
  <2>3. CASE c \in S
    <3>1. routed'[c] = routed[c] \cup {n} /\ taken' = taken
      BY <1>1, <2>3, <1>9
    <3>2. CASE Took(c, n)
      BY <1>5, <2>1, <3>1, <3>2, FlowAppend DEF ConnFlow, Took, Same
    <3>3. CASE Pushed(c, n)
      BY <1>5, <2>1, <3>1, <3>3, FlowConflate DEF ConnFlow, Pushed, Lose
    <3>4. CASE Overflowed(c)
      <4>1. Flow(sendQueue[c], TRUE, routed[c] \cup {n}, taken[c], conflated[c], pushedOut[c])
        BY <1>5, <2>1, FlowDead DEF ConnFlow
      <4> QED BY <3>1, <3>4, <4>1, Zenon DEF ConnFlow, Overflowed
    <3> QED BY <1>6, <2>3, <3>2, <3>3, <3>4
  <2> QED BY <2>2, <2>3
<1> QED BY <1>7, <1>8, <1>9 DEF HubInv

LEMMA ConnectKeeps == ASSUME HubInv, NEW c \in Conns, Register(c) PROVE HubInv'
<1>1. /\ life[c] = "new" /\ life' = [life EXCEPT ![c] = "registered"]
      /\ sendQueue' = [sendQueue EXCEPT ![c] = <<Service>>]
      /\ sender' = [sender EXCEPT ![c] = "get"]
      /\ UNCHANGED <<busVars, dead, subscribed, frame, closing, broken, history>>
  BY DEF Register
<1>2. /\ <<Service>> \in Seq(Frame) /\ <<Service>> \in Seq(Nat) /\ Len(<<Service>>) = 1
      /\ Elems(<<Service>>) = {Service} /\ Ordered(<<Service>>)
  <2>1. Service \in Nat /\ Service \in Frame
    BY HubFacts DEF Service, HubInv
  <2>2. <<Service>> = Append(<<>>, Service) /\ <<>> \in Seq(Nat) /\ <<>> \in Seq(Frame)
    OBVIOUS
  <2>3. Elems(<<>>) = {} /\ Ordered(<<>>)
    BY DEF Elems, Ordered
  <2>4. /\ Append(<<>>, Service) \in Seq(Nat) /\ Append(<<>>, Service) \in Seq(Frame)
        /\ Len(Append(<<>>, Service)) = 1
        /\ Elems(Append(<<>>, Service)) = {Service} /\ Ordered(Append(<<>>, Service))
    <3> DEFINE e == <<>>
    <3>1. e \in Seq(Nat) /\ Elems(e) = {} /\ Ordered(e) /\ Len(e) = 0
      BY <2>2, <2>3
    <3> HIDE DEF e
    <3>2. /\ Append(e, Service) \in Seq(Nat) /\ Len(Append(e, Service)) = Len(e) + 1
          /\ Elems(Append(e, Service)) = Elems(e) \cup {Service}
          /\ Ordered(Append(e, Service))
      BY <2>1, <3>1, AppendElems
    <3>3. Append(e, Service) \in Seq(Frame)
      BY <2>1, <2>2, AppendProperties DEF e
    <3> QED BY <3>1, <3>2, <3>3 DEF e
  <2> QED BY <2>2, <2>4
<1>3. routed[c] = {} /\ sender[c] = "done" /\ frame[c] = Nothing
  BY <1>1 DEF HubInv, HubOrder, HubTypeOK
<1>4. Published' = Published
  BY <1>1 DEF Published, busVars
<1>5. HubTypeOK'
  <2>1. /\ life' \in [Conns -> {"new", "registered", "gone"}]
        /\ sender' \in [Conns -> {"get", "send", "done"}]
        /\ sendQueue' \in [Conns -> Seq(Frame)]
    BY <1>1, <1>2 DEF HubInv, HubTypeOK
  <2>2. \A d \in Conns : Len(sendQueue'[d]) <= QueueMax
    BY <1>1, <1>2, CapacityAssumption DEF HubInv, HubTypeOK
  <2>3. \A d \in Conns : frame'[d] # Nothing <=> sender'[d] = "send"
    BY <1>1, <1>3 DEF HubInv, HubTypeOK
  <2>4. \A d \in Conns : life'[d] = "registered" /\ sender'[d] = "done" => dead'[d]
    BY <1>1 DEF HubInv, HubTypeOK
  <2>5. \A h \in {routed', taken', conflated', pushedOut'} : h \in [Conns -> SUBSET Published']
    BY <1>1, <1>4 DEF HubInv, HubTypeOK, history
  <2> QED BY <1>1, <1>4, <2>1, <2>2, <2>3, <2>4, <2>5 DEF HubInv, HubTypeOK, busVars
<1>6. HubOrder'
  BY <1>1 DEF HubInv, HubOrder, HubTypeOK, busVars, history
<1>7. ASSUME NEW d \in Conns PROVE ConnFlow(d)'
  <2>1. CASE d # c
    BY <1>1, <1>7, <2>1 DEF HubInv, HubTypeOK, ConnFlow, history
  <2>2. CASE d = c
    <3>1. sendQueue'[c] = <<Service>> /\ taken[c] = {}
      BY <1>1, <1>3 DEF HubInv, HubTypeOK, ConnFlow, Flow
    <3> QED BY <1>1, <1>2, <1>3, <2>2, <3>1 DEF ConnFlow, Flow, history
  <2> QED BY <2>1, <2>2
<1> QED BY <1>5, <1>6, <1>7 DEF HubInv

LEMMA PingKeeps == ASSUME HubInv, NEW c \in Conns, Ping(c) PROVE HubInv'
<1>1. /\ Enqueue({c}, Service, TRUE)
      /\ UNCHANGED <<busVars, life, subscribed, sender, frame, broken, routed, taken>>
  BY DEF Ping
<1>2. Service \in Frame
  BY HubFacts DEF HubInv
<1>3. /\ \A d \in Conns \ {c} : Untouched(d)
      /\ Took(c, Service) \/ Pushed(c, Service)
      /\ dead' \in [Conns -> BOOLEAN] /\ closing' \in [Conns -> BOOLEAN]
      /\ sendQueue' \in [Conns -> Seq(Frame)]
      /\ \A d \in Conns : Len(sendQueue'[d]) <= QueueMax
      /\ conflated' \in [Conns -> SUBSET Published]
      /\ pushedOut' \in [Conns -> SUBSET Published]
      /\ \A d \in Conns : dead[d] => dead'[d]
  BY <1>1, <1>2, EnqueueEffect
<1>4. HubTypeOK'
  <2>1. Published' = Published
    BY <1>1 DEF Published, busVars
  <2>2. \A d \in Conns : life'[d] = "registered" /\ sender'[d] = "done" => dead'[d]
    BY <1>1, <1>3 DEF HubInv, HubTypeOK
  <2>3. \A h \in {routed', taken', conflated', pushedOut'} : h \in [Conns -> SUBSET Published']
    BY <1>1, <1>3, <2>1 DEF HubInv, HubTypeOK
  <2> QED BY <1>1, <1>3, <2>1, <2>2, <2>3 DEF HubInv, HubTypeOK, busVars
<1>5. HubOrder'
  BY <1>1 DEF HubInv, HubOrder, busVars
<1>6. ASSUME NEW d \in Conns PROVE ConnFlow(d)'
  <2>1. ConnFlow(d)
    BY <1>6 DEF HubInv
  <2>2. CASE d # c
    BY <1>1, <1>3, <1>6, <2>1, <2>2 DEF ConnFlow, Untouched, Same
  <2>3. CASE d = c /\ Took(c, Service)
    <3>1. Flow(Append(sendQueue[c], Service), dead[c], routed[c], taken[c], conflated[c], pushedOut[c])
      BY <2>1, <2>3, FlowService DEF ConnFlow
    <3>2. /\ sendQueue'[c] = Append(sendQueue[c], Service) /\ dead'[c] = dead[c]
          /\ conflated'[c] = conflated[c] /\ pushedOut'[c] = pushedOut[c]
          /\ routed' = routed /\ taken' = taken
      BY <1>1, <2>3, Zenon DEF Took, Same
    <3> QED BY <2>3, <3>1, <3>2, Zenon DEF ConnFlow
  <2>4. CASE d = c /\ Pushed(c, Service)
    <3>1. /\ sendQueue'[c] = Append(Tail(sendQueue[c]), Service) /\ sendQueue[c] # <<>>
          /\ dead'[c] = dead[c] /\ conflated'[c] = conflated[c]
          /\ pushedOut'[c] = pushedOut[c] \cup ({Head(sendQueue[c])} \ {Service})
      BY <2>4 DEF Pushed, Lose
    <3>2. Flow(Append(Tail(sendQueue[c]), Service), dead[c], routed[c], taken[c], conflated[c],
               pushedOut[c] \cup ({Head(sendQueue[c])} \ {Service}))
      BY <2>1, <2>4, <3>1, FlowService DEF ConnFlow
    <3>3. routed' = routed /\ taken' = taken
      BY <1>1
    <3> QED BY <2>4, <3>1, <3>2, <3>3, Zenon DEF ConnFlow
  <2> QED BY <1>3, <2>2, <2>3, <2>4
<1> QED BY <1>4, <1>5, <1>6 DEF HubInv

LEMMA SenderGetKeeps == ASSUME HubInv, NEW c \in Conns, SenderGet(c) PROVE HubInv'
<1> DEFINE h == Head(sendQueue[c])
<1>1. /\ sender[c] = "get" /\ sendQueue[c] # <<>>
      /\ frame' = [frame EXCEPT ![c] = h]
      /\ sendQueue' = [sendQueue EXCEPT ![c] = Tail(sendQueue[c])]
      /\ sender' = [sender EXCEPT ![c] = "send"]
      /\ taken' = [taken EXCEPT ![c] = taken[c] \cup ({h} \ {Service})]
      /\ UNCHANGED <<busVars, life, dead, subscribed, closing, broken, routed, conflated,
                     pushedOut>>
  BY DEF SenderGet
<1>2. /\ h \in Frame /\ h # Nothing /\ Tail(sendQueue[c]) \in Seq(Frame)
      /\ Len(Tail(sendQueue[c])) = Len(sendQueue[c]) - 1 /\ Len(sendQueue[c]) \in Nat
  BY <1>1, HubFacts, HeadTailProperties DEF HubInv
<1>3. Flow(Tail(sendQueue[c]), dead[c], routed[c], taken[c] \cup ({h} \ {Service}), conflated[c], pushedOut[c])
  BY <1>1, FlowTake DEF HubInv, ConnFlow
<1>4. taken[c] \cup ({h} \ {Service}) \subseteq Published
  BY <1>3 DEF Flow, HubInv, HubTypeOK
<1> HIDE DEF h
<1>5. Published' = Published
  BY <1>1 DEF Published, busVars
<1>6. HubTypeOK'
  <2>1. /\ sender' \in [Conns -> {"get", "send", "done"}]
        /\ frame' \in [Conns -> Frame \cup {Nothing}]
        /\ sendQueue' \in [Conns -> Seq(Frame)]
        /\ taken' \in [Conns -> SUBSET Published]
    BY <1>1, <1>2, <1>4 DEF HubInv, HubTypeOK
  <2>2. \A d \in Conns : Len(sendQueue'[d]) <= QueueMax
    BY <1>1, <1>2, CapacityAssumption DEF HubInv, HubTypeOK
  <2>3. \A d \in Conns : frame'[d] # Nothing <=> sender'[d] = "send"
    BY <1>1, <1>2 DEF HubInv, HubTypeOK
  <2>4. \A d \in Conns : life'[d] = "registered" /\ sender'[d] = "done" => dead'[d]
    BY <1>1 DEF HubInv, HubTypeOK
  <2>5. \A x \in {routed', taken', conflated', pushedOut'} : x \in [Conns -> SUBSET Published']
    <3>1. /\ routed \in [Conns -> SUBSET Published] /\ conflated \in [Conns -> SUBSET Published]
          /\ pushedOut \in [Conns -> SUBSET Published]
      BY DEF HubInv, HubTypeOK
    <3>2. /\ routed' \in [Conns -> SUBSET Published'] /\ conflated' \in [Conns -> SUBSET Published']
          /\ pushedOut' \in [Conns -> SUBSET Published'] /\ taken' \in [Conns -> SUBSET Published']
      BY <1>1, <1>5, <2>1, <3>1, Zenon
    <3> QED BY <3>2
  <2> QED BY <1>1, <1>5, <2>1, <2>2, <2>3, <2>4, <2>5 DEF HubInv, HubTypeOK, busVars
<1>7. HubOrder'
  BY <1>1 DEF HubInv, HubOrder, HubTypeOK, busVars
<1>8. ASSUME NEW d \in Conns PROVE ConnFlow(d)'
  <2>1. CASE d # c
    BY <1>1, <1>8, <2>1 DEF HubInv, HubTypeOK, ConnFlow
  <2>2. CASE d = c
    <3>1. sendQueue'[c] = Tail(sendQueue[c]) /\ taken'[c] = taken[c] \cup ({h} \ {Service})
      BY <1>1 DEF HubInv, HubTypeOK
    <3> QED BY <1>1, <1>3, <2>2, <3>1 DEF ConnFlow
  <2> QED BY <2>1, <2>2
<1> QED BY <1>6, <1>7, <1>8 DEF HubInv

(* The steps that do not move a frame: a connection dies, is subscribed or *)
(* leaves.                                                                 *)
LEMMA QuietStepKeeps ==
    ASSUME HubInv, UNCHANGED <<busVars, sendQueue, history>>,
           life' \in [Conns -> {"new", "registered", "gone"}],
           dead' \in [Conns -> BOOLEAN], subscribed' \in [Conns -> BOOLEAN],
           closing' \in [Conns -> BOOLEAN], broken' \in [Conns -> BOOLEAN],
           sender' \in [Conns -> {"get", "send", "done"}],
           frame' \in [Conns -> Frame \cup {Nothing}],
           \A c \in Conns : /\ frame'[c] # Nothing <=> sender'[c] = "send"
                            /\ life'[c] = "registered" /\ sender'[c] = "done" => dead'[c]
                            /\ life'[c] = "new" => life[c] = "new" /\ sender'[c] = "done"
                            /\ dead[c] => dead'[c]
    PROVE  HubInv'
<1>1. Published' = Published
  BY DEF Published, busVars
<1>2. HubTypeOK'
  BY <1>1 DEF HubInv, HubTypeOK, busVars, history
<1>3. HubOrder'
  BY DEF HubInv, HubOrder, busVars, history
<1>4. ASSUME NEW c \in Conns PROVE ConnFlow(c)'
  BY <1>4 DEF HubInv, ConnFlow, Flow, history
<1> QED BY <1>2, <1>3, <1>4 DEF HubInv

LEMMA QuietStepsKeep ==
    ASSUME HubInv, NEW c \in Conns,
           \/ \E on \in BOOLEAN : Subscribe(c, on)
           \/ Disconnected(c) \/ SendDone(c) \/ ServeEnds(c) \/ CloseTask(c)
    PROVE  HubInv'
<1>1. CASE (\E on \in BOOLEAN : Subscribe(c, on)) \/ Disconnected(c)
  <2>1. /\ UNCHANGED <<busVars, life, dead, sendQueue, sender, frame, closing, history>>
        /\ subscribed' \in [Conns -> BOOLEAN] /\ broken' \in [Conns -> BOOLEAN]
    BY <1>1 DEF Subscribe, Disconnected, HubInv, HubTypeOK
  <2> QED BY <2>1, QuietStepKeeps DEF HubInv, HubTypeOK, HubOrder
<1>2. CASE SendDone(c)
  <2>1. /\ sender[c] = "send" /\ frame' = [frame EXCEPT ![c] = Nothing]
        /\ UNCHANGED <<busVars, life, sendQueue, subscribed, closing, history>>
        /\ \/ /\ sender' = [sender EXCEPT ![c] = IF dead[c] THEN "done" ELSE "get"]
              /\ UNCHANGED <<dead, broken>>
           \/ /\ sender' = [sender EXCEPT ![c] = "done"]
              /\ dead' = [dead EXCEPT ![c] = TRUE] /\ broken' = [broken EXCEPT ![c] = TRUE]
    BY <1>2 DEF SendDone
  <2>2. /\ dead' \in [Conns -> BOOLEAN] /\ broken' \in [Conns -> BOOLEAN]
        /\ sender' \in [Conns -> {"get", "send", "done"}]
        /\ frame' \in [Conns -> Frame \cup {Nothing}]
    BY <2>1 DEF HubInv, HubTypeOK
  <2>3. ASSUME NEW d \in Conns
        PROVE  /\ frame'[d] # Nothing <=> sender'[d] = "send"
               /\ life'[d] = "registered" /\ sender'[d] = "done" => dead'[d]
               /\ life'[d] = "new" => life[d] = "new" /\ sender'[d] = "done"
               /\ dead[d] => dead'[d]
    <3>1. CASE d # c
      BY <2>1, <2>3, <3>1 DEF HubInv, HubTypeOK, HubOrder
    <3>2. CASE d = c
      BY <2>1, <2>3, <3>2 DEF HubInv, HubTypeOK, HubOrder
    <3> QED BY <3>1, <3>2
  <2> QED BY <2>1, <2>2, <2>3, QuietStepKeeps DEF HubInv, HubTypeOK
<1>3. CASE ServeEnds(c) \/ CloseTask(c)
  <2>1. /\ life' = [life EXCEPT ![c] = "gone"] /\ dead' = [dead EXCEPT ![c] = TRUE]
        /\ sender' = [sender EXCEPT ![c] = "done"] /\ frame' = [frame EXCEPT ![c] = Nothing]
        /\ closing' = [closing EXCEPT ![c] = FALSE]
        /\ UNCHANGED <<busVars, sendQueue, subscribed, broken, history>>
    BY <1>3 DEF ServeEnds, CloseTask, Unregister
  <2>2. /\ life' \in [Conns -> {"new", "registered", "gone"}]
        /\ dead' \in [Conns -> BOOLEAN] /\ closing' \in [Conns -> BOOLEAN]
        /\ sender' \in [Conns -> {"get", "send", "done"}]
        /\ frame' \in [Conns -> Frame \cup {Nothing}]
    BY <2>1 DEF HubInv, HubTypeOK
  <2>3. ASSUME NEW d \in Conns
        PROVE  /\ frame'[d] # Nothing <=> sender'[d] = "send"
               /\ life'[d] = "registered" /\ sender'[d] = "done" => dead'[d]
               /\ life'[d] = "new" => life[d] = "new" /\ sender'[d] = "done"
               /\ dead[d] => dead'[d]
    <3>1. CASE d # c
      BY <2>1, <2>3, <3>1 DEF HubInv, HubTypeOK, HubOrder
    <3>2. CASE d = c
      BY <2>1, <2>3, <3>2 DEF HubInv, HubTypeOK, HubOrder
    <3> QED BY <3>1, <3>2
  <2> QED BY <2>1, <2>2, <2>3, QuietStepKeeps DEF HubInv, HubTypeOK
<1> QED BY <1>1, <1>2, <1>3

LEMMA HubNextKeeps == ASSUME HubInv, Next PROVE HubInv'
<1>1. CASE \E kind \in {"quote", "micro"} : Publish(kind)
  BY <1>1, PublishKeeps
<1>2. CASE Route
  BY <1>2, RouteKeeps
<1>3. CASE \E c \in Conns : Client(c) \/ Step(c)
  <2>1. PICK c \in Conns : Client(c) \/ Step(c)
    BY <1>3
  <2>2. CASE Register(c)
    BY <2>2, ConnectKeeps
  <2>3. CASE Ping(c)
    BY <2>3, PingKeeps
  <2>4. CASE SenderGet(c)
    BY <2>4, SenderGetKeeps
  <2>5. CASE \/ \E on \in BOOLEAN : Subscribe(c, on)
             \/ Disconnected(c) \/ SendDone(c) \/ ServeEnds(c) \/ CloseTask(c)
    BY <2>5, QuietStepsKeep
  <2> QED BY <2>1, <2>2, <2>3, <2>4, <2>5 DEF Client, Step
<1> QED BY <1>1, <1>2, <1>3 DEF Next

LEMMA HubInvHolds == SocketsSpec => []HubInv
<1>1. SocketsInit => HubInv
  <2> SUFFICES ASSUME Init PROVE HubInv
    BY DEF SocketsInit
  <2>1. /\ Elems(<<>>) = {} /\ Ordered(<<>>) /\ <<>> \in Seq(Nat) /\ <<>> \in Seq(Frame)
        /\ Len(<<>>) = 0 /\ <<>> \in Seq({"quote", "micro"}) /\ <<>> \in Seq(Published)
    BY DEF Elems, Ordered
  <2>2. HubTypeOK
    BY <2>1, CapacityAssumption DEF Init, HubTypeOK
  <2>3. HubOrder
    BY <2>1 DEF Init, HubOrder
  <2>4. \A c \in Conns : ConnFlow(c)
    BY <2>1 DEF Init, ConnFlow, Flow
  <2> QED BY <2>2, <2>3, <2>4 DEF HubInv
<1>2. HubInv /\ [SocketsNext]_socketVars => HubInv'
  <2> SUFFICES ASSUME HubInv, [SocketsNext]_socketVars PROVE HubInv'
    OBVIOUS
  <2>1. Next \/ UNCHANGED vars
    BY DEF SocketsNext, AtServerEnd, AtBrowserEnd, socketVars
  <2>2. CASE UNCHANGED vars
    BY <2>2 DEF vars, busVars, connVars, history, HubInv, HubTypeOK, HubOrder, ConnFlow, Published
  <2> QED BY <2>1, <2>2, HubNextKeeps
<1> QED BY <1>1, <1>2, PTL DEF SocketsSpec
-----------------------------------------------------------------------------
(* Both ends keep their shape: queues within their capacity, a sender per  *)
(* live connection, handlers exactly on the sockets that live.             *)
THEOREM SocketsTypeCorrect == SocketsSpec => []SocketsTypeOK
<1>1. HubInv /\ BsGood => SocketsTypeOK
  BY DEF HubInv, SocketsTypeOK
<1> QED BY <1>1, HubInvHolds, BsGoodHolds, PTL

(* Frames leave a connection in publication order and none twice (hub.py   *)
(* _enqueue, _sender).                                                     *)
THEOREM DeliveredInOrderHolds == SocketsSpec => []DeliveredInOrder
<1>1. HubInv => DeliveredInOrder
  BY DEF HubInv, ConnFlow, Flow, DeliveredInOrder, Ordered, InQueue, Elems
<1> QED BY <1>1, HubInvHolds, PTL

(* A live connection misses no routed event except for a newer frame.      *)
THEOREM NoSilentGapHolds == SocketsSpec => []NoSilentGap
<1>1. HubInv => NoSilentGap
  BY DEF HubInv, ConnFlow, Flow, NoSilentGap, InQueue, Elems
<1> QED BY <1>1, HubInvHolds, PTL

(* The last event routed to a live connection is never the one conflated.  *)
THEOREM LatestEventKeptHolds == SocketsSpec => []LatestEventKept
<1>1. HubInv => LatestEventKept
  BY DEF HubInv, ConnFlow, Flow, LatestEventKept, InQueue, Elems
<1> QED BY <1>1, HubInvHolds, PTL
=============================================================================
