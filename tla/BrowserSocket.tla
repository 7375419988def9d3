--------------------------- MODULE BrowserSocket ---------------------------
(***************************************************************************)
(* One channel's socket in the browser (frontend/src/ws/client.ts, class   *)
(* MarketSocket) between the application, which starts and stops it with   *)
(* the session (App.vue, stores/realtime.ts), the ticket request it awaits *)
(* and the WebSockets it creates.  JavaScript runs one handler at a time: a*)
(* step is a handler, up to its await.  A socket is reused once it ended.  *)
(***************************************************************************)
EXTENDS Integers, FiniteSets

CONSTANTS Sockets, Instruments,
          None,     \* no socket
          MaxOpens  \* bound: calls of open() that await their ticket at once

ASSUME SocketAssumption == None \notin Sockets /\ MaxOpens \in Nat

VARIABLES
    desired, state, timer, ws,  \* of MarketSocket; timer: reconnectTimer is set
    keepalive,                  \* ping and watchdog timers run
    subscriptions,
    opening,   \* number of open() calls that await their ticket
    phase,     \* readyState of each WebSocket; "unused" before and after its life
    handled,   \* its handlers are ours (close() takes them off)
    server,    \* instruments its endpoint is subscribed to
    silent,    \* its peer is gone and nobody has noticed
    overlap    \* history: open() was called while another awaited its ticket

wants == <<desired, subscriptions>>
net == <<phase, handled, server, silent>>
bsVars == <<desired, state, timer, ws, keepalive, subscriptions, opening, net, overlap>>

BsInit ==
    /\ desired = FALSE /\ state = "idle" /\ timer = FALSE /\ ws = None
    /\ keepalive = FALSE /\ subscriptions = {} /\ opening = 0 /\ overlap = FALSE
    /\ phase = [s \in Sockets |-> "unused"] /\ handled = [s \in Sockets |-> FALSE]
    /\ server = [s \in Sockets |-> {}] /\ silent = [s \in Sockets |-> FALSE]

Live == {s \in Sockets : handled[s]}

-----------------------------------------------------------------------------
(* close(): the timers stop, the socket loses its handlers.  What becomes  *)
(* of it after that concerns the browser only.                             *)
HandlersOff == [handled EXCEPT ![ws] = FALSE]

Detached == /\ timer' = FALSE /\ keepalive' = FALSE /\ ws' = None
            /\ IF ws = None THEN UNCHANGED net
               ELSE /\ phase' = [phase EXCEPT ![ws] = "unused"]
                    /\ handled' = HandlersOff
                    /\ server' = [server EXCEPT ![ws] = {}]
                    /\ silent' = [silent EXCEPT ![ws] = FALSE]

Stop == /\ desired' = FALSE /\ state' = "closed"
        /\ Detached
        /\ UNCHANGED <<subscriptions, opening, overlap>>

(* start(): close(), then connect() with its first open(). *)
Start == /\ ~desired /\ opening < MaxOpens
         /\ desired' = TRUE /\ state' = "connecting"
         /\ opening' = opening + 1
         /\ overlap' = (overlap \/ opening > 0)
         /\ Detached
         /\ UNCHANGED subscriptions

(* subscribe(), unsubscribe(): a frame is sent if the socket is open, and  *)
(* a peer that is there acts on it.                                        *)
Sent(sub) == IF ws # None /\ phase[ws] = "open" /\ ~silent[ws]
             THEN [server EXCEPT ![ws] = sub] ELSE server
AtServer == IF ws = None THEN {} ELSE server[ws]

SubscribeTo(i) ==
    /\ subscriptions' = subscriptions \cup {i}
    /\ server' = Sent(AtServer \cup {i})
    /\ UNCHANGED <<desired, state, timer, ws, keepalive, opening, phase, handled, silent, overlap>>

UnsubscribeFrom(i) ==
    /\ subscriptions' = subscriptions \ {i}
    /\ server' = Sent(AtServer \ {i})
    /\ UNCHANGED <<desired, state, timer, ws, keepalive, opening, phase, handled, silent, overlap>>

-----------------------------------------------------------------------------
(* scheduleReconnect(), and then the timer's open(). *)
ScheduleReconnect ==
    IF timer \/ ~desired THEN UNCHANGED <<timer, state>>
    ELSE timer' = TRUE /\ state' = "reconnecting"

Reconnect ==
    /\ timer /\ opening < MaxOpens
    /\ timer' = FALSE
    /\ state' = "reconnecting"
    /\ opening' = opening + 1
    /\ overlap' = (overlap \/ opening > 0)
    /\ UNCHANGED <<wants, ws, keepalive, net>>

(* open() goes on when the ticket request ends.  No socket is created when *)
(* it failed, or if the constructor throws.                                *)
NoTicket ==
    /\ opening > 0
    /\ opening' = opening - 1
    /\ ScheduleReconnect
    /\ UNCHANGED <<wants, ws, keepalive, net, overlap>>

DesiredBefore == TRUE
StillDesired == desired

Ticket ==
    /\ opening > 0
    /\ opening' = opening - 1
    /\ IF ~StillDesired THEN UNCHANGED <<ws, net>>
       ELSE \E s \in Sockets :
              /\ phase[s] = "unused"
              /\ ws' = s
              /\ phase' = [phase EXCEPT ![s] = "connecting"]
              /\ handled' = [handled EXCEPT ![s] = TRUE]
              /\ UNCHANGED <<server, silent>>
    /\ UNCHANGED <<wants, state, timer, keepalive, overlap>>

-----------------------------------------------------------------------------
(* The WebSockets.  onopen subscribes through this.ws, whichever it is.    *)
Resubscribed(s) ==
    IF ws # None /\ (ws = s \/ phase[ws] = "open") /\ ~silent[ws]
    THEN [server EXCEPT ![ws] = @ \cup subscriptions] ELSE server

PingsOnly == keepalive
KeepaliveStarted == TRUE

Opened(s) ==
    /\ phase[s] = "connecting"
    /\ phase' = [phase EXCEPT ![s] = "open"]
    /\ state' = "open"
    /\ server' = Resubscribed(s)
    /\ keepalive' = KeepaliveStarted
    /\ UNCHANGED <<wants, timer, ws, opening, handled, silent, overlap>>

Quiet(s) ==
    /\ phase[s] = "open" /\ ~silent[s]
    /\ silent' = [silent EXCEPT ![s] = TRUE]
    /\ UNCHANGED <<wants, state, timer, ws, keepalive, opening, phase, handled, server, overlap>>

(* The watchdog closes this.ws after 30 s without a message.  A peer that  *)
(* is there answers the pings; a message of another socket of ours counts  *)
(* as well.                                                                *)
Watchdog ==
    /\ keepalive /\ ws # None
    /\ phase[ws] = "open" /\ silent[ws]
    /\ phase' = [phase EXCEPT ![ws] = "closing"]
    /\ UNCHANGED <<wants, state, timer, ws, keepalive, opening, handled, server, silent, overlap>>

(* onclose, whoever ended the connection, and before it opened as well     *)
(* (a ticket that expired).                                                *)
StartAgain == ScheduleReconnect

Ended(s) ==
    /\ handled[s]
    /\ phase' = [phase EXCEPT ![s] = "unused"]
    /\ handled' = [handled EXCEPT ![s] = FALSE]
    /\ server' = [server EXCEPT ![s] = {}]
    /\ silent' = [silent EXCEPT ![s] = FALSE]
    /\ keepalive' = FALSE
    /\ ws' = None
    /\ StartAgain
    /\ UNCHANGED <<wants, opening, overlap>>

BsNext ==
    \/ Start \/ Stop \/ Reconnect \/ NoTicket \/ Ticket \/ Watchdog
    \/ \E i \in Instruments : SubscribeTo(i) \/ UnsubscribeFrom(i)
    \/ \E s \in Sockets : Opened(s) \/ Quiet(s) \/ Ended(s)

(* The browser's timers fire, and it ends a connection it was told to      *)
(* close; the watchdog closes only if no other socket gets messages.       *)
(* Nothing forces a ticket, a connection or the end of a silent one.       *)
BsFairness ==
    /\ WF_bsVars(Watchdog /\ Live = {ws})
    /\ WF_bsVars(Reconnect)
    /\ \A s \in Sockets : WF_bsVars(Ended(s) /\ phase[s] = "closing")

BsSpec == BsInit /\ [][BsNext]_bsVars /\ BsFairness

-----------------------------------------------------------------------------
(* The shape of the variables; a socket has our handlers as long as we know*)
(* of it.                                                                  *)
BsTypeOK ==
    /\ state \in {"idle", "connecting", "open", "reconnecting", "closed"}
    /\ {desired, timer, keepalive, overlap} \subseteq BOOLEAN
    /\ opening \in 0..MaxOpens
    /\ ws \in Live \cup {None}
    /\ subscriptions \subseteq Instruments
    /\ phase \in [Sockets -> {"unused", "connecting", "open", "closing"}]
    /\ \A s \in Sockets : /\ handled[s] <=> phase[s] # "unused"
                          /\ ~handled[s] => server[s] = {} /\ ~silent[s]

(* As long as no open() was called while another awaited its ticket, one   *)
(* thing at most leads to a socket, or is it; the state shown is "open"    *)
(* exactly while one has opened.                                           *)
Sole ==
    /\ opening + (IF timer THEN 1 ELSE 0) + Cardinality(Live) <= 1
    /\ Live \subseteq {ws}
    /\ ~desired => Live = {} /\ ~timer
Shown ==
    /\ state = "open" <=> ws # None /\ phase[ws] \in {"open", "closing"}
    /\ state = "closed" => ~desired

(* Whatever was left behind, a socket that is wanted is there or on its    *)
(* way, an open one is watched, and its endpoint is subscribed to what the *)
(* views have asked for, also while it was connecting or away.             *)
OnItsWay == opening > 0 \/ timer \/ ws # None
Subscribed == ~silent[ws] => server[ws] = subscriptions

(* One socket serves the channel ("one authenticated WebSocket per         *)
(* channel", "resubscribes after reconnect", client.ts:2-6), and none is   *)
(* left after close(): open(), scheduleReconnect(), close() and the        *)
(* handlers in any order.                                                  *)
OneServingSocket ==
    /\ ~overlap => Sole /\ Shown
    /\ desired => OnItsWay
    /\ ws # None /\ phase[ws] = "open" => (desired => keepalive) /\ Subscribed

(* "30s silent-peer watchdog forcing a reconnect" (client.ts:6): a socket  *)
(* whose peer is gone does not stay the one in use.                        *)
SilentPeerLeft ==
    \A s \in Sockets :
        ws = s /\ silent[s] /\ ~overlap ~> ws # s \/ ~silent[s] \/ overlap
=============================================================================
