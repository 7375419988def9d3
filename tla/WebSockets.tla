----------------------------- MODULE WebSockets -----------------------------
(***************************************************************************)
(* Both ends of the live channels: the hub with its endpoint in the API    *)
(* process (WsHub), and a channel's socket in the browser (BrowserSocket). *)
(* Between them is a network that may lose either end at any time, which   *)
(* each module allows for by itself; they share no state, so a behaviour is*)
(* explored at one end.                                                    *)
(***************************************************************************)
EXTENDS WsHub, BrowserSocket

VARIABLE end

socketVars == <<vars, bsVars, end>>

SocketsInit == Init /\ BsInit /\ end \in {"server", "browser"}

AtServerEnd == end = "server" /\ Next /\ UNCHANGED bsVars
AtBrowserEnd == end = "browser" /\ BsNext /\ UNCHANGED vars

SocketsNext == (AtServerEnd \/ AtBrowserEnd) /\ UNCHANGED end

SocketsSpec == SocketsInit /\ [][SocketsNext]_socketVars /\ Fairness /\ BsFairness

(* The shape of the variables: queues within their bounds, a sender per    *)
(* live connection, handlers on the sockets that live.                     *)
SocketsTypeOK == HubTypeOK /\ BsTypeOK
=============================================================================
