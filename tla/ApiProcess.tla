----------------------------- MODULE ApiProcess -----------------------------
(***************************************************************************)
(* All that the API process serves (api/main.py): requests (ApiServer) and *)
(* live channels with their browser ends (WebSockets).  They meet in the   *)
(* event loop only and share no state, so a behaviour is explored with one *)
(* of them at work.                                                        *)
(***************************************************************************)
EXTENDS ApiServer, WebSockets

VARIABLE channels    \* it is the channels that are at work

apiProcessVars == <<serverVars, socketVars, channels>>

ApiProcessInit ==
    /\ ServerInit /\ SocketsInit
    /\ channels \in BOOLEAN
    /\ IF channels THEN side = "link" ELSE end = "server"

ApiProcessNext ==
    /\ \/ ~channels /\ ServerNext /\ UNCHANGED socketVars
       \/ channels /\ SocketsNext /\ UNCHANGED serverVars
    /\ UNCHANGED channels

(* (Neither side has anything to do before it is at work, so fairness asks *)
(* nothing of the other.)                                                  *)
ApiProcessSpec ==
    /\ ApiProcessInit /\ [][ApiProcessNext]_apiProcessVars
    /\ LinkFairness /\ Fairness /\ BsFairness
=============================================================================
