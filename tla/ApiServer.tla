----------------------------- MODULE ApiServer -----------------------------
(***************************************************************************)
(* The API process (api/main.py): the requests of browsers that sign in    *)
(* and keep a session (Session), and those that command the gateway or     *)
(* generate a report (Link).  The two share the event loop and no state,   *)
(* so a behaviour is explored with one side at work:                       *)
(*   "logins"  login attempts that fail and succeed, with time passing;    *)
(*   "tabs"    the tabs of a browser, logging in one at a time;            *)
(*   "link"    control and report requests, the link and the gateway.      *)
(***************************************************************************)
EXTENDS Session, Link

VARIABLE side

serverVars == <<sessionVars, linkVars, side>>

ServerInit == SessionInit /\ LinkInit /\ side \in {"logins", "tabs", "link"}

Logins == side = "logins" /\ (SignIn \/ Throttled) /\ UNCHANGED linkVars

FirstTry == CHOOSE a \in Tries : TRUE
OneAtATime == \A a \in Tries \ {FirstTry} : try[a] = "idle"
InTabs ==
    /\ side = "tabs"
    /\ Rotation \/ SignIn
    /\ OneAtATime'
    /\ UNCHANGED linkVars

OnLink == side = "link" /\ LinkNext /\ UNCHANGED sessionVars

ServerNext == (Logins \/ InTabs \/ OnLink) /\ UNCHANGED side

ServerSpec == ServerInit /\ [][ServerNext]_serverVars /\ LinkFairness
=============================================================================
