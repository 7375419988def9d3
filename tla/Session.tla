------------------------------ MODULE Session ------------------------------
(***************************************************************************)
(* Signed-in sessions of the API: the login throttle (api/ratelimit.py),   *)
(* rotating refresh tokens (auth/service.py), the endpoints that use them  *)
(* (api/routers/auth.py), and the browser's fetch wrapper                  *)
(* (frontend/src/api/client.ts) that answers a 401 with a refresh.         *)
(*                                                                         *)
(* All handlers run on one event loop; a step is what happens between two  *)
(* awaits.  The throttle's check and its count are two steps.  So are the  *)
(* read of a token, the statements that change rows and their commit, each *)
(* request in a transaction of its own, as PostgreSQL runs it (READ        *)
(* COMMITTED): a statement sees what was committed when it began, and      *)
(* waits for a row that another transaction has changed.  The tabs of one  *)
(* browser share its cookie, and nothing keeps two of their requests from  *)
(* refreshing at once.                                                     *)
(***************************************************************************)
EXTENDS Integers, Sequences, FiniteSets

CONSTANTS Tabs,        \* requests of the browser that may be in flight
          Tries,       \* login attempts that may be in flight, one address
          MaxFailures, \* LoginThrottle.max_failures
          Window,      \* LoginThrottle.window_s
          MaxTokens    \* bound: tokens issued

(* max_failures is at least 1 (ratelimit.py:37).                           *)
ASSUME ThrottleAssumption ==
    MaxFailures \in Nat \ {0} /\ Window \in Nat /\ IsFiniteSet(Tries)

NoToken == 0

VARIABLES
    tokens,   \* the committed refresh_tokens: [family, live, raced], by age
    cookie,   \* the browser's refresh cookie
    tab,      \* tab[r]: [at, token, rows], the request of a tab, its token
              \* and the rows its UPDATE has found
    reused,   \* families in which a reuse was detected and committed
    try,      \* try[a]: where a login attempt is
    failures  \* the throttle's deque for the address: ages, oldest first

sessionVars == <<tokens, cookie, tab, reused, try, failures>>

SessionInit ==
    /\ tokens = <<>> /\ cookie = NoToken /\ reused = {}
    /\ tab = [r \in Tabs |-> [at |-> "idle", token |-> NoToken, rows |-> {}]]
    /\ try = [a \in Tries |-> "idle"]
    /\ failures = <<>>

Becomes(r, at, token, rows) ==
    tab' = [tab EXCEPT ![r] = [at |-> at, token |-> token, rows |-> rows]]
Goes(r, at, token) == Becomes(r, at, token, {})

-----------------------------------------------------------------------------
(* Login. *)
(* _prune(): failures that are too old are popped from the left. *)
Popped(ages, n) ==
    /\ \A i \in 1..n : ages[i] > Window
    /\ n < Len(ages) => ages[n + 1] <= Window
Recent == SubSeq(failures, 1 + (CHOOSE n \in 0..Len(failures) : Popped(failures, n)),
                 Len(failures))

ExhaustedLater(n) == n > MaxFailures
Exhausted(n) == n >= MaxFailures

(* throttle.check(): prune, then refuse or go on to the password check.    *)
LoginCheck(a) ==
    /\ try[a] = "idle"
    /\ failures' = Recent
    /\ try' = IF Exhausted(Len(Recent)) THEN try
              ELSE [try EXCEPT ![a] = "checking"]
    /\ UNCHANGED <<tokens, cookie, tab, reused>>

LoginFails(a) ==
    /\ try[a] = "checking"
    /\ try' = [try EXCEPT ![a] = "idle"]
    /\ failures' = Append(failures, 0)
    /\ UNCHANGED <<tokens, cookie, tab, reused>>

(* The window is cleared; a token of a new family is committed next.       *)
LoginSucceeds(a) ==
    /\ try[a] = "checking"
    /\ Len(tokens) < MaxTokens
    /\ try' = [try EXCEPT ![a] = "issuing"]
    /\ failures' = <<>>
    /\ UNCHANGED <<tokens, cookie, tab, reused>>

LoginIssues(a) ==
    /\ try[a] = "issuing"
    /\ try' = [try EXCEPT ![a] = "idle"]
    /\ Len(tokens) < MaxTokens
    /\ tokens' = Append(tokens, [family |-> Len(tokens) + 1, live |-> TRUE,
                                 raced |-> FALSE])
    /\ cookie' = Len(tokens')
    /\ UNCHANGED <<tab, reused, failures>>

(* Time passes; beyond the window an age no longer matters.                *)
Tick ==
    /\ \E i \in DOMAIN failures : failures[i] <= Window
    /\ failures' = [i \in DOMAIN failures |->
                     IF failures[i] <= Window THEN failures[i] + 1 ELSE failures[i]]
    /\ UNCHANGED <<tokens, cookie, tab, reused, try>>

-----------------------------------------------------------------------------
(* Refresh and logout. *)
Revoked(S) == [t \in DOMAIN tokens |->
                 [tokens[t] EXCEPT !.live = @ /\ t \notin S]]
SameFamily(t, u) == tokens[t].family = tokens[u].family

(* A row that a flushed rotation has changed and not committed.  (Between  *)
(* the end of any other UPDATE and its commit, its locks only delay what   *)
(* may as well come after the commit.)                                     *)
Locked(t) == \E q \in Tabs : tab[q].at = "flushed" /\ tab[q].token = t

(* A tab got a 401: it posts to /auth/refresh with the cookie as it is.    *)
(* Tabs differ in nothing, so any that is not in use will do.              *)
Send(r, what) ==
    /\ tab[r].at = "idle"
    /\ r = CHOOSE q \in Tabs : tab[q].at = "idle"
    /\ cookie # NoToken
    /\ Goes(r, what, cookie)
    /\ UNCHANGED <<tokens, cookie, reused, try, failures>>
RefreshSent(r) == Send(r, "refresh")
LogoutSent(r) == Send(r, "logout")

(* rotate_refresh_token() reads the row. *)
RefreshReads(r) ==
    /\ tab[r].at = "refresh"
    /\ Goes(r, IF tokens[tab[r].token].live THEN "rotating" ELSE "reuse",
            tab[r].token)
    /\ UNCHANGED <<tokens, cookie, reused, try, failures>>

(* A revoked row: the UPDATE of its family begins, and finds the live rows *)
(* that are committed by now, not the successor of a rotation under way.   *)
Found(t) == {u \in DOMAIN tokens : SameFamily(t, u) /\ tokens[u].live}
ReuseUpdates(r) ==
    /\ tab[r].at = "reuse"
    /\ Becomes(r, "revoking", tab[r].token, Found(tab[r].token))
    /\ UNCHANGED <<tokens, cookie, reused, try, failures>>

(* It has waited for the rows that were locked, and is committed.  The     *)
(* cookie stays: the endpoint clears it on the response it was given, and  *)
(* then raises, so that another response is sent.                          *)
ReuseCommits(r) ==
    /\ tab[r].at = "revoking"
    /\ \A u \in tab[r].rows : ~Locked(u)
    /\ tokens' = Revoked(tab[r].rows)
    /\ reused' = reused \cup {tokens[tab[r].token].family}
    /\ Goes(r, "idle", NoToken)
    /\ UNCHANGED <<cookie, try, failures>>

(* An expired row, or an inactive user: refused. *)
RefreshRefused(r) ==
    /\ tab[r].at = "rotating"
    /\ Goes(r, "idle", NoToken)
    /\ UNCHANGED <<tokens, cookie, reused, try, failures>>

(* The flush of commit(): the row is updated by its primary key, whatever  *)
(* has become of it since it was read, and the successor inserted.         *)
RefreshFlushes(r) ==
    /\ tab[r].at = "rotating"
    /\ ~Locked(tab[r].token)
    /\ Goes(r, "flushed", tab[r].token)
    /\ UNCHANGED <<tokens, cookie, reused, try, failures>>

(* A rotation was overtaken: its row was revoked after it had read it, or  *)
(* a reuse is being dealt with that has not found its successor.           *)
Overtaken(t) ==
    \/ ~tokens[t].live
    \/ \E q \in Tabs : tab[q].at = "revoking" /\ SameFamily(tab[q].token, t)
Successor(t) == [family |-> tokens[t].family, live |-> TRUE,
                 raced |-> tokens[t].raced \/ Overtaken(t)]
CommitsUnrevoked(r) ==
    LET t == tab[r].token IN
      /\ tab[r].at = "flushed"
      /\ Len(tokens) < MaxTokens
      /\ tokens' = Append(tokens, Successor(t))
      /\ Goes(r, "answered", Len(tokens) + 1)
      /\ UNCHANGED <<cookie, reused, try, failures>>
RefreshCommits(r) ==
    LET t == tab[r].token IN
      /\ tab[r].at = "flushed"
      /\ Len(tokens) < MaxTokens
      /\ tokens' = Append(Revoked({t}), Successor(t))
      /\ Goes(r, "answered", Len(tokens) + 1)
      /\ UNCHANGED <<cookie, reused, try, failures>>

(* revoke_refresh_token() *)
LogoutRevokes(r) ==
    /\ tab[r].at = "logout"
    /\ ~Locked(tab[r].token)
    /\ tokens' = Revoked({tab[r].token})
    /\ Goes(r, "answered", NoToken)
    /\ UNCHANGED <<cookie, reused, try, failures>>

(* The response sets the cookie, or clears it, unless it is lost;          *)
(* responses of concurrent requests arrive in any order.                   *)
Answer(r) ==
    /\ tab[r].at = "answered"
    /\ cookie' \in {tab[r].token, cookie}
    /\ Goes(r, "idle", NoToken)
    /\ UNCHANGED <<tokens, reused, try, failures>>

SignIn == \E a \in Tries : LoginCheck(a) \/ LoginSucceeds(a) \/ LoginIssues(a)
Throttled == Tick \/ \E a \in Tries : LoginFails(a)
Rotation ==
    \E r \in Tabs : RefreshSent(r) \/ LogoutSent(r) \/ RefreshReads(r)
                   \/ ReuseUpdates(r) \/ ReuseCommits(r) \/ RefreshRefused(r)
                   \/ RefreshFlushes(r) \/ RefreshCommits(r)
                   \/ LogoutRevokes(r) \/ Answer(r)
SessionNext == SignIn \/ Throttled \/ Rotation

-----------------------------------------------------------------------------
(* What rotate_refresh_token() gives to requests that follow one another:  *)
(* a family has at most one live token, and none once a reuse was detected *)
(* in it and committed.  Left out is what a race leaves behind: the        *)
(* successors of a rotation that was overtaken between its read and its    *)
(* commit, by another refresh or logout with the same token or by a reuse, *)
(* and their successors in turn.                                           *)
OneLiveToken ==
    \A t \in DOMAIN tokens : tokens[t].live /\ ~tokens[t].raced =>
      /\ tokens[t].family \notin reused
      /\ \A u \in DOMAIN tokens \ {t} :
           SameFamily(t, u) => ~tokens[u].live \/ tokens[u].raced

(* "presenting an old token once more revokes the whole family"            *)
(* (README.md:126), "every token of that family is revoked"                *)
(* (auth/service.py:142): with a race or without.                          *)
ReuseEndsFamily ==
    \A t \in DOMAIN tokens : tokens[t].live => tokens[t].family \notin reused

(* The throttle is read before the awaited password check and counted      *)
(* after it, so attempts in flight slip through: the failures within the   *)
(* window and the attempts whose outcome is still open exceed the limit by *)
(* no more than the attempts that can be in flight, less one.              *)
FailuresBounded ==
    Len(Recent) + Cardinality({a \in Tries : try[a] = "checking"})
      <= MaxFailures - 1 + Cardinality(Tries)
=============================================================================
