-------------------------- MODULE ApiServer_proofs --------------------------
(***************************************************************************)
(* Proofs about the API process, for any number of tabs, login attempts,   *)
(* tokens, requests, commands and frames: the tokens of a family stay in   *)
(* hand, the login throttle bounds the failures, an answer is that of the  *)
(* own command, and a report runs beside a collection only where the API   *)
(* could not know.                                                         *)
(***************************************************************************)
EXTENDS ApiServer, TLAPS, SequenceTheorems, FiniteSetTheorems, WellFoundedInduction

Token == [family : Nat, live : BOOLEAN, raced : BOOLEAN]
Places == {"idle", "refresh", "rotating", "flushed", "reuse", "revoking", "logout",
           "answered"}
AtWork == Places \ {"idle", "answered"}
Request == [at : Places, token : Nat, rows : SUBSET Nat]

TokensOK ==
    /\ tokens \in Seq(Token)
    /\ \A t \in DOMAIN tokens : tokens[t].family \in 1..Len(tokens)
    /\ reused \subseteq 1..Len(tokens)

RequestsOK ==
    /\ cookie \in 0..Len(tokens)
    /\ tab \in [Tabs -> Request]
    /\ \A r \in Tabs : /\ tab[r].token \in 0..Len(tokens)
                       /\ tab[r].at \in AtWork => tab[r].token \in DOMAIN tokens

Sound(x) == x.live /\ ~x.raced

(* A family has one sound token, and none once it was ended. *)
FamiliesOK ==
    /\ \A t, u \in DOMAIN tokens :
         Sound(tokens[t]) /\ Sound(tokens[u]) /\ tokens[t].family = tokens[u].family => t = u
    /\ \A t \in DOMAIN tokens : tokens[t].family \in reused => ~Sound(tokens[t])

(* An UPDATE under way has found every sound token of its family.          *)
RevokingOK ==
    \A q \in Tabs : tab[q].at = "revoking" =>
      \A u \in DOMAIN tokens :
        Sound(tokens[u]) /\ SameFamily(tab[q].token, u) => u \in tab[q].rows

SessionInv == TokensOK /\ RequestsOK /\ FamiliesOK /\ RevokingOK

-----------------------------------------------------------------------------
(* Revoking changes nothing but the life of the tokens revoked. *)
LEMMA RevokedTokens ==
    ASSUME tokens \in Seq(Token), NEW S
    PROVE  /\ Revoked(S) \in Seq(Token)
           /\ Len(Revoked(S)) = Len(tokens)
           /\ DOMAIN Revoked(S) = DOMAIN tokens
           /\ \A t \in DOMAIN tokens :
                /\ Revoked(S)[t].family = tokens[t].family
                /\ Revoked(S)[t].raced = tokens[t].raced
                /\ Revoked(S)[t].live => tokens[t].live /\ t \notin S
<1> DEFINE n == Len(tokens)
<1>1. n \in Nat /\ DOMAIN tokens = 1..n /\ \A t \in 1..n : tokens[t] \in Token
  OBVIOUS
<1>2. \A t \in 1..n : /\ Revoked(S)[t] \in Token
                      /\ Revoked(S)[t].family = tokens[t].family
                      /\ Revoked(S)[t].raced = tokens[t].raced
                      /\ Revoked(S)[t].live => tokens[t].live /\ t \notin S
  BY <1>1 DEF Revoked, Token
<1>3. Revoked(S) \in [1..n -> Token]
  BY <1>1, <1>2 DEF Revoked
<1>4. Revoked(S) \in Seq(Token)
  BY <1>1, <1>3, SeqDef
<1>5. Len(Revoked(S)) = n
  BY <1>1, <1>3, <1>4, LenProperties
<1> QED
  BY <1>1, <1>2, <1>3, <1>4, <1>5

(* No token changes its family or becomes sound. *)
Kept == \A t \in DOMAIN tokens : /\ t \in DOMAIN tokens'
                                 /\ tokens'[t].family = tokens[t].family
                                 /\ Sound(tokens'[t]) => Sound(tokens[t])

(* Revoking keeps the invariant of the tokens. *)
LEMMA RevokingKeeps ==
    ASSUME SessionInv, NEW S, tokens' = Revoked(S),
           reused' \in SUBSET (1..Len(tokens)),
           \A t \in DOMAIN tokens :
             tokens[t].family \in reused' /\ Sound(tokens[t]) =>
               t \in S \/ tokens[t].family \in reused
    PROVE  TokensOK' /\ FamiliesOK' /\ Kept /\ Len(tokens') = Len(tokens)
           /\ DOMAIN tokens' = DOMAIN tokens
<1> USE DEF SessionInv
<1>1. /\ tokens' \in Seq(Token)
      /\ Len(tokens') = Len(tokens)
      /\ DOMAIN tokens' = DOMAIN tokens
      /\ \A t \in DOMAIN tokens :
           /\ tokens'[t].family = tokens[t].family
           /\ tokens'[t].raced = tokens[t].raced
           /\ tokens'[t].live => tokens[t].live /\ t \notin S
  BY RevokedTokens DEF TokensOK
<1>2. TokensOK'
  BY <1>1 DEF TokensOK
<1>3. \A t \in DOMAIN tokens : Sound(tokens'[t]) => Sound(tokens[t]) /\ t \notin S
  BY <1>1 DEF Sound
<1>4. FamiliesOK'
  BY <1>1, <1>3 DEF FamiliesOK
<1> QED
  BY <1>1, <1>2, <1>3, <1>4 DEF Kept

(* So does adding a token that is raced, or the only sound one of a family *)
(* that was not ended.                                                     *)
LEMMA AddingKeeps ==
    ASSUME SessionInv, NEW S, NEW x \in Token,
           tokens' = Append(Revoked(S), x), reused' = reused,
           x.family \in 1..(Len(tokens) + 1),
           x.raced \/ /\ x.family \notin reused
                      /\ \A t \in DOMAIN tokens :
                           tokens[t].family = x.family /\ Sound(tokens[t]) => t \in S
    PROVE  /\ TokensOK' /\ FamiliesOK' /\ Kept
           /\ Len(tokens') = Len(tokens) + 1
           /\ DOMAIN tokens' = DOMAIN tokens \cup {Len(tokens) + 1}
           /\ tokens'[Len(tokens) + 1] = x
<1> DEFINE R == Revoked(S)
           n == Len(tokens)
<1>0. /\ n \in Nat /\ DOMAIN tokens = 1..n
      /\ R \in Seq(Token) /\ Len(R) = n
      /\ \A t \in 1..n :
           /\ R[t].family = tokens[t].family
           /\ R[t].raced = tokens[t].raced
           /\ R[t].live => tokens[t].live /\ t \notin S
  BY RevokedTokens DEF SessionInv, TokensOK
<1> HIDE DEF R
<1>1. /\ tokens' \in Seq(Token) /\ Len(tokens') = n + 1
      /\ DOMAIN tokens' = 1..(n + 1)
      /\ tokens'[n + 1] = x
      /\ \A t \in 1..n : tokens'[t] = R[t]
  BY <1>0 DEF R
<1>2. TokensOK'
  <2>1. \A t \in 1..n : tokens'[t].family \in 1..n
    BY <1>0, <1>1 DEF SessionInv, TokensOK
  <2>2. reused' \subseteq 1..(n + 1)
    BY <1>0 DEF SessionInv, TokensOK
  <2> QED
    BY <1>0, <1>1, <2>1, <2>2 DEF TokensOK
<1>3. \A t \in 1..n : /\ tokens'[t].family = tokens[t].family
                      /\ Sound(tokens'[t]) => Sound(tokens[t]) /\ t \notin S
  BY <1>0, <1>1 DEF Sound
<1>4. Sound(tokens'[n + 1]) => ~x.raced
  BY <1>1 DEF Sound
<1>5. FamiliesOK'
  <2>1. \A t \in 1..n : Sound(tokens'[t]) /\ Sound(tokens'[n + 1]) => tokens'[t].family # tokens'[n + 1].family
    BY <1>0, <1>1, <1>3, <1>4
  <2>2. ASSUME NEW t \in 1..(n + 1), NEW u \in 1..(n + 1), Sound(tokens'[t]), Sound(tokens'[u]),
               tokens'[t].family = tokens'[u].family
        PROVE  t = u
    <3>1. CASE t \in 1..n /\ u \in 1..n
      BY <1>0, <1>3, <2>2, <3>1 DEF SessionInv, FamiliesOK
    <3>2. CASE t \in 1..n /\ u = n + 1
      BY <2>1, <2>2, <3>2
    <3>3. CASE t = n + 1 /\ u \in 1..n
      BY <2>1, <2>2, <3>3
    <3>4. CASE t = n + 1 /\ u = n + 1
      BY <3>4
    <3> QED BY <1>0, <3>1, <3>2, <3>3, <3>4
  <2>3. ASSUME NEW t \in 1..(n + 1), tokens'[t].family \in reused'
        PROVE  ~Sound(tokens'[t])
    <3>1. CASE t \in 1..n
      BY <1>0, <1>3, <2>3, <3>1 DEF SessionInv, FamiliesOK
    <3>2. CASE t = n + 1
      BY <1>0, <1>1, <1>4, <2>3, <3>2
    <3>3. t \in 1..n \/ t = n + 1
      BY <1>0
    <3> QED BY <3>1, <3>2, <3>3
  <2> QED BY <1>1, <2>2, <2>3 DEF FamiliesOK
<1>6. 1..(n + 1) = (1..n) \cup {n + 1}
  BY <1>0
<1>7. Kept
  BY <1>0, <1>1, <1>3, <1>6 DEF Kept
<1> QED
  BY <1>0, <1>1, <1>2, <1>5, <1>6, <1>7

LEMMA SessionInitInv == SessionInit => SessionInv
<1> SUFFICES ASSUME SessionInit PROVE SessionInv
  OBVIOUS
<1>1. tokens = <<>> /\ tokens \in Seq(Token) /\ Len(tokens) = 0 /\ DOMAIN tokens = {}
  BY DEF SessionInit
<1> QED
  BY <1>1 DEF SessionInit, SessionInv, TokensOK, RequestsOK, FamiliesOK, RevokingOK,
     Request, Places, AtWork, NoToken

(* A tab goes on, and the table of tokens does not shrink. *)
LEMMA TabKeeps ==
    ASSUME SessionInv, TokensOK', Len(tokens') >= Len(tokens),
           NEW r \in Tabs, NEW at \in Places, NEW token \in 0..Len(tokens'),
           NEW rows \in SUBSET Nat,
           Becomes(r, at, token, rows), cookie' \in 0..Len(tokens'),
           at \in AtWork => token # 0
    PROVE  RequestsOK'
<1>1. /\ Len(tokens) \in Nat /\ Len(tokens') \in Nat
      /\ DOMAIN tokens = 1..Len(tokens) /\ DOMAIN tokens' = 1..Len(tokens')
  BY DEF SessionInv, TokensOK
<1>2. tab' \in [Tabs -> Request]
  BY <1>1 DEF SessionInv, RequestsOK, Becomes, Request
<1>3. ASSUME NEW q \in Tabs
      PROVE  /\ tab'[q].token \in 0..Len(tokens')
             /\ tab'[q].at \in AtWork => tab'[q].token \in DOMAIN tokens'
  <2>1. CASE q = r
    BY <1>1, <2>1 DEF SessionInv, RequestsOK, Becomes
  <2>2. CASE q # r
    BY <1>1, <2>2 DEF SessionInv, RequestsOK, Becomes
  <2> QED BY <2>1, <2>2
<1> QED
  BY <1>2, <1>3 DEF RequestsOK

(* What the UPDATEs under way have found stays complete when the tokens    *)
(* added are not sound, or of other families.                              *)
LEMMA RevokingStays ==
    ASSUME SessionInv, Kept, NEW r \in Tabs, NEW at, NEW token, NEW rows,
           Becomes(r, at, token, rows),
           at = "revoking" =>
             \A u \in DOMAIN tokens' :
               Sound(tokens'[u]) /\ tokens'[token].family = tokens'[u].family => u \in rows,
           \A u \in DOMAIN tokens' \ DOMAIN tokens : Sound(tokens'[u]) =>
             \A q \in Tabs : tab[q].at = "revoking" =>
               tokens[tab[q].token].family # tokens'[u].family
    PROVE  RevokingOK'
<1> SUFFICES ASSUME NEW q \in Tabs, tab'[q].at = "revoking", NEW u \in DOMAIN tokens',
                    Sound(tokens'[u]),
                    tokens'[tab'[q].token].family = tokens'[u].family
             PROVE  u \in tab'[q].rows
  BY DEF RevokingOK, SameFamily
<1>1. CASE q = r
  <2>1. tab'[q].at = at /\ tab'[q].token = token /\ tab'[q].rows = rows
    BY <1>1 DEF Becomes, SessionInv, RequestsOK
  <2> QED BY <2>1 DEF SameFamily
<1>2. CASE q # r
  <2>1. tab'[q] = tab[q]
    BY <1>2 DEF Becomes, SessionInv, RequestsOK
  <2>2. tab[q].token \in DOMAIN tokens
    BY <2>1 DEF SessionInv, RequestsOK, AtWork, Places
  <2>3. u \in DOMAIN tokens /\ Sound(tokens[u]) /\ SameFamily(tab[q].token, u)
    BY <2>1, <2>2 DEF Kept, SameFamily
  <2> QED BY <2>1, <2>3 DEF SessionInv, RevokingOK
<1> QED BY <1>1, <1>2

(* A step of a tab that leaves the tokens alone. *)
LEMMA TabOnly ==
    ASSUME SessionInv, UNCHANGED <<tokens, reused>>,
           NEW r \in Tabs, NEW at \in Places \ {"revoking"}, NEW token \in 0..Len(tokens),
           Goes(r, at, token), cookie' \in 0..Len(tokens),
           at \in AtWork => token # 0
    PROVE  SessionInv'
<1>1. TokensOK' /\ FamiliesOK' /\ Kept
  BY DEF SessionInv, TokensOK, FamiliesOK, Kept
<1>2. RequestsOK'
  BY <1>1, TabKeeps DEF Goes, SessionInv, TokensOK
<1>3. RevokingOK'
  BY <1>1, RevokingStays DEF Goes
<1> QED BY <1>1, <1>2, <1>3 DEF SessionInv

LEMMA SessionStep == SessionInv /\ [SessionNext]_sessionVars => SessionInv'
<1> SUFFICES ASSUME SessionInv, [SessionNext]_sessionVars PROVE SessionInv'
  OBVIOUS
<1>t. /\ tokens \in Seq(Token) /\ Len(tokens) \in Nat
      /\ DOMAIN tokens = 1..Len(tokens)
      /\ \A t \in DOMAIN tokens : tokens[t] \in Token
      /\ \A r \in Tabs : tab[r].token \in 0..Len(tokens)
      /\ cookie \in 0..Len(tokens)
  BY DEF SessionInv, TokensOK, RequestsOK
<1>same. ASSUME UNCHANGED <<tokens, cookie, tab, reused>> PROVE SessionInv'
  BY <1>same DEF SessionInv, TokensOK, RequestsOK, FamiliesOK, RevokingOK, Sound, SameFamily
<1>at. \A r \in Tabs : tab[r].at \in AtWork => tab[r].token \in DOMAIN tokens /\ tab[r].token # 0
  BY <1>t DEF SessionInv, RequestsOK
<1>idle. /\ {"idle", "answered", "refresh", "logout", "rotating", "reuse", "flushed"}
              \subseteq Places \ {"revoking"}
         /\ "idle" \notin AtWork /\ "answered" \notin AtWork
         /\ 0 \in 0..Len(tokens)
         /\ {"refresh", "logout", "rotating", "reuse", "flushed", "revoking"} \subseteq AtWork
  BY <1>t DEF Places, AtWork
<1>1. ASSUME NEW a \in Tries, LoginCheck(a) \/ LoginFails(a) \/ LoginSucceeds(a)
      PROVE  SessionInv'
  BY <1>same, <1>1 DEF LoginCheck, LoginFails, LoginSucceeds
<1>2. ASSUME Tick PROVE SessionInv'
  BY <1>same, <1>2 DEF Tick
<1>3. ASSUME NEW a \in Tries, LoginIssues(a) PROVE SessionInv'
  <2> DEFINE n == Len(tokens)
             x == [family |-> n + 1, live |-> TRUE, raced |-> FALSE]
  <2>0. x \in Token
    BY <1>t DEF Token
  <2>1. /\ tokens' = Append(tokens, x) /\ reused' = reused /\ tab' = tab
        /\ cookie' = Len(tokens')
    BY <1>3 DEF LoginIssues
  <2>2. /\ tokens' \in Seq(Token) /\ Len(tokens') = n + 1
        /\ DOMAIN tokens' = 1..(n + 1) /\ tokens'[n + 1] = x
        /\ \A t \in 1..n : tokens'[t] = tokens[t]
    BY <1>t, <2>0, <2>1
  <2>3. x.family = n + 1
    OBVIOUS
  <2>4. \A t \in 1..n : tokens[t].family \in 1..n
    BY <1>t DEF SessionInv, TokensOK
  <2>5. TokensOK'
    BY <1>t, <2>1, <2>2, <2>3, <2>4 DEF SessionInv, TokensOK
  <2>6. FamiliesOK'
    <3>1. ASSUME NEW t \in 1..(n + 1), NEW u \in 1..(n + 1), Sound(tokens'[t]), Sound(tokens'[u]),
                 tokens'[t].family = tokens'[u].family
          PROVE  t = u
      <4>1. CASE t \in 1..n /\ u \in 1..n
        BY <1>t, <2>2, <3>1, <4>1 DEF SessionInv, FamiliesOK
      <4>2. CASE ~(t \in 1..n /\ u \in 1..n)
        BY <1>t, <2>2, <2>3, <2>4, <3>1, <4>2
      <4> QED BY <4>1, <4>2
    <3>2. ASSUME NEW t \in 1..(n + 1), tokens'[t].family \in reused' PROVE ~Sound(tokens'[t])
      <4>1. CASE t \in 1..n
        BY <1>t, <2>1, <2>2, <3>2, <4>1 DEF SessionInv, FamiliesOK
      <4>2. CASE t = n + 1
        BY <1>t, <2>1, <2>2, <2>3, <3>2, <4>2 DEF SessionInv, TokensOK
      <4> QED BY <1>t, <4>1, <4>2
    <3> QED BY <2>2, <3>1, <3>2 DEF FamiliesOK
  <2>7. RequestsOK'
    BY <1>t, <2>1, <2>2 DEF SessionInv, RequestsOK
  <2>8. RevokingOK'
    <3> SUFFICES ASSUME NEW q \in Tabs, tab[q].at = "revoking", NEW u \in 1..(n + 1),
                        Sound(tokens'[u]),
                        tokens'[tab[q].token].family = tokens'[u].family
                 PROVE  u \in tab[q].rows
      BY <2>1, <2>2 DEF RevokingOK, SameFamily
    <3>1. tab[q].token \in 1..n
      BY <1>t, <1>at, <1>idle
    <3>2. u \in 1..n
      BY <1>t, <2>2, <2>3, <2>4, <3>1
    <3> QED BY <1>t, <2>2, <3>1, <3>2 DEF SessionInv, RevokingOK, SameFamily
  <2> QED BY <2>5, <2>6, <2>7, <2>8 DEF SessionInv
<1>4. ASSUME NEW r \in Tabs, RefreshSent(r) \/ LogoutSent(r) PROVE SessionInv'
  <2>1. /\ Goes(r, "refresh", cookie) \/ Goes(r, "logout", cookie)
        /\ cookie # 0 /\ UNCHANGED <<tokens, cookie, reused>>
    BY <1>4 DEF RefreshSent, LogoutSent, Send, NoToken
  <2> QED BY <1>t, <1>idle, <2>1, TabOnly
<1>5. ASSUME NEW r \in Tabs, RefreshReads(r) PROVE SessionInv'
  <2>1. /\ Goes(r, "rotating", tab[r].token) \/ Goes(r, "reuse", tab[r].token)
        /\ UNCHANGED <<tokens, cookie, reused>> /\ tab[r].at = "refresh"
    BY <1>5 DEF RefreshReads
  <2>2. tab[r].token # 0 /\ tab[r].token \in 0..Len(tokens)
    BY <1>t, <1>at, <1>idle, <2>1
  <2> QED BY <1>t, <1>idle, <2>1, <2>2, TabOnly
<1>6. ASSUME NEW r \in Tabs, ReuseUpdates(r) PROVE SessionInv'
  <2> DEFINE t == tab[r].token
  <2>1. /\ Becomes(r, "revoking", t, Found(t)) /\ UNCHANGED <<tokens, cookie, reused>>
        /\ tab[r].at = "reuse"
    BY <1>6 DEF ReuseUpdates
  <2>2. t \in DOMAIN tokens /\ t \in 0..Len(tokens) /\ t # 0
    BY <1>t, <1>at, <1>idle, <2>1
  <2>3. Found(t) \in SUBSET Nat
    BY <1>t DEF Found
  <2>4. TokensOK' /\ FamiliesOK' /\ Kept
    BY <2>1 DEF SessionInv, TokensOK, FamiliesOK, Kept
  <2>5. RequestsOK'
    <3>1. "revoking" \in Places
      BY DEF Places
    <3> HIDE DEF t
    <3> QED BY <1>t, <2>1, <2>2, <2>3, <2>4, <3>1, TabKeeps
  <2>6. \A u \in DOMAIN tokens' :
          Sound(tokens'[u]) /\ tokens'[t].family = tokens'[u].family => u \in Found(t)
    BY <2>1 DEF Found, Sound, SameFamily
  <2>7. RevokingOK'
    <3> HIDE DEF t
    <3> QED BY <2>1, <2>4, <2>6, RevokingStays
  <2> QED BY <2>4, <2>5, <2>7 DEF SessionInv
<1>7. ASSUME NEW r \in Tabs, ReuseCommits(r) PROVE SessionInv'
  <2> DEFINE t == tab[r].token
  <2>1. /\ tokens' = Revoked(tab[r].rows) /\ reused' = reused \cup {tokens[t].family}
        /\ Goes(r, "idle", 0) /\ cookie' = cookie /\ tab[r].at = "revoking"
    BY <1>7 DEF ReuseCommits, NoToken
  <2>2. t \in DOMAIN tokens
    BY <1>at, <1>idle, <2>1
  <2>3. reused' \in SUBSET (1..Len(tokens))
    BY <2>1, <2>2 DEF SessionInv, TokensOK
  <2>4. \A u \in DOMAIN tokens : tokens[u].family \in reused' /\ Sound(tokens[u]) =>
          u \in tab[r].rows \/ tokens[u].family \in reused
    BY <2>1 DEF SessionInv, RevokingOK, SameFamily
  <2>5. TokensOK' /\ FamiliesOK' /\ Kept /\ Len(tokens') = Len(tokens)
        /\ DOMAIN tokens' = DOMAIN tokens
    BY <2>1, <2>3, <2>4, RevokingKeeps
  <2>6. RequestsOK'
    BY <1>t, <1>idle, <2>1, <2>5, TabKeeps DEF Goes
  <2>7. RevokingOK'
    BY <2>1, <2>5, RevokingStays DEF Goes
  <2> QED BY <2>5, <2>6, <2>7 DEF SessionInv
<1>8. ASSUME NEW r \in Tabs, RefreshRefused(r) PROVE SessionInv'
  <2>1. Goes(r, "idle", 0) /\ UNCHANGED <<tokens, cookie, reused>>
    BY <1>8 DEF RefreshRefused, NoToken
  <2> QED BY <1>t, <1>idle, <2>1, TabOnly
<1>9. ASSUME NEW r \in Tabs, RefreshFlushes(r) PROVE SessionInv'
  <2>1. /\ Goes(r, "flushed", tab[r].token) /\ UNCHANGED <<tokens, cookie, reused>>
        /\ tab[r].at = "rotating"
    BY <1>9 DEF RefreshFlushes
  <2>2. tab[r].token # 0 /\ tab[r].token \in 0..Len(tokens)
    BY <1>t, <1>at, <1>idle, <2>1
  <2> QED BY <1>t, <1>idle, <2>1, <2>2, TabOnly
<1>10. ASSUME NEW r \in Tabs, RefreshCommits(r) PROVE SessionInv'
  <2> DEFINE t == tab[r].token
             x == Successor(t)
  <2>1. /\ tokens' = Append(Revoked({t}), x) /\ reused' = reused
        /\ Goes(r, "answered", Len(tokens) + 1) /\ cookie' = cookie
        /\ tab[r].at = "flushed"
    BY <1>10 DEF RefreshCommits
  <2>2. t \in DOMAIN tokens
    BY <1>at, <1>idle, <2>1
  <2>3. Overtaken(t) \in BOOLEAN
    BY <1>t, <2>2 DEF Overtaken, Token
  <2>4. x \in Token /\ x.family = tokens[t].family /\ (~x.raced => ~Overtaken(t))
    BY <1>t, <2>2, <2>3 DEF Successor, Token
  <2>5. x.family \in 1..(Len(tokens) + 1)
    BY <1>t, <2>2, <2>4 DEF SessionInv, TokensOK
  <2>6. x.raced \/ Sound(tokens[t])
    BY <1>t, <2>2 DEF Successor, Overtaken, Sound, Token
  <2>7. Sound(tokens[t]) => /\ x.family \notin reused
                    /\ \A u \in DOMAIN tokens :
                         tokens[u].family = x.family /\ Sound(tokens[u]) => u \in {t}
    BY <2>2, <2>4 DEF SessionInv, FamiliesOK
  <2>8. /\ TokensOK' /\ FamiliesOK' /\ Kept
        /\ Len(tokens') = Len(tokens) + 1
        /\ DOMAIN tokens' = DOMAIN tokens \cup {Len(tokens) + 1}
        /\ tokens'[Len(tokens) + 1] = x
    <3> HIDE DEF x, t
    <3> QED BY <2>1, <2>4, <2>5, <2>6, <2>7, AddingKeeps
  <2>9. RequestsOK'
    <3>1. Len(tokens) + 1 \in 0..Len(tokens') /\ Len(tokens') >= Len(tokens)
          /\ cookie' \in 0..Len(tokens')
      BY <1>t, <2>1, <2>8
    <3>2. Becomes(r, "answered", Len(tokens) + 1, {}) /\ {} \in SUBSET Nat
      BY <2>1 DEF Goes
    <3>3. "answered" \in Places /\ "answered" \notin AtWork
      BY <1>idle
    <3> HIDE DEF x, t
    <3> QED BY <2>8, <3>1, <3>2, <3>3, TabKeeps
  <2>10. \A u \in DOMAIN tokens' \ DOMAIN tokens : Sound(tokens'[u]) =>
           \A q \in Tabs : tab[q].at = "revoking" =>
             tokens[tab[q].token].family # tokens'[u].family
    <3>1. Sound(x) => \A q \in Tabs : tab[q].at = "revoking" =>
             tokens[tab[q].token].family # x.family
      <4> HIDE DEF x
      <4> QED BY <2>4 DEF Sound, Overtaken, SameFamily
    <3> HIDE DEF x
    <3> QED BY <2>8, <3>1
  <2>11. RevokingOK'
    <3> HIDE DEF x, t
    <3> QED BY <2>1, <2>8, <2>10, RevokingStays DEF Goes
  <2> QED BY <2>8, <2>9, <2>11 DEF SessionInv
<1>11. ASSUME NEW r \in Tabs, LogoutRevokes(r) PROVE SessionInv'
  <2>1. /\ tokens' = Revoked({tab[r].token}) /\ reused' = reused
        /\ Goes(r, "answered", 0) /\ cookie' = cookie
    BY <1>11 DEF LogoutRevokes, NoToken
  <2>2. TokensOK' /\ FamiliesOK' /\ Kept /\ Len(tokens') = Len(tokens)
        /\ DOMAIN tokens' = DOMAIN tokens
    <3>1. reused' \in SUBSET (1..Len(tokens))
      BY <2>1 DEF SessionInv, TokensOK
    <3> QED BY <2>1, <3>1, RevokingKeeps
  <2>3. RequestsOK'
    <3>1. Becomes(r, "answered", 0, {}) /\ {} \in SUBSET Nat
      BY <2>1 DEF Goes
    <3>2. /\ "answered" \in Places /\ "answered" \notin AtWork
          /\ 0 \in 0..Len(tokens') /\ Len(tokens') >= Len(tokens)
          /\ cookie' \in 0..Len(tokens')
      BY <1>t, <1>idle, <2>1, <2>2
    <3> QED BY <2>2, <3>1, <3>2, TabKeeps
  <2>4. RevokingOK'
    BY <2>1, <2>2, RevokingStays DEF Goes
  <2> QED BY <2>2, <2>3, <2>4 DEF SessionInv
<1>12. ASSUME NEW r \in Tabs, Answer(r) PROVE SessionInv'
  <2>1. /\ Goes(r, "idle", 0) /\ UNCHANGED <<tokens, reused>>
        /\ cookie' \in {tab[r].token, cookie}
    BY <1>12 DEF Answer, NoToken
  <2> QED BY <1>t, <1>idle, <2>1, TabOnly
<1>13. CASE UNCHANGED sessionVars
  BY <1>same, <1>13 DEF sessionVars
<1> QED
  BY <1>1, <1>2, <1>3, <1>4, <1>5, <1>6, <1>7, <1>8, <1>9, <1>10, <1>11, <1>12, <1>13
     DEF SessionNext, SignIn, Throttled, Rotation

(* One token of a family, or none, is what the invariant leaves. *)
LEMMA InvGivesOneLive == SessionInv => OneLiveToken
BY DEF SessionInv, FamiliesOK, Sound, OneLiveToken, SameFamily

(* A family of refresh tokens has at most one live token, and none after a *)
(* reuse was detected (auth/service.py, rotate_refresh_token), for any     *)
(* number of requests: the successors of a rotation that was overtaken     *)
(* before its commit are the only exception.                               *)
THEOREM OneLiveTokenHolds == ServerSpec => []OneLiveToken
<1>1. ServerInit => SessionInv
  BY SessionInitInv DEF ServerInit
<1>2. SessionInv /\ [ServerNext]_serverVars => SessionInv'
  <2>1. ServerNext => SessionNext \/ UNCHANGED sessionVars
    BY DEF ServerNext, Logins, InTabs, OnLink, SessionNext
  <2>2. UNCHANGED serverVars => UNCHANGED sessionVars
    BY DEF serverVars
  <2> QED BY <2>1, <2>2, SessionStep
<1> QED BY <1>1, <1>2, InvGivesOneLive, PTL DEF ServerSpec

-----------------------------------------------------------------------------
(* The login throttle.  What _prune() leaves is the suffix that starts at  *)
(* the first failure within the window.                                    *)
Fresh(s) == SubSeq(s, 1 + (CHOOSE n \in 0..Len(s) : Popped(s, n)), Len(s))
Checking == {a \in Tries : try[a] = "checking"}

ThrottleInv ==
    /\ failures \in Seq(Nat)
    /\ try \in [Tries -> {"idle", "checking", "issuing"}]
    /\ Len(Fresh(failures)) + Cardinality(Checking) <= MaxFailures - 1 + Cardinality(Tries)

LEMMA PoppedExists ==
    ASSUME NEW s \in Seq(Nat)
    PROVE  \E n \in 0..Len(s) : Popped(s, n)
<1> DEFINE F == {i \in 1..Len(s) : s[i] <= Window}
<1>1. Len(s) \in Nat /\ \A i \in 1..Len(s) : s[i] \in Nat
  OBVIOUS
<1>2. CASE F = {}
  <2>1. Popped(s, Len(s))
    BY <1>1, <1>2, ThrottleAssumption DEF Popped
  <2> QED BY <1>1, <2>1
<1>3. CASE F # {}
  <2>1. F \subseteq Nat
    OBVIOUS
  <2>2. PICK n \in F : \A j \in F : <<j, n>> \notin OpToRel(<, Nat)
    BY <1>3, <2>1, WFMin, NatLessThanWellFounded, Zenon
  <2>3. n \in 1..Len(s) /\ s[n] <= Window /\ \A j \in F : ~(j < n)
    BY <2>1, <2>2 DEF OpToRel
  <2>4. n - 1 \in 0..Len(s) /\ (n - 1) + 1 = n
    BY <1>1, <2>3
  <2>5. \A j \in 1..(n - 1) : s[j] > Window
    BY <1>1, <2>3, ThrottleAssumption
  <2>6. Popped(s, n - 1)
    BY <2>3, <2>4, <2>5 DEF Popped
  <2> QED BY <2>4, <2>6
<1> QED BY <1>2, <1>3

LEMMA FreshIs ==
    ASSUME NEW s \in Seq(Nat), NEW n \in 0..Len(s), Popped(s, n)
    PROVE  /\ Fresh(s) \in Seq(Nat) /\ Len(Fresh(s)) = Len(s) - n
           /\ \A i \in 1..(Len(s) - n) : Fresh(s)[i] = s[n + i]
<1> DEFINE m == CHOOSE k \in 0..Len(s) : Popped(s, k)
<1>1. m \in 0..Len(s) /\ Popped(s, m)
  BY PoppedExists
<1> HIDE DEF m
<1>2. Len(s) \in Nat /\ \A i \in 1..Len(s) : s[i] \in Nat
  OBVIOUS
<1>3. m = n
  <2>1. ~(m < n)
    <3>1. ASSUME m < n PROVE FALSE
      <4>1. m + 1 \in 1..n /\ m + 1 \in 1..Len(s) /\ m < Len(s)
        BY <1>1, <1>2, <3>1
      <4> QED BY <1>1, <1>2, <4>1, ThrottleAssumption DEF Popped
    <3> QED BY <3>1
  <2>2. ~(n < m)
    <3>1. ASSUME n < m PROVE FALSE
      <4>1. n + 1 \in 1..m /\ n + 1 \in 1..Len(s) /\ n < Len(s)
        BY <1>1, <1>2, <3>1
      <4> QED BY <1>1, <1>2, <4>1, ThrottleAssumption DEF Popped
    <3> QED BY <3>1
  <2> QED BY <1>1, <1>2, <2>1, <2>2
<1>4. Fresh(s) = SubSeq(s, n + 1, Len(s))
  <2>1. Fresh(s) = SubSeq(s, 1 + m, Len(s))
    BY Zenon DEF Fresh, m
  <2>2. 1 + m = n + 1
    BY <1>2, <1>3
  <2> QED BY <2>1, <2>2
<1>5. n + 1 \in 1..(Len(s) + 1) /\ Len(s) \in 0..Len(s) /\ n \in Nat
  BY <1>2
<1>6. /\ SubSeq(s, n + 1, Len(s)) \in Seq(Nat)
      /\ Len(SubSeq(s, n + 1, Len(s))) = Len(s) - n
      /\ \A i \in 1..(Len(s) - n) : SubSeq(s, n + 1, Len(s))[i] = s[n + i]
  BY <1>2, <1>5
<1> QED BY <1>4, <1>6

(* Attempts that wait for the password check are some of all attempts. *)
LEMMA CheckingFacts ==
    ASSUME NEW S \in SUBSET Tries
    PROVE  /\ IsFiniteSet(S) /\ Cardinality(S) \in Nat /\ Cardinality(S) <= Cardinality(Tries)
           /\ Cardinality(Tries) \in Nat
           /\ \A a \in S : Cardinality(S \ {a}) = Cardinality(S) - 1
BY ThrottleAssumption, FS_Subset, FS_CardinalityType, FS_RemoveElement

LEMMA NoneFresh ==
    ASSUME NEW s \in Seq(Nat), Len(s) = 0
    PROVE  Len(Fresh(s)) = 0
<1>1. 0 \in 0..Len(s) /\ Popped(s, 0)
  BY DEF Popped
<1>2. Len(Fresh(s)) = Len(s) - 0
  BY <1>1, FreshIs
<1> QED BY <1>2

LEMMA ThrottleInit == SessionInit => ThrottleInv
<1> SUFFICES ASSUME SessionInit PROVE ThrottleInv
  OBVIOUS
<1>1. failures = <<>> /\ failures \in Seq(Nat) /\ Len(failures) = 0
      /\ try = [a \in Tries |-> "idle"]
  BY DEF SessionInit
<1>3. Len(Fresh(failures)) = 0
  BY <1>1, NoneFresh
<1>4. Cardinality(Checking) <= Cardinality(Tries) /\ Cardinality(Checking) \in Nat
      /\ Cardinality(Tries) \in Nat
  BY CheckingFacts DEF Checking
<1> QED BY <1>1, <1>3, <1>4, ThrottleAssumption DEF ThrottleInv

LEMMA ThrottleStep == ThrottleInv /\ [SessionNext]_sessionVars => ThrottleInv'
<1> SUFFICES ASSUME ThrottleInv, [SessionNext]_sessionVars PROVE ThrottleInv'
  OBVIOUS
<1> DEFINE n == Len(Fresh(failures))
<1>1. PICK p \in Nat : p \in 0..Len(failures) /\ Popped(failures, p)
  BY PoppedExists DEF ThrottleInv
<1>2. /\ failures \in Seq(Nat) /\ Len(failures) \in Nat /\ Recent = Fresh(failures)
      /\ Fresh(failures) \in Seq(Nat) /\ n = Len(failures) - p /\ n \in Nat
      /\ \A i \in 1..n : Fresh(failures)[i] = failures[p + i]
  <2>1. failures \in Seq(Nat)
    BY DEF ThrottleInv
  <2>2. /\ Fresh(failures) \in Seq(Nat) /\ n = Len(failures) - p
        /\ \A i \in 1..(Len(failures) - p) : Fresh(failures)[i] = failures[p + i]
    BY <1>1, <2>1, FreshIs
  <2>3. Recent = Fresh(failures)
    BY Zenon DEF Recent, Fresh
  <2> QED BY <1>1, <2>1, <2>2, <2>3
<1> HIDE DEF n
<1>3. /\ Checking \subseteq Tries /\ Checking' \subseteq Tries
      /\ Cardinality(Tries) \in Nat /\ MaxFailures \in Nat /\ MaxFailures >= 1
      /\ \A S \in SUBSET Tries : Cardinality(S) \in Nat /\ Cardinality(S) <= Cardinality(Tries)
      /\ n + Cardinality(Checking) <= MaxFailures - 1 + Cardinality(Tries)
      /\ try \in [Tries -> {"idle", "checking", "issuing"}]
  <2>1. Checking \subseteq Tries /\ Checking' \subseteq Tries
    BY DEF Checking
  <2>2. \A S \in SUBSET Tries : /\ Cardinality(S) \in Nat
                                /\ Cardinality(S) <= Cardinality(Tries)
    BY CheckingFacts
  <2>3. Cardinality(Tries) \in Nat
    BY ThrottleAssumption, FS_CardinalityType
  <2> QED BY <2>1, <2>2, <2>3, ThrottleAssumption DEF ThrottleInv, n
<1>same. ASSUME UNCHANGED <<failures, try>> PROVE ThrottleInv'
  BY <1>same DEF ThrottleInv, Fresh, Popped, Checking
<1>4. ASSUME NEW a \in Tries, LoginCheck(a) PROVE ThrottleInv'
  <2>1. /\ failures' = Fresh(failures)
        /\ try' = IF n >= MaxFailures THEN try ELSE [try EXCEPT ![a] = "checking"]
    BY <1>2, <1>4 DEF LoginCheck, Exhausted, n
  <2>2. Popped(failures', 0)
    <3>1. 1 <= n => Fresh(failures)[1] <= Window
      BY <1>1, <1>2 DEF Popped
    <3>2. Len(failures') = n
      BY <2>1 DEF n
    <3> QED BY <1>2, <2>1, <3>1, <3>2 DEF Popped
  <2>3. Len(Fresh(failures')) = n
    <3>1. failures' \in Seq(Nat) /\ 0 \in 0..Len(failures') /\ Len(failures') = n
      BY <1>2, <2>1 DEF n
    <3>2. Len(Fresh(failures')) = Len(failures') - 0
      BY <2>2, <3>1, FreshIs
    <3> QED BY <1>2, <3>1, <3>2
  <2>4. CASE n >= MaxFailures
    BY <1>2, <1>3, <2>1, <2>3, <2>4 DEF ThrottleInv, Checking
  <2>5. CASE ~(n >= MaxFailures)
    <3>1. n + Cardinality(Checking') <= MaxFailures - 1 + Cardinality(Tries)
      <4>1. Cardinality(Checking') \in Nat /\ Cardinality(Checking') <= Cardinality(Tries)
        BY <1>3
      <4>2. n <= MaxFailures - 1
        BY <1>2, <1>3, <2>5
      <4> QED BY <1>2, <1>3, <4>1, <4>2
    <3> QED BY <1>2, <1>3, <2>1, <2>3, <2>5, <3>1 DEF ThrottleInv
  <2> QED BY <2>4, <2>5
<1>5. ASSUME NEW a \in Tries, LoginFails(a) PROVE ThrottleInv'
  <2>1. failures' = Append(failures, 0) /\ try' = [try EXCEPT ![a] = "idle"] /\ a \in Checking
    BY <1>5 DEF LoginFails, Checking
  <2>2. /\ failures' \in Seq(Nat) /\ Len(failures') = Len(failures) + 1
        /\ failures'[Len(failures) + 1] = 0
        /\ \A i \in 1..Len(failures) : failures'[i] = failures[i]
    BY <1>2, <2>1
  <2>3. Popped(failures', p) /\ p \in 0..Len(failures')
    <3>1. \A i \in 1..p : i \in 1..Len(failures)
      BY <1>1, <1>2
    <3>2. p < Len(failures) => p + 1 \in 1..Len(failures)
      BY <1>1, <1>2
    <3>3. failures'[p + 1] <= Window
      <4>1. p < Len(failures) \/ p = Len(failures)
        BY <1>1, <1>2
      <4> QED BY <1>1, <2>2, <3>2, <4>1, ThrottleAssumption DEF Popped
    <3> QED BY <1>1, <1>2, <2>2, <3>1, <3>3 DEF Popped
  <2>4. Len(Fresh(failures')) = n + 1
    BY <1>1, <1>2, <2>2, <2>3, FreshIs
  <2>5. Checking' = Checking \ {a}
    BY <1>3, <2>1 DEF Checking
  <2>6. Cardinality(Checking') = Cardinality(Checking) - 1
    BY <1>3, <2>1, <2>5, CheckingFacts
  <2>7. Cardinality(Checking) \in Nat
    BY <1>3
  <2>8. (n + 1) + (Cardinality(Checking) - 1) = n + Cardinality(Checking)
    BY <1>2, <2>7
  <2>9. Len(Fresh(failures')) + Cardinality(Checking') <= MaxFailures - 1 + Cardinality(Tries)
    BY <1>3, <2>4, <2>6, <2>8
  <2> QED BY <2>9, <1>3, <2>1, <2>2 DEF ThrottleInv
<1>6. ASSUME NEW a \in Tries, LoginSucceeds(a) PROVE ThrottleInv'
  <2>1. failures' = <<>> /\ try' = [try EXCEPT ![a] = "issuing"]
    BY <1>6 DEF LoginSucceeds
  <2>2. failures' \in Seq(Nat) /\ Len(failures') = 0
    BY <2>1
  <2>3. Len(Fresh(failures')) = 0
    BY <2>2, NoneFresh
  <2>4. Cardinality(Checking') <= MaxFailures - 1 + Cardinality(Tries)
    BY <1>3
  <2> QED BY <1>3, <2>1, <2>2, <2>3, <2>4 DEF ThrottleInv
<1>7. ASSUME NEW a \in Tries, LoginIssues(a) PROVE ThrottleInv'
  <2>1. failures' = failures /\ try' = [try EXCEPT ![a] = "idle"] /\ try[a] = "issuing"
    BY <1>7 DEF LoginIssues
  <2>2. Checking' = Checking
    BY <1>3, <2>1 DEF Checking
  <2> QED BY <1>2, <1>3, <2>1, <2>2 DEF ThrottleInv
<1>8. ASSUME Tick PROVE ThrottleInv'
  <2>1. /\ try' = try
        /\ failures' = [i \in DOMAIN failures |->
                         IF failures[i] <= Window THEN failures[i] + 1 ELSE failures[i]]
    BY <1>8 DEF Tick
  <2>2. /\ failures' \in Seq(Nat) /\ Len(failures') = Len(failures)
        /\ \A i \in 1..Len(failures) : failures[i] \in Nat /\ failures'[i] \in Nat
                                       /\ failures'[i] >= failures[i]
    <3>1. DOMAIN failures = 1..Len(failures) /\ \A i \in 1..Len(failures) : failures[i] \in Nat
      BY <1>2
    <3>2. failures' \in [1..Len(failures) -> Nat]
      BY <2>1, <3>1
    <3>3. failures' \in Seq(Nat)
      BY <1>2, <3>2, SeqDef
    <3>4. Len(failures') = Len(failures)
      BY <1>2, <3>2, <3>3, LenProperties
    <3> QED BY <2>1, <3>1, <3>2, <3>3, <3>4
  <2>3. PICK q \in Nat : q \in 0..Len(failures') /\ Popped(failures', q)
    BY <2>2, PoppedExists
  <2>4. Len(Fresh(failures')) = Len(failures) - q
    BY <2>2, <2>3, FreshIs
  <2>5. q >= p
    <3>1. ASSUME q < p PROVE FALSE
      <4>1. q + 1 \in 1..p /\ q + 1 \in 1..Len(failures) /\ q < Len(failures')
        BY <1>1, <1>2, <2>2, <2>3, <3>1
      <4>2. failures[q + 1] > Window /\ failures'[q + 1] <= Window
        BY <1>1, <2>3, <4>1 DEF Popped
      <4> QED BY <2>2, <4>1, <4>2, ThrottleAssumption
    <3> QED BY <1>1, <1>2, <2>2, <2>3, <3>1
  <2>6. Checking' = Checking
    BY <2>1 DEF Checking
  <2>7. Len(Fresh(failures')) <= n /\ Len(Fresh(failures')) \in Nat
    BY <1>1, <1>2, <2>2, <2>3, <2>4, <2>5
  <2>8. Cardinality(Checking) \in Nat
    BY <1>3
  <2> QED BY <1>2, <1>3, <2>1, <2>2, <2>6, <2>7, <2>8 DEF ThrottleInv
<1>9. ASSUME Rotation PROVE ThrottleInv'
  BY <1>same, <1>9 DEF Rotation, RefreshSent, LogoutSent, Send, RefreshReads, ReuseUpdates,
     ReuseCommits, RefreshRefused, RefreshFlushes, RefreshCommits, LogoutRevokes, Answer
<1>10. CASE UNCHANGED sessionVars
  BY <1>same, <1>10 DEF sessionVars
<1> QED BY <1>4, <1>5, <1>6, <1>7, <1>8, <1>9, <1>10 DEF SessionNext, SignIn, Throttled

(* The failures the throttle counts exceed its limit by no more than the   *)
(* attempts whose password check was awaited, less one                     *)
(* (api/ratelimit.py check, record_failure; api/routers/auth.py login).    *)
THEOREM FailuresBoundedHolds == ServerSpec => []FailuresBounded
<1>1. ServerInit => ThrottleInv
  BY ThrottleInit DEF ServerInit
<1>2. ThrottleInv /\ [ServerNext]_serverVars => ThrottleInv'
  <2>1. ServerNext => SessionNext \/ UNCHANGED sessionVars
    BY DEF ServerNext, Logins, InTabs, OnLink, SessionNext
  <2>2. UNCHANGED serverVars => UNCHANGED sessionVars
    BY DEF serverVars
  <2> QED BY <2>1, <2>2, ThrottleStep
<1>3. ThrottleInv => FailuresBounded
  BY DEF ThrottleInv, FailuresBounded, Fresh, Recent, Checking
<1> QED BY <1>1, <1>2, <1>3, PTL DEF ServerSpec

-----------------------------------------------------------------------------
(* The link between the API and the gateway. *)

News == [kind : {"status"}, value : {"idle", "batch"}]
Frame == News
         \cup [kind : {"ack"}, ref : Refs, out : {"ok", "error"}]
Command == [cmd : {"connect", "disconnect"}, ref : Refs]
CallState == [at : {"idle", "sent", "answered"}, cmd : {"none", "connect", "disconnect"},
              ref : 0..MaxRefs, out : {"none", "ok", "error", "unavailable", "timeout"}]
IdleFrame == StatusFrame("idle")
BatchFrame == StatusFrame("batch")

ApiTypeOK ==
    /\ sock \in {"none", "open", "ended"}
    /\ status \in {"none", "idle", "batch"}
    /\ ref \in 0..MaxRefs
    /\ call \in [Calls -> CallState]
GwTypeOK ==
    /\ batch \in BOOLEAN
    /\ last \in {"none", "idle", "batch"}
    /\ queue \in Seq(News)
    /\ wire \in Seq(Frame)
    /\ intake \in Seq(Command)
    /\ handling \in 0..MaxRefs
    /\ failing \in BOOLEAN
    /\ failing => handling # 0
    /\ done \in [Refs -> {"none", "ok", "error"}]
LinkTypeOK == ApiTypeOK /\ GwTypeOK

(* The elements of a sequence; commands in the order they were numbered;   *)
(* an "idle" status with a "batch" behind it.                              *)
In(s) == {s[i] : i \in DOMAIN s}
Ordered(s) == \A i, j \in DOMAIN s : i < j => s[i].ref < s[j].ref
Followed(s) == \A i \in DOMAIN s : s[i] = IdleFrame =>
                 \E j \in DOMAIN s : i < j /\ s[j] = BatchFrame

(* A command the gateway has not answered yet. *)
Awaited(n) == n \in 1..ref /\ done[n] = "none"

AcksInv ==
    /\ \A x \in In(wire) : x.kind = "ack" => done[x.ref] = x.out
    /\ \A n \in Refs : n > ref => done[n] = "none"
    /\ \A x \in In(intake) : Awaited(x.ref)
    /\ Ordered(intake)
    /\ handling # 0 => Awaited(handling) /\ \A x \in In(intake) : handling < x.ref
    /\ \A c \in Calls : /\ call[c].at = "sent" => call[c].ref \in Refs
                        /\ call[c].at = "answered" /\ call[c].out \in {"ok", "error"}
                             => call[c].ref \in Refs /\ done[call[c].ref] = call[c].out

(* What the API will come to know of a batch that was announced. *)
NewsInv ==
    last = "batch" /\ sock = "open" =>
      /\ Followed(queue)
      /\ Followed(wire) \/ BatchFrame \in In(queue)
      /\ status = "batch" \/ BatchFrame \in In(wire) \cup In(queue)

(* While a report is being started, or runs, on a status that was not out  *)
(* of date, there is no batch, and no connect on its way.                  *)
QuietInv ==
    (lock \in Reports /\ ~looked) \/ (running /\ ~unseen)
      => ~batch /\ \A x \in In(intake) : x.cmd # "connect"

LinkInv == LinkTypeOK /\ AcksInv /\ NewsInv /\ QuietInv

-----------------------------------------------------------------------------
(* Sequences. *)
LEMMA AppendIn ==
    ASSUME NEW S, NEW s \in Seq(S), NEW e \in S
    PROVE  Append(s, e) \in Seq(S) /\ In(Append(s, e)) = In(s) \cup {e}
<1>1. /\ Len(s) \in Nat /\ DOMAIN s = 1..Len(s)
      /\ DOMAIN Append(s, e) = 1..(Len(s) + 1)
      /\ Append(s, e) \in Seq(S) /\ Append(s, e)[Len(s) + 1] = e
      /\ \A i \in 1..Len(s) : Append(s, e)[i] = s[i]
  OBVIOUS
<1> QED BY <1>1 DEF In

LEMMA TailIn ==
    ASSUME NEW S, NEW s \in Seq(S), s # <<>>
    PROVE  /\ Head(s) \in S /\ Tail(s) \in Seq(S)
           /\ In(s) = {Head(s)} \cup In(Tail(s))
<1>1. /\ Len(s) \in Nat /\ Len(s) > 0 /\ DOMAIN s = 1..Len(s)
      /\ Head(s) = s[1] /\ Head(s) \in S
      /\ Tail(s) \in Seq(S) /\ DOMAIN Tail(s) = 1..(Len(s) - 1)
      /\ \A i \in 1..(Len(s) - 1) : Tail(s)[i] = s[i + 1]
  BY HeadTailProperties, LenProperties, EmptySeq
<1>2. \A i \in 1..Len(s) : i = 1 \/ (i - 1 \in 1..(Len(s) - 1) /\ s[i] = Tail(s)[i - 1])
  BY <1>1
<1>3. \A i \in 1..(Len(s) - 1) : i + 1 \in 1..Len(s)
  BY <1>1
<1>4. ASSUME NEW x \in In(s) PROVE x \in {Head(s)} \cup In(Tail(s))
  <2>1. PICK i \in 1..Len(s) : x = s[i]
    BY <1>1 DEF In
  <2>2. CASE i = 1
    BY <1>1, <2>1, <2>2
  <2>3. CASE i # 1
    <3>1. i - 1 \in DOMAIN Tail(s) /\ x = Tail(s)[i - 1]
      BY <1>1, <1>2, <2>1, <2>3
    <3> QED BY <3>1 DEF In
  <2> QED BY <2>2, <2>3
<1>5. {Head(s)} \cup In(Tail(s)) \subseteq In(s)
  BY <1>1, <1>3 DEF In
<1> QED BY <1>1, <1>4, <1>5

LEMMA EmptyIn == \A S : <<>> \in Seq(S) /\ In(<<>>) = {}
BY DEF In

LEMMA OrderedTail ==
    ASSUME NEW S, NEW s \in Seq(S), s # <<>>, Ordered(s)
    PROVE  Ordered(Tail(s)) /\ \A x \in In(Tail(s)) : Head(s).ref < x.ref
<1>1. /\ Len(s) \in Nat /\ Len(s) > 0 /\ DOMAIN s = 1..Len(s)
      /\ Head(s) = s[1]
      /\ DOMAIN Tail(s) = 1..(Len(s) - 1)
      /\ \A i \in 1..(Len(s) - 1) : Tail(s)[i] = s[i + 1] /\ i + 1 \in 1..Len(s)
  BY HeadTailProperties, LenProperties, EmptySeq
<1>2. Ordered(Tail(s))
  BY <1>1 DEF Ordered
<1>3. ASSUME NEW x \in In(Tail(s)) PROVE Head(s).ref < x.ref
  <2>1. PICK i \in 1..(Len(s) - 1) : x = s[i + 1]
    BY <1>1, <1>3 DEF In
  <2> QED BY <1>1, <2>1 DEF Ordered
<1> QED BY <1>2, <1>3

LEMMA OrderedAppend ==
    ASSUME NEW S, NEW s \in Seq(S), NEW e \in S, Ordered(s), \A x \in In(s) : x.ref < e.ref
    PROVE  Ordered(Append(s, e))
<1>1. /\ Len(s) \in Nat /\ DOMAIN s = 1..Len(s)
      /\ DOMAIN Append(s, e) = 1..(Len(s) + 1)
      /\ Append(s, e)[Len(s) + 1] = e
      /\ \A i \in 1..Len(s) : Append(s, e)[i] = s[i] /\ s[i] \in In(s)
  BY DEF In
<1> SUFFICES ASSUME NEW i \in 1..(Len(s) + 1), NEW j \in 1..(Len(s) + 1), i < j
             PROVE  Append(s, e)[i].ref < Append(s, e)[j].ref
  BY <1>1 DEF Ordered
<1>2. CASE j \in 1..Len(s)
  BY <1>1, <1>2 DEF Ordered
<1>3. CASE j = Len(s) + 1
  BY <1>1, <1>3
<1> QED BY <1>1, <1>2, <1>3

LEMMA FollowedTail ==
    ASSUME NEW S, NEW s \in Seq(S), s # <<>>, Followed(s)
    PROVE  Followed(Tail(s)) /\ (Head(s) = IdleFrame => BatchFrame \in In(Tail(s)))
<1>1. /\ Len(s) \in Nat /\ Len(s) > 0 /\ DOMAIN s = 1..Len(s)
      /\ Head(s) = s[1]
      /\ DOMAIN Tail(s) = 1..(Len(s) - 1)
      /\ \A i \in 1..(Len(s) - 1) : Tail(s)[i] = s[i + 1] /\ i + 1 \in 1..Len(s)
  BY HeadTailProperties, LenProperties, EmptySeq
<1>2. ASSUME NEW i \in 1..Len(s), s[i] = IdleFrame
      PROVE  \E j \in 1..(Len(s) - 1) : i - 1 < j /\ Tail(s)[j] = BatchFrame
  <2>1. PICK k \in 1..Len(s) : i < k /\ s[k] = BatchFrame
    BY <1>1, <1>2 DEF Followed
  <2>2. k - 1 \in 1..(Len(s) - 1) /\ i - 1 < k - 1 /\ Tail(s)[k - 1] = BatchFrame
    BY <1>1, <2>1
  <2> QED BY <2>2
<1>3. Followed(Tail(s))
  <2> SUFFICES ASSUME NEW i \in 1..(Len(s) - 1), Tail(s)[i] = IdleFrame
               PROVE  \E j \in 1..(Len(s) - 1) : i < j /\ Tail(s)[j] = BatchFrame
    BY <1>1 DEF Followed
  <2>1. i + 1 \in 1..Len(s) /\ s[i + 1] = IdleFrame /\ (i + 1) - 1 = i
    BY <1>1
  <2> QED BY <1>2, <2>1
<1>4. ASSUME Head(s) = IdleFrame PROVE BatchFrame \in In(Tail(s))
  <2>1. 1 \in 1..Len(s) /\ s[1] = IdleFrame
    BY <1>1, <1>4
  <2>2. PICK j \in 1..(Len(s) - 1) : Tail(s)[j] = BatchFrame
    BY <1>2, <2>1
  <2> QED BY <1>1, <2>2 DEF In
<1> QED BY <1>3, <1>4

LEMMA FollowedAppend ==
    ASSUME NEW S, NEW s \in Seq(S), NEW e \in S,
           e = BatchFrame \/ (Followed(s) /\ e # IdleFrame)
    PROVE  Followed(Append(s, e))
<1>1. /\ Len(s) \in Nat /\ DOMAIN s = 1..Len(s)
      /\ DOMAIN Append(s, e) = 1..(Len(s) + 1)
      /\ Append(s, e)[Len(s) + 1] = e
      /\ \A i \in 1..Len(s) : Append(s, e)[i] = s[i] /\ i \in 1..(Len(s) + 1)
  OBVIOUS
<1>2. BatchFrame # IdleFrame
  BY DEF BatchFrame, IdleFrame, StatusFrame
<1> SUFFICES ASSUME NEW i \in 1..(Len(s) + 1), Append(s, e)[i] = IdleFrame
             PROVE  \E j \in 1..(Len(s) + 1) : i < j /\ Append(s, e)[j] = BatchFrame
  BY <1>1 DEF Followed
<1>3. i \in 1..Len(s)
  BY <1>1, <1>2
<1>4. CASE e = BatchFrame
  BY <1>1, <1>3, <1>4
<1>5. CASE Followed(s)
  BY <1>1, <1>3, <1>5 DEF Followed
<1> QED BY <1>4, <1>5

(* Frames. *)
LEMMA Frames ==
    /\ \A x \in Frame : x.kind = "ack" =>
         x.ref \in Refs /\ x.out \in {"ok", "error"} /\ x # IdleFrame /\ x # BatchFrame
    /\ \A x \in Frame : x.kind # "ack" => x.kind = "status" /\ x \in {IdleFrame, BatchFrame}
    /\ \A x \in News : x \in Frame /\ x.kind = "status" /\ x \in {IdleFrame, BatchFrame}
    /\ IdleFrame \in News /\ IdleFrame.kind = "status" /\ IdleFrame.value = "idle"
    /\ BatchFrame \in News /\ BatchFrame.kind = "status" /\ BatchFrame.value = "batch"
    /\ IdleFrame # BatchFrame
    /\ StatusFrame(Status(TRUE)) = BatchFrame /\ StatusFrame(Status(FALSE)) = IdleFrame
    /\ \A n \in Refs, out \in {"ok", "error"} :
         /\ Ack(n, out) \in Frame
         /\ Ack(n, out).kind = "ack" /\ Ack(n, out).ref = n /\ Ack(n, out).out = out
<1>1. ASSUME NEW x \in News
      PROVE  x \in Frame /\ x.kind = "status" /\ x \in {IdleFrame, BatchFrame}
  BY DEF News, Frame, IdleFrame, BatchFrame, StatusFrame
<1>2. ASSUME NEW x \in [kind : {"ack"}, ref : Refs, out : {"ok", "error"}]
      PROVE  x.kind = "ack" /\ x.ref \in Refs /\ x.out \in {"ok", "error"}
  OBVIOUS
<1>3. /\ IdleFrame \in News /\ IdleFrame.kind = "status" /\ IdleFrame.value = "idle"
      /\ BatchFrame \in News /\ BatchFrame.kind = "status" /\ BatchFrame.value = "batch"
  BY DEF IdleFrame, BatchFrame, StatusFrame, News
<1>4. StatusFrame(Status(TRUE)) = BatchFrame /\ StatusFrame(Status(FALSE)) = IdleFrame
  BY DEF IdleFrame, BatchFrame, Status
<1>5. \A n \in Refs, out \in {"ok", "error"} :
         /\ Ack(n, out) \in Frame
         /\ Ack(n, out).kind = "ack" /\ Ack(n, out).ref = n /\ Ack(n, out).out = out
  BY DEF Ack, Frame
<1>6. \A x \in Frame : x.kind = "ack" => x.ref \in Refs /\ x.out \in {"ok", "error"}
  BY <1>1, <1>2 DEF Frame
<1>7. \A x \in Frame : x.kind # "ack" => x.kind = "status" /\ x \in {IdleFrame, BatchFrame}
  BY <1>1, <1>2 DEF Frame
<1>8. \A x : x.kind = "ack" => x # IdleFrame /\ x # BatchFrame
  BY <1>3
<1>9. IdleFrame # BatchFrame
  BY <1>3
<1> QED BY <1>1, <1>3, <1>4, <1>5, <1>6, <1>7, <1>8, <1>9

-----------------------------------------------------------------------------
(* Status frames queued by the gateway, and the end of a connection.       *)
LEMMA EnqueueIs ==
    ASSUME LinkTypeOK, NEW f \in News, EnqueueFrame(f)
    PROVE  /\ sock' \in {sock, "ended"} /\ queue' \in Seq(News)
           /\ intake' \in {intake, <<>>} /\ handling' \in {handling, 0}
           /\ sock' = "open" => sock = "open" /\ queue' = Append(queue, f)
           /\ sock # "open" => UNCHANGED <<sock, queue, intake, handling>>
           /\ \/ UNCHANGED <<handling, failing>>
              \/ handling' = 0 /\ failing' = FALSE
<1>1. Append(queue, f) \in Seq(News) /\ <<>> \in Seq(News)
  BY AppendIn, EmptyIn DEF LinkTypeOK, GwTypeOK
<1> QED
  BY <1>1 DEF EnqueueFrame, Dropped, NoCommand, LinkTypeOK, ApiTypeOK, GwTypeOK

LEMMA EmptyIntake ==
    /\ \A S : <<>> \in Seq(S)
    /\ In(<<>>) = {} /\ Ordered(<<>>) /\ Followed(<<>>)
BY DEF In, Ordered, Followed

LEMMA LastFrame ==
    ASSUME LinkTypeOK, last # "none"
    PROVE  StatusFrame(last) \in News /\ <<StatusFrame(last)>> \in Seq(News)
<1>1. StatusFrame(last) \in News
  BY DEF LinkTypeOK, GwTypeOK, StatusFrame, News
<1> QED BY <1>1

LEMMA LinkInitInv == LinkInit => LinkInv
<1> SUFFICES ASSUME LinkInit PROVE LinkInv
  OBVIOUS
<1>0. NoCall \in CallState /\ 0 \in 0..MaxRefs
  BY LinkAssumption DEF NoCall, CallState
<1>1. LinkTypeOK
  <2>1. ApiTypeOK
    BY <1>0 DEF LinkInit, ApiTypeOK
  <2>2. GwTypeOK
    BY <1>0, EmptyIntake DEF LinkInit, NoCommand, GwTypeOK
  <2> QED BY <2>1, <2>2 DEF LinkTypeOK
<1>2. AcksInv
  BY EmptyIntake DEF LinkInit, NoCall, NoCommand, AcksInv, Refs
<1>3. NewsInv /\ QuietInv
  BY LinkAssumption DEF LinkInit, NewsInv, QuietInv
<1> QED BY <1>1, <1>2, <1>3 DEF LinkInv

LEMMA ResolveType ==
    ASSUME LinkTypeOK, NEW S, NEW out \in {"ok", "error", "unavailable", "timeout"},
           Resolve(S, out)
    PROVE  call' \in [Calls -> CallState]
<1>1. \A c \in Calls : call[c] \in CallState
  BY DEF LinkTypeOK, ApiTypeOK
<1>2. \A c \in Calls : [call[c] EXCEPT !.at = "answered", !.out = out] \in CallState
  BY <1>1 DEF CallState
<1> QED BY <1>1, <1>2 DEF Resolve

LEMMA SendType ==
    ASSUME LinkTypeOK, NEW c \in Calls, NEW cmd \in {"connect", "disconnect"},
           SendControl(c, cmd)
    PROVE  /\ ref' = ref + 1 /\ ref' \in Refs
           /\ call' = [call EXCEPT ![c] = [at |-> "sent", cmd |-> cmd, ref |-> ref',
                                           out |-> "none"]]
           /\ [cmd |-> cmd, ref |-> ref'] \in Command
           /\ LinkTypeOK'
           /\ intake' = Append(intake, [cmd |-> cmd, ref |-> ref']) \/ intake' = intake
<1>1. ref' = ref + 1 /\ ref' \in Refs
  BY LinkAssumption DEF SendControl, LinkTypeOK, ApiTypeOK, Refs
<1>2. [cmd |-> cmd, ref |-> ref'] \in Command
  BY <1>1 DEF Command
<1>3. [at |-> "sent", cmd |-> cmd, ref |-> ref', out |-> "none"] \in CallState
  BY <1>1, LinkAssumption DEF CallState, Refs
<1>4. /\ call' = [call EXCEPT ![c] = [at |-> "sent", cmd |-> cmd, ref |-> ref', out |-> "none"]]
      /\ intake' = Append(intake, [cmd |-> cmd, ref |-> ref']) \/ intake' = intake
  BY DEF SendControl
<1>5. intake' \in Seq(Command)
  <2>1. intake \in Seq(Command)
    BY DEF LinkTypeOK, GwTypeOK
  <2>2. Append(intake, [cmd |-> cmd, ref |-> ref']) \in Seq(Command)
    BY <1>2, <2>1, AppendIn
  <2> QED BY <1>4, <2>1, <2>2
<1>6. ApiTypeOK'
  BY <1>1, <1>3, <1>4, LinkAssumption DEF SendControl, LinkTypeOK, ApiTypeOK, Refs
<1>7. GwTypeOK'
  BY <1>5 DEF SendControl, LinkTypeOK, GwTypeOK
<1> QED BY <1>1, <1>2, <1>4, <1>6, <1>7 DEF LinkTypeOK

LEMMA LinkTypeStep ==
    ASSUME LinkTypeOK, LinkNext
    PROVE  LinkTypeOK'
<1> USE DEF LinkTypeOK
<1>f. \A b \in BOOLEAN : Status(b) \in {"idle", "batch"} /\ StatusFrame(Status(b)) \in News
  BY Frames DEF Status
<1>w. /\ \A e \in Frame : Append(wire, e) \in Seq(Frame)
      /\ \A e \in News : Append(queue, e) \in Seq(News) /\ e \in Frame
      /\ queue # <<>> => Head(queue) \in News /\ Tail(queue) \in Seq(News)
      /\ wire # <<>> => Head(wire) \in Frame /\ Tail(wire) \in Seq(Frame)
      /\ intake # <<>> => Head(intake).ref \in Refs /\ Tail(intake) \in Seq(Command)
  <2>1. intake # <<>> => Head(intake) \in Command /\ Tail(intake) \in Seq(Command)
    BY TailIn DEF GwTypeOK
  <2>2. \A x \in Command : x.ref \in Refs
    BY DEF Command
  <2>3. /\ queue # <<>> => Head(queue) \in News /\ Tail(queue) \in Seq(News)
        /\ wire # <<>> => Head(wire) \in Frame /\ Tail(wire) \in Seq(Frame)
    BY TailIn DEF GwTypeOK
  <2>4. /\ \A e \in Frame : Append(wire, e) \in Seq(Frame)
        /\ \A e \in News : Append(queue, e) \in Seq(News) /\ e \in Frame
    BY AppendIn DEF GwTypeOK, Frame
  <2> QED BY <2>1, <2>2, <2>3, <2>4
<1>a. /\ \A n \in Refs, out \in {"ok", "error"} :
           /\ Append(wire, Ack(n, out)) \in Seq(Frame)
           /\ [done EXCEPT ![n] = out] \in [Refs -> {"none", "ok", "error"}]
      /\ Refs \subseteq 0..MaxRefs
      /\ \A n \in 0..MaxRefs : n # 0 => n \in Refs
  BY <1>w, Frames, LinkAssumption DEF GwTypeOK, Refs
<1>e. <<>> \in Seq(Frame) /\ <<>> \in Seq(News) /\ <<>> \in Seq(Command) /\ 0 \in 0..MaxRefs
  BY EmptyIntake, LinkAssumption
<1>1. CASE BroadcastStatus
  BY <1>f, <1>e, EnqueueIs, <1>1 DEF BroadcastStatus, ApiTypeOK, GwTypeOK
<1>2. CASE WriteFrame
  BY <1>w, <1>2 DEF WriteFrame, apiVars, ApiTypeOK, GwTypeOK
<1>3. CASE HandleConnect
  BY <1>f, <1>w, <1>a, <1>3 DEF HandleConnect, Handle, Took, Answered, reportVars, ApiTypeOK, GwTypeOK
<1>4. CASE HandleConnectDropped
  BY <1>f, <1>w, <1>a, <1>e, <1>4 DEF HandleConnectDropped, Handle, Took, Dropped, NoCommand, reportVars, ApiTypeOK, GwTypeOK
<1>5. CASE HandleDisconnect
  <2>1. /\ handling = 0 /\ handling' = Took /\ Took \in Refs /\ intake' = Tail(intake)
        /\ Tail(intake) \in Seq(Command)
        /\ UNCHANGED <<sock, status, ref, call, batch, last, queue, wire, failing, done>>
    BY <1>w, <1>5 DEF HandleDisconnect, Handle, Took, NoCommand
  <2>2. Took \in 0..MaxRefs /\ ~failing
    BY <1>a, <2>1 DEF GwTypeOK
  <2> QED BY <2>1, <2>2 DEF ApiTypeOK, GwTypeOK
<1>6. CASE FinishDisconnect
  <2>1. /\ UNCHANGED <<status, ref, call>> /\ batch' = FALSE /\ last' = "idle"
        /\ handling \in Refs
    BY <1>a, <1>6 DEF FinishDisconnect, Status, NoCommand, GwTypeOK
  <2>2. CASE Len(queue) < MaxQueue
    <3>1. /\ queue' = Append(queue, IdleFrame) /\ wire' = Append(wire, Ack(handling, "ok"))
          /\ done' = [done EXCEPT ![handling] = "ok"]
          /\ handling' = 0 /\ failing' = FALSE /\ UNCHANGED <<sock, intake>>
      BY <1>6, <2>2, Frames DEF FinishDisconnect, Answered, NoCommand, GwTypeOK
    <3>2. queue' \in Seq(News) /\ wire' \in Seq(Frame)
          /\ done' \in [Refs -> {"none", "ok", "error"}]
      BY <1>w, <1>a, <2>1, <3>1, Frames
    <3> QED BY <1>e, <2>1, <3>1, <3>2 DEF ApiTypeOK, GwTypeOK
  <2>3. CASE ~(Len(queue) < MaxQueue)
    BY <1>a, <1>e, <1>6, <2>1, <2>3
       DEF FinishDisconnect, Dropped, NoCommand, ApiTypeOK, GwTypeOK
  <2> QED BY <2>2, <2>3
<1>7. CASE Refuse("connect") \/ Refuse("disconnect")
  <2>1. /\ Took \in Refs /\ intake' = Tail(intake) /\ Tail(intake) \in Seq(Command)
        /\ wire' = Append(wire, Ack(Took, "error")) /\ done' = [done EXCEPT ![Took] = "error"]
        /\ UNCHANGED <<sock, status, ref, call, batch, last, queue, handling, failing>>
    BY <1>w, <1>7 DEF Refuse, Handle, Took, Answered
  <2>2. wire' \in Seq(Frame) /\ done' \in [Refs -> {"none", "ok", "error"}]
    BY <1>a, <2>1
  <2> QED BY <2>1, <2>2 DEF ApiTypeOK, GwTypeOK
<1>8. CASE GatewayEnds
  BY <1>e, <1>8 DEF GatewayEnds, Dropped, NoCommand, reportVars, ApiTypeOK, GwTypeOK
<1>9. CASE GatewayStarts
  BY <1>9 DEF GatewayStarts, apiVars, ApiTypeOK, GwTypeOK
<1>10. CASE Open
  BY <1>e, LastFrame, <1>10 DEF Open, NoCommand, ApiTypeOK, GwTypeOK
<1>11. CASE ReadFrame
  <2>1. status' \in {"none", "idle", "batch"}
    BY <1>w, <1>11, Frames DEF ReadFrame, ApiTypeOK
  <2>2. call' \in [Calls -> CallState]
    BY <1>w, <1>11, Frames, ResolveType DEF ReadFrame, ApiTypeOK
  <2> QED BY <1>w, <1>11, <2>1, <2>2 DEF ReadFrame, ApiTypeOK, GwTypeOK
<1>12. CASE CloseSocket
  BY <1>12, ResolveType DEF CloseSocket, gwVars, ApiTypeOK, GwTypeOK
<1>13. ASSUME NEW c \in Calls, Connect(c) \/ Disconnect(c) PROVE LinkTypeOK'
  BY <1>13, SendType DEF Connect, Disconnect
<1>14. ASSUME NEW c \in Calls, TimeOut(c) PROVE LinkTypeOK'
  BY <1>14, ResolveType DEF TimeOut, gwVars, ApiTypeOK, GwTypeOK
<1>15. ASSUME NEW c \in Calls, Return(c) PROVE LinkTypeOK'
  <2>1. NoCall \in CallState
    BY LinkAssumption DEF NoCall, CallState
  <2> QED BY <1>15, <2>1 DEF Return, gwVars, ApiTypeOK, GwTypeOK
<1>16. ASSUME NEW r \in Reports, ReportAllowed(r) \/ ReportStarts(r) \/ ReportRefused(r)
       PROVE  LinkTypeOK'
  BY <1>16 DEF ReportAllowed, ReportStarts, ReportRefused, gwVars, ApiTypeOK, GwTypeOK
<1>17. CASE ReportEnds
  BY <1>17 DEF ReportEnds, gwVars, ApiTypeOK, GwTypeOK
<1>18. CASE HandleBadConnect
  <2>1. /\ Took \in Refs /\ handling' = Took /\ failing' = TRUE /\ batch' = TRUE
        /\ intake' = Tail(intake) /\ Tail(intake) \in Seq(Command)
        /\ UNCHANGED <<sock, status, ref, call, last, queue, wire, done>>
    BY <1>w, <1>18 DEF HandleBadConnect, Handle, Took
  <2>2. Took \in 0..MaxRefs /\ Took # 0
    BY <1>a, <2>1 DEF Refs
  <2> QED BY <2>1, <2>2 DEF ApiTypeOK, GwTypeOK
<1>19. CASE FinishBadConnect
  <2>1. /\ handling \in Refs /\ handling' = 0 /\ failing' = FALSE /\ batch' = FALSE
        /\ wire' = Append(wire, Ack(handling, "error"))
        /\ done' = [done EXCEPT ![handling] = "error"]
        /\ UNCHANGED <<sock, status, ref, call, last, queue, intake>>
    BY <1>a, <1>19 DEF FinishBadConnect, Answered, NoCommand, apiVars, GwTypeOK
  <2>2. wire' \in Seq(Frame) /\ done' \in [Refs -> {"none", "ok", "error"}]
    BY <1>a, <2>1
  <2> QED BY <1>e, <2>1, <2>2 DEF ApiTypeOK, GwTypeOK
<1> QED
  BY <1>1, <1>2, <1>3, <1>4, <1>5, <1>6, <1>7, <1>8, <1>9, <1>10, <1>11, <1>12, <1>13,
     <1>14, <1>15, <1>16, <1>17, <1>18, <1>19 DEF LinkNext

-----------------------------------------------------------------------------
(* Answers. *)

(* A command of the intake is answered, or the one being handled. *)
LEMMA Answering ==
    ASSUME LinkTypeOK, AcksInv, NEW n, Awaited(n), NEW out \in {"ok", "error"},
           done' = [done EXCEPT ![n] = out], ref' = ref, call' = call, handling' = 0,
           In(wire') \subseteq In(wire) \cup {Ack(n, out)},
           \A x \in In(intake') : x \in In(intake) /\ x.ref # n,
           Ordered(intake')
    PROVE  AcksInv'
<1>1. n \in Refs /\ n <= ref /\ done[n] = "none" /\ ref \in Nat /\ ref <= MaxRefs
  BY LinkAssumption DEF Awaited, Refs, LinkTypeOK, ApiTypeOK
<1>2. /\ done \in [Refs -> {"none", "ok", "error"}]
      /\ done'[n] = out
      /\ \A k \in Refs : k # n => done'[k] = done[k]
  BY <1>1 DEF LinkTypeOK, GwTypeOK
<1>3. ASSUME NEW x \in In(wire'), x.kind = "ack" PROVE done'[x.ref] = x.out
  <2>1. CASE x = Ack(n, out)
    BY <1>1, <1>2, <2>1, Frames
  <2>2. CASE x \in In(wire)
    <3>1. x \in Frame /\ done[x.ref] = x.out
      BY <1>3, <2>2 DEF AcksInv, In, LinkTypeOK, GwTypeOK
    <3>2. x.ref \in Refs /\ x.out \in {"ok", "error"}
      BY <1>3, <3>1, Frames
    <3> QED BY <1>1, <1>2, <3>1, <3>2
  <2> QED BY <1>3, <2>1, <2>2
<1>4. \A k \in Refs : k > ref' => done'[k] = "none"
  BY <1>1, <1>2 DEF AcksInv, Refs
<1>5. ASSUME NEW x \in In(intake') PROVE Awaited(x.ref)'
  <2>1. Awaited(x.ref) /\ x.ref # n
    BY <1>5 DEF AcksInv
  <2>2. x.ref \in Refs
    BY <1>1, <2>1, LinkAssumption DEF Awaited, Refs
  <2> QED BY <1>2, <2>1, <2>2 DEF Awaited
<1>6. ASSUME NEW c \in Calls
      PROVE  /\ call'[c].at = "sent" => call'[c].ref \in Refs
             /\ call'[c].at = "answered" /\ call'[c].out \in {"ok", "error"}
                  => call'[c].ref \in Refs /\ done'[call'[c].ref] = call'[c].out
  BY <1>1, <1>2 DEF AcksInv
<1> QED BY <1>3, <1>4, <1>5, <1>6 DEF AcksInv

(* Commands get lost, or are left where they are. *)
LEMMA AcksKept ==
    ASSUME AcksInv, UNCHANGED <<done, ref, call>>, In(wire') \subseteq In(wire),
           intake' \in {intake, <<>>}, handling' \in {handling, 0}
    PROVE  AcksInv'
BY EmptyIntake DEF AcksInv, Awaited

(* The first command of the intake is taken. *)
LEMMA Taking ==
    ASSUME LinkTypeOK, AcksInv, intake # <<>>
    PROVE  /\ Awaited(Took)
           /\ \A x \in In(Tail(intake)) : x \in In(intake) /\ Took < x.ref /\ x.ref # Took
           /\ Ordered(Tail(intake))
<1>1. intake \in Seq(Command)
  BY DEF LinkTypeOK, GwTypeOK
<1>2. In(intake) = {Head(intake)} \cup In(Tail(intake)) /\ Head(intake) \in Command
  BY <1>1, TailIn
<1>3. Ordered(Tail(intake)) /\ \A x \in In(Tail(intake)) : Head(intake).ref < x.ref
  BY <1>1, OrderedTail DEF AcksInv
<1>4. \A x \in In(Tail(intake)) : x.ref \in Nat /\ Head(intake).ref \in Nat
  BY <1>2 DEF AcksInv, Awaited
<1>5. Awaited(Took)
  BY <1>2 DEF AcksInv, Took
<1> QED BY <1>2, <1>3, <1>4, <1>5 DEF Took

LEMMA AcksStep ==
    ASSUME LinkTypeOK, AcksInv, LinkNext
    PROVE  AcksInv'
<1>w. \A n \in Refs, out \in {"ok", "error"} :
        In(Append(wire, Ack(n, out))) = In(wire) \cup {Ack(n, out)}
  BY AppendIn, Frames DEF LinkTypeOK, GwTypeOK
<1>n. \A n : Awaited(n) => n \in Refs
  BY LinkAssumption DEF Awaited, Refs, LinkTypeOK, ApiTypeOK
<1>1. CASE BroadcastStatus
  <2>1. StatusFrame(Status(batch)) \in News
    BY Frames DEF LinkTypeOK, GwTypeOK
  <2> QED BY <1>1, <2>1, EnqueueIs, AcksKept DEF BroadcastStatus
<1>2. CASE WriteFrame
  <2>1. Head(queue) \in News /\ In(wire') = In(wire) \cup {Head(queue)}
    BY <1>2, TailIn, AppendIn, Frames DEF WriteFrame, LinkTypeOK, GwTypeOK
  <2>2. Head(queue).kind = "status"
    BY <2>1, Frames
  <2> QED BY <1>2, <2>1, <2>2 DEF WriteFrame, apiVars, AcksInv, Awaited
<1>3. CASE HandleConnect
  <2>1. /\ intake # <<>> /\ intake' = Tail(intake) /\ UNCHANGED <<ref, call>> /\ handling' = 0
        /\ wire' = Append(wire, Ack(Took, "ok")) /\ done' = [done EXCEPT ![Took] = "ok"]
    BY <1>3 DEF HandleConnect, Handle, Answered, NoCommand
  <2>2. Awaited(Took) /\ In(wire') = In(wire) \cup {Ack(Took, "ok")}
    BY <1>w, <1>n, <2>1, Taking
  <2> QED BY <2>1, <2>2, Taking, Answering
<1>4. CASE HandleConnectDropped
  <2>1. /\ intake # <<>> /\ intake' = <<>> /\ UNCHANGED <<ref, call, wire>> /\ handling' = 0
        /\ done' = [done EXCEPT ![Took] = "ok"]
    BY <1>4 DEF HandleConnectDropped, Handle, Dropped, NoCommand
  <2> QED BY <2>1, Taking, Answering, EmptyIntake
<1>5. CASE HandleDisconnect
  <2>1. /\ intake # <<>> /\ intake' = Tail(intake) /\ handling' = Took
        /\ UNCHANGED <<ref, call, wire, done>>
    BY <1>5 DEF HandleDisconnect, Handle
  <2> QED BY <2>1, Taking DEF AcksInv, Awaited
<1>6. CASE FinishDisconnect
  <2>1. /\ handling # 0 /\ handling' = 0 /\ UNCHANGED <<ref, call>>
        /\ done' = [done EXCEPT ![handling] = "ok"]
        /\ \/ wire' = Append(wire, Ack(handling, "ok")) /\ intake' = intake
           \/ wire' = wire /\ intake' = <<>>
    BY <1>6 DEF FinishDisconnect, Answered, Dropped, NoCommand
  <2>2. Awaited(handling) /\ \A x \in In(intake) : x.ref # handling
    BY <2>1 DEF AcksInv, Awaited
  <2>3. In(wire') \subseteq In(wire) \cup {Ack(handling, "ok")}
    BY <1>w, <1>n, <2>1, <2>2
  <2>4. Ordered(intake') /\ \A x \in In(intake') : x \in In(intake) /\ x.ref # handling
    BY <2>1, <2>2, EmptyIntake DEF AcksInv
  <2> QED BY <2>1, <2>2, <2>3, <2>4, Answering
<1>7. CASE Refuse("connect") \/ Refuse("disconnect")
  <2>1. /\ intake # <<>> /\ intake' = Tail(intake) /\ UNCHANGED <<ref, call>> /\ handling' = 0
        /\ wire' = Append(wire, Ack(Took, "error")) /\ done' = [done EXCEPT ![Took] = "error"]
    BY <1>7 DEF Refuse, Handle, Answered, NoCommand
  <2>2. Awaited(Took) /\ In(wire') = In(wire) \cup {Ack(Took, "error")}
    BY <1>w, <1>n, <2>1, Taking
  <2> QED BY <2>1, <2>2, Taking, Answering
<1>8. CASE GatewayEnds
  BY <1>8, AcksKept DEF GatewayEnds, Dropped, NoCommand
<1>9. CASE GatewayStarts
  BY <1>9, AcksKept DEF GatewayStarts, apiVars
<1>10. CASE Open
  BY <1>10, AcksKept, EmptyIntake DEF Open, NoCommand
<1>11. CASE ReadFrame
  <2> DEFINE msg == Head(wire)
  <2>1. msg \in Frame /\ In(wire) = {msg} \cup In(wire') /\ UNCHANGED <<ref, intake, handling, done>>
    BY <1>11, TailIn DEF ReadFrame, LinkTypeOK, GwTypeOK
  <2>2. CASE msg.kind # "ack"
    BY <1>11, <2>1, <2>2, AcksKept DEF ReadFrame
  <2>3. CASE msg.kind = "ack"
    <3>1. call' = [c \in Calls |-> IF c \in AwaitedBy(msg.ref)
                        THEN [call[c] EXCEPT !.at = "answered", !.out = msg.out] ELSE call[c]]
      BY <1>11, <2>3 DEF ReadFrame, Resolve
    <3>0. msg.ref \in Refs /\ done[msg.ref] = msg.out
      <4>1. msg \in In(wire)
        BY <2>1
      <4> QED BY <2>1, <2>3, <4>1, Frames DEF AcksInv
    <3>2. ASSUME NEW c \in Calls
          PROVE  /\ call'[c].at = "sent" => call'[c].ref \in Refs
                 /\ call'[c].at = "answered" /\ call'[c].out \in {"ok", "error"}
                      => call'[c].ref \in Refs /\ done[call'[c].ref] = call'[c].out
      <4>1. CASE c \in AwaitedBy(msg.ref)
        <5>1. call[c] \in CallState /\ call[c].ref = msg.ref
          BY <4>1 DEF AwaitedBy, LinkTypeOK, ApiTypeOK
        <5>2. call'[c].at = "answered" /\ call'[c].out = msg.out /\ call'[c].ref = msg.ref
          BY <3>1, <4>1, <5>1 DEF CallState
        <5> QED BY <3>0, <5>2
      <4>2. CASE c \notin AwaitedBy(msg.ref)
        BY <3>1, <4>2 DEF AcksInv
      <4> QED BY <4>1, <4>2
    <3> QED BY <2>1, <3>2 DEF AcksInv, Awaited
  <2> QED BY <2>2, <2>3
<1>12. CASE CloseSocket
  <2>1. Resolve(Pending, "unavailable") /\ UNCHANGED <<ref, gwVars>>
    BY <1>12 DEF CloseSocket
  <2> QED BY <2>1 DEF Resolve, gwVars, AcksInv, Awaited, CallState, LinkTypeOK, ApiTypeOK
<1>13. ASSUME NEW c \in Calls, Connect(c) \/ Disconnect(c) PROVE AcksInv'
  <2>1. PICK cmd \in {"connect", "disconnect"} : SendControl(c, cmd)
    BY <1>13 DEF Connect, Disconnect
  <2> DEFINE e == [cmd |-> cmd, ref |-> ref']
  <2>2. /\ ref' = ref + 1 /\ ref' \in Refs /\ e \in Command
        /\ call' = [call EXCEPT ![c] = [at |-> "sent", cmd |-> cmd, ref |-> ref', out |-> "none"]]
        /\ intake' = Append(intake, e) \/ intake' = intake
        /\ UNCHANGED <<wire, handling, done>>
    BY <2>1, SendType DEF SendControl
  <2>3. ref \in Nat /\ done[ref'] = "none"
    BY <2>2 DEF AcksInv, LinkTypeOK, ApiTypeOK
  <2>4. \A n : Awaited(n) => Awaited(n)' /\ n < ref'
    BY <2>2, <2>3 DEF Awaited
  <2>5. In(intake') \subseteq In(intake) \cup {e} /\ Ordered(intake')
    <3>1. e.ref = ref' /\ \A x \in In(intake) : x.ref < e.ref
      BY <2>4 DEF AcksInv
    <3>2. intake \in Seq(Command) /\ Ordered(intake)
      BY DEF LinkTypeOK, GwTypeOK, AcksInv
    <3>3. In(Append(intake, e)) = In(intake) \cup {e}
      BY <2>2, <3>2, AppendIn
    <3>4. Ordered(Append(intake, e))
      BY <2>2, <3>1, <3>2, OrderedAppend
    <3> QED BY <2>2, <3>2, <3>3, <3>4
  <2>6. \A x \in In(intake') : Awaited(x.ref)'
    <3>1. PICK n : n = ref'
      OBVIOUS
    <3>2. Awaited(n)'
      BY <2>2, <2>3, <3>1 DEF Awaited
    <3>3. \A x \in In(intake) \cup {e} : Awaited(x.ref) \/ x.ref = n
      BY <3>1 DEF AcksInv
    <3> QED BY <2>4, <2>5, <3>2, <3>3
  <2>7. handling' # 0 => Awaited(handling)' /\ \A x \in In(intake') : handling < x.ref
    <3>1. handling # 0 => Awaited(handling) /\ handling < ref'
      BY <2>4 DEF AcksInv
    <3> QED BY <2>2, <2>4, <2>5, <3>1 DEF AcksInv
  <2>8. ASSUME NEW d \in Calls
        PROVE  /\ call'[d].at = "sent" => call'[d].ref \in Refs
               /\ call'[d].at = "answered" /\ call'[d].out \in {"ok", "error"}
                    => call'[d].ref \in Refs /\ done'[call'[d].ref] = call'[d].out
    BY <2>2 DEF AcksInv, LinkTypeOK, ApiTypeOK
  <2> QED BY <2>2, <2>3, <2>5, <2>6, <2>7, <2>8 DEF AcksInv, Refs
<1>14. ASSUME NEW c \in Calls, TimeOut(c) PROVE AcksInv'
  <2>1. Resolve({c}, "timeout") /\ UNCHANGED <<ref, gwVars>>
    BY <1>14 DEF TimeOut
  <2> QED BY <2>1 DEF Resolve, gwVars, AcksInv, Awaited, CallState, LinkTypeOK, ApiTypeOK
<1>15. ASSUME NEW c \in Calls, Return(c) PROVE AcksInv'
  <2>1. call' = [call EXCEPT ![c] = NoCall] /\ UNCHANGED <<ref, gwVars>>
    BY <1>15 DEF Return
  <2> QED BY <2>1 DEF NoCall, gwVars, AcksInv, Awaited, LinkTypeOK, ApiTypeOK
<1>16. ASSUME NEW r \in Reports, ReportAllowed(r) \/ ReportStarts(r) \/ ReportRefused(r)
       PROVE  AcksInv'
  BY <1>16, AcksKept DEF ReportAllowed, ReportStarts, ReportRefused, gwVars
<1>17. CASE ReportEnds
  BY <1>17, AcksKept DEF ReportEnds, gwVars
<1>18. CASE HandleBadConnect
  <2>1. /\ intake # <<>> /\ intake' = Tail(intake) /\ handling' = Took
        /\ UNCHANGED <<ref, call, wire, done>>
    BY <1>18 DEF HandleBadConnect, Handle
  <2> QED BY <2>1, Taking DEF AcksInv, Awaited
<1>19. CASE FinishBadConnect
  <2>1. /\ handling # 0 /\ handling' = 0 /\ UNCHANGED <<ref, call, intake>>
        /\ wire' = Append(wire, Ack(handling, "error"))
        /\ done' = [done EXCEPT ![handling] = "error"]
    BY <1>19 DEF FinishBadConnect, Answered, NoCommand, apiVars, LinkTypeOK, GwTypeOK
  <2>2. Awaited(handling) /\ \A x \in In(intake) : x.ref # handling
    BY <2>1 DEF AcksInv, Awaited
  <2>3. In(wire') \subseteq In(wire) \cup {Ack(handling, "error")}
    BY <1>w, <1>n, <2>1, <2>2
  <2>4. Ordered(intake') /\ \A x \in In(intake') : x \in In(intake) /\ x.ref # handling
    BY <2>1, <2>2 DEF AcksInv
  <2> QED BY <2>1, <2>2, <2>3, <2>4, Answering
<1> QED
  BY <1>1, <1>2, <1>3, <1>4, <1>5, <1>6, <1>7, <1>8, <1>9, <1>10, <1>11, <1>12, <1>13,
     <1>14, <1>15, <1>16, <1>17, <1>18, <1>19 DEF LinkNext

-----------------------------------------------------------------------------
(* News of a batch. *)

(* A status that says there is a batch is queued last. *)
LEMMA NewsQueued ==
    ASSUME LinkTypeOK, UNCHANGED status,
           sock' = "open" => queue' = Append(queue, BatchFrame)
    PROVE  NewsInv'
<1>1. queue \in Seq(News) /\ BatchFrame \in News
  BY Frames DEF LinkTypeOK, GwTypeOK
<1>2. Followed(Append(queue, BatchFrame)) /\ BatchFrame \in In(Append(queue, BatchFrame))
  BY <1>1, FollowedAppend, AppendIn
<1> QED BY <1>2 DEF NewsInv

(* A step of the API that touches neither the frames nor the status. *)
LEMMA NewsKept ==
    ASSUME NewsInv, UNCHANGED <<last, queue, wire, status>>,
           sock' = "open" => sock = "open"
    PROVE  NewsInv'
BY DEF NewsInv

(* An answer is no news. *)
LEMMA NewsAnswered ==
    ASSUME LinkTypeOK, NewsInv, UNCHANGED <<sock, status, last, queue>>,
           NEW n \in Refs, wire' = Append(wire, Ack(n, "error"))
    PROVE  NewsInv'
<1>1. wire \in Seq(Frame)
  BY DEF LinkTypeOK, GwTypeOK
<1>2. Ack(n, "error") \in Frame /\ Ack(n, "error") # IdleFrame
  BY Frames
<1>3. In(wire') = In(wire) \cup {Ack(n, "error")}
  BY <1>1, <1>2, AppendIn
<1>4. Followed(wire) => Followed(wire')
  BY <1>1, <1>2, FollowedAppend
<1> QED BY <1>3, <1>4 DEF NewsInv

LEMMA NewsStep ==
    ASSUME LinkTypeOK, NewsInv, LinkNext
    PROVE  NewsInv'
<1>t. /\ queue \in Seq(News) /\ wire \in Seq(Frame) /\ batch \in BOOLEAN
      /\ status \in {"none", "idle", "batch"}
  BY DEF LinkTypeOK, ApiTypeOK, GwTypeOK
<1>1. CASE BroadcastStatus
  <2>1. CASE ~batch
    BY <1>1, <2>1 DEF BroadcastStatus, Status, NewsInv
  <2>2. CASE batch
    <3>1. batch = TRUE /\ StatusFrame(Status(batch)) = BatchFrame /\ Status(batch) = "batch"
      BY <1>t, <2>2, Frames DEF Status
    <3>2. BatchFrame \in News /\ EnqueueFrame(BatchFrame)
      BY <1>1, <3>1, Frames DEF BroadcastStatus
    <3>3. sock' = "open" => queue' = Append(queue, BatchFrame)
      BY <3>2, EnqueueIs
    <3> QED BY <1>1, <3>1, <3>3, NewsQueued DEF BroadcastStatus
  <2> QED BY <2>1, <2>2
<1>2. CASE WriteFrame
  <2> DEFINE h == Head(queue)
  <2>1. /\ queue # <<>> /\ wire' = Append(wire, h) /\ queue' = Tail(queue)
        /\ UNCHANGED <<batch, last, sock, status>>
    BY <1>2 DEF WriteFrame, apiVars
  <2>2. /\ h \in News /\ h \in Frame /\ h \in {IdleFrame, BatchFrame}
        /\ In(queue) = {h} \cup In(queue') /\ In(wire') = In(wire) \cup {h}
    BY <1>t, <2>1, TailIn, AppendIn, Frames
  <2> SUFFICES ASSUME last = "batch", sock = "open"
               PROVE  /\ Followed(queue')
                      /\ Followed(wire') \/ BatchFrame \in In(queue')
                      /\ status = "batch" \/ BatchFrame \in In(wire') \cup In(queue')
    BY <2>1 DEF NewsInv
  <2>3. Followed(queue') /\ (h = IdleFrame => BatchFrame \in In(queue'))
    BY <1>t, <2>1, FollowedTail DEF NewsInv
  <2>4. CASE h = BatchFrame
    BY <1>t, <2>1, <2>2, <2>3, <2>4, FollowedAppend
  <2>5. CASE h = IdleFrame
    BY <2>3, <2>5
  <2> QED BY <2>2, <2>4, <2>5
<1>3. CASE HandleConnect
  <2>1. /\ batch' = TRUE /\ last' = "batch" /\ UNCHANGED status
        /\ queue' = Append(queue, BatchFrame)
    BY <1>3, Frames DEF HandleConnect, Handle, Status
  <2> QED BY <2>1, NewsQueued
<1>4. CASE HandleConnectDropped
  <2>1. batch' = TRUE /\ last' = "batch" /\ sock' = "ended"
    BY <1>4 DEF HandleConnectDropped, Dropped, Status
  <2> QED BY <2>1 DEF NewsInv
<1>5. CASE HandleDisconnect
  BY <1>5, NewsKept DEF HandleDisconnect, Handle
<1>6. CASE FinishDisconnect
  BY <1>6 DEF FinishDisconnect, Status, NewsInv
<1>7. CASE Refuse("connect") \/ Refuse("disconnect")
  <2>1. /\ intake # <<>> /\ wire' = Append(wire, Ack(Took, "error"))
        /\ UNCHANGED <<sock, status, last, queue>>
    BY <1>7 DEF Refuse, Handle, Answered
  <2>2. Took \in Refs
    <3>1. Head(intake) \in Command
      BY <2>1, TailIn DEF LinkTypeOK, GwTypeOK
    <3> QED BY <3>1 DEF Command, Took
  <2> QED BY <2>1, <2>2, NewsAnswered
<1>8. CASE GatewayEnds
  BY <1>8 DEF GatewayEnds, NewsInv
<1>9. CASE GatewayStarts
  BY <1>9, NewsKept DEF GatewayStarts, apiVars
<1>10. CASE Open
  <2> SUFFICES ASSUME last = "batch" PROVE NewsInv'
    BY <1>10 DEF Open, NewsInv
  <2>1. queue' = <<BatchFrame>> /\ wire' = <<>> /\ UNCHANGED last
    BY <1>10 DEF Open, NewsInv, BatchFrame
  <2>2. Followed(<<BatchFrame>>) /\ BatchFrame \in In(<<BatchFrame>>)
    BY Frames DEF Followed, In
  <2> QED BY <2>1, <2>2, EmptyIntake DEF NewsInv
<1>11. CASE ReadFrame
  <2> DEFINE h == Head(wire)
  <2>1. /\ wire # <<>> /\ wire' = Tail(wire) /\ UNCHANGED <<sock, batch, last, queue>>
        /\ status' = IF h.kind = "status" THEN h.value ELSE status
    BY <1>11 DEF ReadFrame
  <2>2. h \in Frame /\ In(wire) = {h} \cup In(wire')
    BY <1>t, <2>1, TailIn
  <2> SUFFICES ASSUME last = "batch", sock = "open"
               PROVE  /\ Followed(wire') \/ BatchFrame \in In(queue)
                      /\ status' = "batch" \/ BatchFrame \in In(wire') \cup In(queue)
    BY <2>1 DEF NewsInv
  <2>3. Followed(wire) => Followed(wire') /\ (h = IdleFrame => BatchFrame \in In(wire'))
    BY <1>t, <2>1, FollowedTail
  <2>4. Followed(wire) \/ BatchFrame \in In(queue)
    BY DEF NewsInv
  <2>5. CASE h = BatchFrame
    BY <2>1, <2>3, <2>4, <2>5, Frames
  <2>6. CASE h = IdleFrame
    BY <2>3, <2>4, <2>6
  <2>7. CASE h.kind = "ack"
    <3>1. h # BatchFrame /\ status' = status
      BY <2>1, <2>2, <2>7, Frames
    <3>2. status = "batch" \/ BatchFrame \in In(wire) \cup In(queue)
      BY DEF NewsInv
    <3> QED BY <2>2, <2>3, <2>4, <3>1, <3>2
  <2> QED BY <2>2, <2>5, <2>6, <2>7, Frames
<1>12. CASE CloseSocket
  BY <1>12 DEF CloseSocket, gwVars, NewsInv
<1>13. ASSUME NEW c \in Calls, Connect(c) \/ Disconnect(c) PROVE NewsInv'
  BY <1>13, NewsKept DEF Connect, Disconnect, SendControl
<1>14. ASSUME NEW c \in Calls, TimeOut(c) \/ Return(c) PROVE NewsInv'
  BY <1>14, NewsKept DEF TimeOut, Return, gwVars
<1>15. ASSUME NEW r \in Reports, ReportAllowed(r) \/ ReportStarts(r) \/ ReportRefused(r)
       PROVE  NewsInv'
  BY <1>15, NewsKept DEF ReportAllowed, ReportStarts, ReportRefused, gwVars
<1>16. CASE ReportEnds
  BY <1>16, NewsKept DEF ReportEnds, gwVars
<1>17. CASE HandleBadConnect
  BY <1>17, NewsKept DEF HandleBadConnect, Handle
<1>18. CASE FinishBadConnect
  <2>1. /\ wire' = Append(wire, Ack(handling, "error")) /\ handling # 0
        /\ UNCHANGED <<sock, status, last, queue>>
    BY <1>18 DEF FinishBadConnect, Answered, apiVars, LinkTypeOK, GwTypeOK
  <2>2. handling \in Refs
    BY <2>1 DEF Refs, LinkTypeOK, GwTypeOK
  <2> QED BY <2>1, <2>2, NewsAnswered
<1> QED
  BY <1>1, <1>2, <1>3, <1>4, <1>5, <1>6, <1>7, <1>8, <1>9, <1>10, <1>11, <1>12, <1>13,
     <1>14, <1>15, <1>16, <1>17, <1>18 DEF LinkNext

-----------------------------------------------------------------------------
(* Reports. *)

(* No batch begins, no connect is sent, nothing happens to the reports. *)
LEMMA QuietKept ==
    ASSUME QuietInv, UNCHANGED <<lock, running, looked, unseen>>,
           batch' => batch, In(intake') \subseteq In(intake)
    PROVE  QuietInv'
BY DEF QuietInv

(* What a look at an up-to-date status says. *)
LEMMA LookedInTime ==
    ASSUME LinkTypeOK, NewsInv, ~Unseen, status = "idle", sock # "none"
    PROVE  ~batch /\ \A x \in In(intake) : x.cmd # "connect"
<1>1. sock = "open" /\ \A x \in In(intake) : x.cmd # "connect"
  BY DEF Unseen, In, LinkTypeOK, ApiTypeOK
<1>2. BatchFrame \notin In(queue) /\ BatchFrame \notin In(wire)
  BY DEF Unseen, In, BatchFrame
<1>3. batch => last = "batch"
  BY DEF Unseen
<1> QED BY <1>1, <1>2, <1>3 DEF NewsInv

LEMMA QuietStep ==
    ASSUME LinkTypeOK, NewsInv, QuietInv, LinkNext
    PROVE  QuietInv'
<1>i. intake # <<>> => Head(intake) \in In(intake) /\ In(Tail(intake)) \subseteq In(intake)
  BY TailIn DEF LinkTypeOK, GwTypeOK
<1>1. CASE BroadcastStatus
  <2>1. StatusFrame(Status(batch)) \in News
    BY Frames DEF LinkTypeOK, GwTypeOK
  <2>2. In(intake') \subseteq In(intake)
    BY <1>1, <2>1, EnqueueIs, EmptyIntake DEF BroadcastStatus
  <2> QED BY <1>1, <2>2, QuietKept DEF BroadcastStatus, reportVars
<1>2. CASE WriteFrame
  BY <1>2, QuietKept DEF WriteFrame, apiVars, reportVars
<1>3. CASE HandleConnect \/ HandleConnectDropped \/ HandleBadConnect
  <2>1. Head(intake).cmd = "connect" /\ intake # <<>>
        /\ UNCHANGED <<lock, running, looked, unseen>>
    BY <1>3 DEF HandleConnect, HandleConnectDropped, HandleBadConnect, Handle, reportVars
  <2> QED BY <1>i, <2>1 DEF QuietInv
<1>4. CASE HandleDisconnect
  BY <1>i, <1>4, QuietKept DEF HandleDisconnect, Handle, reportVars
<1>5. CASE FinishDisconnect
  <2>1. In(intake') \subseteq In(intake)
    BY <1>5, EmptyIntake DEF FinishDisconnect, Dropped
  <2> QED BY <1>5, <2>1, QuietKept DEF FinishDisconnect, reportVars
<1>6. CASE Refuse("connect") \/ Refuse("disconnect")
  <2>1. /\ intake # <<>> /\ intake' = Tail(intake)
        /\ UNCHANGED <<lock, running, looked, unseen, batch>>
    BY <1>6 DEF Refuse, Handle, reportVars
  <2> QED BY <1>i, <2>1, QuietKept
<1>7. CASE GatewayEnds
  <2>1. In(intake') \subseteq In(intake)
    BY <1>7, EmptyIntake DEF GatewayEnds, Dropped
  <2> QED BY <1>7, <2>1, QuietKept DEF GatewayEnds, reportVars
<1>8. CASE GatewayStarts
  BY <1>8, QuietKept DEF GatewayStarts, apiVars, reportVars
<1>9. CASE Open
  BY <1>9, QuietKept, EmptyIntake DEF Open, reportVars
<1>10. CASE ReadFrame
  BY <1>10, QuietKept DEF ReadFrame, reportVars
<1>11. CASE CloseSocket
  BY <1>11, QuietKept DEF CloseSocket, reportVars, gwVars
<1>12. ASSUME NEW c \in Calls, Connect(c) PROVE QuietInv'
  BY <1>12, LinkAssumption DEF Connect, SendControl, reportVars, QuietInv
<1>13. ASSUME NEW c \in Calls, Disconnect(c) PROVE QuietInv'
  <2>1. /\ intake' = Append(intake, [cmd |-> "disconnect", ref |-> ref']) \/ intake' = intake
        /\ [cmd |-> "disconnect", ref |-> ref'] \in Command
        /\ UNCHANGED <<lock, running, looked, unseen, batch>>
    BY <1>13, SendType DEF Disconnect, SendControl, reportVars
  <2>2. In(intake') \subseteq In(intake) \cup {[cmd |-> "disconnect", ref |-> ref']}
    BY <2>1, AppendIn DEF LinkTypeOK, GwTypeOK
  <2> QED BY <2>1, <2>2 DEF QuietInv
<1>14. ASSUME NEW c \in Calls, TimeOut(c) PROVE QuietInv'
  BY <1>14, QuietKept DEF TimeOut, reportVars, gwVars
<1>15. ASSUME NEW c \in Calls, Return(c) PROVE QuietInv'
  BY <1>15, LinkAssumption DEF Return, reportVars, gwVars, QuietInv
<1>16. ASSUME NEW r \in Reports, ReportAllowed(r) PROVE QuietInv'
  <2>1. /\ lock = Nobody /\ sock # "none" /\ status = "idle"
        /\ looked' = Unseen /\ UNCHANGED <<running, unseen, batch, intake>>
    BY <1>16 DEF ReportAllowed, gwVars
  <2>2. CASE Unseen
    BY <2>1, <2>2 DEF QuietInv
  <2>3. CASE ~Unseen
    BY <2>1, <2>3, LookedInTime DEF QuietInv
  <2> QED BY <2>2, <2>3
<1>17. ASSUME NEW r \in Reports, ReportStarts(r) PROVE QuietInv'
  BY <1>17, LinkAssumption DEF ReportStarts, gwVars, QuietInv
<1>18. ASSUME NEW r \in Reports, ReportRefused(r) PROVE QuietInv'
  BY <1>18, LinkAssumption DEF ReportRefused, gwVars, QuietInv
<1>19. CASE ReportEnds
  BY <1>19 DEF ReportEnds, gwVars, QuietInv
<1>20. CASE FinishBadConnect
  BY <1>20, QuietKept DEF FinishBadConnect, apiVars, reportVars
<1> QED
  BY <1>1, <1>2, <1>3, <1>4, <1>5, <1>6, <1>7, <1>8, <1>9, <1>10, <1>11, <1>12, <1>13,
     <1>14, <1>15, <1>16, <1>17, <1>18, <1>19, <1>20 DEF LinkNext

-----------------------------------------------------------------------------
(* The theorems. *)
LEMMA LinkInvHolds == ServerSpec => []LinkInv
<1>1. ServerInit => LinkInv
  BY LinkInitInv DEF ServerInit
<1>2. LinkInv /\ [ServerNext]_serverVars => LinkInv'
  <2> SUFFICES ASSUME LinkInv, [ServerNext]_serverVars PROVE LinkInv'
    OBVIOUS
  <2>1. CASE LinkNext
    BY <2>1, LinkTypeStep, AcksStep, NewsStep, QuietStep DEF LinkInv
  <2>2. CASE UNCHANGED linkVars
    BY <2>2 DEF linkVars, apiVars, reportVars, gwVars, LinkInv, LinkTypeOK, ApiTypeOK,
       GwTypeOK, AcksInv, Awaited, NewsInv, QuietInv
  <2> QED BY <2>1, <2>2 DEF ServerNext, Logins, InTabs, OnLink, serverVars
<1> QED BY <1>1, <1>2, PTL DEF ServerSpec

(* A request is told the outcome of its own command (ingest/client.py,     *)
(* send_control and _read_loop), for any number of requests and commands.  *)
THEOREM AckIsForCallHolds == ServerSpec => []AckIsForCall
<1>1. LinkInv => AckIsForCall
  BY DEF LinkInv, AcksInv, AckIsForCall
<1> QED BY <1>1, LinkInvHolds, PTL

(* A report runs beside a collection only if the status it was allowed on  *)
(* was out of date (api/routers/research.py, generate), for any number of  *)
(* requests, frames and restarts of the gateway.                           *)
THEOREM OverlapOnlyUnseenHolds == ServerSpec => []OverlapOnlyUnseen
<1>1. LinkInv => OverlapOnlyUnseen
  BY DEF LinkInv, QuietInv, OverlapOnlyUnseen
<1> QED BY <1>1, LinkInvHolds, PTL
=============================================================================
