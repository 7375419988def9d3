------------------------ MODULE GatewayRuntime_proofs ------------------------
(***************************************************************************)
(* Theorems of GatewayRuntime, for any number of instruments and any       *)
(* bounds; all but the first for one control connection at a time, which   *)
(* is what one API process opens (with two of them the same properties     *)
(* fail: ApiRestartHarmless).                                              *)
(*                                                                         *)
(* The inductive invariant has four parts.  TasksInv says which call holds *)
(* what.  LinkInv is about the front and the queue of its events: a        *)
(* session is announced once, and what only a logged in session delivers   *)
(* is followed by its end or still true.  OneLogin adds what a single      *)
(* login per session gives: nothing of it is queued behind its end.        *)
(* OwnerInv ties the runtime's own fields to the native client, and makes  *)
(* a runtime that accepts a connect one that no row can reach.             *)
(***************************************************************************)
EXTENDS GatewayRuntime, FiniteSetTheorems, SequenceTheorems, TLAPS

OneConnection == \A c, d \in Conns : c = d

(* What ends a session, and what only a logged in session delivers. *)
Ends(e) == e.kind \in {"front", "down"} \/ (e.kind = "login" /\ ~e.ok)
OfSession(e) == e.kind = "depth" \/ (e.kind \in {"login", "sub"} /\ e.ok)
About(e, i) == e.kind \in {"sub", "unsub"} /\ e.inst = i

LoginOpen == \E n \in DOMAIN reqs : reqs[n].kind = "login"
SubOpen(i) == \E n \in DOMAIN reqs : reqs[n].kind = "sub" /\ reqs[n].inst = i
LoginQueued == \E n \in DOMAIN inbox : inbox[n].kind = "login" /\ inbox[n].ok
DownAfter(m) == \E n \in DOMAIN inbox : n > m /\ inbox[n].kind = "down"

-----------------------------------------------------------------------------
ShutdownFlag == at[Main] # "idle" => call[Main] = "shutdown" /\ proc # "run"
CallKinds == \A c \in Conns :
    /\ at[c] # "idle" => call[c] \in {"connect", "disconnect"}
    /\ at[c] = "releasing" => call[c] = "disconnect"
StoringBatch == \A a \in Actors : at[a] = "storing" => abatch
TasksInv == ShutdownFlag /\ CallKinds /\ StoringBatch

(* The front and its events. *)
OffIsEmpty == link = "off" => reqs = <<>>
PushedWhenLogged == link # "logged" => subs = {}
FrontsApart == \A m, n \in DOMAIN inbox :
    m < n /\ inbox[m].kind = "front" /\ inbox[n].kind = "front"
      => \E k \in DOMAIN inbox : m < k /\ k < n /\ inbox[k].kind = "down"
OffIsAnnounced == api # None /\ link = "off" =>
    \A m \in DOMAIN inbox : inbox[m].kind = "front" => DownAfter(m)
SessionEvents == api # None /\ link # "logged" =>
    \A m \in DOMAIN inbox : OfSession(inbox[m]) => DownAfter(m)
LoginAfterDown == link = "logged" =>
    \A m \in DOMAIN inbox : inbox[m].kind = "down" =>
      \E n \in DOMAIN inbox : n > m /\ inbox[n].kind = "login" /\ inbox[n].ok
StateShown == api # None /\ state = "streaming" /\ ~stale =>
    link = "logged" \/ DownAfter(0)

(* What the queued events will leave of instrument i. *)
SubAnswered(i, m) ==
    /\ m \in DOMAIN inbox /\ inbox[m].kind = "sub" /\ inbox[m].ok /\ inbox[m].inst = i
    /\ \A n \in DOMAIN inbox : n > m => ~About(inbox[n], i)
WillStream(i) ==
    \/ insts[i] = "streaming" /\ \A n \in DOMAIN inbox : ~About(inbox[n], i)
    \/ \E m \in DOMAIN inbox : SubAnswered(i, m)
AnswerTrue == link = "logged" => \A i \in Insts : \A m \in DOMAIN inbox :
    SubAnswered(i, m) => i \in subs \/ DownAfter(m)
StreamTrue == link = "logged" => \A i \in Insts :
    WillStream(i) => i \in subs \/ SubOpen(i) \/ LoginQueued

FrontInv == OffIsEmpty /\ PushedWhenLogged /\ FrontsApart /\ OffIsAnnounced
ShownInv == SessionEvents /\ LoginAfterDown /\ StateShown
StreamInv == AnswerTrue /\ StreamTrue
LinkInv == FrontInv /\ ShownInv /\ StreamInv

(* One login a session. *)
LoginOnce == LoginOpen =>
    /\ link = "up"
    /\ \A m, n \in DOMAIN reqs : reqs[m].kind = "login" /\ reqs[n].kind = "login" => m = n
NothingEnded == link = "logged" \/ LoginOpen => \A n \in DOMAIN inbox : ~Ends(inbox[n])
EndIsLast == \A m, n \in DOMAIN inbox :
    m < n /\ Ends(inbox[m]) => inbox[n].kind # "login" /\ ~OfSession(inbox[n])
OneLogin == LoginOnce /\ NothingEnded /\ EndIsLast

(* The runtime's fields. *)
Held == api # None => client = api
ReleaseTrue == \A c \in Conns : at[c] = "releasing" /\ api # None =>
    api \in threads /\ rel[c] = api
Stopped == \A c \in Conns :
    at[c] \in {"waiting", "storing"} /\ call[c] = "disconnect" => client = None
Refused == \A c \in Conns :
    at[c] \in {"waiting", "storing"} /\ call[c] = "connect" => ~creds
NoClient == client = None => inbox = <<>>
NoBatch == ~abatch => ~creds \/ client = None
OwnerInv == Held /\ ReleaseTrue /\ Stopped /\ Refused /\ NoClient /\ NoBatch

(* Nothing of a session can come, or be queued. *)
Silent == link # "logged" /\ ~LoginOpen /\ \A n \in DOMAIN inbox : ~OfSession(inbox[n])
SilentInv == Accepting \/ ~creds => Silent

RowsInBatch == ~late => /\ rows => abatch
                        /\ \A a \in Actors : at[a] = "storing" => ~rows

GwInv ==
    /\ GwTypeOK /\ TasksInv
    /\ Alive => LinkInv /\ (~late => OneLogin)
    /\ Draining => OwnerInv /\ (~late => SilentInv)
    /\ RowsInBatch /\ RowsHaveBatch /\ StopLeavesNoRows

-----------------------------------------------------------------------------
(* What the requests of one call are, and what is open when s was and they *)
(* have been sent. *)
AreRequests(new, kind, S) ==
    /\ new \in Seq(Request)
    /\ \A n \in DOMAIN new : new[n].kind = kind
    /\ kind = "login" => Len(new) = 1
    /\ kind # "login" => \A i \in S : \E n \in DOMAIN new : new[n].inst = i
Extends(all, s, kind, S) ==
    /\ all \in Seq(Request) /\ Len(all) >= Len(s)
    /\ \A n \in 1..Len(s) : all[n] = s[n]
    /\ \A n \in 1..Len(all) : n > Len(s) => all[n].kind = kind
    /\ kind = "login" => Len(all) = Len(s) + 1
    /\ kind # "login" =>
         \A i \in S : \E n \in 1..Len(all) : all[n].kind = kind /\ all[n].inst = i

LEMMA RequestsFacts ==
    ASSUME NEW kind \in {"login", "sub", "unsub"}, NEW S \in SUBSET Insts,
           NEW new \in Requests(kind, S)
    PROVE  AreRequests(new, kind, S)
<1> USE DEF AreRequests
<1>1. CASE kind = "login"
  <2>1. new = <<[kind |-> "login"]>>
    BY <1>1 DEF Requests
  <2>2. [kind |-> "login"] \in Request
    BY DEF Request
  <2>3. new \in Seq(Request) /\ Len(new) = 1 /\ DOMAIN new = {1} /\ new[1].kind = "login"
    BY <2>1, <2>2
  <2> QED
    BY <1>1, <2>3
<1>2. CASE kind # "login"
  <2>1. PICK q \in Orders(S) : new = [n \in DOMAIN q |-> [kind |-> kind, inst |-> q[n]]]
    BY <1>2 DEF Requests
  <2>2. Cardinality(S) \in Nat
    BY FS_Subset, FS_CardinalityType, BoundsAssumption DEF BoundsAssumption
  <2>3. /\ q \in [1..Cardinality(S) -> S]
        /\ \A i \in S : \E n \in DOMAIN q : q[n] = i
    BY DEF Orders
  <2>4. new \in [1..Cardinality(S) -> Request]
    BY <1>2, <2>1, <2>3 DEF Request
  <2>5. new \in Seq(Request)
    BY <2>2, <2>4, SeqDef
  <2> QED
    BY <1>2, <2>1, <2>3, <2>5
<1> QED
  BY <1>1, <1>2

LEMMA AppendFacts ==
    ASSUME NEW s \in Seq(Request), NEW kind, NEW S, NEW new, AreRequests(new, kind, S)
    PROVE  Extends(s \o new, s, kind, S)
<1> USE DEF AreRequests
<1> DEFINE all == s \o new
<1>1. /\ all \in Seq(Request) /\ Len(all) = Len(s) + Len(new)
      /\ \A n \in 1..Len(s) : all[n] = s[n]
      /\ \A n \in 1..Len(new) : all[n + Len(s)] = new[n]
      /\ Len(s) \in Nat /\ Len(new) \in Nat /\ DOMAIN new = 1..Len(new)
  OBVIOUS
<1> HIDE DEF all
<1>2. ASSUME NEW n \in 1..Len(all), n > Len(s) PROVE all[n].kind = kind
  <2>1. PICK m \in 1..Len(new) : m + Len(s) = n
    <3>1. n - Len(s) \in 1..Len(new) /\ (n - Len(s)) + Len(s) = n
      BY <1>1, <1>2
    <3> QED
      BY <3>1
  <2>2. all[n] = new[m] /\ new[m].kind = kind
    BY <1>1, <2>1
  <2> QED
    BY <2>2
<1>3. ASSUME kind # "login", NEW i \in S
      PROVE  \E n \in 1..Len(all) : all[n].kind = kind /\ all[n].inst = i
  <2>1. PICK n \in 1..Len(new) : new[n].inst = i
    BY <1>1, <1>3
  <2>2. n + Len(s) \in 1..Len(all)
    BY <1>1
  <2>3. all[n + Len(s)] = new[n] /\ new[n].kind = kind
    BY <1>1
  <2> QED
    BY <2>1, <2>2, <2>3
<1>4. Len(all) >= Len(s) /\ (kind = "login" => Len(all) = Len(s) + 1)
  BY <1>1
<1>5. Extends(all, s, kind, S)
  BY <1>1, <1>2, <1>3, <1>4 DEF Extends
<1> QED
  BY <1>5 DEF all

(* Nothing is sent to a front that is not connected. *)
LEMMA SendFacts ==
    ASSUME reqs \in Seq(Request), NEW kind \in {"login", "sub", "unsub"},
           NEW S \in SUBSET Insts, Send(kind, S)
    PROVE  IF link = "off" THEN reqs' = reqs ELSE Extends(reqs', reqs, kind, S)
<1>1. PICK new \in Requests(kind, S) :
        reqs' = IF link = "off" THEN reqs ELSE reqs \o new
  BY DEF Send
<1>2. Extends(reqs \o new, reqs, kind, S)
  BY RequestsFacts, AppendFacts
<1> QED
  BY <1>1, <1>2

-----------------------------------------------------------------------------
(* Types. *)
LEMMA CallbackType ==
    ASSUME inbox \in Seq(Event), NEW e \in Event, Callback(e),
           proc \in {"run", "stopping", "stopped", "dead"}
    PROVE  inbox' \in Seq(Event) /\ proc' \in {"run", "stopping", "stopped", "dead"}
  BY DEF Callback, Post, CallbackGone

LEMMA FrontTypes ==
    GwTypeOK /\ (FrontStep \/ \E i \in Insts : Depth(i)) => GwTypeOK'
<1> SUFFICES ASSUME GwTypeOK, FrontStep \/ \E i \in Insts : Depth(i)
             PROVE  GwTypeOK'
  OBVIOUS
<1> USE DEF GwTypeOK, rtVars, archVars, callVars, histVars
<1>0. reqs # <<>> => Head(reqs) \in Request /\ Tail(reqs) \in Seq(Request)
  OBVIOUS
<1>1. CASE FrontUp
  <2>1. [kind |-> "front"] \in Event
    BY DEF Event
  <2>2. Callback([kind |-> "front"])
    BY <1>1 DEF FrontUp
  <2>3. inbox' \in Seq(Event) /\ proc' \in {"run", "stopping", "stopped", "dead"}
    BY <2>1, <2>2, CallbackType
  <2> QED
    BY <1>1, <2>3 DEF FrontUp, Callback
<1>2. CASE LinkDrop
  <2>1. [kind |-> "down"] \in Event
    BY DEF Event
  <2>2. Callback([kind |-> "down"])
    BY <1>2 DEF LinkDrop
  <2>3. inbox' \in Seq(Event) /\ proc' \in {"run", "stopping", "stopped", "dead"}
    BY <2>1, <2>2, CallbackType
  <2> QED
    BY <1>2, <2>3 DEF LinkDrop, Callback
<1>3. CASE AnswerUnsub
  <2>0. Head(reqs).inst \in Insts
    BY <1>0, <1>3 DEF AnswerUnsub, Request
  <2>1. [kind |-> "unsub", inst |-> Head(reqs).inst] \in Event
    BY <2>0 DEF Event
  <2>2. Callback([kind |-> "unsub", inst |-> Head(reqs).inst])
    BY <1>3 DEF AnswerUnsub
  <2>3. inbox' \in Seq(Event) /\ proc' \in {"run", "stopping", "stopped", "dead"}
    BY <2>1, <2>2, CallbackType
  <2> QED
    BY <1>0, <1>3, <2>3 DEF AnswerUnsub, Callback
<1>4. ASSUME NEW ok \in BOOLEAN, AnswerLogin(ok) PROVE GwTypeOK'
  <2>1. [kind |-> "login", ok |-> ok] \in Event
    BY DEF Event
  <2>2. Callback([kind |-> "login", ok |-> ok])
    BY <1>4 DEF AnswerLogin
  <2>3. inbox' \in Seq(Event) /\ proc' \in {"run", "stopping", "stopped", "dead"}
    BY <2>1, <2>2, CallbackType
  <2> QED
    BY <1>0, <1>4, <2>3 DEF AnswerLogin, Callback
<1>5. ASSUME NEW ok \in BOOLEAN, AnswerSub(ok) PROVE GwTypeOK'
  <2>0. Head(reqs).inst \in Insts
    BY <1>0, <1>5 DEF AnswerSub, Request
  <2>1. [kind |-> "sub", inst |-> Head(reqs).inst, ok |-> ok] \in Event
    BY <2>0 DEF Event
  <2>2. Callback([kind |-> "sub", inst |-> Head(reqs).inst, ok |-> ok])
    BY <1>5 DEF AnswerSub
  <2>3. inbox' \in Seq(Event) /\ proc' \in {"run", "stopping", "stopped", "dead"}
    BY <2>1, <2>2, CallbackType
  <2> QED
    BY <1>0, <1>5, <2>0, <2>3 DEF AnswerSub, Callback
<1>6. ASSUME NEW i \in Insts, Depth(i) PROVE GwTypeOK'
  <2>1. [kind |-> "depth", inst |-> i] \in Event
    BY DEF Event
  <2>2. Callback([kind |-> "depth", inst |-> i])
    BY <1>6 DEF Depth
  <2>3. inbox' \in Seq(Event) /\ proc' \in {"run", "stopping", "stopped", "dead"}
    BY <2>1, <2>2, CallbackType
  <2> QED
    BY <1>6, <2>3 DEF Depth, Callback
<1> QED
  BY <1>1, <1>2, <1>3, <1>4, <1>5, <1>6 DEF FrontStep

LEMMA HeadFacts ==
    ASSUME inbox \in Seq(Event), inbox # <<>>
    PROVE  /\ Head(inbox) \in Event /\ Tail(inbox) \in Seq(Event)
           /\ Head(inbox).kind \in {"front", "down", "login", "sub", "unsub", "depth"}
           /\ Head(inbox).kind \in {"sub", "unsub", "depth"} => Head(inbox).inst \in Insts
           /\ Head(inbox).kind \in {"login", "sub"} => Head(inbox).ok \in BOOLEAN
<1>1. Head(inbox) \in Event /\ Tail(inbox) \in Seq(Event)
  OBVIOUS
<1> QED
  BY <1>1 DEF Event

LEMMA DrainTypes == GwTypeOK /\ Drain => GwTypeOK'
<1> SUFFICES ASSUME GwTypeOK, Drain PROVE GwTypeOK'
  OBVIOUS
<1> USE DEF GwTypeOK, callVars, histVars, Answered
<1>0. inbox # <<>>
  BY DEF Drain, OnFront, OnDown, OnLogin, OnSub, OnUnsub, OnDepth, Handle
<1>1. /\ Head(inbox) \in Event /\ Tail(inbox) \in Seq(Event)
      /\ Head(inbox).kind \in {"sub", "unsub", "depth"} => Head(inbox).inst \in Insts
      /\ Head(inbox).kind \in {"login", "sub"} => Head(inbox).ok \in BOOLEAN
  BY <1>0, HeadFacts
<1>2. Resubscribe \in SUBSET Insts /\ {} \in SUBSET Insts
  BY DEF Resubscribe, Known, Listed
<1>3. api = None => link = "off"
  OBVIOUS
<1>4. CASE OnFront
  <2>1. reqs' \in Seq(Request) /\ (link = "off" => reqs' = reqs)
    <3>1. CASE Send("login", {})
      BY <1>2, <3>1, SendFacts DEF Extends
    <3>2. CASE reqs' = reqs
      BY <3>2
    <3> QED
      BY <1>4, <3>1, <3>2 DEF OnFront
  <2> QED
    BY <1>1, <1>4, <2>1 DEF OnFront, Handle, AnotherSession, States
<1>5. CASE OnDown
  BY <1>1, <1>5 DEF OnDown, Handle, States
<1>6. CASE OnLogin
  <2>1. reqs' \in Seq(Request) /\ (link = "off" => reqs' = reqs)
    <3>1. CASE Send("sub", Resubscribe)
      BY <1>2, <3>1, SendFacts DEF Extends
    <3>2. CASE reqs' = reqs
      BY <3>2
    <3> QED
      BY <1>6, <3>1, <3>2 DEF OnLogin
  <2> QED
    BY <1>1, <1>6, <2>1 DEF OnLogin, Handle, States
<1>7. CASE OnSub
  <2>1. Head(inbox).inst \in Insts /\ Head(inbox).ok \in BOOLEAN
    BY <1>1, <1>7 DEF OnSub, Handle
  <2> QED
    BY <1>1, <1>7, <2>1 DEF OnSub, Handle, States
<1>8. CASE OnUnsub
  BY <1>1, <1>8 DEF OnUnsub, Handle
<1>9. CASE OnDepth
  BY <1>1, <1>9 DEF OnDepth, Handle
<1> QED
  BY <1>4, <1>5, <1>6, <1>7, <1>8, <1>9 DEF Drain

LEMMA Nobody == "nobody" \notin Actors /\ Main \in Actors /\ Main \notin Conns
  BY ActorsAssumption DEF ActorsAssumption, Actors, Main

LEMMA CommandTypes ==
    ASSUME NEW c \in Conns, GwTypeOK, Command(c) PROVE GwTypeOK'
<1> USE DEF GwTypeOK
<1>0. c \in Actors /\ Conns \subseteq Actors /\ Main \in Actors /\ None \in Clients \cup {None}
  BY DEF Actors
<1>1. CASE ConnectRefused(c)
  BY <1>0, <1>1 DEF ConnectRefused, Commanded, ClientKept, procVars, histVars, Clients, None
<1>2. CASE Disconnect(c)
  BY <1>0, <1>2 DEF Disconnect, Leave, Commanded, natVars, rtVars, archVars, procVars,
     histVars
<1>3. CASE ConnectionLost(c)
  <2>1. /\ at' = [at EXCEPT ![c] = "idle"] /\ call' = [call EXCEPT ![c] = "none"]
        /\ rel' = [rel EXCEPT ![c] = None]
        /\ holder' = IF holder = c THEN "nobody" ELSE holder
        /\ taken' = (taken /\ holder # c)
    BY <1>3 DEF ConnectionLost, LockReleased
  <2>2. \A b \in Actors : at'[b] = "storing" <=> holder' = b
    BY <1>0, <2>1, Nobody
  <2>3. /\ at' \in [Actors -> {"idle", "releasing", "waiting", "storing"}]
        /\ call' \in [Actors -> {"none", "connect", "disconnect", "shutdown"}]
        /\ rel' \in [Actors -> Clients \cup {None}]
        /\ holder' \in Actors \cup {"nobody"}
    BY <1>0, <2>1
  <2>4. taken' \in BOOLEAN /\ (taken' => holder' # "nobody")
    BY <2>1
  <2> QED
    BY <1>3, <2>2, <2>3, <2>4 DEF ConnectionLost, natVars, rtVars, procVars, histVars
<1>4. ASSUME NEW S \in SUBSET Insts, Connect(c, S) PROVE GwTypeOK'
  <2>1. api' \in Clients /\ client' = api'
    BY <1>4 DEF Connect, Unused
  <2> QED
    BY <1>4, <2>1 DEF Connect, callVars, procVars, histVars, States, Clients, None
<1>5. ASSUME NEW S \in SUBSET Insts, Subscribe(c, S) PROVE GwTypeOK'
  <2>1. S \ Known \in SUBSET Insts
    OBVIOUS
  <2>2. reqs' \in Seq(Request) /\ (link = "off" => reqs' = reqs)
    <3>1. CASE Send("sub", S \ Known)
      BY <2>1, <3>1, SendFacts DEF Extends
    <3>2. CASE reqs' = reqs
      BY <3>2
    <3> QED
      BY <1>5, <3>1, <3>2 DEF Subscribe
  <2> QED
    BY <1>5, <2>2 DEF Subscribe, archVars, callVars, procVars, histVars
<1>6. ASSUME NEW S \in SUBSET Insts, Unsubscribe(c, S) PROVE GwTypeOK'
  <2>1. S \cap Known \in SUBSET Insts
    OBVIOUS
  <2>2. reqs' \in Seq(Request) /\ (link = "off" => reqs' = reqs)
    <3>1. CASE Send("unsub", S \cap Known)
      BY <2>1, <3>1, SendFacts DEF Extends
    <3>2. CASE reqs' = reqs
      BY <3>2
    <3> QED
      BY <1>6, <3>1, <3>2 DEF Unsubscribe
  <2> QED
    BY <1>6, <2>2 DEF Unsubscribe, archVars, callVars, procVars, histVars
<1> QED
  BY <1>1, <1>2, <1>3, <1>4, <1>5, <1>6 DEF Command

LEMMA FinishTypes ==
    ASSUME NEW a \in Actors, NEW failed \in BOOLEAN, GwTypeOK, Finish(a, failed)
    PROVE  /\ at' = [at EXCEPT ![a] = "idle"]
           /\ at' \in [Actors -> {"idle", "releasing", "waiting", "storing"}]
           /\ call' \in [Actors -> {"none", "connect", "disconnect", "shutdown"}]
           /\ batch' \in BOOLEAN /\ creds' \in BOOLEAN /\ failure' \in BOOLEAN
           /\ state' \in States
           /\ insts' \in [Insts -> {"none", "subscribing", "streaming", "failed"}]
           /\ proc' \in {"run", "stopping", "stopped", "dead"}
           /\ UNCHANGED <<client, rel, threads, closing, busy, natVars, inbox, histVars>>
<1> USE DEF Finish
<1>1. /\ at' \in [Actors -> {"idle", "releasing", "waiting", "storing"}]
      /\ call' \in [Actors -> {"none", "connect", "disconnect", "shutdown"}]
  BY DEF GwTypeOK
<1>2. batch' \in BOOLEAN /\ failure' \in BOOLEAN
  OBVIOUS
<1>3. creds' \in BOOLEAN
  BY DEF GwTypeOK
<1>4. /\ state' \in States
      /\ insts' \in [Insts -> {"none", "subscribing", "streaming", "failed"}]
      /\ proc' \in {"run", "stopping", "stopped", "dead"}
  BY DEF GwTypeOK, States
<1> QED
  BY <1>1, <1>2, <1>3, <1>4

LEMMA ProgressTypes ==
    ASSUME NEW a \in Actors, GwTypeOK, Progress(a) PROVE GwTypeOK'
<1> USE DEF GwTypeOK
<1>0. a # "nobody" /\ None \in Clients \cup {None}
  BY Nobody
<1>1. CASE ReleaseReturn(a)
  BY <1>0, <1>1 DEF ReleaseReturn, natVars, archVars, procVars, histVars
<1>2. CASE FinalizeStart(a)
  <2>1. /\ at' = [at EXCEPT ![a] = "storing"] /\ holder' = a /\ holder = "nobody"
        /\ taken' = rows /\ rows' = FALSE
    BY <1>2 DEF FinalizeStart, BuffersTaken
  <2>2. \A b \in Actors : at'[b] = "storing" <=> holder' = b
    BY <2>1, Nobody
  <2>3. at' \in [Actors -> {"idle", "releasing", "waiting", "storing"}]
    BY <2>1
  <2>4. {taken', rows'} \subseteq BOOLEAN /\ (taken' => holder' # "nobody")
    BY <1>0, <2>1
  <2> QED
    BY <1>2, <2>1, <2>2, <2>3, <2>4 DEF FinalizeStart, natVars, rtVars, procVars, histVars
<1>3. CASE FinalizeSkip(a)
  <2> HIDE DEF GwTypeOK
  <2>1. Finish(a, FALSE) /\ at[a] = "waiting" /\ UNCHANGED archVars
    BY <1>3 DEF FinalizeSkip
  <2>2. at' = [at EXCEPT ![a] = "idle"]
    BY <2>1 DEF Finish
  <2> QED
    BY <2>1, <2>2, FinishTypes DEF archVars, natVars, histVars, GwTypeOK
<1>4. CASE FinalizeOK(a)
  <2> HIDE DEF GwTypeOK
  <2>1. /\ Finish(a, FALSE) /\ at[a] = "storing"
        /\ abatch' = FALSE /\ taken' = FALSE /\ holder' = "nobody" /\ rows' = rows
    BY <1>4 DEF FinalizeOK
  <2>2. at' = [at EXCEPT ![a] = "idle"] /\ holder = a
    BY <2>1 DEF Finish, GwTypeOK
  <2>3. \A b \in Actors : at'[b] = "storing" <=> holder' = b
    BY <2>1, <2>2, Nobody DEF GwTypeOK
  <2>4. {rows', abatch', taken'} \subseteq BOOLEAN
    BY <2>1 DEF GwTypeOK
  <2>5. /\ at' \in [Actors -> {"idle", "releasing", "waiting", "storing"}]
        /\ call' \in [Actors -> {"none", "connect", "disconnect", "shutdown"}]
        /\ batch' \in BOOLEAN /\ creds' \in BOOLEAN /\ failure' \in BOOLEAN
        /\ state' \in States
        /\ insts' \in [Insts -> {"none", "subscribing", "streaming", "failed"}]
        /\ proc' \in {"run", "stopping", "stopped", "dead"}
        /\ UNCHANGED <<client, rel, threads, closing, busy, natVars, inbox, histVars>>
    BY <2>1, FinishTypes
  <2>6. holder' = "nobody" /\ ~taken'
    BY <2>1
  <2> QED
    BY <2>3, <2>4, <2>5, <2>6 DEF natVars, histVars, GwTypeOK
<1>5. CASE FinalizeFails(a)
  <2> HIDE DEF GwTypeOK
  <2>1. /\ Finish(a, TRUE) /\ at[a] = "storing" /\ rows' \in {rows, rows \/ taken}
        /\ abatch' = abatch /\ taken' = FALSE /\ holder' = "nobody"
    BY <1>5 DEF FinalizeFails, LockReleased
  <2>2. at' = [at EXCEPT ![a] = "idle"] /\ holder = a
    BY <2>1 DEF Finish, GwTypeOK
  <2>3. \A b \in Actors : at'[b] = "storing" <=> holder' = b
    BY <2>1, <2>2, Nobody DEF GwTypeOK
  <2>4. {rows', abatch', taken'} \subseteq BOOLEAN
    BY <2>1 DEF GwTypeOK
  <2>5. /\ at' \in [Actors -> {"idle", "releasing", "waiting", "storing"}]
        /\ call' \in [Actors -> {"none", "connect", "disconnect", "shutdown"}]
        /\ batch' \in BOOLEAN /\ creds' \in BOOLEAN /\ failure' \in BOOLEAN
        /\ state' \in States
        /\ insts' \in [Insts -> {"none", "subscribing", "streaming", "failed"}]
        /\ proc' \in {"run", "stopping", "stopped", "dead"}
        /\ UNCHANGED <<client, rel, threads, closing, busy, natVars, inbox, histVars>>
    BY <2>1, FinishTypes
  <2>6. holder' = "nobody" /\ ~taken'
    BY <2>1
  <2> QED
    BY <2>3, <2>4, <2>5, <2>6 DEF natVars, histVars, GwTypeOK
<1> QED
  BY <1>1, <1>2, <1>3, <1>4, <1>5 DEF Progress

LEMMA OtherTypes ==
    /\ GwTypeOK /\ Flush => GwTypeOK'
    /\ GwTypeOK /\ StopRequested => GwTypeOK'
    /\ GwTypeOK /\ Shutdown => GwTypeOK'
    /\ \A k \in Clients : GwTypeOK /\ ReleaseNative(k) => GwTypeOK'
<1> USE DEF GwTypeOK, natVars, rtVars, archVars, callVars, histVars
<1>1. ASSUME GwTypeOK, Flush PROVE GwTypeOK'
  BY <1>1 DEF Flush, procVars
<1>2. ASSUME GwTypeOK, StopRequested PROVE GwTypeOK'
  BY <1>2 DEF StopRequested
<1>3. ASSUME GwTypeOK, Shutdown PROVE GwTypeOK'
  <2>1. Main \in Actors
    BY DEF Actors
  <2> QED
    BY <1>3, <2>1 DEF Shutdown, Leave, procVars
<1>4. ASSUME NEW k \in Clients, GwTypeOK, ReleaseNative(k) PROVE GwTypeOK'
  <2>1. threads' \subseteq Clients
    BY <1>4 DEF ReleaseNative
  <2>2. CASE api = k
    <3>1. /\ api' = None /\ link' = "off" /\ subs' = {} /\ reqs' = <<>> /\ dangling' = FALSE
          /\ UNCHANGED <<rtVars, archVars, at, call, rel, procVars, inbox, histVars>>
      BY <1>4, <2>2 DEF ReleaseNative
    <3>2. <<>> \in Seq(Request)
      OBVIOUS
    <3> QED
      BY <1>4, <2>1, <3>1, <3>2 DEF procVars
  <2>3. CASE api # k
    BY <1>4, <2>1, <2>3 DEF ReleaseNative, procVars
  <2> QED
    BY <2>2, <2>3
<1> QED
  BY <1>1, <1>2, <1>3, <1>4

LEMMA TypeStep == GwTypeOK /\ [Next]_vars => GwTypeOK'
<1> SUFFICES ASSUME GwTypeOK, [Next]_vars PROVE GwTypeOK'
  OBVIOUS
<1>1. CASE UNCHANGED vars
  BY <1>1 DEF GwTypeOK, vars, natVars, rtVars, archVars, callVars, procVars, histVars
<1>2. CASE Next
  BY <1>2, FrontTypes, DrainTypes, CommandTypes, ProgressTypes, OtherTypes DEF Next
<1> QED
  BY <1>1, <1>2

LEMMA TypeInit == Init => GwTypeOK
<1> SUFFICES ASSUME Init PROVE GwTypeOK
  OBVIOUS
<1>1. <<>> \in Seq(Request) /\ <<>> \in Seq(Event)
  OBVIOUS
<1>2. \A a \in Actors : at[a] = "storing" <=> holder = a
  BY Nobody DEF Init
<1> QED
  BY <1>1, <1>2 DEF Init, GwTypeOK, States

(* Every field of the gateway, its native client and its archiver keeps    *)
(* its type; whoever is in the middle of a finalize() holds the archiver's *)
(* lock, and nobody else does (archiver.py finalize, process.py).          *)
THEOREM GwTypeCorrect == Spec => []GwTypeOK
<1>1. GwTypeOK /\ [Next]_vars => GwTypeOK'
  BY TypeStep
<1> QED
  BY <1>1, TypeInit, PTL DEF Spec

-----------------------------------------------------------------------------
(* What the steps of the front and of the drain task leave alone. *)
LEMMA FrontKeeps ==
    FrontStep \/ (\E i \in Insts : Depth(i))
      => /\ Alive /\ UNCHANGED <<api, rtVars, archVars, callVars, failure, histVars>>
         /\ proc' \in {proc, "dead"}
<1> USE DEF Callback, Post, CallbackGone
<1>1. FrontUp \/ LinkDrop \/ AnswerUnsub
        => /\ Alive /\ UNCHANGED <<api, rtVars, archVars, callVars, failure, histVars>>
           /\ proc' \in {proc, "dead"}
  BY DEF FrontUp, LinkDrop, AnswerUnsub
<1>2. ASSUME NEW ok \in BOOLEAN, AnswerLogin(ok) \/ AnswerSub(ok)
      PROVE  /\ Alive /\ UNCHANGED <<api, rtVars, archVars, callVars, failure, histVars>>
             /\ proc' \in {proc, "dead"}
  BY <1>2 DEF AnswerLogin, AnswerSub
<1>3. ASSUME NEW i \in Insts, Depth(i)
      PROVE  /\ Alive /\ UNCHANGED <<api, rtVars, archVars, callVars, failure, histVars>>
             /\ proc' \in {proc, "dead"}
  BY <1>3 DEF Depth
<1> QED
  BY <1>1, <1>2, <1>3 DEF FrontStep

LEMMA DrainKeeps ==
    Drain => /\ Draining /\ inbox # <<>> /\ inbox' = Tail(inbox)
             /\ UNCHANGED <<api, link, subs, creds, client, batch, abatch, taken, holder,
                            callVars, proc, closing>>
  BY DEF Drain, OnFront, OnDown, OnLogin, OnSub, OnUnsub, OnDepth, Handle

(* What every command needs. *)
LEMMA CommandKeeps ==
    ASSUME NEW c \in Conns, Command(c)
    PROVE  Alive /\ proc' = proc
  BY DEF Command, ConnectRefused, Disconnect, ConnectionLost, Connect, Subscribe,
     Unsubscribe, Commanded, LoopFree, procVars

LEMMA TasksStep == GwTypeOK /\ TasksInv /\ [Next]_vars => TasksInv'
<1> SUFFICES ASSUME GwTypeOK, TasksInv, [Next]_vars PROVE TasksInv'
  OBVIOUS
<1> USE DEF TasksInv, ShutdownFlag, CallKinds, StoringBatch
<1>a. /\ at \in [Actors -> {"idle", "releasing", "waiting", "storing"}]
      /\ call \in [Actors -> {"none", "connect", "disconnect", "shutdown"}]
      /\ \A a \in Actors : at[a] = "storing" <=> holder = a
  BY DEF GwTypeOK
<1>b. Conns \subseteq Actors
  BY DEF Actors
<1>1. CASE UNCHANGED vars
  BY <1>1 DEF vars, archVars, callVars, procVars
<1>2. CASE FrontStep \/ \E i \in Insts : Depth(i)
  BY <1>2, FrontKeeps DEF archVars, callVars
<1>3. CASE Drain
  BY <1>3, DrainKeeps DEF callVars
<1>4. ASSUME NEW c \in Conns, Command(c) PROVE TasksInv'
  <2>0. c # Main /\ c \in Actors
    BY Nobody, <1>b
  <2>1. CASE ConnectRefused(c)
    BY <1>a, <1>b, <2>0, <2>1 DEF ConnectRefused, procVars
  <2>2. CASE Disconnect(c)
    BY <1>a, <1>b, <2>0, <2>2 DEF Disconnect, Leave, archVars, procVars
  <2>3. CASE ConnectionLost(c)
    BY <1>a, <1>b, <2>0, <2>3 DEF ConnectionLost, procVars
  <2>4. ASSUME NEW S \in SUBSET Insts, Connect(c, S) \/ Subscribe(c, S) \/ Unsubscribe(c, S)
        PROVE  TasksInv'
    <3>1. UNCHANGED <<callVars, proc>> /\ (abatch => abatch')
      BY <2>4 DEF Connect, Subscribe, Unsubscribe, archVars, procVars
    <3> QED
      BY <3>1 DEF callVars
  <2> QED
    BY <1>4, <2>1, <2>2, <2>3, <2>4 DEF Command
<1>5. ASSUME NEW k \in Clients, ReleaseNative(k) PROVE TasksInv'
  BY <1>5 DEF ReleaseNative, archVars, procVars
<1>6. ASSUME NEW a \in Actors, Progress(a) PROVE TasksInv'
  <2>1. CASE ReleaseReturn(a)
    BY <1>a, <1>b, <1>6, <2>1 DEF ReleaseReturn, archVars, procVars
  <2>2. CASE FinalizeStart(a)
    <3>1. /\ at' = [at EXCEPT ![a] = "storing"] /\ UNCHANGED <<call, abatch, proc>>
          /\ at[a] = "waiting" /\ abatch
      BY <2>2 DEF FinalizeStart, NothingToStore, procVars
    <3> QED
      BY <1>a, <1>b, <1>6, <3>1
  <2>3. ASSUME NEW failed \in BOOLEAN, Finish(a, failed), abatch' # abatch => holder = a
        PROVE  TasksInv'
    <3>1. /\ at' = [at EXCEPT ![a] = "idle"] /\ call' = [call EXCEPT ![a] = "none"]
          /\ proc' = IF call[a] = "shutdown" THEN "stopped" ELSE proc
      BY <2>3 DEF Finish
    <3>2. \A b \in Actors : b # a => at'[b] = at[b] /\ call'[b] = call[b]
      BY <1>a, <1>6, <3>1
    <3>3. at'[a] = "idle"
      BY <1>a, <1>6, <3>1
    <3>4. ShutdownFlag'
      BY <3>1, <3>2, <3>3, Nobody
    <3>5. CallKinds'
      BY <1>b, <3>2, <3>3
    <3>6. StoringBatch'
      BY <1>a, <2>3, <3>2, <3>3
    <3> QED
      BY <3>4, <3>5, <3>6
  <2>4. CASE FinalizeSkip(a)
    <3>1. Finish(a, FALSE) /\ abatch' = abatch
      BY <2>4 DEF FinalizeSkip, archVars
    <3> QED
      BY <2>3, <3>1
  <2>5. CASE FinalizeOK(a)
    <3>1. Finish(a, FALSE) /\ holder = a
      BY <1>a, <1>6, <2>5 DEF FinalizeOK
    <3> QED
      BY <2>3, <3>1
  <2>6. CASE FinalizeFails(a)
    <3>1. Finish(a, TRUE) /\ abatch' = abatch
      BY <2>6 DEF FinalizeFails
    <3> QED
      BY <2>3, <3>1
  <2> QED
    BY <1>6, <2>1, <2>2, <2>4, <2>5, <2>6 DEF Progress
<1>7. CASE Flush
  BY <1>7 DEF Flush, callVars, procVars
<1>8. CASE StopRequested
  BY <1>8 DEF StopRequested, archVars, callVars
<1>9. CASE Shutdown
  BY <1>a, <1>b, <1>9, Nobody DEF Shutdown, Leave, archVars, procVars
<1> QED
  BY <1>1, <1>2, <1>3, <1>4, <1>5, <1>6, <1>7, <1>8, <1>9 DEF Next

-----------------------------------------------------------------------------
(* The queue of events, by position. *)
Grown(e) ==
    /\ inbox' \in Seq(Event) /\ Len(inbox) \in Nat /\ Len(inbox') = Len(inbox) + 1
    /\ DOMAIN inbox = 1..Len(inbox) /\ DOMAIN inbox' = 1..(Len(inbox) + 1)
    /\ inbox'[Len(inbox) + 1] = e
    /\ \A n \in 1..Len(inbox) : inbox'[n] = inbox[n]
Shrunk ==
    /\ inbox' \in Seq(Event) /\ Len(inbox) \in Nat /\ Len(inbox) > 0
    /\ Len(inbox') = Len(inbox) - 1
    /\ DOMAIN inbox = 1..Len(inbox) /\ DOMAIN inbox' = 1..(Len(inbox) - 1)
    /\ inbox[1] = Head(inbox)
    /\ \A n \in 1..(Len(inbox) - 1) : inbox'[n] = inbox[n + 1]

LEMMA GrownFacts ==
    ASSUME inbox \in Seq(Event), NEW e \in Event, inbox' = Append(inbox, e)
    PROVE  Grown(e)
  BY DEF Grown

LEMMA ShrunkFacts ==
    ASSUME inbox \in Seq(Event), inbox # <<>>, inbox' = Tail(inbox)
    PROVE  Shrunk
  BY DEF Shrunk

(* The answers to requests: the first request is gone. *)
FirstAnswered(r) ==
    /\ reqs' \in Seq(Request) /\ Len(reqs) \in Nat /\ Len(reqs) > 0
    /\ Len(reqs') = Len(reqs) - 1
    /\ DOMAIN reqs = 1..Len(reqs) /\ DOMAIN reqs' = 1..(Len(reqs) - 1)
    /\ reqs[1] = r
    /\ \A n \in 1..(Len(reqs) - 1) : reqs'[n] = reqs[n + 1]

LEMMA AnsweredFacts ==
    ASSUME reqs \in Seq(Request), reqs # <<>>, reqs' = Tail(reqs)
    PROVE  FirstAnswered(Head(reqs)) /\ Head(reqs) \in Request
  BY DEF FirstAnswered

(* A step of the front, seen from the event it queues. *)
Announces(e) ==
    e.kind = "front" /\ api # None /\ link = "off" /\ link' = "up" /\ UNCHANGED <<subs, reqs>>
Drops(e) == e.kind = "down" /\ link # "off" /\ link' = "off" /\ subs' = {} /\ reqs' = <<>>
AnswersLogin(e) == \E r \in Request :
    /\ FirstAnswered(r) /\ r.kind = "login" /\ e.kind = "login" /\ e.ok \in BOOLEAN
    /\ link' = (IF e.ok THEN "logged" ELSE link) /\ subs' = subs
AnswersSub(e) == \E r \in Request :
    /\ FirstAnswered(r) /\ r.kind = "sub" /\ r.inst \in Insts
    /\ e.kind = "sub" /\ e.inst = r.inst /\ e.ok \in BOOLEAN /\ (e.ok => link = "logged")
    /\ subs' = (IF e.ok THEN subs \cup {r.inst} ELSE subs) /\ link' = link
AnswersUnsub(e) == \E r \in Request :
    /\ FirstAnswered(r) /\ r.kind = "unsub" /\ r.inst \in Insts
    /\ e.kind = "unsub" /\ e.inst = r.inst
    /\ subs' = subs \ {r.inst} /\ link' = link
Pushes(e) == e.kind = "depth" /\ e.inst \in subs /\ UNCHANGED <<link, subs, reqs>>
FrontEvent(e) ==
    \/ Announces(e) \/ Drops(e) \/ AnswersLogin(e)
    \/ AnswersSub(e) \/ AnswersUnsub(e) \/ Pushes(e)

LEMMA FrontEvents ==
    ASSUME GwTypeOK, FrontStep \/ \E i \in Insts : Depth(i), Alive'
    PROVE  \E e \in Event : Grown(e) /\ FrontEvent(e)
<1>a. inbox \in Seq(Event) /\ reqs \in Seq(Request)
  BY DEF GwTypeOK
<1>b. ASSUME NEW e \in Event, Callback(e) PROVE Grown(e)
  <2>1. inbox' = Append(inbox, e)
    BY <1>b DEF Callback, Post, CallbackGone, Alive
  <2> QED
    BY <1>a, <2>1, GrownFacts
<1>c. reqs # <<>> /\ reqs' = Tail(reqs) => FirstAnswered(Head(reqs)) /\ Head(reqs) \in Request
  BY <1>a, AnsweredFacts
<1> USE DEF FrontEvent
<1>1. CASE FrontUp
  <2>1. [kind |-> "front"] \in Event /\ Callback([kind |-> "front"])
    BY <1>1 DEF FrontUp, Event
  <2>2. Announces([kind |-> "front"])
    BY <1>1 DEF FrontUp, Announces
  <2> QED
    BY <1>b, <2>1, <2>2
<1>2. CASE LinkDrop
  <2>1. [kind |-> "down"] \in Event /\ Callback([kind |-> "down"])
    BY <1>2 DEF LinkDrop, Event
  <2>2. Drops([kind |-> "down"])
    BY <1>2 DEF LinkDrop, Drops
  <2> QED
    BY <1>b, <2>1, <2>2
<1>3. CASE AnswerUnsub
  <2> DEFINE e == [kind |-> "unsub", inst |-> Head(reqs).inst]
  <2>1. FirstAnswered(Head(reqs)) /\ Head(reqs) \in Request /\ Head(reqs).kind = "unsub"
    BY <1>3, <1>c DEF AnswerUnsub
  <2>2. Head(reqs).inst \in Insts
    BY <2>1 DEF Request
  <2>3. e \in Event /\ Callback(e)
    BY <1>3, <2>2 DEF AnswerUnsub, Event
  <2>4. AnswersUnsub(e)
    BY <1>3, <2>1, <2>2 DEF AnswerUnsub, AnswersUnsub
  <2> QED
    BY <1>b, <2>3, <2>4
<1>4. ASSUME NEW ok \in BOOLEAN, AnswerLogin(ok)
      PROVE  \E e \in Event : Grown(e) /\ FrontEvent(e)
  <2> DEFINE e == [kind |-> "login", ok |-> ok]
  <2>1. FirstAnswered(Head(reqs)) /\ Head(reqs) \in Request /\ Head(reqs).kind = "login"
    BY <1>4, <1>c DEF AnswerLogin
  <2>2. e \in Event /\ Callback(e)
    BY <1>4 DEF AnswerLogin, Event
  <2>3. AnswersLogin(e)
    BY <1>4, <2>1 DEF AnswerLogin, AnswersLogin
  <2> QED
    BY <1>b, <2>2, <2>3
<1>5. ASSUME NEW ok \in BOOLEAN, AnswerSub(ok)
      PROVE  \E e \in Event : Grown(e) /\ FrontEvent(e)
  <2> DEFINE e == [kind |-> "sub", inst |-> Head(reqs).inst, ok |-> ok]
  <2>1. FirstAnswered(Head(reqs)) /\ Head(reqs) \in Request /\ Head(reqs).kind = "sub"
    BY <1>5, <1>c DEF AnswerSub
  <2>2. Head(reqs).inst \in Insts
    BY <2>1 DEF Request
  <2>3. e \in Event /\ Callback(e)
    BY <1>5, <2>2 DEF AnswerSub, Event
  <2>4. AnswersSub(e)
    BY <1>5, <2>1, <2>2 DEF AnswerSub, AnswersSub
  <2> QED
    BY <1>b, <2>3, <2>4
<1>6. ASSUME NEW i \in Insts, Depth(i)
      PROVE  \E e \in Event : Grown(e) /\ FrontEvent(e)
  <2> DEFINE e == [kind |-> "depth", inst |-> i]
  <2>1. e \in Event /\ Callback(e) /\ Pushes(e)
    BY <1>6 DEF Depth, Event, Pushes
  <2> QED
    BY <1>b, <2>1
<1> QED
  BY <1>1, <1>2, <1>3, <1>4, <1>5, <1>6 DEF FrontStep

LEMMA DrainShrinks == GwTypeOK /\ Drain => Shrunk
  BY DrainKeeps, ShrunkFacts DEF GwTypeOK

(* The other steps, seen from the front: they leave it, the queue and what *)
(* the runtime shows alone.                                                *)
Aside ==
    \/ \E c \in Conns : Disconnect(c) \/ ConnectionLost(c)
    \/ \E a \in Actors : ReleaseReturn(a) \/ FinalizeStart(a)
    \/ Flush \/ StopRequested \/ Shutdown
Ending(a) == FinalizeSkip(a) \/ FinalizeOK(a) \/ FinalizeFails(a)

LEMMA AsideKeeps ==
    Aside => /\ UNCHANGED <<natVars, inbox, state, insts, creds, histVars>> /\ Alive
             /\ (proc' \in {"run", "stopping"})
<1>1. ASSUME NEW c \in Conns, Disconnect(c) \/ ConnectionLost(c)
      PROVE  UNCHANGED <<natVars, inbox, state, insts, creds, histVars, proc>> /\ Alive
  BY <1>1 DEF Disconnect, ConnectionLost, Commanded, LoopFree, rtVars, procVars
<1>2. ASSUME NEW a \in Actors, ReleaseReturn(a) \/ FinalizeStart(a)
      PROVE  UNCHANGED <<natVars, inbox, state, insts, creds, histVars, proc>> /\ Alive
  BY <1>2 DEF ReleaseReturn, FinalizeStart, LoopFree, rtVars, procVars
<1>3. CASE Flush \/ StopRequested \/ Shutdown
  BY <1>3 DEF Flush, StopRequested, Shutdown, Alive, rtVars, procVars
<1> QED
  BY <1>1, <1>2, <1>3 DEF Aside, Alive

LEMMA EndingKeeps ==
    ASSUME NEW a \in Actors, Ending(a)
    PROVE  /\ UNCHANGED <<natVars, inbox, client, rel, threads, histVars>> /\ LoopFree
           /\ at' = [at EXCEPT ![a] = "idle"] /\ call' = [call EXCEPT ![a] = "none"]
           /\ at[a] \in {"waiting", "storing"}
           /\ IF call[a] = "disconnect"
                THEN state' = "idle" /\ creds' = FALSE /\ insts' = [i \in Insts |-> "none"]
                ELSE UNCHANGED <<state, creds, insts>>
  BY DEF Ending, FinalizeSkip, FinalizeOK, FinalizeFails, Finish

LEMMA NextParts ==
    Next => \/ FrontStep \/ \E i \in Insts : Depth(i)
            \/ Drain
            \/ \E c \in Conns : ConnectRefused(c)
            \/ \E c \in Conns, S \in SUBSET Insts :
                 Connect(c, S) \/ Subscribe(c, S) \/ Unsubscribe(c, S)
            \/ \E k \in Clients : ReleaseNative(k)
            \/ \E a \in Actors : Ending(a)
            \/ Aside
  BY DEF Next, Command, Progress, Ending, Aside

(* A process that ended stays ended, and a drain task that was cancelled   *)
(* stays cancelled.                                                        *)
LEMMA AliveKept == [Next]_vars /\ Alive' => Alive
<1> SUFFICES ASSUME [Next]_vars, Alive' PROVE Alive
  OBVIOUS
<1>1. CASE UNCHANGED vars
  BY <1>1 DEF vars, procVars, Alive
<1>2. CASE Next
  <2>1. ASSUME NEW c \in Conns, NEW S \in SUBSET Insts,
               ConnectRefused(c) \/ Connect(c, S) \/ Subscribe(c, S) \/ Unsubscribe(c, S)
        PROVE  Alive
    BY <2>1 DEF ConnectRefused, Connect, Subscribe, Unsubscribe, Commanded, LoopFree
  <2>2. ASSUME NEW k \in Clients, ReleaseNative(k) PROVE Alive
    BY <2>2 DEF ReleaseNative, procVars, Alive
  <2> QED
    BY <1>2, <2>1, <2>2, NextParts, FrontKeeps, DrainKeeps, AsideKeeps, EndingKeeps
       DEF Draining, LoopFree
<1> QED
  BY <1>1, <1>2


-----------------------------------------------------------------------------
(* The front and its session. *)
LEMMA FrontInvEvent ==
    ASSUME GwTypeOK, FrontInv, NEW e \in Event, Grown(e), FrontEvent(e), api' = api
    PROVE  FrontInv'
<1> USE DEF FrontInv
<1>1. OffIsEmpty'
  BY DEF OffIsEmpty, PushedWhenLogged, FrontEvent, Announces, Drops, AnswersLogin, AnswersSub,
     AnswersUnsub, Pushes, FirstAnswered, GwTypeOK
<1>2. PushedWhenLogged'
  BY DEF OffIsEmpty, PushedWhenLogged, FrontEvent, Announces, Drops, AnswersLogin, AnswersSub,
     AnswersUnsub, Pushes, FirstAnswered, GwTypeOK
<1>3. CASE Announces(e)
  <2>1. FrontsApart'
    <3> SUFFICES ASSUME NEW m \in DOMAIN inbox', NEW n \in DOMAIN inbox', m < n,
                        inbox'[m].kind = "front", inbox'[n].kind = "front"
                 PROVE  \E k \in DOMAIN inbox' : m < k /\ k < n /\ inbox'[k].kind = "down"
      BY DEF FrontsApart
    <3>1. m \in DOMAIN inbox /\ inbox[m].kind = "front"
      BY DEF Grown
    <3>2. CASE n \in DOMAIN inbox
      BY <3>1, <3>2 DEF FrontsApart, Grown
    <3>3. CASE n \notin DOMAIN inbox
      <4>1. PICK k \in DOMAIN inbox : k > m /\ inbox[k].kind = "down"
        BY <1>3, <3>1 DEF OffIsAnnounced, Announces, DownAfter
      <4> QED
        BY <3>3, <4>1 DEF Grown
    <3> QED
      BY <3>2, <3>3
  <2>2. OffIsAnnounced'
    BY <1>3 DEF OffIsAnnounced, Announces
  <2> QED
    BY <1>1, <1>2, <2>1, <2>2
<1>4. CASE e.kind # "front"
  <2>1. FrontsApart'
    <3> SUFFICES ASSUME NEW m \in DOMAIN inbox', NEW n \in DOMAIN inbox', m < n,
                        inbox'[m].kind = "front", inbox'[n].kind = "front"
                 PROVE  \E k \in DOMAIN inbox' : m < k /\ k < n /\ inbox'[k].kind = "down"
      BY DEF FrontsApart
    <3>1. m \in DOMAIN inbox /\ n \in DOMAIN inbox
      BY <1>4 DEF Grown
    <3> QED
      BY <3>1 DEF FrontsApart, Grown
  <2>2. OffIsAnnounced'
    <3>1. CASE Drops(e)
      <4> SUFFICES ASSUME NEW m \in DOMAIN inbox', inbox'[m].kind = "front"
                   PROVE  DownAfter(m)'
        BY DEF OffIsAnnounced
      <4>1. Len(inbox) + 1 \in DOMAIN inbox' /\ inbox'[Len(inbox) + 1].kind = "down"
        BY <3>1 DEF Grown, Drops
      <4>2. m < Len(inbox) + 1
        BY <1>4 DEF Grown
      <4> QED
        BY <4>1, <4>2 DEF DownAfter
    <3>2. CASE ~Drops(e)
      <4>1. link' # "off"
        BY <1>4, <3>2 DEF FrontEvent, Announces, AnswersLogin, AnswersSub, AnswersUnsub, Pushes,
           OffIsEmpty, PushedWhenLogged, FirstAnswered
      <4> QED
        BY <4>1 DEF OffIsAnnounced
    <3> QED
      BY <3>1, <3>2
  <2> QED
    BY <1>1, <1>2, <2>1, <2>2
<1> QED
  BY <1>3, <1>4 DEF FrontEvent, Announces, Drops, AnswersLogin, AnswersSub, AnswersUnsub, Pushes

(* What the drain task, or a command, can do to the open requests. *)
DrainSends ==
    \/ reqs' = reqs
    \/ OnFront /\ creds /\ client # None /\ link # "off" /\ Extends(reqs', reqs, "login", {})
    \/ /\ OnLogin /\ Answered /\ client # None /\ ~Released(client) /\ link # "off"
       /\ Extends(reqs', reqs, "sub", Resubscribe)

LEMMA DrainRequests == GwTypeOK /\ Drain => DrainSends
<1> SUFFICES ASSUME GwTypeOK, Drain PROVE DrainSends
  OBVIOUS
<1> USE DEF DrainSends
<1>a. reqs \in Seq(Request) /\ Resubscribe \in SUBSET Insts /\ {} \in SUBSET Insts
  BY DEF GwTypeOK, Resubscribe, Known, Listed
<1>1. CASE OnFront
  <2>1. CASE Send("login", {}) /\ creds /\ client # None
    <3>1. IF link = "off" THEN reqs' = reqs ELSE Extends(reqs', reqs, "login", {})
      BY <1>a, <2>1, SendFacts
    <3> QED
      BY <1>1, <2>1, <3>1
  <2> QED
    BY <1>1, <2>1 DEF OnFront
<1>2. CASE OnLogin
  <2>1. CASE Send("sub", Resubscribe) /\ Answered /\ client # None /\ ~Released(client)
    <3>1. IF link = "off" THEN reqs' = reqs ELSE Extends(reqs', reqs, "sub", Resubscribe)
      BY <1>a, <2>1, SendFacts
    <3> QED
      BY <1>2, <2>1, <3>1
  <2> QED
    BY <1>2, <2>1 DEF OnLogin
<1> QED
  BY <1>1, <1>2 DEF Drain, OnDown, OnSub, OnUnsub, OnDepth

LEMMA CommandRequests ==
    ASSUME GwTypeOK, NEW c \in Conns, NEW S \in SUBSET Insts,
           Subscribe(c, S) \/ Unsubscribe(c, S)
    PROVE  \/ reqs' = reqs
           \/ link # "off" /\ \E kind \in {"sub", "unsub"}, T \in SUBSET Insts :
                Extends(reqs', reqs, kind, T)
<1>a. reqs \in Seq(Request) /\ S \ Known \in SUBSET Insts /\ S \cap Known \in SUBSET Insts
  BY DEF GwTypeOK
<1>1. CASE Subscribe(c, S)
  <2>1. CASE Send("sub", S \ Known)
    <3>1. IF link = "off" THEN reqs' = reqs ELSE Extends(reqs', reqs, "sub", S \ Known)
      BY <1>a, <2>1, SendFacts
    <3> QED
      BY <1>a, <3>1
  <2> QED
    BY <1>1, <2>1 DEF Subscribe
<1>2. CASE Unsubscribe(c, S)
  <2>1. CASE Send("unsub", S \cap Known)
    <3>1. IF link = "off" THEN reqs' = reqs ELSE Extends(reqs', reqs, "unsub", S \cap Known)
      BY <1>a, <2>1, SendFacts
    <3> QED
      BY <1>a, <3>1
  <2> QED
    BY <1>2, <2>1 DEF Unsubscribe
<1> QED
  BY <1>1, <1>2

LEMMA FrontInvStep ==
    ASSUME GwTypeOK, FrontInv, [Next]_vars, Alive'
    PROVE  FrontInv'
<1> USE DEF FrontInv
<1>a. ASSUME UNCHANGED <<api, link, subs, reqs, inbox>> PROVE FrontInv'
  BY <1>a DEF OffIsEmpty, PushedWhenLogged, FrontsApart, OffIsAnnounced, DownAfter
<1>1. CASE UNCHANGED vars
  BY <1>a, <1>1 DEF vars, natVars
<1>2. CASE FrontStep \/ \E i \in Insts : Depth(i)
  <2>1. PICK e \in Event : Grown(e) /\ FrontEvent(e)
    BY <1>2, FrontEvents
  <2> QED
    BY <1>2, <2>1, FrontInvEvent, FrontKeeps
<1>3. CASE Drain
  <2>0. Shrunk /\ UNCHANGED <<api, link, subs>>
    BY <1>3, DrainShrinks, DrainKeeps
  <2>1. OffIsEmpty' /\ PushedWhenLogged'
    BY <1>3, <2>0, DrainRequests DEF DrainSends, OffIsEmpty, PushedWhenLogged
  <2>2. FrontsApart'
    <3> SUFFICES ASSUME NEW m \in DOMAIN inbox', NEW n \in DOMAIN inbox', m < n,
                        inbox'[m].kind = "front", inbox'[n].kind = "front"
                 PROVE  \E k \in DOMAIN inbox' : m < k /\ k < n /\ inbox'[k].kind = "down"
      BY DEF FrontsApart
    <3>1. /\ m + 1 \in DOMAIN inbox /\ n + 1 \in DOMAIN inbox /\ m + 1 < n + 1
          /\ inbox[m + 1].kind = "front" /\ inbox[n + 1].kind = "front"
      BY <2>0 DEF Shrunk
    <3>2. PICK k \in DOMAIN inbox : m + 1 < k /\ k < n + 1 /\ inbox[k].kind = "down"
      BY <3>1 DEF FrontsApart
    <3>3. k - 1 \in DOMAIN inbox' /\ (k - 1) + 1 = k /\ m < k - 1 /\ k - 1 < n
      BY <2>0, <3>2 DEF Shrunk
    <3>4. inbox'[k - 1] = inbox[k]
      BY <2>0, <3>3 DEF Shrunk
    <3> QED
      BY <3>2, <3>3, <3>4
  <2>3. OffIsAnnounced'
    <3> SUFFICES ASSUME api # None, link = "off",
                        NEW m \in DOMAIN inbox', inbox'[m].kind = "front"
                 PROVE  DownAfter(m)'
      BY <2>0 DEF OffIsAnnounced
    <3>1. m + 1 \in DOMAIN inbox /\ inbox[m + 1].kind = "front"
      BY <2>0 DEF Shrunk
    <3>2. PICK k \in DOMAIN inbox : k > m + 1 /\ inbox[k].kind = "down"
      BY <3>1 DEF OffIsAnnounced, DownAfter
    <3>3. k - 1 \in DOMAIN inbox' /\ (k - 1) + 1 = k /\ k - 1 > m
      BY <2>0, <3>2 DEF Shrunk
    <3>4. inbox'[k - 1] = inbox[k]
      BY <2>0, <3>3 DEF Shrunk
    <3> QED
      BY <3>2, <3>3, <3>4 DEF DownAfter
  <2> QED
    BY <2>1, <2>2, <2>3
<1>4. ASSUME NEW c \in Conns, ConnectRefused(c) PROVE FrontInv'
  BY <1>a, <1>4 DEF ConnectRefused
<1>5. ASSUME NEW c \in Conns, NEW S \in SUBSET Insts, Connect(c, S) PROVE FrontInv'
  BY <1>5 DEF Connect, OffIsEmpty, PushedWhenLogged, FrontsApart, OffIsAnnounced
<1>6. ASSUME NEW c \in Conns, NEW S \in SUBSET Insts, Subscribe(c, S) \/ Unsubscribe(c, S)
      PROVE  FrontInv'
  <2>1. UNCHANGED <<api, link, subs, inbox>>
    BY <1>6 DEF Subscribe, Unsubscribe
  <2> QED
    BY <1>6, <2>1, CommandRequests
       DEF OffIsEmpty, PushedWhenLogged, FrontsApart, OffIsAnnounced, DownAfter
<1>7. ASSUME NEW k \in Clients, ReleaseNative(k) PROVE FrontInv'
  <2>1. inbox' = inbox
    BY <1>7 DEF ReleaseNative
  <2>2. CASE api = k
    BY <1>7, <2>1, <2>2
       DEF ReleaseNative, OffIsEmpty, PushedWhenLogged, FrontsApart, OffIsAnnounced
  <2>3. CASE api # k
    BY <1>7, <1>a, <2>1, <2>3 DEF ReleaseNative, natVars
  <2> QED
    BY <2>2, <2>3
<1>8. ASSUME NEW a \in Actors, Ending(a) PROVE FrontInv'
  BY <1>8, <1>a, EndingKeeps DEF natVars
<1>9. CASE Aside
  BY <1>9, <1>a, AsideKeeps DEF natVars
<1> QED
  BY <1>1, <1>2, <1>3, <1>4, <1>5, <1>6, <1>7, <1>8, <1>9, NextParts

-----------------------------------------------------------------------------
(* What a session delivered, and what the runtime shows of it. *)
LEMMA DownAfterGrown ==
    ASSUME NEW e, Grown(e), NEW m \in Nat, DownAfter(m) PROVE DownAfter(m)'
<1>1. PICK k \in DOMAIN inbox : k > m /\ inbox[k].kind = "down"
  BY DEF DownAfter
<1>2. k \in DOMAIN inbox' /\ inbox'[k] = inbox[k]
  BY DEF Grown
<1> QED
  BY <1>1, <1>2 DEF DownAfter

LEMMA DownAfterShrunk ==
    ASSUME Shrunk, NEW m \in Nat, DownAfter(m + 1) PROVE DownAfter(m)'
<1>1. PICK k \in DOMAIN inbox : k > m + 1 /\ inbox[k].kind = "down"
  BY DEF DownAfter
<1>2. k - 1 \in DOMAIN inbox' /\ (k - 1) + 1 = k /\ k - 1 > m
  BY <1>1 DEF Shrunk
<1>3. inbox'[k - 1] = inbox[k]
  BY <1>2 DEF Shrunk
<1> QED
  BY <1>1, <1>2, <1>3 DEF DownAfter

LEMMA DownQueued == ASSUME NEW e, Grown(e), e.kind = "down", NEW m \in 0..Len(inbox)
                    PROVE  DownAfter(m)'
<1>1. Len(inbox) + 1 \in DOMAIN inbox' /\ inbox'[Len(inbox) + 1].kind = "down"
      /\ Len(inbox) + 1 > m
  BY DEF Grown
<1> QED
  BY <1>1 DEF DownAfter

LEMMA ShownInvEvent ==
    ASSUME GwTypeOK, FrontInv, ShownInv, NEW e \in Event, Grown(e), FrontEvent(e),
           UNCHANGED <<api, state, stale>>
    PROVE  ShownInv'
<1> USE DEF ShownInv, OfSession
<1>a. /\ link' # "logged" => (link # "logged" \/ Drops(e)) /\ ~OfSession(e)
      /\ link' = "logged" => e.kind # "down"
      /\ link' = "logged" /\ link # "logged" => e.kind = "login" /\ e.ok
      /\ link = "logged" /\ link' # "logged" => Drops(e)
  BY DEF FrontEvent, Announces, Drops, AnswersLogin, AnswersSub, AnswersUnsub, Pushes, FrontInv,
     PushedWhenLogged
<1>1. SessionEvents'
  <2> SUFFICES ASSUME api # None, link' # "logged", NEW m \in DOMAIN inbox',
                      OfSession(inbox'[m])
               PROVE  DownAfter(m)'
    BY DEF SessionEvents
  <2>1. m \in 1..Len(inbox) /\ m \in Nat /\ OfSession(inbox[m])
    BY <1>a DEF Grown
  <2>2. CASE Drops(e)
    BY <2>1, <2>2, DownQueued DEF Drops
  <2>3. CASE link # "logged"
    <3>1. DownAfter(m)
      BY <2>1, <2>3 DEF SessionEvents, Grown
    <3> QED
      BY <2>1, <3>1, DownAfterGrown
  <2> QED
    BY <1>a, <2>2, <2>3
<1>2. LoginAfterDown'
  <2> SUFFICES ASSUME link' = "logged", NEW m \in DOMAIN inbox', inbox'[m].kind = "down"
               PROVE  \E n \in DOMAIN inbox' : n > m /\ inbox'[n].kind = "login" /\ inbox'[n].ok
    BY DEF LoginAfterDown
  <2>1. m \in DOMAIN inbox /\ inbox[m].kind = "down"
    BY <1>a DEF Grown
  <2>2. CASE link = "logged"
    BY <2>1, <2>2 DEF LoginAfterDown, Grown
  <2>3. CASE link # "logged"
    <3>1. Len(inbox) + 1 \in DOMAIN inbox' /\ inbox'[Len(inbox) + 1] = e /\ Len(inbox) + 1 > m
      BY <2>1 DEF Grown
    <3> QED
      BY <1>a, <2>3, <3>1
  <2> QED
    BY <2>2, <2>3
<1>3. StateShown'
  <2> SUFFICES ASSUME api # None, state = "streaming", ~stale, link' # "logged"
               PROVE  DownAfter(0)'
    BY DEF StateShown
  <2>1. CASE Drops(e)
    <3>1. 0 \in 0..Len(inbox)
      BY DEF Grown
    <3> QED
      BY <2>1, <3>1, DownQueued DEF Drops
  <2>2. CASE DownAfter(0)
    BY <2>2, DownAfterGrown
  <2> QED
    BY <1>a, <2>1, <2>2 DEF StateShown
<1> QED
  BY <1>1, <1>2, <1>3

LEMMA StateShownDrain ==
    ASSUME GwTypeOK, ShownInv, Drain PROVE StateShown'
<1>1. Shrunk /\ UNCHANGED <<api, link>>
  BY DrainShrinks, DrainKeeps
<1>2. SUFFICES ASSUME api # None, state' = "streaming", ~stale', link # "logged"
               PROVE  DownAfter(0)'
  BY <1>1 DEF StateShown
<1>3. Head(inbox).kind # "down" /\ DownAfter(0) => DownAfter(1)
  <2>1. 1 \in DOMAIN inbox /\ inbox[1] = Head(inbox) /\ DOMAIN inbox \subseteq Nat
    BY <1>1 DEF Shrunk
  <2> QED
    BY <2>1 DEF DownAfter
<1>4. DownAfter(1) => DownAfter(0)'
  BY <1>1, DownAfterShrunk
<1>5. CASE OnSub
  <2>1. Head(inbox).kind = "sub"
    BY <1>5 DEF OnSub, Handle
  <2>2. CASE state = "streaming"
    <3>1. ~stale
      BY <1>2, <1>5, <2>2 DEF OnSub
    <3> QED
      BY <1>2, <1>3, <1>4, <2>1, <2>2, <3>1 DEF ShownInv, StateShown
  <2>3. CASE state # "streaming"
    <3>1. Head(inbox).ok
      BY <1>2, <1>5, <2>3 DEF OnSub, Answered
    <3>2. 1 \in DOMAIN inbox /\ OfSession(inbox[1])
      BY <1>1, <2>1, <3>1 DEF Shrunk, OfSession
    <3> QED
      BY <1>2, <1>4, <3>2 DEF ShownInv, SessionEvents
  <2> QED
    BY <2>2, <2>3
<1>6. CASE OnFront \/ OnUnsub \/ OnDepth
  <2>1. state = "streaming" /\ ~stale /\ Head(inbox).kind # "down"
    BY <1>2, <1>6 DEF OnFront, OnUnsub, OnDepth, Handle, histVars
  <2> QED
    BY <1>2, <1>3, <1>4, <2>1 DEF ShownInv, StateShown
<1>7. CASE OnDown \/ OnLogin
  BY <1>2, <1>7 DEF OnDown, OnLogin
<1> QED
  BY <1>5, <1>6, <1>7 DEF Drain

LEMMA ShownInvStep ==
    ASSUME GwTypeOK, FrontInv, ShownInv, [Next]_vars, Alive'
    PROVE  ShownInv'
<1> USE DEF ShownInv
<1>a. ASSUME UNCHANGED <<api, link, inbox>>,
             UNCHANGED <<state, stale>> \/ state' # "streaming"
      PROVE  ShownInv'
  BY <1>a DEF SessionEvents, LoginAfterDown, StateShown, DownAfter
<1>1. CASE UNCHANGED vars
  BY <1>a, <1>1 DEF vars, natVars, rtVars, histVars
<1>2. CASE FrontStep \/ \E i \in Insts : Depth(i)
  <2>1. PICK e \in Event : Grown(e) /\ FrontEvent(e)
    BY <1>2, FrontEvents
  <2> QED
    BY <1>2, <2>1, ShownInvEvent, FrontKeeps DEF rtVars, histVars
<1>3. CASE Drain
  <2>0. Shrunk /\ UNCHANGED <<api, link>>
    BY <1>3, DrainShrinks, DrainKeeps
  <2>1. SessionEvents'
    <3> SUFFICES ASSUME api # None, link # "logged", NEW m \in DOMAIN inbox',
                        OfSession(inbox'[m])
                 PROVE  DownAfter(m)'
      BY <2>0 DEF SessionEvents
    <3>1. m + 1 \in DOMAIN inbox /\ OfSession(inbox[m + 1]) /\ m \in Nat
      BY <2>0 DEF Shrunk
    <3> QED
      BY <2>0, <3>1, DownAfterShrunk DEF SessionEvents
  <2>2. LoginAfterDown'
    <3> SUFFICES ASSUME link = "logged", NEW m \in DOMAIN inbox', inbox'[m].kind = "down"
                 PROVE  \E n \in DOMAIN inbox' :
                          n > m /\ inbox'[n].kind = "login" /\ inbox'[n].ok
      BY <2>0 DEF LoginAfterDown
    <3>1. m + 1 \in DOMAIN inbox /\ inbox[m + 1].kind = "down"
      BY <2>0 DEF Shrunk
    <3>2. PICK n \in DOMAIN inbox : n > m + 1 /\ inbox[n].kind = "login" /\ inbox[n].ok
      BY <3>1 DEF LoginAfterDown
    <3>3. n - 1 \in DOMAIN inbox' /\ (n - 1) + 1 = n /\ n - 1 > m
      BY <2>0, <3>2 DEF Shrunk
    <3>4. inbox'[n - 1] = inbox[n]
      BY <2>0, <3>3 DEF Shrunk
    <3> QED
      BY <3>2, <3>3, <3>4
  <2> QED
    BY <1>3, <2>1, <2>2, StateShownDrain
<1>4. ASSUME NEW c \in Conns, ConnectRefused(c) PROVE ShownInv'
  BY <1>a, <1>4 DEF ConnectRefused, histVars
<1>5. ASSUME NEW c \in Conns, NEW S \in SUBSET Insts, Connect(c, S) PROVE ShownInv'
  BY <1>5 DEF Connect, SessionEvents, LoginAfterDown, StateShown
<1>6. ASSUME NEW c \in Conns, NEW S \in SUBSET Insts, Subscribe(c, S) \/ Unsubscribe(c, S)
      PROVE  ShownInv'
  BY <1>a, <1>6 DEF Subscribe, Unsubscribe, histVars
<1>7. ASSUME NEW k \in Clients, ReleaseNative(k) PROVE ShownInv'
  <2>1. inbox' = inbox /\ UNCHANGED <<state, stale>>
    BY <1>7 DEF ReleaseNative, rtVars, histVars
  <2>2. CASE api = k
    BY <1>7, <2>1, <2>2 DEF ReleaseNative, SessionEvents, LoginAfterDown, StateShown
  <2>3. CASE api # k
    BY <1>7, <1>a, <2>1, <2>3 DEF ReleaseNative, natVars
  <2> QED
    BY <2>2, <2>3
<1>8. ASSUME NEW a \in Actors, Ending(a) PROVE ShownInv'
  BY <1>8, <1>a, EndingKeeps DEF natVars, histVars
<1>9. CASE Aside
  BY <1>9, <1>a, AsideKeeps DEF natVars, histVars
<1> QED
  BY <1>1, <1>2, <1>3, <1>4, <1>5, <1>6, <1>7, <1>8, <1>9, NextParts

-----------------------------------------------------------------------------
(* What is shown as streaming. *)
LEMMA StreamInvEvent ==
    ASSUME GwTypeOK, FrontInv, ShownInv, StreamInv, NEW e \in Event, Grown(e), FrontEvent(e),
           UNCHANGED <<api, insts>>
    PROVE  StreamInv'
<1>1. SUFFICES ASSUME link' = "logged" PROVE StreamInv'
  BY DEF StreamInv, AnswerTrue, StreamTrue
<1>2. \/ link = "logged"
      \/ link # "logged" /\ e.kind = "login" /\ e.ok /\ subs' = subs /\ reqs # <<>>
  BY <1>1 DEF FrontEvent, Announces, Drops, AnswersLogin, AnswersSub, AnswersUnsub, Pushes,
     FirstAnswered
<1>3. /\ e.kind = "sub" /\ e.ok => e.inst \in subs'
      /\ \A i \in subs : About(e, i) \/ i \in subs'
  BY <1>1 DEF FrontEvent, Announces, Drops, AnswersLogin, AnswersSub, AnswersUnsub, Pushes,
     About
<1>4. ASSUME NEW i, NEW m, SubAnswered(i, m)'
      PROVE  \/ e.kind = "sub" /\ e.ok /\ e.inst = i
             \/ SubAnswered(i, m) /\ m \in Nat /\ ~About(e, i)
  <2>1. CASE m \in 1..Len(inbox)
    <3>1. m \in DOMAIN inbox /\ inbox'[m] = inbox[m] /\ m \in Nat
      BY <2>1 DEF Grown
    <3>2. ~About(e, i)
      BY <1>4, <2>1 DEF SubAnswered, Grown
    <3>3. \A n \in DOMAIN inbox : n > m => ~About(inbox[n], i)
      BY <1>4 DEF SubAnswered, Grown
    <3> QED
      BY <1>4, <3>1, <3>2, <3>3 DEF SubAnswered
  <2>2. CASE m = Len(inbox) + 1
    BY <1>4, <2>2 DEF SubAnswered, Grown
  <2> QED
    BY <1>4, <2>1, <2>2 DEF SubAnswered, Grown
<1>5. AnswerTrue'
  <2> SUFFICES ASSUME NEW i \in Insts, NEW m \in DOMAIN inbox', SubAnswered(i, m)'
               PROVE  i \in subs' \/ DownAfter(m)'
    BY DEF AnswerTrue
  <2>1. CASE SubAnswered(i, m) /\ m \in Nat /\ ~About(e, i)
    <3>1. CASE link = "logged"
      <4>1. i \in subs \/ DownAfter(m)
        BY <2>1, <3>1 DEF StreamInv, AnswerTrue, SubAnswered
      <4> QED
        BY <1>3, <2>1, <4>1, DownAfterGrown
    <3>2. CASE link # "logged"
      <4>1. api # None
        BY <1>2, <3>2 DEF GwTypeOK
      <4>2. DownAfter(m)
        BY <2>1, <3>2, <4>1 DEF ShownInv, SessionEvents, SubAnswered, OfSession
      <4> QED
        BY <2>1, <4>2, DownAfterGrown
    <3> QED
      BY <3>1, <3>2
  <2> QED
    BY <1>3, <1>4, <2>1
<1>6. StreamTrue'
  <2> SUFFICES ASSUME NEW i \in Insts, WillStream(i)'
               PROVE  i \in subs' \/ SubOpen(i)' \/ LoginQueued'
    BY DEF StreamTrue
  <2>1. CASE e.kind = "login" /\ e.ok
    <3>1. Len(inbox) + 1 \in DOMAIN inbox' /\ inbox'[Len(inbox) + 1] = e
      BY DEF Grown
    <3> QED
      BY <2>1, <3>1 DEF LoginQueued
  <2>2. CASE e.kind = "sub" /\ e.ok /\ e.inst = i
    BY <1>3, <2>2
  <2>3. CASE link = "logged" /\ ~(e.kind = "sub" /\ e.ok /\ e.inst = i)
    <3>1. WillStream(i) /\ ~About(e, i)
      <4>1. CASE insts[i] = "streaming" /\ \A n \in DOMAIN inbox' : ~About(inbox'[n], i)
        <5>1. \A n \in DOMAIN inbox : ~About(inbox[n], i)
          BY <4>1 DEF Grown
        <5>2. Len(inbox) + 1 \in DOMAIN inbox' /\ inbox'[Len(inbox) + 1] = e
          BY DEF Grown
        <5> QED
          BY <4>1, <5>1, <5>2 DEF WillStream
      <4>2. ASSUME NEW m, SubAnswered(i, m)' PROVE WillStream(i) /\ ~About(e, i)
        <5>1. SubAnswered(i, m) /\ ~About(e, i)
          BY <1>4, <2>3, <4>2
        <5> QED
          BY <5>1 DEF WillStream, SubAnswered
      <4> QED
        BY <4>1, <4>2 DEF WillStream
    <3>2. i \in subs \/ SubOpen(i) \/ LoginQueued
      BY <2>3, <3>1 DEF StreamInv, StreamTrue
    <3>3. CASE LoginQueued
      <4>1. LoginQueued'
        BY <3>3 DEF LoginQueued, Grown
      <4> QED
        BY <4>1
    <3>4. CASE SubOpen(i)
      <4>1. PICK n \in DOMAIN reqs : reqs[n].kind = "sub" /\ reqs[n].inst = i
        BY <3>4 DEF SubOpen
      <4>2. CASE reqs' = reqs
        BY <4>1, <4>2 DEF SubOpen
      <4>3. ASSUME NEW r \in Request, FirstAnswered(r), r.kind # "sub" \/ r.inst # i
            PROVE  SubOpen(i)'
        <5>1. n > 1 /\ n - 1 \in DOMAIN reqs' /\ (n - 1) + 1 = n
          BY <4>1, <4>3 DEF FirstAnswered
        <5>2. reqs'[n - 1] = reqs[n]
          BY <4>3, <5>1 DEF FirstAnswered
        <5> QED
          BY <4>1, <5>1, <5>2 DEF SubOpen
      <4> QED
        BY <1>1, <2>3, <3>1, <4>2, <4>3 DEF FrontEvent, Announces, Drops, AnswersLogin, AnswersSub,
           AnswersUnsub, Pushes, About
    <3> QED
      BY <1>3, <3>1, <3>2, <3>3, <3>4
  <2> QED
    BY <1>2, <2>1, <2>2, <2>3
<1> QED
  BY <1>5, <1>6 DEF StreamInv

LEMMA SubOpenExtends ==
    ASSUME reqs \in Seq(Request), NEW kind, NEW S, Extends(reqs', reqs, kind, S), NEW i,
           SubOpen(i)
    PROVE  SubOpen(i)'
<1>1. PICK n \in DOMAIN reqs : reqs[n].kind = "sub" /\ reqs[n].inst = i
  BY DEF SubOpen
<1>2. n \in DOMAIN reqs' /\ reqs'[n] = reqs[n]
  BY DEF Extends
<1> QED
  BY <1>1, <1>2 DEF SubOpen

LEMMA StreamInvDrain ==
    ASSUME GwTypeOK, ShownInv, StreamInv, Held, Drain PROVE StreamInv'
<1>1. Shrunk /\ UNCHANGED <<api, link, subs, client>>
  BY DrainShrinks, DrainKeeps
<1>2. SUFFICES ASSUME link = "logged" PROVE StreamInv'
  BY <1>1 DEF StreamInv, AnswerTrue, StreamTrue
<1>3. ASSUME NEW i, NEW m, SubAnswered(i, m)'
      PROVE  SubAnswered(i, m + 1) /\ m \in Nat /\ m >= 1
  <2>1. m \in Nat /\ m >= 1 /\ m + 1 \in DOMAIN inbox /\ inbox[m + 1] = inbox'[m]
    BY <1>1, <1>3 DEF SubAnswered, Shrunk
  <2>2. ASSUME NEW n \in DOMAIN inbox, n > m + 1 PROVE ~About(inbox[n], i)
    <3>1. n - 1 \in DOMAIN inbox' /\ (n - 1) + 1 = n /\ n - 1 > m
      BY <1>1, <2>1, <2>2 DEF Shrunk
    <3>2. inbox'[n - 1] = inbox[n]
      BY <1>1, <3>1 DEF Shrunk
    <3> QED
      BY <1>3, <3>1, <3>2 DEF SubAnswered
  <2> QED
    BY <1>3, <2>1, <2>2 DEF SubAnswered
<1>4. AnswerTrue'
  <2> SUFFICES ASSUME NEW i \in Insts, NEW m \in DOMAIN inbox', SubAnswered(i, m)'
               PROVE  i \in subs \/ DownAfter(m)'
    BY <1>1 DEF AnswerTrue
  <2>1. SubAnswered(i, m + 1) /\ m \in Nat
    BY <1>3
  <2>2. i \in subs \/ DownAfter(m + 1)
    BY <1>2, <2>1 DEF StreamInv, AnswerTrue, SubAnswered
  <2> QED
    BY <1>1, <2>1, <2>2, DownAfterShrunk
<1>5. StreamTrue'
  <2> SUFFICES ASSUME NEW i \in Insts, WillStream(i)'
               PROVE  i \in subs \/ SubOpen(i)' \/ LoginQueued'
    BY <1>1 DEF StreamTrue
  <2>0. 1 \in DOMAIN inbox /\ inbox[1] = Head(inbox) /\ DOMAIN inbox = 1..Len(inbox)
    BY <1>1 DEF Shrunk
  <2>1. ASSUME insts'[i] = "streaming", \A n \in DOMAIN inbox' : ~About(inbox'[n], i)
        PROVE  WillStream(i) /\ (~About(Head(inbox), i) => insts[i] = "streaming")
    <3>1. ASSUME NEW n \in DOMAIN inbox, n > 1 PROVE ~About(inbox[n], i)
      <4>1. n - 1 \in DOMAIN inbox' /\ (n - 1) + 1 = n
        BY <1>1, <3>1 DEF Shrunk
      <4>2. inbox'[n - 1] = inbox[n]
        BY <1>1, <4>1 DEF Shrunk
      <4> QED
        BY <2>1, <4>1, <4>2
    <3>2. insts \in [Insts -> {"none", "subscribing", "streaming", "failed"}]
      BY DEF GwTypeOK
    <3>3. CASE About(Head(inbox), i)
      <4>1. OnSub \/ OnUnsub
        BY <3>3 DEF Drain, OnFront, OnDown, OnLogin, OnSub, OnUnsub, OnDepth, Handle, About
      <4>2. OnSub /\ Head(inbox).ok
        BY <2>1, <3>2, <3>3, <4>1 DEF OnSub, OnUnsub, Handle, About, Answered
      <4>3. SubAnswered(i, 1)
        BY <2>0, <3>1, <3>3, <4>2 DEF SubAnswered, About, OnSub, Handle
      <4> QED
        BY <2>0, <3>3, <4>3 DEF WillStream
    <3>4. CASE ~About(Head(inbox), i)
      <4>1. insts[i] = "streaming"
        BY <2>1, <3>2, <3>4 DEF Drain, OnFront, OnDown, OnLogin, OnSub, OnUnsub, OnDepth, Handle,
           About
      <4>2. \A n \in DOMAIN inbox : n = 1 \/ n > 1
        BY <2>0
      <4> QED
        BY <2>0, <3>1, <3>4, <4>1, <4>2 DEF WillStream
    <3> QED
      BY <3>3, <3>4
  <2>2. WillStream(i)
    <3>1. ASSUME NEW m, SubAnswered(i, m)' PROVE WillStream(i)
      BY <1>3, <3>1 DEF WillStream, SubAnswered
    <3> QED
      BY <2>1, <3>1 DEF WillStream
  <2>3. i \in subs \/ SubOpen(i) \/ LoginQueued
    BY <1>2, <2>2 DEF StreamInv, StreamTrue
  <2>4. CASE SubOpen(i)
    BY <1>1, <2>4, DrainRequests, SubOpenExtends DEF DrainSends, SubOpen, GwTypeOK
  <2>5. ASSUME NEW n \in DOMAIN inbox, n > 1, inbox[n].kind = "login", inbox[n].ok
        PROVE  LoginQueued'
    <3>1. n - 1 \in DOMAIN inbox' /\ (n - 1) + 1 = n
      BY <1>1, <2>5 DEF Shrunk
    <3>2. inbox'[n - 1] = inbox[n]
      BY <1>1, <3>1 DEF Shrunk
    <3> QED
      BY <2>5, <3>1, <3>2 DEF LoginQueued
  <2>6. CASE Head(inbox).kind = "login" /\ Head(inbox).ok
    <3>1. OnLogin
      BY <2>6 DEF Drain, OnFront, OnDown, OnLogin, OnSub, OnUnsub, OnDepth, Handle
    <3>2. CASE insts'[i] = "streaming" /\ \A n \in DOMAIN inbox' : ~About(inbox'[n], i)
      <4>1. insts[i] = "streaming"
        BY <2>1, <2>6, <3>2 DEF About
      <4>2. i \in Resubscribe /\ Resubscribe \in SUBSET Insts
        BY <4>1 DEF Resubscribe, Known, Listed
      <4>3. client # None /\ ~Released(client)
        BY <1>2 DEF Held, Released, GwTypeOK
      <4>4. Send("sub", Resubscribe)
        BY <2>6, <3>1, <4>2, <4>3 DEF OnLogin, Answered
      <4>5. Extends(reqs', reqs, "sub", Resubscribe)
        BY <1>2, <4>2, <4>4, SendFacts DEF GwTypeOK
      <4>6. SubOpen(i)'
        BY <4>2, <4>5 DEF Extends, SubOpen
      <4> QED
        BY <4>6
    <3>3. ASSUME NEW m, SubAnswered(i, m)' PROVE i \in subs \/ LoginQueued'
      <4>1. SubAnswered(i, m + 1) /\ m \in Nat /\ m >= 1
        BY <1>3, <3>3
      <4>2. i \in subs \/ DownAfter(m + 1)
        BY <1>2, <4>1 DEF StreamInv, AnswerTrue, SubAnswered
      <4>3. CASE DownAfter(m + 1)
        <5>1. PICK k \in DOMAIN inbox : k > m + 1 /\ inbox[k].kind = "down"
          BY <4>3 DEF DownAfter
        <5>2. PICK n \in DOMAIN inbox : n > k /\ inbox[n].kind = "login" /\ inbox[n].ok
          BY <1>2, <5>1 DEF ShownInv, LoginAfterDown
        <5>3. n > 1
          BY <2>0, <4>1, <5>1, <5>2
        <5> QED
          BY <2>5, <5>2, <5>3
      <4> QED
        BY <4>2, <4>3
    <3> QED
      BY <3>2, <3>3 DEF WillStream
  <2>7. CASE LoginQueued
    <3>1. PICK n \in DOMAIN inbox : inbox[n].kind = "login" /\ inbox[n].ok
      BY <2>7 DEF LoginQueued
    <3>2. n = 1 \/ n > 1
      BY <2>0
    <3> QED
      BY <2>0, <2>5, <2>6, <3>1, <3>2
  <2> QED
    BY <2>3, <2>4, <2>7
<1> QED
  BY <1>4, <1>5 DEF StreamInv

LEMMA StreamInvStep ==
    ASSUME GwTypeOK, FrontInv, ShownInv, StreamInv, Draining => Held, [Next]_vars, Alive'
    PROVE  StreamInv'
<1>a. ASSUME UNCHANGED <<link, subs, reqs, inbox>>,
             \A i \in Insts : insts'[i] = "streaming" => insts[i] = "streaming"
      PROVE  StreamInv'
  <2>1. \A i \in Insts : WillStream(i)' => WillStream(i)
    BY <1>a DEF WillStream, SubAnswered
  <2>2. AnswerTrue'
    BY <1>a DEF StreamInv, AnswerTrue, SubAnswered, DownAfter
  <2>3. StreamTrue'
    BY <1>a, <2>1 DEF StreamInv, StreamTrue, SubOpen, LoginQueued
  <2> QED
    BY <2>2, <2>3 DEF StreamInv
<1>b. ASSUME link' # "logged" PROVE StreamInv'
  BY <1>b DEF StreamInv, AnswerTrue, StreamTrue
<1>1. CASE UNCHANGED vars
  BY <1>a, <1>1 DEF vars, natVars, rtVars
<1>2. CASE FrontStep \/ \E i \in Insts : Depth(i)
  <2>1. PICK e \in Event : Grown(e) /\ FrontEvent(e)
    BY <1>2, FrontEvents
  <2> QED
    BY <1>2, <2>1, StreamInvEvent, FrontKeeps DEF rtVars
<1>3. CASE Drain
  BY <1>3, StreamInvDrain, DrainKeeps
<1>4. ASSUME NEW c \in Conns, ConnectRefused(c) PROVE StreamInv'
  BY <1>a, <1>4 DEF ConnectRefused
<1>5. ASSUME NEW c \in Conns, NEW S \in SUBSET Insts, Connect(c, S) PROVE StreamInv'
  BY <1>b, <1>5 DEF Connect, GwTypeOK
<1>6. ASSUME NEW c \in Conns, NEW S \in SUBSET Insts, Subscribe(c, S) \/ Unsubscribe(c, S)
      PROVE  StreamInv'
  <2>1. /\ UNCHANGED <<link, subs, inbox>>
        /\ \A i \in Insts : insts'[i] = "streaming" => insts[i] = "streaming"
    BY <1>6 DEF Subscribe, Unsubscribe, GwTypeOK
  <2>2. \A i \in Insts : WillStream(i)' => WillStream(i)
    BY <2>1 DEF WillStream, SubAnswered
  <2>3. \A i \in Insts : SubOpen(i) => SubOpen(i)'
    BY <1>6, CommandRequests, SubOpenExtends DEF GwTypeOK, SubOpen
  <2>4. AnswerTrue'
    BY <2>1 DEF StreamInv, AnswerTrue, SubAnswered, DownAfter
  <2>5. StreamTrue'
    BY <2>1, <2>2, <2>3 DEF StreamInv, StreamTrue, LoginQueued
  <2> QED
    BY <2>4, <2>5 DEF StreamInv
<1>7. ASSUME NEW k \in Clients, ReleaseNative(k) PROVE StreamInv'
  <2>1. inbox' = inbox /\ UNCHANGED insts
    BY <1>7 DEF ReleaseNative, rtVars
  <2>2. CASE api = k
    BY <1>7, <1>b, <2>2 DEF ReleaseNative
  <2>3. CASE api # k
    BY <1>7, <1>a, <2>1, <2>3 DEF ReleaseNative, natVars
  <2> QED
    BY <2>2, <2>3
<1>8. ASSUME NEW a \in Actors, Ending(a) PROVE StreamInv'
  BY <1>8, <1>a, EndingKeeps DEF natVars
<1>9. CASE Aside
  BY <1>9, <1>a, AsideKeeps DEF natVars
<1> QED
  BY <1>1, <1>2, <1>3, <1>4, <1>5, <1>6, <1>7, <1>8, <1>9, NextParts

-----------------------------------------------------------------------------
(* The runtime's fields. *)
LEMMA DrainingKept == GwTypeOK /\ TasksInv /\ [Next]_vars /\ Draining' => Draining
<1> SUFFICES ASSUME GwTypeOK, TasksInv, [Next]_vars, Draining' PROVE Draining
  OBVIOUS
<1>a. Alive /\ Alive'
  BY AliveKept DEF Draining
<1>b. SUFFICES ASSUME at[Main] \notin {"idle", "releasing"} PROVE FALSE
  BY <1>a DEF Draining
<1>c. at'[Main] \in {"idle", "releasing"}
  BY DEF Draining
<1>d. /\ at \in [Actors -> {"idle", "releasing", "waiting", "storing"}]
      /\ call[Main] = "shutdown" /\ Main \in Actors /\ \A c \in Conns : c # Main
  BY <1>b, Nobody DEF GwTypeOK, TasksInv, ShutdownFlag
<1>1. CASE at' = at
  BY <1>1, <1>b, <1>c
<1>2. ASSUME NEW c \in Conns, at'[Main] = at[Main] PROVE FALSE
  BY <1>2, <1>b, <1>c
<1>3. ASSUME NEW c \in Conns, Command(c) PROVE FALSE
  <2>1. at'[Main] = at[Main]
    BY <1>3, <1>d DEF Command, Connect, ConnectRefused, Disconnect, Leave, ConnectionLost, Subscribe,
       Unsubscribe, callVars
  <2> QED
    BY <1>2, <2>1
<1>4. ASSUME NEW a \in Actors, Ending(a) PROVE FALSE
  <2>1. CASE a = Main
    <3>1. proc' = "stopped"
      BY <1>4, <1>d, <2>1 DEF Ending, FinalizeSkip, FinalizeOK, FinalizeFails, Finish
    <3> QED
      BY <1>a, <3>1 DEF Alive
  <2>2. CASE a # Main
    <3>1. at'[Main] = at[Main]
      BY <1>4, <1>d, <2>2, EndingKeeps
    <3> QED
      BY <1>b, <1>c, <3>1
  <2> QED
    BY <2>1, <2>2
<1>5. ASSUME NEW a \in Actors, ReleaseReturn(a) \/ FinalizeStart(a) PROVE FALSE
  <2>1. at'[Main] = at[Main] \/ at'[Main] \in {"waiting", "storing"}
    BY <1>5, <1>d DEF ReleaseReturn, FinalizeStart
  <2> QED
    BY <1>b, <1>c, <2>1
<1>6. CASE Shutdown
  BY <1>6, <1>b DEF Shutdown
<1>7. CASE UNCHANGED vars \/ Flush \/ StopRequested \/ \E k \in Clients : ReleaseNative(k)
  BY <1>7, <1>1 DEF vars, Flush, StopRequested, ReleaseNative, callVars
<1>8. CASE Drain \/ FrontStep \/ \E i \in Insts : Depth(i)
  BY <1>8, <1>1, DrainKeeps, FrontKeeps DEF callVars
<1> QED
  BY <1>3, <1>4, <1>5, <1>6, <1>7, <1>8 DEF Next, Progress, Ending

(* Without a client of the runtime there is no native one, and no event. *)
LEMMA NoFrontWithoutClient ==
    ASSUME GwTypeOK, Held, client = None PROVE \A e : ~FrontEvent(e)
<1>1. api = None /\ link = "off" /\ subs = {} /\ reqs = <<>> /\ ~(Len(reqs) > 0)
  BY DEF Held, GwTypeOK
<1> QED
  BY <1>1 DEF FrontEvent, Announces, Drops, AnswersLogin, AnswersSub, AnswersUnsub, Pushes,
     FirstAnswered

LEMMA OwnerInvEnding ==
    ASSUME OneConnection, GwTypeOK, TasksInv, OwnerInv, NEW c \in Conns, Ending(c)
    PROVE  OwnerInv'
<1>a. /\ UNCHANGED <<api, inbox, client>> /\ c \in Actors
      /\ at' = [at EXCEPT ![c] = "idle"]
      /\ at \in [Actors -> {"idle", "releasing", "waiting", "storing"}]
      /\ at[c] \in {"waiting", "storing"} /\ (creds' => creds)
  BY EndingKeeps DEF natVars, Actors, GwTypeOK
<1>b. \A d \in Conns : at'[d] = "idle"
  BY <1>a DEF OneConnection
<1>c. Held' /\ NoClient' /\ ReleaseTrue' /\ Stopped' /\ Refused'
  BY <1>a, <1>b DEF OwnerInv, Held, NoClient, ReleaseTrue, Stopped, Refused
<1>d. NoBatch'
  <2>1. CASE abatch' = abatch
    BY <1>a, <2>1 DEF OwnerInv, NoBatch
  <2>2. CASE abatch' # abatch
    <3>1. ~creds \/ client = None
      BY <1>a DEF OwnerInv, Stopped, Refused, TasksInv, CallKinds
    <3> QED
      BY <1>a, <3>1 DEF NoBatch
  <2> QED
    BY <2>1, <2>2
<1> QED
  BY <1>c, <1>d DEF OwnerInv

LEMMA OwnerInvAside ==
    ASSUME OneConnection, GwTypeOK, TasksInv, OwnerInv, Draining, Draining', Aside
    PROVE  OwnerInv'
<1> USE DEF OwnerInv
<1>a. /\ UNCHANGED <<api, inbox, creds>>
      /\ at \in [Actors -> {"idle", "releasing", "waiting", "storing"}]
      /\ call \in [Actors -> {"none", "connect", "disconnect", "shutdown"}]
      /\ rel \in [Actors -> Clients \cup {None}]
      /\ Main \in Actors /\ \A c \in Conns : c # Main /\ c \in Actors
  BY AsideKeeps, Nobody DEF natVars, GwTypeOK, Actors
<1>1. ASSUME NEW c \in Conns, Disconnect(c) PROVE OwnerInv'
  <2>1. /\ UNCHANGED <<client, abatch>>
        /\ call' = [call EXCEPT ![c] = "disconnect"]
        /\ at' = [at EXCEPT ![c] = IF client # None THEN "releasing" ELSE "waiting"]
        /\ rel' = [rel EXCEPT ![c] = client] /\ threads' = threads \cup ({client} \ {None})
    BY <1>1 DEF Disconnect, Leave, rtVars, archVars
  <2>2. \A d \in Conns : d = c
    BY DEF OneConnection
  <2>3. call'[c] = "disconnect" /\ rel'[c] = client
        /\ at'[c] = IF client # None THEN "releasing" ELSE "waiting"
    BY <1>a, <2>1
  <2>4. Held' /\ NoClient' /\ NoBatch'
    BY <1>a, <2>1 DEF Held, NoClient, NoBatch
  <2>5. ReleaseTrue'
    BY <1>a, <2>1, <2>2, <2>3 DEF Held, ReleaseTrue
  <2>6. Stopped' /\ Refused'
    BY <2>1, <2>2, <2>3 DEF Stopped, Refused
  <2> QED
    BY <2>4, <2>5, <2>6
<1>2. ASSUME NEW c \in Conns, ConnectionLost(c) PROVE OwnerInv'
  <2>1. /\ UNCHANGED <<client, abatch>> /\ at' = [at EXCEPT ![c] = "idle"]
    BY <1>2 DEF ConnectionLost, rtVars
  <2>2. \A d \in Conns : at'[d] = "idle"
    BY <1>a, <2>1 DEF OneConnection
  <2> QED
    BY <1>a, <2>1, <2>2 DEF Held, NoClient, NoBatch, ReleaseTrue, Stopped, Refused
<1>3. ASSUME NEW a \in Actors, ReleaseReturn(a) PROVE OwnerInv'
  <2>1. /\ rel[a] \notin threads /\ (api = None => inbox = <<>>) /\ client' = None
        /\ at[a] = "releasing" /\ at' = [at EXCEPT ![a] = "waiting"]
        /\ UNCHANGED <<abatch, call>>
    BY <1>3 DEF ReleaseReturn, archVars
  <2>2. a \in Conns
    BY <1>a, <2>1 DEF Draining, Actors
  <2>3. api = None /\ inbox = <<>>
    BY <2>1, <2>2 DEF ReleaseTrue
  <2>4. \A d \in Conns : d = a
    BY <2>2 DEF OneConnection
  <2>5. call[a] = "disconnect"
    BY <2>1, <2>2 DEF TasksInv, CallKinds
  <2>6. \A d \in Conns : at'[d] = "waiting" /\ call'[d] = "disconnect"
    BY <1>a, <2>1, <2>4, <2>5
  <2> QED
    BY <1>a, <2>1, <2>3, <2>6 DEF Held, NoClient, NoBatch, ReleaseTrue, Stopped, Refused
<1>4. ASSUME NEW a \in Actors, FinalizeStart(a) PROVE OwnerInv'
  <2>1. /\ at[a] = "waiting" /\ at' = [at EXCEPT ![a] = "storing"]
        /\ UNCHANGED <<abatch, client, call, rel, threads>>
    BY <1>4 DEF FinalizeStart, rtVars
  <2>2. \A d \in Conns : at'[d] = at[d] \/ (at[d] = "waiting" /\ at'[d] = "storing")
    BY <1>a, <2>1
  <2>3. ReleaseTrue' /\ Stopped' /\ Refused'
    BY <1>a, <2>1, <2>2 DEF ReleaseTrue, Stopped, Refused
  <2> QED
    BY <1>a, <2>1, <2>3 DEF Held, NoClient, NoBatch
<1>5. CASE Flush \/ StopRequested
  <2>1. UNCHANGED <<client, abatch, at, call, rel, threads>>
    <3>1. CASE Flush
      BY <3>1 DEF Flush, rtVars, callVars
    <3>2. CASE StopRequested
      BY <3>2 DEF StopRequested, rtVars, archVars, callVars
    <3> QED
      BY <1>5, <3>1, <3>2
  <2> QED
    BY <1>a, <2>1 DEF Held, NoClient, NoBatch, ReleaseTrue, Stopped, Refused
<1>6. CASE Shutdown
  <2>1. /\ UNCHANGED <<client, abatch>> /\ threads \subseteq threads'
        /\ \A c \in Conns : at'[c] = at[c] /\ call'[c] = call[c] /\ rel'[c] = rel[c]
    BY <1>a, <1>6 DEF Shutdown, Leave, rtVars, archVars
  <2> QED
    BY <1>a, <2>1 DEF Held, NoClient, NoBatch, ReleaseTrue, Stopped, Refused
<1> QED
  BY <1>1, <1>2, <1>3, <1>4, <1>5, <1>6 DEF Aside

LEMMA OwnerInvStep ==
    ASSUME OneConnection, GwTypeOK, TasksInv, OwnerInv, Draining, Draining', [Next]_vars
    PROVE  OwnerInv'
<1> USE DEF OwnerInv
<1>a. ASSUME UNCHANGED <<api, client, creds, abatch, inbox, callVars>> PROVE OwnerInv'
  BY <1>a DEF callVars, Held, NoClient, NoBatch, ReleaseTrue, Stopped, Refused
<1>b. ASSUME UNCHANGED <<api, client, creds, abatch, callVars>>, client # None PROVE OwnerInv'
  BY <1>b DEF callVars, Held, NoClient, NoBatch, ReleaseTrue, Stopped, Refused
<1>1. CASE UNCHANGED vars
  BY <1>a, <1>1 DEF vars, natVars, rtVars, archVars
<1>2. CASE FrontStep \/ \E i \in Insts : Depth(i)
  <2>1. client # None
    BY <1>2, FrontEvents, NoFrontWithoutClient DEF Draining
  <2> QED
    BY <1>b, <1>2, <2>1, FrontKeeps DEF rtVars, archVars
<1>3. CASE Drain
  <2>1. client # None
    BY <1>3, DrainKeeps DEF NoClient
  <2> QED
    BY <1>b, <1>3, <2>1, DrainKeeps
<1>4. ASSUME NEW c \in Conns, ConnectRefused(c) PROVE OwnerInv'
  <2>1. /\ UNCHANGED <<api, client, inbox>> /\ abatch' /\ ~creds'
        /\ at' = [at EXCEPT ![c] = "waiting"] /\ call' = [call EXCEPT ![c] = "connect"]
    BY <1>4 DEF ConnectRefused, ClientKept
  <2>2. \A d \in Conns : at'[d] = "waiting" /\ call'[d] = "connect"
    BY <2>1 DEF OneConnection, GwTypeOK, Actors
  <2> QED
    BY <2>1, <2>2 DEF Held, NoClient, NoBatch, ReleaseTrue, Stopped, Refused
<1>5. ASSUME NEW c \in Conns, NEW S \in SUBSET Insts, Connect(c, S) PROVE OwnerInv'
  <2>1. /\ client' = api' /\ client' # None /\ abatch' /\ UNCHANGED callVars
    BY <1>5 DEF Connect, Unused, Clients, None
  <2>2. \A d \in Conns : at'[d] = "idle"
    BY <1>5, <2>1 DEF Connect, Commanded, OneConnection, callVars
  <2> QED
    BY <2>1, <2>2 DEF Held, NoClient, NoBatch, ReleaseTrue, Stopped, Refused
<1>6. ASSUME NEW c \in Conns, NEW S \in SUBSET Insts, Subscribe(c, S) \/ Unsubscribe(c, S)
      PROVE  OwnerInv'
  BY <1>a, <1>6 DEF Subscribe, Unsubscribe, archVars
<1>7. ASSUME NEW k \in Clients, ReleaseNative(k) PROVE OwnerInv'
  <2>1. /\ UNCHANGED <<client, creds, abatch, inbox, at, call, rel>>
        /\ threads' = threads \ {k} /\ api' = (IF api = k THEN None ELSE api)
    BY <1>7 DEF ReleaseNative, rtVars, archVars, natVars
  <2> QED
    BY <2>1 DEF Held, NoClient, NoBatch, ReleaseTrue, Stopped, Refused
<1>8. ASSUME NEW a \in Actors, Ending(a) PROVE OwnerInv'
  <2>1. a \in Conns
    BY <1>8, EndingKeeps DEF Draining, Actors
  <2> QED
    BY <1>8, <2>1, OwnerInvEnding
<1>9. CASE Aside
  BY <1>9, OwnerInvAside
<1> QED
  BY <1>1, <1>2, <1>3, <1>4, <1>5, <1>6, <1>7, <1>8, <1>9, NextParts

-----------------------------------------------------------------------------
(* One login a session. *)
LEMMA LoginExtends ==
    ASSUME reqs \in Seq(Request), NEW kind \in {"sub", "unsub"}, NEW S,
           Extends(reqs', reqs, kind, S)
    PROVE  /\ LoginOpen' => LoginOpen
           /\ \A n \in DOMAIN reqs' : reqs'[n].kind = "login"
                => n \in DOMAIN reqs /\ reqs[n].kind = "login"
<1>1. ASSUME NEW n \in DOMAIN reqs', reqs'[n].kind = "login"
      PROVE  n \in DOMAIN reqs /\ reqs[n].kind = "login"
  <2>1. n \in 1..Len(reqs') /\ DOMAIN reqs = 1..Len(reqs) /\ Len(reqs) \in Nat
    BY DEF Extends
  <2>2. ~(n > Len(reqs))
    BY <1>1, <2>1 DEF Extends
  <2>3. n \in 1..Len(reqs)
    BY <2>1, <2>2
  <2> QED
    BY <1>1, <2>1, <2>3 DEF Extends
<1> QED
  BY <1>1 DEF LoginOpen

LEMMA OneLoginEvent ==
    ASSUME GwTypeOK, FrontInv, OneLogin, NEW e \in Event, Grown(e), FrontEvent(e)
    PROVE  OneLogin'
<1> USE DEF OneLogin
<1>1. LoginOnce'
  <2> SUFFICES ASSUME LoginOpen'
               PROVE  /\ link' = "up"
                      /\ \A m, n \in DOMAIN reqs' :
                           reqs'[m].kind = "login" /\ reqs'[n].kind = "login" => m = n
    BY DEF LoginOnce
  <2>1. PICK n \in DOMAIN reqs' : reqs'[n].kind = "login"
    BY DEF LoginOpen
  <2>2. CASE reqs' = reqs /\ (link' = link \/ Announces(e))
    BY <2>1, <2>2 DEF LoginOnce, LoginOpen, Announces, FrontInv, OffIsEmpty
  <2>3. CASE Drops(e)
    BY <2>1, <2>3 DEF Drops
  <2>4. ASSUME NEW r \in Request, FirstAnswered(r), link' = link \/ r.kind = "login"
        PROVE  /\ link' = "up"
               /\ \A m, k \in DOMAIN reqs' :
                    reqs'[m].kind = "login" /\ reqs'[k].kind = "login" => m = k
    <3>1. \A k \in DOMAIN reqs' : k + 1 \in DOMAIN reqs /\ reqs'[k] = reqs[k + 1]
      BY <2>4 DEF FirstAnswered
    <3>2. LoginOpen
      BY <2>1, <3>1 DEF LoginOpen
    <3>3. \A m, k \in DOMAIN reqs' :
            reqs'[m].kind = "login" /\ reqs'[k].kind = "login" => m = k
      <4> SUFFICES ASSUME NEW m \in DOMAIN reqs', NEW k \in DOMAIN reqs',
                          reqs'[m].kind = "login", reqs'[k].kind = "login"
                   PROVE  m = k
        OBVIOUS
      <4>1. m + 1 = k + 1
        BY <3>1, <3>2 DEF LoginOnce
      <4>2. m \in Nat /\ k \in Nat
        BY <2>4 DEF FirstAnswered
      <4> QED
        BY <4>1, <4>2
    <3>4. r.kind # "login"
      <4>1. 1 \in DOMAIN reqs /\ reqs[1] = r /\ n \in Nat /\ n >= 1
        BY <2>4 DEF FirstAnswered
      <4>2. r.kind = "login" => n + 1 = 1
        BY <2>1, <3>1, <3>2, <4>1 DEF LoginOnce
      <4> QED
        BY <4>1, <4>2
    <3> QED
      BY <2>4, <3>2, <3>3, <3>4 DEF LoginOnce
  <2> QED
    BY <2>2, <2>3, <2>4 DEF FrontEvent, Announces, AnswersLogin, AnswersSub, AnswersUnsub, Pushes
<1>2. LoginOpen' => LoginOpen /\ ~Drops(e) /\ ~AnswersLogin(e)
  <2> SUFFICES ASSUME LoginOpen' PROVE LoginOpen /\ ~Drops(e) /\ ~AnswersLogin(e)
    OBVIOUS
  <2>1. PICK n \in DOMAIN reqs' : reqs'[n].kind = "login"
    BY DEF LoginOpen
  <2>2. ~Drops(e)
    BY <2>1 DEF Drops
  <2>3. ASSUME NEW r \in Request, FirstAnswered(r) PROVE LoginOpen /\ r.kind # "login"
    <3>1. n + 1 \in DOMAIN reqs /\ reqs'[n] = reqs[n + 1] /\ n \in Nat /\ n >= 1
      BY <2>3 DEF FirstAnswered
    <3>2. LoginOpen
      BY <2>1, <3>1 DEF LoginOpen
    <3>3. 1 \in DOMAIN reqs /\ reqs[1] = r
      BY <2>3 DEF FirstAnswered
    <3>4. r.kind = "login" => n + 1 = 1
      BY <2>1, <3>1, <3>2, <3>3 DEF LoginOnce
    <3> QED
      BY <3>1, <3>2, <3>4
  <2> QED
    BY <2>1, <2>2, <2>3 DEF FrontEvent, Announces, AnswersLogin, AnswersSub, AnswersUnsub, Pushes,
       LoginOpen
<1>3. /\ e.kind = "login" => LoginOpen
      /\ OfSession(e) => LoginOpen \/ link = "logged"
  <2>1. ASSUME NEW r \in Request, FirstAnswered(r), r.kind = "login" PROVE LoginOpen
    BY <2>1 DEF FirstAnswered, LoginOpen
  <2> QED
    BY <2>1 DEF FrontEvent, Announces, Drops, AnswersLogin, AnswersSub, AnswersUnsub, Pushes,
       OfSession, FrontInv, PushedWhenLogged
<1>4. /\ link' = "logged" => link = "logged" \/ LoginOpen
      /\ link' = "logged" \/ LoginOpen' => ~Ends(e)
  <2>1. ASSUME NEW r \in Request, FirstAnswered(r), r.kind = "login" PROVE LoginOpen
    BY <2>1 DEF FirstAnswered, LoginOpen
  <2>2. LoginOpen /\ link = "off" => FALSE
    BY DEF LoginOpen, FrontInv, OffIsEmpty
  <2>3. LoginOpen => link = "up"
    BY DEF LoginOnce
  <2> QED
    BY <1>2, <2>1, <2>2, <2>3 DEF FrontEvent, Announces, Drops, AnswersLogin, AnswersSub,
       AnswersUnsub, Pushes, Ends
<1>5. NothingEnded'
  <2> SUFFICES ASSUME link' = "logged" \/ LoginOpen', NEW n \in DOMAIN inbox'
               PROVE  ~Ends(inbox'[n])
    BY DEF NothingEnded
  <2>1. link = "logged" \/ LoginOpen
    BY <1>2, <1>4
  <2>2. n \in DOMAIN inbox => inbox'[n] = inbox[n]
    BY DEF Grown
  <2>3. n \notin DOMAIN inbox => inbox'[n] = e
    BY DEF Grown
  <2> QED
    BY <1>4, <2>1, <2>2, <2>3 DEF NothingEnded
<1>6. EndIsLast'
  <2> SUFFICES ASSUME NEW m \in DOMAIN inbox', NEW n \in DOMAIN inbox', m < n, Ends(inbox'[m])
               PROVE  inbox'[n].kind # "login" /\ ~OfSession(inbox'[n])
    BY DEF EndIsLast
  <2>1. m \in DOMAIN inbox /\ inbox'[m] = inbox[m]
    BY DEF Grown
  <2>2. CASE n \in DOMAIN inbox
    BY <2>1, <2>2 DEF Grown, EndIsLast
  <2>3. CASE n \notin DOMAIN inbox
    <3>1. inbox'[n] = e
      BY <2>3 DEF Grown
    <3>2. ~(link = "logged" \/ LoginOpen)
      BY <2>1 DEF NothingEnded
    <3> QED
      BY <1>3, <3>1, <3>2
  <2> QED
    BY <2>2, <2>3
<1> QED
  BY <1>1, <1>5, <1>6

LEMMA OneLoginDrain ==
    ASSUME GwTypeOK, FrontInv, OneLogin, Drain, ~late' PROVE OneLogin'
<1> USE DEF OneLogin
<1>1. Shrunk /\ link' = link
  BY DrainShrinks, DrainKeeps
<1>2. \A n \in DOMAIN inbox' : n + 1 \in DOMAIN inbox /\ inbox'[n] = inbox[n + 1] /\ n \in Nat
  BY <1>1 DEF Shrunk
<1>3. EndIsLast'
  <2> SUFFICES ASSUME NEW m \in DOMAIN inbox', NEW n \in DOMAIN inbox', m < n, Ends(inbox'[m])
               PROVE  inbox'[n].kind # "login" /\ ~OfSession(inbox'[n])
    BY DEF EndIsLast
  <2>1. m + 1 < n + 1
    BY <1>2
  <2> QED
    BY <1>2, <2>1 DEF EndIsLast
<1>a. ASSUME LoginOpen' => LoginOpen,
             \A n \in DOMAIN reqs' : reqs'[n].kind = "login"
               => n \in DOMAIN reqs /\ reqs[n].kind = "login"
      PROVE  OneLogin'
  <2>1. LoginOnce'
    BY <1>1, <1>a DEF LoginOnce
  <2>2. NothingEnded'
    BY <1>1, <1>2, <1>a DEF NothingEnded
  <2> QED
    BY <1>3, <2>1, <2>2
<1>4. CASE reqs' = reqs
  BY <1>4, <1>a DEF LoginOpen
<1>5. CASE OnLogin /\ Extends(reqs', reqs, "sub", Resubscribe)
  BY <1>5, <1>a, LoginExtends DEF GwTypeOK
<1>6. CASE OnFront /\ creds /\ client # None /\ link # "off" /\ Extends(reqs', reqs, "login", {})
  <2>1. 1 \in DOMAIN inbox /\ inbox[1].kind = "front" /\ Ends(inbox[1])
    BY <1>1, <1>6 DEF Shrunk, OnFront, Handle, Ends
  <2>2. link # "logged" /\ ~LoginOpen /\ link = "up"
    BY <1>6, <2>1 DEF NothingEnded, GwTypeOK
  <2>3. \A n \in DOMAIN inbox : inbox[n].kind # "down"
    BY <1>6 DEF OnFront, AnotherSession
  <2>4. \A n \in DOMAIN inbox' : ~Ends(inbox'[n])
    <3> SUFFICES ASSUME NEW n \in DOMAIN inbox', Ends(inbox'[n]) PROVE FALSE
      OBVIOUS
    <3>1. n + 1 \in DOMAIN inbox /\ inbox'[n] = inbox[n + 1] /\ 1 < n + 1
      BY <1>1 DEF Shrunk
    <3>2. inbox[n + 1].kind # "login"
      BY <2>1, <3>1 DEF EndIsLast
    <3>3. inbox[n + 1].kind # "front"
      BY <2>1, <2>3, <3>1 DEF FrontInv, FrontsApart
    <3> QED
      BY <2>3, <3>1, <3>2, <3>3 DEF Ends
  <2>5. \A n \in DOMAIN reqs' : reqs'[n].kind = "login" => n = Len(reqs) + 1
    <3> SUFFICES ASSUME NEW n \in DOMAIN reqs', reqs'[n].kind = "login" PROVE n = Len(reqs) + 1
      OBVIOUS
    <3>1. /\ n \in 1..Len(reqs') /\ Len(reqs') = Len(reqs) + 1
          /\ DOMAIN reqs = 1..Len(reqs) /\ Len(reqs) \in Nat
      BY <1>6 DEF Extends, GwTypeOK
    <3>2. n \notin 1..Len(reqs)
      BY <1>6, <2>2, <3>1 DEF Extends, LoginOpen
    <3> QED
      BY <3>1, <3>2
  <2>6. LoginOnce'
    BY <1>1, <2>2, <2>5 DEF LoginOnce
  <2>7. NothingEnded'
    BY <2>4 DEF NothingEnded
  <2> QED
    BY <1>3, <2>6, <2>7
<1> QED
  BY <1>4, <1>5, <1>6, DrainRequests DEF DrainSends

LEMMA OneLoginStep ==
    ASSUME GwTypeOK, FrontInv, ~late => OneLogin, ~late', [Next]_vars, Alive'
    PROVE  OneLogin'
<1> USE DEF OneLogin
<1>a. ASSUME UNCHANGED <<link, reqs, inbox, late>> PROVE OneLogin'
  BY <1>a DEF LoginOnce, NothingEnded, EndIsLast, LoginOpen
<1>1. CASE UNCHANGED vars
  BY <1>a, <1>1 DEF vars, natVars, histVars
<1>2. CASE FrontStep \/ \E i \in Insts : Depth(i)
  <2>1. PICK e \in Event : Grown(e) /\ FrontEvent(e)
    BY <1>2, FrontEvents
  <2> QED
    BY <1>2, <2>1, OneLoginEvent, FrontKeeps DEF histVars
<1>3. CASE Drain
  <2>1. ~late
    BY <1>3 DEF Drain, OnFront, OnDown, OnLogin, OnSub, OnUnsub, OnDepth, histVars
  <2> QED
    BY <1>3, <2>1, OneLoginDrain
<1>4. ASSUME NEW c \in Conns, ConnectRefused(c) PROVE OneLogin'
  BY <1>a, <1>4 DEF ConnectRefused, histVars
<1>5. ASSUME NEW c \in Conns, NEW S \in SUBSET Insts, Connect(c, S) PROVE OneLogin'
  BY <1>a, <1>5 DEF Connect, histVars
<1>6. ASSUME NEW c \in Conns, NEW S \in SUBSET Insts, Subscribe(c, S) \/ Unsubscribe(c, S)
      PROVE  OneLogin'
  <2>1. UNCHANGED <<link, inbox, late>>
    BY <1>6 DEF Subscribe, Unsubscribe, histVars
  <2>2. /\ LoginOpen' => LoginOpen
        /\ \A n \in DOMAIN reqs' : reqs'[n].kind = "login"
             => n \in DOMAIN reqs /\ reqs[n].kind = "login"
    <3>1. CASE reqs' = reqs
      BY <3>1 DEF LoginOpen
    <3>2. ASSUME NEW kind \in {"sub", "unsub"}, NEW T \in SUBSET Insts,
                 Extends(reqs', reqs, kind, T)
          PROVE  /\ LoginOpen' => LoginOpen
                 /\ \A n \in DOMAIN reqs' : reqs'[n].kind = "login"
                      => n \in DOMAIN reqs /\ reqs[n].kind = "login"
      BY <3>2, LoginExtends DEF GwTypeOK
    <3> QED
      BY <1>6, <3>1, <3>2, CommandRequests
  <2>3. LoginOnce'
    BY <2>1, <2>2 DEF LoginOnce
  <2> QED
    BY <2>1, <2>2, <2>3 DEF NothingEnded, EndIsLast
<1>7. ASSUME NEW k \in Clients, ReleaseNative(k) PROVE OneLogin'
  <2>1. inbox' = inbox /\ late' = late
    BY <1>7 DEF ReleaseNative, histVars
  <2>2. CASE api = k
    <3>1. link' = "off" /\ reqs' = <<>>
      BY <1>7, <2>2 DEF ReleaseNative
    <3> QED
      BY <2>1, <3>1 DEF LoginOnce, NothingEnded, EndIsLast, LoginOpen
  <2>3. CASE api # k
    BY <1>7, <1>a, <2>1, <2>3 DEF ReleaseNative, natVars
  <2> QED
    BY <2>2, <2>3
<1>8. ASSUME NEW a \in Actors, Ending(a) PROVE OneLogin'
  BY <1>8, <1>a, EndingKeeps DEF natVars, histVars
<1>9. CASE Aside
  BY <1>9, <1>a, AsideKeeps DEF natVars, histVars
<1> QED
  BY <1>1, <1>2, <1>3, <1>4, <1>5, <1>6, <1>7, <1>8, <1>9, NextParts

-----------------------------------------------------------------------------
(* A runtime that accepts a connect, or has no credentials, hears nothing  *)
(* of a session: the events that led there were the last of it.            *)
LEMMA SilentFront ==
    ASSUME FrontInv, Silent, NEW e \in Event, Grown(e), FrontEvent(e)
    PROVE  Silent'
<1> USE DEF Silent
<1>1. ~AnswersLogin(e)
  BY DEF AnswersLogin, FirstAnswered, LoginOpen
<1>2. link' # "logged" /\ ~OfSession(e)
  BY <1>1 DEF FrontEvent, Announces, Drops, AnswersSub, AnswersUnsub, Pushes, OfSession,
     FrontInv, PushedWhenLogged
<1>3. ~LoginOpen'
  <2> SUFFICES ASSUME NEW n \in DOMAIN reqs', reqs'[n].kind = "login" PROVE FALSE
    BY DEF LoginOpen
  <2>1. ASSUME NEW r, FirstAnswered(r) PROVE FALSE
    <3>1. n + 1 \in DOMAIN reqs /\ reqs[n + 1].kind = "login"
      BY <2>1 DEF FirstAnswered
    <3> QED
      BY <3>1 DEF LoginOpen
  <2> QED
    BY <1>1, <2>1 DEF FrontEvent, Announces, Drops, AnswersSub, AnswersUnsub, Pushes, LoginOpen
<1>4. \A n \in DOMAIN inbox' : ~OfSession(inbox'[n])
  BY <1>2 DEF Grown
<1> QED
  BY <1>2, <1>3, <1>4

LEMMA SilentDrain ==
    ASSUME GwTypeOK, OneLogin, NoClient, SilentInv, Drain
    PROVE  SilentInv'
<1> SUFFICES ASSUME (Accepting \/ ~creds)' PROVE Silent'
  BY DEF SilentInv
<1>1. Shrunk /\ link' = link /\ creds' = creds /\ client # None
  BY DrainShrinks, DrainKeeps DEF NoClient
<1>2. 1 \in DOMAIN inbox /\ inbox[1] = Head(inbox)
  BY <1>1 DEF Shrunk
<1>3. ASSUME Ends(inbox[1]), reqs' = reqs PROVE Silent'
  <2>1. link # "logged" /\ ~LoginOpen
    BY <1>2, <1>3 DEF OneLogin, NothingEnded
  <2>2. \A n \in DOMAIN inbox' : ~OfSession(inbox'[n])
    <3> SUFFICES ASSUME NEW n \in DOMAIN inbox' PROVE ~OfSession(inbox'[n])
      OBVIOUS
    <3>1. n + 1 \in DOMAIN inbox /\ inbox'[n] = inbox[n + 1] /\ 1 < n + 1
      BY <1>1 DEF Shrunk
    <3> QED
      BY <1>2, <1>3, <3>1 DEF OneLogin, EndIsLast
  <2> QED
    BY <1>1, <1>3, <2>1, <2>2 DEF Silent, LoginOpen
<1>4. ASSUME Silent PROVE Silent'
  <2>1. ~OfSession(Head(inbox))
    BY <1>2, <1>4 DEF Silent
  <2>2. \A n \in DOMAIN inbox' : ~OfSession(inbox'[n])
    BY <1>1, <1>4 DEF Shrunk, Silent
  <2>3. CASE reqs' = reqs
    BY <1>1, <1>4, <2>2, <2>3 DEF Silent, LoginOpen
  <2>4. CASE OnLogin
    <3>1. ~Answered
      BY <2>1, <2>4 DEF OnLogin, Handle, OfSession, Answered
    <3> QED
      BY <2>3, <2>4, <3>1 DEF OnLogin
  <2>5. CASE OnFront /\ creds
    <3>1. Ends(inbox[1]) /\ state' = "connecting"
      BY <1>1, <1>2, <2>5 DEF OnFront, Handle, Ends
    <3> QED
      BY <1>1, <2>5, <3>1 DEF Accepting
  <2> QED
    BY <2>3, <2>4, <2>5 DEF Drain, OnFront, OnDown, OnSub, OnUnsub, OnDepth
<1>5. CASE Accepting \/ ~creds
  BY <1>4, <1>5 DEF SilentInv
<1>6. CASE ~Accepting /\ creds
  <2>1. Accepting'
    BY <1>1, <1>6
  <2>2. state' # state /\ state' \notin {"connecting", "connected", "streaming"}
    BY <1>6, <2>1 DEF Accepting
  <2>3. ~OnFront /\ ~OnSub /\ ~OnUnsub /\ ~OnDepth
    BY <1>1, <1>6, <2>2 DEF OnFront, OnSub, OnUnsub, OnDepth
  <2>4. CASE OnDown
    BY <1>2, <1>3, <2>4 DEF OnDown, Handle, Ends
  <2>5. CASE OnLogin
    <3>1. ~Answered
      BY <2>2, <2>5 DEF OnLogin
    <3> QED
      BY <1>2, <1>3, <2>5, <3>1 DEF OnLogin, Handle, Ends, Answered
  <2> QED
    BY <2>3, <2>4, <2>5 DEF Drain
<1> QED
  BY <1>5, <1>6

LEMMA SilentInvStep ==
    ASSUME GwTypeOK, FrontInv, OneLogin, OwnerInv, SilentInv, Draining, Draining', [Next]_vars
    PROVE  SilentInv'
<1>a. ASSUME UNCHANGED <<link, reqs, inbox, state, creds>> PROVE SilentInv'
  BY <1>a DEF SilentInv, Silent, Accepting, LoginOpen
<1>b. ASSUME Silent, link' = link \/ link' = "off", inbox' = inbox, LoginOpen' => LoginOpen
      PROVE  SilentInv'
  BY <1>b DEF SilentInv, Silent
<1>1. CASE UNCHANGED vars
  BY <1>a, <1>1 DEF vars, natVars, rtVars
<1>2. CASE FrontStep \/ \E i \in Insts : Depth(i)
  <2>1. PICK e \in Event : Grown(e) /\ FrontEvent(e)
    BY <1>2, FrontEvents DEF Draining
  <2>2. (Accepting \/ ~creds)' => Accepting \/ ~creds
    BY <1>2, FrontKeeps DEF rtVars, Accepting
  <2> QED
    BY <2>1, <2>2, SilentFront DEF SilentInv
<1>3. CASE Drain
  BY <1>3, SilentDrain DEF OwnerInv
<1>4. ASSUME NEW c \in Conns, ConnectRefused(c) PROVE SilentInv'
  <2>1. Accepting /\ UNCHANGED <<link, reqs, inbox>>
    BY <1>4 DEF ConnectRefused
  <2> QED
    BY <1>b, <2>1 DEF SilentInv, LoginOpen
<1>5. ASSUME NEW c \in Conns, NEW S \in SUBSET Insts, Connect(c, S) PROVE SilentInv'
  BY <1>5 DEF Connect, SilentInv, Accepting
<1>6. ASSUME NEW c \in Conns, NEW S \in SUBSET Insts, Subscribe(c, S) \/ Unsubscribe(c, S)
      PROVE  SilentInv'
  <2>1. UNCHANGED <<link, inbox, state, creds>>
    BY <1>6 DEF Subscribe, Unsubscribe
  <2>2. LoginOpen' => LoginOpen
    <3>1. CASE reqs' = reqs
      BY <3>1 DEF LoginOpen
    <3>2. ASSUME NEW kind \in {"sub", "unsub"}, NEW T \in SUBSET Insts,
                 Extends(reqs', reqs, kind, T)
          PROVE  LoginOpen' => LoginOpen
      BY <3>2, LoginExtends DEF GwTypeOK
    <3> QED
      BY <1>6, <3>1, <3>2, CommandRequests
  <2> QED
    BY <2>1, <2>2 DEF SilentInv, Silent, Accepting
<1>7. ASSUME NEW k \in Clients, ReleaseNative(k) PROVE SilentInv'
  <2>1. UNCHANGED <<inbox, state, creds>>
    BY <1>7 DEF ReleaseNative, rtVars
  <2>2. CASE api = k
    <3>1. link' = "off" /\ reqs' = <<>>
      BY <1>7, <2>2 DEF ReleaseNative
    <3> QED
      BY <2>1, <3>1 DEF SilentInv, Silent, Accepting, LoginOpen
  <2>3. CASE api # k
    BY <1>7, <1>a, <2>1, <2>3 DEF ReleaseNative, natVars
  <2> QED
    BY <2>2, <2>3
<1>8. ASSUME NEW a \in Actors, Ending(a) PROVE SilentInv'
  <2>1. UNCHANGED <<api, link, reqs, inbox, client>> /\ a \in Conns /\ at[a] \in {"waiting", "storing"}
    BY <1>8, EndingKeeps DEF natVars, Draining, Actors
  <2>2. CASE call[a] = "disconnect"
    <3>1. client = None
      BY <2>1, <2>2 DEF OwnerInv, Stopped
    <3>2. inbox = <<>> /\ link = "off" /\ reqs = <<>>
      BY <3>1 DEF OwnerInv, NoClient, Held, GwTypeOK
    <3> QED
      BY <2>1, <3>2 DEF SilentInv, Silent, LoginOpen
  <2>3. CASE call[a] # "disconnect"
    BY <1>8, <1>a, <2>1, <2>3, EndingKeeps
  <2> QED
    BY <2>2, <2>3
<1>9. CASE Aside
  BY <1>9, <1>a, AsideKeeps DEF natVars
<1> QED
  BY <1>1, <1>2, <1>3, <1>4, <1>5, <1>6, <1>7, <1>8, <1>9, NextParts

-----------------------------------------------------------------------------
(* Rows and batches. *)
LEMMA LateKept == [Next]_vars /\ ~late' => ~late
<1> SUFFICES ASSUME [Next]_vars, ~late' PROVE ~late
  OBVIOUS
<1>1. CASE UNCHANGED vars
  BY <1>1 DEF vars, histVars
<1>2. CASE Drain
  BY <1>2 DEF Drain, OnFront, OnDown, OnLogin, OnSub, OnUnsub, OnDepth, histVars
<1>3. ASSUME NEW c \in Conns, NEW S \in SUBSET Insts,
             ConnectRefused(c) \/ Connect(c, S) \/ Subscribe(c, S) \/ Unsubscribe(c, S)
      PROVE  ~late
  BY <1>3 DEF ConnectRefused, Connect, Subscribe, Unsubscribe, histVars
<1>4. ASSUME NEW k \in Clients, ReleaseNative(k) PROVE ~late
  BY <1>4 DEF ReleaseNative, histVars
<1> QED
  BY <1>1, <1>2, <1>3, <1>4, NextParts, FrontKeeps, AsideKeeps, EndingKeeps DEF histVars

(* A tick is handled while the batch is open, and not while a finalize()   *)
(* has the buffers.                                                        *)
LEMMA DepthInBatch ==
    ASSUME TasksInv, OwnerInv, SilentInv, OnDepth, GwTypeOK
    PROVE  abatch /\ \A a \in Actors : at[a] # "storing"
<1>1. Draining /\ inbox # <<>> /\ Head(inbox).kind = "depth"
  BY DEF OnDepth, Handle
<1>2. 1 \in DOMAIN inbox /\ OfSession(inbox[1])
  BY <1>1 DEF GwTypeOK, OfSession
<1>3. creds /\ client # None
  BY <1>1, <1>2 DEF SilentInv, Silent, OwnerInv, NoClient
<1>4. ASSUME NEW c \in Conns, at[c] = "storing" PROVE FALSE
  BY <1>3, <1>4 DEF TasksInv, CallKinds, OwnerInv, Stopped, Refused
<1> QED
  BY <1>1, <1>3, <1>4 DEF OwnerInv, NoBatch, Draining, Actors

LEMMA RowsInBatchEnding ==
    ASSUME GwTypeOK, TasksInv, RowsInBatch, ~late, NEW a \in Actors, Ending(a)
    PROVE  RowsInBatch'
<1>1. /\ at' = [at EXCEPT ![a] = "idle"]
      /\ \A b \in Actors : at'[b] = "storing" => at[b] = "storing" /\ b # a
  <2>1. at' = [at EXCEPT ![a] = "idle"]
    BY EndingKeeps
  <2>2. at \in [Actors -> {"idle", "releasing", "waiting", "storing"}]
    BY DEF GwTypeOK
  <2> QED
    BY <2>1, <2>2
<1>2. CASE FinalizeSkip(a)
  <2>1. UNCHANGED <<rows, abatch>>
    BY <1>2 DEF FinalizeSkip, archVars
  <2> QED
    BY <1>1, <2>1 DEF RowsInBatch
<1>3. CASE FinalizeOK(a)
  <2>1. at[a] = "storing" /\ rows' = rows
    BY <1>3 DEF FinalizeOK
  <2> QED
    BY <1>1, <2>1 DEF RowsInBatch
<1>4. CASE FinalizeFails(a)
  <2>1. at[a] = "storing" /\ abatch' = abatch
    BY <1>4 DEF FinalizeFails
  <2>2. abatch
    BY <2>1 DEF TasksInv, StoringBatch
  <2>3. \A b \in Actors : at'[b] # "storing"
    BY <1>1, <2>1 DEF GwTypeOK
  <2> QED
    BY <2>1, <2>2, <2>3 DEF RowsInBatch
<1> QED
  BY <1>2, <1>3, <1>4 DEF Ending

LEMMA RowsInBatchStep ==
    ASSUME GwTypeOK, TasksInv, Draining => OwnerInv /\ SilentInv, RowsInBatch,
           ~late, ~late', [Next]_vars
    PROVE  RowsInBatch'
<1>a. ASSUME UNCHANGED <<rows, abatch, at>> PROVE RowsInBatch'
  BY <1>a DEF RowsInBatch
<1>b. at \in [Actors -> {"idle", "releasing", "waiting", "storing"}]
  BY DEF GwTypeOK
<1>c. ASSUME ~rows' PROVE RowsInBatch'
  BY <1>c DEF RowsInBatch
<1>d. ASSUME UNCHANGED <<rows, abatch>>,
             \A b \in Actors : at'[b] = "storing" => at[b] = "storing"
      PROVE  RowsInBatch'
  BY <1>d DEF RowsInBatch
<1>1. CASE UNCHANGED vars
  BY <1>a, <1>1 DEF vars, archVars, callVars
<1>2. CASE FrontStep \/ \E i \in Insts : Depth(i)
  BY <1>2, <1>a, FrontKeeps DEF archVars, callVars
<1>3. CASE Drain
  <2>1. UNCHANGED <<abatch, at>> /\ Draining
    BY <1>3, DrainKeeps DEF callVars
  <2>2. CASE OnDepth
    <3>1. abatch /\ \A a \in Actors : at[a] # "storing"
      BY <2>1, <2>2, DepthInBatch
    <3> QED
      BY <2>1, <3>1 DEF RowsInBatch
  <2>3. CASE rows' = rows
    BY <1>a, <2>1, <2>3
  <2> QED
    BY <1>3, <2>2, <2>3 DEF Drain, OnFront, OnDown, OnLogin, OnSub, OnUnsub
<1>4. ASSUME NEW c \in Conns, NEW S \in SUBSET Insts, ConnectRefused(c) \/ Connect(c, S)
      PROVE  RowsInBatch'
  BY <1>4, <1>c DEF ConnectRefused, Connect
<1>5. ASSUME NEW c \in Conns, NEW S \in SUBSET Insts, Subscribe(c, S) \/ Unsubscribe(c, S)
      PROVE  RowsInBatch'
  BY <1>5, <1>a DEF Subscribe, Unsubscribe, archVars, callVars
<1>6. ASSUME NEW k \in Clients, ReleaseNative(k) PROVE RowsInBatch'
  BY <1>6, <1>a DEF ReleaseNative, archVars
<1>7. ASSUME NEW a \in Actors, Ending(a) PROVE RowsInBatch'
  BY <1>7, RowsInBatchEnding
<1>8. ASSUME NEW c \in Conns, Disconnect(c) \/ ConnectionLost(c) PROVE RowsInBatch'
  BY <1>8, <1>b, <1>d DEF Disconnect, Leave, ConnectionLost, archVars
<1>9. ASSUME NEW a \in Actors, ReleaseReturn(a) \/ FinalizeStart(a) PROVE RowsInBatch'
  <2>1. CASE ReleaseReturn(a)
    BY <2>1, <1>b, <1>d DEF ReleaseReturn, archVars
  <2>2. CASE FinalizeStart(a)
    BY <2>2, <1>c DEF FinalizeStart, BuffersTaken
  <2> QED
    BY <1>9, <2>1, <2>2
<1>10. CASE Flush \/ StopRequested
  <2>1. CASE Flush
    <3>1. UNCHANGED <<abatch, at>>
      BY <2>1 DEF Flush, callVars
    <3>2. rows' = FALSE \/ rows' = rows
      BY <2>1 DEF Flush
    <3> QED
      BY <3>1, <3>2, <1>a, <1>c
  <2>2. CASE StopRequested
    BY <2>2, <1>a DEF StopRequested, archVars, callVars
  <2> QED
    BY <1>10, <2>1, <2>2
<1>11. CASE Shutdown
  BY <1>11, <1>b, <1>d DEF Shutdown, Leave, archVars
<1> QED
  BY <1>1, <1>2, <1>3, <1>4, <1>5, <1>6, <1>7, <1>8, <1>9, <1>10, <1>11, NextParts DEF Aside

LEMMA RowsHaveBatchStep ==
    ASSUME GwTypeOK, TasksInv, Draining => OwnerInv /\ SilentInv, RowsHaveBatch,
           ~late, [Next]_vars
    PROVE  RowsHaveBatch'
<1> SUFFICES ~orphan'
  BY DEF RowsHaveBatch
<1>a. ~orphan
  BY DEF RowsHaveBatch
<1>1. CASE OnDepth
  <2>1. abatch
    BY <1>1, DepthInBatch DEF OnDepth, Handle
  <2> QED
    BY <1>1, <1>a, <2>1 DEF OnDepth
<1>2. CASE Drain /\ ~OnDepth
  BY <1>2, <1>a DEF Drain, OnFront, OnDown, OnLogin, OnSub, OnUnsub, histVars
<1>3. ASSUME NEW c \in Conns, NEW S \in SUBSET Insts,
             ConnectRefused(c) \/ Connect(c, S) \/ Subscribe(c, S) \/ Unsubscribe(c, S)
      PROVE  ~orphan'
  BY <1>3, <1>a DEF ConnectRefused, Connect, Subscribe, Unsubscribe, histVars
<1>4. ASSUME NEW k \in Clients, ReleaseNative(k) PROVE ~orphan'
  BY <1>4, <1>a DEF ReleaseNative, histVars
<1>5. CASE UNCHANGED vars
  BY <1>5, <1>a DEF vars, histVars
<1> QED
  BY <1>a, <1>1, <1>2, <1>3, <1>4, <1>5, NextParts, FrontKeeps, AsideKeeps, EndingKeeps
     DEF histVars

LEMMA StopLeavesNoRowsStep ==
    ASSUME GwTypeOK, TasksInv, RowsInBatch, StopLeavesNoRows, ~late, [Next]_vars
    PROVE  StopLeavesNoRows'
<1> SUFFICES ASSUME proc' = "stopped", ~failure' PROVE ~rows' /\ ~abatch'
  BY DEF StopLeavesNoRows
<1>1. CASE UNCHANGED vars
  BY <1>1 DEF vars, archVars, procVars, StopLeavesNoRows
<1>2. ASSUME NEW k \in Clients, ReleaseNative(k) PROVE ~rows' /\ ~abatch'
  BY <1>2 DEF ReleaseNative, archVars, procVars, StopLeavesNoRows
<1>3. ASSUME NEW a \in Actors, Ending(a) PROVE ~rows' /\ ~abatch'
  <2>1. Alive /\ at[a] \in {"waiting", "storing"}
    BY <1>3, EndingKeeps DEF LoopFree
  <2>2. call[a] = "shutdown"
    BY <1>3, <2>1 DEF Ending, FinalizeSkip, FinalizeOK, FinalizeFails, Finish, Alive
  <2>3. CASE FinalizeSkip(a)
    <3>1. ~abatch /\ UNCHANGED <<rows, abatch>>
      BY <2>2, <2>3 DEF FinalizeSkip, NothingToStore, archVars
    <3> QED
      BY <3>1 DEF RowsInBatch
  <2>4. CASE FinalizeOK(a)
    BY <1>3, <2>4 DEF FinalizeOK, RowsInBatch
  <2>5. CASE FinalizeFails(a)
    BY <2>2, <2>5 DEF FinalizeFails, Finish
  <2> QED
    BY <1>3, <2>3, <2>4, <2>5 DEF Ending
<1>4. CASE FrontStep \/ (\E i \in Insts : Depth(i)) \/ Drain
  BY <1>4, FrontKeeps, DrainKeeps DEF Alive, Draining
<1>5. ASSUME NEW c \in Conns, NEW S \in SUBSET Insts,
             ConnectRefused(c) \/ Connect(c, S) \/ Subscribe(c, S) \/ Unsubscribe(c, S)
      PROVE  FALSE
  BY <1>5 DEF ConnectRefused, Connect, Subscribe, Unsubscribe, Commanded, LoopFree, Alive, procVars
<1> QED
  BY <1>1, <1>2, <1>3, <1>4, <1>5, NextParts, AsideKeeps

-----------------------------------------------------------------------------
(* The invariant, and what follows from it. *)
LEMMA GwInvInit == Init => GwInv
<1> SUFFICES ASSUME Init PROVE GwInv
  OBVIOUS
<1>a. /\ api = None /\ link = "off" /\ subs = {} /\ reqs = <<>> /\ inbox = <<>> /\ client = None
      /\ state = "idle" /\ insts = [i \in Insts |-> "none"] /\ ~rows /\ ~orphan /\ proc = "run"
      /\ \A a \in Actors : at[a] = "idle"
  BY DEF Init
<1>1. GwTypeOK
  BY TypeInit
<1>2. TasksInv
  BY <1>a, Nobody DEF TasksInv, ShutdownFlag, CallKinds, StoringBatch, Actors
<1>3. DOMAIN inbox = {} /\ DOMAIN reqs = {}
  BY <1>a
<1>4. FrontInv /\ ShownInv
  BY <1>a, <1>3 DEF FrontInv, OffIsEmpty, PushedWhenLogged, FrontsApart, OffIsAnnounced, ShownInv,
     SessionEvents, LoginAfterDown, StateShown
<1>5. StreamInv
  BY <1>a DEF StreamInv, AnswerTrue, StreamTrue
<1>6. OneLogin
  BY <1>3 DEF OneLogin, LoginOnce, NothingEnded, EndIsLast, LoginOpen
<1>7. OwnerInv
  BY <1>a DEF OwnerInv, Held, ReleaseTrue, Stopped, Refused, NoClient, NoBatch, Actors
<1>8. SilentInv
  BY <1>a, <1>3 DEF SilentInv, Silent, LoginOpen
<1>9. RowsInBatch /\ RowsHaveBatch /\ StopLeavesNoRows
  BY <1>a DEF RowsInBatch, RowsHaveBatch, StopLeavesNoRows
<1> QED
  BY <1>1, <1>2, <1>4, <1>5, <1>6, <1>7, <1>8, <1>9 DEF GwInv, LinkInv

LEMMA GwInvStep == OneConnection /\ GwInv /\ [Next]_vars => GwInv'
<1> SUFFICES ASSUME OneConnection, GwInv, [Next]_vars PROVE GwInv'
  OBVIOUS
<1>a. /\ GwTypeOK /\ TasksInv /\ (Alive => FrontInv /\ ShownInv /\ StreamInv /\ (~late => OneLogin))
      /\ (Draining => OwnerInv /\ (~late => SilentInv))
      /\ RowsInBatch /\ RowsHaveBatch /\ StopLeavesNoRows
  BY DEF GwInv, LinkInv
<1>b. (Alive' => Alive) /\ (Draining' => Draining) /\ (~late' => ~late)
  BY <1>a, AliveKept, DrainingKept, LateKept
<1>c. (Draining => Alive) /\ (Draining => Held)
  BY <1>a DEF Draining, OwnerInv
<1>1. GwTypeOK' /\ TasksInv'
  BY <1>a, TypeStep, TasksStep
<1>2. ASSUME Alive' PROVE LinkInv'
  <2>1. FrontInv'
    BY <1>a, <1>b, <1>2, FrontInvStep
  <2>2. ShownInv'
    BY <1>a, <1>b, <1>2, ShownInvStep
  <2>3. StreamInv'
    BY <1>a, <1>b, <1>c, <1>2, StreamInvStep
  <2> QED
    BY <2>1, <2>2, <2>3 DEF LinkInv
<1>3. ASSUME Alive', ~late' PROVE OneLogin'
  BY <1>a, <1>b, <1>3, OneLoginStep
<1>4. ASSUME Draining' PROVE OwnerInv'
  BY <1>a, <1>b, <1>4, OwnerInvStep
<1>5. ASSUME Draining', ~late' PROVE SilentInv'
  BY <1>a, <1>b, <1>c, <1>5, SilentInvStep
<1>6. RowsInBatch'
  <2>1. CASE ~late'
    BY <1>a, <1>b, <2>1, RowsInBatchStep
  <2>2. CASE late'
    BY <2>2 DEF RowsInBatch
  <2> QED
    BY <2>1, <2>2
<1>7. RowsHaveBatch'
  <2>1. CASE ~late'
    BY <1>a, <1>b, <2>1, RowsHaveBatchStep
  <2>2. CASE late'
    BY <2>2 DEF RowsHaveBatch
  <2> QED
    BY <2>1, <2>2
<1>8. StopLeavesNoRows'
  <2>1. CASE ~late'
    BY <1>a, <1>b, <2>1, StopLeavesNoRowsStep
  <2>2. CASE late'
    BY <2>2 DEF StopLeavesNoRows
  <2> QED
    BY <2>1, <2>2
<1> QED
  BY <1>1, <1>2, <1>3, <1>4, <1>5, <1>6, <1>7, <1>8 DEF GwInv

LEMMA GwInvHolds == ASSUME OneConnection PROVE Spec => []GwInv
<1>1. GwInv /\ [Next]_vars => GwInv'
  BY GwInvStep
<1> QED
  BY <1>1, GwInvInit, PTL DEF Spec

(* NoLeakedApi, for any number of instruments, clients, events and         *)
(* requests: through refused connects, cut connections and releases that   *)
(* outlive their command, the runtime always holds the client that can     *)
(* release the process-wide CTP api (process.py _ctl_connect,              *)
(* _stop_stream; md_shim.cpp md_create).                                   *)
THEOREM NoLeakedApiHolds == ASSUME OneConnection PROVE Spec => []NoLeakedApi
<1>1. GwInv => NoLeakedApi
  <2> SUFFICES ASSUME GwInv, proc = "run", api # None PROVE client = api
    BY DEF NoLeakedApi
  <2>1. Draining
    BY DEF GwInv, TasksInv, ShutdownFlag, Draining, Alive
  <2> QED
    BY <2>1 DEF GwInv, OwnerInv, Held
<1> QED
  BY <1>1, GwInvHolds, PTL

(* RowsHaveBatch: whatever the order of front events, commands, releases   *)
(* and finalizes, no tick reaches the archiver outside a batch, unless a   *)
(* login was sent for a session that had already ended (process.py         *)
(* _handle_depth; archiver.py add_row).                                    *)
THEOREM RowsHaveBatchHolds == ASSUME OneConnection PROVE Spec => []RowsHaveBatch
<1>1. GwInv => RowsHaveBatch
  BY DEF GwInv
<1> QED
  BY <1>1, GwInvHolds, PTL

(* StreamingIsTrue: a quiet gateway that shows "streaming" has a logged in *)
(* front, and the front it is logged in to pushes every instrument it      *)
(* shows as streaming, after any number of disconnections, logins and      *)
(* answers that were queued across them (process.py _handle_ctp_event).    *)
THEOREM StreamingIsTrueHolds == ASSUME OneConnection PROVE Spec => []StreamingIsTrue
<1>1. GwInv => StreamingIsTrue
  <2> SUFFICES ASSUME GwInv, Quiet, api # None
               PROVE  /\ state = "streaming" /\ ~stale => link = "logged"
                      /\ link = "logged" => Listed({"streaming"}) \subseteq subs
    BY DEF StreamingIsTrue
  <2>1. ShownInv /\ StreamInv
    BY DEF GwInv, LinkInv, Quiet, Alive
  <2>2. DOMAIN inbox = {} /\ DOMAIN reqs = {}
    BY DEF Quiet
  <2>3. state = "streaming" /\ ~stale => link = "logged"
    BY <2>1, <2>2 DEF ShownInv, StateShown, DownAfter
  <2>4. ASSUME link = "logged", NEW i \in Insts, insts[i] = "streaming" PROVE i \in subs
    <3>1. WillStream(i)
      BY <2>2, <2>4 DEF WillStream
    <3> QED
      BY <2>1, <2>2, <2>4, <3>1 DEF StreamInv, StreamTrue, SubOpen, LoginQueued
  <2> QED
    BY <2>3, <2>4 DEF Listed
<1> QED
  BY <1>1, GwInvHolds, PTL

(* StopLeavesNoRows: a gateway that stopped without a failure has no row   *)
(* left in the archiver and no batch open, whatever was under way when     *)
(* the signal or the shutdown command came (process.py _shutdown;          *)
(* archiver.py finalize).                                                  *)
THEOREM StopLeavesNoRowsHolds == ASSUME OneConnection PROVE Spec => []StopLeavesNoRows
<1>1. GwInv => StopLeavesNoRows
  BY DEF GwInv
<1> QED
  BY <1>1, GwInvHolds, PTL
=============================================================================
