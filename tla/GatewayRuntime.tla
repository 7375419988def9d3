--------------------------- MODULE GatewayRuntime ---------------------------
(***************************************************************************)
(* The gateway runtime (gateway/process.py) between its control            *)
(* connections (gateway/publisher.py), the native CTP client               *)
(* (gateway/native) and the archiver (gateway/archiver.py).                *)
(*                                                                         *)
(* Everything in Python runs on one event loop: a step below is what       *)
(* happens between two awaits that can suspend.  CTP threads only append   *)
(* to the inbox; the drain task handles it in order.  Each connection      *)
(* handles one command at a time; "main" is _shutdown().  release() runs   *)
(* in a worker thread, and so do the file operations of finalize(), under  *)
(* the archiver's asyncio lock.  The front, and the library below the      *)
(* binding, are external.                                                  *)
(***************************************************************************)
EXTENDS Integers, Sequences, FiniteSets

CONSTANTS Conns,     \* control connections of the API process
          Insts,     \* instruments
          MaxClient, \* bound: CtpMdClient objects alive at once
          MaxInbox,  \* bound: queued CTP events
          MaxReqs    \* bound: requests the front has not answered

Main    == "main"
Actors  == Conns \cup {Main}
Clients == 1..MaxClient
None    == 0

ASSUME ActorsAssumption == Conns \cap {Main, "nobody"} = {}
ASSUME BoundsAssumption == IsFiniteSet(Insts) /\ {MaxClient, MaxInbox, MaxReqs} \subseteq Nat

VARIABLES
    api,      \* the client whose md_create() made the process-wide g_api
    link,     \* its front: "off", "up" (connected) or "logged" (logged in)
    subs,     \* instruments the front pushes
    reqs,     \* requests it has not answered yet
    dangling, \* the registered callback belongs to a client nobody keeps
    state, creds, insts, client, batch, \* _state, _credentials, ... _batch_id
    failure, closing,                   \* _failure; the publisher's _closing
    inbox,    \* _inbox
    busy,     \* the drain task is in its loop: no other Python code runs
    abatch,   \* the archiver's _batch_id is not None
    rows,     \* the archiver's buffers hold rows
    taken,    \* rows a running finalize() took out of them
    holder,   \* who holds the archiver's lock
    proc,     \* the process: "run", "stopping" (stop event), "stopped", "dead"
    at,       \* at[a]: where the call of a is suspended
    call,     \* call[a]: which call that is
    rel,      \* rel[a]: the client whose release() it awaits
    threads,  \* clients whose release() is running in a worker thread
    orphan,   \* history: a row came when the archiver had no batch
    late,     \* history: a login was sent to a later session of the front than
              \* the one that was announced
    stale     \* the state is "streaming" since a refused subscription

natVars  == <<api, link, subs, reqs, dangling>>
rtVars   == <<state, creds, insts, client, batch>>
archVars == <<abatch, rows, taken, holder>>
callVars == <<at, call, rel, threads>>
procVars == <<proc, failure, closing, busy>>
histVars == <<orphan, late, stale>>
vars == <<natVars, rtVars, archVars, callVars, procVars, inbox, histVars>>

States == {"idle", "connecting", "connected", "streaming", "disconnected", "failed"}
Event == [kind : {"front", "down"}] \cup [kind : {"login"}, ok : BOOLEAN]
         \cup [kind : {"sub"}, inst : Insts, ok : BOOLEAN]
         \cup [kind : {"unsub", "depth"}, inst : Insts]
Request == [kind : {"login"}] \cup [kind : {"sub", "unsub"}, inst : Insts]

Listed(S) == {i \in Insts : insts[i] \in S}
Known == Listed({"subscribing", "streaming", "failed"})

Alive == proc \in {"run", "stopping"}
(* The drain task empties the inbox without a suspension: meanwhile no     *)
(* other step of the event loop runs.                                      *)
LoopFree == Alive /\ ~busy
(* _shutdown() cancels the drain task when its release() has returned. *)
Draining == Alive /\ at[Main] \in {"idle", "releasing"}
Released(c) == c # None /\ api # c

GwTypeOK ==
    /\ api \in Clients \cup {None} /\ link \in {"off", "up", "logged"}
    /\ subs \subseteq Insts /\ reqs \in Seq(Request) /\ dangling \in BOOLEAN
    /\ state \in States /\ {creds, batch, failure, closing, busy} \subseteq BOOLEAN
    /\ insts \in [Insts -> {"none", "subscribing", "streaming", "failed"}]
    /\ client \in Clients \cup {None} /\ inbox \in Seq(Event)
    /\ {abatch, rows, taken, orphan, late, stale} \subseteq BOOLEAN
    /\ holder \in Actors \cup {"nobody"}
    /\ proc \in {"run", "stopping", "stopped", "dead"}
    /\ at \in [Actors -> {"idle", "releasing", "waiting", "storing"}]
    /\ call \in [Actors -> {"none", "connect", "disconnect", "shutdown"}]
    /\ rel \in [Actors -> Clients \cup {None}] /\ threads \subseteq Clients
    /\ \A a \in Actors : at[a] = "storing" <=> holder = a
    /\ taken => holder # "nobody"
    /\ api = None => link = "off" /\ subs = {} /\ reqs = <<>>

Init ==
    /\ api = None /\ link = "off" /\ subs = {} /\ reqs = <<>> /\ dangling = FALSE
    /\ state = "idle" /\ creds = FALSE /\ client = None /\ batch = FALSE
    /\ insts = [i \in Insts |-> "none"]
    /\ failure = FALSE /\ closing = FALSE /\ inbox = <<>> /\ busy = FALSE
    /\ abatch = FALSE /\ rows = FALSE /\ taken = FALSE /\ holder = "nobody"
    /\ proc = "run"
    /\ at = [a \in Actors |-> "idle"] /\ call = [a \in Actors |-> "none"]
    /\ rel = [a \in Actors |-> None] /\ threads = {}
    /\ orphan = FALSE /\ late = FALSE /\ stale = FALSE

-----------------------------------------------------------------------------
(* The native side.  A callback posts an event; if the callback's owner is *)
(* gone the behaviour is undefined: it works, or the process dies.         *)
Post(e) ==
    /\ Len(inbox) < MaxInbox
    /\ inbox' = Append(inbox, e)
    /\ UNCHANGED proc
CallbackGone == dangling /\ proc' = "dead" /\ UNCHANGED inbox
Callback(e) ==
    /\ Alive
    /\ Post(e) \/ CallbackGone
    /\ UNCHANGED <<api, dangling, rtVars, archVars, callVars, failure, closing, busy,
                   histVars>>

FrontUp ==
    /\ api # None /\ link = "off"
    /\ link' = "up"
    /\ Callback([kind |-> "front"])
    /\ UNCHANGED <<subs, reqs>>

(* The link drops: the session's subscriptions and open requests are gone; *)
(* the library connects again by itself.                                   *)
LinkDrop ==
    /\ link # "off"
    /\ link' = "off" /\ subs' = {} /\ reqs' = <<>>
    /\ Callback([kind |-> "down"])

AnswerLogin(ok) ==
    /\ reqs # <<>> /\ Head(reqs).kind = "login"
    /\ reqs' = Tail(reqs)
    /\ link' = IF ok THEN "logged" ELSE link
    /\ Callback([kind |-> "login", ok |-> ok])
    /\ UNCHANGED subs

AnswerSub(ok) ==
    /\ reqs # <<>> /\ Head(reqs).kind = "sub"
    /\ ok => link = "logged"
    /\ reqs' = Tail(reqs)
    /\ LET i == Head(reqs).inst IN
         /\ subs' = IF ok THEN subs \cup {i} ELSE subs
         /\ Callback([kind |-> "sub", inst |-> i, ok |-> ok])
    /\ UNCHANGED link

AnswerUnsub ==
    /\ reqs # <<>> /\ Head(reqs).kind = "unsub"
    /\ reqs' = Tail(reqs)
    /\ subs' = subs \ {Head(reqs).inst}
    /\ Callback([kind |-> "unsub", inst |-> Head(reqs).inst])
    /\ UNCHANGED link

(* A push; one not yet handled stands for any number. *)
Depth(i) ==
    /\ i \in subs
    /\ \A n \in DOMAIN inbox : inbox[n].kind # "depth"
    /\ Callback([kind |-> "depth", inst |-> i])
    /\ UNCHANGED <<link, subs, reqs>>

(* md_login, md_subscribe and md_unsubscribe: nothing is sent without a    *)
(* connected front; instruments go in any order.                           *)
Orders(S) == {q \in [1..Cardinality(S) -> S] : \A i \in S : \E n \in DOMAIN q : q[n] = i}
Requests(kind, S) ==
    IF kind = "login" THEN {<<[kind |-> "login"]>>}
    ELSE {[n \in DOMAIN q |-> [kind |-> kind, inst |-> q[n]]] : q \in Orders(S)}
Send(kind, S) ==
    \E new \in Requests(kind, S) : reqs' = IF link = "off" THEN reqs ELSE reqs \o new

-----------------------------------------------------------------------------
(* The drain task: _handle_ctp_event(). *)
Handle(kind) ==
    /\ Draining /\ inbox # <<>>
    /\ Head(inbox).kind = kind
    /\ inbox' = Tail(inbox)
    /\ busy' = (inbox' # <<>>)
    /\ UNCHANGED <<api, link, subs, dangling, creds, client, batch, abatch, taken,
                   holder, callVars, proc, closing>>
Answered == Head(inbox).ok

(* Log in (again), unless the credentials or the client are gone. *)
AnotherSession == link # "off" /\ \E n \in DOMAIN inbox : inbox[n].kind = "down"
OnFront ==
    /\ Handle("front")
    /\ IF creds /\ client # None
         THEN state' = "connecting" /\ Send("login", {}) /\ late' = (late \/ AnotherSession)
         ELSE UNCHANGED <<state, reqs, late>>
    /\ UNCHANGED <<insts, rows, failure, orphan, stale>>

OnDown ==
    /\ Handle("down")
    /\ state' = "disconnected"
    /\ UNCHANGED <<reqs, insts, rows, failure, histVars>>

(* What a successful login subscribes to: everything in _instruments. *)
ResubscribeNew == Listed({"subscribing"})
Resubscribe == Known

(* subscribe() of a released client raises; the drain task notes it. *)
OnLogin ==
    /\ Handle("login")
    /\ state' = IF Answered THEN "connected" ELSE "failed"
    /\ IF ~Answered \/ client = None \/ Resubscribe = {}
         THEN UNCHANGED <<reqs, failure>>
       ELSE IF Released(client) THEN failure' = TRUE /\ UNCHANGED reqs
       ELSE Send("sub", Resubscribe) /\ UNCHANGED failure
    /\ UNCHANGED <<insts, rows, histVars>>

OnSub ==
    /\ Handle("sub")
    /\ insts' = [insts EXCEPT ![Head(inbox).inst] =
                   IF Answered THEN "streaming" ELSE "failed"]
    /\ state' = IF \E i \in Insts : insts'[i] = "streaming"
                  THEN "streaming" ELSE state
    /\ stale' = (state' = "streaming" /\ IF state = "streaming" THEN stale ELSE ~Answered)
    /\ UNCHANGED <<reqs, rows, failure, orphan, late>>

OnUnsub ==
    /\ Handle("unsub")
    /\ insts' = [insts EXCEPT ![Head(inbox).inst] = "none"]
    /\ UNCHANGED <<state, reqs, rows, failure, histVars>>

(* _handle_depth(): add_row() raises without a batch. *)
OnDepth ==
    /\ Handle("depth")
    /\ LET wanted == Head(inbox).inst \in Known IN
         /\ rows' = (rows \/ (wanted /\ abatch))
         /\ orphan' = (orphan \/ (wanted /\ ~abatch))
         /\ failure' = (failure \/ (wanted /\ ~abatch))
    /\ UNCHANGED <<reqs, state, insts, late, stale>>

-----------------------------------------------------------------------------
(* Control commands: connection c is idle and the publisher not closing.   *)
(* (A command that sends requests finds at most MaxReqs of them open.)     *)
Commanded(c) == LoopFree /\ ~closing /\ at[c] = "idle"

AcceptingAlways == TRUE
Accepting == state \in {"idle", "disconnected", "failed"}

(* A client object nobody refers to stands for a new one. *)
Unused == Clients \ ({client} \cup threads \cup {rel[a] : a \in Actors})

(* _ctl_connect(): md_create() succeeds only without a g_api.  Events      *)
(* carry no mark of their client; md_release() joins the CTP threads, and  *)
(* the drain task needs less time than that, so no event of the previous   *)
(* client is taken to be queued any more.                                  *)
Connect(c, S) ==
    /\ Commanded(c) /\ Accepting /\ api = None /\ inbox = <<>>
    /\ Unused # {}
    /\ api' = CHOOSE k \in Unused : TRUE
    /\ client' = api'
    /\ dangling' = FALSE
    /\ creds' = TRUE /\ batch' = TRUE /\ abatch' = TRUE /\ rows' = FALSE
    /\ insts' = [i \in Insts |-> IF i \in S THEN "subscribing" ELSE "none"]
    /\ state' = "connecting"
    /\ UNCHANGED <<link, subs, reqs, taken, holder, callVars, procVars, inbox, histVars>>

(* The same with a g_api: a batch is begun, the new client has already     *)
(* registered its callback, and its constructor raises.                    *)
ClientDropped == None
ClientKept == client
ConnectRefused(c) ==
    /\ Commanded(c) /\ Accepting /\ api # None
    /\ dangling' = TRUE
    /\ batch' = TRUE /\ abatch' = TRUE /\ rows' = FALSE
    /\ creds' = FALSE
    /\ insts' = [i \in Insts |-> "none"]
    /\ client' = ClientKept
    /\ at' = [at EXCEPT ![c] = "waiting"]
    /\ call' = [call EXCEPT ![c] = "connect"]
    /\ UNCHANGED <<api, link, subs, reqs, state, taken, holder, rel, threads,
                   procVars, inbox, histVars>>

(* A call begins: the client, if any, is released first. *)
Leave(a, name) ==
    /\ call' = [call EXCEPT ![a] = name]
    /\ at' = [at EXCEPT ![a] = IF client # None THEN "releasing" ELSE "waiting"]
    /\ rel' = [rel EXCEPT ![a] = client]
    /\ threads' = threads \cup ({client} \ {None})

Disconnect(c) ==
    /\ Commanded(c)
    /\ client # None \/ batch
    /\ Leave(c, "disconnect")
    /\ UNCHANGED <<natVars, rtVars, archVars, procVars, inbox, histVars>>

(* _ctl_subscribe(): the new instruments are entered before the request,   *)
(* which raises if the client is being released.                           *)
Subscribe(c, S) ==
    /\ Commanded(c) /\ client # None
    /\ S \ Known # {}
    /\ insts' = [i \in Insts |-> IF i \in S \ Known THEN "subscribing" ELSE insts[i]]
    /\ IF Released(client) THEN UNCHANGED reqs ELSE Send("sub", S \ Known)
    /\ Len(reqs') <= MaxReqs
    /\ UNCHANGED <<api, link, subs, dangling, state, creds, client, batch, archVars,
                   callVars, procVars, inbox, histVars>>

Unsubscribe(c, S) ==
    /\ Commanded(c)
    /\ S \cap Known # {}
    /\ insts' = [i \in Insts |-> IF i \in S THEN "none" ELSE insts[i]]
    /\ IF client = None \/ Released(client) THEN UNCHANGED reqs
         ELSE Send("unsub", S \cap Known)
    /\ Len(reqs') <= MaxReqs
    /\ UNCHANGED <<api, link, subs, dangling, state, creds, client, batch, archVars,
                   callVars, procVars, inbox, histVars>>

-----------------------------------------------------------------------------
(* md_release() in its thread: no callback comes after it. *)
ReleaseNative(k) ==
    /\ k \in threads
    /\ threads' = threads \ {k}
    /\ IF api = k
         THEN api' = None /\ link' = "off" /\ subs' = {} /\ reqs' = <<>>
              /\ dangling' = FALSE
         ELSE UNCHANGED natVars
    /\ UNCHANGED <<rtVars, archVars, at, call, rel, procVars, inbox, histVars>>

(* The await returns after every event of that client has been handled:    *)
(* both are scheduled by call_soon_threadsafe, and the drain task empties  *)
(* the inbox in one go.  A shutdown that comes later has no drain task.    *)
(* (With another client in its place they have been: see Connect.)         *)
ReleaseReturn(a) ==
    /\ LoopFree /\ at[a] = "releasing"
    /\ rel[a] \notin threads
    /\ Draining /\ api = None => inbox = <<>>
    /\ client' = None
    /\ at' = [at EXCEPT ![a] = "waiting"]
    /\ rel' = [rel EXCEPT ![a] = None]
    /\ UNCHANGED <<natVars, state, creds, insts, batch, archVars, call, threads,
                   procVars, inbox, histVars>>

(* A call that holds nothing more to finalize. *)
NothingToStore(a) == IF call[a] = "disconnect" THEN ~batch \/ ~abatch ELSE ~abatch

(* archiver.finalize() enters the lock and takes the buffers. *)
BuffersLeft == rows
BuffersTaken == FALSE
FinalizeStart(a) ==
    /\ LoopFree /\ at[a] = "waiting"
    /\ holder = "nobody" /\ ~NothingToStore(a)
    /\ holder' = a /\ at' = [at EXCEPT ![a] = "storing"]
    /\ taken' = rows /\ rows' = BuffersTaken
    /\ UNCHANGED <<natVars, rtVars, abatch, call, rel, threads, procVars, inbox, histVars>>

(* The end of the call: of _stop_stream(), of the except branch of         *)
(* _ctl_connect(), or of _shutdown() with the publisher's stop().          *)
Finish(a, failed) ==
    /\ at' = [at EXCEPT ![a] = "idle"]
    /\ call' = [call EXCEPT ![a] = "none"]
    /\ batch' = (batch /\ (call[a] = "shutdown" \/ (call[a] = "connect" /\ failed)))
    /\ IF call[a] = "disconnect"
         THEN state' = "idle" /\ creds' = FALSE /\ insts' = [i \in Insts |-> "none"]
         ELSE UNCHANGED <<state, creds, insts>>
    /\ proc' = IF call[a] = "shutdown" THEN "stopped" ELSE proc
    /\ failure' = (failure \/ (failed /\ call[a] # "connect"))
    /\ UNCHANGED <<client, rel, threads, closing, busy, natVars, inbox, histVars>>

FinalizeSkip(a) ==
    /\ LoopFree /\ at[a] = "waiting" /\ NothingToStore(a)
    /\ (call[a] = "disconnect" /\ ~batch) \/ holder = "nobody"
    /\ Finish(a, FALSE)
    /\ UNCHANGED archVars

FinalizeOK(a) ==
    /\ LoopFree /\ at[a] = "storing"
    /\ abatch' = FALSE /\ taken' = FALSE /\ holder' = "nobody"
    /\ Finish(a, FALSE)
    /\ UNCHANGED rows

(* It raised: in its flush, which puts the rows back, or later. *)
LockKept == holder
LockReleased == "nobody"
FinalizeFails(a) ==
    /\ LoopFree /\ at[a] = "storing"
    /\ rows' \in {rows, rows \/ taken}
    /\ taken' = FALSE /\ holder' = LockReleased
    /\ Finish(a, TRUE)
    /\ UNCHANGED abatch

(* A write to connection c fails and its reader task is cancelled in the   *)
(* middle of a command; a thread that it waited for goes on.               *)
ConnectionLost(c) ==
    /\ LoopFree /\ at[c] # "idle"
    /\ at' = [at EXCEPT ![c] = "idle"]
    /\ call' = [call EXCEPT ![c] = "none"]
    /\ rel' = [rel EXCEPT ![c] = None]
    /\ holder' = IF holder = c THEN LockReleased ELSE holder
    /\ taken' = (taken /\ holder # c)
    /\ UNCHANGED <<natVars, rtVars, abatch, rows, threads, procVars, inbox, histVars>>

-----------------------------------------------------------------------------
(* The main loop's flush; a failure ends the loop. *)
Flush ==
    /\ proc = "run" /\ ~busy /\ holder = "nobody" /\ rows
    /\ \/ rows' = FALSE /\ UNCHANGED procVars
       \/ failure' = TRUE /\ proc' = "stopping" /\ UNCHANGED <<rows, closing, busy>>
    /\ UNCHANGED <<natVars, rtVars, abatch, taken, holder, callVars, inbox, histVars>>

(* A signal, or the shutdown command, which also closes the publisher to   *)
(* further commands.                                                       *)
StopRequested ==
    /\ proc = "run" /\ ~busy
    /\ proc' = "stopping"
    /\ closing' \in {closing, TRUE}
    /\ UNCHANGED <<natVars, rtVars, archVars, callVars, failure, busy, inbox, histVars>>

(* _shutdown() once the main loop has ended; the loop may wait for the     *)
(* archiver's lock in its last flush.                                      *)
Shutdown ==
    /\ proc = "stopping" /\ ~busy /\ at[Main] = "idle"
    /\ Leave(Main, "shutdown")
    /\ UNCHANGED <<natVars, rtVars, archVars, procVars, inbox, histVars>>

Drain == OnFront \/ OnDown \/ OnLogin \/ OnSub \/ OnUnsub \/ OnDepth
Progress(a) ==
    ReleaseReturn(a) \/ FinalizeStart(a) \/ FinalizeSkip(a)
    \/ FinalizeOK(a) \/ FinalizeFails(a)

FrontStep == FrontUp \/ LinkDrop \/ AnswerUnsub
             \/ \E ok \in BOOLEAN : AnswerLogin(ok) \/ AnswerSub(ok)
Command(c) ==
    \/ ConnectRefused(c) \/ Disconnect(c) \/ ConnectionLost(c)
    \/ \E S \in (SUBSET Insts) \ {{}} :
         Connect(c, S) \/ Subscribe(c, S) \/ Unsubscribe(c, S)

Next ==
    \/ FrontStep
    \/ \E i \in Insts : Depth(i)
    \/ Drain
    \/ \E c \in Conns : Command(c)
    \/ \E k \in Clients : ReleaseNative(k)
    \/ \E a \in Actors : Progress(a)
    \/ Flush \/ StopRequested \/ Shutdown

(* The event loop and its worker threads go on; nothing forces the front,  *)
(* a command or a signal.                                                  *)
Fairness ==
    /\ WF_vars(Drain) /\ SF_vars(Shutdown)
    /\ \A a \in Actors : SF_vars(Progress(a))
    /\ \A k \in Clients : WF_vars(ReleaseNative(k))
Spec == Init /\ [][Next]_vars /\ Fairness

-----------------------------------------------------------------------------
(* The process-wide CTP api is never orphaned: as long as it exists the    *)
(* runtime holds the client that can release it, whatever refused connects *)
(* and cut connections come in between (process.py _ctl_connect,           *)
(* _stop_stream; md_shim.cpp md_create).                                   *)
NoLeakedApi == proc = "run" /\ api # None => client = api

(* No row reaches the archiver outside a batch: whatever is still queued   *)
(* when a stream is stopped or a connect refused is handled before the     *)
(* batch ends, or dropped (process.py _handle_depth, archiver.add_row).    *)
RowsHaveBatch == ~late => ~orphan

(* Nothing is under way: no event, request, call or release. *)
Quiet ==
    /\ proc = "run" /\ inbox = <<>> /\ reqs = <<>> /\ threads = {}
    /\ \A a \in Actors : at[a] = "idle"

(* What the status frames claim is so: a quiet gateway that says it is     *)
(* streaming has a logged in front, and every instrument it shows as       *)
(* streaming is pushed by the front it is logged in to, also after any     *)
(* number of reconnections (process.py front_disconnected, login, sub).    *)
StreamingIsTrue ==
    Quiet /\ api # None =>
        /\ state = "streaming" /\ ~stale => link = "logged"
        /\ link = "logged" => Listed({"streaming"}) \subseteq subs

(* A gateway that stopped without a failure leaves no row in memory and no *)
(* batch open (process.py _shutdown; deployment.md:132).                   *)
StopLeavesNoRows == proc = "stopped" /\ ~failure /\ ~late => ~rows /\ ~abatch

(* Every command is answered or cut off, and a stop request ends the       *)
(* process: a failed or cancelled finalize() does not keep the archiver's  *)
(* lock from the next (archiver.py finalize, process.py _shutdown).        *)
CatchesUp == []<>(~busy)
CommandsEnd == CatchesUp => \A c \in Conns : at[c] # "idle" ~> at[c] = "idle" \/ ~Alive
StopCompletes == CatchesUp => (proc = "stopping" ~> ~Alive)

(* "Credentials are re-used on reconnect (front-connected events)"         *)
(* (ctp_binding.py:314): a client nobody is releasing can log in again.    *)
CredentialsReused ==
    Quiet /\ api # None /\ client = api => creds

(* Restarting the API process does not affect the gateway                  *)
(* (docs/deployment.md:131): once all is quiet, the CTP api belongs to the *)
(* client the runtime holds.                                               *)
ApiRestartHarmless == Quiet /\ api # None => client = api
=============================================================================
