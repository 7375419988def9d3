-------------------------------- MODULE Link --------------------------------
(***************************************************************************)
(* The link between the API process and the gateway: ingest/client.py and  *)
(* its callers in api/routers on one side, gateway/publisher.py on the     *)
(* other, a unix socket between them.  Also what the API guards with       *)
(* research_lock: a collection and a report exclude each other.            *)
(*                                                                         *)
(* The gateway answers a command on the socket itself, while status and    *)
(* event frames wait in the connection's bounded queue: an answer may      *)
(* overtake the status frames that precede it.  What the runtime does with *)
(* a command is GatewayRuntime; here it is whether a batch is running.     *)
(***************************************************************************)
EXTENDS Integers, Sequences, FiniteSets

CONSTANTS Calls,    \* control requests the API may be serving at once
          Reports,  \* report requests
          MaxRefs,  \* bound: control frames sent
          MaxQueue, \* _CLIENT_QUEUE_SIZE
          MaxWire   \* frames the socket takes before drain() suspends

Nobody == "nobody"
Refs == 1..MaxRefs

ASSUME LinkAssumption ==
    /\ MaxRefs \in Nat
    /\ Calls \cap Reports = {} /\ Nobody \notin Calls \cup Reports

VARIABLES
    sock,    \* the API's connection: "none", "open", "ended" by the gateway
    status,  \* gateway_status: "none" (offline), "idle" or "batch"
    ref,     \* _ref: control frames sent so far
    call,    \* call[c]: [at, cmd, ref, out], a request awaiting its answer
    lock,    \* who holds research_lock
    running, \* the report thread is alive
    looked,  \* history: Unseen, when the report about to start was allowed
    unseen,  \* the same of the running report
    up,      \* the gateway process is up
    batch,   \* it has a batch
    last,    \* _last_status
    queue,   \* the queue of the API's connection
    wire,    \* frames on the socket, to the API
    intake,  \* frames on the socket, to the gateway
    handling,\* the command whose handler is suspended, if any
    failing, \* that command is a connect that was refused
    done     \* history: done[n], what the gateway did with command n

reportVars == <<running, looked, unseen>>
apiVars == <<sock, status, ref, call, lock, reportVars>>
gwVars == <<up, batch, last, queue, wire, intake, handling, failing, done>>
linkVars == <<apiVars, gwVars>>

NoCall == [at |-> "idle", cmd |-> "none", ref |-> 0, out |-> "none"]
NoCommand == 0

LinkInit ==
    /\ sock = "none" /\ status = "none" /\ ref = 0
    /\ call = [c \in Calls |-> NoCall]
    /\ lock = Nobody /\ running = FALSE
    /\ looked = FALSE /\ unseen = FALSE
    /\ up = TRUE /\ batch = FALSE /\ last = "none"
    /\ queue = <<>> /\ wire = <<>> /\ intake = <<>>
    /\ handling = NoCommand /\ failing = FALSE
    /\ done = [n \in Refs |-> "none"]

StatusFrame(s) == [kind |-> "status", value |-> s]
Ack(n, out) == [kind |-> "ack", ref |-> n, out |-> out]
Status(b) == IF b THEN "batch" ELSE "idle"

-----------------------------------------------------------------------------
(* The gateway. *)

(* _drop_client(): the tasks of the connection, and a command one of them  *)
(* is in, are cancelled; what was written still reaches the API.           *)
Dropped == /\ sock' = "ended" /\ queue' = <<>> /\ intake' = <<>>
           /\ handling' = NoCommand /\ failing' = FALSE

(* _enqueue(): a full queue costs the API its connection. *)
EnqueueFrame(frame) ==
    IF sock # "open" THEN UNCHANGED <<sock, queue, intake, handling, failing>>
    ELSE IF Len(queue) = MaxQueue THEN Dropped
    ELSE queue' = Append(queue, frame) /\ UNCHANGED <<sock, intake, handling, failing>>

(* A heartbeat of the main loop or a change of state.  Market data are     *)
(* queued the same way, and fill the queue as heartbeats do.               *)
BroadcastStatus ==
    /\ up
    /\ last' = Status(batch)
    /\ EnqueueFrame(StatusFrame(Status(batch)))
    /\ UNCHANGED <<status, ref, call, lock, reportVars, up, batch, wire, done>>

(* _writer_loop() *)
WriteFrame ==
    /\ queue # <<>> /\ Len(wire) < MaxWire
    /\ wire' = Append(wire, Head(queue))
    /\ queue' = Tail(queue)
    /\ UNCHANGED <<apiVars, up, batch, last, intake, handling, failing, done>>

(* _reader_loop() takes the next frame when the last command is done. *)
Handle(cmd) ==
    /\ sock = "open" /\ handling = NoCommand
    /\ intake # <<>> /\ Head(intake).cmd = cmd
    /\ UNCHANGED <<status, ref, call, lock, reportVars, up>>
Took == Head(intake).ref

Answered(n, out) ==
    /\ wire' = Append(wire, Ack(n, out))
    /\ done' = [done EXCEPT ![n] = out]

(* A connect is refused for its payload, or the state of the gateway; a    *)
(* disconnect when there is nothing to end.                                *)
Refuse(cmd) ==
    /\ Handle(cmd)
    /\ cmd = "disconnect" => ~batch
    /\ Answered(Took, "error")
    /\ intake' = Tail(intake)
    /\ UNCHANGED <<sock, batch, last, queue, handling, failing>>

(* Or the client cannot be created, when _ctl_connect() has begun a batch: *)
(* it awaits the end of the batch, also of one that was open before, and   *)
(* announces neither.  (Cut off in between it leaves the batch open.)      *)
HandleBadConnect ==
    /\ Handle("connect")
    /\ batch' = TRUE
    /\ handling' = Took /\ failing' = TRUE
    /\ intake' = Tail(intake)
    /\ UNCHANGED <<sock, last, queue, wire, done>>

FinishBadConnect ==
    /\ failing
    /\ batch' = FALSE
    /\ Answered(handling, "error")
    /\ handling' = NoCommand /\ failing' = FALSE
    /\ UNCHANGED <<apiVars, up, last, queue, intake>>

(* _ctl_connect(): the status is queued and the answer written at once.    *)
HandleConnect ==
    /\ Handle("connect")
    /\ Len(queue) < MaxQueue
    /\ batch' = TRUE
    /\ last' = Status(TRUE)
    /\ queue' = Append(queue, StatusFrame(Status(TRUE)))
    /\ Answered(Took, "ok")
    /\ intake' = Tail(intake)
    /\ UNCHANGED <<sock, handling, failing>>

(* The same with a full queue: the answer is written to a closed socket.   *)
HandleConnectDropped ==
    /\ Handle("connect")
    /\ Len(queue) = MaxQueue
    /\ batch' = TRUE
    /\ last' = Status(TRUE)
    /\ done' = [done EXCEPT ![Took] = "ok"]
    /\ Dropped
    /\ UNCHANGED wire

(* _ctl_disconnect() awaits the release and the archive. *)
HandleDisconnect ==
    /\ Handle("disconnect")
    /\ batch
    /\ handling' = Took
    /\ intake' = Tail(intake)
    /\ UNCHANGED <<sock, batch, last, queue, wire, failing, done>>

FinishDisconnect ==
    /\ handling # NoCommand /\ ~failing
    /\ batch' = FALSE
    /\ last' = Status(FALSE)
    /\ IF Len(queue) < MaxQueue
         THEN /\ queue' = Append(queue, StatusFrame(Status(FALSE)))
              /\ Answered(handling, "ok")
              /\ handling' = NoCommand
              /\ UNCHANGED <<sock, intake, failing>>
         ELSE /\ Dropped
              /\ done' = [done EXCEPT ![handling] = "ok"]
              /\ UNCHANGED wire
    /\ UNCHANGED <<status, ref, call, lock, reportVars, up>>

(* The gateway dies, or is stopped; it is started again. *)
GatewayEnds ==
    /\ up
    /\ up' = FALSE /\ batch' = FALSE /\ last' = "none"
    /\ IF sock = "open" THEN Dropped
       ELSE UNCHANGED <<sock, queue, intake, handling, failing>>
    /\ UNCHANGED <<status, ref, call, lock, reportVars, wire, done>>
GatewayStarts ==
    /\ ~up
    /\ up' = TRUE
    /\ UNCHANGED <<apiVars, batch, last, queue, wire, intake, handling, failing, done>>

-----------------------------------------------------------------------------
(* The connection of the API: _run(). *)

(* _on_connection() queues the last status first. *)
Open ==
    /\ sock = "none" /\ up
    /\ sock' = "open"
    /\ queue' = IF last = "none" THEN <<>> ELSE <<StatusFrame(last)>>
    /\ wire' = <<>> /\ intake' = <<>>
    /\ handling' = NoCommand /\ failing' = FALSE
    /\ UNCHANGED <<status, ref, call, lock, reportVars, up, batch, last, done>>

OldestPending(n) == {c \in Calls : call[c].at = "sent"
                       /\ \A d \in Calls : call[d].at = "sent"
                                             => call[c].ref <= call[d].ref}
(* The request an answer belongs to, if it still awaits one (the first     *)
(* form: the one that has waited longest).                                 *)
AwaitedBy(n) == {c \in Calls : call[c].at = "sent" /\ call[c].ref = n}
Resolve(S, out) ==
    call' = [c \in Calls |->
               IF c \in S THEN [call[c] EXCEPT !.at = "answered", !.out = out]
               ELSE call[c]]

(* One turn of _read_loop(). *)
ReadFrame ==
    /\ sock # "none" /\ wire # <<>>
    /\ wire' = Tail(wire)
    /\ LET msg == Head(wire) IN
         /\ status' = IF msg.kind = "status" THEN msg.value ELSE status
         /\ IF msg.kind = "ack" THEN Resolve(AwaitedBy(msg.ref), msg.out)
            ELSE UNCHANGED call
    /\ UNCHANGED <<sock, ref, lock, reportVars, up, batch, last, queue, intake,
                   handling, failing, done>>

(* End of file: _close_socket() fails every request that awaits an answer. *)
(* (What is on the wire is read first; a write that fails may end the read *)
(* loop sooner, and then more requests end as unavailable.)                *)
Pending == {c \in Calls : call[c].at = "sent"}
CloseSocketOnly ==
    /\ sock = "ended" /\ wire = <<>>
    /\ sock' = "none" /\ status' = "none"
    /\ UNCHANGED <<call, ref, lock, reportVars, gwVars>>
CloseSocket ==
    /\ sock = "ended" /\ wire = <<>>
    /\ sock' = "none" /\ status' = "none"
    /\ Resolve(Pending, "unavailable")
    /\ UNCHANGED <<ref, lock, reportVars, gwVars>>

-----------------------------------------------------------------------------
(* The endpoints. *)

(* send_control() when connected; what a dead connection takes is lost.    *)
(* Requests differ in nothing, so any that is not in use will do.          *)
SendControl(c, cmd) ==
    /\ call[c].at = "idle"
    /\ c = CHOOSE d \in Calls : call[d].at = "idle"
    /\ sock # "none" /\ ref < MaxRefs
    /\ ref' = ref + 1
    /\ call' = [call EXCEPT ![c] = [at |-> "sent", cmd |-> cmd, ref |-> ref',
                                    out |-> "none"]]
    /\ intake' = IF sock = "open"
                   THEN Append(intake, [cmd |-> cmd, ref |-> ref']) ELSE intake
    /\ UNCHANGED <<sock, status, reportVars, up, batch, last, queue, wire,
                   handling, failing, done>>

(* gateway_connect() keeps research_lock until it has its answer; it is    *)
(* refused while a report is generated.                                    *)
ConnectAnyTime(c) ==
    /\ lock = Nobody
    /\ SendControl(c, "connect")
    /\ lock' = c
Connect(c) ==
    /\ lock = Nobody /\ ~running
    /\ SendControl(c, "connect")
    /\ lock' = c

Disconnect(c) == SendControl(c, "disconnect") /\ UNCHANGED lock

(* wait_for() gives up; an answer that comes later is nobody's. *)
TimeOut(c) ==
    /\ call[c].at = "sent"
    /\ Resolve({c}, "timeout")
    /\ UNCHANGED <<sock, status, ref, lock, reportVars, gwVars>>

(* The endpoint goes on with the outcome: it answers, and leaves the lock. *)
Return(c) ==
    /\ call[c].at = "answered"
    /\ call' = [call EXCEPT ![c] = NoCall]
    /\ lock' = IF lock = c THEN Nobody ELSE lock
    /\ UNCHANGED <<sock, status, ref, reportVars, gwVars>>

(* What the API cannot know of when it looks at gateway_status: a connect  *)
(* on its way to the gateway, a batch whose status is on its way to the    *)
(* API, a batch the gateway has not announced, a connection whose end the  *)
(* API has yet to notice.                                                  *)
Unseen ==
    \/ \E i \in DOMAIN intake : intake[i].cmd = "connect"
    \/ \E i \in DOMAIN queue : queue[i] = StatusFrame("batch")
    \/ \E i \in DOMAIN wire : wire[i] = StatusFrame("batch")
    \/ batch /\ last # "batch"
    \/ sock = "ended"

(* generate() looks at the status and goes to a worker thread with the     *)
(* lock; there ReportStore.start() may refuse, or starts its thread.       *)
ReportAllowed(r) ==
    /\ lock = Nobody
    /\ sock # "none" /\ status = "idle"
    /\ lock' = r
    /\ looked' = Unseen
    /\ UNCHANGED <<sock, status, ref, call, running, unseen, gwVars>>
ReportStarts(r) ==
    /\ lock = r /\ ~running
    /\ lock' = Nobody
    /\ running' = TRUE
    /\ unseen' = looked /\ looked' = FALSE
    /\ UNCHANGED <<sock, status, ref, call, gwVars>>
ReportRefused(r) ==
    /\ lock = r
    /\ lock' = Nobody
    /\ looked' = FALSE
    /\ UNCHANGED <<sock, status, ref, call, running, unseen, gwVars>>
ReportEnds ==
    /\ running
    /\ running' = FALSE /\ unseen' = FALSE
    /\ UNCHANGED <<sock, status, ref, call, lock, looked, gwVars>>

LinkNext ==
    \/ BroadcastStatus \/ WriteFrame
    \/ HandleConnect \/ HandleConnectDropped \/ HandleDisconnect \/ FinishDisconnect
    \/ HandleBadConnect \/ FinishBadConnect
    \/ Refuse("connect") \/ Refuse("disconnect")
    \/ GatewayEnds \/ GatewayStarts
    \/ Open \/ ReadFrame \/ CloseSocket
    \/ \E c \in Calls : Connect(c) \/ Disconnect(c) \/ TimeOut(c) \/ Return(c)
    \/ \E r \in Reports : ReportAllowed(r) \/ ReportStarts(r) \/ ReportRefused(r)
    \/ ReportEnds

(* The event loops run, a stop of the native client and the archive's work *)
(* end.  Timeouts, heartbeats and requests may never happen.               *)
LinkFairness ==
    /\ WF_linkVars(ReadFrame) /\ WF_linkVars(CloseSocket)
    /\ WF_linkVars(HandleConnect \/ HandleConnectDropped \/ HandleDisconnect
                   \/ HandleBadConnect \/ Refuse("connect") \/ Refuse("disconnect"))
    /\ WF_linkVars(FinishDisconnect) /\ WF_linkVars(FinishBadConnect)

-----------------------------------------------------------------------------
(* A request that is told the outcome of its command is told that of its   *)
(* own command, although requests time out, answers come late and several  *)
(* requests await one at the same time.                                    *)
AckIsForCall ==
    \A c \in Calls :
      call[c].at = "answered" /\ call[c].out \in {"ok", "error"}
        => done[call[c].ref] = call[c].out

(* research_lock, the refusal of a connect while a report runs, and the    *)
(* look at gateway_status keep reports and collections apart, except where *)
(* the API could not know: a report runs beside a batch only if the status *)
(* it was allowed on was already out of date (see Unseen).                 *)
OverlapOnlyUnseen == running /\ batch => unseen

(* Every request gets an answer without the help of its timeout: from the  *)
(* gateway, or from the end of the connection, also when the gateway drops *)
(* the connection in the middle of the command or dies.                    *)
CallsAnswered == \A c \in Calls : call[c].at = "sent" ~> call[c].at # "sent"
=============================================================================
