------------------------------- MODULE WsHub -------------------------------
(***************************************************************************)
(* From the event bus to the browsers (ingest/bus.py, ws/hub.py,           *)
(* ws/routes.py): the market hub's bounded bus queue and its pump task,    *)
(* and per WebSocket connection a bounded send queue, a sender task, the   *)
(* receive loop of the endpoint and, after an overflow, a closing task.    *)
(*                                                                         *)
(* A step is what runs between two awaits that suspend: route() does not   *)
(* suspend, so an event reaches all connections at once.  Events are       *)
(* numbered in publication order; one instrument stands for them all.      *)
(***************************************************************************)
EXTENDS Integers, Sequences

CONSTANTS Conns,    \* connections that may exist
          QueueMax, \* capacity of a send queue (_QUEUE_MAX)
          BusMax,   \* capacity of the bus queue (max_queue)
          MaxEvent  \* bound: events published

ASSUME CapacityAssumption ==
    QueueMax \in Nat \ {0} /\ BusMax \in Nat \ {0} /\ MaxEvent \in Nat

Service == 0            \* hello, pong and error frames
Frame == 0..MaxEvent
Nothing == -1

VARIABLES
    kinds,      \* kinds[n]: type of the n-th published event
    busq,       \* the subscription's queue
    dropped,    \* EventBus.dropped: events its full queue did not take
    life,       \* life[c]: "new", "registered", "gone"
    dead,       \* conn.dead
    sendQueue,      \* conn.send_queue
    subscribed, \* conn.subscriptions has the instrument
    sender,     \* "get": in send_queue.get(), "send": in send_text(), "done"
    frame,      \* the frame the sender has taken
    closing,    \* the task _close() has been created and has not ended
    broken,     \* the transport failed: receive_text() is about to raise
    routed,     \* history: routed[c], the events route() chose c for
    taken,      \* history: those its sender has taken out of the queue
    conflated,  \* history: those dropped for a newer quote
    pushedOut   \* history: those dropped for a service frame

busVars  == <<kinds, busq, dropped>>
connVars == <<life, dead, sendQueue, subscribed, sender, frame, closing, broken>>
history  == <<routed, taken, conflated, pushedOut>>
vars == <<busVars, connVars, history>>

Published == DOMAIN kinds
InQueue(c) == {sendQueue[c][n] : n \in DOMAIN sendQueue[c]}

HubTypeOK ==
    /\ kinds \in Seq({"quote", "micro"}) /\ Len(kinds) <= MaxEvent
    /\ busq \in Seq(Published) /\ Len(busq) <= BusMax
    /\ dropped \subseteq Published
    /\ life \in [Conns -> {"new", "registered", "gone"}]
    /\ dead \in [Conns -> BOOLEAN] /\ subscribed \in [Conns -> BOOLEAN]
    /\ closing \in [Conns -> BOOLEAN] /\ broken \in [Conns -> BOOLEAN]
    /\ sendQueue \in [Conns -> Seq(Frame)]
    /\ \A c \in Conns : Len(sendQueue[c]) <= QueueMax
    /\ sender \in [Conns -> {"get", "send", "done"}]
    /\ frame \in [Conns -> Frame \cup {Nothing}]
    /\ \A c \in Conns : frame[c] # Nothing <=> sender[c] = "send"
    /\ \A c \in Conns : life[c] = "registered" /\ sender[c] = "done" => dead[c]
    /\ \A h \in {routed, taken, conflated, pushedOut} :
         h \in [Conns -> SUBSET Published]

Init ==
    /\ kinds = <<>> /\ busq = <<>> /\ dropped = {}
    /\ life = [c \in Conns |-> "new"]
    /\ dead = [c \in Conns |-> FALSE] /\ subscribed = [c \in Conns |-> FALSE]
    /\ closing = [c \in Conns |-> FALSE] /\ broken = [c \in Conns |-> FALSE]
    /\ sendQueue = [c \in Conns |-> <<>>]
    /\ sender = [c \in Conns |-> "done"] /\ frame = [c \in Conns |-> Nothing]
    /\ routed = [c \in Conns |-> {}] /\ taken = [c \in Conns |-> {}]
    /\ conflated = [c \in Conns |-> {}] /\ pushedOut = [c \in Conns |-> {}]

-----------------------------------------------------------------------------
(* EventBus.publish() *)
Publish(kind) ==
    LET n == Len(kinds) + 1 IN
    /\ n <= MaxEvent
    /\ kinds' = Append(kinds, kind)
    /\ IF Len(busq) < BusMax
         THEN busq' = Append(busq, n) /\ UNCHANGED dropped
         ELSE dropped' = dropped \cup {n} /\ UNCHANGED busq
    /\ UNCHANGED <<connVars, history>>

(* _enqueue() of a frame for the connections in S: a full queue loses its  *)
(* oldest frame to one that may conflate, and ends the connection          *)
(* otherwise (_kill()).                                                    *)
FullTooLate(c) == Len(sendQueue[c]) > QueueMax
Full(c) == Len(sendQueue[c]) = QueueMax

NewestDropped(q, f) == q
OldestReplaced(q, f) == <<f>> \o Tail(q)
OldestDropped(q, f) == Append(Tail(q), f)

KeptAlive(c) == FALSE
Killed(c) == Full(c)
CloseForgotten(c) == closing[c]
CloseCreated(c) == TRUE

Enqueue(S, f, conflate) ==
    LET Lost == {c \in S : Full(c) /\ conflate}
        Kill == {c \in S : ~conflate /\ Killed(c)}
    IN /\ sendQueue' = [c \in Conns |->
              IF c \in Lost THEN OldestDropped(sendQueue[c], f)
              ELSE IF c \in S /\ ~Full(c) THEN Append(sendQueue[c], f)
              ELSE sendQueue[c]]
       /\ dead' = [c \in Conns |-> dead[c] \/ c \in Kill]
       /\ closing' = [c \in Conns |->
              IF c \in Kill THEN CloseCreated(c) ELSE closing[c]]
       /\ LET Loses(lost) == [c \in Conns |->
                 IF c \in Lost THEN lost[c] \cup ({Head(sendQueue[c])} \ {Service})
                 ELSE lost[c]]
          IN IF f = Service
               THEN pushedOut' = Loses(pushedOut) /\ UNCHANGED conflated
               ELSE conflated' = Loses(conflated) /\ UNCHANGED pushedOut

(* The pump hands the oldest event to route(). *)
Route ==
    LET S == {c \in Conns : life[c] = "registered" /\ ~dead[c] /\ subscribed[c]}
        n == Head(busq)
    IN /\ busq # <<>>
       /\ busq' = Tail(busq)
       /\ Enqueue(S, n, kinds[n] = "quote")
       /\ routed' = [c \in Conns |-> IF c \in S THEN routed[c] \cup {n} ELSE routed[c]]
       /\ UNCHANGED <<kinds, dropped, life, subscribed, sender, frame, broken, taken>>

(* A redeemed ticket: register(), hello, and the sender task. *)
Register(c) ==
    /\ life[c] = "new"
    /\ life' = [life EXCEPT ![c] = "registered"]
    /\ sendQueue' = [sendQueue EXCEPT ![c] = <<Service>>]
    /\ sender' = [sender EXCEPT ![c] = "get"]
    /\ UNCHANGED <<busVars, dead, subscribed, frame, closing, broken, history>>

Receiving(c) == life[c] = "registered" /\ ~broken[c]

(* handle_message() *)
Subscribe(c, on) ==
    /\ Receiving(c) /\ subscribed[c] # on
    /\ subscribed' = [subscribed EXCEPT ![c] = on]
    /\ UNCHANGED <<busVars, life, dead, sendQueue, sender, frame, closing, broken, history>>

Ping(c) ==
    /\ Receiving(c) /\ ~dead[c]
    /\ Enqueue({c}, Service, TRUE)
    /\ UNCHANGED <<busVars, life, subscribed, sender, frame, broken, routed, taken>>

-----------------------------------------------------------------------------
(* _sender(): `dead` is looked at before get() and after the send, so a    *)
(* sender waiting in get() still sends one frame of a dead connection.     *)
SenderGet(c) ==
    /\ sender[c] = "get" /\ sendQueue[c] # <<>>
    /\ frame' = [frame EXCEPT ![c] = Head(sendQueue[c])]
    /\ sendQueue' = [sendQueue EXCEPT ![c] = Tail(@)]
    /\ sender' = [sender EXCEPT ![c] = "send"]
    /\ taken' = [taken EXCEPT ![c] = @ \cup ({Head(sendQueue[c])} \ {Service})]
    /\ UNCHANGED <<busVars, life, dead, subscribed, closing, broken, routed, conflated,
                   pushedOut>>

SendDone(c) ==
    /\ sender[c] = "send"
    /\ frame' = [frame EXCEPT ![c] = Nothing]
    /\ \/ /\ sender' = [sender EXCEPT ![c] = IF dead[c] THEN "done" ELSE "get"]
          /\ UNCHANGED <<dead, broken>>
       \/ /\ sender' = [sender EXCEPT ![c] = "done"]
          /\ dead' = [dead EXCEPT ![c] = TRUE]
          /\ broken' = [broken EXCEPT ![c] = TRUE]
    /\ UNCHANGED <<busVars, life, sendQueue, subscribed, closing, history>>

(* The client leaves, or the transport fails. *)
Disconnected(c) ==
    /\ Receiving(c)
    /\ broken' = [broken EXCEPT ![c] = TRUE]
    /\ UNCHANGED <<busVars, life, dead, sendQueue, subscribed, sender, frame, closing, history>>

(* unregister() cancels the tasks of the connection. *)
Unregister(c) ==
    /\ life' = [life EXCEPT ![c] = "gone"]
    /\ dead' = [dead EXCEPT ![c] = TRUE]
    /\ sender' = [sender EXCEPT ![c] = "done"]
    /\ frame' = [frame EXCEPT ![c] = Nothing]
    /\ closing' = [closing EXCEPT ![c] = FALSE]
    /\ UNCHANGED <<busVars, sendQueue, subscribed, broken, history>>

(* The `finally` of the receive loop, and the closing task. *)
ServeEnds(c)  == life[c] = "registered" /\ broken[c] /\ Unregister(c)
CloseTask(c)  == closing[c] /\ Unregister(c)

Step(c) == SenderGet(c) \/ SendDone(c) \/ ServeEnds(c) \/ CloseTask(c)
Client(c) == Register(c) \/ Ping(c) \/ Disconnected(c)
             \/ \E on \in BOOLEAN : Subscribe(c, on)

Next ==
    \/ \E kind \in {"quote", "micro"} : Publish(kind)
    \/ Route
    \/ \E c \in Conns : Client(c) \/ Step(c)

(* The tasks of the event loop run; clients and the gateway need not act,  *)
(* and a socket may take for ever to accept a frame.                       *)
Fairness == \A c \in Conns : WF_vars(ServeEnds(c)) /\ WF_vars(CloseTask(c))
Spec == Init /\ [][Next]_vars /\ Fairness

-----------------------------------------------------------------------------
(* Frames leave in publication order, and none twice: what waits is newer  *)
(* than what was sent, whatever was conflated in between (hub.py _enqueue, *)
(* _sender).                                                               *)
DeliveredInOrder ==
    \A c \in Conns :
        LET q == sendQueue[c] IN
        /\ \A m, n \in DOMAIN q :
             m < n /\ q[m] # Service /\ q[n] # Service => q[m] < q[n]
        /\ \A f \in InQueue(c) \ {Service}, g \in taken[c] : g < f

(* A live connection misses no routed event except for a newer frame: one  *)
(* that cannot take a must-deliver event is ended (hub.py docstring).      *)
NoSilentGap ==
    \A c \in Conns : ~dead[c] =>
        routed[c] \subseteq InQueue(c) \cup taken[c] \cup conflated[c] \cup pushedOut[c]

(* "drop-oldest": quotes only ever drop events older than themselves, so   *)
(* the last event routed to a live connection is on its way or was sent;   *)
(* only a service frame can push it out (hub.py docstring, README.md:138). *)
LatestEventKept ==
    \A c \in Conns : ~dead[c] =>
        \A n \in routed[c] : (\A m \in routed[c] : m <= n) =>
            n \in InQueue(c) \cup taken[c] \cup pushedOut[c]

(* A connection ended by an overflow, or whose transport failed, leaves    *)
(* the hub (hub.py _kill, _close; routes.py finally).                      *)
DeadConnectionsLeave ==
    \A c \in Conns :
        closing[c] \/ broken[c] \/ (dead[c] /\ life[c] = "registered")
            ~> life[c] = "gone"

(* "micro/analysis events must be delivered" (hub.py:6): no live           *)
(* connection loses one.                                                   *)
MicroNotDropped ==
    \A c \in Conns : ~dead[c] => \A n \in conflated[c] : kinds[n] # "micro"
=============================================================================
