SPECIFICATION ApiProcessSpec
\* Requests and events run out at their bounds.
CHECK_DEADLOCK FALSE
CONSTANTS
    Tabs = {r1, r2}
    Tries = {a1, a2, a3}
    MaxFailures = 2
    Window = 1
    MaxTokens = 3
    Calls = {c1, c2}
    Reports = {p1}
    MaxRefs = 2
    MaxQueue = 2
    MaxWire = 1
    Conns = {w1}
    QueueMax = 2
    BusMax = 2
    MaxEvent = 3
    Sockets = {s1, s2, s3}
    Instruments = {i1}
    None = None
    MaxOpens = 2
INVARIANTS OneLiveToken FailuresBounded AckIsForCall OverlapOnlyUnseen SocketsTypeOK DeliveredInOrder NoSilentGap LatestEventKept OneServingSocket
PROPERTIES CallsAnswered DeadConnectionsLeave SilentPeerLeft
