-------------------------- MODULE TimescaleWriter --------------------------
(***************************************************************************)
(* storage/timescale.py, class TimescaleWriter, with its life in the       *)
(* archiver (gateway/archiver.py): a bounded buffer of events, a flush loop*)
(* that writes it in one transaction, and a stop that cancels the loop.    *)
(* Events are numbered as they are accepted; `db` is what the transactions *)
(* that took effect have stored, in their order.                           *)
(***************************************************************************)
EXTENDS Integers, Sequences, FiniteSets

CONSTANT MaxBuffer
ASSUME BufferAssumption == MaxBuffer \in Nat \ {0}

VARIABLES tw,     \* state of the writer and of its task
          db,     \* events stored
          cut,    \* events in flight when stop() cancelled their transaction,
                  \* or when its last one failed
          doubt   \* a transaction took effect although its flush failed

twVars == <<tw, db, cut, doubt>>

NoWriter == [on |-> FALSE, task |-> "off", buffer |-> <<>>, inflight |-> <<>>,
             accepted |-> 0, dropped |-> 0]

Elements(s) == {s[i] : i \in DOMAIN s}

(* prepare(): the writer is started when the database bookkeeping works.   *)
WriterInit(database) ==
    /\ tw = IF database THEN [NoWriter EXCEPT !.on = TRUE, !.task = "waiting"] ELSE NoWriter
    /\ db = <<>>
    /\ cut = {}
    /\ doubt = FALSE

Newest(s) == IF Len(s) <= MaxBuffer THEN s ELSE SubSeq(s, Len(s) - MaxBuffer + 1, Len(s))

(* _append: the oldest event leaves a full buffer.                         *)
Appended(w) ==
    LET b == Append(w.buffer, w.accepted + 1)
    IN [w EXCEPT !.buffer = Newest(b), !.accepted = @ + 1,
                 !.dropped = @ + (IF Len(b) > MaxBuffer THEN 1 ELSE 0)]

(* add_row: the events of a row are handed over while there is a writer.   *)
AddEvents(n) ==
    /\ tw' = IF ~tw.on THEN tw ELSE IF n = 1 THEN Appended(tw) ELSE Appended(Appended(tw))
    /\ UNCHANGED <<db, cut, doubt>>

(* _flush_loop, flush: the whole buffer goes into one transaction.         *)
FlushStart ==
    /\ tw.task = "waiting"
    /\ tw.buffer # <<>>
    /\ tw' = [tw EXCEPT !.task = "writing", !.inflight = tw.buffer, !.buffer = <<>>]
    /\ UNCHANGED <<db, cut, doubt>>

FlushCommits ==
    /\ tw.task = "writing"
    /\ tw' = [tw EXCEPT !.task = "waiting", !.inflight = <<>>]
    /\ db' = db \o tw.inflight
    /\ UNCHANGED <<cut, doubt>>

RequeuedNothing(w) == w.buffer
RequeuedBehind(w) == Newest(w.buffer \o w.inflight)
Requeued(w) == Newest(w.inflight \o w.buffer)

(* The transaction fails; when the connection broke after COMMIT was sent  *)
(* it has taken effect all the same.  The loop goes on, a last flush ends  *)
(* the writer (finalize() logs the error and forgets the writer).          *)
FlushFails(tookEffect) ==
    /\ tw.task \in {"writing", "last"}
    /\ tookEffect => ~doubt            \* once per behaviour, to bound db
    /\ tw' = [tw EXCEPT !.inflight = <<>>, !.buffer = Requeued(tw),
                        !.task = IF @ = "last" THEN "off" ELSE "waiting",
                        !.on = (tw.task = "writing")]
    /\ db' = IF tookEffect THEN db \o tw.inflight ELSE db
    /\ doubt' = (doubt \/ tookEffect)
    /\ cut' = IF tw.task = "last" THEN cut \cup Elements(tw.inflight) ELSE cut

(* stop() as finalize() calls it: the loop is cancelled.  One that waits   *)
(* ends at once; in a transaction the cancellation has to get through.     *)
LastFlush(w) ==
    IF w.buffer = <<>> THEN [w EXCEPT !.task = "off", !.on = FALSE, !.inflight = <<>>]
    ELSE [w EXCEPT !.task = "last", !.inflight = w.buffer, !.buffer = <<>>]

WriterStop ==
    /\ tw.task \in {"waiting", "writing"}
    /\ tw' = IF tw.task = "waiting" THEN LastFlush(tw)
             ELSE [tw EXCEPT !.task = "cancelled"]
    /\ UNCHANGED <<db, cut, doubt>>

(* CancelledError is no Exception: the rows in flight are not put back,    *)
(* and whether their transaction took effect is open.                      *)
CancelArrives(tookEffect) ==
    /\ tw.task = "cancelled"
    /\ tw' = LastFlush(tw)
    /\ db' = IF tookEffect THEN db \o tw.inflight ELSE db
    /\ cut' = cut \cup Elements(tw.inflight)
    /\ UNCHANGED doubt

LastFlushCommits ==
    /\ tw.task = "last"
    /\ tw' = [tw EXCEPT !.task = "off", !.on = FALSE, !.inflight = <<>>]
    /\ db' = db \o tw.inflight
    /\ UNCHANGED <<cut, doubt>>

WriterNext ==
    \/ FlushStart
    \/ FlushCommits
    \/ LastFlushCommits
    \/ \E tookEffect \in BOOLEAN : FlushFails(tookEffect) \/ CancelArrives(tookEffect)

-----------------------------------------------------------------------------
(* Properties                                                              *)

Increasing(s) == \A i, j \in DOMAIN s : i < j => s[i] < s[j]

(* Events are stored in the order of their acceptance and once, unless a   *)
(* transaction took effect behind a reported failure.  What waits is always*)
(* the newest of what was accepted, without a hole and within max_buffer,  *)
(* also after a failed flush put its rows back into a buffer that          *)
(* overflowed meanwhile.                                                   *)
StoredInOrder ==
    /\ Len(tw.buffer) <= MaxBuffer
    /\ ~doubt => Increasing(db \o tw.inflight \o tw.buffer)
    /\ tw.buffer # <<>> =>
         \A i \in DOMAIN tw.buffer :
            tw.buffer[i] = tw.accepted - Len(tw.buffer) + i

(* An accepted event is stored, in flight or waiting in a writer that is   *)
(* on, unless max_buffer newer events were accepted after it, or the stop  *)
(* of the writer cancelled its transaction or failed in its last one.      *)
EventsAccounted ==
    \A e \in 1..tw.accepted :
        \/ e \in Elements(db \o tw.inflight \o (IF tw.on THEN tw.buffer ELSE <<>>))
        \/ e \in cut
        \/ e + MaxBuffer <= tw.accepted
=============================================================================
