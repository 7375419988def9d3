--------------------------- MODULE LegacyCollector ---------------------------
(***************************************************************************)
(* The legacy collector (legacy/collector/service.py) over the raw store,  *)
(* started and stopped by the dashboard's CollectorManager (legacy/        *)
(* dashboard/control.py) beside its reports (legacy/dashboard/reports.py). *)
(*                                                                         *)
(* Four threads: the CTP thread puts ticks into a bounded queue, the       *)
(* writer thread buffers them and stages parts, the collector thread runs  *)
(* the whole and finalizes, and web requests start, stop and report.       *)
(* A tick is one raw row (its live feed record takes a place in the queue  *)
(* too, which is left out).  The metadata database is not modelled.        *)
(*                                                                         *)
(* Runs and reports take data_dir/collector.lock (common/private_files.py  *)
(* ProcessLock), which is refused, not waited for.  A writer thread that   *)
(* outlives its run goes on beside the next one; one such orphan at a time.*)
(***************************************************************************)
EXTENDS RawStore

CONSTANT QueueMax    \* capacity of the queue

ASSUME QueueAssumption == QueueMax \in Nat

VARIABLES
    held,      \* <<>>, or the tick the CTP thread holds in _enqueue()
    queue,     \* _queue
    buffers,   \* _buffers[k]
    flight,    \* rows of the running _flush() that are not staged yet
    counters,  \* _part_counters[k]; 0 when k is absent
    writer,    \* the writer thread: "none", "loop", "flush", "last", "ended"
    werror,    \* _writer_error is set
    wdone,     \* _writer_done is set
    stop,      \* _stop is set
    run,       \* where run() is; "idle": the collector thread is not alive
    todo,      \* partitions its finalization loop has not finished
    failed,    \* `failure` is set
    outcome,   \* how the last run ended: "none", "finished" or "failed"
    first,     \* history: rows that arrived before this run
    lock,      \* who holds collector.lock: "free", "run" or "report"
    report,    \* the report thread: "none" (not alive), "accepted", "reading"
    oqueue,    \* the orphaned writer's queue
    owed,      \* the rows it has taken from there and not staged yet
    ocounters  \* its _part_counters

threadVars  == <<held, queue, buffers, flight, counters, writer, werror, wdone>>
runVars     == <<stop, run, todo, failed, outcome, first>>
managerVars == <<lock, report>>
orphanVars  == <<oqueue, owed, ocounters>>
otherVars   == <<managerVars, orphanVars>>
lcVars  == <<threadVars, runVars, otherVars>>
allVars == <<vars, lcVars>>

NoRows == [k \in Keys |-> <<>>]
Tick   == [key : Keys, row : Row]
RunAt  == {"idle", "lock", "prepare", "collect", "release", "join", "files"}

LcTypeOK ==
    /\ TypeOK
    /\ held \in Seq(Tick) /\ Len(held) <= 1
    /\ queue \in Seq(Tick) /\ Len(queue) <= QueueMax
    /\ buffers \in [Keys -> File] /\ flight \in [Keys -> File]
    /\ counters \in [Keys -> 0..MaxPart]
    /\ writer \in {"none", "loop", "flush", "last", "ended"}
    /\ {werror, wdone, stop, failed} \subseteq BOOLEAN
    /\ run \in RunAt
    /\ todo \subseteq Keys
    /\ outcome \in {"none", "finished", "failed"}
    /\ first \in 0..arrived
    /\ lock \in {"free", "run", "report"}
    /\ report \in {"none", "accepted", "reading"}
    /\ oqueue \in Seq(Tick)
    /\ owed \in [Keys -> File] /\ ocounters \in [Keys -> 0..MaxPart]
    /\ held # <<>> => run \in {"collect", "release"}
    /\ writer \notin {"flush", "last", "ended"} => flight = NoRows
    /\ pc # "idle" => run \in {"prepare", "files"} /\ fkey \in todo

(* A new CollectorService object. *)
Fresh ==
    /\ held' = <<>> /\ queue' = <<>>
    /\ buffers' = NoRows /\ flight' = NoRows
    /\ counters' = [k \in Keys |-> 0]
    /\ writer' = "none" /\ werror' = FALSE /\ wdone' = FALSE
    /\ stop' = FALSE /\ failed' = FALSE

LcInit ==
    /\ Init
    /\ held = <<>> /\ queue = <<>>
    /\ buffers = NoRows /\ flight = NoRows
    /\ counters = [k \in Keys |-> 0]
    /\ writer = "none" /\ werror = FALSE /\ wdone = FALSE
    /\ stop = FALSE /\ failed = FALSE
    /\ run = "idle" /\ todo = {} /\ outcome = "none" /\ first = 0
    /\ lock = "free" /\ report = "none"
    /\ oqueue = <<>> /\ owed = NoRows /\ ocounters = [k \in Keys |-> 0]

-----------------------------------------------------------------------------
(* The CTP thread: on_depth_market_data() and _enqueue(). *)
HasSpaceLate == Len(queue) <= QueueMax
HasSpace     == Len(queue) < QueueMax

(* A tick arrives, also while client.release() is under way; after a       *)
(* writer error it is given up at once.                                    *)
OnDepth(k) ==
    /\ run \in {"collect", "release"} /\ ~failed /\ held = <<>>
    /\ arrived < MaxRow
    /\ arrived' = arrived + 1
    /\ held' = IF werror THEN <<>> ELSE <<[key |-> k, row |-> arrived']>>
    /\ stop' = (stop \/ werror)
    /\ UNCHANGED <<storeVars, queue, buffers, flight, counters, writer, werror,
                   wdone, run, todo, failed, outcome, first, otherVars>>

Put ==
    /\ held # <<>> /\ HasSpace
    /\ queue' = queue \o held
    /\ held' = <<>>
    /\ UNCHANGED <<vars, buffers, flight, counters, writer, werror, wdone,
                   runVars, otherVars>>

(* The queue stays full and the writer has failed. *)
NeverGivesUp == FALSE
GivesUp      == werror
GiveUp ==
    /\ held # <<>> /\ ~HasSpace /\ GivesUp
    /\ held' = <<>>
    /\ stop' = TRUE
    /\ UNCHANGED <<vars, queue, buffers, flight, counters, writer, werror, wdone,
                   run, todo, failed, outcome, first, otherVars>>

-----------------------------------------------------------------------------
(* The writer thread: _writer_loop(), _flush() and _write_part(). *)
WriterGet ==
    /\ writer = "loop" /\ queue # <<>>
    /\ LET t == Head(queue) IN
         buffers' = [buffers EXCEPT ![t.key] = Append(@, t.row)]
    /\ queue' = Tail(queue)
    /\ UNCHANGED <<vars, held, flight, counters, writer, werror, wdone,
                   runVars, otherVars>>

(* The loop's condition: asked to end, and nothing left in the queue. *)
DrainedAtOnce == wdone
Drained == wdone /\ queue = <<>>

(* A flush is due (by time or size: left to chance), or the loop is over. *)
FlushStart ==
    /\ writer = "loop"
    /\ \/ buffers # NoRows /\ writer' = "flush"
       \/ Drained /\ writer' = "last"
    /\ flight' = buffers
    /\ buffers' = NoRows
    /\ UNCHANGED <<vars, held, queue, counters, werror, wdone, runVars, otherVars>>

NextPartIndex(k, counter) ==
    1 + IF counter[k] # 0 THEN counter[k]
        ELSE IF Parts(k) = {} THEN 0
        ELSE CHOOSE i \in Parts(k) : \A j \in Parts(k) : j <= i

Flushing == writer \in {"flush", "last"}

WritePart(k) ==
    LET i == NextPartIndex(k, counters) IN
    /\ Flushing /\ flight[k] # <<>>
    /\ i \in PartId
    /\ WriteStagingPart(k, i, flight[k])
    /\ counters' = [counters EXCEPT ![k] = i]
    /\ flight' = [flight EXCEPT ![k] = <<>>]
    /\ UNCHANGED <<arrived, held, queue, buffers, writer, werror, wdone,
                   runVars, otherVars>>

FlushEnd ==
    /\ Flushing /\ flight = NoRows
    /\ writer' = IF writer = "last" THEN "ended" ELSE "loop"
    /\ UNCHANGED <<vars, held, queue, buffers, flight, counters, werror, wdone,
                   runVars, otherVars>>

(* The flush raises: what is left goes back to the buffers, and the thread *)
(* ends.                                                                   *)
FlushRaises ==
    /\ buffers' = [k \in Keys |-> flight[k] \o buffers[k]]
    /\ flight' = NoRows
    /\ writer' = "ended" /\ werror' = TRUE /\ stop' = TRUE
    /\ UNCHANGED <<diskVars, finVars, staged, torn, arrived, held, queue, counters,
                   wdone, run, todo, failed, outcome, first, otherVars>>

(* A part or the batch's row counts could not be written.  (Nobody looks   *)
(* at these buffers again, so a part whose directory fsync failed is a     *)
(* written one.)                                                           *)
FlushFails ==
    /\ Flushing
    /\ crashes < MaxCrash /\ crashes' = crashes + 1
    /\ FlushRaises

(* write_staging_part() refuses to overwrite a part of another writer. *)
PartRefused(k) ==
    /\ Flushing /\ flight[k] # <<>>
    /\ NextPartIndex(k, counters) \in Parts(k)
    /\ FlushRaises
    /\ UNCHANGED crashes

-----------------------------------------------------------------------------
(* The collector thread: run(). *)
Leftovers == {k \in Keys : Parts(k) # {}}

(* CollectorManager.start(), and the new thread.  The writer of a run that *)
(* did not wait for it keeps its own queue, buffers and counters.          *)
WriterGone == writer \in {"none", "ended"}
RunStart ==
    /\ run = "idle" /\ report = "none"
    /\ IF WriterGone THEN UNCHANGED orphanVars
       ELSE /\ oqueue = <<>> /\ owed = NoRows
            /\ oqueue' = queue /\ ocounters' = counters
            /\ owed' = [k \in Keys |-> flight[k] \o buffers[k]]
    /\ Fresh
    /\ run' = "lock" /\ todo' = {}
    /\ outcome' = "none" /\ first' = arrived
    /\ UNCHANGED <<vars, managerVars>>

(* run() takes the lock, then prepares; or it raises at once. *)
RunLocks ==
    /\ run = "lock"
    /\ IF lock = "free"
         THEN /\ lock' = "run"
              /\ run' = "prepare" /\ todo' = Leftovers
              /\ UNCHANGED outcome
         ELSE run' = "idle" /\ outcome' = "failed" /\ UNCHANGED <<lock, todo>>
    /\ UNCHANGED <<vars, threadVars, stop, failed, first, report, orphanVars>>

(* The end of run(): the lock is freed before the thread ends. *)
RunEnds(failure) ==
    /\ run' = "idle"
    /\ stop' = TRUE
    /\ outcome' = IF failure THEN "failed" ELSE "finished"
    /\ lock' = "free"

InFiles == run \in {"prepare", "files"}

FinalizePartition(k) ==
    /\ InFiles /\ k \in todo
    /\ StartFinalize(k)
    /\ UNCHANGED <<arrived, lcVars>>

PartitionStep ==
    /\ MergePart \/ Publish \/ SyncDirectory \/ UnlinkPart
    /\ UNCHANGED <<arrived, lcVars>>

PartitionDone ==
    /\ EndFinalize
    /\ todo' = todo \ {fkey}
    /\ UNCHANGED <<arrived, threadVars, stop, run, failed, outcome, first, otherVars>>

(* In _prepare() the run is given up; at its end it ends as failed. *)
PartitionFails ==
    /\ FailFinalize
    /\ failed' = TRUE
    /\ IF run = "prepare" THEN run' = "release" /\ UNCHANGED <<stop, outcome>>
            /\ UNCHANGED lock
       ELSE RunEnds(TRUE)
    /\ UNCHANGED <<arrived, threadVars, todo, first, report, orphanVars>>

(* The client is created, the writer started and the client initialised;   *)
(* or one of these fails.                                                  *)
Collect ==
    /\ run = "prepare" /\ todo = {} /\ pc = "idle"
    /\ \/ run' = "collect" /\ writer' = "loop" /\ UNCHANGED failed
       \/ run' = "release" /\ failed' = TRUE /\ writer' \in {"none", "loop"}
    /\ UNCHANGED <<vars, held, queue, buffers, flight, counters, werror, wdone,
                   stop, todo, outcome, first, otherVars>>

StopSeen ==
    /\ run = "collect"
    /\ stop \/ werror
    /\ run' = "release"
    /\ UNCHANGED <<vars, threadVars, stop, todo, failed, outcome, first, otherVars>>

(* client.release() waits for the CTP thread, then the writer may end. *)
Release ==
    /\ run = "release" /\ held = <<>>
    /\ run' = "join"
    /\ wdone' = TRUE
    /\ UNCHANGED <<vars, held, queue, buffers, flight, counters, writer, werror,
                   stop, todo, failed, outcome, first, otherVars>>

(* The writer has ended: well, and everything is finalized, or with an     *)
(* error.  (_finalize_all() flushes first, but the writer left nothing.)   *)
Joined ==
    /\ run = "join" /\ WriterGone
    /\ IF werror
         THEN RunEnds(TRUE) /\ failed' = TRUE /\ UNCHANGED todo
         ELSE run' = "files" /\ todo' = Leftovers /\ UNCHANGED <<stop, outcome, failed, lock>>
    /\ UNCHANGED <<vars, threadVars, first, report, orphanVars>>

(* The writer needs more than 60 s; it goes on after the run. *)
JoinTimeout ==
    /\ run = "join" /\ ~WriterGone
    /\ crashes < MaxCrash /\ crashes' = crashes + 1
    /\ RunEnds(TRUE) /\ failed' = TRUE
    /\ UNCHANGED <<diskVars, finVars, staged, torn, arrived, threadVars, todo, first,
                   report, orphanVars>>

FilesDone ==
    /\ run = "files" /\ todo = {} /\ pc = "idle"
    /\ RunEnds(failed)
    /\ UNCHANGED <<vars, threadVars, todo, failed, first, report, orphanVars>>

-----------------------------------------------------------------------------
(* CollectorManager.stop() and the signal handlers. *)
StopCollect ==
    /\ run # "idle" /\ ~stop
    /\ stop' = TRUE
    /\ UNCHANGED <<vars, threadVars, run, todo, failed, outcome, first, otherVars>>

(* create_report(): no report while the collector thread is alive, also    *)
(* when it is only saving.                                                 *)
StillRunning == run # "idle" /\ ~stop
ThreadAlive  == run # "idle"
ReportStart(k) ==
    /\ report = "none" /\ ~ThreadAlive
    /\ Finals(k) # {} /\ Parts(k) = {}
    /\ report' = "accepted"
    /\ UNCHANGED <<vars, threadVars, runVars, lock, orphanVars>>

(* run_analysis() takes the lock while it reads; or it raises. *)
ReportLocks ==
    /\ report = "accepted"
    /\ IF lock = "free" THEN report' = "reading" /\ lock' = "report"
       ELSE report' = "none" /\ UNCHANGED lock
    /\ UNCHANGED <<vars, threadVars, runVars, orphanVars>>

ReportEnd ==
    /\ report = "reading"
    /\ report' = "none" /\ lock' = "free"
    /\ UNCHANGED <<vars, threadVars, runVars, orphanVars>>

-----------------------------------------------------------------------------
(* The orphaned writer empties its queue and stages what it has, a flush   *)
(* at a time; a part that is there already ends it.                        *)
OrphanGet ==
    /\ oqueue # <<>>
    /\ LET t == Head(oqueue) IN owed' = [owed EXCEPT ![t.key] = Append(@, t.row)]
    /\ oqueue' = Tail(oqueue)
    /\ UNCHANGED <<vars, threadVars, runVars, managerVars, ocounters>>

OrphanWrites(k) ==
    LET i == NextPartIndex(k, ocounters) IN
    \E n \in 1..Len(owed[k]) :
      /\ i \in PartId
      /\ WriteStagingPart(k, i, SubSeq(owed[k], 1, n))
      /\ owed' = [owed EXCEPT ![k] = SubSeq(@, n + 1, Len(@))]
      /\ ocounters' = [ocounters EXCEPT ![k] = i]
      /\ UNCHANGED <<arrived, threadVars, runVars, managerVars, oqueue>>

OrphanRefused(k) ==
    /\ owed[k] # <<>>
    /\ NextPartIndex(k, ocounters) \in Parts(k)
    /\ oqueue' = <<>> /\ owed' = NoRows
    /\ UNCHANGED <<vars, threadVars, runVars, managerVars, ocounters>>

Crash ==
    /\ CrashStore
    /\ Fresh
    /\ run' = "idle" /\ todo' = {} /\ outcome' = "failed"
    /\ lock' = "free" /\ report' = "none"
    /\ oqueue' = <<>> /\ owed' = NoRows
    /\ UNCHANGED <<arrived, first, ocounters>>

CtpStep    == Put \/ GiveUp
WriterStep ==
    \/ WriterGet \/ FlushStart \/ FlushEnd
    \/ \E k \in Keys : WritePart(k) \/ PartRefused(k)
RunStep ==
    \/ RunLocks
    \/ \E k \in Keys : FinalizePartition(k)
    \/ PartitionStep \/ PartitionDone
    \/ Collect \/ StopSeen \/ Release \/ Joined \/ FilesDone

LcNext ==
    \/ \E k \in Keys : OnDepth(k) \/ ReportStart(k)
    \/ CtpStep \/ WriterStep \/ RunStep
    \/ FlushFails \/ PartitionFails \/ JoinTimeout \/ Crash
    \/ RunStart \/ StopCollect \/ ReportLocks \/ ReportEnd
    \/ OrphanGet \/ \E k \in Keys : OrphanWrites(k) \/ OrphanRefused(k)

(* The three threads go on; no tick, request or failure is forced.         *)
LcSpec == LcInit /\ [][LcNext]_allVars
          /\ WF_allVars(CtpStep) /\ WF_allVars(WriterStep) /\ WF_allVars(RunStep)

-----------------------------------------------------------------------------
(* A run that ends as finished has every tick that reached its callback in *)
(* a final file: what the queue, the buffers and the CTP thread held when  *)
(* the stop came has gone through (service.py run(), _writer_loop()).      *)
FinishedRunKeepsRows ==
    outcome = "finished" =>
        \A r \in (first + 1)..arrived : \E k \in Keys : r \in FinalRows(k)

(* A stop ends the run, although the CTP thread may be waiting for a place *)
(* in a queue that a failed writer no longer empties, and release() waits  *)
(* for the CTP thread (service.py _enqueue(), run()).                      *)
StopEnds == (stop /\ run # "idle") ~> (run = "idle")

(* Whoever the manager has admitted finds collector.lock free, so neither  *)
(* a run nor a report ends in the "already running" of the other; and no   *)
(* report reads final files while a finalize() is at work (control.py      *)
(* start(), create_report(); session_report.py run_analysis()).            *)
AdmittedFindLockFree ==
    /\ run = "lock" \/ report = "accepted" => lock = "free"
    /\ report = "reading" => pc = "idle"
=============================================================================
