------------------------------ MODULE Archiver ------------------------------
(***************************************************************************)
(* The gateway's archiver (gateway/archiver.py) on top of the raw store:   *)
(* rows are buffered on the event loop, written as staging parts by a      *)
(* worker thread, and finalized when the stream stops or at the next       *)
(* start.  flush() and finalize() exclude each other by the asyncio lock;  *)
(* add_row() and begin_batch() do not take it and interleave with both.    *)
(*                                                                         *)
(* The caller is the gateway runtime (gateway/process.py) with one control *)
(* connection: it begins a batch, passes rows on, stops the stream and     *)
(* then finalizes. Its main loop flushes until a stop signal or a failed  *)
(* flush ends it; the process then finalizes once more and exits.          *)
(***************************************************************************)
EXTENDS RawStore

VARIABLES
    batch,      \* _batch_id is not None
    buffers,    \* _buffers[k]: accepted rows, in memory
    flight,     \* `remaining` of the worker: rows it has not written yet
    counters,   \* _part_counters[k]; 0 when k is absent
    active,     \* _active_keys
    op,         \* the call at work: it holds the lock, or it is prepare()
    step,       \* "write": writing parts; "files": finalizing partitions
    todo,       \* partitions the running finalize/prepare has not finished
    stream,     \* the runtime's stream of rows
    running,    \* the runtime's main loop is running
    halfWritten \* history: a part appeared although its write failed

archVars == <<batch, buffers, flight, counters, active, op, step, todo,
              stream, running, halfWritten>>
callVars == <<stream, running>>
allVars  == <<vars, archVars>>

NoRows  == [k \in Keys |-> <<>>]

InFiles == op \in {"finalize", "shutdown", "prepare"} /\ step = "files"

ArchTypeOK ==
    /\ TypeOK
    /\ {batch, running, halfWritten} \subseteq BOOLEAN
    /\ buffers \in [Keys -> File] /\ flight \in [Keys -> File]
    /\ counters \in [Keys -> 0..MaxPart]
    /\ active \subseteq Keys /\ todo \subseteq Keys
    /\ op \in {"none", "flush", "finalize", "shutdown", "prepare"}
    /\ step \in {"write", "files"}
    /\ stream \in {"closed", "open", "closing"}
    /\ op \in {"none", "prepare"} => flight = NoRows
    /\ pc # "idle" => InFiles /\ fkey \in todo

ArchInit ==
    /\ Init
    /\ batch = FALSE /\ halfWritten = FALSE
    /\ buffers = NoRows /\ flight = NoRows
    /\ counters = [k \in Keys |-> 0]
    /\ active = {} /\ todo = {}
    /\ op = "prepare" /\ step = "files"
    /\ stream = "closed"
    /\ running = TRUE

-----------------------------------------------------------------------------
(* list_staging_partitions() *)
LeftoversWithoutFinal == {k \in Keys : Parts(k) # {} /\ base[k] = NoFile}
Leftovers == {k \in Keys : Parts(k) # {}}

(* begin_batch(): what the buffers still hold is dropped.  The runtime     *)
(* calls it with the stream stopped, or, in state DISCONNECTED or FAILED,  *)
(* with the previous stream still there: the binding then refuses a second *)
(* client and the runtime finalizes.  A main loop flush may be under way.  *)
BeginBatch ==
    /\ running
    /\ \/ stream = "closed" /\ stream' \in {"open", "closing"}
       \/ stream = "open" /\ stream' = "closing"
    /\ op \in {"none", "flush"}
    /\ batch' = TRUE
    /\ buffers' = NoRows
    /\ counters' = [k \in Keys |-> 0]
    /\ active' = {}
    /\ UNCHANGED <<vars, flight, op, step, todo, running, halfWritten>>

AddRow(k) ==
    /\ stream = "open"
    /\ arrived < MaxRow
    /\ arrived' = arrived + 1
    /\ buffers' = [buffers EXCEPT ![k] = Append(@, arrived')]
    /\ active' = active \cup {k}
    /\ UNCHANGED <<storeVars, batch, flight, counters, op, step, todo,
                   callVars, halfWritten>>

(* The runtime stops the stream; its control handler awaits finalize(). *)
StopStream ==
    /\ stream = "open"
    /\ stream' = "closing"
    /\ UNCHANGED <<vars, batch, buffers, flight, counters, active, op, step,
                   todo, running, halfWritten>>

(* SIGINT or SIGTERM: the main loop ends. *)
StopRequested ==
    /\ running /\ op # "prepare"
    /\ running' = FALSE
    /\ UNCHANGED <<vars, batch, buffers, flight, counters, active, op, step,
                   todo, stream, halfWritten>>

-----------------------------------------------------------------------------
(* `async with self._lock` can be entered; prepare() comes before any of it. *)
LockIgnored == op # "prepare"
LockFree == op = "none"

(* _flush_locked(): the buffers are handed to the worker thread.  Whether  *)
(* the interval has passed or a buffer is full is left to chance.          *)
FlushDueInBatch == buffers # NoRows /\ stream = "open"
FlushDue == buffers # NoRows

FlushStart ==
    /\ LockFree
    /\ running
    /\ FlushDue
    /\ op' = "flush" /\ step' = "write"
    /\ flight' = buffers
    /\ buffers' = NoRows
    /\ UNCHANGED <<vars, batch, counters, active, todo, callVars, halfWritten>>

FlushEnd ==
    /\ op = "flush"
    /\ flight = NoRows
    /\ op' = "none"
    /\ UNCHANGED <<vars, batch, buffers, flight, counters, active, step, todo,
                   callVars, halfWritten>>

(* _next_part_index() *)
NextPartIndex(k) ==
    1 + IF counters[k] # 0 THEN counters[k]
        ELSE IF Parts(k) = {} THEN 0
        ELSE CHOOSE i \in Parts(k) : \A j \in Parts(k) : j <= i

Writing(k) ==
    op \in {"flush", "finalize", "shutdown"} /\ step = "write" /\ flight[k] # <<>>

(* `del remaining[key]` once the part of k is on disk. *)
StillRemaining(k) == flight
AfterWrite(k) == [flight EXCEPT ![k] = <<>>]

(* _write_part(): `_part_counters` moves only after the write returned. *)
WritePart(k) ==
    LET i == NextPartIndex(k) IN
    /\ Writing(k)
    /\ i \in PartId
    /\ WriteStagingPart(k, i, flight[k])
    /\ counters' = [counters EXCEPT ![k] = i]
    /\ flight' = AfterWrite(k)
    /\ UNCHANGED <<arrived, batch, buffers, active, op, step, todo, callVars,
                   halfWritten>>

(* `self._buffers[key] = rows + self._buffers.get(key, [])` *)
RestoredNothing(k) == buffers[k]
RestoredBehind(k) == buffers[k] \o flight[k]
Restored(k) == flight[k] \o buffers[k]

(* The process exits and starts again with prepare(). *)
ProcessGone ==
    /\ batch' = FALSE
    /\ buffers' = NoRows /\ flight' = NoRows
    /\ counters' = [k \in Keys |-> 0]
    /\ active' = {}
    /\ op' = "prepare" /\ step' = "files"
    /\ todo' = Leftovers'
    /\ stream' = "closed" /\ running' = TRUE
    /\ UNCHANGED arrived

(* A call that raised leaves the lock.  A failed flush breaks the main     *)
(* loop; a failed finalize() is logged and swallowed, and the runtime      *)
(* takes the stream for closed.                                            *)
CallRaises ==
    \/ op = "flush" /\ running' = FALSE /\ UNCHANGED stream
    \/ op = "finalize" /\ stream' = "closed" /\ UNCHANGED running

(* The worker's error: what it did not write goes back to the buffers.     *)
WriteRaises ==
    \/ op = "shutdown" /\ ProcessGone
    \/ /\ CallRaises
       /\ op' = "none"
       /\ buffers' = [k \in Keys |-> Restored(k)]
       /\ flight' = NoRows
       /\ UNCHANGED <<arrived, batch, counters, active, step, todo>>

(* write_staging_part() refuses to overwrite a part. *)
WriteRefused(k) ==
    /\ Writing(k)
    /\ NextPartIndex(k) \in Parts(k)
    /\ UNCHANGED <<storeVars, halfWritten>>
    /\ WriteRaises

(* The write fails before its rename: nothing on disk changes. *)
WriteFails(k) ==
    /\ Writing(k)
    /\ NextPartIndex(k) \notin Parts(k)
    /\ crashes < MaxCrash /\ crashes' = crashes + 1
    /\ UNCHANGED <<diskVars, finVars, staged, torn, halfWritten>>
    /\ WriteRaises

(* The same after its rename: the part is there, the directory's fsync     *)
(* failed, and the rows go back to the buffers.                            *)
WriteFailsLate(k) ==
    LET i == NextPartIndex(k) IN
    /\ Writing(k)
    /\ i \in PartId \ Parts(k)
    /\ crashes < MaxCrash /\ crashes' = crashes + 1
    /\ staging' = [staging EXCEPT ![k][i] = flight[k]]
    /\ torn' = (torn \/ Debris(k))
    /\ halfWritten' = TRUE
    /\ UNCHANGED <<base, segs, tmp, unsynced, finVars, staged>>
    /\ WriteRaises

-----------------------------------------------------------------------------
(* _finalize_locked() begins with the forced flush.  At shutdown the       *)
(* client is released and the inbox abandoned before it.                   *)
Finalizing(call) ==
    /\ LockFree
    /\ batch
    /\ op' = call /\ step' = "write"
    /\ flight' = buffers
    /\ buffers' = NoRows
    /\ UNCHANGED <<vars, batch, counters, active, todo, running, halfWritten>>

FinalizeStart == stream = "closing" /\ Finalizing("finalize") /\ UNCHANGED stream
ShutdownStart == ~running /\ Finalizing("shutdown") /\ stream' = "closed"

(* Without a batch finalize() does nothing; only a shutdown meets that. *)
ShutdownNothing ==
    /\ op = "none" /\ ~running /\ ~batch
    /\ UNCHANGED <<storeVars, halfWritten>>
    /\ ProcessGone

(* Every partition that is active in this batch or has staging parts. *)
FinalizeKeysOfBatch == active
FinalizeKeys == active \cup Leftovers

ListPartitions ==
    /\ op \in {"finalize", "shutdown"} /\ step = "write"
    /\ flight = NoRows
    /\ step' = "files"
    /\ todo' = FinalizeKeys
    /\ UNCHANGED <<vars, batch, buffers, flight, counters, active, op,
                   callVars, halfWritten>>

(* store.finalize(key) of a partition without parts changes nothing. *)
SkipPartition(k) ==
    /\ InFiles /\ pc = "idle"
    /\ k \in todo
    /\ Parts(k) = {}
    /\ todo' = todo \ {k}
    /\ UNCHANGED <<vars, batch, buffers, flight, counters, active, op, step,
                   callVars, halfWritten>>

FinalizePartition(k) ==
    /\ InFiles
    /\ k \in todo
    /\ StartFinalize(k)
    /\ UNCHANGED <<arrived, archVars>>

PartitionStep ==
    /\ MergePart \/ Publish \/ SyncDirectory \/ UnlinkPart
    /\ UNCHANGED <<arrived, archVars>>

PartitionDone ==
    /\ EndFinalize
    /\ todo' = todo \ {fkey}
    /\ UNCHANGED <<arrived, batch, buffers, flight, counters, active, op, step,
                   callVars, halfWritten>>

(* An exception of store.finalize(); in prepare() it ends the process. *)
PartitionFails ==
    /\ FailFinalize
    /\ UNCHANGED halfWritten
    /\ \/ op \in {"shutdown", "prepare"} /\ ProcessGone
       \/ /\ op = "finalize" /\ CallRaises
          /\ op' = "none"
          /\ UNCHANGED <<arrived, batch, buffers, flight, counters, active,
                         step, todo>>

FilesDone == InFiles /\ todo = {} /\ pc = "idle"

FinalizeEnd ==
    /\ FilesDone /\ op = "finalize"
    /\ batch' = FALSE
    /\ active' = {}
    /\ op' = "none"
    /\ stream' = "closed"
    /\ UNCHANGED <<vars, buffers, flight, counters, step, todo, running,
                   halfWritten>>

ShutdownEnd ==
    /\ FilesDone /\ op = "shutdown"
    /\ UNCHANGED <<storeVars, halfWritten>>
    /\ ProcessGone

PrepareEnd ==
    /\ FilesDone /\ op = "prepare"
    /\ op' = "none"
    /\ UNCHANGED <<vars, batch, buffers, flight, counters, active, step, todo,
                   callVars, halfWritten>>

Crash == CrashStore /\ ProcessGone /\ UNCHANGED halfWritten

ArchiverStep ==
    \/ FlushStart \/ FlushEnd
    \/ FinalizeStart \/ ShutdownStart \/ ShutdownNothing
    \/ ListPartitions
    \/ \E k \in Keys : WritePart(k) \/ WriteRefused(k)
    \/ \E k \in Keys : SkipPartition(k) \/ FinalizePartition(k)
    \/ PartitionStep \/ PartitionDone
    \/ FinalizeEnd \/ ShutdownEnd \/ PrepareEnd

ArchNext ==
    \/ BeginBatch \/ StopStream \/ StopRequested
    \/ \E k \in Keys : AddRow(k) \/ WriteFails(k) \/ WriteFailsLate(k)
    \/ ArchiverStep
    \/ PartitionFails \/ Crash

(* The event loop and the worker thread keep running what they began, and  *)
(* the main loop's flush comes round again: nothing forces a control       *)
(* command, a row, a failure or a crash.                                   *)
ArchSpec == ArchInit /\ [][ArchNext]_allVars /\ WF_allVars(ArchiverStep)

-----------------------------------------------------------------------------
DiskRows    == UNION {StagedRows(k) \cup FinalRows(k) : k \in Keys}
PendingRows == UNION {RowsOf(buffers[k]) \cup RowsOf(flight[k]) : k \in Keys}

(* The archiver implements the row log: a row it accepted leaves memory    *)
(* only for the disk, except when the process dies or begin_batch() drops  *)
(* what a failed finalize() left behind (archiver.py flush, finalize,      *)
(* begin_batch; parquet_store.py).                                         *)
Log == INSTANCE RowLog WITH
    Row      <- 1..MaxRow,
    session  <- IF op = "prepare" THEN "recovering"
                ELSE IF stream = "open" THEN "open" ELSE "closed",
    volatile <- PendingRows \ DiskRows,
    durable  <- DiskRows,
    lost     <- (1..arrived) \ (PendingRows \cup DiskRows)
RowLogImplemented == Log!LogSpec

(* Rows keep their arrival order within every file, and from one staging   *)
(* part to the next, however often a failed flush put them back; unless a  *)
(* part appeared although its write failed (archiver.py _flush_locked).    *)
FilesInArrivalOrder ==
    ~halfWritten =>
      \A k \in Keys :
        /\ \A f \in Finals(k) : Increasing(f)
        /\ \A i \in Parts(k) : Increasing(staging[k][i])
        /\ \A i, j \in Parts(k) : i < j =>
             \A r \in RowsOf(staging[k][i]), q \in RowsOf(staging[k][j]) : r < q

(* No row is in two staging parts, nor both in memory and on disk, so a    *)
(* retried flush cannot store it twice; same exception.                    *)
RowsStoredOnce ==
    ~halfWritten =>
      /\ PendingRows \cap DiskRows = {}
      /\ \A k \in Keys : \A i, j \in Parts(k) :
           i # j => RowsOf(staging[k][i]) \cap RowsOf(staging[k][j]) = {}

(* A batch ends with nothing in memory and no staging part anywhere: also  *)
(* what an earlier, failed finalize() left behind has been published.      *)
FinalizeLeavesNothing ==
    [][FinalizeEnd \/ ShutdownEnd =>
          /\ buffers = NoRows
          /\ \A k \in Keys : Parts(k) = {}]_allVars

(* Every accepted row is eventually on disk or given up: none waits in     *)
(* memory for a flush that never comes (process.py main loop).             *)
RowsSettle == \A r \in 1..MaxRow :
    (r \in PendingRows) ~> (r \in DiskRows \/ r \notin PendingRows)

(* After a restart every staging part is published (archiver.py prepare,   *)
(* collector.finalize_on_start).                                           *)
RecoveryPublishes == (op = "prepare") ~> (\A k \in Keys : Parts(k) = {})
=============================================================================
