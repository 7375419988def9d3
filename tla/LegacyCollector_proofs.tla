----------------------- MODULE LegacyCollector_proofs -----------------------
(***************************************************************************)
(* Proofs about the legacy collector, for any partitions, queue size and   *)
(* number of ticks, parts and failures: a run that ends as finished has    *)
(* stored every tick it was given, and collection and reports keep apart.  *)
(***************************************************************************)
EXTENDS LegacyCollector, RawStore_proofs

(* A row that is on its way: held by the CTP thread, queued, buffered or   *)
(* being flushed.                                                          *)
OnItsWay(r) ==
    \/ \E n \in DOMAIN held : held[n].row = r
    \/ \E n \in DOMAIN queue : queue[n].row = r
    \/ \E k \in Keys : r \in RowsOf(buffers[k]) \cup RowsOf(flight[k])

(* The finalization at the end of a run will come to this part.  It passes *)
(* by a part that an orphaned writer stages meanwhile.                     *)
Covered(k, i) ==
    run = "files" =>
        /\ k \in todo
        /\ k = fkey /\ pc = "merge" => i \in flist
        /\ k = fkey /\ pc \in {"sync", "cleanup"} => i \in ftodo

(* A row that is in a final file, or staged and not passed by. *)
OnDisk(r) ==
    \E k \in Keys :
        \/ r \in FinalRows(k)
        \/ \E i \in Parts(k) : r \in RowsOf(staging[k][i]) /\ Covered(k, i)

(* Nothing has gone wrong in this run. *)
WellSoFar == run # "idle" /\ ~werror /\ ~failed

(* Nothing overtakes the end of the writer: its last flush begins when it  *)
(* was told to end and the queue is empty, and by then nobody adds to it.  *)
WriterInOrder ==
    /\ run \in {"collect", "release", "join", "files"} => writer # "none"
    /\ run \in {"lock", "prepare"} => first = arrived
    /\ run \in {"collect", "release"} => ~wdone
    /\ writer \in {"last", "ended"} => wdone /\ queue = <<>> /\ buffers = NoRows
    /\ writer = "ended" => flight = NoRows
    /\ run = "files" => writer = "ended"

(* Of the ticks of this run none is lost, while nothing has gone wrong. *)
RowsInRun == \A r \in (first + 1)..arrived : OnItsWay(r) \/ OnDisk(r)
WellInv   == WellSoFar => RowsInRun /\ WriterInOrder

(* A run begins without a writer, saves what a writer that is gone has     *)
(* left, and has no outcome before it ends.                                *)
StageInv ==
    /\ run \in {"lock", "prepare"} => writer = "none" /\ ~wdone
    /\ run = "files" => WriterGone /\ ~werror
    /\ run # "idle" => outcome = "none"

RunInv == WellInv /\ StageInv /\ FinishedRunKeepsRows
LcInv  == StoreInv /\ LcTypeOK /\ RunInv

-----------------------------------------------------------------------------
LEMMA NoRowsFacts == NoRows \in [Keys -> File] /\ \A k \in Keys : RowsOf(NoRows[k]) = {}
<1>1. <<>> \in File /\ RowsOf(<<>>) = {}
  BY DEF File, RowsOf
<1> QED BY <1>1 DEF NoRows

(* Types of a step that leaves the store alone. *)
LEMMA TypeKept ==
    ASSUME TypeOK, UNCHANGED <<staging, base, segs, tmp, unsynced, pc, fkey, flist, ftodo,
                               ffile, arrived, staged, torn>>,
           crashes' \in Nat
    PROVE  TypeOK'
BY DEF TypeOK

LEMMA StoreInvKept ==
    ASSUME StoreInv, UNCHANGED <<staging, base, segs, tmp, unsynced, pc, fkey, flist, ftodo,
                                 ffile, staged, torn>>,
           crashes' \in Nat, arrived' \in Nat
    PROVE  StoreInv'
<1>1. TypeOK'
  BY DEF StoreInv, TypeOK
<1>2. FinalizeCovered' /\ StagedRowsDurable'
  BY DEF StoreInv, FinalizeCovered, Repeats, StagedRowsDurable, Parts, Synced, Finals
<1> QED BY <1>1, <1>2 DEF StoreInv

(* A part the loop will come to stays so, or its rows are in a final file. *)
LEMMA PartsStay ==
    ASSUME \A k \in Keys : FinalRows(k) \subseteq FinalRows(k)',
           \A k \in Keys : \A i \in Parts(k) : Covered(k, i) =>
               \/ i \in Parts(k)' /\ staging'[k][i] = staging[k][i] /\ Covered(k, i)'
               \/ RowsOf(staging[k][i]) \subseteq FinalRows(k)
    PROVE  \A r : OnDisk(r) => OnDisk(r)'
<1> SUFFICES ASSUME NEW r, OnDisk(r) PROVE OnDisk(r)'
  OBVIOUS
<1>1. PICK k \in Keys :
        \/ r \in FinalRows(k)
        \/ \E i \in Parts(k) : r \in RowsOf(staging[k][i]) /\ Covered(k, i)
  BY DEF OnDisk
<1>2. CASE r \in FinalRows(k)
  BY <1>2 DEF OnDisk
<1>3. CASE r \notin FinalRows(k)
  <2>1. PICK i \in Parts(k) : r \in RowsOf(staging[k][i]) /\ Covered(k, i)
    BY <1>1, <1>3
  <2>2. i \in Parts(k)' /\ staging'[k][i] = staging[k][i] /\ Covered(k, i)'
    BY <2>1, <1>3
  <2>3. r \in RowsOf(staging[k][i])'
    BY <2>1, <2>2
  <2> QED BY <2>2, <2>3 DEF OnDisk
<1> QED BY <1>2, <1>3

(* Rows on disk that the loop will come to stay there while finalize()     *)
(* works, except that a crash may undo a publication (it ends the run).    *)
LEMMA DiskKept ==
    ASSUME StoreInv, MergePart \/ Publish \/ SyncDirectory \/ UnlinkPart,
           UNCHANGED <<run, todo>>
    PROVE  \A r : OnDisk(r) => OnDisk(r)'
<1>1. CASE MergePart \/ SyncDirectory
  <2>1. UNCHANGED <<staging, base, segs>>
    BY <1>1 DEF MergePart, SyncDirectory
  <2>2. \A k \in Keys : \A i \in Parts(k) : Covered(k, i) => Covered(k, i)'
    BY <1>1 DEF MergePart, SyncDirectory, Covered
  <2>3. /\ \A k \in Keys : FinalRows(k)' = FinalRows(k)
        /\ \A k \in Keys : Parts(k)' = Parts(k)
    BY <2>1 DEF FinalRows, Finals, Parts
  <2> QED BY <2>1, <2>2, <2>3, PartsStay
<1>2. CASE Publish
  <2>1. staging' = staging
    BY <1>2 DEF Publish
  <2>2. \A k \in Keys : \A f \in Finals(k) : f \in Finals(k)'
    BY <1>2 DEF Finals, Publish, FirstFile, StoreInv, TypeOK
  <2>3. \A k \in Keys : FinalRows(k) \subseteq FinalRows(k)'
    BY <2>2 DEF FinalRows
  <2>4. \A k \in Keys : \A i \in Parts(k) : Covered(k, i) => Covered(k, i)'
    BY <1>2 DEF Publish, CleanupParts, Covered
  <2>5. \A k \in Keys : Parts(k)' = Parts(k)
    BY <2>1 DEF Parts
  <2> QED BY <2>1, <2>3, <2>4, <2>5, PartsStay
<1>3. CASE UnlinkPart
  <2> DEFINE n == Lowest(ftodo)
  <2>1. /\ pc = "cleanup" /\ pc' = pc /\ n \in ftodo /\ n \in PartId /\ fkey \in Keys
        /\ ftodo' = ftodo \ {n} /\ UNCHANGED <<base, segs, fkey, flist>>
        /\ staging' = [staging EXCEPT ![fkey][n] = NoFile]
    BY <1>3, NextPartListed DEF UnlinkPart, StoreInv, TypeOK
  <2> HIDE DEF n
  <2>2. \A k \in Keys : FinalRows(k)' = FinalRows(k)
    BY <2>1 DEF FinalRows, Finals
  <2>3. RowsOf(staging[fkey][n]) \subseteq FinalRows(fkey)
    <3>1. RowsOf(staging[fkey][n]) \subseteq RowsOf(ffile) /\ ffile \in Finals(fkey)
      BY <2>1 DEF StoreInv, FinalizeCovered, Repeats, Synced
    <3> QED BY <3>1 DEF FinalRows
  <2>4. ASSUME NEW k \in Keys, NEW i \in Parts(k), Covered(k, i), ~(k = fkey /\ i = n)
        PROVE  i \in Parts(k)' /\ staging'[k][i] = staging[k][i] /\ Covered(k, i)'
    <3>1. staging'[k][i] = staging[k][i]
      BY <2>1, <2>4 DEF StoreInv, TypeOK, Parts
    <3>2. i \in Parts(k)'
      BY <3>1, <2>4 DEF Parts
    <3>3. Covered(k, i)'
      BY <2>1, <2>4 DEF Covered
    <3> QED BY <3>1, <3>2, <3>3
  <2> QED BY <2>2, <2>3, <2>4, PartsStay
<1> QED BY <1>1, <1>2, <1>3
-----------------------------------------------------------------------------
(* The finalization loop is where it was, or is not at work. *)
LoopStays == run' # "files" \/ UNCHANGED <<run, todo, pc, fkey, flist, ftodo>>

(* Steps that move no row leave every row where it was. *)
LEMMA DiskSame ==
    ASSUME UNCHANGED <<staging, base, segs>>, LoopStays
    PROVE  \A r : OnDisk(r) => OnDisk(r)'
<1>1. /\ \A k \in Keys : FinalRows(k)' = FinalRows(k)
      /\ \A k \in Keys : Parts(k)' = Parts(k)
  BY DEF FinalRows, Finals, Parts
<1>2. \A k \in Keys : \A i \in Parts(k) : Covered(k, i) => Covered(k, i)'
  BY DEF LoopStays, Covered
<1> QED BY <1>1, <1>2, PartsStay

LEMMA RowsStay ==
    ASSUME RowsInRun, LoopStays,
           UNCHANGED <<staging, base, segs, held, queue, buffers, flight, first, arrived>>
    PROVE  RowsInRun'
<1>1. \A r : OnItsWay(r) => OnItsWay(r)'
  BY DEF OnItsWay
<1> QED BY <1>1, DiskSame DEF RowsInRun

(* A row is moved on: no row of the run is lost. *)
LEMMA RowsGoOn ==
    ASSUME RowsInRun, UNCHANGED <<first, arrived>>,
           \A r : OnItsWay(r) \/ OnDisk(r) => OnItsWay(r)' \/ OnDisk(r)'
    PROVE  RowsInRun'
BY DEF RowsInRun

LEMMA FinishedStays ==
    ASSUME FinishedRunKeepsRows, UNCHANGED <<outcome, first, arrived, base, segs>>
    PROVE  FinishedRunKeepsRows'
BY DEF FinishedRunKeepsRows, FinalRows, Finals

-----------------------------------------------------------------------------
(* The CTP thread. *)
LEMMA InvOnDepth ==
    ASSUME LcInv, NEW k \in Keys, OnDepth(k)
    PROVE  LcInv'
<1> USE DEF LcInv, RunInv
<1>1. /\ run \in {"collect", "release"} /\ ~failed /\ held = <<>>
      /\ arrived \in Nat /\ first \in 0..arrived /\ arrived' = arrived + 1
      /\ held' = IF werror THEN <<>> ELSE <<[key |-> k, row |-> arrived']>>
      /\ stop' = (stop \/ werror)
      /\ UNCHANGED <<staging, base, segs, tmp, unsynced, pc, fkey, flist, ftodo, ffile,
                     crashes, staged, torn>>
      /\ UNCHANGED <<queue, buffers, flight, counters, writer, werror, wdone, run, todo,
                     failed, outcome, first, lock, report, oqueue, owed, ocounters>>
  BY DEF OnDepth, LcTypeOK, TypeOK, storeVars, diskVars, finVars, otherVars, managerVars, orphanVars
<1>2. StoreInv'
  BY <1>1, StoreInvKept DEF StoreInv, TypeOK
<1>3. [key |-> k, row |-> arrived'] \in Tick /\ <<>> \in Seq(Tick)
  BY <1>1 DEF Tick, Row
<1>4. held' \in Seq(Tick) /\ Len(held') <= 1
  BY <1>1, <1>3
<1>5. stop' \in BOOLEAN
  BY <1>1, Zenon DEF LcTypeOK
<1>6. LcTypeOK'
  BY <1>1, <1>2, <1>4, <1>5 DEF LcTypeOK, StoreInv
<1>7. WellInv'
  <2> SUFFICES ASSUME WellSoFar' PROVE RowsInRun' /\ WriterInOrder'
    BY <1>1 DEF WellInv
  <2>1. WellSoFar /\ ~werror
    BY <1>1 DEF WellSoFar
  <2>2. WriterInOrder'
    BY <1>1, <2>1 DEF WellInv, WriterInOrder
  <2>3. ASSUME NEW r \in (first + 1)..arrived' PROVE OnItsWay(r)' \/ OnDisk(r)'
    <3>1. CASE r = arrived'
      <4>1. 1 \in DOMAIN held' /\ held'[1].row = r
        BY <1>1, <2>1, <3>1
      <4> QED BY <4>1 DEF OnItsWay
    <3>2. CASE r # arrived'
      <4>1. r \in (first + 1)..arrived
        BY <1>1, <3>2, <2>3
      <4>2. OnItsWay(r) \/ OnDisk(r)
        BY <2>1, <4>1 DEF WellInv, RowsInRun
      <4>3. OnItsWay(r) => OnItsWay(r)'
        BY <1>1 DEF OnItsWay
      <4>4. OnDisk(r) => OnDisk(r)'
        BY <1>1, DiskSame DEF LoopStays
      <4> QED BY <4>2, <4>3, <4>4
    <3> QED BY <3>1, <3>2
  <2> QED BY <1>1, <2>2, <2>3 DEF RowsInRun
<1>8. StageInv' /\ FinishedRunKeepsRows'
  BY <1>1 DEF StageInv, FinishedRunKeepsRows, WriterGone
<1> QED BY <1>2, <1>6, <1>7, <1>8

LEMMA InvPut ==
    ASSUME LcInv, Put
    PROVE  LcInv'
<1> USE DEF LcInv, RunInv
<1>1. /\ held # <<>> /\ Len(queue) < QueueMax /\ queue' = queue \o held /\ held' = <<>>
      /\ held \in Seq(Tick) /\ Len(held) <= 1 /\ queue \in Seq(Tick)
      /\ run \in {"collect", "release"}
      /\ UNCHANGED <<staging, base, segs, tmp, unsynced, pc, fkey, flist, ftodo, ffile,
                     crashes, staged, torn, arrived>>
      /\ UNCHANGED <<buffers, flight, counters, writer, werror, wdone, stop, run, todo,
                     failed, outcome, first, lock, report, oqueue, owed, ocounters>>
  BY DEF Put, HasSpace, LcTypeOK, vars, storeVars, diskVars, finVars, runVars, otherVars, managerVars, orphanVars
<1>2. StoreInv'
  BY <1>1, StoreInvKept DEF StoreInv, TypeOK
<1>3. /\ queue' \in Seq(Tick) /\ Len(queue') = Len(queue) + Len(held)
      /\ \A n \in 1..(Len(queue) + Len(held)) :
           queue'[n] = IF n <= Len(queue) THEN queue[n] ELSE held[n - Len(queue)]
  BY <1>1, ConcatProperties
<1>4. /\ Len(queue) \in Nat /\ Len(held) \in Nat /\ Len(queue') <= QueueMax
      /\ DOMAIN queue = 1..Len(queue) /\ DOMAIN held = 1..Len(held)
      /\ DOMAIN queue' = 1..(Len(queue) + Len(held))
  BY <1>1, <1>3, QueueAssumption
<1>5. LcTypeOK'
  <2>1. held' \in Seq(Tick) /\ Len(held') <= 1
    BY <1>1
  <2> QED BY <1>1, <1>2, <1>3, <1>4, <2>1 DEF LcTypeOK, StoreInv
<1>6. ASSUME NEW r, OnItsWay(r) PROVE OnItsWay(r)'
  <2>1. ASSUME NEW n \in DOMAIN held, held[n].row = r PROVE OnItsWay(r)'
    <3>1. Len(queue) + n \in DOMAIN queue' /\ queue'[Len(queue) + n].row = r
      BY <1>3, <1>4, <2>1
    <3> QED BY <3>1 DEF OnItsWay
  <2>2. ASSUME NEW n \in DOMAIN queue, queue[n].row = r PROVE OnItsWay(r)'
    <3>1. n \in DOMAIN queue' /\ queue'[n].row = r
      BY <1>3, <1>4, <2>2
    <3> QED BY <3>1 DEF OnItsWay
  <2>3. ASSUME NEW k \in Keys, r \in RowsOf(buffers[k]) \cup RowsOf(flight[k])
        PROVE  OnItsWay(r)'
    BY <1>1, <2>3 DEF OnItsWay
  <2> QED BY <1>6, <2>1, <2>2, <2>3 DEF OnItsWay
<1>7. WellInv'
  <2> SUFFICES ASSUME WellSoFar' PROVE RowsInRun' /\ WriterInOrder'
    BY <1>1 DEF WellInv
  <2>1. WellSoFar
    BY <1>1 DEF WellSoFar
  <2>2. RowsInRun'
    BY <1>1, <1>6, <2>1, RowsGoOn, DiskSame DEF WellInv, LoopStays
  <2>3. WriterInOrder'
    BY <1>1, <2>1 DEF WellInv, WriterInOrder
  <2> QED BY <2>2, <2>3
<1>8. StageInv' /\ FinishedRunKeepsRows'
  BY <1>1 DEF StageInv, FinishedRunKeepsRows, WriterGone
<1> QED BY <1>2, <1>5, <1>7, <1>8

LEMMA InvGiveUp ==
    ASSUME LcInv, GiveUp
    PROVE  LcInv'
<1> USE DEF LcInv, RunInv
<1>1. /\ held # <<>> /\ werror /\ held' = <<>> /\ stop' = TRUE
      /\ run \in {"collect", "release"}
      /\ UNCHANGED <<staging, base, segs, tmp, unsynced, pc, fkey, flist, ftodo, ffile,
                     crashes, staged, torn, arrived>>
      /\ UNCHANGED <<queue, buffers, flight, counters, writer, werror, wdone, run, todo,
                     failed, outcome, first, lock, report, oqueue, owed, ocounters>>
  BY DEF GiveUp, GivesUp, LcTypeOK, vars, storeVars, diskVars, finVars, otherVars, managerVars, orphanVars
<1>2. StoreInv'
  BY <1>1, StoreInvKept DEF StoreInv, TypeOK
<1>3. held' \in Seq(Tick) /\ Len(held') <= 1
  BY <1>1
<1>4. LcTypeOK'
  BY <1>1, <1>2, <1>3 DEF LcTypeOK, StoreInv
<1>5. WellInv' /\ StageInv' /\ FinishedRunKeepsRows'
  BY <1>1 DEF WellInv, WellSoFar, StageInv, FinishedRunKeepsRows, WriterGone
<1> QED BY <1>2, <1>4, <1>5

-----------------------------------------------------------------------------
(* The writer thread. *)
LEMMA AppendedRow ==
    ASSUME NEW f \in File, NEW x \in Row
    PROVE  /\ Append(f, x) \in File
           /\ RowsOf(f) \subseteq RowsOf(Append(f, x))
           /\ x \in RowsOf(Append(f, x))
<1>1. /\ Append(f, x) \in File /\ Len(f) \in Nat /\ DOMAIN f = 1..Len(f)
      /\ DOMAIN Append(f, x) = 1..(Len(f) + 1)
      /\ \A n \in 1..Len(f) : Append(f, x)[n] = f[n]
      /\ Append(f, x)[Len(f) + 1] = x
  BY DEF File
<1>2. Len(f) + 1 \in DOMAIN Append(f, x)
  BY <1>1
<1>3. \A n \in DOMAIN f : n \in DOMAIN Append(f, x) /\ Append(f, x)[n] = f[n]
  BY <1>1
<1> QED BY <1>1, <1>2, <1>3 DEF RowsOf

LEMMA InvWriterGet ==
    ASSUME LcInv, WriterGet
    PROVE  LcInv'
<1> USE DEF LcInv, RunInv
<1> DEFINE t == Head(queue)
<1>1. /\ writer = "loop" /\ queue # <<>> /\ queue \in Seq(Tick)
      /\ buffers \in [Keys -> File]
      /\ buffers' = [buffers EXCEPT ![t.key] = Append(@, t.row)]
      /\ queue' = Tail(queue)
      /\ UNCHANGED <<staging, base, segs, tmp, unsynced, pc, fkey, flist, ftodo, ffile,
                     crashes, staged, torn, arrived>>
      /\ UNCHANGED <<held, flight, counters, writer, werror, wdone, stop, run, todo,
                     failed, outcome, first, lock, report, oqueue, owed, ocounters>>
  BY DEF WriterGet, LcTypeOK, vars, storeVars, diskVars, finVars, runVars, otherVars, managerVars, orphanVars
<1>2. StoreInv'
  BY <1>1, StoreInvKept DEF StoreInv, TypeOK
<1>3. /\ t = queue[1] /\ t \in Tick /\ queue' \in Seq(Tick) /\ Len(queue) \in Nat
      /\ Len(queue') = Len(queue) - 1
      /\ DOMAIN queue = 1..Len(queue) /\ DOMAIN queue' = 1..(Len(queue) - 1)
      /\ \A n \in 1..(Len(queue) - 1) : queue'[n] = queue[n + 1]
  BY <1>1
<1>4. t.key \in Keys /\ t.row \in Row
  BY <1>3 DEF Tick
<1> HIDE DEF t
<1>5. /\ Append(buffers[t.key], t.row) \in File
      /\ RowsOf(buffers[t.key]) \subseteq RowsOf(Append(buffers[t.key], t.row))
      /\ t.row \in RowsOf(Append(buffers[t.key], t.row))
  BY <1>1, <1>4, AppendedRow
<1>6. /\ buffers' \in [Keys -> File]
      /\ t.row \in RowsOf(buffers'[t.key])
      /\ \A k \in Keys : RowsOf(buffers[k]) \subseteq RowsOf(buffers'[k])
  <2>1. buffers' = [buffers EXCEPT ![t.key] = Append(buffers[t.key], t.row)]
    BY <1>1
  <2>2. \A k \in Keys : k # t.key => buffers'[k] = buffers[k]
    BY <1>1, <2>1
  <2>3. buffers'[t.key] = Append(buffers[t.key], t.row)
    BY <1>1, <1>4, <2>1
  <2>4. buffers' \in [Keys -> File]
    BY <1>1, <1>5, <2>1
  <2> QED BY <1>5, <2>2, <2>3, <2>4
<1>7. Len(queue') <= QueueMax
  BY <1>1, <1>3, QueueAssumption DEF LcTypeOK
<1>8. LcTypeOK'
  BY <1>1, <1>2, <1>3, <1>6, <1>7 DEF LcTypeOK, StoreInv
<1>9. ASSUME NEW r, OnItsWay(r) PROVE OnItsWay(r)'
  <2>1. ASSUME NEW n \in DOMAIN queue, queue[n].row = r PROVE OnItsWay(r)'
    <3>1. CASE n = 1
      BY <1>3, <1>4, <1>6, <2>1, <3>1 DEF OnItsWay
    <3>2. CASE n # 1
      <4>1. n - 1 \in DOMAIN queue' /\ queue'[n - 1].row = r
        BY <1>3, <2>1, <3>2
      <4> QED BY <4>1 DEF OnItsWay
    <3> QED BY <3>1, <3>2
  <2>2. ASSUME NEW n \in DOMAIN held, held[n].row = r PROVE OnItsWay(r)'
    BY <1>1, <2>2 DEF OnItsWay
  <2>3. ASSUME NEW k \in Keys, r \in RowsOf(buffers[k]) \cup RowsOf(flight[k])
        PROVE  OnItsWay(r)'
    BY <1>1, <1>6, <2>3 DEF OnItsWay
  <2> QED BY <1>9, <2>1, <2>2, <2>3 DEF OnItsWay
<1>10. WellInv'
  <2> SUFFICES ASSUME WellSoFar' PROVE RowsInRun' /\ WriterInOrder'
    BY DEF WellInv
  <2>1. WellSoFar
    BY <1>1 DEF WellSoFar
  <2>2. RowsInRun'
    BY <1>1, <1>9, <2>1, RowsGoOn, DiskSame DEF WellInv, LoopStays
  <2>3. WriterInOrder' /\ run' # "files"
    BY <1>1, <2>1 DEF WellInv, WriterInOrder
  <2> QED BY <2>2, <2>3
<1>11. StageInv' /\ FinishedRunKeepsRows'
  BY <1>1, FinishedStays DEF StageInv, WriterGone
<1> QED BY <1>2, <1>8, <1>10, <1>11

LEMMA InvFlushStart ==
    ASSUME LcInv, FlushStart
    PROVE  LcInv'
<1> USE DEF LcInv, RunInv
<1>1. /\ writer = "loop"
      /\ writer' = "flush" \/ (wdone /\ queue = <<>> /\ writer' = "last")
      /\ flight' = buffers /\ buffers' = NoRows /\ flight = NoRows
      /\ UNCHANGED <<staging, base, segs, tmp, unsynced, pc, fkey, flist, ftodo, ffile,
                     crashes, staged, torn, arrived>>
      /\ UNCHANGED <<held, queue, counters, werror, wdone, stop, run, todo,
                     failed, outcome, first, lock, report, oqueue, owed, ocounters>>
  BY DEF FlushStart, Drained, LcTypeOK, vars, storeVars, diskVars, finVars, runVars,
         otherVars, managerVars, orphanVars
<1>2. StoreInv'
  BY <1>1, StoreInvKept DEF StoreInv, TypeOK
<1>3. LcTypeOK'
  BY <1>1, <1>2, NoRowsFacts DEF LcTypeOK, StoreInv
<1>4. ASSUME NEW r, OnItsWay(r) PROVE OnItsWay(r)'
  BY <1>1, <1>4, NoRowsFacts DEF OnItsWay
<1>5. WellInv'
  <2> SUFFICES ASSUME WellSoFar' PROVE RowsInRun' /\ WriterInOrder'
    BY DEF WellInv
  <2>1. WellSoFar
    BY <1>1 DEF WellSoFar
  <2>2. RowsInRun'
    BY <1>1, <1>4, <2>1, RowsGoOn, DiskSame DEF WellInv, LoopStays
  <2>3. WriterInOrder' /\ run' # "files"
    BY <1>1, <2>1 DEF WellInv, WriterInOrder
  <2> QED BY <2>2, <2>3
<1>6. StageInv' /\ FinishedRunKeepsRows'
  BY <1>1, FinishedStays DEF StageInv, WriterGone
<1> QED BY <1>2, <1>3, <1>5, <1>6

LEMMA InvWritePart ==
    ASSUME LcInv, NEW k \in Keys, WritePart(k)
    PROVE  LcInv'
<1> USE DEF LcInv, RunInv
<1> DEFINE i == NextPartIndex(k, counters)
<1>1. /\ Flushing /\ i \in PartId /\ flight[k] \in File /\ flight \in [Keys -> File]
      /\ staging[k][i] = NoFile
      /\ staging' = [staging EXCEPT ![k][i] = flight[k]]
      /\ staged' = [staged EXCEPT ![k] = @ \cup RowsOf(flight[k])]
      /\ torn' = (torn \/ Debris(k))
      /\ counters' = [counters EXCEPT ![k] = i] /\ flight' = [flight EXCEPT ![k] = <<>>]
      /\ UNCHANGED <<base, segs, tmp, unsynced, pc, fkey, flist, ftodo, ffile, crashes,
                     arrived>>
      /\ UNCHANGED <<held, queue, buffers, writer, werror, wdone, stop, run, todo,
                     failed, outcome, first, lock, report, oqueue, owed, ocounters>>
  BY DEF WritePart, WriteStagingPart, LcTypeOK, finVars, runVars, otherVars, managerVars, orphanVars
<1> HIDE DEF i
<1>2. StoreInv'
  <2>1. RowsOf(flight[k]) \subseteq Row
    BY <1>1 DEF RowsOf, File
  <2>2. staged' \in [Keys -> SUBSET Row]
    BY <1>1, <2>1 DEF StoreInv, TypeOK
  <2>3. \A q \in Keys : staged'[q] \subseteq
            staged[q] \cup (IF q = k THEN RowsOf(flight[k]) ELSE {})
    BY <1>1 DEF StoreInv, TypeOK
  <2>4. torn' \in BOOLEAN
    BY <1>1, Zenon
  <2>5. arrived' \in Nat /\ crashes' \in Nat
    BY <1>1 DEF StoreInv, TypeOK
  <2>6. UNCHANGED <<base, segs, tmp, unsynced, finVars>>
    BY <1>1 DEF finVars
  <2> QED BY <1>1, <2>2, <2>3, <2>4, <2>5, <2>6, InvPart
<1>3. <<>> \in File /\ flight' \in [Keys -> File] /\ flight'[k] = <<>>
      /\ \A q \in Keys : q # k => flight'[q] = flight[q]
  BY <1>1 DEF File
<1>4. counters' \in [Keys -> 0..MaxPart]
  BY <1>1, BoundsAssumption DEF PartId, LcTypeOK
<1>5. LcTypeOK'
  BY <1>1, <1>2, <1>3, <1>4 DEF LcTypeOK, StoreInv, Flushing
<1>6. /\ \A r : OnDisk(r) => OnDisk(r)'
      /\ run # "files" => \A r \in RowsOf(flight[k]) : OnDisk(r)'
  <2>1. /\ \A q \in Keys : FinalRows(q) \subseteq FinalRows(q)'
        /\ \A q \in Keys, j \in PartId : Covered(q, j) => Covered(q, j)'
    BY <1>1 DEF FinalRows, Finals, Covered
  <2>2. \A q \in Keys : \A j \in Parts(q) : j \in Parts(q)' /\ staging'[q][j] = staging[q][j]
    BY <1>1 DEF Parts, StoreInv, TypeOK
  <2>3. \A q \in Keys : Parts(q) \subseteq PartId
    BY DEF Parts
  <2>4. \A r : OnDisk(r) => OnDisk(r)'
    BY <2>1, <2>2, <2>3, PartsStay
  <2>5. PICK n \in PartId : n = i
    BY <1>1
  <2>6. n \in Parts(k)' /\ staging'[k][n] = flight[k]
    BY <1>1, <2>5, NoFileAssumption DEF Parts, StoreInv, TypeOK
  <2>7. ASSUME run # "files", NEW r \in RowsOf(flight[k]) PROVE OnDisk(r)'
    <3>1. r \in RowsOf(staging[k][n])'
      BY <2>6, <2>7
    <3>2. Covered(k, n)'
      BY <1>1, <2>7 DEF Covered
    <3> QED BY <2>6, <3>1, <3>2 DEF OnDisk
  <2> QED BY <2>4, <2>7
<1>7. ASSUME NEW r, OnItsWay(r) \/ OnDisk(r), run # "files" PROVE OnItsWay(r)' \/ OnDisk(r)'
  <2>1. CASE OnDisk(r)
    BY <1>6, <2>1
  <2>2. ASSUME NEW q \in Keys, r \in RowsOf(buffers[q]) \cup RowsOf(flight[q])
        PROVE  OnItsWay(r)' \/ OnDisk(r)'
    <3>1. CASE q = k /\ r \in RowsOf(flight[q])
      BY <1>6, <1>7, <3>1
    <3>2. CASE ~(q = k /\ r \in RowsOf(flight[q]))
      <4>1. r \in RowsOf(buffers[q])' \cup RowsOf(flight'[q])
        BY <1>1, <1>3, <2>2, <3>2
      <4> QED BY <4>1 DEF OnItsWay
    <3> QED BY <3>1, <3>2
  <2>3. CASE \E n \in DOMAIN held : held[n].row = r
    BY <1>1, <2>3 DEF OnItsWay
  <2>4. CASE \E n \in DOMAIN queue : queue[n].row = r
    BY <1>1, <2>4 DEF OnItsWay
  <2> QED BY <1>7, <2>1, <2>2, <2>3, <2>4 DEF OnItsWay
<1>8. WellInv'
  <2> SUFFICES ASSUME WellSoFar' PROVE RowsInRun' /\ WriterInOrder'
    BY DEF WellInv
  <2>1. WellSoFar
    BY <1>1 DEF WellSoFar
  <2>2. run # "files"
    BY <1>1, <2>1 DEF WellInv, WriterInOrder, Flushing
  <2>3. RowsInRun'
    BY <1>1, <1>7, <2>1, <2>2, RowsGoOn DEF WellInv
  <2>4. WriterInOrder'
    BY <1>1, <2>1 DEF WellInv, WriterInOrder, Flushing
  <2> QED BY <2>3, <2>4
<1>9. StageInv' /\ FinishedRunKeepsRows'
  BY <1>1, FinishedStays DEF StageInv, WriterGone
<1> QED BY <1>2, <1>5, <1>8, <1>9

LEMMA InvFlushEnd ==
    ASSUME LcInv, FlushEnd
    PROVE  LcInv'
<1> USE DEF LcInv, RunInv
<1>1. /\ Flushing /\ flight = NoRows
      /\ writer' = IF writer = "last" THEN "ended" ELSE "loop"
      /\ UNCHANGED <<staging, base, segs, tmp, unsynced, pc, fkey, flist, ftodo, ffile,
                     crashes, staged, torn, arrived>>
      /\ UNCHANGED <<held, queue, buffers, flight, counters, werror, wdone, stop, run, todo,
                     failed, outcome, first, lock, report, oqueue, owed, ocounters>>
  BY DEF FlushEnd, vars, storeVars, diskVars, finVars, runVars, otherVars, managerVars, orphanVars
<1>2. StoreInv'
  BY <1>1, StoreInvKept DEF StoreInv, TypeOK
<1>3. LcTypeOK'
  BY <1>1, <1>2 DEF LcTypeOK, StoreInv, Flushing
<1>4. WellInv'
  <2> SUFFICES ASSUME WellSoFar' PROVE RowsInRun' /\ WriterInOrder'
    BY DEF WellInv
  <2>1. WellSoFar
    BY <1>1 DEF WellSoFar
  <2>2. RowsInRun'
    BY <1>1, <2>1, RowsStay DEF WellInv, LoopStays
  <2>3. WriterInOrder' /\ run' # "files"
    BY <1>1, <2>1 DEF WellInv, WriterInOrder, Flushing
  <2> QED BY <2>2, <2>3
<1>5. StageInv' /\ FinishedRunKeepsRows'
  BY <1>1, FinishedStays DEF StageInv, WriterGone, Flushing
<1> QED BY <1>2, <1>3, <1>4, <1>5

LEMMA InvFlushRaises ==
    ASSUME LcInv, FlushFails \/ \E k \in Keys : PartRefused(k)
    PROVE  LcInv'
<1> USE DEF LcInv, RunInv
<1>1. /\ Flushing /\ crashes' \in Nat
      /\ buffers' = [k \in Keys |-> flight[k] \o buffers[k]]
      /\ flight' = NoRows /\ writer' = "ended" /\ werror' = TRUE /\ stop' = TRUE
      /\ UNCHANGED <<staging, base, segs, tmp, unsynced, pc, fkey, flist, ftodo, ffile,
                     staged, torn, arrived>>
      /\ UNCHANGED <<held, queue, counters, wdone, run, todo,
                     failed, outcome, first, lock, report, oqueue, owed, ocounters>>
  <2>1. Flushing /\ crashes' \in Nat /\ FlushRaises
    <3>1. crashes \in Nat
      BY DEF LcTypeOK, TypeOK
    <3>2. CASE FlushFails
      BY <3>1, <3>2 DEF FlushFails
    <3>3. CASE \E k \in Keys : PartRefused(k)
      BY <3>1, <3>3 DEF PartRefused
    <3> QED BY <3>2, <3>3
  <2> QED BY <2>1 DEF FlushRaises, diskVars, finVars, otherVars, managerVars, orphanVars
<1>2. StoreInv'
  BY <1>1, StoreInvKept DEF StoreInv, TypeOK
<1>3. \A k \in Keys : flight[k] \o buffers[k] \in File
  BY RowsOfConcat DEF LcTypeOK
<1>4. buffers' \in [Keys -> File]
  BY <1>1, <1>3
<1>5. LcTypeOK'
  BY <1>1, <1>2, <1>4, NoRowsFacts DEF LcTypeOK, StoreInv
<1>6. WellInv' /\ StageInv'
  BY <1>1 DEF WellInv, WellSoFar, StageInv, WriterGone, Flushing
<1>7. FinishedRunKeepsRows'
  BY <1>1, FinishedStays
<1> QED BY <1>2, <1>5, <1>6, <1>7

-----------------------------------------------------------------------------
(* The collector thread. *)
LEMMA InvRunStart ==
    ASSUME LcInv, RunStart
    PROVE  LcInv'
<1> USE DEF LcInv, RunInv
<1>1. /\ run' = "lock" /\ todo' = {} /\ outcome' = "none" /\ first' = arrived
      /\ held' = <<>> /\ queue' = <<>> /\ buffers' = NoRows /\ flight' = NoRows
      /\ counters' = [k \in Keys |-> 0] /\ writer' = "none"
      /\ werror' = FALSE /\ wdone' = FALSE /\ stop' = FALSE /\ failed' = FALSE
      /\ run = "idle" /\ pc = "idle" /\ arrived \in Nat
      /\ UNCHANGED <<staging, base, segs, tmp, unsynced, pc, fkey, flist, ftodo, ffile,
                     crashes, staged, torn, arrived, lock, report>>
  BY DEF RunStart, Fresh, LcTypeOK, TypeOK, vars, storeVars, diskVars, finVars, managerVars
<1>2. StoreInv'
  BY <1>1, StoreInvKept DEF StoreInv, TypeOK
<1>3. held' \in Seq(Tick) /\ Len(held') = 0 /\ queue' \in Seq(Tick) /\ Len(queue') = 0
  BY <1>1
<1>4. counters' \in [Keys -> 0..MaxPart]
  BY <1>1, BoundsAssumption
<1>5. /\ oqueue' \in Seq(Tick) /\ owed' \in [Keys -> File]
      /\ ocounters' \in [Keys -> 0..MaxPart]
  <2>1. \A k \in Keys : flight[k] \o buffers[k] \in File
    BY RowsOfConcat DEF LcTypeOK
  <2>2. CASE UNCHANGED orphanVars
    BY <2>2 DEF orphanVars, LcTypeOK
  <2>3. CASE /\ oqueue' = queue /\ ocounters' = counters
             /\ owed' = [k \in Keys |-> flight[k] \o buffers[k]]
    BY <2>1, <2>3 DEF LcTypeOK
  <2> QED BY <2>2, <2>3 DEF RunStart
<1>6. LcTypeOK'
  <2>1. /\ held' \in Seq(Tick) /\ Len(held') <= 1
        /\ queue' \in Seq(Tick) /\ Len(queue') <= QueueMax
    BY <1>3, QueueAssumption
  <2>2. buffers' \in [Keys -> File] /\ flight' \in [Keys -> File]
    BY <1>1, NoRowsFacts
  <2>3. {werror', wdone', stop', failed'} \subseteq BOOLEAN
    BY <1>1 DEF LcTypeOK
  <2>4. first' \in 0..arrived' /\ pc' = "idle"
    BY <1>1
  <2>5. lock' \in {"free", "run", "report"} /\ report' \in {"none", "accepted", "reading"}
    BY <1>1 DEF LcTypeOK
  <2> QED BY <1>1, <1>2, <1>4, <1>5, <2>1, <2>2, <2>3, <2>4, <2>5 DEF LcTypeOK, StoreInv, RunAt
<1>7. WellInv'
  BY <1>1 DEF WellInv, RowsInRun, WriterInOrder
<1>8. StageInv' /\ FinishedRunKeepsRows'
  BY <1>1 DEF StageInv, FinishedRunKeepsRows
<1> QED BY <1>2, <1>6, <1>7, <1>8

LEMMA InvRunLocks ==
    ASSUME LcInv, RunLocks
    PROVE  LcInv'
<1> USE DEF LcInv, RunInv
<1>1. /\ run = "lock" /\ pc = "idle" /\ held = <<>> /\ outcome = "none"
      /\ writer = "none" /\ ~wdone
      /\ \/ run' = "prepare" /\ outcome' = outcome /\ lock' = "run" /\ todo' = Leftovers
         \/ run' = "idle" /\ outcome' = "failed" /\ UNCHANGED <<lock, todo>>
      /\ UNCHANGED <<staging, base, segs, tmp, unsynced, pc, fkey, flist, ftodo, ffile,
                     crashes, staged, torn, arrived>>
      /\ UNCHANGED <<held, queue, buffers, flight, counters, writer, werror, wdone, stop,
                     failed, first, report, oqueue, owed, ocounters>>
  BY DEF RunLocks, vars, storeVars, diskVars, finVars, threadVars, orphanVars, LcTypeOK,
         TypeOK, StageInv
<1>2. StoreInv'
  BY <1>1, StoreInvKept DEF StoreInv, TypeOK
<1>3. LcTypeOK'
  <2>1. todo' \subseteq Keys
    BY <1>1 DEF LcTypeOK, Leftovers
  <2> QED BY <1>1, <1>2, <2>1 DEF LcTypeOK, StoreInv, RunAt
<1>4. WellInv'
  <2> SUFFICES ASSUME WellSoFar' PROVE RowsInRun' /\ WriterInOrder'
    BY DEF WellInv
  <2>1. WellSoFar /\ run' = "prepare"
    BY <1>1 DEF WellSoFar
  <2>2. RowsInRun'
    BY <1>1, <2>1, RowsStay DEF WellInv, LoopStays
  <2> QED BY <1>1, <2>1, <2>2 DEF WellInv, WriterInOrder
<1>5. StageInv' /\ FinishedRunKeepsRows'
  BY <1>1 DEF StageInv, FinishedRunKeepsRows
<1> QED BY <1>2, <1>3, <1>4, <1>5

LEMMA InvFinalizePartition ==
    ASSUME LcInv, NEW k \in Keys, FinalizePartition(k)
    PROVE  LcInv'
<1> USE DEF LcInv, RunInv
<1>1. /\ run \in {"prepare", "files"} /\ k \in todo /\ StartFinalize(k)
      /\ pc' = "merge" /\ fkey' = k /\ flist' = Parts(k) /\ ftodo' = Parts(k)
      /\ UNCHANGED <<staging, base, segs, arrived>>
      /\ UNCHANGED <<held, queue, buffers, flight, counters, writer, werror, wdone,
                     stop, run, todo, failed, outcome, first, lock, report, oqueue, owed, ocounters>>
  BY DEF FinalizePartition, InFiles, StartFinalize, lcVars, threadVars, runVars,
         otherVars, managerVars, orphanVars
<1>2. StoreInv'
  BY <1>1, InvStart
<1>3. LcTypeOK'
  BY <1>1, <1>2 DEF LcTypeOK, StoreInv
<1>4. WellInv'
  <2> SUFFICES ASSUME WellSoFar' PROVE RowsInRun' /\ WriterInOrder'
    BY DEF WellInv
  <2>1. WellSoFar
    BY <1>1 DEF WellSoFar
  <2>2. /\ \A q \in Keys : FinalRows(q)' = FinalRows(q)
        /\ \A q \in Keys : Parts(q)' = Parts(q)
        /\ \A q \in Keys : \A i \in Parts(q) : Covered(q, i) => Covered(q, i)'
    BY <1>1 DEF FinalRows, Finals, Parts, Covered
  <2>3. \A r : OnDisk(r) => OnDisk(r)'
    BY <1>1, <2>2, PartsStay
  <2>4. \A r : OnItsWay(r) => OnItsWay(r)'
    BY <1>1 DEF OnItsWay
  <2>5. RowsInRun'
    BY <1>1, <2>1, <2>3, <2>4, RowsGoOn DEF WellInv
  <2>6. WriterInOrder'
    BY <1>1, <2>1 DEF WellInv, WriterInOrder
  <2> QED BY <2>5, <2>6
<1>5. StageInv' /\ FinishedRunKeepsRows'
  BY <1>1, FinishedStays DEF StageInv, WriterGone
<1> QED BY <1>2, <1>3, <1>4, <1>5

(* A finalize() at work touches parts of its own partition only. *)
LEMMA InvPartitionStep ==
    ASSUME LcInv, PartitionStep
    PROVE  LcInv'
<1> USE DEF LcInv, RunInv
<1>1. /\ MergePart \/ Publish \/ SyncDirectory \/ UnlinkPart
      /\ UNCHANGED <<arrived, held, queue, buffers, flight, counters, writer, werror, wdone,
                     stop, run, todo, failed, outcome, first, lock, report, oqueue, owed, ocounters>>
  BY DEF PartitionStep, lcVars, threadVars, runVars, otherVars, managerVars, orphanVars
<1>2. StoreInv'
  BY <1>1, InvMerge, InvPublish, InvSync, InvUnlink
<1>3. /\ pc # "idle" /\ fkey' = fkey /\ flist' = flist
      /\ run \in {"prepare", "files"} /\ fkey \in todo /\ fkey \in Keys
  BY <1>1 DEF MergePart, Publish, SyncDirectory, UnlinkPart, LcTypeOK, TypeOK
<1>4. LcTypeOK'
  BY <1>1, <1>2, <1>3 DEF LcTypeOK, StoreInv
<1>5. ASSUME NEW r, OnItsWay(r) \/ OnDisk(r) PROVE OnItsWay(r)' \/ OnDisk(r)'
  <2>1. CASE OnDisk(r)
    BY <1>1, <2>1, DiskKept
  <2>2. CASE OnItsWay(r)
    BY <1>1, <2>2 DEF OnItsWay
  <2> QED BY <1>5, <2>1, <2>2
<1>6. WellInv'
  <2> SUFFICES ASSUME WellSoFar' PROVE RowsInRun' /\ WriterInOrder'
    BY DEF WellInv
  <2>1. WellSoFar
    BY <1>1 DEF WellSoFar
  <2>2. RowsInRun'
    BY <1>1, <1>5, <2>1, RowsGoOn DEF WellInv
  <2>3. WriterInOrder'
    BY <1>1, <2>1 DEF WellInv, WriterInOrder
  <2> QED BY <2>2, <2>3
<1>7. StageInv' /\ FinishedRunKeepsRows'
  BY <1>1, <1>3 DEF StageInv, WriterGone, FinishedRunKeepsRows
<1> QED BY <1>2, <1>4, <1>6, <1>7

LEMMA InvPartitionDone ==
    ASSUME LcInv, PartitionDone
    PROVE  LcInv'
<1> USE DEF LcInv, RunInv
<1>1. /\ EndFinalize /\ pc = "cleanup" /\ ftodo = {} /\ pc' = "idle" /\ todo' = todo \ {fkey}
      /\ UNCHANGED <<staging, base, segs, fkey, flist, ftodo, arrived>>
      /\ UNCHANGED <<held, queue, buffers, flight, counters, writer, werror, wdone,
                     stop, run, failed, outcome, first, lock, report, oqueue, owed, ocounters>>
  BY DEF PartitionDone, EndFinalize, diskVars, threadVars, otherVars, managerVars, orphanVars
<1>2. StoreInv'
  BY <1>1, InvStop
<1>3. LcTypeOK' /\ run \in {"prepare", "files"}
  <2>1. run \in {"prepare", "files"} /\ held = <<>>
    BY <1>1 DEF LcTypeOK
  <2>2. todo' \subseteq Keys /\ first' \in 0..arrived'
    BY <1>1 DEF LcTypeOK
  <2> QED BY <1>1, <1>2, <2>1, <2>2 DEF LcTypeOK, StoreInv
<1>4. WellInv'
  <2> SUFFICES ASSUME WellSoFar' PROVE RowsInRun' /\ WriterInOrder'
    BY DEF WellInv
  <2>1. WellSoFar
    BY <1>1 DEF WellSoFar
  <2>2. /\ \A q \in Keys : FinalRows(q)' = FinalRows(q)
        /\ \A q \in Keys : Parts(q)' = Parts(q)
        /\ \A q \in Keys : \A i \in Parts(q) : Covered(q, i) => Covered(q, i)'
    BY <1>1 DEF FinalRows, Finals, Parts, Covered
  <2>3. \A r : OnDisk(r) => OnDisk(r)'
    BY <1>1, <2>2, PartsStay
  <2>4. \A r : OnItsWay(r) => OnItsWay(r)'
    BY <1>1 DEF OnItsWay
  <2>5. RowsInRun'
    BY <1>1, <2>1, <2>3, <2>4, RowsGoOn DEF WellInv
  <2>6. WriterInOrder'
    BY <1>1, <2>1 DEF WellInv, WriterInOrder
  <2> QED BY <2>5, <2>6
<1>5. StageInv' /\ FinishedRunKeepsRows'
  BY <1>1, FinishedStays DEF StageInv, WriterGone
<1> QED BY <1>2, <1>3, <1>4, <1>5

LEMMA InvPartitionFails ==
    ASSUME LcInv, PartitionFails
    PROVE  LcInv'
<1> USE DEF LcInv, RunInv
<1>1. /\ FailFinalize /\ pc # "idle" /\ pc' = "idle" /\ failed' = TRUE
      /\ \/ run' = "release" /\ UNCHANGED <<stop, outcome, lock>>
         \/ run' = "idle" /\ stop' = TRUE /\ outcome' = "failed" /\ lock' = "free"
      /\ UNCHANGED <<fkey, base, segs, arrived>>
      /\ UNCHANGED <<held, queue, buffers, flight, counters, writer, werror, wdone,
                     todo, first, report, oqueue, owed, ocounters>>
  BY DEF PartitionFails, RunEnds, FailFinalize, diskVars, threadVars, otherVars, managerVars, orphanVars
<1>2. StoreInv'
  BY <1>1, InvStop
<1>3. run \in {"prepare", "files"} /\ held = <<>> /\ outcome = "none"
  BY <1>1 DEF LcTypeOK, StageInv
<1>4. LcTypeOK'
  <2>1. /\ {werror', wdone', stop', failed'} \subseteq BOOLEAN
        /\ lock' \in {"free", "run", "report"}
        /\ run' \in RunAt /\ outcome' \in {"none", "finished", "failed"}
    BY <1>1, <1>3 DEF LcTypeOK, RunAt
  <2>2. todo' \subseteq Keys /\ first' \in 0..arrived'
    BY <1>1 DEF LcTypeOK
  <2> QED BY <1>1, <1>2, <1>3, <2>1, <2>2 DEF LcTypeOK, StoreInv
<1>5. WellInv' /\ StageInv' /\ FinishedRunKeepsRows'
  BY <1>1, <1>3 DEF WellInv, WellSoFar, StageInv, FinishedRunKeepsRows
<1> QED BY <1>2, <1>4, <1>5

(* The rest of run() moves no row. *)
LEMMA InvCollect ==
    ASSUME LcInv, Collect
    PROVE  LcInv'
<1> USE DEF LcInv, RunInv
<1>1. /\ run = "prepare" /\ pc = "idle"
      /\ \/ run' = "collect" /\ writer' = "loop" /\ UNCHANGED failed
         \/ run' = "release" /\ failed' = TRUE /\ writer' \in {"none", "loop"}
      /\ UNCHANGED <<staging, base, segs, tmp, unsynced, pc, fkey, flist, ftodo, ffile,
                     crashes, staged, torn, arrived>>
      /\ UNCHANGED <<held, queue, buffers, flight, counters, werror, wdone, stop, todo,
                     outcome, first, lock, report, oqueue, owed, ocounters>>
  BY DEF Collect, vars, storeVars, diskVars, finVars, otherVars, managerVars, orphanVars
<1>2. StoreInv'
  BY <1>1, StoreInvKept DEF StoreInv, TypeOK
<1>3. held = <<>> /\ outcome = "none" /\ writer = "none" /\ ~wdone
  BY <1>1 DEF LcTypeOK, StageInv
<1>4. LcTypeOK'
  <2>1. {werror', wdone', stop', failed'} \subseteq BOOLEAN
    BY <1>1 DEF LcTypeOK
  <2> QED BY <1>1, <1>2, <1>3, <2>1 DEF LcTypeOK, StoreInv, RunAt
<1>5. WellInv'
  <2> SUFFICES ASSUME WellSoFar' PROVE RowsInRun' /\ WriterInOrder'
    BY <1>1 DEF WellInv
  <2>1. WellSoFar /\ run' = "collect" /\ writer' = "loop"
    BY <1>1 DEF WellSoFar
  <2>2. RowsInRun'
    BY <1>1, <2>1, RowsStay DEF WellInv, LoopStays
  <2> QED BY <1>1, <1>3, <2>1, <2>2 DEF WriterInOrder
<1>6. StageInv' /\ FinishedRunKeepsRows'
  BY <1>1, <1>3, FinishedStays DEF StageInv, WriterGone
<1> QED BY <1>2, <1>4, <1>5, <1>6

LEMMA InvStopSeen ==
    ASSUME LcInv, StopSeen
    PROVE  LcInv'
<1> USE DEF LcInv, RunInv
<1>1. /\ run = "collect" /\ run' = "release"
      /\ UNCHANGED <<staging, base, segs, tmp, unsynced, pc, fkey, flist, ftodo, ffile,
                     crashes, staged, torn, arrived>>
      /\ UNCHANGED <<held, queue, buffers, flight, counters, writer, werror, wdone, stop,
                     todo, failed, outcome, first, lock, report, oqueue, owed, ocounters>>
  BY DEF StopSeen, vars, storeVars, diskVars, finVars, threadVars, otherVars, managerVars, orphanVars
<1>2. StoreInv'
  BY <1>1, StoreInvKept DEF StoreInv, TypeOK
<1>3. LcTypeOK'
  BY <1>1, <1>2 DEF LcTypeOK, StoreInv, RunAt
<1>4. WellInv'
  <2> SUFFICES ASSUME WellSoFar' PROVE RowsInRun' /\ WriterInOrder'
    BY <1>1 DEF WellInv
  <2>1. WellSoFar
    BY <1>1 DEF WellSoFar
  <2>2. RowsInRun'
    BY <1>1, <2>1, RowsStay DEF WellInv, LoopStays
  <2> QED BY <1>1, <2>1, <2>2 DEF WellInv, WriterInOrder
<1>5. StageInv' /\ FinishedRunKeepsRows'
  BY <1>1, FinishedStays DEF StageInv, WriterGone
<1> QED BY <1>2, <1>3, <1>4, <1>5

LEMMA InvRelease ==
    ASSUME LcInv, Release
    PROVE  LcInv'
<1> USE DEF LcInv, RunInv
<1>1. /\ run = "release" /\ held = <<>> /\ run' = "join" /\ wdone' = TRUE
      /\ UNCHANGED <<staging, base, segs, tmp, unsynced, pc, fkey, flist, ftodo, ffile,
                     crashes, staged, torn, arrived>>
      /\ UNCHANGED <<held, queue, buffers, flight, counters, writer, werror, stop,
                     todo, failed, outcome, first, lock, report, oqueue, owed, ocounters>>
  BY DEF Release, vars, storeVars, diskVars, finVars, otherVars, managerVars, orphanVars
<1>2. StoreInv'
  BY <1>1, StoreInvKept DEF StoreInv, TypeOK
<1>3. LcTypeOK'
  BY <1>1, <1>2 DEF LcTypeOK, StoreInv, RunAt
<1>4. WellInv'
  <2> SUFFICES ASSUME WellSoFar' PROVE RowsInRun' /\ WriterInOrder'
    BY <1>1 DEF WellInv
  <2>1. WellSoFar
    BY <1>1 DEF WellSoFar
  <2>2. RowsInRun'
    BY <1>1, <2>1, RowsStay DEF WellInv, LoopStays
  <2> QED BY <1>1, <2>1, <2>2 DEF WellInv, WriterInOrder
<1>5. StageInv' /\ FinishedRunKeepsRows'
  BY <1>1, FinishedStays DEF StageInv, WriterGone
<1> QED BY <1>2, <1>3, <1>4, <1>5

LEMMA InvJoined ==
    ASSUME LcInv, Joined
    PROVE  LcInv'
<1> USE DEF LcInv, RunInv
<1>1. /\ run = "join" /\ writer \in {"none", "ended"}
      /\ \/ /\ werror /\ run' = "idle" /\ stop' = TRUE /\ outcome' = "failed" /\ lock' = "free"
            /\ failed' = TRUE /\ todo' = todo
         \/ /\ ~werror /\ run' = "files" /\ todo' = Leftovers
            /\ UNCHANGED <<stop, outcome, failed, lock>>
      /\ UNCHANGED <<staging, base, segs, tmp, unsynced, pc, fkey, flist, ftodo, ffile,
                     crashes, staged, torn, arrived>>
      /\ UNCHANGED <<held, queue, buffers, flight, counters, writer, werror, wdone,
                     first, report, oqueue, owed, ocounters>>
  BY DEF Joined, WriterGone, RunEnds, vars, storeVars, diskVars, finVars, threadVars,
         otherVars, managerVars, orphanVars
<1>2. StoreInv'
  BY <1>1, StoreInvKept DEF StoreInv, TypeOK
<1>3. held = <<>> /\ pc = "idle" /\ outcome = "none"
  BY <1>1 DEF LcTypeOK, StoreInv, TypeOK, StageInv
<1>4. LcTypeOK'
  <2>1. /\ {werror', wdone', stop', failed'} \subseteq BOOLEAN
        /\ lock' \in {"free", "run", "report"}
        /\ run' \in RunAt /\ outcome' \in {"none", "finished", "failed"}
    BY <1>1, <1>3 DEF LcTypeOK, RunAt
  <2>2. todo' \subseteq Keys /\ first' \in 0..arrived'
    BY <1>1 DEF LcTypeOK, Leftovers
  <2> QED BY <1>1, <1>2, <1>3, <2>1, <2>2 DEF LcTypeOK, StoreInv
<1>5. WellInv'
  <2> SUFFICES ASSUME WellSoFar' PROVE RowsInRun' /\ WriterInOrder'
    BY DEF WellInv
  <2>1. WellSoFar /\ run' = "files" /\ todo' = Leftovers
    BY <1>1 DEF WellSoFar
  <2>2. /\ \A k \in Keys : FinalRows(k)' = FinalRows(k)
        /\ \A k \in Keys : Parts(k)' = Parts(k)
    BY <1>1 DEF FinalRows, Finals, Parts
  <2>3. \A k \in Keys : \A i \in Parts(k) : Covered(k, i)'
    BY <1>1, <1>3, <2>1 DEF Covered, Leftovers
  <2>4. \A r : OnDisk(r) => OnDisk(r)'
    BY <1>1, <2>2, <2>3, PartsStay
  <2>5. \A r : OnItsWay(r) => OnItsWay(r)'
    BY <1>1 DEF OnItsWay
  <2>6. RowsInRun'
    BY <1>1, <2>1, <2>4, <2>5, RowsGoOn DEF WellInv
  <2>7. WriterInOrder'
    BY <1>1, <2>1 DEF WellInv, WriterInOrder
  <2> QED BY <2>6, <2>7
<1>6. StageInv'
  BY <1>1, <1>3 DEF StageInv, WriterGone
<1>7. FinishedRunKeepsRows'
  BY <1>1, <1>3 DEF FinishedRunKeepsRows
<1> QED BY <1>2, <1>4, <1>5, <1>6, <1>7

LEMMA InvJoinTimeout ==
    ASSUME LcInv, JoinTimeout
    PROVE  LcInv'
<1> USE DEF LcInv, RunInv
<1>1. /\ run = "join" /\ run' = "idle" /\ stop' = TRUE /\ outcome' = "failed" /\ lock' = "free"
      /\ failed' = TRUE /\ crashes \in Nat /\ crashes' = crashes + 1
      /\ UNCHANGED <<staging, base, segs, tmp, unsynced, pc, fkey, flist, ftodo, ffile,
                     staged, torn, arrived>>
      /\ UNCHANGED <<held, queue, buffers, flight, counters, writer, werror, wdone,
                     todo, first, report, oqueue, owed, ocounters>>
  BY DEF JoinTimeout, RunEnds, diskVars, finVars, threadVars, otherVars, managerVars, orphanVars, LcTypeOK, TypeOK
<1>2. StoreInv'
  BY <1>1, StoreInvKept DEF StoreInv, TypeOK
<1>3. LcTypeOK'
  <2>1. /\ {werror', wdone', stop', failed'} \subseteq BOOLEAN
        /\ lock' \in {"free", "run", "report"}
        /\ run' \in RunAt /\ outcome' \in {"none", "finished", "failed"}
    BY <1>1 DEF LcTypeOK, RunAt
  <2>2. held = <<>> /\ pc = "idle"
    BY <1>1 DEF LcTypeOK, StoreInv, TypeOK
  <2> QED BY <1>1, <1>2, <2>1, <2>2 DEF LcTypeOK, StoreInv
<1>4. WellInv' /\ StageInv' /\ FinishedRunKeepsRows'
  BY <1>1 DEF WellInv, WellSoFar, StageInv, FinishedRunKeepsRows
<1> QED BY <1>2, <1>3, <1>4

(* The end of a run: nothing is on its way and nothing is staged, so what  *)
(* the run was given is in final files.                                    *)
LEMMA InvFilesDone ==
    ASSUME LcInv, FilesDone
    PROVE  LcInv'
<1> USE DEF LcInv, RunInv
<1>1. /\ run = "files" /\ todo = {} /\ run' = "idle" /\ stop' = TRUE /\ pc = "idle" /\ lock' = "free"
      /\ outcome' = IF failed THEN "failed" ELSE "finished"
      /\ UNCHANGED <<staging, base, segs, tmp, unsynced, pc, fkey, flist, ftodo, ffile,
                     crashes, staged, torn, arrived>>
      /\ UNCHANGED <<held, queue, buffers, flight, counters, writer, werror, wdone,
                     todo, failed, first, report, oqueue, owed, ocounters>>
  BY DEF FilesDone, RunEnds, vars, storeVars, diskVars, finVars, threadVars, otherVars, managerVars, orphanVars
<1>2. StoreInv'
  BY <1>1, StoreInvKept DEF StoreInv, TypeOK
<1>3. held = <<>>
  BY <1>1 DEF LcTypeOK
<1>4. LcTypeOK'
  <2>1. /\ {werror', wdone', stop', failed'} \subseteq BOOLEAN
        /\ lock' \in {"free", "run", "report"}
        /\ run' \in RunAt /\ outcome' \in {"none", "finished", "failed"}
    BY <1>1 DEF LcTypeOK, RunAt
  <2> QED BY <1>1, <1>2, <1>3, <2>1 DEF LcTypeOK, StoreInv
<1>5. WellInv' /\ StageInv'
  BY <1>1 DEF WellInv, WellSoFar, StageInv
<1>6. FinishedRunKeepsRows'
  <2> SUFFICES ASSUME ~failed, NEW r \in (first + 1)..arrived
               PROVE  \E k \in Keys : r \in FinalRows(k)'
    BY <1>1 DEF FinishedRunKeepsRows
  <2>1. WellSoFar
    BY <1>1 DEF WellSoFar, StageInv
  <2>2. queue = <<>> /\ buffers = NoRows /\ flight = NoRows
    BY <1>1, <2>1 DEF WellInv, WriterInOrder
  <2>3. ~OnItsWay(r)
    BY <1>3, <2>2, NoRowsFacts DEF OnItsWay
  <2>4. \A k \in Keys : \A i \in Parts(k) : ~Covered(k, i)
    BY <1>1 DEF Covered
  <2>5. \E k \in Keys : r \in FinalRows(k)
    BY <2>1, <2>3, <2>4 DEF WellInv, RowsInRun, OnDisk
  <2> QED BY <1>1, <2>5 DEF FinalRows, Finals
<1> QED BY <1>2, <1>4, <1>5, <1>6

-----------------------------------------------------------------------------
(* The manager, its reports and a crash. *)
LEMMA InvManager ==
    ASSUME LcInv, StopCollect \/ ReportLocks \/ ReportEnd \/ \E k \in Keys : ReportStart(k)
    PROVE  LcInv'
<1> USE DEF LcInv, RunInv
<1>1. /\ UNCHANGED <<staging, base, segs, tmp, unsynced, pc, fkey, flist, ftodo, ffile,
                     crashes, staged, torn, arrived>>
      /\ UNCHANGED <<held, queue, buffers, flight, counters, writer, werror, wdone,
                     run, todo, failed, outcome, first, oqueue, owed, ocounters>>
  BY DEF StopCollect, ReportLocks, ReportEnd, ReportStart, vars, storeVars, diskVars,
         finVars, threadVars, runVars, otherVars, managerVars, orphanVars
<1>2. StoreInv'
  BY <1>1, StoreInvKept DEF StoreInv, TypeOK
<1>3. /\ stop' \in BOOLEAN /\ lock' \in {"free", "run", "report"}
      /\ report' \in {"none", "accepted", "reading"}
  BY DEF StopCollect, ReportLocks, ReportEnd, ReportStart, runVars, otherVars, managerVars,
         LcTypeOK
<1>4. LcTypeOK'
  BY <1>1, <1>2, <1>3 DEF LcTypeOK, StoreInv
<1>5. WellInv'
  <2> SUFFICES ASSUME WellSoFar' PROVE RowsInRun' /\ WriterInOrder'
    BY DEF WellInv
  <2>1. WellSoFar
    BY <1>1 DEF WellSoFar
  <2>2. RowsInRun'
    BY <1>1, <2>1, RowsStay DEF WellInv, LoopStays
  <2>3. WriterInOrder'
    BY <1>1, <2>1 DEF WellInv, WriterInOrder
  <2> QED BY <2>2, <2>3
<1>6. StageInv' /\ FinishedRunKeepsRows'
  BY <1>1, FinishedStays DEF StageInv, WriterGone
<1> QED BY <1>2, <1>4, <1>5, <1>6

-----------------------------------------------------------------------------
(* The orphaned writer touches nothing of this run until it writes. *)
LEMMA InvOrphanQuiet ==
    ASSUME LcInv, oqueue' \in Seq(Tick), owed' \in [Keys -> File],
           UNCHANGED <<staging, base, segs, tmp, unsynced, pc, fkey, flist, ftodo, ffile,
                       crashes, staged, torn, arrived>>,
           UNCHANGED <<held, queue, buffers, flight, counters, writer, werror, wdone, stop,
                       run, todo, failed, outcome, first, lock, report, ocounters>>
    PROVE  LcInv'
<1> USE DEF LcInv, RunInv
<1>1. StoreInv'
  BY StoreInvKept DEF StoreInv, TypeOK
<1>2. LcTypeOK'
  BY <1>1 DEF LcTypeOK, StoreInv
<1>3. WellInv'
  <2> SUFFICES ASSUME WellSoFar' PROVE RowsInRun' /\ WriterInOrder'
    BY DEF WellInv
  <2>1. WellSoFar
    BY DEF WellSoFar
  <2>2. RowsInRun'
    BY <2>1, RowsStay DEF WellInv, LoopStays
  <2>3. WriterInOrder'
    BY <2>1 DEF WellInv, WriterInOrder
  <2> QED BY <2>2, <2>3
<1>4. StageInv' /\ FinishedRunKeepsRows'
  BY FinishedStays DEF StageInv, WriterGone
<1> QED BY <1>1, <1>2, <1>3, <1>4

LEMMA InvOrphanGet ==
    ASSUME LcInv, OrphanGet
    PROVE  LcInv'
<1> DEFINE t == Head(oqueue)
<1>1. /\ oqueue # <<>> /\ oqueue \in Seq(Tick) /\ owed \in [Keys -> File]
      /\ owed' = [owed EXCEPT ![t.key] = Append(owed[t.key], t.row)]
      /\ oqueue' = Tail(oqueue)
  BY DEF OrphanGet, LcInv, LcTypeOK
<1>2. t \in Tick /\ oqueue' \in Seq(Tick)
  BY <1>1
<1>3. t.key \in Keys /\ t.row \in Row
  BY <1>2 DEF Tick
<1> HIDE DEF t
<1>4. Append(owed[t.key], t.row) \in File
  BY <1>1, <1>3, AppendedRow
<1>5. owed' \in [Keys -> File]
  BY <1>1, <1>4
<1>6. UNCHANGED <<vars, threadVars, runVars, managerVars, ocounters>>
  BY DEF OrphanGet
<1> QED BY <1>2, <1>5, <1>6, InvOrphanQuiet
        DEF vars, storeVars, diskVars, finVars, threadVars, runVars, managerVars

(* The orphaned writer only adds parts: what this run has staged stays, and *)
(* what it has passed by was not of this run.                               *)
LEMMA InvOrphanWrites ==
    ASSUME LcInv, NEW k \in Keys, OrphanWrites(k)
    PROVE  LcInv'
<1> USE DEF LcInv, RunInv
<1> DEFINE i == NextPartIndex(k, ocounters)
<1>1. PICK n \in 1..Len(owed[k]) :
        /\ i \in PartId
        /\ WriteStagingPart(k, i, SubSeq(owed[k], 1, n))
        /\ owed' = [owed EXCEPT ![k] = SubSeq(@, n + 1, Len(@))]
        /\ ocounters' = [ocounters EXCEPT ![k] = i]
        /\ UNCHANGED <<arrived, threadVars, runVars, managerVars, oqueue>>
  BY DEF OrphanWrites
<1> HIDE DEF i
<1> DEFINE part == SubSeq(owed[k], 1, n)
           rest == SubSeq(owed[k], n + 1, Len(owed[k]))
<1>2. part \in File /\ rest \in File
  <2>1. owed[k] \in Seq(Row) /\ Len(owed[k]) \in Nat /\ n \in 1..Len(owed[k])
    BY DEF LcTypeOK, File
  <2>2. \A m \in 1..Len(owed[k]) : owed[k][m] \in Row
    BY <2>1
  <2>3. part \in Seq(Row)
    BY <2>1, <2>2, SubSeqProperties
  <2>4. rest \in Seq(Row)
    BY <2>1, <2>2, SubSeqProperties
  <2> QED BY <2>3, <2>4 DEF File
<1>3. /\ staging[k][i] = NoFile
      /\ staging' = [staging EXCEPT ![k][i] = part]
      /\ staged' = [staged EXCEPT ![k] = @ \cup RowsOf(part)]
      /\ torn' = (torn \/ Debris(k))
      /\ owed' = [owed EXCEPT ![k] = rest]
      /\ UNCHANGED <<base, segs, tmp, unsynced, pc, fkey, flist, ftodo, ffile, crashes,
                     arrived>>
      /\ UNCHANGED <<held, queue, buffers, flight, counters, writer, werror, wdone, stop,
                     run, todo, failed, outcome, first, lock, report, oqueue>>
  BY <1>1 DEF WriteStagingPart, finVars, threadVars, runVars, managerVars
<1> HIDE DEF part, rest
<1>4. StoreInv'
  <2>1. RowsOf(part) \subseteq Row
    BY <1>2 DEF RowsOf, File
  <2>2. staged' \in [Keys -> SUBSET Row]
    BY <1>3, <2>1 DEF StoreInv, TypeOK
  <2>3. \A q \in Keys : staged'[q] \subseteq
            staged[q] \cup (IF q = k THEN RowsOf(part) ELSE {})
    BY <1>3 DEF StoreInv, TypeOK
  <2>4. torn' \in BOOLEAN
    BY <1>3, Zenon
  <2>5. arrived' \in Nat /\ crashes' \in Nat
    BY <1>3 DEF StoreInv, TypeOK
  <2>6. UNCHANGED <<base, segs, tmp, unsynced, finVars>>
    BY <1>3 DEF finVars
  <2> QED BY <1>1, <1>2, <1>3, <2>2, <2>3, <2>4, <2>5, <2>6, InvPart
<1>5. owed' \in [Keys -> File] /\ ocounters' \in [Keys -> 0..MaxPart]
  <2>1. owed \in [Keys -> File] /\ ocounters \in [Keys -> 0..MaxPart]
    BY DEF LcTypeOK
  <2>2. i \in 0..MaxPart
    BY <1>1, BoundsAssumption DEF PartId
  <2>3. owed' \in [Keys -> File]
    BY <1>2, <1>3, <2>1
  <2>4. ocounters' \in [Keys -> 0..MaxPart]
    BY <1>1, <2>1, <2>2
  <2> QED BY <2>3, <2>4
<1>6. LcTypeOK'
  BY <1>3, <1>4, <1>5 DEF LcTypeOK, StoreInv
<1>7. \A r : OnDisk(r) => OnDisk(r)'
  <2>1. /\ \A q \in Keys : FinalRows(q) \subseteq FinalRows(q)'
        /\ \A q \in Keys, j \in PartId : Covered(q, j) => Covered(q, j)'
    BY <1>3 DEF FinalRows, Finals, Covered
  <2>2. \A q \in Keys : \A j \in Parts(q) : j \in Parts(q)' /\ staging'[q][j] = staging[q][j]
    BY <1>1, <1>3 DEF Parts, StoreInv, TypeOK
  <2>3. \A q \in Keys : Parts(q) \subseteq PartId
    BY DEF Parts
  <2> QED BY <2>1, <2>2, <2>3, PartsStay
<1>8. WellInv'
  <2> SUFFICES ASSUME WellSoFar' PROVE RowsInRun' /\ WriterInOrder'
    BY DEF WellInv
  <2>1. WellSoFar
    BY <1>3 DEF WellSoFar
  <2>2. \A r : OnItsWay(r) => OnItsWay(r)'
    BY <1>3 DEF OnItsWay
  <2>3. RowsInRun'
    BY <1>3, <1>7, <2>1, <2>2, RowsGoOn DEF WellInv
  <2>4. WriterInOrder'
    BY <1>3, <2>1 DEF WellInv, WriterInOrder
  <2> QED BY <2>3, <2>4
<1>9. StageInv' /\ FinishedRunKeepsRows'
  BY <1>3, FinishedStays DEF StageInv, WriterGone
<1> QED BY <1>4, <1>6, <1>8, <1>9

LEMMA InvOrphanRefused ==
    ASSUME LcInv, NEW k \in Keys, OrphanRefused(k)
    PROVE  LcInv'
<1>1. /\ oqueue' = <<>> /\ owed' = NoRows
      /\ UNCHANGED <<vars, threadVars, runVars, managerVars, ocounters>>
  BY DEF OrphanRefused
<1>2. oqueue' \in Seq(Tick) /\ owed' \in [Keys -> File]
  BY <1>1, NoRowsFacts
<1> QED BY <1>1, <1>2, InvOrphanQuiet
        DEF vars, storeVars, diskVars, finVars, threadVars, runVars, managerVars

LEMMA InvLcCrash ==
    ASSUME LcInv, Crash
    PROVE  LcInv'
<1> USE DEF LcInv, RunInv
<1>1. /\ run' = "idle" /\ todo' = {} /\ outcome' = "failed"
      /\ lock' = "free" /\ report' = "none"
      /\ oqueue' = <<>> /\ owed' = NoRows
      /\ held' = <<>> /\ queue' = <<>> /\ buffers' = NoRows /\ flight' = NoRows
      /\ counters' = [k \in Keys |-> 0] /\ writer' = "none"
      /\ werror' = FALSE /\ wdone' = FALSE /\ stop' = FALSE /\ failed' = FALSE
      /\ CrashStore /\ pc' = "idle"
      /\ UNCHANGED <<arrived, first, ocounters>>
  BY DEF Crash, Fresh, CrashStore
<1>2. StoreInv'
  BY <1>1, InvCrash
<1>3. LcTypeOK'
  <2>1. /\ held' \in Seq(Tick) /\ Len(held') <= 1 /\ oqueue' \in Seq(Tick)
        /\ queue' \in Seq(Tick) /\ Len(queue') <= QueueMax
    BY <1>1, QueueAssumption
  <2>2. /\ buffers' \in [Keys -> File] /\ flight' \in [Keys -> File]
        /\ owed' \in [Keys -> File]
    BY <1>1, NoRowsFacts
  <2>3. {werror', wdone', stop', failed'} \subseteq BOOLEAN
    BY <1>1 DEF LcTypeOK
  <2>4. /\ counters' \in [Keys -> 0..MaxPart] /\ ocounters' \in [Keys -> 0..MaxPart]
        /\ first' \in 0..arrived'
    BY <1>1, BoundsAssumption DEF LcTypeOK
  <2> QED BY <1>1, <1>2, <2>1, <2>2, <2>3, <2>4 DEF LcTypeOK, StoreInv, RunAt
<1>4. WellInv' /\ StageInv' /\ FinishedRunKeepsRows'
  BY <1>1 DEF WellInv, WellSoFar, StageInv, FinishedRunKeepsRows
<1> QED BY <1>2, <1>3, <1>4

LEMMA LcInvInit == LcInit => LcInv
<1> SUFFICES ASSUME LcInit PROVE LcInv
  OBVIOUS
<1>1. StoreInv
  BY StoreInvInit DEF LcInit
<1>2. pc = "idle" /\ arrived = 0
  BY DEF LcInit, Init
<1>3. LcTypeOK
  <2>1. /\ held \in Seq(Tick) /\ Len(held) <= 1 /\ queue \in Seq(Tick) /\ Len(queue) <= QueueMax
        /\ oqueue \in Seq(Tick)
    BY QueueAssumption DEF LcInit
  <2>2. buffers \in [Keys -> File] /\ flight \in [Keys -> File] /\ owed \in [Keys -> File]
    BY NoRowsFacts DEF LcInit
  <2>3. {werror, wdone, stop, failed} \subseteq BOOLEAN
    BY DEF LcInit
  <2>4. /\ counters \in [Keys -> 0..MaxPart] /\ ocounters \in [Keys -> 0..MaxPart]
        /\ first \in 0..arrived
    BY <1>2, BoundsAssumption DEF LcInit
  <2> QED BY <1>1, <1>2, <2>1, <2>2, <2>3, <2>4 DEF LcInit, LcTypeOK, StoreInv, RunAt
<1>4. RunInv
  BY DEF LcInit, RunInv, WellInv, WellSoFar, StageInv, FinishedRunKeepsRows
<1> QED BY <1>1, <1>3, <1>4 DEF LcInv

LEMMA LcInvStutter ==
    ASSUME LcInv, UNCHANGED allVars
    PROVE  LcInv'
<1> USE DEF LcInv, RunInv
<1>1. /\ UNCHANGED <<staging, base, segs, tmp, unsynced, pc, fkey, flist, ftodo, ffile,
                     crashes, staged, torn, arrived>>
      /\ UNCHANGED <<held, queue, buffers, flight, counters, writer, werror, wdone, stop,
                     run, todo, failed, outcome, first, lock, report, oqueue, owed, ocounters>>
  BY DEF allVars, vars, storeVars, diskVars, finVars, lcVars, threadVars, runVars,
         otherVars, managerVars, orphanVars
<1>2. StoreInv'
  BY <1>1, StoreInvKept DEF StoreInv, TypeOK
<1>3. LcTypeOK'
  BY <1>1, <1>2 DEF LcTypeOK, StoreInv
<1>4. WellInv'
  <2>1. WellSoFar' => WellSoFar /\ RowsInRun'
    BY <1>1, RowsStay DEF WellInv, LoopStays, WellSoFar
  <2> QED BY <1>1, <2>1 DEF WellInv, WriterInOrder
<1>5. StageInv' /\ FinishedRunKeepsRows'
  BY <1>1, FinishedStays DEF StageInv, WriterGone
<1> QED BY <1>2, <1>3, <1>4, <1>5

LEMMA LcInvStep == LcInv /\ [LcNext]_allVars => LcInv'
<1> SUFFICES ASSUME LcInv, [LcNext]_allVars PROVE LcInv'
  OBVIOUS
<1>1. ASSUME NEW k \in Keys, OnDepth(k) PROVE LcInv'
  BY <1>1, InvOnDepth
<1>2. CASE CtpStep
  BY <1>2, InvPut, InvGiveUp DEF CtpStep
<1>3. CASE WriterStep
  BY <1>3, InvWriterGet, InvFlushStart, InvFlushEnd, InvWritePart, InvFlushRaises DEF WriterStep
<1>4. CASE RunStep
  BY <1>4, InvRunLocks, InvFinalizePartition, InvPartitionStep, InvPartitionDone, InvCollect,
     InvStopSeen, InvRelease, InvJoined, InvFilesDone DEF RunStep
<1>5. CASE FlushFails \/ PartitionFails \/ JoinTimeout \/ Crash
  BY <1>5, InvFlushRaises, InvPartitionFails, InvJoinTimeout, InvLcCrash
<1>6. CASE RunStart
  BY <1>6, InvRunStart
<1>7. CASE StopCollect \/ ReportLocks \/ ReportEnd \/ \E k \in Keys : ReportStart(k)
  BY <1>7, InvManager
<1>8. ASSUME NEW k \in Keys, OrphanWrites(k) \/ OrphanRefused(k) PROVE LcInv'
  BY <1>8, InvOrphanWrites, InvOrphanRefused
<1>9. CASE OrphanGet
  BY <1>9, InvOrphanGet
<1>10. CASE UNCHANGED allVars
  BY <1>10, LcInvStutter
<1> QED BY <1>1, <1>2, <1>3, <1>4, <1>5, <1>6, <1>7, <1>8, <1>9, <1>10 DEF LcNext

LEMMA LcInvHolds == LcSpec => []LcInv
  BY LcInvInit, LcInvStep, PTL DEF LcSpec

-----------------------------------------------------------------------------
(* Every variable of the collector keeps its type; the CTP thread holds a  *)
(* tick only while it can be called, the writer holds rows only while it   *)
(* flushes, and the store finalizes only partitions that run() is at       *)
(* (service.py run(), _enqueue(), _writer_loop()).                         *)
THEOREM LegacyTypeCorrect == LcSpec => []LcTypeOK
<1>1. LcInv => LcTypeOK
  BY DEF LcInv
<1> QED BY <1>1, LcInvHolds, PTL

(* However the queue, the writer, a stop and the failures interleave: when *)
(* a run ends as finished, every tick that reached its callback is in a    *)
(* final file (service.py run(), _enqueue(), _writer_loop(), _flush()).    *)
THEOREM FinishedRunKeepsRowsHolds == LcSpec => []FinishedRunKeepsRows
<1>1. LcInv => FinishedRunKeepsRows
  BY DEF LcInv, RunInv
<1> QED BY <1>1, LcInvHolds, PTL

(* The legacy collector keeps the promise of the raw store it shares with  *)
(* the gateway: a row that was staged is never lost                        *)
(* (parquet_store.py finalize(), called by _prepare() and                  *)
(* _finalize_all()).                                                       *)
THEOREM LegacyDurabilityHolds == LcSpec => []StagedRowsDurable
<1>1. LcInv => StagedRowsDurable
  BY DEF LcInv, StoreInv
<1> QED BY <1>1, LcInvHolds, PTL

-----------------------------------------------------------------------------
(* Who holds the lock, and what the manager's check keeps true: whoever    *)
(* was let in goes on alone.                                               *)
LockHeld ==
    /\ run \notin {"idle", "lock"} <=> lock = "run"
    /\ report = "reading" <=> lock = "report"
    /\ run # "idle" => report = "none"

(* However runs, reports, stops and crashes follow one another: a run or a *)
(* report that the manager has admitted is not refused collector.lock by   *)
(* the other, and no report reads while finalize() is at work (control.py  *)
(* start(), create_report(); service.py run(); session_report.py           *)
(* run_analysis()).                                                        *)
THEOREM AdmittedFindLockFreeHolds == LcSpec => []AdmittedFindLockFree
<1>1. LcInit => LockHeld
  BY DEF LcInit, LockHeld
<1>2. LcInv /\ LockHeld /\ [LcNext]_allVars => LockHeld'
  <2> SUFFICES ASSUME LcInv, LockHeld, [LcNext]_allVars PROVE LockHeld'
    OBVIOUS
  <2> USE DEF LockHeld
  <2>1. ASSUME NEW k \in Keys, OnDepth(k) PROVE LockHeld'
    BY <2>1 DEF OnDepth, otherVars, managerVars
  <2>2. ASSUME NEW k \in Keys, ReportStart(k) PROVE LockHeld'
    BY <2>2 DEF ReportStart, ThreadAlive, runVars
  <2>3. CASE CtpStep
    BY <2>3 DEF CtpStep, Put, GiveUp, runVars, otherVars, managerVars
  <2>4. CASE WriterStep \/ FlushFails
    <3>1. UNCHANGED <<run, lock, report>>
      BY <2>4 DEF WriterStep, WriterGet, FlushStart, FlushEnd, WritePart, PartRefused,
                  FlushFails, FlushRaises, runVars, otherVars, managerVars
    <3> QED BY <3>1
  <2>5. CASE RunStep \/ PartitionFails \/ JoinTimeout
    <3>1. CASE RunLocks
      BY <3>1 DEF RunLocks
    <3>2. CASE \E k \in Keys : FinalizePartition(k)
      BY <3>2 DEF FinalizePartition, lcVars, runVars, otherVars, managerVars
    <3>3. CASE PartitionStep
      BY <3>3 DEF PartitionStep, lcVars, runVars, otherVars, managerVars
    <3>4. CASE PartitionDone
      BY <3>4 DEF PartitionDone, otherVars, managerVars
    <3>5. CASE Collect \/ StopSeen \/ Release
      BY <3>5 DEF Collect, StopSeen, Release, otherVars, managerVars
    <3>6. CASE Joined
      BY <3>6 DEF Joined, RunEnds
    <3>7. CASE FilesDone
      BY <3>7 DEF FilesDone, RunEnds
    <3>8. CASE PartitionFails
      <4>1. run \in {"prepare", "files"}
        BY <3>8 DEF PartitionFails, FailFinalize, LcInv, LcTypeOK
      <4> QED BY <3>8, <4>1 DEF PartitionFails, RunEnds
    <3>9. CASE JoinTimeout
      BY <3>9 DEF JoinTimeout, RunEnds
    <3> QED BY <2>5, <3>1, <3>2, <3>3, <3>4, <3>5, <3>6, <3>7, <3>8, <3>9 DEF RunStep
  <2>6. CASE Crash
    BY <2>6 DEF Crash
  <2>7. CASE RunStart
    BY <2>7 DEF RunStart, managerVars
  <2>8. CASE StopCollect \/ ReportLocks \/ ReportEnd
    BY <2>8 DEF StopCollect, ReportLocks, ReportEnd, runVars, otherVars, managerVars
  <2>9. ASSUME NEW k \in Keys, OrphanWrites(k) \/ OrphanRefused(k) PROVE LockHeld'
    BY <2>9 DEF OrphanWrites, OrphanRefused, runVars, managerVars
  <2>10. CASE OrphanGet
    BY <2>10 DEF OrphanGet, runVars, managerVars
  <2>11. CASE UNCHANGED allVars
    BY <2>11 DEF allVars, lcVars, runVars, otherVars, managerVars
  <2> QED BY <2>1, <2>2, <2>3, <2>4, <2>5, <2>6, <2>7, <2>8, <2>9, <2>10, <2>11
           DEF LcNext
<1>3. LcInv /\ LockHeld => AdmittedFindLockFree
  <2> SUFFICES ASSUME LcInv, LockHeld PROVE AdmittedFindLockFree
    OBVIOUS
  <2>1. lock \in {"free", "run", "report"} /\ (pc # "idle" => run \in {"prepare", "files"})
    BY DEF LcInv, LcTypeOK
  <2> QED BY <2>1 DEF LockHeld, AdmittedFindLockFree
<1> QED BY <1>1, <1>2, <1>3, LcInvHolds, PTL DEF LcSpec
=============================================================================
