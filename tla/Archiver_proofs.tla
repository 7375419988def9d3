---------------------------- MODULE Archiver_proofs ----------------------------
(***************************************************************************)
(* Proofs about the archiver, for any partitions and any bounds: its types,*)
(* that a row it accepted follows the row log, that no row is stored twice *)
(* and that files keep the order of arrival.                               *)
(*                                                                         *)
(* The invariant has a part for the call at work (LockInv), one for what   *)
(* the disk must still hold when a rename can be undone (UnsyncedKept), one *)
(* that ties the running finalize() to the parts on disk (PartsTracked),   *)
(* and, while every failed write left nothing behind, one for the order    *)
(* and one for the uniqueness of the rows in memory and on disk.           *)
(***************************************************************************)
EXTENDS Archiver, RawStore_proofs

(* What the call at work says of the memory and of the stream. *)
LockInv ==
    /\ flight # NoRows => op \in {"flush", "finalize", "shutdown"} /\ step = "write"
    /\ op = "prepare" => stream = "closed" /\ step = "files"
    /\ op = "flush" => step = "write"
    /\ op = "finalize" => stream = "closing"
    /\ op = "shutdown" => stream = "closed"
    /\ op \in {"prepare", "finalize", "shutdown"} => buffers = NoRows

RowsKnown == arrived <= MaxRow /\ PendingRows \cup DiskRows \subseteq 1..arrived

(* Nobody writes a part while a call finalizes: what is on disk is what it *)
(* has still to do.                                                        *)
PartsTracked ==
    /\ InFiles => Leftovers \subseteq todo
    /\ pc \in {"merge", "sync"} => Parts(fkey) = flist
    /\ pc = "sync" => ftodo = flist
    /\ pc = "cleanup" => Parts(fkey) = ftodo

(* A rename that can still be undone takes no row off the disk. *)
UnsyncedKept ==
    /\ \A k \in Keys : \A f \in unsynced[k] : RowsOf(f) \subseteq StagedRows(k)
    /\ pc = "merge" => RowsOf(tmp[fkey]) \subseteq StagedRows(fkey)
    /\ pc = "cleanup" => unsynced[fkey] = {}

DiskInv == StoreInv /\ UnsyncedKept
CallInv == ArchTypeOK /\ LockInv /\ RowsKnown /\ PartsTracked
ArchInv == DiskInv /\ CallInv

-----------------------------------------------------------------------------
(* Files. *)
LEMMA EmptyFile == <<>> \in File /\ RowsOf(<<>>) = {} /\ Increasing(<<>>)
  BY DEF File, RowsOf, Increasing

Before(S, T) == \A r \in S, q \in T : r < q

(* A file followed by a later one. *)
LEMMA ConcatFiles ==
    ASSUME NEW f \in File, NEW g \in File
    PROVE  /\ f \o g \in File /\ RowsOf(f \o g) = RowsOf(f) \cup RowsOf(g)
           /\ Increasing(f) /\ Increasing(g) /\ Before(RowsOf(f), RowsOf(g))
                => Increasing(f \o g)
<1> DEFINE h == f \o g
<1>1. /\ h \in File /\ DOMAIN h = 1..(Len(f) + Len(g))
      /\ \A i \in 1..(Len(f) + Len(g)) : h[i] = IF i <= Len(f) THEN f[i] ELSE g[i - Len(f)]
  BY ConcatProperties DEF File
<1>2. \A i \in DOMAIN h : \/ i <= Len(f) /\ i \in DOMAIN f /\ h[i] = f[i]
                          \/ Len(f) < i /\ i - Len(f) \in DOMAIN g /\ h[i] = g[i - Len(f)]
  BY <1>1, FileFacts
<1>3. RowsOf(h) \subseteq RowsOf(f) \cup RowsOf(g)
  BY <1>2 DEF RowsOf
<1>4. RowsOf(f) \cup RowsOf(g) \subseteq RowsOf(h)
  BY RowsOfConcat
<1>5. ASSUME Increasing(f), Increasing(g), Before(RowsOf(f), RowsOf(g)) PROVE Increasing(h)
  <2> SUFFICES ASSUME NEW m \in DOMAIN h, NEW n \in DOMAIN h, m < n PROVE h[m] < h[n]
    BY DEF Increasing
  <2>0. m \in Nat /\ n \in Nat /\ Len(f) \in Nat
    BY <1>1, FileFacts
  <2>1. CASE n <= Len(f)
    <3>1. m \in DOMAIN f /\ n \in DOMAIN f /\ h[m] = f[m] /\ h[n] = f[n]
      BY <1>2, <2>0, <2>1
    <3> QED BY <1>5, <3>1 DEF Increasing
  <2>2. CASE m > Len(f)
    <3>1. /\ m - Len(f) \in DOMAIN g /\ n - Len(f) \in DOMAIN g
          /\ h[m] = g[m - Len(f)] /\ h[n] = g[n - Len(f)]
      BY <1>2, <2>0, <2>2
    <3>2. m - Len(f) < n - Len(f)
      BY <2>0
    <3> QED BY <1>5, <3>1, <3>2 DEF Increasing
  <2>3. CASE m <= Len(f) /\ n > Len(f)
    <3>1. h[m] \in RowsOf(f) /\ h[n] \in RowsOf(g)
      BY <1>2, <2>0, <2>3 DEF RowsOf
    <3> QED BY <1>5, <3>1 DEF Before
  <2> QED BY <2>0, <2>1, <2>2, <2>3
<1> QED BY <1>1, <1>3, <1>4, <1>5

LEMMA AppendRow ==
    ASSUME NEW f \in File, NEW r \in Nat
    PROVE  /\ Append(f, r) \in File /\ RowsOf(Append(f, r)) = RowsOf(f) \cup {r}
           /\ Increasing(f) /\ Before(RowsOf(f), {r}) => Increasing(Append(f, r))
<1>1. <<r>> \in File /\ RowsOf(<<r>>) = {r} /\ Increasing(<<r>>)
  BY DEF File, Row, RowsOf, Increasing
<1>2. Append(f, r) = f \o <<r>>
  BY AppendIsConcat DEF File, Row
<1> QED BY <1>1, <1>2, ConcatFiles
-----------------------------------------------------------------------------
(* What the disk holds, step by step of finalize(). *)
LEMMA PartRows ==
    ASSUME StoreInv, NEW k \in Keys
    PROVE  /\ Parts(k) \subseteq PartId
           /\ \A i \in Parts(k) : staging[k][i] \in File
                                  /\ RowsOf(staging[k][i]) \subseteq StagedRows(k)
           /\ \A f \in Finals(k) : f \in File /\ RowsOf(f) \subseteq FinalRows(k)
  BY DEF StoreInv, TypeOK, Parts, StagedRows, FinalRows, Finals

(* The rows on disk and the parts, before and after a step. *)
SameRows == DiskRows' = DiskRows
SameParts == \A k \in Keys : Parts(k)' = Parts(k) /\ StagedRows(k)' = StagedRows(k)

LEMMA SameStaging ==
    ASSUME UNCHANGED staging
    PROVE  SameParts
  BY DEF SameParts, Parts, StagedRows

LEMMA SameDisk ==
    ASSUME UNCHANGED <<staging, base, segs>>
    PROVE  SameRows /\ SameParts
<1>1. SameParts
  BY SameStaging
<1>2. \A k \in Keys : FinalRows(k)' = FinalRows(k)
  BY DEF FinalRows, Finals
<1> QED BY <1>1, <1>2 DEF SameRows, SameParts, DiskRows

LEMMA DiskQuiet ==
    ASSUME DiskInv, UNCHANGED <<diskVars, finVars, staged, torn>>,
           crashes' \in Nat, arrived' \in Nat
    PROVE  DiskInv' /\ SameRows /\ SameParts
<1>1. /\ UNCHANGED <<staging, base, segs, tmp, unsynced, pc, fkey, flist, ftodo, ffile,
                     staged, torn>>
  BY DEF diskVars, finVars
<1>2. StoreInv'
  <2>1. TypeOK'
    BY <1>1 DEF DiskInv, StoreInv, TypeOK
  <2>2. FinalizeCovered'
    BY <1>1 DEF DiskInv, StoreInv, FinalizeCovered, Repeats, Parts, Synced, Finals
  <2> QED BY <1>1, <2>1, <2>2, DurableUnchanged DEF DiskInv, StoreInv
<1>3. SameRows /\ SameParts
  BY <1>1, SameDisk
<1>4. UnsyncedKept'
  BY <1>1 DEF DiskInv, UnsyncedKept, StagedRows, Parts
<1> QED BY <1>2, <1>3, <1>4 DEF DiskInv

LEMMA StartDisk ==
    ASSUME DiskInv, NEW k \in Keys, StartFinalize(k), UNCHANGED arrived
    PROVE  DiskInv' /\ SameRows /\ SameParts
<1>1. /\ UNCHANGED <<staging, base, segs, unsynced>> /\ pc' = "merge" /\ fkey' = k
      /\ tmp' = [tmp EXCEPT ![k] = <<>>]
  BY DEF StartFinalize
<1>2. SameRows /\ SameParts
  BY <1>1, SameDisk
<1>3. RowsOf(tmp'[fkey']) = {}
  BY <1>1, EmptyFile DEF DiskInv, StoreInv, TypeOK
<1>4. UnsyncedKept'
  BY <1>1, <1>2, <1>3 DEF DiskInv, UnsyncedKept, SameParts
<1> QED BY <1>2, <1>4, InvStart DEF DiskInv

LEMMA MergeDisk ==
    ASSUME DiskInv, MergePart, UNCHANGED arrived
    PROVE  DiskInv' /\ SameRows /\ SameParts
<1> DEFINE i == Lowest(ftodo)
<1>1. /\ UNCHANGED <<staging, base, segs, unsynced, pc, fkey>> /\ pc = "merge"
      /\ tmp' = [tmp EXCEPT ![fkey] = tmp[fkey] \o staging[fkey][i]]
      /\ i \in flist
  BY NextPartListed DEF MergePart, DiskInv, StoreInv
<1>2. /\ fkey \in Keys /\ i \in Parts(fkey) /\ tmp[fkey] \in File
  BY <1>1 DEF DiskInv, StoreInv, FinalizeCovered, TypeOK
<1> HIDE DEF i
<1>3. SameRows /\ SameParts
  BY <1>1, SameDisk
<1>4. RowsOf(tmp'[fkey]) = RowsOf(tmp[fkey]) \cup RowsOf(staging[fkey][i])
  BY <1>1, <1>2, ConcatFiles, PartRows DEF DiskInv, StoreInv, TypeOK
<1>5. UnsyncedKept'
  BY <1>1, <1>2, <1>3, <1>4, PartRows DEF DiskInv, UnsyncedKept, SameParts
<1> QED BY <1>3, <1>5, InvMerge DEF DiskInv

LEMMA PublishDisk ==
    ASSUME DiskInv, Publish, UNCHANGED arrived
    PROVE  DiskInv' /\ SameRows /\ SameParts
<1> DEFINE file == tmp[fkey]
<1>1. /\ UNCHANGED <<staging, fkey>> /\ pc = "merge" /\ pc' = "sync"
      /\ RowsOf(file) \subseteq StagedRows(fkey) /\ fkey \in Keys
      /\ unsynced' \in {unsynced, [unsynced EXCEPT ![fkey] = unsynced[fkey] \cup {file}]}
  BY DEF Publish, DiskInv, UnsyncedKept, StoreInv, TypeOK
<1>2. SameParts
  BY <1>1, SameStaging
<1>3. ASSUME NEW k \in Keys
      PROVE  Finals(k)' \subseteq Finals(k) \cup (IF k = fkey THEN {file} ELSE {})
             /\ Finals(k) \subseteq Finals(k)'
  BY DEF Publish, FirstFile, Finals, DiskInv, StoreInv, TypeOK
<1>4. \A k \in Keys : StagedRows(k) \cup FinalRows(k)' = StagedRows(k) \cup FinalRows(k)
  BY <1>1, <1>3 DEF FinalRows
<1>5. SameRows
  BY <1>2, <1>4 DEF SameRows, SameParts, DiskRows
<1>6. UnsyncedKept'
  BY <1>1, <1>2 DEF DiskInv, UnsyncedKept, SameParts, StoreInv, TypeOK
<1> QED BY <1>2, <1>5, <1>6, InvPublish DEF DiskInv

LEMMA SyncDisk ==
    ASSUME DiskInv, SyncDirectory, UNCHANGED arrived
    PROVE  DiskInv' /\ SameRows /\ SameParts
<1>1. /\ UNCHANGED <<staging, base, segs, fkey>> /\ pc' = "cleanup" /\ fkey \in Keys
      /\ unsynced' = [unsynced EXCEPT ![fkey] = {}]
  BY DEF SyncDirectory, UnsyncedAfterFsync, DiskInv, StoreInv, TypeOK
<1>2. SameRows /\ SameParts
  BY <1>1, SameDisk
<1>3. UnsyncedKept'
  BY <1>1, <1>2 DEF DiskInv, UnsyncedKept, SameParts, StoreInv, TypeOK
<1> QED BY <1>2, <1>3, InvSync DEF DiskInv

(* Parts only go, and none of another partition. *)
FewerParts ==
    \A k \in Keys : /\ Parts(k)' \subseteq Parts(k) /\ StagedRows(k)' \subseteq StagedRows(k)
                    /\ \A i \in Parts(k)' : staging'[k][i] = staging[k][i]

LEMMA UnlinkDisk ==
    ASSUME DiskInv, UnlinkPart, UNCHANGED arrived
    PROVE  /\ DiskInv' /\ SameRows /\ FewerParts
           /\ Parts(fkey)' = Parts(fkey) \ {Lowest(ftodo)}
           /\ \A k \in Keys \ {fkey} : Parts(k)' = Parts(k)
<1> DEFINE i == Lowest(ftodo)
<1>1. /\ UNCHANGED <<base, segs, unsynced, fkey>> /\ pc = "cleanup" /\ pc' = "cleanup"
      /\ i \in ftodo /\ i \in PartId /\ fkey \in Keys
      /\ staging' = [staging EXCEPT ![fkey] = [staging[fkey] EXCEPT ![i] = NoFile]]
  BY NextPartListed DEF UnlinkPart, DiskInv, StoreInv, TypeOK
<1>2. RowsOf(staging[fkey][i]) \subseteq RowsOf(ffile) /\ ffile \in Finals(fkey)
  BY <1>1 DEF DiskInv, StoreInv, FinalizeCovered, Repeats, Synced
<1> HIDE DEF i
<1>3. /\ Parts(fkey)' = Parts(fkey) \ {i}
      /\ \A k \in Keys \ {fkey} : Parts(k)' = Parts(k) /\ staging'[k] = staging[k]
      /\ \A k \in Keys : \A j \in Parts(k)' : staging'[k][j] = staging[k][j]
  BY <1>1 DEF Parts, DiskInv, StoreInv, TypeOK
<1>4. /\ \A k \in Keys : StagedRows(k)' \subseteq StagedRows(k)
      /\ \A k \in Keys \ {fkey} : StagedRows(k)' = StagedRows(k)
      /\ StagedRows(fkey) \subseteq StagedRows(fkey)' \cup RowsOf(ffile)
  <2>1. \A k \in Keys : StagedRows(k)' \subseteq StagedRows(k)
    <3>1. \A k \in Keys : Parts(k)' \subseteq Parts(k)
      BY <1>1, <1>3
    <3> QED BY <1>3, <3>1 DEF StagedRows
  <2>2. \A k \in Keys \ {fkey} : StagedRows(k)' = StagedRows(k)
    BY <1>3 DEF StagedRows
  <2>3. StagedRows(fkey) \subseteq StagedRows(fkey)' \cup RowsOf(ffile)
    <3>1. \A j \in Parts(fkey) : j = i \/ (j \in Parts(fkey)' /\ staging'[fkey][j] = staging[fkey][j])
      BY <1>1, <1>3
    <3> QED BY <1>1, <1>2, <3>1 DEF StagedRows
  <2> QED BY <2>1, <2>2, <2>3
<1>5. \A k \in Keys : FinalRows(k)' = FinalRows(k)
  BY <1>1 DEF FinalRows, Finals
<1>6. RowsOf(ffile) \subseteq FinalRows(fkey)
  BY <1>2 DEF FinalRows
<1>7. SameRows
  BY <1>1, <1>4, <1>5, <1>6 DEF SameRows, DiskRows
<1>8. UnsyncedKept'
  BY <1>1, <1>4 DEF DiskInv, UnsyncedKept
<1>9. FewerParts
  <2>1. \A k \in Keys : Parts(k)' \subseteq Parts(k)
    BY <1>1, <1>3
  <2> QED BY <1>3, <1>4, <2>1 DEF FewerParts
<1>10. StoreInv'
  BY InvUnlink DEF DiskInv
<1> QED BY <1>3, <1>7, <1>8, <1>9, <1>10 DEF DiskInv, i

LEMMA StopDisk ==
    ASSUME DiskInv, UNCHANGED arrived, EndFinalize \/ FailFinalize
    PROVE  DiskInv' /\ SameRows /\ SameParts
<1>1. UNCHANGED <<staging, base, segs, unsynced, fkey, tmp>> /\ pc' = "idle"
  BY DEF EndFinalize, FailFinalize, diskVars
<1>2. SameRows /\ SameParts
  BY <1>1, SameDisk
<1>3. UnsyncedKept'
  BY <1>1, <1>2 DEF DiskInv, UnsyncedKept, SameParts
<1> QED BY <1>2, <1>3, InvStop DEF DiskInv

(* A power loss undoes renames, and no row is gone. *)
LEMMA CrashDisk ==
    ASSUME DiskInv, CrashStore, UNCHANGED arrived
    PROVE  /\ DiskInv' /\ SameRows /\ SameParts
           /\ \A k \in Keys : Finals(k)' \subseteq Finals(k)
<1>1. PICK undone \in [Keys -> UNION {SUBSET unsynced[q] : q \in Keys}] :
         /\ \A q \in Keys : undone[q] \subseteq unsynced[q]
         /\ base' = [q \in Keys |->
                       IF base[q] \in undone[q] THEN NoFile ELSE base[q]]
         /\ segs' = [q \in Keys |-> segs[q] \ undone[q]]
         /\ unsynced' = [q \in Keys |-> unsynced[q] \ undone[q]]
  BY DEF CrashStore
<1>2. pc' = "idle" /\ UNCHANGED <<staging, fkey>>
  BY DEF CrashStore
<1>3. SameParts
  BY <1>2, SameStaging
<1>4. \A k \in Keys : Finals(k)' \subseteq Finals(k) /\ Finals(k) \subseteq Finals(k)' \cup unsynced[k]
  BY <1>1 DEF Finals
<1>5. \A k \in Keys : \A f \in unsynced[k] : RowsOf(f) \subseteq StagedRows(k)
  BY DEF DiskInv, UnsyncedKept
<1>6. \A k \in Keys : StagedRows(k) \cup FinalRows(k)' = StagedRows(k) \cup FinalRows(k)
  <2> SUFFICES ASSUME NEW k \in Keys
               PROVE  FinalRows(k)' \subseteq FinalRows(k)
                      /\ FinalRows(k) \subseteq FinalRows(k)' \cup StagedRows(k)
    OBVIOUS
  <2> QED BY <1>4, <1>5 DEF FinalRows
<1>7. SameRows
  BY <1>3, <1>6 DEF SameRows, SameParts, DiskRows
<1>8. UnsyncedKept'
  BY <1>1, <1>2, <1>3, <1>5 DEF UnsyncedKept, SameParts
<1> QED BY <1>3, <1>4, <1>7, <1>8, InvCrash DEF DiskInv

LEMMA PartDisk ==
    ASSUME DiskInv, NEW k \in Keys, NEW i \in PartId, NEW rows \in File,
           staging[k][i] = NoFile,
           staging' = [staging EXCEPT ![k][i] = rows],
           staged' \in [Keys -> SUBSET Row],
           \A q \in Keys : staged'[q] \subseteq
               staged[q] \cup (IF q = k THEN RowsOf(rows) ELSE {}),
           UNCHANGED <<base, segs, tmp, unsynced, finVars>>,
           torn' \in BOOLEAN, arrived' \in Nat, crashes' \in Nat
    PROVE  /\ DiskInv' /\ DiskRows' = DiskRows \cup RowsOf(rows)
           /\ Parts(k)' = Parts(k) \cup {i} /\ i \notin Parts(k)
           /\ staging'[k][i] = rows /\ \A j \in Parts(k) : staging'[k][j] = staging[k][j]
           /\ StagedRows(k)' = StagedRows(k) \cup RowsOf(rows)
           /\ \A q \in Keys \ {k} : /\ staging'[q] = staging[q] /\ Parts(q)' = Parts(q)
                                    /\ StagedRows(q)' = StagedRows(q)
           /\ \A q \in Keys : Finals(q)' = Finals(q)
<1>1. rows # NoFile
  BY NoFileAssumption
<1>2. UNCHANGED <<base, segs, tmp, unsynced, pc, fkey>>
  BY DEF finVars
<1>3. /\ Parts(k)' = Parts(k) \cup {i} /\ i \notin Parts(k)
      /\ staging'[k][i] = rows /\ \A j \in Parts(k) : staging'[k][j] = staging[k][j]
      /\ \A q \in Keys \ {k} : staging'[q] = staging[q] /\ Parts(q)' = Parts(q)
  BY <1>1 DEF Parts, DiskInv, StoreInv, TypeOK
<1>4. StagedRows(k)' = StagedRows(k) \cup RowsOf(rows)
  BY <1>3 DEF StagedRows
<1>5. \A q \in Keys \ {k} : StagedRows(q)' = StagedRows(q)
  BY <1>3 DEF StagedRows
<1>6. \A q \in Keys : Finals(q)' = Finals(q) /\ FinalRows(q)' = FinalRows(q)
  BY <1>2 DEF FinalRows, Finals
<1>7. DiskRows' = DiskRows \cup RowsOf(rows)
  BY <1>4, <1>5, <1>6 DEF DiskRows
<1>8. UnsyncedKept'
  <2>1. \A q \in Keys : StagedRows(q) \subseteq StagedRows(q)'
    BY <1>4, <1>5
  <2> QED BY <1>2, <2>1 DEF DiskInv, UnsyncedKept, StoreInv, TypeOK
<1> QED BY <1>3, <1>4, <1>5, <1>6, <1>7, <1>8, InvPart DEF DiskInv
-----------------------------------------------------------------------------
(* What a step does to the rows, as the row log sees it. *)
Session == IF op = "prepare" THEN "recovering" ELSE IF stream = "open" THEN "open" ELSE "closed"

Quiet ==
    /\ PendingRows' = PendingRows /\ DiskRows' = DiskRows /\ arrived' = arrived
    /\ Session' = Session \/ (Session \in {"open", "recovering"} /\ Session' = "closed")
Discards ==
    /\ PendingRows' \subseteq PendingRows /\ DiskRows' = DiskRows /\ arrived' = arrived
    /\ Session # "recovering"
    /\ Session' = "closed" \/ (Session = "closed" /\ Session' = "open")
Accepts ==
    /\ Session = "open" /\ Session' = "open"
    /\ arrived' = arrived + 1 /\ arrived' <= MaxRow
    /\ PendingRows' = PendingRows \cup {arrived'} /\ DiskRows' = DiskRows
Persists(R) ==
    /\ R \subseteq PendingRows /\ DiskRows' = DiskRows \cup R
    /\ PendingRows' \subseteq PendingRows /\ PendingRows \subseteq PendingRows' \cup R
    /\ Session' = Session /\ arrived' = arrived
Dies(R) ==
    /\ Session' = "recovering" /\ PendingRows' = {} /\ arrived' = arrived
    /\ R \subseteq PendingRows /\ DiskRows' = DiskRows \cup R
RowStep ==
    \/ Quiet \/ Discards \/ Accepts
    \/ \E R \in SUBSET PendingRows : Persists(R) \/ Dies(R)

LEMMA RowsKept ==
    ASSUME ArchInv, RowStep
    PROVE  RowsKnown' /\ arrived' \in Nat
<1>1. arrived \in Nat /\ arrived <= MaxRow /\ PendingRows \cup DiskRows \subseteq 1..arrived
  BY DEF ArchInv, CallInv, RowsKnown, DiskInv, StoreInv, TypeOK
<1>2. CASE Accepts
  <2>1. /\ arrived' = arrived + 1 /\ arrived' <= MaxRow
        /\ PendingRows' \cup DiskRows' = (PendingRows \cup DiskRows) \cup {arrived'}
    BY <1>2 DEF Accepts
  <2> QED BY <1>1, <2>1 DEF RowsKnown
<1>3. CASE ~Accepts
  <2>1. /\ arrived' = arrived
        /\ PendingRows' \cup DiskRows' \subseteq PendingRows \cup DiskRows
    BY <1>3 DEF RowStep, Quiet, Discards, Persists, Dies
  <2> QED BY <1>1, <2>1 DEF RowsKnown
<1> QED BY <1>2, <1>3

(* Every such step is a step of the row log. *)
LogStep == [Log!LogNext]_(Log!logVars)

LEMMA RowStepIsLogStep ==
    ASSUME ArchInv, RowStep
    PROVE  LogStep
<1> DEFINE P == PendingRows
           D == DiskRows
           L == (1..arrived) \ (P \cup D)
<1>1. /\ arrived \in Nat /\ MaxRow \in Nat /\ arrived <= MaxRow /\ P \cup D \subseteq 1..arrived
  BY BoundsAssumption DEF ArchInv, CallInv, RowsKnown, DiskInv, StoreInv, TypeOK
<1>2. CASE Quiet
  <2>1. P' = P /\ D' = D /\ L' = L
    BY <1>2 DEF Quiet
  <2>2. CASE Session' = Session
    BY <2>1, <2>2, Zenon DEF LogStep, Log!logVars, Session
  <2>3. CASE Session = "open" /\ Session' = "closed"
    BY <2>1, <2>3, Zenon DEF LogStep, Log!LogNext, Log!Close, Session
  <2>4. CASE Session = "recovering" /\ Session' = "closed"
    BY <2>1, <2>4, Zenon DEF LogStep, Log!LogNext, Log!Recover, Session
  <2> QED BY <1>2, <2>2, <2>3, <2>4 DEF Quiet
<1>3. CASE Discards
  <2>1. /\ P' \subseteq P /\ D' = D /\ arrived' = arrived
        /\ L' = L \cup ((P \ D) \ (P' \ D'))
        /\ P' \ D' = (P \ D) \ ((P \ D) \ (P' \ D'))
    BY <1>1, <1>3 DEF Discards
  <2> DEFINE gone == (P \ D) \ (P' \ D')
  <2>2. gone \in SUBSET (P \ D)
    OBVIOUS
  <2> HIDE DEF gone
  <2>3. Log!Discard
    BY <2>1, <2>2 DEF Log!Discard, gone
  <2>4. CASE Session' = "closed"
    BY <1>3, <2>3, <2>4 DEF Discards, Session, LogStep, Log!LogNext, Log!Refuse
  <2>5. CASE Session = "closed" /\ Session' = "open"
    BY <1>3, <2>3, <2>5 DEF Discards, Session, LogStep, Log!LogNext, Log!Open
  <2> QED BY <1>3, <2>4, <2>5 DEF Discards
<1>4. CASE Accepts
  <2> DEFINE r == arrived + 1
  <2>1. /\ P' = P \cup {r} /\ D' = D /\ arrived' = r /\ r \in 1..MaxRow
        /\ Session = "open" /\ Session' = "open"
    BY <1>1, <1>4 DEF Accepts
  <2>2. r \notin P \cup D \cup (1..arrived)
    BY <1>1
  <2>3. P' \ D' = (P \ D) \cup {r} /\ L' = L
    BY <1>1, <2>1, <2>2
  <2>4. r \in (1..MaxRow) \ ((P \ D) \cup D \cup L)
    BY <2>1, <2>2
  <2> HIDE DEF r
  <2>5. Log!Accept
    BY <2>1, <2>3, <2>4 DEF Session, Log!Accept
  <2> QED BY <2>5 DEF LogStep, Log!LogNext
<1>5. ASSUME NEW R \in SUBSET PendingRows, Persists(R) PROVE LogStep
  <2> DEFINE rows == R \ D
  <2>1. /\ P' \ D' = (P \ D) \ rows /\ D' = D \cup rows /\ L' = L /\ rows \in SUBSET (P \ D)
        /\ Session' = Session
    BY <1>5 DEF Persists
  <2> HIDE DEF rows
  <2>2. CASE rows = {}
    <3>1. P' \ D' = P \ D /\ D' = D /\ L' = L
      BY <2>1, <2>2
    <3> QED BY <2>1, <3>1, Zenon DEF LogStep, Log!logVars, Session
  <2>3. CASE rows # {}
    <3>1. Log!Persist
      BY <2>1, <2>3 DEF Log!Persist, Session
    <3> QED BY <3>1 DEF LogStep, Log!LogNext
  <2> QED BY <2>2, <2>3
<1>6. ASSUME NEW R \in SUBSET PendingRows, Dies(R) PROVE LogStep
  <2> DEFINE saved == R \ D
  <2>1. /\ P' = {} /\ P' \ D' = {} /\ D' = D \cup saved /\ saved \in SUBSET (P \ D)
        /\ L' = L \cup ((P \ D) \ saved) /\ Session' = "recovering"
    BY <1>1, <1>6 DEF Dies
  <2> HIDE DEF saved
  <2>2. Log!Die
    BY <2>1 DEF Log!Die, Session
  <2> QED BY <2>2 DEF LogStep, Log!LogNext
<1> QED BY <1>2, <1>3, <1>4, <1>5, <1>6 DEF RowStep
-----------------------------------------------------------------------------
(* What is in memory. *)
LEMMA NoRowsFacts == NoRows \in [Keys -> File] /\ \A k \in Keys : RowsOf(NoRows[k]) = {}
  BY EmptyFile DEF NoRows

LEMMA MemSame ==
    ASSUME UNCHANGED <<buffers, flight>>
    PROVE  PendingRows' = PendingRows
  BY DEF PendingRows

(* begin_batch(), and the end of the process. *)
LEMMA MemDropped ==
    ASSUME ArchTypeOK, buffers' = NoRows, flight' \in {flight, NoRows}
    PROVE  /\ PendingRows' \subseteq PendingRows
           /\ flight' = NoRows => PendingRows' = {}
           /\ buffers' \in [Keys -> File] /\ flight' \in [Keys -> File]
<1>1. \A k \in Keys : RowsOf(buffers'[k]) = {}
  BY NoRowsFacts
<1>2. \A k \in Keys : RowsOf(flight'[k]) \subseteq RowsOf(flight[k])
  BY NoRowsFacts
<1>3. flight' = NoRows => \A k \in Keys : RowsOf(flight'[k]) = {}
  BY NoRowsFacts
<1> QED BY <1>1, <1>2, <1>3, NoRowsFacts DEF PendingRows, ArchTypeOK

LEMMA MemHandedOver ==
    ASSUME ArchTypeOK, flight = NoRows, flight' = buffers, buffers' = NoRows
    PROVE  /\ PendingRows' = PendingRows
           /\ buffers' \in [Keys -> File] /\ flight' \in [Keys -> File]
<1>1. \A k \in Keys : RowsOf(buffers'[k]) = {} /\ RowsOf(flight[k]) = {}
  BY NoRowsFacts
<1>2. \A k \in Keys : RowsOf(buffers'[k]) \cup RowsOf(flight'[k])
                      = RowsOf(buffers[k]) \cup RowsOf(flight[k])
  BY <1>1
<1> QED BY <1>2, NoRowsFacts DEF PendingRows, ArchTypeOK

LEMMA MemRestored ==
    ASSUME ArchTypeOK, buffers' = [k \in Keys |-> Restored(k)], flight' = NoRows
    PROVE  /\ PendingRows' = PendingRows
           /\ buffers' \in [Keys -> File] /\ flight' \in [Keys -> File]
           /\ \A k \in Keys : RowsOf(buffers'[k]) = RowsOf(flight[k]) \cup RowsOf(buffers[k])
<1>1. ASSUME NEW k \in Keys
      PROVE  /\ Restored(k) \in File
             /\ RowsOf(buffers'[k]) = RowsOf(flight[k]) \cup RowsOf(buffers[k])
  BY <1>1, ConcatFiles DEF Restored, ArchTypeOK
<1>2. \A k \in Keys : RowsOf(flight'[k]) = {}
  BY NoRowsFacts
<1>3. \A k \in Keys : RowsOf(buffers'[k]) \cup RowsOf(flight'[k])
                      = RowsOf(buffers[k]) \cup RowsOf(flight[k])
  BY <1>1, <1>2
<1> QED BY <1>1, <1>3, NoRowsFacts DEF PendingRows

LEMMA MemAdded ==
    ASSUME ArchTypeOK, NEW k \in Keys, NEW r \in Nat,
           buffers' = [buffers EXCEPT ![k] = Append(@, r)], UNCHANGED flight
    PROVE  /\ PendingRows' = PendingRows \cup {r}
           /\ buffers' \in [Keys -> File]
           /\ RowsOf(buffers'[k]) = RowsOf(buffers[k]) \cup {r}
           /\ \A q \in Keys \ {k} : buffers'[q] = buffers[q]
<1>1. Append(buffers[k], r) \in File /\ RowsOf(Append(buffers[k], r)) = RowsOf(buffers[k]) \cup {r}
  BY AppendRow DEF ArchTypeOK
<1>2. /\ buffers'[k] = Append(buffers[k], r) /\ \A q \in Keys \ {k} : buffers'[q] = buffers[q]
      /\ buffers' \in [Keys -> File]
  BY <1>1 DEF ArchTypeOK
<1>3. /\ RowsOf(buffers'[k]) = RowsOf(buffers[k]) \cup {r}
      /\ \A q \in Keys \ {k} : RowsOf(buffers'[q]) = RowsOf(buffers[q])
  BY <1>1, <1>2
<1>4. PendingRows' = PendingRows \cup {r}
  BY <1>3 DEF PendingRows
<1> QED BY <1>2, <1>3, <1>4

(* A part of k was written. *)
LEMMA MemWritten ==
    ASSUME ArchTypeOK, NEW k \in Keys, flight' = [flight EXCEPT ![k] = <<>>], UNCHANGED buffers
    PROVE  /\ RowsOf(flight[k]) \subseteq PendingRows
           /\ PendingRows' \subseteq PendingRows
           /\ PendingRows \subseteq PendingRows' \cup RowsOf(flight[k])
           /\ flight' \in [Keys -> File]
           /\ RowsOf(flight'[k]) = {}
           /\ \A q \in Keys \ {k} : flight'[q] = flight[q]
<1>1. /\ flight'[k] = <<>> /\ \A q \in Keys \ {k} : flight'[q] = flight[q]
      /\ flight' \in [Keys -> File]
  BY EmptyFile DEF ArchTypeOK
<1>2. /\ RowsOf(flight'[k]) = {}
      /\ \A q \in Keys \ {k} : RowsOf(flight'[q]) = RowsOf(flight[q])
  BY <1>1, EmptyFile
<1> QED BY <1>1, <1>2 DEF PendingRows
-----------------------------------------------------------------------------
(* Every action keeps the invariant and does to the rows what it may.      *)
Kept == ArchInv' /\ RowStep

LEMMA KeptIs ==
    ASSUME ArchInv, DiskInv', RowStep, ArchTypeOK', LockInv', PartsTracked'
    PROVE  Kept
  BY RowsKept DEF Kept, ArchInv, CallInv

LEMMA ArchFacts ==
    ASSUME ArchInv
    PROVE  /\ DiskInv /\ ArchTypeOK /\ LockInv /\ RowsKnown /\ PartsTracked
           /\ TypeOK /\ StoreInv /\ FinalizeCovered
           /\ arrived \in Nat /\ crashes \in Nat /\ fkey \in Keys
           /\ pc # "idle" => InFiles /\ fkey \in todo
           /\ ~InFiles => pc = "idle"
           /\ op = "none" => flight = NoRows
  BY DEF ArchInv, CallInv, DiskInv, StoreInv, ArchTypeOK, TypeOK

(* The store is left alone. *)
LEMMA StoreAlone ==
    ASSUME ArchInv, UNCHANGED storeVars, arrived' \in Nat
    PROVE  /\ DiskInv' /\ SameRows /\ SameParts
           /\ UNCHANGED <<pc, fkey, flist, ftodo>>
<1>1. /\ UNCHANGED <<diskVars, finVars, staged, torn, crashes>>
      /\ UNCHANGED <<pc, fkey, flist, ftodo>>
  BY DEF storeVars, finVars
<1> QED BY <1>1, DiskQuiet, ArchFacts

LEMMA TrackedAlone ==
    ASSUME ArchInv, SameParts, UNCHANGED <<pc, fkey, flist, ftodo>>,
           InFiles' => Leftovers \subseteq todo'
    PROVE  PartsTracked'
<1>1. fkey \in Keys /\ PartsTracked
  BY ArchFacts
<1>2. Leftovers' = Leftovers
  BY DEF SameParts, Leftovers
<1>3. Parts(fkey)' = Parts(fkey)
  BY <1>1 DEF SameParts
<1> QED BY <1>1, <1>2, <1>3 DEF PartsTracked

LEMMA BeginBatchKeeps == ASSUME ArchInv, BeginBatch PROVE Kept
<1>1. /\ stream \in {"closed", "open"} /\ stream' \in {"open", "closing"}
      /\ stream = "open" => stream' = "closing"
      /\ op \in {"none", "flush"} /\ batch' = TRUE /\ buffers' = NoRows
      /\ counters' = [k \in Keys |-> 0] /\ active' = {}
      /\ UNCHANGED <<storeVars, arrived, flight, op, step, todo, running, halfWritten>>
  BY DEF BeginBatch, vars
<1>2. DiskInv' /\ SameRows /\ SameParts /\ UNCHANGED <<pc, fkey, flist, ftodo>>
  BY <1>1, StoreAlone, ArchFacts
<1>3. /\ PendingRows' \subseteq PendingRows
      /\ buffers' \in [Keys -> File] /\ flight' \in [Keys -> File]
  BY <1>1, MemDropped, ArchFacts
<1>4. RowStep
  <2>1. Discards
    BY <1>1, <1>2, <1>3 DEF Discards, SameRows, Session
  <2> QED BY <2>1 DEF RowStep
<1>5. ArchTypeOK'
  BY <1>1, <1>2, <1>3, BoundsAssumption DEF ArchInv, CallInv, DiskInv, StoreInv, ArchTypeOK, InFiles
<1>6. LockInv'
  BY <1>1 DEF ArchInv, CallInv, LockInv
<1>7. PartsTracked'
  BY <1>1, <1>2, TrackedAlone DEF InFiles
<1> QED BY <1>2, <1>4, <1>5, <1>6, <1>7, KeptIs

LEMMA AddRowKeeps == ASSUME ArchInv, NEW k \in Keys, AddRow(k) PROVE Kept
<1>1. /\ stream = "open" /\ arrived < MaxRow /\ arrived' = arrived + 1
      /\ buffers' = [buffers EXCEPT ![k] = Append(@, arrived')]
      /\ active' = active \cup {k}
      /\ UNCHANGED <<storeVars, batch, flight, counters, op, step, todo, stream, running,
                     halfWritten>>
  BY DEF AddRow, callVars
<1>2. arrived \in Nat /\ MaxRow \in Nat /\ arrived' \in Nat
  BY <1>1, ArchFacts, BoundsAssumption
<1>3. DiskInv' /\ SameRows /\ SameParts /\ UNCHANGED <<pc, fkey, flist, ftodo>>
  BY <1>1, <1>2, StoreAlone
<1>4. PendingRows' = PendingRows \cup {arrived'} /\ buffers' \in [Keys -> File]
  BY <1>1, <1>2, MemAdded, ArchFacts
<1>5. op \notin {"prepare", "finalize", "shutdown"}
  BY <1>1 DEF ArchInv, CallInv, LockInv
<1>6. RowStep
  <2>1. Accepts
    BY <1>1, <1>2, <1>3, <1>4, <1>5 DEF Accepts, SameRows, Session
  <2> QED BY <2>1 DEF RowStep
<1>7. ArchTypeOK'
  BY <1>1, <1>3, <1>4 DEF ArchInv, CallInv, DiskInv, StoreInv, ArchTypeOK, InFiles
<1>8. LockInv'
  BY <1>1, <1>5 DEF ArchInv, CallInv, LockInv
<1>9. PartsTracked'
  BY <1>1, <1>3, <1>5, TrackedAlone DEF InFiles
<1> QED BY <1>3, <1>6, <1>7, <1>8, <1>9, KeptIs

(* Steps of the callers, and the ends of calls that leave rows and parts   *)
(* where they are.                                                         *)
LEMMA QuietKeeps ==
    ASSUME ArchInv, UNCHANGED <<storeVars, arrived, buffers, flight, counters, halfWritten>>,
           active' \subseteq Keys, todo' \subseteq todo,
           batch' \in BOOLEAN, running' \in BOOLEAN,
           \/ UNCHANGED <<op, step>> /\ (op = "finalize" => stream' = stream)
              /\ (InFiles => todo' = todo \/ (Leftovers \subseteq todo' /\ pc = "idle"))
           \/ op' = "none" /\ flight = NoRows /\ pc = "idle" /\ UNCHANGED step,
           stream' = stream \/ stream' = "closed"
              \/ (stream = "open" /\ stream' = "closing" /\ op # "prepare")
    PROVE  Kept
<1>1. DiskInv' /\ SameRows /\ SameParts /\ UNCHANGED <<pc, fkey, flist, ftodo>>
  BY StoreAlone, ArchFacts
<1>2. PendingRows' = PendingRows
  BY MemSame
<1>3. RowStep
  <2>1. op = "prepare" => stream = "closed"
    BY DEF ArchInv, CallInv, LockInv
  <2>2. Session' = Session \/ (Session \in {"open", "recovering"} /\ Session' = "closed")
    BY <2>1 DEF Session
  <2>3. Quiet
    BY <1>1, <1>2, <2>2 DEF Quiet, SameRows
  <2> QED BY <2>3 DEF RowStep
<1>4. ArchTypeOK'
  <2>2. pc' # "idle" => InFiles' /\ fkey' \in todo'
    BY <1>1, ArchFacts DEF InFiles
  <2> QED BY <1>1, <2>2 DEF ArchInv, CallInv, DiskInv, StoreInv, ArchTypeOK
<1>5. LockInv'
  BY DEF ArchInv, CallInv, LockInv, ArchTypeOK
<1>6. PartsTracked'
  <2>1. InFiles' => Leftovers \subseteq todo'
    BY DEF InFiles, ArchInv, CallInv, PartsTracked
  <2> QED BY <1>1, <2>1, TrackedAlone
<1> QED BY <1>1, <1>3, <1>4, <1>5, <1>6, KeptIs

LEMMA QuietActionsKeep ==
    ASSUME ArchInv,
           \/ StopStream \/ StopRequested \/ FlushEnd \/ FinalizeEnd \/ PrepareEnd
           \/ \E k \in Keys : SkipPartition(k)
    PROVE  Kept
<1> USE DEF vars
<1>1. CASE StopStream
  <2>1. op \notin {"prepare", "finalize"}
    BY <1>1 DEF StopStream, ArchInv, CallInv, LockInv
  <2> QED BY <1>1, <2>1, QuietKeeps, ArchFacts DEF StopStream, ArchTypeOK
<1>2. CASE StopRequested
  BY <1>2, QuietKeeps, ArchFacts DEF StopRequested, ArchTypeOK
<1>3. CASE FlushEnd
  <2>1. ~InFiles
    BY <1>3 DEF FlushEnd, InFiles
  <2> QED BY <1>3, <2>1, QuietKeeps, ArchFacts DEF FlushEnd, callVars, ArchTypeOK
<1>4. CASE FinalizeEnd
  <2>1. flight = NoRows /\ pc = "idle"
    BY <1>4 DEF FinalizeEnd, FilesDone, InFiles, ArchInv, CallInv, LockInv
  <2> QED BY <1>4, <2>1, QuietKeeps, ArchFacts DEF FinalizeEnd, ArchTypeOK
<1>5. CASE PrepareEnd
  <2>1. flight = NoRows /\ pc = "idle"
    BY <1>5 DEF PrepareEnd, FilesDone, ArchInv, CallInv, LockInv
  <2> QED BY <1>5, <2>1, QuietKeeps, ArchFacts DEF PrepareEnd, callVars, ArchTypeOK
<1>6. ASSUME NEW k \in Keys, SkipPartition(k) PROVE Kept
  <2>1. Leftovers \subseteq todo'
    BY <1>6, ArchFacts DEF SkipPartition, Leftovers, PartsTracked
  <2> QED BY <1>6, <2>1, QuietKeeps, ArchFacts DEF SkipPartition, callVars, ArchTypeOK
<1> QED BY <1>1, <1>2, <1>3, <1>4, <1>5, <1>6

(* The worker of a flush, or of a finalize(), gets the buffers. *)
LEMMA HandOverKeeps ==
    ASSUME ArchInv, FlushStart \/ FinalizeStart \/ ShutdownStart PROVE Kept
<1>1. /\ op = "none" /\ op' \in {"flush", "finalize", "shutdown"} /\ step' = "write"
      /\ flight' = buffers /\ buffers' = NoRows
      /\ op' = "flush" => stream' = stream
      /\ op' = "finalize" => stream' = stream /\ stream = "closing"
      /\ op' = "shutdown" => stream' = "closed"
      /\ UNCHANGED <<storeVars, arrived, batch, counters, active, todo, running, halfWritten>>
  BY DEF FlushStart, FinalizeStart, ShutdownStart, Finalizing, LockFree, vars, callVars
<1>2. flight = NoRows /\ pc = "idle"
  BY <1>1, ArchFacts DEF InFiles
<1>3. DiskInv' /\ SameRows /\ SameParts /\ UNCHANGED <<pc, fkey, flist, ftodo>>
  BY <1>1, StoreAlone, ArchFacts
<1>4. PendingRows' = PendingRows /\ buffers' \in [Keys -> File] /\ flight' \in [Keys -> File]
  BY <1>1, <1>2, MemHandedOver, ArchFacts
<1>5. RowStep
  <2>1. Session' = Session \/ (Session = "open" /\ Session' = "closed")
    BY <1>1, ArchFacts DEF Session, ArchTypeOK
  <2>2. Quiet
    BY <1>1, <1>3, <1>4, <2>1 DEF Quiet, SameRows
  <2> QED BY <2>2 DEF RowStep
<1>6. ArchTypeOK'
  <2>1. stream' \in {"closed", "open", "closing"}
    BY <1>1, ArchFacts DEF ArchTypeOK
  <2> QED BY <1>1, <1>2, <1>3, <1>4, <2>1, ArchFacts DEF DiskInv, StoreInv, ArchTypeOK
<1>7. LockInv'
  BY <1>1 DEF LockInv
<1>8. PartsTracked'
  BY <1>1, <1>3, TrackedAlone DEF InFiles
<1> QED BY <1>3, <1>5, <1>6, <1>7, <1>8, KeptIs

LEMMA ListPartitionsKeeps == ASSUME ArchInv, ListPartitions PROVE Kept
<1>1. /\ op \in {"finalize", "shutdown"} /\ step = "write" /\ flight = NoRows
      /\ step' = "files" /\ todo' = active \cup Leftovers
      /\ UNCHANGED <<storeVars, arrived, batch, buffers, flight, counters, active, op, stream,
                     running, halfWritten>>
  BY DEF ListPartitions, FinalizeKeys, vars, callVars
<1>2. pc = "idle"
  BY <1>1, ArchFacts DEF InFiles
<1>3. DiskInv' /\ SameRows /\ SameParts /\ UNCHANGED <<pc, fkey, flist, ftodo>>
  BY <1>1, StoreAlone, ArchFacts
<1>4. RowStep
  <2>1. Quiet
    BY <1>1, <1>3, MemSame DEF Quiet, SameRows, Session
  <2> QED BY <2>1 DEF RowStep
<1>5. ArchTypeOK'
  BY <1>1, <1>2, <1>3, ArchFacts DEF DiskInv, StoreInv, ArchTypeOK, Leftovers
<1>6. LockInv'
  BY <1>1, ArchFacts DEF LockInv
<1>7. PartsTracked'
  BY <1>1, <1>3, TrackedAlone
<1> QED BY <1>3, <1>4, <1>5, <1>6, <1>7, KeptIs

(* The process ends, whatever a last write had put on disk. *)
LEMMA ProcessGoneKeeps ==
    ASSUME ArchInv, ProcessGone, DiskInv', pc' = "idle", halfWritten' \in BOOLEAN,
           NEW R \in SUBSET PendingRows, DiskRows' = DiskRows \cup R
    PROVE  Kept
<1>1. /\ batch' = FALSE /\ buffers' = NoRows /\ flight' = NoRows
      /\ counters' = [k \in Keys |-> 0] /\ active' = {}
      /\ op' = "prepare" /\ step' = "files" /\ todo' = Leftovers'
      /\ stream' = "closed" /\ running' = TRUE /\ arrived' = arrived
  BY DEF ProcessGone
<1>2. PendingRows' = {} /\ buffers' \in [Keys -> File] /\ flight' \in [Keys -> File]
  BY <1>1, MemDropped, ArchFacts
<1>3. RowStep
  <2>1. Dies(R)
    BY <1>1, <1>2 DEF Dies, Session
  <2> QED BY <2>1 DEF RowStep
<1>4. ArchTypeOK'
  <2>1. counters' \in [Keys -> 0..MaxPart]
    BY <1>1, BoundsAssumption
  <2>2. todo' \subseteq Keys
    BY <1>1 DEF Leftovers
  <2>3. TypeOK'
    BY DEF DiskInv, StoreInv
  <2> QED BY <1>1, <1>2, <2>1, <2>2, <2>3 DEF ArchTypeOK
<1>5. LockInv'
  BY <1>1 DEF LockInv
<1>6. PartsTracked'
  BY <1>1 DEF PartsTracked
<1> QED BY <1>3, <1>4, <1>5, <1>6, KeptIs

(* A write that raises, after a part may have appeared all the same. *)
LEMMA WriteRaisesKeeps ==
    ASSUME ArchInv, WriteRaises, step = "write", DiskInv',
           UNCHANGED <<pc, fkey, flist, ftodo>>, halfWritten' \in BOOLEAN,
           NEW R \in SUBSET PendingRows, DiskRows' = DiskRows \cup R
    PROVE  Kept
<1>1. CASE op = "shutdown" /\ ProcessGone
  <2>1. pc = "idle"
    BY ArchFacts DEF InFiles
  <2> QED BY <1>1, <2>1, ProcessGoneKeeps
<1>2. CASE /\ CallRaises
           /\ op' = "none"
           /\ buffers' = [k \in Keys |-> Restored(k)]
           /\ flight' = NoRows
           /\ UNCHANGED <<arrived, batch, counters, active, step, todo>>
  <2>1. /\ op \in {"flush", "finalize"} /\ running' \in BOOLEAN
        /\ stream' = stream \/ (stream = "closing" /\ stream' = "closed")
    BY <1>2, ArchFacts DEF CallRaises, LockInv, ArchTypeOK
  <2>2. /\ PendingRows' = PendingRows
        /\ buffers' \in [Keys -> File] /\ flight' \in [Keys -> File]
    BY <1>2, MemRestored, ArchFacts
  <2>3. pc' = "idle"
    BY ArchFacts DEF InFiles
  <2>4. RowStep
    <3>1. Persists(R)
      BY <1>2, <2>1, <2>2 DEF Persists, Session
    <3> QED BY <3>1 DEF RowStep
  <2>5. ArchTypeOK'
    <3>1. stream' \in {"closed", "open", "closing"}
      BY <2>1, ArchFacts DEF ArchTypeOK
    <3> QED BY <1>2, <2>1, <2>2, <2>3, <3>1, ArchFacts DEF DiskInv, StoreInv, ArchTypeOK
  <2>6. LockInv'
    BY <1>2 DEF LockInv
  <2>7. PartsTracked'
    BY <1>2, <2>3 DEF PartsTracked, InFiles
  <2> QED BY <2>4, <2>5, <2>6, <2>7, KeptIs
<1> QED BY <1>1, <1>2 DEF WriteRaises

LEMMA WrittenRows ==
    ASSUME ArchInv, NEW k \in Keys, Writing(k)
    PROVE  /\ op \in {"flush", "finalize", "shutdown"} /\ step = "write" /\ pc = "idle"
           /\ flight[k] \in File /\ RowsOf(flight[k]) \in SUBSET PendingRows
           /\ RowsOf(flight[k]) \subseteq Nat
  BY ArchFacts, FileFacts DEF Writing, InFiles, ArchTypeOK, PendingRows

(* The part of k that WritePart and WriteFailsLate put on disk. *)
LEMMA PartAppears ==
    ASSUME ArchInv, NEW k \in Keys, NEW i \in PartId, staging[k][i] = NoFile, Writing(k),
           staging' = [staging EXCEPT ![k][i] = flight[k]],
           staged' \in {staged, [staged EXCEPT ![k] = staged[k] \cup RowsOf(flight[k])]},
           UNCHANGED <<base, segs, tmp, unsynced, finVars>>,
           torn' = (torn \/ Debris(k)), arrived' = arrived, crashes' \in Nat
    PROVE  /\ DiskInv' /\ DiskRows' = DiskRows \cup RowsOf(flight[k])
           /\ Parts(k)' = Parts(k) \cup {i} /\ i \notin Parts(k)
           /\ staging'[k][i] = flight[k] /\ \A j \in Parts(k) : staging'[k][j] = staging[k][j]
           /\ StagedRows(k)' = StagedRows(k) \cup RowsOf(flight[k])
           /\ \A q \in Keys \ {k} : /\ staging'[q] = staging[q] /\ Parts(q)' = Parts(q)
                                    /\ StagedRows(q)' = StagedRows(q)
           /\ \A q \in Keys : Finals(q)' = Finals(q)
           /\ UNCHANGED <<pc, fkey, flist, ftodo>>
<1> DEFINE rows == flight[k]
<1>1. rows \in File /\ RowsOf(rows) \subseteq Nat /\ DiskInv /\ arrived' \in Nat
      /\ staged \in [Keys -> SUBSET Nat]
  BY WrittenRows, ArchFacts DEF TypeOK, Row
<1>2. torn' \in BOOLEAN
  BY Zenon
<1>3. staged' \in [Keys -> SUBSET Row]
  BY <1>1 DEF Row
<1>4. \A q \in Keys : staged'[q] \subseteq
          staged[q] \cup (IF q = k THEN RowsOf(rows) ELSE {})
  BY <1>1
<1>5. UNCHANGED <<pc, fkey, flist, ftodo>>
  BY DEF finVars
<1> HIDE DEF rows
<1>6. staging' = [staging EXCEPT ![k][i] = rows]
  BY DEF rows
<1>7. /\ DiskInv' /\ DiskRows' = DiskRows \cup RowsOf(rows)
      /\ Parts(k)' = Parts(k) \cup {i} /\ i \notin Parts(k)
      /\ staging'[k][i] = rows /\ \A j \in Parts(k) : staging'[k][j] = staging[k][j]
      /\ StagedRows(k)' = StagedRows(k) \cup RowsOf(rows)
      /\ \A q \in Keys \ {k} : /\ staging'[q] = staging[q] /\ Parts(q)' = Parts(q)
                               /\ StagedRows(q)' = StagedRows(q)
      /\ \A q \in Keys : Finals(q)' = Finals(q)
  BY <1>1, <1>2, <1>3, <1>4, <1>6, PartDisk
<1> QED BY <1>5, <1>7 DEF rows

LEMMA WritePartAppears ==
    ASSUME ArchInv, NEW k \in Keys, WritePart(k)
    PROVE  LET i == NextPartIndex(k) IN
           /\ i \in PartId /\ staging[k][i] = NoFile /\ Writing(k)
           /\ staging' = [staging EXCEPT ![k][i] = flight[k]]
           /\ staged' \in {staged, [staged EXCEPT ![k] = staged[k] \cup RowsOf(flight[k])]}
           /\ UNCHANGED <<base, segs, tmp, unsynced, finVars>>
           /\ torn' = (torn \/ Debris(k)) /\ arrived' = arrived /\ crashes' \in Nat
           /\ counters' = [counters EXCEPT ![k] = i]
           /\ flight' = [flight EXCEPT ![k] = <<>>]
           /\ UNCHANGED <<batch, buffers, active, op, step, todo, stream, running, halfWritten>>
  BY ArchFacts DEF WritePart, WriteStagingPart, AfterWrite, callVars

LEMMA WritePartKeeps == ASSUME ArchInv, NEW k \in Keys, WritePart(k) PROVE Kept
<1> DEFINE i == NextPartIndex(k)
<1>1. /\ i \in PartId /\ staging[k][i] = NoFile /\ Writing(k)
      /\ staging' = [staging EXCEPT ![k][i] = flight[k]]
      /\ staged' \in {staged, [staged EXCEPT ![k] = staged[k] \cup RowsOf(flight[k])]}
      /\ UNCHANGED <<base, segs, tmp, unsynced, finVars>>
      /\ torn' = (torn \/ Debris(k)) /\ arrived' = arrived /\ crashes' \in Nat
      /\ counters' = [counters EXCEPT ![k] = i]
      /\ flight' = [flight EXCEPT ![k] = <<>>]
      /\ UNCHANGED <<batch, buffers, active, op, step, todo, stream, running, halfWritten>>
  BY WritePartAppears
<1> HIDE DEF i
<1>2. /\ DiskInv' /\ DiskRows' = DiskRows \cup RowsOf(flight[k])
      /\ UNCHANGED <<pc, fkey, flist, ftodo>>
  BY <1>1, PartAppears
<1>3. /\ RowsOf(flight[k]) \in SUBSET PendingRows
      /\ PendingRows' \subseteq PendingRows
      /\ PendingRows \subseteq PendingRows' \cup RowsOf(flight[k])
      /\ flight' \in [Keys -> File]
  BY <1>1, MemWritten, ArchFacts
<1>4. op \in {"flush", "finalize", "shutdown"} /\ step = "write" /\ pc = "idle"
  BY <1>1, WrittenRows
<1>5. RowStep
  <2>1. Persists(RowsOf(flight[k]))
    BY <1>1, <1>2, <1>3 DEF Persists, Session
  <2> QED BY <1>3, <2>1 DEF RowStep
<1>6. ArchTypeOK'
  <2>1. counters' \in [Keys -> 0..MaxPart]
    BY <1>1, BoundsAssumption, ArchFacts DEF ArchTypeOK, PartId
  <2> QED BY <1>1, <1>2, <1>3, <1>4, <2>1, ArchFacts DEF DiskInv, StoreInv, ArchTypeOK
<1>7. LockInv'
  BY <1>1, <1>4, ArchFacts DEF LockInv
<1>8. PartsTracked'
  BY <1>1, <1>2, <1>4 DEF PartsTracked, InFiles
<1> QED BY <1>2, <1>5, <1>6, <1>7, <1>8, KeptIs

LEMMA FailedWritesKeep ==
    ASSUME ArchInv, NEW k \in Keys, WriteRefused(k) \/ WriteFails(k) \/ WriteFailsLate(k)
    PROVE  Kept
<1>0. arrived' = arrived
  BY DEF WriteRefused, WriteFails, WriteFailsLate, WriteRaises, ProcessGone
<1>1. CASE WriteRefused(k)
  <2>1. /\ UNCHANGED storeVars /\ halfWritten' = halfWritten /\ Writing(k) /\ WriteRaises
    BY <1>1 DEF WriteRefused
  <2>2. DiskInv' /\ SameRows /\ UNCHANGED <<pc, fkey, flist, ftodo>>
    BY <1>0, <2>1, StoreAlone, ArchFacts
  <2>3. DiskRows' = DiskRows \cup {} /\ {} \in SUBSET PendingRows
    BY <2>2 DEF SameRows
  <2>4. step = "write" /\ halfWritten' \in BOOLEAN
    BY <2>1, WrittenRows, ArchFacts DEF ArchTypeOK
  <2> QED BY <2>1, <2>2, <2>3, <2>4, WriteRaisesKeeps
<1>2. CASE WriteFails(k)
  <2>1. /\ UNCHANGED <<diskVars, finVars, staged, torn>> /\ halfWritten' = halfWritten
        /\ crashes' = crashes + 1 /\ Writing(k) /\ WriteRaises
    BY <1>2 DEF WriteFails
  <2>2. crashes' \in Nat /\ arrived' \in Nat
    BY <1>0, <2>1, ArchFacts
  <2>3. DiskInv' /\ SameRows
    BY <2>1, <2>2, DiskQuiet, ArchFacts
  <2>4. UNCHANGED <<pc, fkey, flist, ftodo>>
    BY <2>1 DEF finVars
  <2>5. DiskRows' = DiskRows \cup {} /\ {} \in SUBSET PendingRows
    BY <2>3 DEF SameRows
  <2>6. step = "write" /\ halfWritten' \in BOOLEAN
    BY <2>1, WrittenRows, ArchFacts DEF ArchTypeOK
  <2> QED BY <2>1, <2>3, <2>4, <2>5, <2>6, WriteRaisesKeeps
<1>3. CASE WriteFailsLate(k)
  <2> DEFINE i == NextPartIndex(k)
  <2>1. /\ Writing(k) /\ i \in PartId \ Parts(k) /\ crashes' = crashes + 1
        /\ staging' = [staging EXCEPT ![k][i] = flight[k]] /\ staged' = staged
        /\ torn' = (torn \/ Debris(k)) /\ halfWritten' = TRUE
        /\ UNCHANGED <<base, segs, tmp, unsynced, finVars>> /\ WriteRaises
    BY <1>3 DEF WriteFailsLate
  <2> HIDE DEF i
  <2>2. i \in PartId /\ staging[k][i] = NoFile /\ crashes' \in Nat
    BY <2>1, ArchFacts DEF Parts
  <2>3. /\ DiskInv' /\ DiskRows' = DiskRows \cup RowsOf(flight[k])
        /\ UNCHANGED <<pc, fkey, flist, ftodo>>
    BY <1>0, <2>1, <2>2, PartAppears
  <2>4. step = "write" /\ RowsOf(flight[k]) \in SUBSET PendingRows
    BY <2>1, WrittenRows
  <2> QED BY <2>1, <2>3, <2>4, WriteRaisesKeeps
<1> QED BY <1>1, <1>2, <1>3

-----------------------------------------------------------------------------
(* The steps of store.finalize(). *)
LEMMA StoreStepKeeps ==
    ASSUME ArchInv, DiskInv', SameRows, UNCHANGED <<arrived, archVars>>,
           pc' # "idle" => InFiles /\ fkey' \in todo, PartsTracked'
    PROVE  Kept
<1>1. UNCHANGED <<batch, buffers, flight, counters, active, op, step, todo, stream, running,
                  halfWritten>>
  BY DEF archVars
<1>2. RowStep
  <2>1. Quiet
    BY <1>1, MemSame DEF Quiet, SameRows, Session
  <2> QED BY <2>1 DEF RowStep
<1>3. ArchTypeOK'
  BY <1>1, ArchFacts DEF DiskInv, StoreInv, ArchTypeOK, InFiles
<1>4. LockInv'
  BY <1>1, ArchFacts DEF LockInv
<1> QED BY <1>2, <1>3, <1>4, KeptIs

LEMMA FinalizePartitionKeeps == ASSUME ArchInv, NEW k \in Keys, FinalizePartition(k) PROVE Kept
<1>1. /\ InFiles /\ k \in todo /\ StartFinalize(k) /\ UNCHANGED <<arrived, archVars>>
      /\ pc' = "merge" /\ fkey' = k /\ flist' = Parts(k) /\ staging' = staging
  BY DEF FinalizePartition, StartFinalize
<1>2. DiskInv' /\ SameRows /\ SameParts
  BY <1>1, StartDisk, ArchFacts
<1>3. PartsTracked'
  <2>1. Leftovers' = Leftovers /\ todo' = todo /\ Parts(fkey)' = Parts(k) /\ (InFiles' => InFiles)
    BY <1>1, <1>2 DEF Leftovers, SameParts, archVars, InFiles
  <2> QED BY <1>1, <2>1, ArchFacts DEF PartsTracked
<1> QED BY <1>1, <1>2, <1>3, StoreStepKeeps

LEMMA PartitionStepKeeps == ASSUME ArchInv, PartitionStep PROVE Kept
<1>1. UNCHANGED <<arrived, archVars>> /\ fkey \in Keys /\ DiskInv /\ PartsTracked
      /\ todo' = todo /\ (InFiles' <=> InFiles)
  BY ArchFacts DEF PartitionStep, archVars, InFiles
<1>2. CASE MergePart
  <2>1. DiskInv' /\ SameRows /\ SameParts
    BY <1>1, <1>2, MergeDisk
  <2>2. pc = "merge" /\ pc' = "merge" /\ UNCHANGED <<fkey, flist>>
    BY <1>2 DEF MergePart
  <2>3. PartsTracked'
    <3>1. Leftovers' = Leftovers /\ Parts(fkey)' = Parts(fkey)
      BY <1>1, <2>1, <2>2 DEF Leftovers, SameParts
    <3> QED BY <1>1, <2>2, <3>1 DEF PartsTracked
  <2> QED BY <1>1, <2>1, <2>2, <2>3, StoreStepKeeps, ArchFacts
<1>3. CASE Publish
  <2>1. DiskInv' /\ SameRows /\ SameParts
    BY <1>1, <1>3, PublishDisk
  <2>2. pc = "merge" /\ pc' = "sync" /\ UNCHANGED <<fkey, flist>> /\ ftodo' = flist
    BY <1>3 DEF Publish, CleanupParts
  <2>3. PartsTracked'
    <3>1. Leftovers' = Leftovers /\ Parts(fkey)' = Parts(fkey)
      BY <1>1, <2>1, <2>2 DEF Leftovers, SameParts
    <3> QED BY <1>1, <2>2, <3>1 DEF PartsTracked
  <2> QED BY <1>1, <2>1, <2>2, <2>3, StoreStepKeeps, ArchFacts
<1>4. CASE SyncDirectory
  <2>1. DiskInv' /\ SameRows /\ SameParts
    BY <1>1, <1>4, SyncDisk
  <2>2. pc = "sync" /\ pc' = "cleanup" /\ UNCHANGED <<fkey, flist, ftodo>>
    BY <1>4 DEF SyncDirectory
  <2>3. PartsTracked'
    <3>1. Leftovers' = Leftovers /\ Parts(fkey)' = Parts(fkey)
      BY <1>1, <2>1, <2>2 DEF Leftovers, SameParts
    <3> QED BY <1>1, <2>2, <3>1 DEF PartsTracked
  <2> QED BY <1>1, <2>1, <2>2, <2>3, StoreStepKeeps, ArchFacts
<1>5. CASE UnlinkPart
  <2>1. /\ DiskInv' /\ SameRows /\ FewerParts
        /\ Parts(fkey)' = Parts(fkey) \ {Lowest(ftodo)}
    BY <1>1, <1>5, UnlinkDisk
  <2>2. pc = "cleanup" /\ pc' = "cleanup" /\ UNCHANGED <<fkey, flist>>
        /\ ftodo' = ftodo \ {Lowest(ftodo)}
    BY <1>5 DEF UnlinkPart
  <2>3. PartsTracked'
    <3>1. Leftovers' \subseteq Leftovers
      BY <2>1 DEF Leftovers, FewerParts
    <3> QED BY <1>1, <2>1, <2>2, <3>1 DEF PartsTracked
  <2> QED BY <1>1, <2>1, <2>2, <2>3, StoreStepKeeps, ArchFacts
<1> QED BY <1>2, <1>3, <1>4, <1>5 DEF PartitionStep

LEMMA PartitionDoneKeeps == ASSUME ArchInv, PartitionDone PROVE Kept
<1>1. /\ EndFinalize /\ pc = "cleanup" /\ ftodo = {} /\ pc' = "idle" /\ fkey' = fkey
      /\ todo' = todo \ {fkey}
      /\ UNCHANGED <<arrived, batch, buffers, flight, counters, active, op, step, stream, running,
                     halfWritten>>
  BY DEF PartitionDone, EndFinalize, callVars
<1>2. DiskInv' /\ SameRows /\ SameParts
  BY <1>1, StopDisk, ArchFacts
<1>3. RowStep
  <2>1. Quiet
    BY <1>1, <1>2, MemSame DEF Quiet, SameRows, Session
  <2> QED BY <2>1 DEF RowStep
<1>4. ArchTypeOK'
  BY <1>1, <1>2, ArchFacts DEF DiskInv, StoreInv, ArchTypeOK, InFiles
<1>5. LockInv'
  BY <1>1, ArchFacts DEF LockInv
<1>6. PartsTracked'
  <2>1. Leftovers' = Leftovers
    BY <1>2 DEF Leftovers, SameParts
  <2>2. Parts(fkey) = {} /\ (InFiles => Leftovers \subseteq todo)
    BY <1>1, ArchFacts DEF PartsTracked
  <2>3. fkey \notin Leftovers
    BY <2>2 DEF Leftovers
  <2>4. InFiles' => InFiles
    BY <1>1 DEF InFiles
  <2> QED BY <1>1, <2>1, <2>2, <2>3, <2>4 DEF PartsTracked
<1> QED BY <1>2, <1>3, <1>4, <1>5, <1>6, KeptIs

LEMMA PartitionFailsKeeps == ASSUME ArchInv, PartitionFails PROVE Kept
<1>1. FailFinalize /\ pc' = "idle" /\ pc # "idle" /\ halfWritten' = halfWritten /\ arrived' = arrived
  BY DEF PartitionFails, FailFinalize, ProcessGone
<1>2. DiskInv' /\ SameRows /\ SameParts
  BY <1>1, StopDisk, ArchFacts
<1>3. halfWritten' \in BOOLEAN /\ DiskRows' = DiskRows \cup {} /\ {} \in SUBSET PendingRows
  BY <1>1, <1>2, ArchFacts DEF SameRows, ArchTypeOK
<1>4. CASE ProcessGone
  BY <1>1, <1>2, <1>3, <1>4, ProcessGoneKeeps
<1>5. CASE /\ op = "finalize" /\ CallRaises
           /\ op' = "none"
           /\ UNCHANGED <<arrived, batch, buffers, flight, counters, active, step, todo>>
  <2>1. stream' = "closed" /\ running' = running /\ stream = "closing" /\ step = "files"
        /\ flight = NoRows
    BY <1>1, <1>5, ArchFacts DEF CallRaises, LockInv, InFiles
  <2>2. RowStep
    <3>1. Quiet
      BY <1>1, <1>2, <1>5, <2>1, MemSame DEF Quiet, SameRows, Session
    <3> QED BY <3>1 DEF RowStep
  <2>3. ArchTypeOK'
    BY <1>1, <1>2, <1>5, <2>1, ArchFacts DEF DiskInv, StoreInv, ArchTypeOK
  <2>4. LockInv'
    BY <1>5, <2>1 DEF LockInv
  <2>5. PartsTracked'
    BY <1>1, <1>5 DEF PartsTracked, InFiles
  <2> QED BY <1>2, <2>2, <2>3, <2>4, <2>5, KeptIs
<1> QED BY <1>4, <1>5 DEF PartitionFails

(* The ends of the process. *)
LEMMA ProcessEndsKeep == ASSUME ArchInv, ShutdownNothing \/ ShutdownEnd \/ Crash PROVE Kept
<1>1. CASE ShutdownNothing \/ ShutdownEnd
  <2>1. UNCHANGED <<storeVars, halfWritten>> /\ ProcessGone /\ arrived' = arrived
    BY <1>1 DEF ShutdownNothing, ShutdownEnd, ProcessGone
  <2>2. pc = "idle"
    BY <1>1, ArchFacts DEF ShutdownNothing, ShutdownEnd, FilesDone, InFiles
  <2>3. DiskInv' /\ SameRows /\ pc' = pc
    BY <2>1, StoreAlone, ArchFacts
  <2>4. halfWritten' \in BOOLEAN /\ DiskRows' = DiskRows \cup {} /\ {} \in SUBSET PendingRows
    BY <2>1, <2>3, ArchFacts DEF SameRows, ArchTypeOK
  <2> QED BY <2>1, <2>2, <2>3, <2>4, ProcessGoneKeeps
<1>2. CASE Crash
  <2>1. CrashStore /\ ProcessGone /\ halfWritten' = halfWritten /\ arrived' = arrived /\ pc' = "idle"
    BY <1>2 DEF Crash, ProcessGone, CrashStore
  <2>2. DiskInv' /\ SameRows
    BY <2>1, CrashDisk, ArchFacts
  <2>3. halfWritten' \in BOOLEAN /\ DiskRows' = DiskRows \cup {} /\ {} \in SUBSET PendingRows
    BY <2>1, <2>2, ArchFacts DEF SameRows, ArchTypeOK
  <2> QED BY <2>1, <2>2, <2>3, ProcessGoneKeeps
<1> QED BY <1>1, <1>2

LEMMA ArchNextKeeps == ASSUME ArchInv, ArchNext PROVE Kept
<1>1. CASE ArchiverStep
  BY <1>1, QuietActionsKeep, HandOverKeeps, ListPartitionsKeeps, WritePartKeeps,
     FailedWritesKeep, FinalizePartitionKeeps, PartitionStepKeeps, PartitionDoneKeeps,
     ProcessEndsKeep DEF ArchiverStep
<1>2. CASE ~ArchiverStep
  BY <1>2, BeginBatchKeeps, QuietActionsKeep, AddRowKeeps, FailedWritesKeep,
     PartitionFailsKeeps, ProcessEndsKeep DEF ArchNext
<1> QED BY <1>1, <1>2

LEMMA ArchInitInv == ArchInit => ArchInv
<1> SUFFICES ASSUME ArchInit PROVE ArchInv
  OBVIOUS
<1>1. Init /\ buffers = NoRows /\ flight = NoRows
  BY DEF ArchInit
<1>2. StoreInv
  BY <1>1, StoreInvInit
<1>3. /\ \A k \in Keys : Parts(k) = {} /\ Finals(k) = {}
      /\ arrived = 0 /\ pc = "idle" /\ \A k \in Keys : unsynced[k] = {}
  BY <1>1 DEF Init, Parts, Finals
<1>4. PendingRows = {} /\ DiskRows = {}
  BY <1>1, <1>3, NoRowsFacts DEF PendingRows, DiskRows, StagedRows, FinalRows
<1>5. ArchTypeOK
  <2>1. counters \in [Keys -> 0..MaxPart]
    BY BoundsAssumption DEF ArchInit
  <2> QED BY <1>1, <1>2, <1>3, <2>1, NoRowsFacts DEF ArchInit, ArchTypeOK, StoreInv
<1>6. LockInv
  BY DEF ArchInit, LockInv
<1>7. RowsKnown
  BY <1>3, <1>4, BoundsAssumption DEF RowsKnown
<1>8. PartsTracked
  BY <1>3 DEF PartsTracked, Leftovers
<1>9. UnsyncedKept
  BY <1>3 DEF UnsyncedKept
<1> QED BY <1>2, <1>5, <1>6, <1>7, <1>8, <1>9 DEF ArchInv, DiskInv, CallInv

LEMMA ArchStutterKeeps == ASSUME ArchInv, UNCHANGED allVars PROVE Kept
  BY QuietKeeps, ArchFacts DEF allVars, vars, archVars, ArchTypeOK

LEMMA ArchStepKeeps == ASSUME ArchInv, [ArchNext]_allVars PROVE Kept
  BY ArchNextKeeps, ArchStutterKeeps

(* In every reachable state the store keeps its promises below the         *)
(* archiver, also for what a power loss may undo, and the call that holds  *)
(* the lock knows the parts it has still to finalize (archiver.py flush,   *)
(* finalize, prepare; parquet_store.py finalize).                          *)
THEOREM ArchInvHolds == ArchSpec => []ArchInv
<1>1. ArchInv /\ [ArchNext]_allVars => ArchInv'
  BY ArchStepKeeps DEF Kept
<1> QED BY <1>1, ArchInitInv, PTL DEF ArchSpec

(* The archiver's state keeps its type, and the store's; no row waits in   *)
(* the worker when no call is at work (archiver.py, parquet_store.py).     *)
THEOREM ArchiverTypeCorrect == ArchSpec => []ArchTypeOK
<1>1. ArchInv => ArchTypeOK
  BY DEF ArchInv, CallInv
<1> QED BY <1>1, ArchInvHolds, PTL

(* The row log is implemented, step by step: a row is lost only in memory, *)
(* and only when the process ends or begin_batch() drops what a failed     *)
(* finalize() left (archiver.py, parquet_store.py).                        *)
THEOREM RowLogHolds == ArchSpec => RowLogImplemented
<1>1. ArchInit => Log!LogInit
  <2> SUFFICES ASSUME ArchInit PROVE Log!LogInit
    OBVIOUS
  <2>1. arrived = 0 /\ op = "prepare" /\ ArchInv
    BY ArchInitInv DEF ArchInit, Init
  <2>2. PendingRows \cup DiskRows \subseteq {} /\ 1..arrived = {}
    BY <2>1 DEF ArchInv, CallInv, RowsKnown
  <2> QED BY <2>1, <2>2 DEF Log!LogInit
<1>2. ArchInv /\ [ArchNext]_allVars => [Log!LogNext]_(Log!logVars)
  BY ArchStepKeeps, RowStepIsLogStep DEF Kept, LogStep
<1> QED BY <1>1, <1>2, ArchInvHolds, PTL DEF ArchSpec, RowLogImplemented, Log!LogSpec

(* When finalize() ends a batch, or the process its last one, no row is in *)
(* memory and no staging part is left in any partition (archiver.py        *)
(* finalize, _finalize_locked).                                            *)
THEOREM FinalizeLeavesNothingHolds == ArchSpec => FinalizeLeavesNothing
<1>1. ASSUME ArchInv, FinalizeEnd \/ ShutdownEnd
      PROVE  buffers = NoRows /\ \A k \in Keys : Parts(k) = {}
  <2>1. FilesDone /\ op \in {"finalize", "shutdown"}
    BY <1>1 DEF FinalizeEnd, ShutdownEnd
  <2>2. Leftovers \subseteq {} /\ buffers = NoRows
    BY <1>1, <2>1, ArchFacts DEF FilesDone, PartsTracked, LockInv
  <2> QED BY <2>2 DEF Leftovers
<1>2. ArchInv => [FinalizeEnd \/ ShutdownEnd =>
                    /\ buffers = NoRows
                    /\ \A k \in Keys : Parts(k) = {}]_allVars
  BY <1>1
<1> QED BY <1>2, ArchInvHolds, PTL DEF FinalizeLeavesNothing

(* Rows that reached a staging part stay on disk, also under the archiver  *)
(* (parquet_store.py finalize).                                            *)
THEOREM ArchiverDurabilityHolds == ArchSpec => []StagedRowsDurable
<1>1. ArchInv => StagedRowsDurable
  BY DEF ArchInv, DiskInv, StoreInv
<1> QED BY <1>1, ArchInvHolds, PTL
-----------------------------------------------------------------------------
(* Order and uniqueness, while no failed write left its part behind.       *)

(* Files, parts and the file being merged are in order of arrival. *)
FilesOrdered ==
    \A k \in Keys :
        /\ \A f \in Finals(k) : Increasing(f)
        /\ \A i \in Parts(k) : Increasing(staging[k][i])
        /\ \A i, j \in Parts(k) : i < j => Before(RowsOf(staging[k][i]), RowsOf(staging[k][j]))
MergeOrdered ==
    pc = "merge" => /\ Increasing(tmp[fkey])
                    /\ \A i \in ftodo : Before(RowsOf(tmp[fkey]), RowsOf(staging[fkey][i]))
DiskOrdered == FilesOrdered /\ MergeOrdered

(* What waits in memory is later than the parts, and the next part index   *)
(* is above theirs.                                                        *)
MemOrdered ==
    \A k \in Keys :
        /\ Increasing(buffers[k]) /\ Increasing(flight[k])
        /\ Before(StagedRows(k), RowsOf(flight[k]))
        /\ Before(StagedRows(k), RowsOf(buffers[k]))
        /\ Before(RowsOf(flight[k]), RowsOf(buffers[k]))
        /\ counters[k] # 0 => \A i \in Parts(k) : i <= counters[k]

PartsDisjoint ==
    \A k \in Keys : \A i, j \in Parts(k) :
        i # j => RowsOf(staging[k][i]) \cap RowsOf(staging[k][j]) = {}
MemOnce ==
    \A k, q \in Keys :
        /\ RowsOf(flight[k]) \cap RowsOf(buffers[q]) = {}
        /\ k # q => /\ RowsOf(flight[k]) \cap RowsOf(flight[q]) = {}
                    /\ RowsOf(buffers[k]) \cap RowsOf(buffers[q]) = {}
Once == PendingRows \cap DiskRows = {} /\ PartsDisjoint /\ MemOnce

(* What a step does to the memory, writes apart. *)
MemStep ==
    \/ UNCHANGED <<buffers, flight, counters>>
    \/ /\ buffers' = NoRows /\ flight' \in {flight, NoRows}
       /\ counters' = [k \in Keys |-> 0]
    \/ \E k \in Keys : AddRow(k)
    \/ /\ flight = NoRows /\ flight' = buffers /\ buffers' = NoRows
       /\ UNCHANGED counters
    \/ /\ buffers' = [k \in Keys |-> Restored(k)] /\ flight' = NoRows
       /\ UNCHANGED counters

(* The same for the disk. *)
StoreIdle ==
    /\ UNCHANGED <<staging, base, segs, tmp>>
    /\ UNCHANGED <<pc, fkey, ftodo>> \/ pc' = "idle"
DiskStep ==
    \/ StoreIdle
    \/ /\ UNCHANGED arrived
       /\ \/ \E k \in Keys : StartFinalize(k)
          \/ MergePart \/ Publish \/ SyncDirectory \/ UnlinkPart \/ CrashStore

LEMMA StepKinds ==
    ASSUME [ArchNext]_allVars, ArchInv
    PROVE  \/ halfWritten' = TRUE
           \/ \E k \in Keys : WritePart(k) /\ halfWritten' = halfWritten
           \/ MemStep /\ DiskStep /\ halfWritten' = halfWritten
<1> USE DEF MemStep, DiskStep, StoreIdle
<1>1. ASSUME UNCHANGED storeVars PROVE StoreIdle
  BY <1>1 DEF storeVars, diskVars, finVars
<1>2. CASE UNCHANGED allVars
  BY <1>2 DEF allVars, vars, storeVars, diskVars, finVars, archVars
<1>3. CASE BeginBatch \/ StopStream \/ StopRequested \/ FlushEnd \/ FinalizeEnd \/ PrepareEnd
           \/ ListPartitions \/ \E k \in Keys : SkipPartition(k)
  BY <1>1, <1>3 DEF BeginBatch, StopStream, StopRequested, FlushEnd, FinalizeEnd, PrepareEnd,
     ListPartitions, SkipPartition, vars
<1>4. ASSUME NEW k \in Keys, AddRow(k) PROVE MemStep /\ DiskStep /\ halfWritten' = halfWritten
  BY <1>1, <1>4 DEF AddRow
<1>5. CASE FlushStart \/ FinalizeStart \/ ShutdownStart
  <2>1. flight = NoRows
    BY <1>5, ArchFacts DEF FlushStart, FinalizeStart, ShutdownStart, Finalizing, LockFree
  <2> QED BY <1>1, <1>5, <2>1 DEF FlushStart, FinalizeStart, ShutdownStart, Finalizing, vars
<1>6. CASE ShutdownNothing \/ ShutdownEnd
  BY <1>1, <1>6 DEF ShutdownNothing, ShutdownEnd, ProcessGone
<1>7. ASSUME NEW k \in Keys, WriteRefused(k) \/ WriteFails(k)
      PROVE  MemStep /\ DiskStep /\ halfWritten' = halfWritten
  <2>1. StoreIdle /\ halfWritten' = halfWritten /\ WriteRaises
    BY <1>1, <1>7 DEF WriteRefused, WriteFails, diskVars, finVars
  <2> QED BY <2>1 DEF WriteRaises, ProcessGone
<1>8. ASSUME NEW k \in Keys, WriteFailsLate(k) PROVE halfWritten' = TRUE
  BY <1>8 DEF WriteFailsLate
<1>9. ASSUME NEW k \in Keys, WritePart(k) PROVE halfWritten' = halfWritten
  BY <1>9 DEF WritePart
<1>10. CASE PartitionStep \/ PartitionDone \/ \E k \in Keys : FinalizePartition(k)
  BY <1>10 DEF PartitionStep, PartitionDone, FinalizePartition, EndFinalize, diskVars, archVars
<1>11. CASE PartitionFails
  BY <1>11 DEF PartitionFails, FailFinalize, diskVars, ProcessGone
<1>12. CASE Crash
  BY <1>12 DEF Crash, ProcessGone
<1> QED BY <1>2, <1>3, <1>4, <1>5, <1>6, <1>7, <1>8, <1>9, <1>10, <1>11, <1>12
     DEF ArchNext, ArchiverStep

(* Such a disk step takes nothing in and leaves the rows where they are.   *)
LEMMA SameStagingFewer == ASSUME UNCHANGED staging PROVE FewerParts
  BY DEF FewerParts, Parts, StagedRows

LEMMA DiskStepRows == ASSUME ArchInv, DiskStep PROVE SameRows /\ FewerParts
<1>1. CASE StoreIdle
  BY <1>1, SameDisk, SameStagingFewer DEF StoreIdle
<1>2. ASSUME NEW k \in Keys, StartFinalize(k), UNCHANGED arrived PROVE SameRows /\ FewerParts
  BY <1>2, StartDisk, SameStagingFewer, ArchFacts DEF StartFinalize
<1>3. CASE MergePart /\ UNCHANGED arrived
  BY <1>3, MergeDisk, SameStagingFewer, ArchFacts DEF MergePart
<1>4. CASE Publish /\ UNCHANGED arrived
  BY <1>4, PublishDisk, SameStagingFewer, ArchFacts DEF Publish
<1>5. CASE SyncDirectory /\ UNCHANGED arrived
  BY <1>5, SyncDisk, SameStagingFewer, ArchFacts DEF SyncDirectory
<1>6. CASE UnlinkPart /\ UNCHANGED arrived
  BY <1>6, UnlinkDisk, ArchFacts
<1>7. CASE CrashStore /\ UNCHANGED arrived
  BY <1>7, CrashDisk, SameStagingFewer, ArchFacts DEF CrashStore
<1> QED BY <1>1, <1>2, <1>3, <1>4, <1>5, <1>6, <1>7 DEF DiskStep

LEMMA FilesOrderedFewer ==
    ASSUME FilesOrdered, FewerParts, \A k \in Keys : \A f \in Finals(k)' : Increasing(f)
    PROVE  FilesOrdered'
  BY DEF FilesOrdered, FewerParts, Increasing

LEMMA DiskOrderedKept == ASSUME ArchInv, DiskOrdered, DiskStep PROVE DiskOrdered'
<1>1. /\ FewerParts /\ FilesOrdered /\ MergeOrdered /\ fkey \in Keys
      /\ \A k \in Keys : \A f \in Finals(k) : Increasing(f)
  BY DiskStepRows, ArchFacts DEF DiskOrdered, FilesOrdered
<1>2. ASSUME UNCHANGED <<base, segs>> PROVE FilesOrdered'
  BY <1>1, <1>2, FilesOrderedFewer DEF Finals
<1>3. CASE StoreIdle
  <2>1. MergeOrdered'
    BY <1>1, <1>3 DEF StoreIdle, MergeOrdered, Before, Increasing
  <2> QED BY <1>2, <1>3, <2>1 DEF StoreIdle, DiskOrdered
<1>4. ASSUME NEW k \in Keys, StartFinalize(k) PROVE DiskOrdered'
  <2>1. tmp'[fkey'] = <<>> /\ UNCHANGED <<base, segs>>
    BY <1>4, ArchFacts DEF StartFinalize, TypeOK
  <2>2. MergeOrdered'
    BY <2>1, EmptyFile DEF MergeOrdered, Before, Increasing
  <2> QED BY <1>2, <2>1, <2>2 DEF DiskOrdered
<1>5. CASE MergePart
  <2> DEFINE i == Lowest(ftodo)
  <2>1. /\ UNCHANGED <<staging, base, segs, fkey>> /\ pc = "merge" /\ i \in ftodo /\ i \in PartId
        /\ tmp' = [tmp EXCEPT ![fkey] = tmp[fkey] \o staging[fkey][i]]
        /\ ftodo' = ftodo \ {i} /\ ftodo \subseteq Parts(fkey)
    BY <1>5, NextPartListed, ArchFacts DEF MergePart, FinalizeCovered, TypeOK
  <2>2. \A j \in ftodo' : i < j
    <3>1. ftodo \subseteq Nat /\ ftodo \subseteq PartId
      BY <2>1, BoundsAssumption DEF Parts, PartId
    <3>2. \A j \in ftodo : i <= j
      BY <2>1, <3>1, LowestIsLeast
    <3>3. i \in Nat /\ \A j \in ftodo' : j \in Nat /\ j \in ftodo /\ j # i
      BY <2>1, <3>1
    <3> HIDE DEF i
    <3> QED BY <3>2, <3>3
  <2> HIDE DEF i
  <2>3. tmp[fkey] \in File /\ staging[fkey][i] \in File /\ i \in Parts(fkey)
    BY <2>1, ArchFacts, PartRows DEF FinalizeCovered, TypeOK
  <2>4. /\ Increasing(tmp[fkey]) /\ Increasing(staging[fkey][i])
        /\ Before(RowsOf(tmp[fkey]), RowsOf(staging[fkey][i]))
    BY <1>1, <2>1, <2>3 DEF FilesOrdered, MergeOrdered
  <2>5. /\ tmp'[fkey] = tmp[fkey] \o staging[fkey][i] /\ Increasing(tmp'[fkey])
        /\ RowsOf(tmp'[fkey]) = RowsOf(tmp[fkey]) \cup RowsOf(staging[fkey][i])
    BY <1>1, <2>1, <2>3, <2>4, ConcatFiles, ArchFacts DEF TypeOK
  <2>6. ASSUME NEW j \in ftodo' PROVE Before(RowsOf(tmp'[fkey]), RowsOf(staging[fkey][j]))
    <3>1. Before(RowsOf(tmp[fkey]), RowsOf(staging[fkey][j]))
      BY <1>1, <2>1 DEF MergeOrdered
    <3>2. Before(RowsOf(staging[fkey][i]), RowsOf(staging[fkey][j]))
      BY <1>1, <2>1, <2>2, <2>3 DEF FilesOrdered
    <3> QED BY <2>5, <3>1, <3>2 DEF Before
  <2>7. MergeOrdered'
    BY <2>1, <2>5, <2>6 DEF MergeOrdered, Before, Increasing
  <2> QED BY <1>2, <2>1, <2>7 DEF DiskOrdered
<1>6. CASE Publish
  <2>1. pc = "merge" /\ pc' = "sync" /\ Increasing(tmp[fkey])
    BY <1>1, <1>6 DEF Publish, MergeOrdered
  <2>2. \A k \in Keys : Finals(k)' \subseteq Finals(k) \cup {tmp[k] : q \in {fkey} \cap {k}}
    BY <1>6, ArchFacts DEF Publish, FirstFile, Finals, TypeOK
  <2>3. FilesOrdered'
    BY <1>1, <2>1, <2>2, FilesOrderedFewer
  <2> QED BY <2>1, <2>3 DEF DiskOrdered, MergeOrdered
<1>7. CASE SyncDirectory
  BY <1>2, <1>7 DEF SyncDirectory, DiskOrdered, MergeOrdered
<1>8. CASE UnlinkPart
  BY <1>2, <1>8 DEF UnlinkPart, DiskOrdered, MergeOrdered
<1>9. CASE CrashStore /\ UNCHANGED arrived
  <2>1. FilesOrdered'
    BY <1>1, <1>9, CrashDisk, FilesOrderedFewer, ArchFacts
  <2> QED BY <1>9, <2>1 DEF CrashStore, DiskOrdered, MergeOrdered
<1> QED BY <1>3, <1>4, <1>5, <1>6, <1>7, <1>8, <1>9 DEF DiskStep

LEMMA Fewer ==
    ASSUME NEW S, NEW T, Before(S, T), NEW U, U \subseteq S, NEW V, V \subseteq T
    PROVE  Before(U, V)
  BY DEF Before

(* The next part of k gets an index above those on disk. *)
LEMMA HighestPart ==
    ASSUME NEW S, S \subseteq PartId, S # {}
    PROVE  \E i \in S : \A j \in S : j <= i
<1> DEFINE T == {MaxPart + 1 - j : j \in S}
<1>1. MaxPart \in Nat /\ S \subseteq 1..MaxPart
  BY BoundsAssumption DEF PartId
<1>2. T \subseteq PartId /\ T # {}
  <2>1. \A j \in S : j \in Nat /\ j <= MaxPart /\ j >= 1
    BY <1>1
  <2>2. \A j \in S : MaxPart + 1 - j \in PartId
    BY <1>1, <2>1 DEF PartId
  <2>3. T \subseteq PartId
    BY <2>2, Zenon
  <2> QED BY <2>3
<1>3. PICK t \in T : \A u \in T : t <= u
  <2> HIDE DEF T
  <2> QED BY <1>2, LowestIsLeast
<1>4. PICK i \in S : t = MaxPart + 1 - i
  BY <1>3
<1>5. ASSUME NEW j \in S PROVE j <= i
  <2>1. t <= MaxPart + 1 - j
    BY <1>3
  <2> QED BY <1>1, <1>4, <2>1
<1> QED BY <1>5

LEMMA NextPartIsHighest ==
    ASSUME ArchInv, NEW k \in Keys, counters[k] # 0 => \A i \in Parts(k) : i <= counters[k]
    PROVE  /\ \A i \in Parts(k) : i < NextPartIndex(k)
           /\ NextPartIndex(k) \in Nat \ {0}
<1>1. counters[k] \in Nat /\ Parts(k) \subseteq PartId /\ Parts(k) \subseteq Nat
  BY ArchFacts, PartRows, BoundsAssumption DEF ArchTypeOK, PartId
<1>2. CASE counters[k] # 0
  BY <1>1, <1>2 DEF NextPartIndex
<1>3. CASE counters[k] = 0 /\ Parts(k) = {}
  BY <1>3 DEF NextPartIndex
<1>4. CASE counters[k] = 0 /\ Parts(k) # {}
  <2> DEFINE h == CHOOSE i \in Parts(k) : \A j \in Parts(k) : j <= i
  <2>1. h \in Parts(k) /\ \A j \in Parts(k) : j <= h
    BY <1>1, <1>4, HighestPart
  <2>2. NextPartIndex(k) = 1 + h
    BY <1>4 DEF NextPartIndex
  <2> HIDE DEF h
  <2> QED BY <1>1, <2>1, <2>2
<1> QED BY <1>2, <1>3, <1>4

LEMMA AddedRow ==
    ASSUME ArchInv, NEW k \in Keys, AddRow(k)
    PROVE  /\ arrived' \in Nat /\ arrived' \notin PendingRows \cup DiskRows
           /\ Before(PendingRows \cup DiskRows, {arrived'})
           /\ PendingRows' = PendingRows \cup {arrived'}
           /\ buffers' = [buffers EXCEPT ![k] = Append(@, arrived')]
           /\ buffers'[k] = Append(buffers[k], arrived')
           /\ RowsOf(buffers'[k]) = RowsOf(buffers[k]) \cup {arrived'}
           /\ \A q \in Keys \ {k} : buffers'[q] = buffers[q]
           /\ UNCHANGED <<flight, counters>>
<1>1. /\ arrived' = arrived + 1 /\ UNCHANGED <<flight, counters>>
      /\ buffers' = [buffers EXCEPT ![k] = Append(@, arrived')]
      /\ arrived \in Nat /\ PendingRows \cup DiskRows \subseteq 1..arrived
  BY ArchFacts DEF AddRow, RowsKnown
<1>2. /\ arrived' \in Nat /\ arrived' \notin PendingRows \cup DiskRows
      /\ Before(PendingRows \cup DiskRows, {arrived'})
  BY <1>1 DEF Before
<1>3. /\ PendingRows' = PendingRows \cup {arrived'}
      /\ RowsOf(buffers'[k]) = RowsOf(buffers[k]) \cup {arrived'}
      /\ \A q \in Keys \ {k} : buffers'[q] = buffers[q]
  BY <1>1, <1>2, MemAdded, ArchFacts
<1>4. buffers'[k] = Append(buffers[k], arrived')
  BY <1>1, ArchFacts DEF ArchTypeOK
<1> QED BY <1>1, <1>2, <1>3, <1>4

LEMMA MemRows ==
    ASSUME ArchInv, NEW k \in Keys
    PROVE  /\ buffers[k] \in File /\ flight[k] \in File
           /\ RowsOf(buffers[k]) \subseteq PendingRows
           /\ RowsOf(flight[k]) \subseteq PendingRows
           /\ StagedRows(k) \subseteq DiskRows
  BY ArchFacts DEF ArchTypeOK, PendingRows, DiskRows

LEMMA MemOrderedKept == ASSUME ArchInv, MemOrdered, MemStep, FewerParts PROVE MemOrdered'
<1> SUFFICES ASSUME NEW k \in Keys
             PROVE  /\ Increasing(buffers'[k]) /\ Increasing(flight'[k])
                    /\ Before(StagedRows(k)', RowsOf(flight'[k]))
                    /\ Before(StagedRows(k)', RowsOf(buffers'[k]))
                    /\ Before(RowsOf(flight'[k]), RowsOf(buffers'[k]))
                    /\ counters'[k] # 0 => \A i \in Parts(k)' : i <= counters'[k]
  BY DEF MemOrdered, Before, Increasing
<1>1. /\ Increasing(buffers[k]) /\ Increasing(flight[k])
      /\ Before(StagedRows(k)', RowsOf(flight[k]))
      /\ Before(StagedRows(k)', RowsOf(buffers[k]))
      /\ Before(RowsOf(flight[k]), RowsOf(buffers[k]))
      /\ counters[k] # 0 => \A i \in Parts(k)' : i <= counters[k]
  BY DEF MemOrdered, FewerParts, Before
<1>2. /\ NoRows[k] = <<>> /\ RowsOf(<<>>) = {} /\ Increasing(<<>>)
      /\ \A S : Before(S, {}) /\ Before({}, S)
  BY EmptyFile DEF NoRows, Before
<1>3. CASE UNCHANGED <<buffers, flight, counters>>
  BY <1>1, <1>3
<1>4. CASE /\ buffers' = NoRows /\ flight' \in {flight, NoRows}
           /\ counters' = [q \in Keys |-> 0]
  BY <1>1, <1>2, <1>4
<1>5. ASSUME NEW q \in Keys, AddRow(q), q # k PROVE buffers'[k] = buffers[k] /\ UNCHANGED <<flight, counters>>
  BY <1>5, AddedRow
<1>6. CASE AddRow(k)
  <2>1. /\ arrived' \in Nat /\ Before(PendingRows \cup DiskRows, {arrived'})
        /\ buffers'[k] = Append(buffers[k], arrived')
        /\ RowsOf(buffers'[k]) = RowsOf(buffers[k]) \cup {arrived'}
        /\ UNCHANGED <<flight, counters>>
    BY <1>6, AddedRow
  <2>2. /\ RowsOf(buffers[k]) \cup RowsOf(flight[k]) \cup StagedRows(k)' \subseteq PendingRows \cup DiskRows
        /\ buffers[k] \in File
    BY MemRows DEF FewerParts
  <2>3. Increasing(buffers'[k])
    <3>1. Before(RowsOf(buffers[k]), {arrived'})
      BY <2>1, <2>2 DEF Before
    <3> QED BY <1>1, <2>1, <2>2, <3>1, AppendRow
  <2>4. Before(StagedRows(k)', RowsOf(buffers'[k])) /\ Before(RowsOf(flight[k]), RowsOf(buffers'[k]))
    BY <1>1, <2>1, <2>2 DEF Before
  <2> QED BY <1>1, <2>1, <2>3, <2>4
<1>7. CASE flight = NoRows /\ flight' = buffers /\ buffers' = NoRows /\ UNCHANGED counters
  BY <1>1, <1>2, <1>7
<1>8. CASE buffers' = [q \in Keys |-> Restored(q)] /\ flight' = NoRows /\ UNCHANGED counters
  <2>1. /\ buffers'[k] = flight[k] \o buffers[k] /\ flight'[k] = <<>>
        /\ flight[k] \in File /\ buffers[k] \in File
    BY <1>2, <1>8, MemRows DEF Restored
  <2>2. /\ Increasing(buffers'[k])
        /\ RowsOf(buffers'[k]) = RowsOf(flight[k]) \cup RowsOf(buffers[k])
    BY <1>1, <2>1, ConcatFiles
  <2> QED BY <1>1, <1>2, <1>8, <2>1, <2>2 DEF Before
<1> QED BY <1>1, <1>3, <1>4, <1>5, <1>6, <1>7, <1>8 DEF MemStep

LEMMA OnceKept == ASSUME ArchInv, Once, MemStep, FewerParts, SameRows PROVE Once'
<1>1. PartsDisjoint'
  BY DEF Once, PartsDisjoint, FewerParts
<1>2. ArchTypeOK /\ MemOnce /\ PendingRows \cap DiskRows = {}
  BY ArchFacts DEF Once
<1>3. CASE UNCHANGED <<buffers, flight, counters>>
  BY <1>1, <1>2, <1>3, MemSame DEF Once, MemOnce, SameRows
<1>4. CASE /\ buffers' = NoRows /\ flight' \in {flight, NoRows}
           /\ counters' = [q \in Keys |-> 0]
  <2>1. PendingRows' \subseteq PendingRows
    BY <1>2, <1>4, MemDropped
  <2>2. \A k \in Keys : RowsOf(buffers'[k]) = {} /\ RowsOf(flight'[k]) \subseteq RowsOf(flight[k])
    BY <1>4, NoRowsFacts
  <2> QED BY <1>1, <1>2, <2>1, <2>2 DEF Once, MemOnce, SameRows
<1>5. ASSUME NEW k \in Keys, AddRow(k) PROVE Once'
  <2>1. /\ arrived' \notin PendingRows \cup DiskRows
        /\ PendingRows' = PendingRows \cup {arrived'}
        /\ RowsOf(buffers'[k]) = RowsOf(buffers[k]) \cup {arrived'}
        /\ \A q \in Keys \ {k} : RowsOf(buffers'[q]) = RowsOf(buffers[q])
        /\ flight' = flight
    BY <1>5, AddedRow
  <2>2. \A q \in Keys : arrived' \notin RowsOf(flight[q]) /\ arrived' \notin RowsOf(buffers[q])
    BY <2>1, MemRows
  <2>3. MemOnce'
    BY <1>2, <2>1, <2>2 DEF MemOnce
  <2> QED BY <1>1, <1>2, <2>1, <2>3 DEF Once, SameRows
<1>6. CASE flight = NoRows /\ flight' = buffers /\ buffers' = NoRows /\ UNCHANGED counters
  <2>1. PendingRows' = PendingRows
    BY <1>2, <1>6, MemHandedOver
  <2>2. \A k \in Keys : RowsOf(buffers'[k]) = {} /\ RowsOf(flight'[k]) = RowsOf(buffers[k])
    BY <1>6, NoRowsFacts
  <2> QED BY <1>1, <1>2, <2>1, <2>2 DEF Once, MemOnce, SameRows
<1>7. CASE buffers' = [q \in Keys |-> Restored(q)] /\ flight' = NoRows /\ UNCHANGED counters
  <2>1. /\ PendingRows' = PendingRows
        /\ \A k \in Keys : RowsOf(buffers'[k]) = RowsOf(flight[k]) \cup RowsOf(buffers[k])
    BY <1>2, <1>7, MemRestored
  <2>2. \A k \in Keys : RowsOf(flight'[k]) = {}
    BY <1>7, NoRowsFacts
  <2>3. MemOnce'
    BY <1>2, <2>1, <2>2 DEF MemOnce
  <2> QED BY <1>1, <1>2, <2>1, <2>3 DEF Once, SameRows
<1> QED BY <1>3, <1>4, <1>5, <1>6, <1>7 DEF MemStep

(* A part is written: its rows leave the worker, are later than those on   *)
(* disk, and go behind them.                                               *)
LEMMA WritePartRows ==
    ASSUME ArchInv, NEW k \in Keys, WritePart(k)
    PROVE  LET i == NextPartIndex(k) IN
           /\ DiskRows' = DiskRows \cup RowsOf(flight[k])
           /\ Parts(k)' = Parts(k) \cup {i} /\ i \notin Parts(k) /\ i \in PartId
           /\ staging'[k][i] = flight[k] /\ \A j \in Parts(k) : staging'[k][j] = staging[k][j]
           /\ StagedRows(k)' = StagedRows(k) \cup RowsOf(flight[k])
           /\ \A q \in Keys \ {k} : /\ staging'[q] = staging[q] /\ Parts(q)' = Parts(q)
                                    /\ StagedRows(q)' = StagedRows(q)
           /\ \A q \in Keys : Finals(q)' = Finals(q)
           /\ counters'[k] = i /\ \A q \in Keys \ {k} : counters'[q] = counters[q]
           /\ flight'[k] = <<>> /\ RowsOf(flight'[k]) = {}
           /\ \A q \in Keys \ {k} : flight'[q] = flight[q]
           /\ buffers' = buffers
           /\ PendingRows' \subseteq PendingRows
           /\ pc' = "idle"
<1> DEFINE i == NextPartIndex(k)
<1>1. /\ i \in PartId /\ staging[k][i] = NoFile /\ Writing(k)
      /\ staging' = [staging EXCEPT ![k][i] = flight[k]]
      /\ staged' \in {staged, [staged EXCEPT ![k] = staged[k] \cup RowsOf(flight[k])]}
      /\ UNCHANGED <<base, segs, tmp, unsynced, finVars>>
      /\ torn' = (torn \/ Debris(k)) /\ arrived' = arrived /\ crashes' \in Nat
      /\ counters' = [counters EXCEPT ![k] = i]
      /\ flight' = [flight EXCEPT ![k] = <<>>] /\ buffers' = buffers
  BY WritePartAppears
<1> HIDE DEF i
<1>2. /\ DiskRows' = DiskRows \cup RowsOf(flight[k])
      /\ Parts(k)' = Parts(k) \cup {i} /\ i \notin Parts(k)
      /\ staging'[k][i] = flight[k] /\ \A j \in Parts(k) : staging'[k][j] = staging[k][j]
      /\ StagedRows(k)' = StagedRows(k) \cup RowsOf(flight[k])
      /\ \A q \in Keys \ {k} : /\ staging'[q] = staging[q] /\ Parts(q)' = Parts(q)
                               /\ StagedRows(q)' = StagedRows(q)
      /\ \A q \in Keys : Finals(q)' = Finals(q)
      /\ pc' = pc
  BY <1>1, PartAppears
<1>3. pc = "idle"
  BY <1>1, WrittenRows
<1>4. /\ counters'[k] = i /\ \A q \in Keys \ {k} : counters'[q] = counters[q]
      /\ flight'[k] = <<>>
  BY <1>1, ArchFacts DEF ArchTypeOK
<1>5. /\ PendingRows' \subseteq PendingRows /\ RowsOf(flight'[k]) = {}
      /\ \A q \in Keys \ {k} : flight'[q] = flight[q]
  BY <1>1, MemWritten, ArchFacts
<1> QED BY <1>1, <1>2, <1>3, <1>4, <1>5 DEF i

LEMMA WritePartOrdered ==
    ASSUME ArchInv, DiskOrdered, MemOrdered, NEW k \in Keys, WritePart(k)
    PROVE  DiskOrdered' /\ MemOrdered'
<1> DEFINE i == NextPartIndex(k)
<1>1. /\ Parts(k)' = Parts(k) \cup {i} /\ i \notin Parts(k) /\ i \in PartId
      /\ staging'[k][i] = flight[k] /\ \A j \in Parts(k) : staging'[k][j] = staging[k][j]
      /\ StagedRows(k)' = StagedRows(k) \cup RowsOf(flight[k])
      /\ \A q \in Keys \ {k} : /\ staging'[q] = staging[q] /\ Parts(q)' = Parts(q)
                               /\ StagedRows(q)' = StagedRows(q)
      /\ \A q \in Keys : Finals(q)' = Finals(q)
      /\ counters'[k] = i /\ \A q \in Keys \ {k} : counters'[q] = counters[q]
      /\ flight'[k] = <<>> /\ RowsOf(flight'[k]) = {}
      /\ \A q \in Keys \ {k} : flight'[q] = flight[q]
      /\ buffers' = buffers /\ pc' = "idle"
  BY WritePartRows
<1>2. \A j \in Parts(k) : j < i /\ j \in Nat
  BY NextPartIsHighest, PartRows, ArchFacts, BoundsAssumption DEF MemOrdered, PartId
<1>3. i \in Nat
  BY <1>1, BoundsAssumption DEF PartId
<1> HIDE DEF i
<1>4. \A j \in Parts(k) : RowsOf(staging[k][j]) \subseteq StagedRows(k)
  BY PartRows, ArchFacts
<1>5. /\ Increasing(flight[k]) /\ Before(StagedRows(k), RowsOf(flight[k]))
      /\ Before(RowsOf(flight[k]), RowsOf(buffers[k])) /\ Before(StagedRows(k), RowsOf(buffers[k]))
  BY DEF MemOrdered
<1>6. FilesOrdered'
  <2>1. \A q \in Keys : \A f \in Finals(q)' : Increasing(f)
    BY <1>1 DEF DiskOrdered, FilesOrdered
  <2>2. ASSUME NEW q \in Keys, q # k
        PROVE  /\ \A j \in Parts(q)' : Increasing(staging'[q][j])
               /\ \A j, m \in Parts(q)' : j < m => Before(RowsOf(staging'[q][j]), RowsOf(staging'[q][m]))
    <3>1. staging'[q] = staging[q] /\ Parts(q)' = Parts(q)
      BY <1>1, <2>2
    <3> QED BY <3>1 DEF DiskOrdered, FilesOrdered
  <2>3. \A j \in Parts(k)' : Increasing(staging'[k][j])
    BY <1>1, <1>5 DEF DiskOrdered, FilesOrdered
  <2>4. ASSUME NEW j \in Parts(k)', NEW m \in Parts(k)', j < m
        PROVE  Before(RowsOf(staging'[k][j]), RowsOf(staging'[k][m]))
    <3>1. j \in Parts(k) /\ staging'[k][j] = staging[k][j]
      BY <1>1, <1>2, <1>3, <2>4
    <3>2. CASE m = i
      BY <1>1, <1>4, <1>5, <3>1, <3>2 DEF Before
    <3>3. CASE m # i
      BY <1>1, <2>4, <3>1, <3>3 DEF DiskOrdered, FilesOrdered
    <3> QED BY <3>2, <3>3
  <2> QED BY <2>1, <2>2, <2>3, <2>4 DEF FilesOrdered, Before, Increasing
<1>7. DiskOrdered'
  BY <1>1, <1>6 DEF DiskOrdered, MergeOrdered
<1>8. MemOrdered'
  <2> SUFFICES ASSUME NEW q \in Keys
               PROVE  /\ Increasing(buffers'[q]) /\ Increasing(flight'[q])
                      /\ Before(StagedRows(q)', RowsOf(flight'[q]))
                      /\ Before(StagedRows(q)', RowsOf(buffers'[q]))
                      /\ Before(RowsOf(flight'[q]), RowsOf(buffers'[q]))
                      /\ counters'[q] # 0 => \A j \in Parts(q)' : j <= counters'[q]
    BY DEF MemOrdered, Before, Increasing
  <2>1. CASE q # k
    <3>1. /\ buffers'[q] = buffers[q] /\ flight'[q] = flight[q] /\ counters'[q] = counters[q]
          /\ Parts(q)' = Parts(q) /\ StagedRows(q)' = StagedRows(q)
      BY <1>1, <2>1
    <3> QED BY <3>1 DEF MemOrdered
  <2>2. CASE q = k
    <3>1. Increasing(buffers'[k]) /\ Increasing(flight'[k])
      BY <1>1, EmptyFile DEF MemOrdered
    <3>2. /\ Before(StagedRows(k)', RowsOf(flight'[k])) /\ Before(StagedRows(k)', RowsOf(buffers'[k]))
          /\ Before(RowsOf(flight'[k]), RowsOf(buffers'[k]))
      BY <1>1, <1>5 DEF Before
    <3>3. \A j \in Parts(k)' : j <= counters'[k]
      BY <1>1, <1>2, <1>3
    <3> QED BY <2>2, <3>1, <3>2, <3>3
  <2> QED BY <2>1, <2>2
<1> QED BY <1>7, <1>8

LEMMA WritePartOnce ==
    ASSUME ArchInv, Once, NEW k \in Keys, WritePart(k)
    PROVE  Once'
<1> DEFINE i == NextPartIndex(k)
<1>1. /\ DiskRows' = DiskRows \cup RowsOf(flight[k])
      /\ Parts(k)' = Parts(k) \cup {i} /\ i \notin Parts(k)
      /\ staging'[k][i] = flight[k] /\ \A j \in Parts(k) : staging'[k][j] = staging[k][j]
      /\ \A q \in Keys \ {k} : staging'[q] = staging[q] /\ Parts(q)' = Parts(q)
      /\ RowsOf(flight'[k]) = {} /\ \A q \in Keys \ {k} : flight'[q] = flight[q]
      /\ buffers' = buffers /\ PendingRows' \subseteq PendingRows
  BY WritePartRows
<1> HIDE DEF i
<1>2. /\ PendingRows \cap DiskRows = {} /\ PartsDisjoint /\ MemOnce
      /\ RowsOf(flight[k]) \subseteq PendingRows /\ StagedRows(k) \subseteq DiskRows
      /\ \A j \in Parts(k) : RowsOf(staging[k][j]) \subseteq StagedRows(k)
  BY MemRows, PartRows, ArchFacts DEF Once
<1>3. MemOnce'
  <2>1. \A q \in Keys : RowsOf(flight'[q]) \subseteq RowsOf(flight[q])
    BY <1>1
  <2> QED BY <1>1, <1>2, <2>1 DEF MemOnce
<1>4. PendingRows' \cap DiskRows' = {}
  <2>1. \A q \in Keys : RowsOf(flight'[q]) \cap RowsOf(flight[k]) = {}
    BY <1>1, <1>2 DEF MemOnce
  <2>2. \A q \in Keys : RowsOf(buffers'[q]) \cap RowsOf(flight[k]) = {}
    BY <1>1, <1>2 DEF MemOnce
  <2>3. PendingRows' \cap RowsOf(flight[k]) = {}
    BY <2>1, <2>2 DEF PendingRows
  <2> QED BY <1>1, <1>2, <2>3
<1>5. PartsDisjoint'
  <2>1. ASSUME NEW q \in Keys, q # k, NEW j \in Parts(q)', NEW m \in Parts(q)', j # m
        PROVE  RowsOf(staging'[q][j]) \cap RowsOf(staging'[q][m]) = {}
    BY <1>1, <1>2, <2>1 DEF PartsDisjoint
  <2>2. ASSUME NEW j \in Parts(k)', NEW m \in Parts(k)', j # m
        PROVE  RowsOf(staging'[k][j]) \cap RowsOf(staging'[k][m]) = {}
    BY <1>1, <1>2, <2>2 DEF PartsDisjoint
  <2> QED BY <2>1, <2>2 DEF PartsDisjoint
<1> QED BY <1>3, <1>4, <1>5 DEF Once

-----------------------------------------------------------------------------
OrderInv == ~halfWritten => DiskOrdered /\ MemOrdered /\ Once

LEMMA OrderInvHolds == ArchSpec => []OrderInv
<1>1. ArchInit => OrderInv
  <2> SUFFICES ASSUME ArchInit PROVE DiskOrdered /\ MemOrdered /\ Once
    BY DEF OrderInv
  <2>1. /\ \A k \in Keys : Parts(k) = {} /\ Finals(k) = {} /\ StagedRows(k) = {}
        /\ \A k \in Keys : buffers[k] = <<>> /\ flight[k] = <<>> /\ counters[k] = 0
        /\ pc = "idle"
    BY DEF ArchInit, Init, Parts, Finals, StagedRows, NoRows
  <2>2. RowsOf(<<>>) = {} /\ Increasing(<<>>)
    BY EmptyFile
  <2>3. DiskOrdered
    BY <2>1 DEF DiskOrdered, FilesOrdered, MergeOrdered
  <2>4. MemOrdered
    BY <2>1, <2>2 DEF MemOrdered, Before
  <2>5. Once
    BY <2>1, <2>2 DEF Once, PendingRows, PartsDisjoint, MemOnce
  <2> QED BY <2>3, <2>4, <2>5
<1>2. ArchInv /\ OrderInv /\ [ArchNext]_allVars => OrderInv'
  <2> SUFFICES ASSUME ArchInv, OrderInv, [ArchNext]_allVars, ~halfWritten'
               PROVE  DiskOrdered' /\ MemOrdered' /\ Once'
    BY DEF OrderInv
  <2>1. ASSUME NEW k \in Keys, WritePart(k), halfWritten' = halfWritten
        PROVE  DiskOrdered' /\ MemOrdered' /\ Once'
    BY <2>1, WritePartOrdered, WritePartOnce DEF OrderInv
  <2>2. CASE MemStep /\ DiskStep /\ halfWritten' = halfWritten
    BY <2>2, DiskStepRows, DiskOrderedKept, MemOrderedKept, OnceKept DEF OrderInv
  <2> QED BY <2>1, <2>2, StepKinds
<1> QED BY <1>1, <1>2, ArchInvHolds, PTL DEF ArchSpec

(* Every file holds its rows in the order in which they arrived, and so do *)
(* the parts one after the other, whatever flushes failed in between; the  *)
(* exception is the failed write that left its part (archiver.py           *)
(* _flush_locked, _next_part_index; parquet_store.py finalize).            *)
THEOREM FilesInArrivalOrderHolds == ArchSpec => []FilesInArrivalOrder
<1>1. OrderInv => FilesInArrivalOrder
  BY DEF OrderInv, DiskOrdered, FilesOrdered, FilesInArrivalOrder, Before
<1> QED BY <1>1, OrderInvHolds, PTL

(* A retried flush stores no row a second time: memory and disk are        *)
(* disjoint, and so are the parts; same exception (archiver.py             *)
(* _flush_locked).                                                         *)
THEOREM RowsStoredOnceHolds == ArchSpec => []RowsStoredOnce
<1>1. OrderInv => RowsStoredOnce
  BY DEF OrderInv, Once, PartsDisjoint, RowsStoredOnce
<1> QED BY <1>1, OrderInvHolds, PTL
=============================================================================
