------------------------------ MODULE RawStore ------------------------------
(***************************************************************************)
(* The raw parquet store (storage/parquet_store.py): per partition, an     *)
(* append-only staging directory and immutable, content-addressed final    *)
(* files.  finalize() runs step by step, as it does on disk, so a crash or *)
(* an I/O error may fall between any two of its file operations.           *)
(*                                                                         *)
(* A row is its arrival number; a file is the sequence of its rows, and    *)
(* its sha256 digest is that sequence.  Parts are written to a temporary   *)
(* name, fsynced and renamed, so a part appears whole or not at all.       *)
(***************************************************************************)
EXTENDS Integers, Sequences

CONSTANTS Keys,      \* partitions (instrument, trading day)
          MaxPart,   \* bound: part indices are 1..MaxPart
          MaxRow,    \* bound: rows that arrive
          MaxCrash,  \* bound: crashes and failed finalizations
          NoFile     \* an absent file

Row    == Nat
PartId == 1..MaxPart
File   == Seq(Row)

ASSUME NoFileAssumption == NoFile \notin File
ASSUME BoundsAssumption == MaxPart \in Nat /\ MaxRow \in Nat /\ MaxCrash \in Nat

VARIABLES
    staging,   \* staging[k][i]: _staging/part-<i>.parquet of partition k
    base,      \* base[k]: snapshots.parquet
    segs,      \* segs[k]: the snapshots-<digest>.parquet files, named by content
    tmp,       \* tmp[k]: snapshots.parquet.tmp
    unsynced,  \* unsynced[k]: final files whose directory entry is not fsynced
    pc,        \* where the running finalize() call is
    fkey,      \* its argument
    flist,     \* its local `parts`: the part indices it listed
    ftodo,     \* the listed parts its current loop has not reached
    ffile,     \* the file it published
    arrived,   \* number of rows produced so far
    crashes,   \* crashes and failures so far
    staged,    \* history: staged[k], the rows a staging write acknowledged
    torn       \* history: what an interrupted cleanup left is no longer, or not
               \* alone, what it had published (CutShort, Debris)

diskVars  == <<staging, base, segs, tmp, unsynced>>
finVars   == <<pc, fkey, flist, ftodo, ffile>>
storeVars == <<diskVars, finVars, crashes, staged, torn>>
vars      == <<storeVars, arrived>>

Lowest(S) == CHOOSE i \in S : \A j \in S : i <= j
RowsOf(f) == {f[n] : n \in DOMAIN f}
Increasing(f) == \A m, n \in DOMAIN f : m < n => f[m] < f[n]

Parts(k)  == {i \in PartId : staging[k][i] # NoFile}
Finals(k) == segs[k] \cup ({base[k]} \ {NoFile})

StagedRows(k) == UNION {RowsOf(staging[k][i]) : i \in Parts(k)}
FinalRows(k)  == UNION {RowsOf(f) : f \in Finals(k)}

(* Final files a power loss cannot take away. *)
Synced(k) == Finals(k) \ unsynced[k]

TypeOK ==
    /\ staging \in [Keys -> [PartId -> File \cup {NoFile}]]
    /\ base \in [Keys -> File \cup {NoFile}]
    /\ segs \in [Keys -> SUBSET File]
    /\ tmp \in [Keys -> File \cup {NoFile}]
    /\ unsynced \in [Keys -> SUBSET File]
    /\ pc \in {"idle", "merge", "sync", "cleanup"}
    /\ fkey \in Keys
    /\ flist \in SUBSET PartId
    /\ ftodo \in SUBSET flist
    /\ ffile \in File
    /\ arrived \in Nat
    /\ crashes \in Nat
    /\ staged \in [Keys -> SUBSET Row]
    /\ torn \in BOOLEAN

Init ==
    /\ staging = [k \in Keys |-> [i \in PartId |-> NoFile]]
    /\ base = [k \in Keys |-> NoFile]
    /\ segs = [k \in Keys |-> {}]
    /\ tmp = [k \in Keys |-> NoFile]
    /\ unsynced = [k \in Keys |-> {}]
    /\ pc = "idle"
    /\ fkey \in Keys
    /\ flist = {} /\ ftodo = {} /\ ffile = <<>>
    /\ arrived = 0 /\ crashes = 0
    /\ staged = [k \in Keys |-> {}]
    /\ torn = FALSE

(* `existing`: some final file already has the digest of the merged one. *)
DigestInSegments(k, file) == file \in segs[k]
HasDigest(k, file) == file \in Finals(k)

(* The merged file takes the name snapshots.parquet; otherwise its name is *)
(* snapshots-<digest>.parquet.                                             *)
FirstFileAlways(k) == TRUE
FirstFile(k) == base[k] = NoFile

(* What the cleanup loop deletes: the captured list, not a new listing.    *)
CleanupRelisted == Parts(fkey)
CleanupParts == flist

(* Final files still at risk after the fsync of their directory.           *)
UnsyncedForever(k) == unsynced[k]
UnsyncedAfterFsync(k) == {}

-----------------------------------------------------------------------------
(* A finalize() of k has published its file and still has parts to unlink. *)
CleaningUp(k) == pc \in {"sync", "cleanup"} /\ fkey = k

(* Parts of k left behind by an interrupted cleanup: already published.  A *)
(* part staged beside them makes the next merge another file.              *)
Debris(k) == ~CleaningUp(k) /\ StagedRows(k) \cap FinalRows(k) # {}

(* write_staging_part: refuses an existing index (StorageError). *)
WriteStagingPart(k, i, rows) ==
    /\ staging[k][i] = NoFile
    /\ staging' = [staging EXCEPT ![k][i] = rows]
    /\ staged' = [staged EXCEPT ![k] = @ \cup RowsOf(rows)]
    /\ torn' = (torn \/ Debris(k))
    /\ UNCHANGED <<base, segs, tmp, unsynced, finVars, crashes>>

(* finalize(k) with parts to merge: open snapshots.parquet.tmp afresh. *)
StartFinalize(k) ==
    /\ pc = "idle"
    /\ Parts(k) # {}
    /\ pc' = "merge"
    /\ fkey' = k
    /\ flist' = Parts(k)
    /\ ftodo' = Parts(k)
    /\ tmp' = [tmp EXCEPT ![k] = <<>>]
    /\ UNCHANGED <<staging, base, segs, unsynced, ffile, crashes, staged, torn>>

(* One turn of `for part in parts`: parts are merged in index order. *)
MergePart ==
    /\ pc = "merge"
    /\ ftodo # {}
    /\ LET i == Lowest(ftodo) IN
         /\ tmp' = [tmp EXCEPT ![fkey] = @ \o staging[fkey][i]]
         /\ ftodo' = ftodo \ {i}
    /\ UNCHANGED <<staging, base, segs, unsynced, pc, fkey, flist, ffile,
                   crashes, staged, torn>>

(* Publish the merged file unless a final file has its digest; the first   *)
(* file of a partition is snapshots.parquet, a later one carries its       *)
(* digest in the name.                                                     *)
Publish ==
    /\ pc = "merge"
    /\ ftodo = {}
    /\ LET file     == tmp[fkey]
           existing == HasDigest(fkey, file)
           first    == FirstFile(fkey)
       IN /\ ffile' = file
          /\ base' = IF ~existing /\ first THEN [base EXCEPT ![fkey] = file] ELSE base
          /\ segs' = IF ~existing /\ ~first
                       THEN [segs EXCEPT ![fkey] = @ \cup {file}] ELSE segs
          /\ unsynced' = IF existing THEN unsynced
                           ELSE [unsynced EXCEPT ![fkey] = @ \cup {file}]
    /\ tmp' = [tmp EXCEPT ![fkey] = NoFile]
    /\ pc' = "sync"
    /\ ftodo' = CleanupParts
    /\ UNCHANGED <<staging, fkey, flist, crashes, staged, torn>>

(* chmod 0444, then fsync of the partition directory. *)
SyncDirectory ==
    /\ pc = "sync"
    /\ unsynced' = [unsynced EXCEPT ![fkey] = UnsyncedAfterFsync(fkey)]
    /\ pc' = "cleanup"
    /\ UNCHANGED <<staging, base, segs, tmp, fkey, flist, ftodo, ffile,
                   crashes, staged, torn>>

(* Only the listed parts are deleted, never a concurrent new part. *)
UnlinkPart ==
    /\ pc = "cleanup"
    /\ ftodo # {}
    /\ LET i == Lowest(ftodo) IN
         /\ staging' = [staging EXCEPT ![fkey][i] = NoFile]
         /\ ftodo' = ftodo \ {i}
    /\ UNCHANGED <<base, segs, tmp, unsynced, pc, fkey, flist, ffile,
                   crashes, staged, torn>>

EndFinalize ==
    /\ pc = "cleanup"
    /\ ftodo = {}
    /\ pc' = "idle"
    /\ UNCHANGED <<diskVars, fkey, flist, ftodo, ffile, crashes, staged, torn>>

-----------------------------------------------------------------------------
(* The cleanup is interrupted between two unlinks; or before its first,    *)
(* with parts it never listed beside the published ones: merging again     *)
(* gives another digest.                                                   *)
CutShort ==
    /\ pc \in {"sync", "cleanup"}
    /\ ftodo # {}
    /\ ftodo # flist \/ Parts(fkey) # flist

(* An exception inside finalize() (disk, row count mismatch): what is on   *)
(* disk stays.                                                             *)
FailFinalize ==
    /\ pc # "idle"
    /\ crashes < MaxCrash
    /\ crashes' = crashes + 1
    /\ pc' = "idle"
    /\ torn' = (torn \/ CutShort)
    /\ UNCHANGED <<diskVars, fkey, flist, ftodo, ffile, staged>>

(* Death of the process, or a power loss that also undoes any of the       *)
(* renames whose directory was not fsynced.                                *)
CrashStore ==
    /\ crashes < MaxCrash
    /\ crashes' = crashes + 1
    /\ pc' = "idle"
    /\ torn' = (torn \/ CutShort)
    /\ \E undone \in [Keys -> UNION {SUBSET unsynced[k] : k \in Keys}] :
         /\ \A k \in Keys : undone[k] \subseteq unsynced[k]
         /\ base' = [k \in Keys |->
                       IF base[k] \in undone[k] THEN NoFile ELSE base[k]]
         /\ segs' = [k \in Keys |-> segs[k] \ undone[k]]
         /\ unsynced' = [k \in Keys |-> unsynced[k] \ undone[k]]
    /\ UNCHANGED <<staging, tmp, fkey, flist, ftodo, ffile, staged>>

FinalizeStep ==
    MergePart \/ Publish \/ SyncDirectory \/ UnlinkPart \/ EndFinalize

(* A writer of the store: `n` rows arrive and are staged as one part. *)
StageNewRows(k, i, n) ==
    /\ arrived + n <= MaxRow
    /\ arrived' = arrived + n
    /\ WriteStagingPart(k, i, [j \in 1..n |-> arrived + j])

Next ==
    \/ \E k \in Keys, i \in PartId, n \in 1..2 : StageNewRows(k, i, n)
    \/ \E k \in Keys : StartFinalize(k) /\ UNCHANGED arrived
    \/ FinalizeStep /\ UNCHANGED arrived
    \/ FailFinalize /\ UNCHANGED arrived
    \/ CrashStore /\ UNCHANGED arrived

Spec == Init /\ [][Next]_vars

-----------------------------------------------------------------------------
(* A row whose staging write was acknowledged is on disk forever: in a     *)
(* staging part, or in a final file that no power loss can take away.      *)
(* finalize() must fsync what it published before it unlinks a part, and   *)
(* unlink only parts it merged (parquet_store.py finalize()).              *)
StagedRowsDurable ==
    \A k \in Keys : \A r \in staged[k] :
        \/ \E i \in Parts(k) : r \in RowsOf(staging[k][i])
        \/ \E f \in Synced(k) : r \in RowsOf(f)

(* Why that holds while finalize() runs: the rows of every part it has     *)
(* passed are in the file it is building; once that file is published,     *)
(* every part it may still unlink repeats rows of it, and from the         *)
(* directory's fsync on the file is safe (parquet_store.py:130-156).       *)
Repeats(i, file) == i \in Parts(fkey) /\ RowsOf(staging[fkey][i]) \subseteq RowsOf(file)

FinalizeCovered ==
    /\ pc = "merge" => /\ tmp[fkey] # NoFile
                       /\ flist \subseteq Parts(fkey)
                       /\ \A i \in flist \ ftodo : Repeats(i, tmp[fkey])
    /\ pc \in {"sync", "cleanup"} => \A i \in ftodo : Repeats(i, ffile)
    /\ pc = "sync" => ffile \in Finals(fkey)
    /\ pc = "cleanup" => ffile \in Synced(fkey)

(* A final file is never overwritten, changed or removed once its          *)
(* publication is durable: snapshots.parquet keeps its content and no      *)
(* segment disappears (parquet_store.py module guarantees).                *)
FinalFilesImmutable ==
    [][\A k \in Keys :
         /\ Synced(k) \subseteq Finals(k)'
         /\ base[k] \in Synced(k) => base'[k] = base[k]]_vars

(* No row is published twice, as long as every interrupted publication is  *)
(* repeated with exactly its parts: that finds the digest it left behind.  *)
(* Excepted (`torn`) are a cleanup interrupted between two unlinks, and    *)
(* one interrupted before its first unlink when a part it had not listed   *)
(* was staged before, or is staged afterwards and before the recovery: the *)
(* code publishes rows again in each of these (parquet_store.py:115-156).  *)
PublishedTwice(k) ==
    \/ base[k] \in segs[k]
    \/ \E f, g \in Finals(k) : f # g /\ RowsOf(f) \cap RowsOf(g) # {}
RepublishIdempotent == ~torn => \A k \in Keys : ~PublishedTwice(k)

(* "interrupted publications are recovered idempotently"                   *)
(* (parquet_store.py:114): finalizing again after an interruption adds no  *)
(* segment that only repeats rows of snapshots.parquet.                    *)
InterruptedPublicationIdempotent ==
    \A k \in Keys : base[k] # NoFile =>
      \A f \in segs[k] : ~(RowsOf(f) \subseteq RowsOf(base[k]))
=============================================================================
