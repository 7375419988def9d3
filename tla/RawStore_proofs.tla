--------------------------- MODULE RawStore_proofs ---------------------------
(***************************************************************************)
(* Proofs about RawStore, for any set of partitions and any bounds.        *)
(***************************************************************************)
EXTENDS RawStore, SequenceTheorems, WellFoundedInduction, TLAPS

(* A non-empty set of part indices has a lowest one, and it is a member. *)
LEMMA LowestIsLeast ==
    ASSUME NEW S, S \subseteq PartId, S # {}
    PROVE  Lowest(S) \in S /\ \A j \in S : Lowest(S) <= j
<1>1. S \subseteq Nat
  BY BoundsAssumption DEF PartId
<1>2. PICK i \in S : \A j \in S : <<j, i>> \notin OpToRel(<, Nat)
  BY <1>1, WFMin, NatLessThanWellFounded, Zenon
<1>3. \A j \in S : i <= j
  <2> TAKE j \in S
  <2>1. ~(j < i)
    BY <1>1, <1>2 DEF OpToRel
  <2> QED
    BY <1>1, <2>1
<1> QED
  BY <1>3 DEF Lowest

LEMMA LowestIsMember ==
    ASSUME NEW S, S \subseteq PartId, S # {}
    PROVE  Lowest(S) \in S
  BY LowestIsLeast

(* The rows of a concatenation are the rows of both files. *)
LEMMA RowsOfConcat ==
    ASSUME NEW f \in File, NEW g \in File
    PROVE  /\ f \o g \in File
           /\ RowsOf(f) \subseteq RowsOf(f \o g)
           /\ RowsOf(g) \subseteq RowsOf(f \o g)
<1>1. /\ f \o g \in File
      /\ Len(f \o g) = Len(f) + Len(g)
      /\ \A i \in 1..(Len(f) + Len(g)) :
           (f \o g)[i] = IF i <= Len(f) THEN f[i] ELSE g[i - Len(f)]
  BY ConcatProperties DEF File
<1>2. /\ DOMAIN f = 1..Len(f) /\ Len(f) \in Nat
      /\ DOMAIN g = 1..Len(g) /\ Len(g) \in Nat
      /\ DOMAIN (f \o g) = 1..(Len(f) + Len(g))
  BY <1>1 DEF File
<1>3. ASSUME NEW n \in DOMAIN f PROVE f[n] \in RowsOf(f \o g)
  <2>1. n \in DOMAIN (f \o g) /\ (f \o g)[n] = f[n]
    BY <1>1, <1>2, <1>3
  <2> QED
    BY <2>1 DEF RowsOf
<1>4. ASSUME NEW n \in DOMAIN g PROVE g[n] \in RowsOf(f \o g)
  <2>1. Len(f) + n \in DOMAIN (f \o g) /\ (f \o g)[Len(f) + n] = g[n]
    BY <1>1, <1>2, <1>4
  <2> QED
    BY <2>1 DEF RowsOf
<1> QED
  BY <1>1, <1>3, <1>4 DEF RowsOf

(* A new part of n rows is a file of rows. *)
LEMMA NewPartIsFile ==
    ASSUME arrived \in Nat, NEW n \in 1..2
    PROVE  /\ [j \in 1..n |-> arrived + j] \in File
           /\ RowsOf([j \in 1..n |-> arrived + j]) \subseteq Row
  BY DEF File, Row, RowsOf
-----------------------------------------------------------------------------
(* The part that MergePart and UnlinkPart work on is one of the listed ones. *)
LEMMA NextPartListed ==
    ASSUME TypeOK, ftodo # {}
    PROVE  Lowest(ftodo) \in ftodo /\ Lowest(ftodo) \in flist
           /\ Lowest(ftodo) \in PartId
<1>1. ftodo \subseteq flist /\ flist \subseteq PartId
  BY DEF TypeOK
<1>2. ftodo \subseteq PartId
  BY <1>1
<1> QED
  BY <1>1, <1>2, LowestIsMember

LEMMA TypeMerge ==
    ASSUME TypeOK, pc = "merge" => tmp[fkey] # NoFile /\ flist \subseteq Parts(fkey),
           MergePart, UNCHANGED arrived
    PROVE  TypeOK'
<1> DEFINE i == Lowest(ftodo)
<1>1. i \in flist /\ i \in PartId
  BY NextPartListed DEF MergePart
<1>2. tmp[fkey] \in File /\ staging[fkey][i] \in File
  BY <1>1 DEF MergePart, TypeOK, Parts
<1>3. tmp[fkey] \o staging[fkey][i] \in File
  BY <1>2, RowsOfConcat
<1>4. /\ tmp' = [tmp EXCEPT ![fkey] = tmp[fkey] \o staging[fkey][i]]
      /\ ftodo' = ftodo \ {i}
      /\ UNCHANGED <<staging, base, segs, unsynced, pc, fkey, flist, ffile,
                     crashes, staged, torn>>
  BY DEF MergePart
<1> HIDE DEF i
<1>5. tmp' \in [Keys -> File \cup {NoFile}]
  BY <1>3, <1>4 DEF TypeOK
<1> QED
  BY <1>4, <1>5 DEF TypeOK

LEMMA TypePublish ==
    ASSUME TypeOK, pc = "merge" => tmp[fkey] # NoFile, Publish, UNCHANGED arrived
    PROVE  TypeOK'
<1>1. tmp[fkey] \in File
  BY DEF Publish, TypeOK
<1>2. base' \in [Keys -> File \cup {NoFile}]
  BY <1>1 DEF TypeOK, Publish
<1>3. segs' \in [Keys -> SUBSET File]
  BY <1>1 DEF TypeOK, Publish
<1>4. unsynced' \in [Keys -> SUBSET File]
  BY <1>1 DEF TypeOK, Publish
<1>5. /\ tmp' \in [Keys -> File \cup {NoFile}]
      /\ ffile' \in File /\ ftodo' \in SUBSET flist'
      /\ pc' = "sync"
      /\ UNCHANGED <<staging, fkey, flist, crashes, staged, torn, arrived>>
  BY <1>1 DEF TypeOK, Publish, CleanupParts
<1> QED
  BY <1>2, <1>3, <1>4, <1>5 DEF TypeOK

LEMMA TypeUnlink ==
    ASSUME TypeOK, UnlinkPart, UNCHANGED arrived
    PROVE  TypeOK'
<1>1. /\ staging' \in [Keys -> [PartId -> File \cup {NoFile}]]
      /\ ftodo' \in SUBSET flist
      /\ UNCHANGED <<base, segs, tmp, unsynced, pc, fkey, flist, ffile,
                     crashes, staged, torn, arrived>>
  BY DEF TypeOK, UnlinkPart
<1> QED
  BY <1>1 DEF TypeOK

LEMMA TypeCrash ==
    ASSUME TypeOK, CrashStore, UNCHANGED arrived
    PROVE  TypeOK'
<1>1. /\ base' \in [Keys -> File \cup {NoFile}]
      /\ segs' \in [Keys -> SUBSET File]
      /\ unsynced' \in [Keys -> SUBSET File]
  BY DEF TypeOK, CrashStore
<1>2. /\ crashes' \in Nat /\ pc' = "idle"
      /\ UNCHANGED <<staging, tmp, fkey, flist, ftodo, ffile, staged, arrived>>
      /\ torn' \in BOOLEAN
  BY DEF TypeOK, CrashStore, CutShort
<1> QED
  BY <1>1, <1>2 DEF TypeOK
-----------------------------------------------------------------------------
StoreInv == TypeOK /\ FinalizeCovered /\ StagedRowsDurable

(* Steps that leave the staging area, the final files and `staged` alone   *)
(* keep every acknowledged row where it is.                                *)
LEMMA DurableUnchanged ==
    ASSUME StagedRowsDurable, UNCHANGED <<staging, base, segs, unsynced, staged>>
    PROVE  StagedRowsDurable'
  BY DEF StagedRowsDurable, Parts, Synced, Finals

(* A part appears where none was.  `staged` may take its rows in. *)
LEMMA InvPart ==
    ASSUME StoreInv, NEW k \in Keys, NEW i \in PartId, NEW rows \in File,
           staging[k][i] = NoFile,
           staging' = [staging EXCEPT ![k][i] = rows],
           staged' \in [Keys -> SUBSET Row],
           \A q \in Keys : staged'[q] \subseteq
               staged[q] \cup (IF q = k THEN RowsOf(rows) ELSE {}),
           UNCHANGED <<base, segs, tmp, unsynced, finVars>>,
           torn' \in BOOLEAN, arrived' \in Nat, crashes' \in Nat
    PROVE  StoreInv'
<1>1. rows # NoFile
  BY NoFileAssumption
<1>2. UNCHANGED <<base, segs, tmp, unsynced, pc, fkey, flist, ftodo, ffile>>
  BY DEF finVars
<1>3. \A q \in Keys : /\ Synced(q)' = Synced(q)
                       /\ Finals(q)' = Finals(q)
  BY <1>2 DEF Synced, Finals
<1>4. \A q \in Keys : \A j \in Parts(q) :
         j \in Parts(q)' /\ staging'[q][j] = staging[q][j]
  BY <1>2 DEF Parts, StoreInv, TypeOK
<1>5. i \in Parts(k)' /\ staging'[k][i] = rows
  BY <1>1, <1>2 DEF Parts, StoreInv, TypeOK
<1>6. TypeOK'
  <2>1. staging' \in [Keys -> [PartId -> File \cup {NoFile}]]
    BY DEF StoreInv, TypeOK
  <2> QED
    BY <1>2, <2>1 DEF StoreInv, TypeOK
<1>7. fkey \in Keys
  BY DEF StoreInv, TypeOK
<1>8. FinalizeCovered'
  <2>1. \A j, file : Repeats(j, file) => Repeats(j, file)'
    BY <1>2, <1>4, <1>7 DEF Repeats
  <2>2. flist \subseteq Parts(fkey) => (flist \subseteq Parts(fkey))'
    BY <1>2, <1>4, <1>7
  <2> QED
    BY <1>2, <1>3, <1>7, <2>1, <2>2 DEF FinalizeCovered, StoreInv
<1>9. StagedRowsDurable'
  <2> SUFFICES ASSUME NEW q \in Keys, NEW r \in staged'[q]
               PROVE  \/ \E j \in Parts(q)' : r \in RowsOf(staging'[q][j])
                      \/ \E f \in Synced(q)' : r \in RowsOf(f)
    BY DEF StagedRowsDurable
  <2>1. CASE r \in staged[q]
    BY <2>1, <1>3, <1>4 DEF StagedRowsDurable, StoreInv
  <2>2. CASE r \notin staged[q]
    <3>1. q = k /\ r \in RowsOf(rows)
      BY <2>2
    <3> QED
      BY <3>1, <1>5
  <2> QED
    BY <2>1, <2>2
<1> QED
  BY <1>6, <1>8, <1>9 DEF StoreInv

LEMMA InvStage ==
    ASSUME StoreInv, NEW k \in Keys, NEW i \in PartId, NEW n \in 1..2,
           StageNewRows(k, i, n)
    PROVE  StoreInv'
<1> DEFINE rows == [j \in 1..n |-> arrived + j]
<1>1. rows \in File /\ RowsOf(rows) \subseteq Row
  BY NewPartIsFile DEF StoreInv, TypeOK
<1>2. /\ staging[k][i] = NoFile
      /\ staging' = [staging EXCEPT ![k][i] = rows]
      /\ staged' = [staged EXCEPT ![k] = staged[k] \cup RowsOf(rows)]
      /\ UNCHANGED <<base, segs, tmp, unsynced, finVars>>
      /\ torn' = (torn \/ Debris(k)) /\ crashes' = crashes /\ arrived' = arrived + n
  BY DEF StageNewRows, WriteStagingPart
<1> HIDE DEF rows
<1>3. staged' \in [Keys -> SUBSET Row]
  BY <1>1, <1>2 DEF StoreInv, TypeOK
<1>4. \A q \in Keys : staged'[q] \subseteq
          staged[q] \cup (IF q = k THEN RowsOf(rows) ELSE {})
  BY <1>2 DEF StoreInv, TypeOK
<1>5. torn' \in BOOLEAN
  BY <1>2, Zenon
<1>6. arrived' \in Nat /\ crashes' \in Nat
  BY <1>2 DEF StoreInv, TypeOK
<1> QED
  BY <1>1, <1>2, <1>3, <1>4, <1>5, <1>6, InvPart

LEMMA InvStart ==
    ASSUME StoreInv, NEW k \in Keys, StartFinalize(k), UNCHANGED arrived
    PROVE  StoreInv'
<1>1. tmp' = [tmp EXCEPT ![k] = <<>>] /\ <<>> \in File
  BY DEF StartFinalize, File
<1>2. TypeOK'
  BY <1>1 DEF StoreInv, TypeOK, StartFinalize, Parts
<1>3. tmp'[k] # NoFile
  BY <1>1, NoFileAssumption DEF StoreInv, TypeOK
<1>4. FinalizeCovered'
  BY <1>3 DEF FinalizeCovered, StartFinalize, Parts
<1>5. StagedRowsDurable'
  BY DurableUnchanged DEF StoreInv, StartFinalize
<1> QED
  BY <1>2, <1>4, <1>5 DEF StoreInv

LEMMA InvMerge ==
    ASSUME StoreInv, MergePart, UNCHANGED arrived
    PROVE  StoreInv'
<1> DEFINE i == Lowest(ftodo)
<1>1. i \in flist /\ i \in PartId
  BY NextPartListed DEF MergePart, StoreInv
<1>2. /\ fkey \in Keys /\ flist \subseteq Parts(fkey) /\ tmp[fkey] # NoFile
      /\ \A j \in flist \ ftodo : Repeats(j, tmp[fkey])
  BY DEF MergePart, StoreInv, FinalizeCovered, TypeOK
<1>3. tmp[fkey] \in File /\ staging[fkey][i] \in File
  BY <1>1, <1>2 DEF StoreInv, TypeOK, Parts
<1>4. /\ tmp[fkey] \o staging[fkey][i] \in File
      /\ RowsOf(tmp[fkey]) \subseteq RowsOf(tmp[fkey] \o staging[fkey][i])
      /\ RowsOf(staging[fkey][i]) \subseteq RowsOf(tmp[fkey] \o staging[fkey][i])
  BY <1>3, RowsOfConcat
<1>5. /\ tmp' = [tmp EXCEPT ![fkey] = tmp[fkey] \o staging[fkey][i]]
      /\ ftodo' = ftodo \ {i} /\ pc' = "merge"
      /\ UNCHANGED <<staging, base, segs, unsynced, fkey, flist, ffile, staged>>
  BY DEF MergePart
<1> HIDE DEF i
<1>6. tmp'[fkey] = tmp[fkey] \o staging[fkey][i]
  BY <1>2, <1>5 DEF StoreInv, TypeOK
<1>7. \A j \in flist \ ftodo' : Repeats(j, tmp[fkey])'
  <2> SUFFICES ASSUME NEW j \in flist \ ftodo'
               PROVE  j \in Parts(fkey) /\ RowsOf(staging[fkey][j]) \subseteq RowsOf(tmp'[fkey])
    BY <1>5 DEF Repeats, Parts
  <2>1. CASE j = i
    BY <2>1, <1>1, <1>2, <1>4, <1>6
  <2>2. CASE j # i
    <3>1. j \in flist \ ftodo
      BY <2>2, <1>5
    <3> QED
      BY <3>1, <1>2, <1>4, <1>6 DEF Repeats
  <2> QED
    BY <2>1, <2>2
<1>8. tmp'[fkey] # NoFile
  BY <1>4, <1>6, NoFileAssumption
<1>9. FinalizeCovered'
  <2>1. Parts(fkey)' = Parts(fkey)
    BY <1>5 DEF Parts
  <2> QED
    BY <1>2, <1>5, <1>7, <1>8, <2>1 DEF FinalizeCovered
<1>10. TypeOK'
  BY <1>2, TypeMerge DEF StoreInv
<1>11. StagedRowsDurable'
  BY <1>5, DurableUnchanged DEF StoreInv
<1> QED
  BY <1>9, <1>10, <1>11 DEF StoreInv

(* Publication takes no safe final file away, and the published file holds *)
(* the rows of every listed part.                                          *)
LEMMA PublishKeepsSynced ==
    ASSUME TypeOK, Publish
    PROVE  \A k \in Keys : Synced(k) \subseteq Synced(k)'
<1> SUFFICES ASSUME NEW k \in Keys, NEW f \in Synced(k)
             PROVE  f \in Synced(k)'
  OBVIOUS
<1>1. f \in Finals(k) /\ f \notin unsynced[k]
  BY DEF Synced
<1>2. f \in Finals(k)'
  BY <1>1 DEF Finals, Publish, FirstFile, TypeOK
<1>3. f \notin unsynced'[k]
  <2>1. CASE HasDigest(fkey, tmp[fkey])
    BY <1>1, <2>1 DEF Publish
  <2>2. CASE ~HasDigest(fkey, tmp[fkey])
    <3>1. unsynced' = [unsynced EXCEPT ![fkey] = @ \cup {tmp[fkey]}]
      BY <2>2 DEF Publish
    <3>2. k = fkey => f # tmp[fkey]
      BY <1>1, <2>2 DEF HasDigest
    <3> QED
      BY <1>1, <3>1, <3>2 DEF TypeOK
  <2> QED
    BY <2>1, <2>2
<1> QED
  BY <1>2, <1>3 DEF Synced

LEMMA InvPublish ==
    ASSUME StoreInv, Publish, UNCHANGED arrived
    PROVE  StoreInv'
<1>1. /\ fkey \in Keys /\ flist \subseteq Parts(fkey) /\ tmp[fkey] # NoFile
      /\ \A j \in flist : Repeats(j, tmp[fkey])
  BY DEF Publish, StoreInv, FinalizeCovered, TypeOK
<1>2. tmp[fkey] \in File
  BY <1>1 DEF StoreInv, TypeOK
<1>3. /\ ffile' = tmp[fkey] /\ pc' = "sync" /\ ftodo' = flist
      /\ UNCHANGED <<staging, fkey, flist, staged>>
  BY DEF Publish, CleanupParts
<1>4. ffile' \in Finals(fkey)'
  BY <1>1, <1>2, <1>3 DEF Publish, HasDigest, FirstFile, Finals, StoreInv, TypeOK
<1>5. FinalizeCovered'
  BY <1>1, <1>3, <1>4 DEF FinalizeCovered, Repeats, Parts
<1>6. TypeOK'
  BY <1>1, TypePublish DEF StoreInv
<1>7. StagedRowsDurable'
  <2>1. \A k \in Keys : Parts(k)' = Parts(k)
    BY <1>3 DEF Parts
  <2> QED
    BY <1>3, <2>1, PublishKeepsSynced DEF StagedRowsDurable, StoreInv
<1> QED
  BY <1>5, <1>6, <1>7 DEF StoreInv

LEMMA InvSync ==
    ASSUME StoreInv, SyncDirectory, UNCHANGED arrived
    PROVE  StoreInv'
<1>1. /\ fkey \in Keys /\ ffile \in Finals(fkey)
      /\ \A j \in ftodo : Repeats(j, ffile)
  BY DEF SyncDirectory, StoreInv, FinalizeCovered, TypeOK
<1>2. /\ unsynced' = [unsynced EXCEPT ![fkey] = {}] /\ pc' = "cleanup"
      /\ UNCHANGED <<staging, base, segs, tmp, fkey, flist, ftodo, ffile,
                     crashes, staged, torn>>
  BY DEF SyncDirectory, UnsyncedAfterFsync
<1>3. \A k \in Keys : /\ Finals(k)' = Finals(k) /\ Parts(k)' = Parts(k)
                       /\ Synced(k) \subseteq Synced(k)'
  BY <1>2 DEF Finals, Parts, Synced, StoreInv, TypeOK
<1>4. ffile' \in Synced(fkey)'
  BY <1>1, <1>2, <1>3 DEF Synced, StoreInv, TypeOK
<1>5. FinalizeCovered'
  BY <1>1, <1>2, <1>4 DEF FinalizeCovered, Repeats, Parts
<1>6. TypeOK'
  BY <1>2 DEF StoreInv, TypeOK
<1>7. StagedRowsDurable'
  BY <1>2, <1>3 DEF StagedRowsDurable, StoreInv
<1> QED
  BY <1>5, <1>6, <1>7 DEF StoreInv

(* The unlinked part only repeats rows of a file no power loss takes away. *)
LEMMA InvUnlink ==
    ASSUME StoreInv, UnlinkPart, UNCHANGED arrived
    PROVE  StoreInv'
<1> DEFINE i == Lowest(ftodo)
<1>1. i \in ftodo /\ i \in PartId
  BY NextPartListed DEF UnlinkPart, StoreInv
<1>2. /\ fkey \in Keys /\ ffile \in Synced(fkey)
      /\ \A j \in ftodo : Repeats(j, ffile)
  BY DEF UnlinkPart, StoreInv, FinalizeCovered, TypeOK
<1>3. /\ staging' = [staging EXCEPT ![fkey][i] = NoFile]
      /\ ftodo' = ftodo \ {i} /\ pc' = "cleanup"
      /\ UNCHANGED <<base, segs, tmp, unsynced, fkey, flist, ffile, staged>>
  BY DEF UnlinkPart
<1> HIDE DEF i
<1>4. \A k \in Keys : Synced(k)' = Synced(k)
  BY <1>3 DEF Synced, Finals
<1>5. \A k \in Keys : \A j \in Parts(k) :
         k # fkey \/ j # i => j \in Parts(k)' /\ staging'[k][j] = staging[k][j]
  BY <1>3 DEF Parts, StoreInv, TypeOK
<1>6. FinalizeCovered'
  <2>1. \A j \in ftodo' : Repeats(j, ffile)'
    BY <1>2, <1>3, <1>5 DEF Repeats
  <2> QED
    BY <1>2, <1>3, <1>4, <2>1 DEF FinalizeCovered
<1>7. TypeOK'
  BY TypeUnlink DEF StoreInv
<1>8. StagedRowsDurable'
  <2> SUFFICES ASSUME NEW k \in Keys, NEW r \in staged[k]
               PROVE  \/ \E j \in Parts(k)' : r \in RowsOf(staging'[k][j])
                      \/ \E f \in Synced(k)' : r \in RowsOf(f)
    BY <1>3 DEF StagedRowsDurable
  <2>1. CASE \E f \in Synced(k) : r \in RowsOf(f)
    BY <2>1, <1>4
  <2>2. CASE \E j \in Parts(k) : r \in RowsOf(staging[k][j])
    <3>1. PICK j \in Parts(k) : r \in RowsOf(staging[k][j])
      BY <2>2
    <3>2. CASE k # fkey \/ j # i
      BY <3>1, <3>2, <1>5
    <3>3. CASE k = fkey /\ j = i
      BY <3>1, <3>3, <1>1, <1>2, <1>4 DEF Repeats
    <3> QED
      BY <3>2, <3>3
  <2> QED
    BY <2>1, <2>2 DEF StagedRowsDurable, StoreInv
<1> QED
  BY <1>6, <1>7, <1>8 DEF StoreInv

LEMMA InvStop ==
    ASSUME StoreInv, UNCHANGED arrived, EndFinalize \/ FailFinalize
    PROVE  StoreInv'
<1>1. /\ UNCHANGED <<staging, base, segs, tmp, unsynced, fkey, flist, ftodo,
                     ffile, staged>>
      /\ pc' = "idle" /\ crashes' \in Nat /\ torn' \in BOOLEAN
  <2>1. CASE EndFinalize
    BY <2>1 DEF EndFinalize, diskVars, StoreInv, TypeOK
  <2>2. CASE FailFinalize
    <3>1. torn' \in BOOLEAN
      BY <2>2, Zenon DEF FailFinalize, CutShort
    <3>2. crashes' \in Nat
      BY <2>2 DEF FailFinalize, StoreInv, TypeOK
    <3> QED
      BY <2>2, <3>1, <3>2 DEF FailFinalize, diskVars
  <2> QED
    BY <2>1, <2>2
<1>2. TypeOK'
  BY <1>1 DEF StoreInv, TypeOK
<1>3. FinalizeCovered'
  BY <1>1 DEF FinalizeCovered
<1>4. StagedRowsDurable'
  BY <1>1, DurableUnchanged DEF StoreInv
<1> QED
  BY <1>2, <1>3, <1>4 DEF StoreInv

(* A power loss undoes unsynced renames only. *)
LEMMA CrashKeepsSynced ==
    ASSUME TypeOK, CrashStore
    PROVE  \A k \in Keys : Synced(k) \subseteq Synced(k)'
<1> SUFFICES ASSUME NEW k \in Keys, NEW f \in Synced(k)
             PROVE  f \in Synced(k)'
  OBVIOUS
<1>1. PICK undone \in [Keys -> UNION {SUBSET unsynced[q] : q \in Keys}] :
         /\ \A q \in Keys : undone[q] \subseteq unsynced[q]
         /\ base' = [q \in Keys |->
                       IF base[q] \in undone[q] THEN NoFile ELSE base[q]]
         /\ segs' = [q \in Keys |-> segs[q] \ undone[q]]
         /\ unsynced' = [q \in Keys |-> unsynced[q] \ undone[q]]
  BY DEF CrashStore
<1>2. f \in Finals(k) /\ f \notin unsynced[k] /\ f \notin undone[k]
  BY <1>1 DEF Synced
<1>3. f \in Finals(k)' /\ f \notin unsynced'[k]
  BY <1>1, <1>2 DEF Finals
<1> QED
  BY <1>3 DEF Synced

LEMMA InvCrash ==
    ASSUME StoreInv, CrashStore, UNCHANGED arrived
    PROVE  StoreInv'
<1>1. pc' = "idle" /\ UNCHANGED <<staging, staged>>
  BY DEF CrashStore
<1>2. TypeOK'
  BY TypeCrash DEF StoreInv
<1>3. FinalizeCovered'
  BY <1>1 DEF FinalizeCovered
<1>4. StagedRowsDurable'
  <2>1. \A k \in Keys : Parts(k)' = Parts(k) /\ Synced(k) \subseteq Synced(k)'
    BY <1>1, CrashKeepsSynced DEF Parts, StoreInv
  <2> QED
    BY <1>1, <2>1 DEF StagedRowsDurable, StoreInv
<1> QED
  BY <1>2, <1>3, <1>4 DEF StoreInv

LEMMA StoreInvInit == Init => StoreInv
<1> SUFFICES ASSUME Init PROVE StoreInv
  OBVIOUS
<1>1. <<>> \in File
  BY DEF File
<1>2. TypeOK
  BY <1>1, BoundsAssumption DEF Init, TypeOK, Row
<1> QED
  BY <1>2 DEF Init, StoreInv, FinalizeCovered, StagedRowsDurable

LEMMA StoreInvStep == StoreInv /\ [Next]_vars => StoreInv'
<1> SUFFICES ASSUME StoreInv, [Next]_vars PROVE StoreInv'
  OBVIOUS
<1>1. ASSUME NEW k \in Keys, NEW i \in PartId, NEW n \in 1..2,
             StageNewRows(k, i, n)
      PROVE  StoreInv'
  BY <1>1, InvStage
<1>2. ASSUME NEW k \in Keys, StartFinalize(k), UNCHANGED arrived
      PROVE  StoreInv'
  BY <1>2, InvStart
<1>3. CASE FinalizeStep /\ UNCHANGED arrived
  BY <1>3, InvMerge, InvPublish, InvSync, InvUnlink, InvStop DEF FinalizeStep
<1>4. CASE FailFinalize /\ UNCHANGED arrived
  BY <1>4, InvStop
<1>5. CASE CrashStore /\ UNCHANGED arrived
  BY <1>5, InvCrash
<1>6. CASE UNCHANGED vars
  <2>1. UNCHANGED <<staging, base, segs, tmp, unsynced, pc, fkey, flist, ftodo,
                    ffile, arrived, crashes, staged, torn>>
    BY <1>6 DEF vars, storeVars, diskVars, finVars
  <2> QED
    BY <2>1 DEF StoreInv, TypeOK, FinalizeCovered, Repeats, StagedRowsDurable,
                Parts, Synced, Finals
<1> QED
  BY <1>1, <1>2, <1>3, <1>4, <1>5, <1>6 DEF Next

(* In every reachable state the variables keep their types, what finalize  *)
(* may delete is in its file, and every acknowledged row is on disk: the   *)
(* inductive invariant (parquet_store.py finalize, write_staging_part).    *)
THEOREM StoreInvHolds == Spec => []StoreInv
  BY StoreInvInit, StoreInvStep, PTL DEF Spec

(* Every variable keeps its type, for any number of partitions, parts,     *)
(* rows and crashes (parquet_store.py finalize and write_staging_part).    *)
THEOREM TypeCorrect == Spec => []TypeOK
<1>1. StoreInv => TypeOK
  BY DEF StoreInv
<1> QED
  BY <1>1, StoreInvHolds, PTL

(* While finalize() runs, what it may delete is already in its file.       *)
THEOREM FinalizeCoveredHolds == Spec => []FinalizeCovered
<1>1. StoreInv => FinalizeCovered
  BY DEF StoreInv
<1> QED
  BY <1>1, StoreInvHolds, PTL

(* No acknowledged row is ever lost by finalize(), by a failure inside it, *)
(* by a crash or by a power loss (parquet_store.py:75-164).                *)
THEOREM DurabilityHolds == Spec => []StagedRowsDurable
<1>1. StoreInv => StagedRowsDurable
  BY DEF StoreInv
<1> QED
  BY <1>1, StoreInvHolds, PTL

-----------------------------------------------------------------------------
(* What a step may never do to a published file. *)
KeepsFinalFiles ==
    \A k \in Keys : /\ Synced(k) \subseteq Finals(k)'
                    /\ base[k] \in Synced(k) => base'[k] = base[k]

(* An absent snapshots.parquet is no final file. *)
LEMMA SyncedBaseExists ==
    ASSUME TypeOK, NEW k \in Keys, base[k] \in Synced(k)
    PROVE  base[k] # NoFile
  BY NoFileAssumption DEF TypeOK, Synced, Finals

LEMMA KeepsUnlessPublished ==
    ASSUME UNCHANGED <<base, segs>>
    PROVE  KeepsFinalFiles
  BY DEF KeepsFinalFiles, Synced, Finals

LEMMA KeepsOnPublish ==
    ASSUME TypeOK, Publish
    PROVE  KeepsFinalFiles
<1> SUFFICES ASSUME NEW k \in Keys
             PROVE  /\ Synced(k) \subseteq Finals(k)'
                    /\ base[k] \in Synced(k) => base'[k] = base[k]
  BY DEF KeepsFinalFiles
<1>1. Synced(k) \subseteq Finals(k)'
  BY PublishKeepsSynced DEF Synced
<1>2. base[k] # NoFile => base'[k] = base[k]
  BY DEF Publish, FirstFile, TypeOK
<1> QED
  BY <1>1, <1>2, SyncedBaseExists

LEMMA KeepsOnCrash ==
    ASSUME TypeOK, CrashStore
    PROVE  KeepsFinalFiles
<1> SUFFICES ASSUME NEW k \in Keys
             PROVE  /\ Synced(k) \subseteq Finals(k)'
                    /\ base[k] \in Synced(k) => base'[k] = base[k]
  BY DEF KeepsFinalFiles
<1>1. Synced(k) \subseteq Finals(k)'
  BY CrashKeepsSynced DEF Synced
<1>2. base[k] \in Synced(k) => base'[k] = base[k]
  BY DEF CrashStore, Synced
<1> QED
  BY <1>1, <1>2

(* snapshots.parquet and the segments are never overwritten, renamed away  *)
(* or deleted by any step (parquet_store.py:141-150 and 3-13).             *)
THEOREM ImmutabilityHolds == Spec => FinalFilesImmutable
<1>1. TypeOK /\ [Next]_vars => [KeepsFinalFiles]_vars
  <2> SUFFICES ASSUME TypeOK, Next PROVE KeepsFinalFiles
    OBVIOUS
  <2>1. ASSUME NEW k \in Keys, NEW i \in PartId, NEW n \in 1..2,
               StageNewRows(k, i, n)
        PROVE  KeepsFinalFiles
    BY <2>1, KeepsUnlessPublished DEF StageNewRows, WriteStagingPart
  <2>2. ASSUME NEW k \in Keys, StartFinalize(k)
        PROVE  KeepsFinalFiles
    BY <2>2, KeepsUnlessPublished DEF StartFinalize
  <2>3. CASE FinalizeStep
    <3>1. MergePart \/ SyncDirectory \/ UnlinkPart \/ EndFinalize
            => UNCHANGED <<base, segs>>
      BY DEF MergePart, SyncDirectory, UnlinkPart, EndFinalize, diskVars
    <3> QED
      BY <2>3, <3>1, KeepsUnlessPublished, KeepsOnPublish DEF FinalizeStep
  <2>4. CASE FailFinalize
    BY <2>4, KeepsUnlessPublished DEF FailFinalize, diskVars
  <2>5. CASE CrashStore
    BY <2>5, KeepsOnCrash
  <2> QED
    BY <2>1, <2>2, <2>3, <2>4, <2>5 DEF Next
<1> QED
  BY <1>1, TypeCorrect, PTL DEF Spec, FinalFilesImmutable, KeepsFinalFiles
-----------------------------------------------------------------------------
(* Republication.  A file is the rows of its parts in part order: which    *)
(* parts and which order determine it, so merging the same parts again     *)
(* gives the file, and the digest, of the first time.                      *)
RowsOfParts(k, S) == UNION {RowsOf(staging[k][i]) : i \in S}

PartBefore(k, r, q) ==
    \E i, j \in Parts(k) : /\ r \in RowsOf(staging[k][i]) /\ q \in RowsOf(staging[k][j])
                           /\ i < j \/ (i = j /\ r < q)
InPartOrder(k, f) == \A m, n \in DOMAIN f : m < n => PartBefore(k, f[m], f[n])

FreshParts ==
    \A k \in Keys :
        /\ \A i \in Parts(k) : staging[k][i] # <<>> /\ Increasing(staging[k][i])
        /\ \A i, j \in Parts(k) : i # j => RowsOf(staging[k][i]) \cap RowsOf(staging[k][j]) = {}
        /\ StagedRows(k) \cup FinalRows(k) \subseteq 1..arrived

MergedInOrder ==
    pc = "merge" =>
        /\ flist # {} /\ \A i \in flist \ ftodo, j \in ftodo : i < j
        /\ RowsOf(tmp[fkey]) = RowsOfParts(fkey, flist \ ftodo)
        /\ InPartOrder(fkey, tmp[fkey])

Apart(k, f) == RowsOf(f) \cap StagedRows(k) = {}
AllApart(k) == \A f \in Finals(k) : Apart(k, f)
Whole(k, f) == f \in Finals(k) /\ RowsOf(f) = StagedRows(k) /\ InPartOrder(k, f)

(* No part repeats a published row; or one file repeats all of them, and   *)
(* merging them yields that file.                                          *)
Recoverable(k) ==
    \/ AllApart(k)
    \/ \E f \in Finals(k) : Whole(k, f) /\ \A g \in Finals(k) \ {f} : Apart(k, g)

Cleaning ==
    pc \in {"sync", "cleanup"} =>
        /\ \A f \in Finals(fkey) \ {ffile} : Apart(fkey, f)
        /\ \A i \in Parts(fkey) \ ftodo : RowsOf(staging[fkey][i]) \cap RowsOf(ffile) = {}
        /\ pc = "sync" => ftodo = flist
        /\ ftodo = flist => RowsOf(ffile) = RowsOfParts(fkey, flist) /\ InPartOrder(fkey, ffile)

MergeListed == pc = "merge" => Parts(fkey) = flist \/ AllApart(fkey)

Untorn ==
    /\ \A k \in Keys : ~PublishedTwice(k) /\ (~CleaningUp(k) => Recoverable(k))
    /\ Cleaning /\ MergeListed

RepublishInv == StoreInv /\ FreshParts /\ MergedInOrder /\ (~torn => Untorn)

-----------------------------------------------------------------------------
LEMMA FileFacts ==
    ASSUME NEW f \in File
    PROVE  /\ DOMAIN f = 1..Len(f) /\ Len(f) \in Nat /\ RowsOf(f) \subseteq Nat
           /\ \A n \in DOMAIN f : n \in Nat /\ f[n] \in RowsOf(f) /\ f[n] \in Nat
           /\ \A r \in RowsOf(f) : \E n \in DOMAIN f : f[n] = r
           /\ RowsOf(f) = {} => f = <<>>
<1>1. DOMAIN f = 1..Len(f) /\ Len(f) \in Nat /\ \A n \in DOMAIN f : n \in Nat /\ f[n] \in Nat
  BY DEF File, Row
<1>2. f # <<>> => 1 \in DOMAIN f
  BY <1>1, EmptySeq DEF File
<1> QED BY <1>1, <1>2 DEF RowsOf

(* Two files of the same rows in the same order are the same file. *)
LEMMA SameOrderSameFile ==
    ASSUME NEW k, NEW f \in File, NEW g \in File, RowsOf(f) = RowsOf(g),
           InPartOrder(k, f), InPartOrder(k, g),
           \A r, q : ~(PartBefore(k, r, q) /\ PartBefore(k, q, r))
    PROVE  f = g
<1>1. /\ DOMAIN f = 1..Len(f) /\ Len(f) \in Nat /\ DOMAIN g = 1..Len(g) /\ Len(g) \in Nat
      /\ \A n \in DOMAIN f : n \in Nat /\ \E m \in DOMAIN g : g[m] = f[n]
      /\ \A n \in DOMAIN g : n \in Nat /\ \E m \in DOMAIN f : f[m] = g[n]
  BY FileFacts
<1>2. /\ \A m, n \in DOMAIN f : m < n => PartBefore(k, f[m], f[n]) /\ f[m] # f[n]
      /\ \A m, n \in DOMAIN g : m < n => PartBefore(k, g[m], g[n]) /\ g[m] # g[n]
  BY DEF InPartOrder
<1>3. \A n \in DOMAIN f \cap DOMAIN g : f[n] = g[n]
  <2> DEFINE D == {n \in DOMAIN f \cap DOMAIN g : f[n] # g[n]}
  <2> SUFFICES ASSUME D # {} PROVE FALSE
    OBVIOUS
  <2>1. D \subseteq Nat
    BY <1>1
  <2>2. PICK n \in D : \A j \in D : <<j, n>> \notin OpToRel(<, Nat)
    BY <2>1, WFMin, NatLessThanWellFounded, Zenon
  <2>3. /\ n \in DOMAIN f /\ n \in DOMAIN g /\ f[n] # g[n] /\ n \in Nat
        /\ \A j \in DOMAIN f \cap DOMAIN g : j < n => f[j] = g[j]
    BY <1>1, <2>1, <2>2 DEF OpToRel
  <2>4. PICK m \in DOMAIN g : g[m] = f[n]
    BY <1>1, <2>3
  <2>5. PICK p \in DOMAIN f : f[p] = g[n]
    BY <1>1, <2>3
  <2>6. n < m
    <3>1. m \in Nat /\ m # n
      BY <1>1, <2>3, <2>4
    <3>2. CASE m < n
      <4>1. m \in DOMAIN f
        BY <1>1, <2>3, <3>1, <3>2
      <4> QED BY <1>2, <2>3, <2>4, <3>2, <4>1
    <3> QED BY <2>3, <3>1, <3>2
  <2>7. n < p
    <3>1. p \in Nat /\ p # n
      BY <1>1, <2>3, <2>5
    <3>2. CASE p < n
      <4>1. p \in DOMAIN g
        BY <1>1, <2>3, <3>1, <3>2
      <4> QED BY <1>2, <2>3, <2>5, <3>2, <4>1
    <3> QED BY <2>3, <3>1, <3>2
  <2>8. PartBefore(k, g[n], f[n]) /\ PartBefore(k, f[n], g[n])
    BY <1>2, <2>3, <2>4, <2>5, <2>6, <2>7
  <2> QED BY <2>8
<1>4. Len(f) = Len(g)
  <2>1. CASE Len(f) < Len(g)
    <3> DEFINE n == Len(f) + 1
    <3>1. n \in DOMAIN g /\ n \in Nat
      BY <1>1, <2>1
    <3>2. PICK m \in DOMAIN f : f[m] = g[n]
      BY <1>1, <3>1
    <3>3. m \in DOMAIN g /\ m < n
      BY <1>1, <2>1
    <3> QED BY <1>2, <1>3, <3>1, <3>2, <3>3
  <2>2. CASE Len(g) < Len(f)
    <3> DEFINE n == Len(g) + 1
    <3>1. n \in DOMAIN f /\ n \in Nat
      BY <1>1, <2>2
    <3>2. PICK m \in DOMAIN g : g[m] = f[n]
      BY <1>1, <3>1
    <3>3. m \in DOMAIN f /\ m < n
      BY <1>1, <2>2
    <3> QED BY <1>2, <1>3, <3>1, <3>2, <3>3
  <2>3. Len(f) \in Nat /\ Len(g) \in Nat
    BY <1>1
  <2> QED BY <2>1, <2>2, <2>3
<1> QED BY <1>1, <1>3, <1>4, SeqEqual DEF File

(* Disjoint parts are in one order only. *)
LEMMA PartBeforeAsymmetric ==
    ASSUME StoreInv, FreshParts, NEW k \in Keys
    PROVE  \A r, q : ~(PartBefore(k, r, q) /\ PartBefore(k, q, r))
<1> SUFFICES ASSUME NEW r, NEW q, PartBefore(k, r, q), PartBefore(k, q, r) PROVE FALSE
  OBVIOUS
<1>1. PICK i \in Parts(k), j \in Parts(k) :
         /\ r \in RowsOf(staging[k][i]) /\ q \in RowsOf(staging[k][j])
         /\ i < j \/ (i = j /\ r < q)
  BY DEF PartBefore
<1>2. PICK a \in Parts(k), b \in Parts(k) :
         /\ q \in RowsOf(staging[k][a]) /\ r \in RowsOf(staging[k][b])
         /\ a < b \/ (a = b /\ q < r)
  BY DEF PartBefore
<1>3. i = b /\ j = a
  BY <1>1, <1>2 DEF FreshParts
<1>4. i \in Nat /\ j \in Nat /\ staging[k][i] \in File /\ staging[k][j] \in File
  BY <1>1, BoundsAssumption DEF Parts, PartId, StoreInv, TypeOK
<1>5. r \in Nat /\ q \in Nat
  BY <1>1, <1>4, FileFacts
<1> QED BY <1>1, <1>2, <1>3, <1>4, <1>5

-----------------------------------------------------------------------------
LEMMA PartFacts ==
    ASSUME StoreInv, NEW k \in Keys
    PROVE  /\ Parts(k) \subseteq PartId /\ Parts(k) \subseteq Nat
           /\ \A i \in Parts(k) : staging[k][i] \in File
                                  /\ RowsOf(staging[k][i]) \subseteq StagedRows(k)
           /\ \A f \in Finals(k) : f \in File /\ RowsOf(f) \subseteq FinalRows(k)
           /\ AllApart(k) <=> StagedRows(k) \cap FinalRows(k) = {}
           /\ NoFile \notin Finals(k)
<1>1. /\ Parts(k) \subseteq PartId /\ Parts(k) \subseteq Nat
      /\ \A i \in Parts(k) : staging[k][i] \in File
                             /\ RowsOf(staging[k][i]) \subseteq StagedRows(k)
      /\ \A f \in Finals(k) : f \in File /\ RowsOf(f) \subseteq FinalRows(k)
  BY BoundsAssumption DEF StoreInv, TypeOK, Parts, StagedRows, FinalRows, Finals, PartId
<1>2. AllApart(k) <=> StagedRows(k) \cap FinalRows(k) = {}
  BY DEF AllApart, Apart, FinalRows
<1> QED BY <1>1, <1>2, NoFileAssumption

(* What is said of a partition depends on its parts and final files.       *)
LEMMA SamePartition ==
    ASSUME NEW k \in Keys, staging'[k] = staging[k]
    PROVE  /\ Parts(k)' = Parts(k) /\ StagedRows(k)' = StagedRows(k)
           /\ \A S : RowsOfParts(k, S)' = RowsOfParts(k, S)
           /\ \A f : InPartOrder(k, f)' <=> InPartOrder(k, f)
<1>1. Parts(k)' = Parts(k)
  BY DEF Parts
<1>2. \A r, q : PartBefore(k, r, q)' <=> PartBefore(k, r, q)
  BY <1>1 DEF PartBefore
<1> QED BY <1>1, <1>2 DEF StagedRows, RowsOfParts, InPartOrder

LEMMA FewerFinals ==
    ASSUME StoreInv, NEW k \in Keys, staging'[k] = staging[k], Finals(k)' \subseteq Finals(k)
    PROVE  /\ AllApart(k) => AllApart(k)'
           /\ Recoverable(k) => Recoverable(k)'
           /\ FinalRows(k)' \subseteq FinalRows(k)
<1>1. StagedRows(k)' = StagedRows(k) /\ \A f : InPartOrder(k, f)' <=> InPartOrder(k, f)
  BY SamePartition
<1>2. \A f : Apart(k, f)' <=> Apart(k, f)
  BY <1>1 DEF Apart
<1>3. AllApart(k) => AllApart(k)'
  BY <1>2 DEF AllApart
<1>4. FinalRows(k)' \subseteq FinalRows(k)
  BY DEF FinalRows
<1>5. ASSUME NEW f \in Finals(k), Whole(k, f), \A g \in Finals(k) \ {f} : Apart(k, g)
      PROVE  Recoverable(k)'
  <2>1. CASE f \in Finals(k)'
    <3>1. Whole(k, f)'
      BY <1>1, <1>5, <2>1 DEF Whole
    <3>2. \A g \in Finals(k)' \ {f} : Apart(k, g)'
      BY <1>2, <1>5
    <3> QED BY <2>1, <3>1, <3>2 DEF Recoverable
  <2>2. CASE f \notin Finals(k)'
    <3>1. AllApart(k)'
      BY <1>2, <1>5, <2>2 DEF AllApart
    <3> QED BY <3>1 DEF Recoverable
  <2> QED BY <2>1, <2>2
<1> QED BY <1>3, <1>4, <1>5 DEF Recoverable

LEMMA FewerFinalsOnce ==
    ASSUME StoreInv, NEW k \in Keys, Finals(k)' \subseteq Finals(k), segs'[k] \subseteq segs[k],
           base'[k] \in {base[k], NoFile}, ~PublishedTwice(k)
    PROVE  ~PublishedTwice(k)'
<1>1. base'[k] \notin segs'[k]
  BY NoFileAssumption DEF PublishedTwice, StoreInv, TypeOK
<1> QED BY <1>1 DEF PublishedTwice

(* Steps that leave the parts and final files where they are. *)
LEMMA FreshSame ==
    ASSUME StoreInv, FreshParts, UNCHANGED <<staging, arrived>>,
           \A k \in Keys : Finals(k)' \subseteq Finals(k)
    PROVE  FreshParts'
<1>1. \A k \in Keys : /\ Parts(k)' = Parts(k) /\ StagedRows(k)' = StagedRows(k)
                      /\ FinalRows(k)' \subseteq FinalRows(k)
  BY SamePartition, FewerFinals
<1> QED BY <1>1 DEF FreshParts, Increasing

LEMMA RepublishInvStart ==
    ASSUME RepublishInv, NEW k \in Keys, StartFinalize(k), UNCHANGED arrived
    PROVE  RepublishInv'
<1>1. /\ pc = "idle" /\ Parts(k) # {} /\ pc' = "merge" /\ fkey' = k /\ flist' = Parts(k)
      /\ ftodo' = Parts(k) /\ tmp' = [tmp EXCEPT ![k] = <<>>]
      /\ UNCHANGED <<staging, base, segs, unsynced, torn>>
  BY DEF StartFinalize
<1>2. StoreInv' /\ StoreInv
  BY InvStart DEF RepublishInv
<1>3. \A q \in Keys : /\ Finals(q)' = Finals(q) /\ staging'[q] = staging[q]
  BY <1>1 DEF Finals
<1>4. FreshParts'
  BY <1>1, <1>2, <1>3, FreshSame DEF RepublishInv
<1>5. MergedInOrder'
  <2>1. tmp'[fkey'] = <<>> /\ RowsOf(<<>>) = {} /\ flist' \ ftodo' = {}
    BY <1>1, <1>2 DEF StoreInv, TypeOK, RowsOf
  <2> QED BY <1>1, <2>1 DEF MergedInOrder, RowsOfParts, InPartOrder
<1>6. ASSUME ~torn' PROVE Untorn'
  <2>1. Untorn
    BY <1>1, <1>6 DEF RepublishInv
  <2>2. \A q \in Keys : ~CleaningUp(q)
    BY <1>1 DEF CleaningUp
  <2>3. \A q \in Keys : ~PublishedTwice(q)' /\ Recoverable(q)'
    BY <1>1, <1>2, <1>3, <2>1, <2>2, FewerFinals, FewerFinalsOnce DEF Untorn
  <2>4. Cleaning' /\ MergeListed'
    BY <1>1 DEF Cleaning, MergeListed, Parts
  <2> QED BY <2>3, <2>4 DEF Untorn
<1> QED BY <1>2, <1>4, <1>5, <1>6 DEF RepublishInv

(* The rows of a file followed by those of the next part. *)
LEMMA ConcatInOrder ==
    ASSUME StoreInv, FreshParts, NEW k \in Keys, NEW S \in SUBSET Parts(k), NEW i \in Parts(k),
           NEW f \in File, RowsOf(f) = RowsOfParts(k, S), InPartOrder(k, f), \A j \in S : j < i
    PROVE  /\ RowsOf(f \o staging[k][i]) = RowsOfParts(k, S \cup {i})
           /\ InPartOrder(k, f \o staging[k][i])
<1> DEFINE g == staging[k][i]
           h == f \o g
<1>1. /\ g \in File /\ Increasing(g) /\ h \in File
      /\ RowsOf(f) \cup RowsOf(g) \subseteq RowsOf(h)
  BY PartFacts, RowsOfConcat DEF FreshParts
<1>2. /\ DOMAIN f = 1..Len(f) /\ Len(f) \in Nat /\ DOMAIN g = 1..Len(g) /\ Len(g) \in Nat
      /\ \A n \in DOMAIN g : n \in Nat /\ g[n] \in Nat
  BY <1>1, FileFacts
<1>3. /\ DOMAIN h = 1..(Len(f) + Len(g))
      /\ \A n \in 1..(Len(f) + Len(g)) : h[n] = IF n <= Len(f) THEN f[n] ELSE g[n - Len(f)]
  BY <1>1, ConcatProperties DEF File
<1> HIDE DEF g, h
<1>4. \A n \in DOMAIN h : \/ n <= Len(f) /\ n \in DOMAIN f /\ h[n] = f[n]
                          \/ Len(f) < n /\ n - Len(f) \in DOMAIN g /\ h[n] = g[n - Len(f)]
  BY <1>2, <1>3
<1>5. RowsOf(h) = RowsOf(f) \cup RowsOf(g)
  BY <1>1, <1>4 DEF RowsOf
<1>6. RowsOf(h) = RowsOfParts(k, S \cup {i})
  BY <1>5 DEF RowsOfParts, g
<1>7. InPartOrder(k, h)
  <2> SUFFICES ASSUME NEW m \in DOMAIN h, NEW n \in DOMAIN h, m < n
               PROVE  PartBefore(k, h[m], h[n])
    BY DEF InPartOrder
  <2>0. m \in Nat /\ n \in Nat
    BY <1>2, <1>3
  <2>1. CASE n <= Len(f)
    <3>1. m \in DOMAIN f /\ n \in DOMAIN f /\ h[m] = f[m] /\ h[n] = f[n]
      BY <1>2, <1>4, <2>0, <2>1
    <3> QED BY <3>1 DEF InPartOrder
  <2>2. CASE m > Len(f)
    <3>1. /\ m - Len(f) \in DOMAIN g /\ n - Len(f) \in DOMAIN g
          /\ h[m] = g[m - Len(f)] /\ h[n] = g[n - Len(f)] /\ m - Len(f) < n - Len(f)
      BY <1>2, <1>4, <2>0, <2>2
    <3>2. h[m] < h[n] /\ h[m] \in RowsOf(g) /\ h[n] \in RowsOf(g)
      BY <1>1, <3>1 DEF Increasing, RowsOf
    <3> QED BY <3>2 DEF PartBefore, g
  <2>3. CASE m <= Len(f) /\ n > Len(f)
    <3>1. h[m] \in RowsOfParts(k, S) /\ h[n] \in RowsOf(g)
      BY <1>2, <1>4, <2>0, <2>3 DEF RowsOf
    <3>2. PICK j \in S : h[m] \in RowsOf(staging[k][j])
      BY <3>1 DEF RowsOfParts
    <3> QED BY <3>1, <3>2 DEF PartBefore, g
  <2> QED BY <1>2, <2>0, <2>1, <2>2, <2>3
<1> QED BY <1>6, <1>7 DEF g, h

LEMMA RepublishInvMerge ==
    ASSUME RepublishInv, MergePart, UNCHANGED arrived
    PROVE  RepublishInv'
<1> DEFINE i == Lowest(ftodo)
<1>1. /\ pc = "merge" /\ pc' = "merge" /\ i \in ftodo /\ ftodo' = ftodo \ {i}
      /\ tmp' = [tmp EXCEPT ![fkey] = tmp[fkey] \o staging[fkey][i]]
      /\ UNCHANGED <<staging, base, segs, unsynced, fkey, flist, torn>>
      /\ ftodo \subseteq Parts(fkey) /\ flist \subseteq Parts(fkey) /\ fkey \in Keys
      /\ ftodo \subseteq flist /\ tmp[fkey] \in File
  BY NextPartListed DEF MergePart, RepublishInv, StoreInv, FinalizeCovered, TypeOK
<1>2. StoreInv' /\ StoreInv
  BY InvMerge DEF RepublishInv
<1>3. \A j \in ftodo' : i < j
  <2>1. ftodo \subseteq PartId /\ ftodo \subseteq Nat
    BY <1>1, <1>2, PartFacts
  <2>2. \A j \in ftodo : i <= j
    BY <1>1, <2>1, LowestIsLeast
  <2>3. i \in Nat /\ \A j \in ftodo' : j \in Nat /\ j \in ftodo /\ j # i
    BY <1>1, <2>1
  <2> HIDE DEF i
  <2> QED BY <2>2, <2>3
<1> HIDE DEF i
<1>4. \A q \in Keys : /\ Finals(q)' = Finals(q) /\ staging'[q] = staging[q]
  BY <1>1 DEF Finals
<1>5. FreshParts'
  BY <1>1, <1>2, <1>4, FreshSame DEF RepublishInv
<1>6. MergedInOrder'
  <2> DEFINE S == flist \ ftodo
  <2>1. /\ flist # {} /\ \A j \in S, m \in ftodo : j < m
        /\ RowsOf(tmp[fkey]) = RowsOfParts(fkey, S) /\ InPartOrder(fkey, tmp[fkey])
        /\ S \in SUBSET Parts(fkey) /\ i \in Parts(fkey)
    BY <1>1 DEF RepublishInv, MergedInOrder
  <2>2. flist' \ ftodo' = S \cup {i}
    BY <1>1
  <2>3. \A j \in S \cup {i}, m \in ftodo' : j < m
    BY <1>1, <1>3, <2>1
  <2>4. tmp'[fkey] = tmp[fkey] \o staging[fkey][i]
    BY <1>1, <1>2 DEF StoreInv, TypeOK
  <2> HIDE DEF S
  <2> DEFINE f == tmp[fkey] \o staging[fkey][i]
  <2>5. RowsOf(f) = RowsOfParts(fkey, S \cup {i}) /\ InPartOrder(fkey, f)
    <3>1. FreshParts /\ \A j \in S : j < i
      BY <1>1, <2>1 DEF RepublishInv
    <3> QED BY <1>1, <1>2, <2>1, <3>1, ConcatInOrder
  <2> HIDE DEF f
  <2>6. tmp'[fkey'] = f
    BY <1>1, <2>4 DEF f
  <2>7. (RowsOf(tmp[fkey]) = RowsOfParts(fkey, flist \ ftodo))'
    BY <1>1, <2>2, <2>5, <2>6 DEF RowsOfParts
  <2>8. InPartOrder(fkey, tmp[fkey])'
    <3>1. ASSUME NEW m \in DOMAIN f, NEW n \in DOMAIN f, m < n
          PROVE  PartBefore(fkey, f[m], f[n])
      BY <2>5, <3>1 DEF InPartOrder
    <3>2. ASSUME NEW m \in DOMAIN f, NEW n \in DOMAIN f, m < n
          PROVE  \E a, b \in {c \in PartId : staging'[fkey'][c] # NoFile} :
                    /\ f[m] \in RowsOf(staging'[fkey'][a]) /\ f[n] \in RowsOf(staging'[fkey'][b])
                    /\ a < b \/ (a = b /\ f[m] < f[n])
      BY <1>1, <3>1, <3>2 DEF PartBefore, Parts
    <3> QED BY <2>6, <3>2 DEF InPartOrder, PartBefore, Parts
  <2> QED BY <1>1, <2>1, <2>2, <2>3, <2>7, <2>8 DEF MergedInOrder
<1>7. ASSUME ~torn' PROVE Untorn'
  <2>1. Untorn
    BY <1>1, <1>7 DEF RepublishInv
  <2>2. \A q \in Keys : ~CleaningUp(q)
    BY <1>1 DEF CleaningUp
  <2>3. \A q \in Keys : ~PublishedTwice(q)' /\ Recoverable(q)'
    BY <1>1, <1>2, <1>4, <2>1, <2>2, FewerFinals, FewerFinalsOnce DEF Untorn
  <2>4. Cleaning'
    BY <1>1 DEF Cleaning
  <2>5. MergeListed'
    <3>1. Parts(fkey)' = Parts(fkey) /\ (AllApart(fkey) => AllApart(fkey)')
      BY <1>1, <1>2, <1>4, SamePartition, FewerFinals
    <3> QED BY <1>1, <2>1, <3>1 DEF MergeListed, Untorn
  <2> QED BY <2>3, <2>4, <2>5 DEF Untorn
<1> QED BY <1>2, <1>5, <1>6, <1>7 DEF RepublishInv

(* The rows of a new part are numbered after every row there is. *)
LEMMA NewRowsAreNew ==
    ASSUME arrived \in Nat, NEW n \in 1..2, NEW rows, rows = [j \in 1..n |-> arrived + j]
    PROVE  /\ rows \in File /\ rows # <<>> /\ Increasing(rows)
           /\ RowsOf(rows) = (arrived + 1)..(arrived + n)
<1>1. rows \in File
  BY NewPartIsFile
<1>2. DOMAIN rows = 1..n /\ \A j \in 1..n : rows[j] = arrived + j
  OBVIOUS
<1>3. rows # <<>>
  BY <1>2
<1>4. Increasing(rows)
  BY <1>2 DEF Increasing
<1>5. RowsOf(rows) = (arrived + 1)..(arrived + n)
  <2>1. \A r \in (arrived + 1)..(arrived + n) : r - arrived \in 1..n /\ rows[r - arrived] = r
    BY <1>2
  <2>2. \A j \in 1..n : rows[j] \in (arrived + 1)..(arrived + n)
    BY <1>2
  <2> QED BY <1>2, <2>1, <2>2 DEF RowsOf
<1> QED BY <1>1, <1>3, <1>4, <1>5

LEMMA RepublishInvStage ==
    ASSUME RepublishInv, NEW k \in Keys, NEW i \in PartId, NEW n \in 1..2,
           StageNewRows(k, i, n)
    PROVE  RepublishInv'
<1> DEFINE rows == [j \in 1..n |-> arrived + j]
<1>1. /\ staging[k][i] = NoFile /\ staging' = [staging EXCEPT ![k][i] = rows]
      /\ torn' = (torn \/ Debris(k)) /\ arrived' = arrived + n
      /\ UNCHANGED <<base, segs, unsynced, tmp, pc, fkey, flist, ftodo, ffile>>
  BY DEF StageNewRows, WriteStagingPart, finVars
<1>2. StoreInv' /\ StoreInv
  BY InvStage DEF RepublishInv
<1>3. /\ arrived \in Nat /\ n \in Nat /\ rows \in File /\ rows # <<>> /\ Increasing(rows)
      /\ RowsOf(rows) = (arrived + 1)..(arrived + n) /\ rows # NoFile
  <2>1. arrived \in Nat
    BY <1>2 DEF StoreInv, TypeOK
  <2> HIDE DEF rows
  <2>2. rows = [j \in 1..n |-> arrived + j]
    BY DEF rows
  <2>3. rows \in File /\ rows # <<>> /\ Increasing(rows) /\ RowsOf(rows) = (arrived + 1)..(arrived + n)
    BY <2>1, <2>2, NewRowsAreNew
  <2> QED BY <2>1, <2>3, NoFileAssumption
<1>4. \A r \in RowsOf(rows) : r \notin 1..arrived /\ r \in 1..arrived'
  BY <1>1, <1>3
<1>5. 1..arrived \subseteq 1..arrived'
  BY <1>1, <1>3
<1> HIDE DEF rows
<1>6. \A q \in Keys : /\ Finals(q)' = Finals(q) /\ FinalRows(q)' = FinalRows(q)
                      /\ q # k => staging'[q] = staging[q]
  BY <1>1, <1>2 DEF Finals, FinalRows, StoreInv, TypeOK
<1>7. /\ Parts(k)' = Parts(k) \cup {i} /\ i \notin Parts(k) /\ staging'[k][i] = rows
      /\ \A j \in Parts(k) : staging'[k][j] = staging[k][j]
  BY <1>1, <1>2, <1>3 DEF Parts, StoreInv, TypeOK
<1>8. StagedRows(k)' = StagedRows(k) \cup RowsOf(rows)
  BY <1>7 DEF StagedRows
<1>9. \A q \in Keys : Parts(q) \subseteq Parts(q)'
                      /\ \A j \in Parts(q) : staging'[q][j] = staging[q][j]
  BY <1>6, <1>7 DEF Parts
<1>10. FreshParts
  BY DEF RepublishInv
<1>11. FreshParts'
  <2> SUFFICES ASSUME NEW q \in Keys
        PROVE /\ \A j \in Parts(q)' : staging'[q][j] # <<>> /\ Increasing(staging'[q][j])
              /\ \A a, b \in Parts(q)' : a # b => RowsOf(staging'[q][a]) \cap RowsOf(staging'[q][b]) = {}
              /\ StagedRows(q)' \cup FinalRows(q)' \subseteq 1..arrived'
    BY DEF FreshParts, Increasing
  <2>1. CASE q # k
    <3>1. Parts(q)' = Parts(q) /\ StagedRows(q)' = StagedRows(q)
      BY <1>6, <2>1, SamePartition
    <3> QED BY <1>5, <1>6, <1>10, <2>1, <3>1 DEF FreshParts
  <2>2. CASE q = k
    <3>1. \A j \in Parts(k) : RowsOf(staging[k][j]) \subseteq 1..arrived
      BY <1>2, <1>10, PartFacts DEF FreshParts
    <3>2. \A j \in Parts(k) : RowsOf(staging[k][j]) \cap RowsOf(rows) = {}
      BY <1>4, <3>1
    <3>3. \A j \in Parts(k)' : staging'[k][j] # <<>> /\ Increasing(staging'[k][j])
      BY <1>3, <1>7, <1>10 DEF FreshParts
    <3>4. \A a, b \in Parts(k)' : a # b => RowsOf(staging'[k][a]) \cap RowsOf(staging'[k][b]) = {}
      BY <1>7, <1>10, <3>2 DEF FreshParts
    <3>5. StagedRows(k)' \cup FinalRows(k)' \subseteq 1..arrived'
      BY <1>4, <1>5, <1>6, <1>8, <1>10 DEF FreshParts
    <3> QED BY <2>2, <3>3, <3>4, <3>5
  <2> QED BY <2>1, <2>2
<1>12. \A q \in Keys : \A S \in SUBSET Parts(q) :
          UNION {RowsOf(staging'[q][j]) : j \in S} = RowsOfParts(q, S)
  BY <1>9 DEF RowsOfParts
<1>13. \A q \in Keys : \A r, p : PartBefore(q, r, p) => PartBefore(q, r, p)'
  BY <1>9 DEF PartBefore
<1>14. \A q \in Keys : \A f : InPartOrder(q, f) => InPartOrder(q, f)'
  BY <1>13 DEF InPartOrder
<1>15. fkey \in Keys /\ ftodo \subseteq flist
  BY <1>2 DEF StoreInv, TypeOK
<1>16. MergedInOrder'
  <2> SUFFICES ASSUME pc = "merge" PROVE MergedInOrder'
    BY <1>1 DEF MergedInOrder
  <2>1. /\ flist # {} /\ \A a \in flist \ ftodo, b \in ftodo : a < b
        /\ RowsOf(tmp[fkey]) = RowsOfParts(fkey, flist \ ftodo)
        /\ InPartOrder(fkey, tmp[fkey])
    BY DEF RepublishInv, MergedInOrder
  <2>2. flist \ ftodo \in SUBSET Parts(fkey)
    BY <1>2 DEF StoreInv, FinalizeCovered
  <2>3. RowsOf(tmp[fkey]) = UNION {RowsOf(staging'[fkey][j]) : j \in flist \ ftodo}
    BY <1>12, <1>15, <2>1, <2>2
  <2>4. InPartOrder(fkey, tmp[fkey])'
    BY <1>1, <1>13, <1>15, <2>1 DEF InPartOrder, PartBefore, Parts
  <2> QED BY <1>1, <2>1, <2>3, <2>4 DEF MergedInOrder, RowsOfParts
<1>17. ASSUME ~torn' PROVE Untorn'
  <2>1. Untorn /\ ~Debris(k)
    BY <1>1, <1>17 DEF RepublishInv
  <2>2. \A q \in Keys : CleaningUp(q)' <=> CleaningUp(q)
    BY <1>1 DEF CleaningUp
  <2>3. \A q \in Keys : ~PublishedTwice(q)'
    BY <1>1, <1>2, <1>6, <2>1, FewerFinalsOnce DEF Untorn
  <2>4. \A f \in Finals(k) : RowsOf(f) \cap RowsOf(rows) = {}
    <3>1. \A f \in Finals(k) : RowsOf(f) \subseteq 1..arrived
      BY <1>2, <1>10, PartFacts DEF FreshParts
    <3> QED BY <1>4, <3>1
  <2>5. \A f \in Finals(k) : Apart(k, f) => Apart(k, f)'
    BY <1>8, <2>4 DEF Apart
  <2>6. AllApart(k) => AllApart(k)'
    BY <1>6, <1>8, <2>4 DEF AllApart, Apart
  <2>7. CleaningUp(k) \/ AllApart(k)
    BY <1>2, <2>1, PartFacts DEF Debris
  <2>8. ASSUME NEW q \in Keys, ~CleaningUp(q) PROVE Recoverable(q)'
    <3>1. CASE q = k
      BY <2>6, <2>7, <2>8, <3>1 DEF Recoverable
    <3>2. CASE q # k
      BY <1>2, <1>6, <2>1, <2>8, <3>2, FewerFinals DEF Untorn
    <3> QED BY <3>1, <3>2
  <2>9. Cleaning'
    <3> SUFFICES ASSUME pc \in {"sync", "cleanup"} PROVE Cleaning'
      BY <1>1 DEF Cleaning
    <3>1. /\ \A f \in Finals(fkey) \ {ffile} : Apart(fkey, f)
          /\ \A j \in Parts(fkey) \ ftodo : RowsOf(staging[fkey][j]) \cap RowsOf(ffile) = {}
          /\ pc = "sync" => ftodo = flist
          /\ ftodo = flist => RowsOf(ffile) = RowsOfParts(fkey, flist) /\ InPartOrder(fkey, ffile)
      BY <2>1 DEF Untorn, Cleaning
    <3>2. ffile \in Finals(fkey) /\ ftodo \subseteq Parts(fkey)
      BY <1>2 DEF StoreInv, FinalizeCovered, Synced, Repeats
    <3>3. \A f \in Finals(fkey) \ {ffile} : Apart(fkey, f)'
      <4>1. CASE fkey = k
        BY <1>8, <2>4, <3>1, <4>1, <1>1 DEF Apart
      <4>2. CASE fkey # k
        <5>1. StagedRows(fkey)' = UNION {RowsOf(staging'[fkey][j]) : j \in Parts(fkey)'}
          BY <1>1 DEF StagedRows
        <5>2. staging'[fkey] = staging[fkey]
          BY <1>6, <1>15, <4>2
        <5> QED BY <1>1, <3>1, <5>2 DEF Apart, StagedRows, Parts
      <4> QED BY <4>1, <4>2
    <3>4. \A j \in Parts(fkey)' \ ftodo : RowsOf(staging'[fkey][j]) \cap RowsOf(ffile) = {}
      <4>1. CASE fkey = k
        <5>1. Parts(fkey)' = Parts(fkey) \cup {i}
          BY <1>1, <1>7, <4>1 DEF Parts
        <5> QED BY <1>7, <2>4, <3>1, <3>2, <4>1, <5>1
      <4>2. CASE fkey # k
        BY <1>1, <1>6, <1>15, <3>1, <4>2 DEF Parts
      <4> QED BY <4>1, <4>2
    <3>5. ftodo = flist => RowsOf(ffile) = UNION {RowsOf(staging'[fkey][j]) : j \in flist}
      BY <1>12, <1>15, <3>1, <3>2
    <3>6. ftodo = flist => InPartOrder(fkey, ffile)'
      BY <1>1, <1>13, <1>15, <3>1 DEF InPartOrder, PartBefore, Parts
    <3>7. Finals(fkey)' = Finals(fkey)
      BY <1>1 DEF Finals
    <3> QED BY <1>1, <3>1, <3>3, <3>4, <3>5, <3>6, <3>7 DEF Cleaning, RowsOfParts
  <2>10. MergeListed'
    <3> SUFFICES ASSUME pc = "merge" PROVE MergeListed'
      BY <1>1 DEF MergeListed
    <3>1. CASE fkey = k
      <4>1. AllApart(k)'
        BY <2>6, <2>7 DEF CleaningUp
      <4> QED BY <1>1, <3>1, <4>1 DEF MergeListed, AllApart, Apart, StagedRows, Parts, Finals
    <3>2. CASE fkey # k
      <4>1. Parts(fkey) = flist \/ AllApart(fkey)
        BY <2>1 DEF Untorn, MergeListed
      <4>2. staging'[fkey] = staging[fkey] /\ fkey' = fkey
        BY <1>1, <1>6, <1>15, <3>2
      <4> QED BY <1>1, <4>1, <4>2 DEF MergeListed, AllApart, Apart, StagedRows, Parts, Finals
    <3> QED BY <3>1, <3>2
  <2> QED BY <2>1, <2>2, <2>3, <2>8, <2>9, <2>10 DEF Untorn
<1> QED BY <1>2, <1>11, <1>16, <1>17 DEF RepublishInv

(* What finalize() publishes: the rows of the listed parts, in part order. *)
LEMMA MergedFile ==
    ASSUME StoreInv, FreshParts, MergedInOrder, pc = "merge", ftodo = {}
    PROVE  /\ fkey \in Keys /\ flist \subseteq Parts(fkey) /\ tmp[fkey] \in File
           /\ RowsOf(tmp[fkey]) = RowsOfParts(fkey, flist) /\ InPartOrder(fkey, tmp[fkey])
           /\ RowsOf(tmp[fkey]) \subseteq StagedRows(fkey) /\ RowsOf(tmp[fkey]) # {}
<1>1. /\ fkey \in Keys /\ flist \subseteq Parts(fkey) /\ tmp[fkey] \in File
  BY DEF StoreInv, TypeOK, FinalizeCovered
<1>2. flist \ ftodo = flist
  OBVIOUS
<1>3. /\ RowsOf(tmp[fkey]) = RowsOfParts(fkey, flist) /\ InPartOrder(fkey, tmp[fkey])
      /\ flist # {}
  BY <1>2 DEF MergedInOrder
<1>4. RowsOf(tmp[fkey]) \subseteq StagedRows(fkey)
  BY <1>1, <1>3 DEF RowsOfParts, StagedRows
<1>5. PICK i \in flist : TRUE
  BY <1>3
<1>6. staging[fkey][i] \in File /\ staging[fkey][i] # <<>>
  BY <1>1, <1>5, PartFacts DEF FreshParts
<1>7. RowsOf(staging[fkey][i]) # {}
  BY <1>6, FileFacts
<1>8. RowsOf(tmp[fkey]) # {}
  BY <1>3, <1>5, <1>7 DEF RowsOfParts
<1> QED BY <1>1, <1>3, <1>4, <1>8

(* The merged file is new, or it is the one an interrupted run left.       *)
LEMMA NewOrLeftBehind ==
    ASSUME RepublishInv, ~torn, pc = "merge", ftodo = {}
    PROVE  \/ AllApart(fkey) /\ tmp[fkey] \notin Finals(fkey)
           \/ /\ tmp[fkey] \in Finals(fkey) /\ Parts(fkey) = flist
              /\ \A g \in Finals(fkey) \ {tmp[fkey]} : Apart(fkey, g)
<1> DEFINE file == tmp[fkey]
<1>1. /\ fkey \in Keys /\ flist \subseteq Parts(fkey) /\ file \in File
      /\ RowsOf(file) = RowsOfParts(fkey, flist) /\ InPartOrder(fkey, file)
      /\ RowsOf(file) \subseteq StagedRows(fkey) /\ RowsOf(file) # {}
  BY MergedFile DEF RepublishInv
<1>2. Recoverable(fkey) /\ (Parts(fkey) = flist \/ AllApart(fkey))
  BY <1>1 DEF RepublishInv, Untorn, CleaningUp, MergeListed
<1> HIDE DEF file
<1>3. CASE AllApart(fkey)
  <2>1. file \notin Finals(fkey)
    BY <1>1, <1>3 DEF AllApart, Apart
  <2> QED BY <1>3, <2>1 DEF file
<1>4. CASE ~AllApart(fkey)
  <2>1. Parts(fkey) = flist
    BY <1>2, <1>4
  <2>2. PICK f \in Finals(fkey) : Whole(fkey, f) /\ \A g \in Finals(fkey) \ {f} : Apart(fkey, g)
    BY <1>2, <1>4 DEF Recoverable
  <2>3. RowsOf(f) = RowsOf(file) /\ InPartOrder(fkey, f) /\ f \in File
    BY <1>1, <2>1, <2>2, PartFacts DEF Whole, StagedRows, RowsOfParts, RepublishInv
  <2>4. \A r, q : ~(PartBefore(fkey, r, q) /\ PartBefore(fkey, q, r))
    BY <1>1, PartBeforeAsymmetric DEF RepublishInv
  <2>5. f = file
    BY <1>1, <2>3, <2>4, SameOrderSameFile
  <2> QED BY <2>1, <2>2, <2>5 DEF file
<1> QED BY <1>3, <1>4

LEMMA RepublishInvPublish ==
    ASSUME RepublishInv, Publish, UNCHANGED arrived
    PROVE  RepublishInv'
<1> DEFINE file == tmp[fkey]
<1>1. /\ pc = "merge" /\ ftodo = {} /\ pc' = "sync" /\ ftodo' = flist /\ ffile' = file
      /\ UNCHANGED <<staging, fkey, flist, torn, arrived>>
      /\ base' = IF file \notin Finals(fkey) /\ base[fkey] = NoFile
                   THEN [base EXCEPT ![fkey] = file] ELSE base
      /\ segs' = IF file \notin Finals(fkey) /\ base[fkey] # NoFile
                   THEN [segs EXCEPT ![fkey] = segs[fkey] \cup {file}] ELSE segs
  BY DEF Publish, HasDigest, FirstFile, CleanupParts
<1>2. StoreInv' /\ StoreInv /\ FreshParts /\ MergedInOrder
  BY InvPublish DEF RepublishInv
<1>3. /\ fkey \in Keys /\ flist \subseteq Parts(fkey) /\ file \in File
      /\ RowsOf(file) = RowsOfParts(fkey, flist) /\ InPartOrder(fkey, file)
      /\ RowsOf(file) \subseteq StagedRows(fkey) /\ RowsOf(file) # {}
  BY <1>1, <1>2, MergedFile
<1>4. ~torn => \/ AllApart(fkey) /\ file \notin Finals(fkey)
               \/ /\ file \in Finals(fkey) /\ Parts(fkey) = flist
                  /\ \A g \in Finals(fkey) \ {file} : Apart(fkey, g)
  BY <1>1, NewOrLeftBehind
<1> HIDE DEF file
<1>5. \A q \in Keys : q # fkey => base'[q] = base[q] /\ segs'[q] = segs[q]
  BY <1>1, <1>2 DEF StoreInv, TypeOK
<1>6. \A q \in Keys : q # fkey => Finals(q)' = Finals(q)
  BY <1>5 DEF Finals
<1>7. /\ file \notin Finals(fkey) /\ base[fkey] = NoFile =>
           base'[fkey] = file /\ segs'[fkey] = segs[fkey]
      /\ file \notin Finals(fkey) /\ base[fkey] # NoFile =>
           base'[fkey] = base[fkey] /\ segs'[fkey] = segs[fkey] \cup {file}
      /\ file \in Finals(fkey) => base'[fkey] = base[fkey] /\ segs'[fkey] = segs[fkey]
  BY <1>1, <1>2, <1>3 DEF StoreInv, TypeOK
<1>8. Finals(fkey)' = Finals(fkey) \cup {file}
  <2>1. Finals(fkey)' = segs'[fkey] \cup ({base'[fkey]} \ {NoFile})
    BY <1>1 DEF Finals
  <2>2. file # NoFile
    BY <1>3, NoFileAssumption
  <2> QED BY <1>7, <2>1, <2>2 DEF Finals
<1>9. \A q \in Keys : /\ Parts(q)' = Parts(q) /\ StagedRows(q)' = StagedRows(q)
                      /\ \A f : InPartOrder(q, f)' <=> InPartOrder(q, f)
  BY <1>1, SamePartition
<1>10. FreshParts'
  <2>1. \A q \in Keys : FinalRows(q)' \subseteq FinalRows(q) \cup StagedRows(q)
    <3> SUFFICES ASSUME NEW q \in Keys PROVE FinalRows(q)' \subseteq FinalRows(q) \cup StagedRows(q)
      OBVIOUS
    <3>1. CASE q # fkey
      BY <1>6, <3>1 DEF FinalRows
    <3>2. CASE q = fkey
      <4>1. Finals(q)' = Finals(q) \cup {file}
        BY <1>1, <1>8, <3>2 DEF Finals
      <4> QED BY <1>3, <3>2, <4>1 DEF FinalRows
    <3> QED BY <3>1, <3>2
  <2> QED BY <1>1, <1>2, <1>9, <2>1 DEF FreshParts, Increasing
<1>11. MergedInOrder'
  BY <1>1 DEF MergedInOrder
<1>12. ASSUME ~torn' PROVE Untorn'
  <2>1. Untorn /\ ~torn
    BY <1>1, <1>12 DEF RepublishInv
  <2>2. \A q \in Keys : ~CleaningUp(q) /\ Recoverable(q) /\ ~PublishedTwice(q)
    BY <1>1, <2>1 DEF CleaningUp, Untorn
  <2>3. \A f \in Finals(fkey) : f # file => RowsOf(f) \cap RowsOf(file) = {}
    BY <1>3, <1>4, <2>1 DEF AllApart, Apart
  <2>4. base'[fkey] \notin segs'[fkey]
        /\ \A f, g \in Finals(fkey) \cup {file} : f # g => RowsOf(f) \cap RowsOf(g) = {}
    <3>1. base[fkey] \notin segs[fkey]
          /\ \A f, g \in Finals(fkey) : f # g => RowsOf(f) \cap RowsOf(g) = {}
      BY <1>3, <2>2 DEF PublishedTwice
    <3>2. base'[fkey] \notin segs'[fkey]
      BY <1>7, <3>1 DEF Finals
    <3> QED BY <2>3, <3>1, <3>2
  <2>5. \A q \in Keys : ~PublishedTwice(q)'
    <3> SUFFICES ASSUME NEW q \in Keys PROVE ~PublishedTwice(q)'
      OBVIOUS
    <3>1. CASE q # fkey
      BY <1>5, <1>6, <2>2, <3>1 DEF PublishedTwice
    <3>2. CASE q = fkey
      <4>1. Finals(q)' = Finals(q) \cup {file}
        BY <1>1, <1>8, <3>2 DEF Finals
      <4> QED BY <2>4, <3>2, <4>1 DEF PublishedTwice
    <3> QED BY <3>1, <3>2
  <2>6. \A q \in Keys : ~CleaningUp(q)' => Recoverable(q)'
    <3> SUFFICES ASSUME NEW q \in Keys, ~CleaningUp(q)' PROVE Recoverable(q)'
      OBVIOUS
    <3>1. q # fkey
      BY <1>1 DEF CleaningUp
    <3> QED BY <1>1, <1>2, <1>6, <2>2, <3>1, FewerFinals
  <2>7. Cleaning'
    <3>1. \A f \in Finals(fkey) \ {file} : Apart(fkey, f)
      BY <1>4, <2>1 DEF AllApart
    <3>2. \A i \in Parts(fkey) \ flist : RowsOf(staging[fkey][i]) \cap RowsOf(file) = {}
      BY <1>2, <1>3 DEF FreshParts, RowsOfParts
    <3>3. \A f \in Finals(fkey)' \ {ffile'} : Apart(fkey, f)'
      BY <1>1, <1>8, <3>1 DEF Apart, StagedRows, Parts
    <3>4. InPartOrder(fkey, ffile)'
      <4>1. \A m, n \in DOMAIN file : m < n => PartBefore(fkey, file[m], file[n])
        BY <1>3 DEF InPartOrder
      <4> QED BY <1>1, <4>1 DEF InPartOrder, PartBefore, Parts
    <3> QED BY <1>1, <1>3, <3>2, <3>3, <3>4 DEF Cleaning, RowsOfParts, Parts
  <2>8. MergeListed'
    BY <1>1 DEF MergeListed
  <2> QED BY <2>5, <2>6, <2>7, <2>8 DEF Untorn
<1> QED BY <1>2, <1>10, <1>11, <1>12 DEF RepublishInv

LEMMA RepublishInvSync ==
    ASSUME RepublishInv, SyncDirectory, UNCHANGED arrived
    PROVE  RepublishInv'
<1>1. /\ pc = "sync" /\ pc' = "cleanup"
      /\ UNCHANGED <<staging, base, segs, fkey, flist, ftodo, ffile, torn, arrived>>
  BY DEF SyncDirectory
<1>2. StoreInv' /\ StoreInv
  BY InvSync DEF RepublishInv
<1>3. \A q \in Keys : Finals(q)' = Finals(q) /\ staging'[q] = staging[q]
  BY <1>1 DEF Finals
<1>4. FreshParts'
  BY <1>1, <1>2, <1>3, FreshSame DEF RepublishInv
<1>5. MergedInOrder'
  BY <1>1 DEF MergedInOrder
<1>6. ASSUME ~torn' PROVE Untorn'
  <2>1. Untorn
    BY <1>1, <1>6 DEF RepublishInv
  <2>2. \A q \in Keys : CleaningUp(q)' <=> CleaningUp(q)
    BY <1>1 DEF CleaningUp
  <2>3. \A q \in Keys : ~PublishedTwice(q)' /\ (~CleaningUp(q)' => Recoverable(q)')
    BY <1>1, <1>2, <1>3, <2>1, <2>2, FewerFinals, FewerFinalsOnce DEF Untorn
  <2>4. Cleaning'
    BY <1>1, <2>1 DEF Untorn, Cleaning, Apart, RowsOfParts, InPartOrder, PartBefore,
                      StagedRows, Parts, Finals
  <2>5. MergeListed'
    BY <1>1 DEF MergeListed
  <2> QED BY <2>3, <2>4, <2>5 DEF Untorn
<1> QED BY <1>2, <1>4, <1>5, <1>6 DEF RepublishInv

LEMMA RepublishInvUnlink ==
    ASSUME RepublishInv, UnlinkPart, UNCHANGED arrived
    PROVE  RepublishInv'
<1> DEFINE i == Lowest(ftodo)
<1>1. /\ pc = "cleanup" /\ pc' = "cleanup" /\ i \in ftodo /\ i \in flist /\ i \in PartId
      /\ staging' = [staging EXCEPT ![fkey][i] = NoFile] /\ ftodo' = ftodo \ {i}
      /\ UNCHANGED <<base, segs, fkey, flist, ffile, torn, arrived>>
  BY NextPartListed DEF UnlinkPart, RepublishInv, StoreInv
<1>2. StoreInv' /\ StoreInv /\ FreshParts
  BY InvUnlink DEF RepublishInv
<1> HIDE DEF i
<1>3. fkey \in Keys
  BY <1>2 DEF StoreInv, TypeOK
<1>4. \A q \in Keys : Finals(q)' = Finals(q)
  BY <1>1 DEF Finals
<1>5. \A q \in Keys : q # fkey => staging'[q] = staging[q]
  BY <1>1, <1>2 DEF StoreInv, TypeOK
<1>6. /\ Parts(fkey)' = Parts(fkey) \ {i}
      /\ \A j \in Parts(fkey) \ {i} : staging'[fkey][j] = staging[fkey][j]
  BY <1>1, <1>2, <1>3 DEF Parts, StoreInv, TypeOK
<1>7. \A q \in Keys : /\ Parts(q)' \subseteq Parts(q)
                      /\ \A j \in Parts(q)' : staging'[q][j] = staging[q][j]
  <2> SUFFICES ASSUME NEW q \in Keys
               PROVE  /\ Parts(q)' \subseteq Parts(q)
                      /\ \A j \in Parts(q)' : staging'[q][j] = staging[q][j]
    OBVIOUS
  <2>1. CASE q # fkey
    BY <1>5, <2>1 DEF Parts
  <2>2. CASE q = fkey
    <3>1. Parts(q)' = Parts(q) \ {i}
      BY <1>1, <1>6, <2>2 DEF Parts
    <3> QED BY <1>6, <2>2, <3>1
  <2> QED BY <2>1, <2>2
<1>8. \A q \in Keys : StagedRows(q)' \subseteq StagedRows(q)
  BY <1>7 DEF StagedRows
<1>9. FreshParts'
  <2>1. \A q \in Keys : FinalRows(q)' = FinalRows(q)
    BY <1>4 DEF FinalRows
  <2> SUFFICES ASSUME NEW q \in Keys
        PROVE /\ \A j \in Parts(q)' : staging'[q][j] # <<>> /\ Increasing(staging'[q][j])
              /\ \A a, b \in Parts(q)' : a # b => RowsOf(staging'[q][a]) \cap RowsOf(staging'[q][b]) = {}
              /\ StagedRows(q)' \cup FinalRows(q)' \subseteq 1..arrived'
    BY DEF FreshParts, Increasing
  <2> QED BY <1>1, <1>2, <1>7, <1>8, <2>1 DEF FreshParts
<1>10. MergedInOrder'
  BY <1>1 DEF MergedInOrder
<1>11. ASSUME ~torn' PROVE Untorn'
  <2>1. Untorn
    BY <1>1, <1>11 DEF RepublishInv
  <2>2. \A q \in Keys : ~PublishedTwice(q)'
    BY <1>1, <1>2, <1>4, <2>1, FewerFinalsOnce DEF Untorn
  <2>3. ASSUME NEW q \in Keys, ~CleaningUp(q)' PROVE Recoverable(q)'
    <3>1. q # fkey /\ ~CleaningUp(q)
      BY <1>1, <2>3 DEF CleaningUp
    <3> QED BY <1>2, <1>4, <1>5, <2>1, <3>1, FewerFinals DEF Untorn
  <2>4. Cleaning'
    <3>1. /\ \A f \in Finals(fkey) \ {ffile} : Apart(fkey, f)
          /\ \A j \in Parts(fkey) \ ftodo : RowsOf(staging[fkey][j]) \cap RowsOf(ffile) = {}
      BY <1>1, <2>1 DEF Untorn, Cleaning
    <3>2. \A f \in Finals(fkey)' \ {ffile'} : Apart(fkey, f)'
      <4>1. StagedRows(fkey)' \subseteq StagedRows(fkey) /\ Finals(fkey)' = Finals(fkey)
        <5>1. StagedRows(fkey)' = UNION {RowsOf(staging'[fkey][j]) : j \in Parts(fkey)'}
          BY <1>1 DEF StagedRows
        <5> QED BY <1>1, <1>6, <5>1 DEF StagedRows, Finals
      <4> QED BY <1>1, <3>1, <4>1 DEF Apart
    <3>3. \A j \in Parts(fkey)' \ ftodo' : RowsOf(staging'[fkey][j]) \cap RowsOf(ffile) = {}
      BY <1>1, <1>6, <3>1
    <3>4. ftodo' # flist'
      BY <1>1
    <3> QED BY <1>1, <3>2, <3>3, <3>4 DEF Cleaning
  <2>5. MergeListed'
    BY <1>1 DEF MergeListed
  <2> QED BY <2>2, <2>3, <2>4, <2>5 DEF Untorn
<1> QED BY <1>2, <1>9, <1>10, <1>11 DEF RepublishInv

(* Wherever finalize() stops without being cut short, a new call of it     *)
(* finds every partition recoverable.                                      *)
LEMMA RecoverableUnlessCutShort ==
    ASSUME StoreInv, Untorn, ~CutShort
    PROVE  \A k \in Keys : Recoverable(k)
<1> SUFFICES ASSUME NEW k \in Keys, CleaningUp(k) PROVE Recoverable(k)
  BY DEF Untorn
<1>1. k = fkey /\ pc \in {"sync", "cleanup"} /\ ffile \in Finals(k)
  BY DEF CleaningUp, StoreInv, FinalizeCovered, Synced
<1>2. /\ \A f \in Finals(k) \ {ffile} : Apart(k, f)
      /\ \A i \in Parts(k) \ ftodo : RowsOf(staging[k][i]) \cap RowsOf(ffile) = {}
      /\ ftodo = flist => RowsOf(ffile) = RowsOfParts(k, flist) /\ InPartOrder(k, ffile)
  BY <1>1 DEF Untorn, Cleaning
<1>3. CASE ftodo = {}
  <2>1. Apart(k, ffile)
    BY <1>2, <1>3 DEF Apart, StagedRows
  <2> QED BY <1>2, <2>1 DEF Recoverable, AllApart
<1>4. CASE ftodo = flist /\ Parts(k) = flist
  <2>1. Whole(k, ffile)
    BY <1>1, <1>2, <1>4 DEF Whole, StagedRows, RowsOfParts
  <2> QED BY <1>1, <1>2, <2>1 DEF Recoverable
<1> QED BY <1>1, <1>3, <1>4 DEF CutShort

LEMMA RepublishInvStop ==
    ASSUME RepublishInv, StoreInv', UNCHANGED <<staging, arrived>>, pc' = "idle",
           ~torn' => ~torn /\ ~CutShort,
           \A k \in Keys : /\ Finals(k)' \subseteq Finals(k) /\ segs'[k] \subseteq segs[k]
                           /\ base'[k] \in {base[k], NoFile}
    PROVE  RepublishInv'
<1>1. StoreInv
  BY DEF RepublishInv
<1>2. FreshParts'
  BY <1>1, FreshSame DEF RepublishInv
<1>3. MergedInOrder'
  BY DEF MergedInOrder
<1>4. ASSUME ~torn' PROVE Untorn'
  <2>1. Untorn /\ ~CutShort
    BY <1>4 DEF RepublishInv
  <2>2. \A q \in Keys : Recoverable(q) /\ ~PublishedTwice(q)
    BY <1>1, <2>1, RecoverableUnlessCutShort DEF Untorn
  <2>3. \A q \in Keys : Recoverable(q)' /\ ~PublishedTwice(q)'
    BY <1>1, <2>2, FewerFinals, FewerFinalsOnce
  <2> QED BY <2>3 DEF Untorn, Cleaning, MergeListed
<1> QED BY <1>2, <1>3, <1>4 DEF RepublishInv

LEMMA RepublishInvEnd ==
    ASSUME RepublishInv, EndFinalize \/ FailFinalize, UNCHANGED arrived
    PROVE  RepublishInv'
<1>1. /\ pc' = "idle" /\ UNCHANGED <<staging, base, segs>>
      /\ ~torn' => ~torn /\ ~CutShort
  <2>1. CASE EndFinalize
    BY <2>1 DEF EndFinalize, diskVars, CutShort
  <2>2. CASE FailFinalize
    BY <2>2 DEF FailFinalize, diskVars
  <2> QED BY <2>1, <2>2
<1>2. StoreInv'
  BY InvStop DEF RepublishInv
<1>3. \A k \in Keys : Finals(k)' = Finals(k)
  BY <1>1 DEF Finals
<1> QED BY <1>1, <1>2, <1>3, RepublishInvStop

LEMMA RepublishInvCrash ==
    ASSUME RepublishInv, CrashStore, UNCHANGED arrived
    PROVE  RepublishInv'
<1>1. /\ pc' = "idle" /\ UNCHANGED staging
      /\ ~torn' => ~torn /\ ~CutShort
  BY DEF CrashStore
<1>2. PICK undone \in [Keys -> UNION {SUBSET unsynced[q] : q \in Keys}] :
         /\ base' = [q \in Keys |->
                       IF base[q] \in undone[q] THEN NoFile ELSE base[q]]
         /\ segs' = [q \in Keys |-> segs[q] \ undone[q]]
  BY DEF CrashStore
<1>3. \A k \in Keys : /\ segs'[k] \subseteq segs[k] /\ base'[k] \in {base[k], NoFile}
  BY <1>2
<1>4. \A k \in Keys : Finals(k)' \subseteq Finals(k)
  BY <1>3 DEF Finals
<1>5. StoreInv'
  BY InvCrash DEF RepublishInv
<1>6. \A k \in Keys : /\ Finals(k)' \subseteq Finals(k) /\ segs'[k] \subseteq segs[k]
                      /\ base'[k] \in {base[k], NoFile}
  BY <1>3, <1>4
<1> QED BY <1>1, <1>5, <1>6, RepublishInvStop

LEMMA RepublishInvInit == Init => RepublishInv
<1> SUFFICES ASSUME Init PROVE RepublishInv
  OBVIOUS
<1>1. StoreInv
  BY StoreInvInit
<1>2. /\ pc = "idle" /\ \A k \in Keys : /\ Parts(k) = {} /\ Finals(k) = {} /\ segs[k] = {}
                                        /\ StagedRows(k) = {} /\ FinalRows(k) = {}
  BY DEF Init, Parts, Finals, StagedRows, FinalRows
<1>3. FreshParts /\ MergedInOrder
  BY <1>2 DEF FreshParts, MergedInOrder
<1>4. Untorn
  BY <1>2 DEF Untorn, PublishedTwice, CleaningUp, Recoverable, AllApart, Cleaning, MergeListed
<1> QED BY <1>1, <1>3, <1>4 DEF RepublishInv

LEMMA RepublishInvStep == RepublishInv /\ [Next]_vars => RepublishInv'
<1> SUFFICES ASSUME RepublishInv, [Next]_vars PROVE RepublishInv'
  OBVIOUS
<1>1. ASSUME NEW k \in Keys, NEW i \in PartId, NEW n \in 1..2,
             StageNewRows(k, i, n)
      PROVE  RepublishInv'
  BY <1>1, RepublishInvStage
<1>2. ASSUME NEW k \in Keys, StartFinalize(k), UNCHANGED arrived
      PROVE  RepublishInv'
  BY <1>2, RepublishInvStart
<1>3. CASE FinalizeStep /\ UNCHANGED arrived
  BY <1>3, RepublishInvMerge, RepublishInvPublish, RepublishInvSync, RepublishInvUnlink,
     RepublishInvEnd DEF FinalizeStep
<1>4. CASE FailFinalize /\ UNCHANGED arrived
  BY <1>4, RepublishInvEnd
<1>5. CASE CrashStore /\ UNCHANGED arrived
  BY <1>5, RepublishInvCrash
<1>6. CASE UNCHANGED vars
  <2>1. UNCHANGED <<staging, base, segs, tmp, unsynced, pc, fkey, flist, ftodo,
                    ffile, arrived, crashes, staged, torn>>
    BY <1>6 DEF vars, storeVars, diskVars, finVars
  <2>2. StoreInv'
    BY <1>6, StoreInvStep DEF RepublishInv
  <2>3. FreshParts'
    <3>1. \A k \in Keys : Finals(k)' \subseteq Finals(k)
      BY <2>1 DEF Finals
    <3> QED BY <2>1, <3>1, FreshSame DEF RepublishInv
  <2>5. MergedInOrder'
    BY <2>1 DEF RepublishInv, MergedInOrder, Parts, RowsOfParts, InPartOrder, PartBefore
  <2>4. ~torn' => Untorn'
    BY <2>1 DEF RepublishInv, Untorn, PublishedTwice, CleaningUp, Recoverable, AllApart, Whole,
                Apart, Cleaning, MergeListed, Parts, StagedRows, Finals, RowsOfParts,
                InPartOrder, PartBefore
  <2> QED BY <2>2, <2>3, <2>4, <2>5 DEF RepublishInv
<1> QED BY <1>1, <1>2, <1>3, <1>4, <1>5, <1>6 DEF Next

(* Interruptions and new parts in any order: no row is published a second  *)
(* time while every finalize() that was interrupted after its publication  *)
(* is run again on exactly the parts it had merged.  That leaves out       *)
(* (`torn`) an interruption between two unlinks, and one before the first  *)
(* unlink with a further part staged before the recovery                   *)
(* (parquet_store.py:112-164, the digest comparison).                      *)
THEOREM RepublishIdempotentHolds == Spec => []RepublishIdempotent
<1>1. RepublishInv => RepublishIdempotent
  BY DEF RepublishInv, RepublishIdempotent, Untorn
<1> QED BY <1>1, RepublishInvInit, RepublishInvStep, PTL DEF Spec
=============================================================================
