---------------------------- MODULE BackupProofs ----------------------------
(***************************************************************************)
(* Proofs about BackupEngine: its type invariant, and how superblock,      *)
(* manifest, audit chain and snapshots agree on transaction ids, for every *)
(* set of chunks and trees, any number of transactions and both kinds of   *)
(* repository.  All but the type invariant assume ~Outlives: an engine     *)
(* object whose superblock commit failed is dropped.                       *)
(***************************************************************************)
EXTENDS BackupEngine, TLAPS

(* Where the transaction id has been taken and not yet used up. *)
Running == {"scanning", "chunking", "storing", "flushed", "committing", "published",
            "archived", "auditing", "audited"}

Published == {"published", "archived", "auditing", "audited", "finishing"}

Audited == {"audited", "finishing"}

(* The files of the repository, in terms of the next transaction id n of   *)
(* the superblock on disk: n - 1 is complete and audited, and n may have   *)
(* been published and audited by a backup that is running or was cut off.  *)
DiskInv ==
    /\ sb.next >= 1
    /\ manifest.txn \in {sb.next - 1, sb.next}
    /\ rarLast.txn \in {sb.next - 1, sb.next}
    /\ rarLast.txn <= manifest.txn
    /\ manifest.txn = sb.next - 1 => rarLast = manifest
    /\ sb.next > 1 => \E e \in rarFirst : e.txn = sb.next - 1
    /\ sb.phase \in InProgress => sb.txn = sb.next
    /\ sb.phase = "Idle" => sb.txn = sb.next - 1

SnapsInv == \A s, u \in snaps : s.txn = u.txn => s = u

(* The engine, relative to the disk. *)
ProcInv ==
    /\ pc = "ready" => mem.next = sb.next
    /\ pc \in Running => mem.txn = sb.next /\ mem.next = sb.next
    /\ pc = "finishing" => /\ mem.txn = sb.next
                           /\ mem.next = sb.next + 1
                           /\ mem.phase \in {"Idle", "Aborted"}
    /\ pc \in Published => manifest.txn = mem.txn /\ manifest.chunks = want
    /\ pc \in Audited => rarLast = manifest /\ \E e \in rarFirst : e.txn = mem.txn

TxnInv == TypeOK /\ DiskInv /\ SnapsInv /\ ProcInv

-----------------------------------------------------------------------------
Phases == {"Idle", "Scanning", "Chunking", "Storing", "CommittingMeta", "Auditing",
           "Aborted"}

(* Whatever the phase and the event, NextPhase is a phase; only Complete   *)
(* leads back to Idle.                                                     *)
LEMMA PhaseFacts ==
    ASSUME NEW p, NEW e
    PROVE  /\ NextPhase(p, e) \in Phases
           /\ e # "Complete" => NextPhase(p, e) # "Idle"
           /\ NextPhase(p, "Complete") \in {"Idle", "Aborted"}
  BY DEF NextPhase, Phases

(* What a Persist does to memory, disk and control. *)
LEMMA PersistFacts ==
    ASSUME NEW m, NEW there, Persist(m, there)
    PROVE  /\ mem' = m
           /\ sb' \in {m, sb} /\ pc' \in {there, AfterCommitError}
           /\ pc' = there /\ m.phase \notin InProgress /\ there # AfterCommitError => sb' = m
  BY DEF Persist

(* What persisting Aborted leaves in memory and on disk, whether its       *)
(* commit succeeds or fails.                                               *)
LEMMA PersistAbortedFacts ==
    ASSUME NEW m \in Block, sb \in Block, PersistAborted(m)
    PROVE  /\ mem' \in Block /\ mem'.txn = m.txn /\ mem'.next = m.next
           /\ mem'.phase = "Aborted"
           /\ \/ sb' = mem' /\ pc' = "ready"
              \/ sb' \in {sb, mem'} /\ pc' = AfterCommitError
  BY DEF PersistAborted, Block

(* After a superblock commit that failed the object is used on or          *)
(* dropped.                                                                *)
LEMMA CommitErrorPc == AfterCommitError \in {"ready", "failed"}
  BY DEF AfterCommitError

(* The block that StartupSelfCheck leaves has its type. *)
LEMMA SelfCheckBlock ==
    ASSUME sb \in Block, manifest \in Manifests
    PROVE  SelfCheck \in Block
  BY DEF SelfCheck, Block, Manifests

-----------------------------------------------------------------------------
(* A fresh repository has its types. *)
LEMMA InitTypeOK == Init => TypeOK
<1> SUFFICES ASSUME Init PROVE TypeOK
    OBVIOUS
<1>1. sb \in Block /\ mem \in Block
  BY DEF Init, Block
<1>2. manifest \in Manifests /\ rarLast \in Manifests
  BY DEF Init, Manifests
<1>3. idx \in Index /\ idxFile \in Index
  BY DEF Init, Index
<1> QED BY <1>1, <1>2, <1>3 DEF Init, TypeOK

(* The steps of RunBackup that only change the phase keep the types. *)
LEMMA PersistType ==
    ASSUME TypeOK, NEW m \in Block, NEW there,
           there \in {"ready", "scanning", "chunking", "storing", "committing", "auditing"},
           Persist(m, there)
    PROVE  /\ mem' \in Block /\ sb' \in Block
           /\ pc' \in {"off", "ready", "failed", "scanning", "chunking", "storing",
                       "flushed", "committing", "published", "archived", "auditing",
                       "audited", "finishing"}
  BY PersistFacts, CommitErrorPc DEF TypeOK

(* Every step of the engine keeps the types. *)
LEMMA NextTypeOK == TypeOK /\ [Next]_vars => TypeOK'
<1> SUFFICES ASSUME TypeOK, [Next]_vars PROVE TypeOK'
    OBVIOUS
<1> USE DEF storeVars, metaVars, historyVars, diskVars
<1>1. CASE Open
  <2>1. SelfCheck \in Block /\ LoadIndex \in Index
    BY SelfCheckBlock DEF TypeOK, LoadIndex, Index
  <2> QED BY <1>1, <2>1 DEF Open, TypeOK
<1>2. ASSUME NEW w \in Trees, StartBackup(w) PROVE TypeOK'
  <2>1. [phase |-> "Scanning", txn |-> mem.next, next |-> mem.next] \in Block
    BY DEF TypeOK, Block
  <2>2. w \subseteq Chunks /\ mem.next \in Nat
    BY TreesAssumption DEF TypeOK, Block
  <2>3. mem' \in Block /\ sb' \in Block /\ pc' \in {"off", "ready", "failed", "scanning",
            "chunking", "storing", "flushed", "committing", "published", "archived",
            "auditing", "audited", "finishing"}
    BY <1>2, <2>1, PersistType DEF StartBackup
  <2> QED BY <1>2, <2>2, <2>3 DEF StartBackup, TypeOK
<1>3. CASE RefuseBackup
  BY <1>3 DEF RefuseBackup, TypeOK, Block
<1>4. CASE RejectBackup
  <2>1. [mem EXCEPT !.txn = mem.next] \in Block
    BY DEF TypeOK, Block
  <2>2. mem' \in Block /\ sb' \in Block /\ pc' \in {"ready", "failed"}
    BY <1>4, <2>1, PersistAbortedFacts, CommitErrorPc DEF RejectBackup, TypeOK
  <2> QED BY <1>4, <2>2 DEF RejectBackup, TypeOK
<1>5. CASE BeginChunking
  <2>1. [mem EXCEPT !.phase = NextPhase(@, "ChunkFile")] \in Block
    BY PhaseFacts DEF TypeOK, Block, Phases
  <2>2. mem' \in Block /\ sb' \in Block /\ pc' \in {"off", "ready", "failed", "scanning",
            "chunking", "storing", "flushed", "committing", "published", "archived",
            "auditing", "audited", "finishing"}
    BY <1>5, <2>1, PersistType DEF BeginChunking
  <2>3. session' \in Nat /\ packOpen' \in BOOLEAN
    BY <1>5 DEF BeginChunking, TypeOK, Block
  <2> QED BY <1>5, <2>2, <2>3 DEF BeginChunking, TypeOK
<1>6. ASSUME NEW c \in Chunks, PutChunk(c) PROVE TypeOK'
  <2>1. CASE UNCHANGED <<idx, stored, cached, buffer, packFiles, packOpen>>
    BY <1>6, <2>1 DEF PutChunk, TypeOK
  <2>2. CASE AppendEbPack(c)
    BY <1>6, <2>2 DEF PutChunk, AppendEbPack, PackRecords, TypeOK, Records, Index
  <2>3. CASE AppendLegacy(c)
    BY <1>6, <2>3 DEF PutChunk, AppendLegacy, TypeOK, Records, Index
  <2> QED BY <1>6, <2>1, <2>2, <2>3 DEF PutChunk
<1>7. CASE BeginStoring
  <2>1. [mem EXCEPT !.phase = NextPhase(@, "StoreChunk")] \in Block
    BY PhaseFacts DEF TypeOK, Block, Phases
  <2> QED BY <1>7, <2>1, PersistType DEF BeginStoring, TypeOK
<1>8. CASE Flush
  BY <1>8 DEF Flush, FlushEbPack, FlushLegacy, TypeOK
<1>9. CASE BeginCommittingMeta
  <2>1. [mem EXCEPT !.phase = NextPhase(@, "CommitManifest")] \in Block
    BY PhaseFacts DEF TypeOK, Block, Phases
  <2> QED BY <1>9, <2>1, PersistType DEF BeginCommittingMeta, TypeOK
<1>10. CASE PublishManifest
  BY <1>10 DEF PublishManifest, TypeOK, Block, Manifests
<1>11. CASE ArchiveSnapshot
  BY <1>11 DEF ArchiveSnapshot, TypeOK
<1>12. CASE BeginAuditing
  <2>1. [mem EXCEPT !.phase = NextPhase(@, "AppendAudit")] \in Block
    BY PhaseFacts DEF TypeOK, Block, Phases
  <2> QED BY <1>12, <2>1, PersistType DEF BeginAuditing, TypeOK
<1>13. CASE AppendAuditEntry
  BY <1>13 DEF AppendAuditEntry, TypeOK, Block, Manifests
<1>14. CASE SaveIndex
  <2>1. NextPhase(mem.phase, "Complete") \in Phases /\ mem.txn + 1 \in Nat
    BY PhaseFacts DEF TypeOK, Block
  <2>2. mem' \in Block
    BY <1>14, <2>1 DEF SaveIndex, TypeOK, Block, Phases
  <2> QED BY <1>14, <2>2 DEF SaveIndex, TypeOK
<1>15. CASE Complete
  <2>1. mem \in Block
    BY DEF TypeOK
  <2> QED BY <1>15, <2>1, PersistType DEF Complete, ForgetPending, TypeOK
<1>16. CASE Fail
  <2>1. mem' \in Block /\ sb' \in Block /\ pc' \in {"ready", "failed"}
    BY <1>16, PersistAbortedFacts, CommitErrorPc DEF Fail, TypeOK
  <2> QED BY <1>16, <2>1 DEF Fail, ForgetPending, TypeOK
<1>17. CASE Recover
  BY <1>17 DEF Recover, TypeOK, Block
<1>18. CASE GcOrphans
  BY <1>18 DEF GcOrphans, Orphans, TypeOK
<1>19. ASSUME NEW s \in snaps, PruneSnapshot(s) PROVE TypeOK'
  BY <1>19 DEF PruneSnapshot, TypeOK
<1>20. CASE Kill
  BY <1>20 DEF Kill, ProcessGone, ForgetPending, TypeOK, Index, NoPack
<1>21. CASE PowerLoss
  BY <1>21 DEF PowerLoss, ProcessGone, ForgetPending, TypeOK, Index, NoPack
<1>22. CASE UNCHANGED vars
  BY <1>22 DEF vars, TypeOK
<1> QED
  BY <1>1, <1>2, <1>3, <1>4, <1>5, <1>6, <1>7, <1>8, <1>9, <1>10, <1>11, <1>12, <1>13,
     <1>14, <1>15, <1>16, <1>17, <1>18, <1>19, <1>20, <1>21, <1>22 DEF Next

(* The type invariant of the engine and the repository holds, whatever     *)
(* aborts, crashes and power failures there are.                           *)
THEOREM BackupTypeCorrect == Spec => []TypeOK
  BY InitTypeOK, NextTypeOK, PTL DEF Spec

-----------------------------------------------------------------------------
(* TxnInv holds of a fresh repository. *)
LEMMA InitTxnInv == Init => TxnInv
<1> SUFFICES ASSUME Init PROVE TxnInv
    OBVIOUS
<1>1. DiskInv
  BY DEF Init, DiskInv, InProgress
<1>2. SnapsInv /\ ProcInv
  BY DEF Init, SnapsInv, ProcInv, Running, Published, Audited
<1> QED BY <1>1, <1>2, InitTypeOK DEF TxnInv

(* The disk invariant when a block m of the transaction n being run, or an *)
(* aborted block that leaves n to be used again, replaces the superblock.  *)
LEMMA SameNext ==
    ASSUME TxnInv, UNCHANGED metaVars,
           sb'.next = sb.next,
           sb'.phase \in InProgress => sb'.txn = sb'.next,
           sb'.phase = "Idle" => sb' = sb
    PROVE  DiskInv' /\ SnapsInv'
  BY DEF TxnInv, DiskInv, SnapsInv, metaVars

(* The disk invariant when the transaction id is used up: the backup has   *)
(* been published and audited.                                             *)
LEMMA UsedUp ==
    ASSUME TxnInv, UNCHANGED metaVars, pc = "finishing",
           sb'.next = mem.next, sb'.txn = mem.txn, sb'.phase \in {"Idle", "Aborted"}
    PROVE  DiskInv' /\ SnapsInv'
<1>1. sb.next \in Nat /\ manifest.txn = sb.next /\ sb'.next = sb.next + 1
      /\ sb'.txn = sb.next /\ rarLast = manifest
      /\ \E e \in rarFirst : e.txn = sb.next
  BY DEF TxnInv, ProcInv, TypeOK, Block, Published, Audited
<1>2. manifest' = manifest /\ rarLast' = rarLast /\ rarFirst' = rarFirst /\ snaps' = snaps
  BY DEF metaVars
<1>3. sb'.phase \notin InProgress
  BY DEF InProgress
<1>4. SnapsInv'
  BY <1>2 DEF TxnInv, SnapsInv
<1>5. sb'.next - 1 = sb.next /\ sb'.next > 1
  BY <1>1 DEF TxnInv, DiskInv
<1>6. DiskInv'
  BY <1>1, <1>2, <1>3, <1>5 DEF DiskInv
<1> QED BY <1>4, <1>6

(* A phase that RunBackup enters with the transaction id it runs. *)
LEMMA PhaseStep ==
    ASSUME TxnInv, ~Outlives, UNCHANGED metaVars, NEW m, NEW there,
           Persist(m, there), there \in Running,
           m.txn = sb.next, m.next = sb.next, m.phase # "Idle",
           there \in Published => pc \in Published /\ m.txn = mem.txn /\ want' = want,
           there \notin Audited
    PROVE  DiskInv' /\ SnapsInv' /\ ProcInv'
<1>1. mem' = m /\ sb' \in {m, sb} /\ pc' \in {there, "failed"}
  BY PersistFacts DEF AfterCommitError
<1>2. /\ sb'.next = sb.next
      /\ sb'.phase \in InProgress => sb'.txn = sb'.next
      /\ sb'.phase = "Idle" => sb' = sb
  BY <1>1 DEF TxnInv, DiskInv
<1>3. DiskInv' /\ SnapsInv'
  BY <1>2, SameNext
<1>4. ProcInv'
  BY <1>1, <1>2 DEF TxnInv, ProcInv, Running, Published, Audited, metaVars
<1> QED BY <1>3, <1>4

(* What a step leaves alone if it touches neither metadata nor control. *)
LEMMA StoreStep ==
    ASSUME TxnInv, UNCHANGED <<sb, mem, pc, metaVars, want>>
    PROVE  DiskInv' /\ SnapsInv' /\ ProcInv'
  BY DEF TxnInv, DiskInv, SnapsInv, ProcInv, metaVars

(* Every step keeps the agreement of the files on transaction ids. *)
LEMMA NextTxnInv == ASSUME ~Outlives PROVE TxnInv /\ [Next]_vars => TxnInv'
<1> SUFFICES ASSUME TxnInv, [Next]_vars PROVE DiskInv' /\ SnapsInv' /\ ProcInv'
    BY NextTypeOK DEF TxnInv
<1> USE DEF storeVars, historyVars, diskVars
<1>1. CASE Open
  <2>1. ~(sb.phase \in InProgress /\ manifest.txn > sb.txn)
    BY DEF TxnInv, DiskInv, TypeOK, Block, Manifests
  <2>2. sb' \in {sb, [sb EXCEPT !.phase = "Aborted"]} /\ mem' = sb' /\ pc' = "ready"
    BY <1>1, <2>1 DEF Open, SelfCheck
  <2>3. /\ sb'.next = sb.next
        /\ sb'.phase \in InProgress => sb'.txn = sb'.next
        /\ sb'.phase = "Idle" => sb' = sb
    BY <2>2 DEF TxnInv, DiskInv, TypeOK, Block, InProgress
  <2>4. ProcInv'
    BY <2>2 DEF ProcInv, Running, Published, Audited
  <2> QED BY <1>1, <2>3, <2>4, SameNext DEF Open
<1>2. ASSUME NEW w \in Trees, StartBackup(w) PROVE DiskInv' /\ SnapsInv' /\ ProcInv'
  <2> DEFINE m == [phase |-> "Scanning", txn |-> mem.next, next |-> mem.next]
  <2>1. Persist(m, "scanning") /\ UNCHANGED metaVars
    BY <1>2 DEF StartBackup
  <2>2. m.txn = sb.next /\ m.next = sb.next /\ m.phase # "Idle"
    BY <1>2 DEF StartBackup, TxnInv, ProcInv
  <2> HIDE DEF m
  <2> QED BY <2>1, <2>2, PhaseStep DEF Running, Published, Audited
<1>3. CASE RefuseBackup
  <2>1. UNCHANGED <<sb, pc, metaVars, want>> /\ pc = "ready"
    BY <1>3 DEF RefuseBackup, metaVars
  <2>2. mem'.next = mem.next
    BY <1>3 DEF RefuseBackup, TxnInv, TypeOK, Block
  <2> QED
    BY <2>1, <2>2 DEF TxnInv, DiskInv, SnapsInv, ProcInv, metaVars, Running, Published, Audited
<1>4. CASE RejectBackup
  <2> DEFINE m == [mem EXCEPT !.txn = mem.next]
  <2>1. m \in Block /\ m.next = mem.next
    BY DEF TxnInv, TypeOK, Block
  <2>2. PersistAborted(m) /\ UNCHANGED metaVars /\ pc = "ready"
    BY <1>4 DEF RejectBackup
  <2> HIDE DEF m
  <2>3. /\ mem'.next = sb.next /\ mem'.phase = "Aborted"
        /\ \/ sb' = mem' /\ pc' = "ready"
           \/ sb' \in {sb, mem'} /\ pc' = "failed"
    BY <2>1, <2>2, PersistAbortedFacts DEF TxnInv, TypeOK, ProcInv, AfterCommitError
  <2>4. /\ sb'.next = sb.next
        /\ sb'.phase \in InProgress => sb'.txn = sb'.next
        /\ sb'.phase = "Idle" => sb' = sb
    BY <2>3 DEF TxnInv, DiskInv, InProgress
  <2>5. ProcInv'
    BY <2>3 DEF ProcInv, Running, Published, Audited
  <2> QED BY <2>2, <2>4, <2>5, SameNext
<1>5. CASE BeginChunking
  <2> DEFINE m == [mem EXCEPT !.phase = NextPhase(@, "ChunkFile")]
  <2>1. Persist(m, "chunking") /\ UNCHANGED metaVars
    BY <1>5 DEF BeginChunking
  <2>2. m.txn = sb.next /\ m.next = sb.next /\ m.phase # "Idle"
    BY <1>5, PhaseFacts DEF BeginChunking, TxnInv, ProcInv, Running, TypeOK, Block
  <2> HIDE DEF m
  <2> QED BY <2>1, <2>2, PhaseStep DEF Running, Published, Audited
<1>6. ASSUME NEW c \in Chunks, PutChunk(c) PROVE DiskInv' /\ SnapsInv' /\ ProcInv'
  BY <1>6, StoreStep DEF PutChunk
<1>7. CASE BeginStoring
  <2> DEFINE m == [mem EXCEPT !.phase = NextPhase(@, "StoreChunk")]
  <2>1. Persist(m, "storing") /\ UNCHANGED metaVars
    BY <1>7 DEF BeginStoring
  <2>2. m.txn = sb.next /\ m.next = sb.next /\ m.phase # "Idle"
    BY <1>7, PhaseFacts DEF BeginStoring, TxnInv, ProcInv, Running, TypeOK, Block
  <2> HIDE DEF m
  <2> QED BY <2>1, <2>2, PhaseStep DEF Running, Published, Audited
<1>8. CASE Flush
  <2>1. UNCHANGED <<sb, mem, metaVars, want>> /\ pc = "storing" /\ pc' = "flushed"
    BY <1>8 DEF Flush
  <2> QED
    BY <2>1 DEF TxnInv, DiskInv, SnapsInv, ProcInv, metaVars, Running, Published, Audited
<1>9. CASE BeginCommittingMeta
  <2> DEFINE m == [mem EXCEPT !.phase = NextPhase(@, "CommitManifest")]
  <2>1. Persist(m, "committing") /\ UNCHANGED metaVars
    BY <1>9 DEF BeginCommittingMeta
  <2>2. m.txn = sb.next /\ m.next = sb.next /\ m.phase # "Idle"
    BY <1>9, PhaseFacts DEF BeginCommittingMeta, TxnInv, ProcInv, Running, TypeOK, Block
  <2> HIDE DEF m
  <2> QED BY <2>1, <2>2, PhaseStep DEF Running, Published, Audited
<1>10. CASE PublishManifest
  <2>1. /\ manifest'.txn = sb.next /\ manifest'.chunks = want
        /\ mem.txn = sb.next /\ mem.next = sb.next
        /\ pc' = "published" /\ UNCHANGED <<sb, mem, want, snaps, rarLast, rarFirst>>
    BY <1>10 DEF PublishManifest, TxnInv, ProcInv, Running
  <2>2. sb.next \in Nat /\ rarLast.txn <= sb.next
    BY DEF TxnInv, DiskInv, TypeOK, Block
  <2> QED
    BY <2>1, <2>2 DEF TxnInv, DiskInv, SnapsInv, ProcInv, Running, Published, Audited
<1>11. CASE ArchiveSnapshot
  <2>1. /\ pc = "published" /\ pc' = "archived"
        /\ UNCHANGED <<sb, mem, manifest, rarLast, rarFirst, want>>
        /\ snaps' = snaps \/ snaps' = {s \in snaps : s.txn # manifest.txn} \cup {manifest}
    BY <1>11 DEF ArchiveSnapshot
  <2>2. SnapsInv'
    BY <2>1 DEF TxnInv, SnapsInv
  <2> QED
    BY <2>1, <2>2 DEF TxnInv, DiskInv, ProcInv, Running, Published, Audited
<1>12. CASE BeginAuditing
  <2> DEFINE m == [mem EXCEPT !.phase = NextPhase(@, "AppendAudit")]
  <2>1. Persist(m, "auditing") /\ UNCHANGED metaVars /\ want' = want /\ pc = "archived"
    BY <1>12 DEF BeginAuditing
  <2>2. m.txn = sb.next /\ m.next = sb.next /\ m.phase # "Idle" /\ m.txn = mem.txn
    BY <1>12, PhaseFacts DEF BeginAuditing, TxnInv, ProcInv, Running, TypeOK, Block
  <2> HIDE DEF m
  <2> QED BY <2>1, <2>2, PhaseStep DEF Running, Published, Audited
<1>13. CASE AppendAuditEntry
  <2>1. /\ pc = "auditing" /\ pc' = "audited"
        /\ UNCHANGED <<sb, mem, manifest, snaps, want>>
        /\ mem.txn = sb.next /\ mem.next = sb.next
        /\ manifest.txn = mem.txn /\ manifest.chunks = want
    BY <1>13 DEF AppendAuditEntry, TxnInv, ProcInv, Running, Published
  <2>2. rarLast' = manifest
    BY <1>13, <2>1 DEF AppendAuditEntry, TxnInv, TypeOK, Manifests
  <2>3. /\ rarFirst \subseteq rarFirst'
        /\ \E e \in rarFirst' : e.txn = mem.txn
    BY <1>13 DEF AppendAuditEntry
  <2>4. sb.next \in Nat
    BY DEF TxnInv, TypeOK, Block
  <2>5. DiskInv'
    BY <2>1, <2>2, <2>3, <2>4 DEF TxnInv, DiskInv
  <2>6. SnapsInv' /\ ProcInv'
    BY <2>1, <2>2, <2>3 DEF TxnInv, SnapsInv, ProcInv, Running, Published, Audited
  <2> QED BY <2>5, <2>6
<1>14. CASE SaveIndex
  <2>1. /\ pc = "audited" /\ pc' = "finishing" /\ UNCHANGED <<sb, metaVars, want>>
        /\ mem'.txn = mem.txn /\ mem'.next = mem.txn + 1
        /\ mem'.phase \in {"Idle", "Aborted"}
    BY <1>14, PhaseFacts DEF SaveIndex, TxnInv, TypeOK, Block
  <2> QED
    BY <2>1 DEF TxnInv, DiskInv, SnapsInv, ProcInv, metaVars, Running, Published, Audited
<1>15. CASE Complete
  <2>1. Persist(mem, "ready") /\ UNCHANGED metaVars /\ pc = "finishing"
    BY <1>15 DEF Complete
  <2>2. mem.phase \in {"Idle", "Aborted"} /\ mem.phase \notin InProgress
    BY <2>1 DEF TxnInv, ProcInv, InProgress
  <2>3. CASE sb' = mem /\ pc' \in {"ready", "failed"}
    <3>1. DiskInv' /\ SnapsInv'
      BY <2>1, <2>2, <2>3, UsedUp
    <3>2. ProcInv'
      BY <2>1, <2>3, PersistFacts DEF ProcInv, Running, Published, Audited
    <3> QED BY <3>1, <3>2
  <2>4. CASE sb' = sb /\ pc' = "failed"
    BY <2>1, <2>4, SameNext DEF TxnInv, DiskInv, ProcInv, Running, Published, Audited
  <2> QED BY <2>1, <2>2, <2>3, <2>4 DEF Persist, AfterCommitError
<1>16. CASE Fail
  <2>1. PersistAborted(mem) /\ UNCHANGED metaVars /\ pc \in Running \cup {"finishing"}
    BY <1>16 DEF Fail, Running
  <2>2. /\ mem'.next = mem.next /\ mem'.txn = mem.txn /\ mem'.phase = "Aborted"
        /\ \/ sb' = mem' /\ pc' = "ready"
           \/ sb' \in {sb, mem'} /\ pc' = "failed"
    BY <2>1, PersistAbortedFacts DEF TxnInv, TypeOK, AfterCommitError
  <2>3. ProcInv'
    BY <2>2 DEF ProcInv, Running, Published, Audited
  <2>4. CASE sb' = sb
    BY <2>1, <2>3, <2>4, SameNext DEF TxnInv, DiskInv
  <2>5. CASE sb' = mem' /\ pc \in Running
    BY <2>1, <2>2, <2>3, <2>5, SameNext DEF TxnInv, ProcInv, InProgress
  <2>6. CASE sb' = mem' /\ pc = "finishing"
    BY <2>1, <2>2, <2>3, <2>6, UsedUp
  <2> QED BY <2>1, <2>2, <2>4, <2>5, <2>6
<1>17. CASE Recover
  <2>1. /\ sb' = mem' /\ mem'.next = mem.next /\ mem'.phase = "Aborted"
        /\ UNCHANGED metaVars /\ pc = "ready" /\ pc' = "ready"
    BY <1>17 DEF Recover, TxnInv, TypeOK, Block
  <2>2. sb'.next = sb.next
    BY <2>1 DEF TxnInv, ProcInv
  <2> QED
    BY <2>1, <2>2, SameNext DEF ProcInv, Running, Published, Audited, InProgress
<1>18. CASE GcOrphans
  BY <1>18, StoreStep DEF GcOrphans
<1>19. ASSUME NEW s \in snaps, PruneSnapshot(s) PROVE DiskInv' /\ SnapsInv' /\ ProcInv'
  BY <1>19 DEF PruneSnapshot, TxnInv, DiskInv, SnapsInv, ProcInv
<1>20. CASE Kill \/ PowerLoss
  <2>1. UNCHANGED <<sb, metaVars>> /\ pc' = "off"
    BY <1>20 DEF Kill, PowerLoss, ProcessGone
  <2> QED
    BY <2>1 DEF TxnInv, DiskInv, SnapsInv, ProcInv, metaVars, Running, Published, Audited
<1>21. CASE UNCHANGED vars
  BY <1>21, StoreStep DEF vars, metaVars
<1> QED
  BY <1>1, <1>2, <1>3, <1>4, <1>5, <1>6, <1>7, <1>8, <1>9, <1>10, <1>11, <1>12, <1>13,
     <1>14, <1>15, <1>16, <1>17, <1>18, <1>19, <1>20, <1>21 DEF Next

(* TxnInv always holds, if objects are dropped after a failed commit. *)
LEMMA SpecTxnInv == ASSUME ~Outlives PROVE Spec => []TxnInv
  BY InitTxnInv, NextTxnInv, PTL DEF Spec

(* The audit chain is at most the one transaction behind the manifest      *)
(* whose entry RunBackup has still to append.                              *)
THEOREM AuditAtMostOneBehind == ASSUME ~Outlives PROVE Spec => []AuditTrailsManifest
<1>1. TxnInv => AuditTrailsManifest
  BY DEF TxnInv, DiskInv, AuditTrailsManifest, TypeOK, Block, Manifests
<1> QED BY <1>1, SpecTxnInv, PTL

(* An Idle superblock names a completed, audited backup.                   *)
THEOREM IdleComplete == ASSUME ~Outlives PROVE Spec => []IdleIsComplete
<1>1. TxnInv => IdleIsComplete
  <2> SUFFICES ASSUME TxnInv, sb.phase = "Idle", sb.txn > 0
               PROVE  /\ sb.next = sb.txn + 1
                      /\ \E e \in rarFirst : e.txn = sb.txn
                      /\ manifest.txn \in {sb.txn, sb.next}
                      /\ manifest.txn = sb.txn => manifest = rarLast
    BY DEF IdleIsComplete
  <2>1. sb.next \in Nat /\ sb.txn \in Nat /\ sb.txn = sb.next - 1
    BY DEF TxnInv, DiskInv, TypeOK, Block
  <2> QED BY <2>1 DEF TxnInv, DiskInv
<1> QED BY <1>1, SpecTxnInv, PTL

(* A superblock in progress is never behind the manifest, so the branch of *)
(* StartupSelfCheck that moves it forward is dead code.                    *)
THEOREM SelfCheckNeverAligns == ASSUME ~Outlives PROVE Spec => []InProgressCoversManifest
<1>1. TxnInv => InProgressCoversManifest
  BY DEF TxnInv, DiskInv, InProgressCoversManifest, TypeOK, Block, Manifests
<1> QED BY <1>1, SpecTxnInv, PTL

(* Only a backup that has done all its work uses up its id. *)
LEMMA IdStep ==
    ASSUME ~Outlives, TxnInv, [Next]_vars
    PROVE  \/ sb'.next = sb.next
           \/ pc = "finishing" /\ sb'.next = sb.next + 1 /\ UNCHANGED metaVars
<1> DEFINE Goal == \/ sb'.next = sb.next
                   \/ pc = "finishing" /\ sb'.next = sb.next + 1 /\ UNCHANGED metaVars
<1> USE DEF storeVars, historyVars, diskVars
<1>1. CASE Open
  <2>1. ~(sb.phase \in InProgress /\ manifest.txn > sb.txn)
    BY DEF TxnInv, DiskInv, TypeOK, Block, Manifests
  <2> QED BY <1>1, <2>1 DEF Open, SelfCheck, TxnInv, TypeOK, Block
<1>2. ASSUME NEW w \in Trees, StartBackup(w) PROVE Goal
  BY <1>2 DEF StartBackup, Persist, TxnInv, ProcInv
<1>3. CASE BeginChunking
  BY <1>3 DEF BeginChunking, Persist, TxnInv, ProcInv, Running, TypeOK, Block
<1>4. CASE BeginStoring
  BY <1>4 DEF BeginStoring, Persist, TxnInv, ProcInv, Running, TypeOK, Block
<1>5. CASE BeginCommittingMeta
  BY <1>5 DEF BeginCommittingMeta, Persist, TxnInv, ProcInv, Running, TypeOK, Block
<1>6. CASE BeginAuditing
  BY <1>6 DEF BeginAuditing, Persist, TxnInv, ProcInv, Running, TypeOK, Block
<1>7. CASE Complete
  BY <1>7 DEF Complete, Persist, TxnInv, ProcInv
<1>8. CASE Fail
  <2>1. mem.next = sb.next \/ (pc = "finishing" /\ mem.next = sb.next + 1)
    BY <1>8 DEF Fail, TxnInv, ProcInv, Running
  <2>2. sb'.next \in {sb.next, mem.next} /\ UNCHANGED metaVars
    BY <1>8, PersistAbortedFacts DEF Fail, TxnInv, TypeOK
  <2> QED BY <2>1, <2>2
<1>9. CASE RejectBackup
  <2>1. mem' = [mem EXCEPT !.txn = mem.next, !.phase = "Aborted"] /\ sb' \in {sb, mem'}
    BY <1>9 DEF RejectBackup, PersistAborted, TxnInv, TypeOK, Block
  <2>2. mem'.next = mem.next /\ mem.next = sb.next
    BY <1>9, <2>1 DEF RejectBackup, TxnInv, ProcInv, TypeOK, Block
  <2> QED BY <2>1, <2>2
<1>10. CASE Recover
  BY <1>10 DEF Recover, TxnInv, ProcInv, TypeOK, Block
<1>11. CASE UNCHANGED sb
  BY <1>11
<1>12. \/ Open \/ (\E w \in Trees : StartBackup(w)) \/ BeginChunking \/ BeginStoring
       \/ BeginCommittingMeta \/ BeginAuditing \/ Complete \/ Fail \/ RejectBackup
       \/ Recover \/ UNCHANGED sb
  BY DEF Next, RefuseBackup, PutChunk, Flush, PublishManifest, ArchiveSnapshot,
         AppendAuditEntry, SaveIndex, GcOrphans, PruneSnapshot, Kill, PowerLoss,
         ProcessGone, vars
<1> QED
  BY <1>1, <1>2, <1>3, <1>4, <1>5, <1>6, <1>7, <1>8, <1>9, <1>10, <1>11, <1>12

(* Only PublishManifest replaces the manifest. *)
LEMMA OnlyPublish ==
    ASSUME [Next]_vars, ~PublishManifest
    PROVE  manifest' = manifest
  BY DEF Next, Open, StartBackup, RefuseBackup, RejectBackup, BeginChunking, PutChunk,
         BeginStoring, Flush, BeginCommittingMeta, ArchiveSnapshot, BeginAuditing,
         AppendAuditEntry, SaveIndex, Complete, Fail, Recover, GcOrphans, PruneSnapshot, Kill,
         PowerLoss, ProcessGone, vars, storeVars, historyVars, diskVars, metaVars

(* Neither the next transaction id nor the manifest's ever goes back.      *)
THEOREM TxnNeverBack == ASSUME ~Outlives PROVE Spec => TxnMonotone
<1> DEFINE Mono == sb'.next >= sb.next /\ manifest'.txn >= manifest.txn
<1>1. TxnInv /\ TxnInv' /\ [Next]_vars => [Mono]_vars
  <2> SUFFICES ASSUME TxnInv, TxnInv', [Next]_vars PROVE Mono
    OBVIOUS
  <2>1. /\ sb.next \in Nat /\ sb'.next \in Nat
        /\ manifest.txn \in Nat /\ manifest'.txn \in Nat
        /\ manifest.txn <= sb.next
    BY DEF TxnInv, TypeOK, Block, Manifests, DiskInv
  <2>2. sb'.next >= sb.next
    BY <2>1, IdStep
  <2>3. PublishManifest => manifest'.txn = sb.next
    BY DEF PublishManifest, TxnInv, ProcInv, Running
  <2> QED BY <2>1, <2>2, <2>3, OnlyPublish
<1> QED BY <1>1, SpecTxnInv, PTL DEF Spec, TxnMonotone

(* A snapshot of a used-up transaction id is never replaced by another     *)
(* one: only the id the superblock still offers can be archived again.     *)
THEOREM SnapshotsKept == ASSUME ~Outlives PROVE Spec => SnapshotsImmutable
<1> DEFINE Kept == \A s \in snaps, u \in snaps' :
                      s.txn < sb.next /\ u.txn = s.txn => u = s
<1>1. TxnInv /\ [Next]_vars => [Kept]_vars
  <2> SUFFICES ASSUME TxnInv, Next PROVE Kept
    BY DEF vars
  <2> USE DEF storeVars, historyVars, diskVars, metaVars
  <2>1. CASE ArchiveSnapshot
    <3>1. manifest.txn = sb.next /\ sb.next \in Nat
      BY <2>1 DEF ArchiveSnapshot, TxnInv, ProcInv, Running, Published, TypeOK, Block
    <3> QED BY <2>1, <3>1 DEF ArchiveSnapshot, TxnInv, SnapsInv
  <2>2. CASE snaps' \subseteq snaps
    BY <2>2 DEF TxnInv, SnapsInv
  <2> HIDE DEF Kept
  <2>3. ASSUME NEW s \in snaps, PruneSnapshot(s) PROVE Kept
    BY <2>2, <2>3 DEF PruneSnapshot
  <2> QED
    BY <2>1, <2>2, <2>3
    DEF Next, Open, StartBackup, RefuseBackup, RejectBackup, BeginChunking, PutChunk,
        BeginStoring, Flush, BeginCommittingMeta, PublishManifest, BeginAuditing,
        AppendAuditEntry, SaveIndex, Complete, Fail, Recover, GcOrphans, Kill, PowerLoss,
        ProcessGone
<1> QED BY <1>1, SpecTxnInv, PTL DEF Spec, SnapshotsImmutable

-----------------------------------------------------------------------------
(* The metadata as a journal.                                              *)

Archived == {"archived", "auditing", "audited", "finishing"}

(* The manifest has the newest id, and is archived before it is audited. *)
ArchiveInv ==
    /\ \A s \in snaps : s.txn <= manifest.txn
    /\ Modern /\ pc \in Archived => manifest \in snaps
    /\ pc \in Running => want \in Trees

(* Steps that leave the metadata alone and do not pass ArchiveSnapshot. *)
LEMMA ArchiveSame ==
    ASSUME ArchiveInv, manifest' = manifest, snaps' = snaps,
           pc' \in Archived => pc \in Archived,
           pc' \in Running => pc \in Running /\ want' = want
    PROVE  ArchiveInv'
  BY DEF ArchiveInv

(* Every step keeps snapshots and manifest in step. *)
LEMMA ArchiveStep ==
    ASSUME ~Outlives, TxnInv, ArchiveInv, [Next]_vars
    PROVE  ArchiveInv'
<1> USE DEF storeVars, historyVars, diskVars, metaVars
<1>1. \A m, there : Persist(m, there) => pc' \in {there, "failed"}
  BY PersistFacts DEF AfterCommitError
<1>2. \A m : PersistAborted(m) => pc' \in {"ready", "failed"}
  BY DEF PersistAborted, AfterCommitError
<1>3. CASE Open \/ RejectBackup \/ Complete \/ Fail \/ Kill \/ PowerLoss
  <2>1. manifest' = manifest /\ snaps' = snaps /\ pc' \in {"off", "ready", "failed"}
    BY <1>1, <1>2, <1>3 DEF Open, RejectBackup, Complete, Fail, Kill, PowerLoss, ProcessGone
  <2> QED BY <2>1, ArchiveSame DEF Archived, Running
<1>4. ASSUME NEW w \in Trees, StartBackup(w) PROVE ArchiveInv'
  <2>1. manifest' = manifest /\ snaps' = snaps /\ want' = w /\ pc' \in {"scanning", "failed"}
    BY <1>1, <1>4 DEF StartBackup
  <2> QED BY <2>1 DEF ArchiveInv, Archived
<1>5. CASE BeginChunking \/ BeginStoring \/ BeginCommittingMeta \/ BeginAuditing
  <2>1. /\ manifest' = manifest /\ snaps' = snaps /\ want' = want
        /\ pc \in {"scanning", "chunking", "flushed", "archived"}
        /\ pc' \in {"chunking", "storing", "committing", "failed"}
              \/ (pc = "archived" /\ pc' \in {"auditing", "failed"})
    BY <1>1, <1>5 DEF BeginChunking, BeginStoring, BeginCommittingMeta, BeginAuditing
  <2> QED BY <2>1, ArchiveSame DEF Archived, Running
<1>6. CASE \/ RefuseBackup \/ Recover \/ GcOrphans \/ Flush \/ AppendAuditEntry
           \/ SaveIndex \/ UNCHANGED vars \/ \E c \in Chunks : PutChunk(c)
  <2>1. manifest' = manifest /\ snaps' = snaps /\ want' = want
    BY <1>6 DEF RefuseBackup, Recover, GcOrphans, Flush, AppendAuditEntry, SaveIndex, vars,
                PutChunk
  <2>2. \/ pc' = pc
        \/ pc = "storing" /\ pc' = "flushed"
        \/ pc = "auditing" /\ pc' = "audited"
        \/ pc = "audited" /\ pc' = "finishing"
    BY <1>6 DEF RefuseBackup, Recover, GcOrphans, Flush, AppendAuditEntry, SaveIndex, vars,
                PutChunk
  <2> QED BY <2>1, <2>2, ArchiveSame DEF Archived, Running
<1>7. CASE PublishManifest
  <2>1. /\ manifest'.txn = sb.next /\ snaps' = snaps /\ want' = want
        /\ pc = "committing" /\ pc' = "published"
    BY <1>7 DEF PublishManifest, TxnInv, ProcInv, Running
  <2>2. sb.next \in Nat /\ manifest.txn \in Nat /\ manifest.txn <= sb.next
    BY DEF TxnInv, DiskInv, TypeOK, Block, Manifests
  <2>3. \A s \in snaps : s.txn \in Nat /\ s.txn <= manifest.txn
    BY DEF TxnInv, TypeOK, Manifests, ArchiveInv
  <2>4. \A s \in snaps' : s.txn <= manifest'.txn
    BY <2>1, <2>2, <2>3
  <2> QED BY <2>1, <2>4 DEF ArchiveInv, Archived, Running
<1>8. CASE ArchiveSnapshot
  <2>1. manifest.txn \in Nat
    BY DEF TxnInv, TypeOK, Manifests
  <2> QED BY <1>8, <2>1 DEF ArchiveSnapshot, ArchiveInv, Running
<1>9. ASSUME NEW s \in snaps, PruneSnapshot(s) PROVE ArchiveInv'
  <2>1. PICK u \in snaps : u.txn > s.txn
    BY <1>9 DEF PruneSnapshot
  <2>2. s.txn \in Nat /\ u.txn \in Nat /\ manifest.txn \in Nat /\ u.txn <= manifest.txn
    BY <2>1 DEF TxnInv, TypeOK, Manifests, ArchiveInv
  <2>3. s # manifest
    BY <2>1, <2>2
  <2> QED BY <1>9, <2>3 DEF PruneSnapshot, ArchiveInv
<1> QED BY <1>3, <1>4, <1>5, <1>6, <1>7, <1>8, <1>9 DEF Next

(* Superblock, manifest, snapshots and audit chain implement a journal in  *)
(* which backups are completed one by one: through any kills, power        *)
(* failures, aborts and failed commits an id is used up exactly when the   *)
(* manifest, the newest snapshot and the last audit entry are its backup.  *)
THEOREM EngineImplementsJournal == ASSUME ~Outlives PROVE Spec => ImplementsJournal
<1> DEFINE I == TxnInv /\ ArchiveInv
<1>1. Init => I
  BY InitTxnInv DEF Init, ArchiveInv, Archived, Running
<1>2. I /\ [Next]_vars => I'
  BY NextTxnInv, ArchiveStep
<1>3. Init => Journal!Init
  BY DEF Init, Journal!Init, Journal!Nothing
<1>4. I /\ [Next]_vars => [Journal!Next]_Journal!vars
  <2> SUFFICES ASSUME TxnInv, ArchiveInv, [Next]_vars, ~UNCHANGED Journal!vars
               PROVE  Journal!Next
    OBVIOUS
  <2> USE DEF storeVars, historyVars, diskVars, Journal!vars
  <2>1. sb.next \in Nat /\ manifest \in Manifests
    BY DEF TxnInv, TypeOK, Block
  <2>2. CASE sb'.next # sb.next
    <3>1. pc = "finishing" /\ sb'.next = sb.next + 1 /\ UNCHANGED metaVars
      BY <2>2, IdStep
    <3>2. manifest.txn = sb.next /\ rarLast = manifest /\ (Modern => manifest \in snaps)
      BY <3>1 DEF TxnInv, ProcInv, Published, Audited, ArchiveInv, Archived
    <3>3. Journal!Complete
      BY <2>1, <3>1, <3>2 DEF Journal!Complete, Journal!InFlight, metaVars
    <3> QED BY <3>3 DEF Journal!Next
  <2>3. CASE PublishManifest
    <3>1. /\ manifest' = [txn |-> sb.next, chunks |-> want] /\ want \in Trees
          /\ UNCHANGED <<sb, snaps, rarLast>>
      BY <2>3 DEF PublishManifest, TxnInv, ProcInv, Running, ArchiveInv
    <3>2. Journal!Publish(want)
      BY <2>1, <3>1 DEF Journal!Publish
    <3> QED BY <3>1, <3>2 DEF Journal!Next
  <2>4. CASE ArchiveSnapshot
    <3>1. /\ Modern /\ UNCHANGED <<sb, manifest, rarLast>> /\ manifest.txn = sb.next
          /\ snaps' = {s \in snaps : s.txn # manifest.txn} \cup {manifest}
      BY <2>4 DEF ArchiveSnapshot, TxnInv, ProcInv, Running, Published
    <3>2. Journal!Archive
      BY <2>1, <3>1 DEF Journal!Archive, Journal!InFlight
    <3> QED BY <3>2 DEF Journal!Next
  <2>5. CASE AppendAuditEntry
    <3>1. /\ rarLast' = [txn |-> mem.txn, chunks |-> want] /\ UNCHANGED <<sb, manifest, snaps>>
          /\ mem.txn = sb.next /\ manifest.txn = mem.txn /\ manifest.chunks = want
          /\ Modern => manifest \in snaps
      BY <2>5 DEF AppendAuditEntry, TxnInv, ProcInv, Running, Published, ArchiveInv, Archived
    <3>2. rarLast' = manifest
      BY <2>1, <3>1 DEF Manifests
    <3>3. Journal!Audit
      BY <2>1, <3>1, <3>2 DEF Journal!Audit, Journal!InFlight
    <3> QED BY <3>3 DEF Journal!Next
  <2>6. ASSUME NEW s \in snaps, PruneSnapshot(s) PROVE Journal!Next
    <3>1. PICK u \in snaps : u.txn > s.txn
      BY <2>6 DEF PruneSnapshot
    <3>2. s.txn \in Nat /\ u.txn \in Nat /\ u.txn <= manifest.txn /\ manifest.txn \in Nat
      BY <3>1 DEF TxnInv, TypeOK, Manifests, ArchiveInv
    <3>3. s # manifest
      BY <3>1, <3>2
    <3>4. Journal!Prune(s)
      BY <2>6, <3>3 DEF PruneSnapshot, Journal!Prune
    <3> QED BY <3>4 DEF Journal!Next
  <2>7. CASE sb'.next = sb.next /\ UNCHANGED metaVars
    BY <2>7 DEF metaVars
  <2> QED
    BY <2>2, <2>3, <2>4, <2>5, <2>6, <2>7
    DEF Next, Open, StartBackup, RefuseBackup, RejectBackup, BeginChunking, PutChunk,
        BeginStoring, Flush, BeginCommittingMeta, BeginAuditing, SaveIndex, Complete, Fail,
        Recover, GcOrphans, Kill, PowerLoss, ProcessGone, vars, metaVars
<1> QED BY <1>1, <1>2, <1>3, <1>4, PTL DEF Spec, ImplementsJournal, Journal!Spec
=============================================================================
