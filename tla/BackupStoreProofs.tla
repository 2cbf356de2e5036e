-------------------------- MODULE BackupStoreProofs --------------------------
(***************************************************************************)
(* Proofs about the chunk store under RunBackup: what the chunk index of   *)
(* an EbPack repository promises across aborts, kills and power failures,  *)
(* and what the legacy chunk file promises across aborts and kills.        *)
(***************************************************************************)
EXTENDS BackupProofs

(* From the end of the append session to the end of the backup. *)
SessionOver == {"flushed", "committing", "published", "archived", "auditing", "audited",
                "finishing"}

(* Transaction ids start at 1, and those that name a session or a pack     *)
(* have been used by some backup.                                          *)
IdsInv ==
    /\ sb.next >= 1 /\ mem.next >= 1
    /\ 0 \notin begun
    /\ pc = "scanning" => mem.txn \in begun
    /\ session # 0 => session \in begun
    /\ Modern => \A c \in Chunks : /\ idx[c] # NoPack => idx[c] \in begun
                                   /\ idxFile[c] # NoPack => idxFile[c] \in begun

(* When there is a session, and what is in the write buffer. *)
SessionInv ==
    /\ pc \in {"off"} \cup SessionOver => session = 0
    /\ pc \in {"chunking", "storing"} => session # 0
    /\ session = 0 => buffer = {}
    /\ Modern => buffer \subseteq PackRecords(session)

(* No index entry names the pack that the session is about to create, nor  *)
(* the transaction about to open a session, unless the id is a reused one. *)
FreshInv ==
    Modern => \A c \in Chunks :
        /\ session # 0 /\ ~packOpen /\ session \notin reused =>
              idx[c] # session /\ idxFile[c] # session
        /\ pc = "scanning" /\ session = 0 /\ mem.txn \notin reused =>
              idx[c] # mem.txn /\ idxFile[c] # mem.txn

(* Index entries of packs that one backup wrote: fsynced, or in the buffer.*)
ReadInv ==
    Modern => \A c \in Chunks :
        /\ idx[c] # NoPack /\ idx[c] \notin reused =>
              <<idx[c], c>> \in (stored \ cached) \cup buffer
        /\ idxFile[c] # NoPack /\ idxFile[c] \notin reused =>
              <<idxFile[c], c>> \in stored \ cached

StoreInv == TypeOK /\ IdsInv /\ SessionInv /\ FreshInv /\ ReadInv

-----------------------------------------------------------------------------
(* The chunks of the tree being backed up are in the legacy file or its    *)
(* buffer as soon as they are put, and in the file once Flush is through.  *)
LegacyInv ==
    /\ \A c \in Chunks : idx[c] # NoPack => <<0, c>> \in stored \cup buffer
    /\ pc = "chunking" => todo = want
    /\ pc = "storing" => \A c \in want \ todo : idx[c] # NoPack
    /\ pc \in SessionOver => \A c \in want : <<0, c>> \in stored
    /\ \A c \in manifest.chunks : <<0, c>> \in stored

(* Once the backup has put its chunks they are in the index in memory, and *)
(* in chunk.idx before the superblock says that the backup is complete.    *)
IndexInv ==
    /\ pc # "off" => \A c \in Chunks : idxFile[c] # NoPack => idx[c] # NoPack
    /\ pc \in {"chunking", "storing"} => \A c \in want \ todo : idx[c] # NoPack
    /\ pc = "storing" => todo = {}
    /\ pc \in SessionOver \ {"finishing"} => \A c \in want : idx[c] # NoPack
    /\ pc = "finishing" => \A c \in want : idxFile[c] # NoPack
    /\ manifest.txn = sb.next - 1 => \A c \in manifest.chunks : idxFile[c] # NoPack

-----------------------------------------------------------------------------
(* StoreInv holds of a fresh repository. *)
LEMMA InitStoreInv == Init => StoreInv
<1> SUFFICES ASSUME Init PROVE StoreInv
    OBVIOUS
<1>1. IdsInv
  BY DEF Init, IdsInv
<1>2. SessionInv /\ FreshInv /\ ReadInv
  BY DEF Init, SessionInv, FreshInv, ReadInv, SessionOver
<1> QED BY <1>1, <1>2, InitTypeOK DEF StoreInv

(* A step that leaves the chunk store alone and enters a phase that fits   *)
(* the session.                                                            *)
LEMMA ControlStep ==
    ASSUME StoreInv, UNCHANGED <<storeVars, historyVars>>,
           sb'.next >= 1, mem'.next >= 1,
           pc' # "scanning" \/ (pc = "scanning" /\ mem'.txn = mem.txn),
           pc' \in {"off"} \cup SessionOver => session = 0,
           pc' \in {"chunking", "storing"} => session # 0
    PROVE  IdsInv' /\ SessionInv' /\ FreshInv' /\ ReadInv'
<1> USE DEF storeVars, historyVars
<1>1. IdsInv'
  BY DEF StoreInv, IdsInv
<1>2. SessionInv'
  BY DEF StoreInv, SessionInv, PackRecords
<1>3. FreshInv'
  BY DEF StoreInv, FreshInv
<1>4. ReadInv'
  BY DEF StoreInv, ReadInv
<1> QED BY <1>1, <1>2, <1>3, <1>4

(* Every step keeps the index entries of unreused packs readable. *)
LEMMA NextStoreInv == StoreInv /\ [Next]_vars => StoreInv'
<1> SUFFICES ASSUME StoreInv, [Next]_vars PROVE IdsInv' /\ SessionInv' /\ FreshInv' /\ ReadInv'
    BY NextTypeOK DEF StoreInv
<1> USE DEF storeVars, historyVars, diskVars, metaVars
<1>0. /\ sb \in Block /\ mem \in Block /\ manifest \in Manifests
      /\ sb.next \in Nat /\ mem.next \in Nat /\ mem.txn \in Nat
      /\ sb.next >= 1 /\ mem.next >= 1
  BY DEF StoreInv, TypeOK, IdsInv, Block
<1>1. CASE Open
  <2>1. SelfCheck.next >= 1
    BY <1>0 DEF SelfCheck, Block, Manifests
  <2>2. /\ sb'.next >= 1 /\ mem'.next >= 1 /\ pc = "off" /\ pc' = "ready"
        /\ session = 0 /\ buffer = {} /\ idx' = LoadIndex
        /\ UNCHANGED <<stored, cached, idxFile, session, packOpen, buffer, begun, reused>>
    BY <1>1, <2>1 DEF Open, StoreInv, SessionInv
  <2>3. Modern => idx' = idxFile
    BY <2>2 DEF LoadIndex
  <2>4. IdsInv'
    BY <2>2, <2>3 DEF StoreInv, IdsInv
  <2>5. SessionInv' /\ FreshInv'
    BY <2>2 DEF StoreInv, SessionInv, FreshInv, SessionOver
  <2>6. ReadInv'
    BY <2>2, <2>3 DEF StoreInv, ReadInv
  <2> QED BY <2>4, <2>5, <2>6
<1>2. ASSUME NEW w \in Trees, StartBackup(w) PROVE IdsInv' /\ SessionInv' /\ FreshInv' /\ ReadInv'
  <2>1. /\ mem'.txn = mem.next /\ mem'.next = mem.next
        /\ sb'.next \in {sb.next, mem.next}
        /\ pc' \in {"scanning", "ready", "failed"}
        /\ begun' = begun \cup {mem.next} /\ reused' = reused \cup (begun \cap {mem.next})
        /\ UNCHANGED storeVars
    BY <1>2, PersistFacts, CommitErrorPc DEF StartBackup
  <2>2. IdsInv'
    BY <1>0, <2>1 DEF StoreInv, IdsInv
  <2>3. SessionInv'
    BY <2>1 DEF StoreInv, SessionInv, SessionOver, PackRecords
  <2>4. FreshInv'
    BY <2>1 DEF StoreInv, FreshInv, IdsInv, TypeOK, Index, NoPack
  <2>5. ReadInv'
    BY <2>1 DEF StoreInv, ReadInv
  <2> QED BY <2>2, <2>3, <2>4, <2>5
<1>3. CASE RefuseBackup
  <2>1. mem'.next = mem.next /\ sb' = sb /\ pc = "ready" /\ pc' = pc
    BY <1>0, <1>3 DEF RefuseBackup, Block
  <2> QED BY <1>0, <1>3, <2>1, ControlStep DEF RefuseBackup, SessionOver
<1>4. CASE RejectBackup
  <2>1. [mem EXCEPT !.txn = mem.next] \in Block /\ [mem EXCEPT !.txn = mem.next].next = mem.next
    BY <1>0 DEF Block
  <2>2. mem'.next = mem.next /\ sb'.next \in {sb.next, mem.next} /\ pc' \in {"ready", "failed"}
    BY <1>0, <1>4, <2>1, PersistAbortedFacts, CommitErrorPc DEF RejectBackup
  <2> QED BY <1>0, <1>4, <2>2, ControlStep DEF RejectBackup, SessionOver
<1>5. CASE BeginChunking
  <2>1. /\ mem'.next = mem.next /\ sb'.next \in {sb.next, mem.next}
        /\ pc = "scanning" /\ pc' \in {"chunking", "ready", "failed"}
        /\ UNCHANGED <<stored, cached, idxFile, idx, buffer, begun, reused>>
    BY <1>0, <1>5, PersistFacts, CommitErrorPc DEF BeginChunking, Block
  <2>2. \/ /\ pc' = "chunking" /\ session = 0
           /\ session' = mem.txn /\ packOpen' = FALSE
        \/ /\ UNCHANGED <<session, packOpen>>
           /\ pc' = "chunking" => session # 0
    BY <1>5 DEF BeginChunking
  <2>3. mem.txn \in begun /\ mem.txn # 0
    BY <2>1 DEF StoreInv, IdsInv
  <2>4. IdsInv'
    BY <1>0, <2>1, <2>2, <2>3 DEF StoreInv, IdsInv
  <2>5. SessionInv'
    BY <2>1, <2>2, <2>3 DEF StoreInv, SessionInv, SessionOver, PackRecords
  <2>6. FreshInv'
    BY <2>1, <2>2 DEF StoreInv, FreshInv
  <2>7. ReadInv'
    BY <2>1 DEF StoreInv, ReadInv
  <2> QED BY <2>4, <2>5, <2>6, <2>7
<1>6. ASSUME NEW c \in Chunks, PutChunk(c) PROVE IdsInv' /\ SessionInv' /\ FreshInv' /\ ReadInv'
  <2>1. /\ UNCHANGED <<sb, mem, pc, idxFile, session, begun, reused>>
        /\ pc \in {"chunking", "storing"} /\ session # 0
    BY <1>6 DEF PutChunk, StoreInv, SessionInv
  <2>2. CASE UNCHANGED <<idx, stored, cached, buffer, packFiles, packOpen>>
    <3>1. UNCHANGED <<storeVars, historyVars>>
      BY <1>6, <2>2 DEF PutChunk
    <3> QED BY <1>0, <2>1, <3>1, ControlStep DEF SessionOver
  <2>3. CASE Modern /\ AppendEbPack(c)
    <3>1. /\ idx' = [idx EXCEPT ![c] = session] /\ idx \in Index /\ idx'[c] = session
          /\ buffer' = buffer \cup {<<session, c>>} /\ packOpen'
          /\ \A d \in Chunks : d # c => idx'[d] = idx[d]
      BY <2>3 DEF AppendEbPack, StoreInv, TypeOK, Index
    <3>2. IdsInv'
      BY <2>1, <3>1 DEF StoreInv, IdsInv
    <3>3. SessionInv'
      BY <1>6, <2>1, <3>1 DEF StoreInv, SessionInv, SessionOver, PackRecords
    <3>4. FreshInv'
      BY <2>1, <3>1 DEF StoreInv, FreshInv
    <3>5. ASSUME NEW d \in Chunks
          PROVE  /\ idx'[d] # NoPack /\ idx'[d] \notin reused =>
                       <<idx'[d], d>> \in (stored' \ cached') \cup buffer'
                 /\ idxFile[d] # NoPack /\ idxFile[d] \notin reused =>
                       <<idxFile[d], d>> \in stored' \ cached'
      <4>1. CASE packOpen
        BY <2>1, <2>3, <3>1, <4>1 DEF AppendEbPack, StoreInv, ReadInv
      <4>2. CASE ~packOpen
        <5>1. /\ stored' = stored \ PackRecords(session)
              /\ cached' = cached \ PackRecords(session)
          BY <2>3, <4>2 DEF AppendEbPack
        <5>2. session \notin reused => idx[d] # session /\ idxFile[d] # session
          BY <2>1, <2>3, <4>2 DEF StoreInv, FreshInv
        <5>3. \A p : p # session => <<p, d>> \notin PackRecords(session)
          BY DEF PackRecords
        <5>4. idxFile[d] # NoPack /\ idxFile[d] \notin reused =>
                 <<idxFile[d], d>> \in stored' \ cached'
          BY <2>3, <5>1, <5>2, <5>3 DEF StoreInv, ReadInv
        <5>5. CASE d = c
          BY <3>1, <5>4, <5>5
        <5>6. CASE d # c
          BY <2>3, <3>1, <5>1, <5>2, <5>3, <5>4, <5>6 DEF StoreInv, ReadInv
        <5> QED BY <5>5, <5>6
      <4> QED BY <4>1, <4>2
    <3>6. ReadInv'
      BY <2>1, <3>5 DEF ReadInv
    <3> QED BY <3>2, <3>3, <3>4, <3>6
  <2>4. CASE ~Modern /\ AppendLegacy(c)
    BY <2>1, <2>4 DEF AppendLegacy, StoreInv, IdsInv, SessionInv, FreshInv, ReadInv, SessionOver
  <2> QED BY <1>6, <2>2, <2>3, <2>4 DEF PutChunk
<1>7. CASE BeginStoring
  <2>1. /\ mem'.next = mem.next /\ sb'.next \in {sb.next, mem.next}
        /\ pc = "chunking" /\ pc' \in {"storing", "ready", "failed"}
    BY <1>0, <1>7, PersistFacts, CommitErrorPc DEF BeginStoring, Block
  <2>2. session # 0
    BY <2>1 DEF StoreInv, SessionInv
  <2> QED BY <1>0, <1>7, <2>1, <2>2, ControlStep DEF BeginStoring, SessionOver
<1>8. CASE Flush
  <2>1. /\ UNCHANGED <<sb, mem, idx, idxFile, begun, reused>> /\ session' = 0
        /\ pc' = "flushed" /\ buffer' = {}
    BY <1>8 DEF Flush, FlushEbPack, FlushLegacy
  <2>2. IdsInv' /\ SessionInv' /\ FreshInv'
    BY <1>0, <2>1 DEF StoreInv, IdsInv, SessionInv, FreshInv, SessionOver
  <2>3. ASSUME Modern PROVE ReadInv'
    <3>1. /\ stored' = stored \cup buffer /\ cached' = cached \ PackRecords(session)
          /\ buffer \subseteq PackRecords(session)
      BY <1>8, <2>3 DEF Flush, FlushEbPack, StoreInv, SessionInv
    <3> QED BY <2>1, <2>3, <3>1 DEF StoreInv, ReadInv
  <2> QED BY <2>2, <2>3 DEF ReadInv
<1>9. CASE BeginCommittingMeta
  <2>1. /\ mem'.next = mem.next /\ sb'.next \in {sb.next, mem.next}
        /\ pc = "flushed" /\ pc' \in {"committing", "ready", "failed"}
    BY <1>0, <1>9, PersistFacts, CommitErrorPc DEF BeginCommittingMeta, Block
  <2>2. session = 0
    BY <2>1 DEF StoreInv, SessionInv, SessionOver
  <2> QED BY <1>0, <1>9, <2>1, <2>2, ControlStep DEF BeginCommittingMeta
<1>10. CASE PublishManifest \/ ArchiveSnapshot \/ AppendAuditEntry
  <2>1. /\ pc \in SessionOver /\ pc' \in SessionOver
        /\ UNCHANGED <<sb, mem, storeVars, historyVars>>
    BY <1>10 DEF PublishManifest, ArchiveSnapshot, AppendAuditEntry, SessionOver
  <2>2. session = 0
    BY <2>1 DEF StoreInv, SessionInv
  <2> QED BY <1>0, <2>1, <2>2, ControlStep DEF SessionOver
<1>12. CASE BeginAuditing
  <2>1. /\ mem'.next = mem.next /\ sb'.next \in {sb.next, mem.next}
        /\ pc = "archived" /\ pc' \in {"auditing", "ready", "failed"}
    BY <1>0, <1>12, PersistFacts, CommitErrorPc DEF BeginAuditing, Block
  <2>2. session = 0
    BY <2>1 DEF StoreInv, SessionInv, SessionOver
  <2> QED BY <1>0, <1>12, <2>1, <2>2, ControlStep DEF BeginAuditing
<1>14. CASE SaveIndex
  <2>1. /\ pc = "audited" /\ pc' = "finishing" /\ session = 0 /\ buffer = {}
        /\ UNCHANGED <<sb, stored, cached, idx, buffer, session, packOpen, begun, reused>>
        /\ Modern => idxFile' = idx
    BY <1>14 DEF SaveIndex, StoreInv, SessionInv, SessionOver
  <2>2. mem'.next >= 1
    BY <1>0, <1>14 DEF SaveIndex, Block
  <2>3. IdsInv'
    BY <1>0, <2>1, <2>2 DEF StoreInv, IdsInv
  <2>4. SessionInv' /\ FreshInv'
    BY <2>1 DEF StoreInv, SessionInv, FreshInv, SessionOver
  <2>5. ReadInv'
    BY <2>1 DEF StoreInv, ReadInv
  <2> QED BY <2>3, <2>4, <2>5
<1>15. CASE Complete
  <2>1. /\ mem' = mem /\ sb'.next \in {sb.next, mem.next} /\ pc' \in {"ready", "failed"}
    BY <1>15, PersistFacts, CommitErrorPc DEF Complete
  <2> QED BY <1>0, <1>15, <2>1, ControlStep DEF Complete, SessionOver
<1>16. CASE Fail
  <2>1. mem'.next = mem.next /\ sb'.next \in {sb.next, mem.next} /\ pc' \in {"ready", "failed"}
    BY <1>0, <1>16, PersistAbortedFacts, CommitErrorPc DEF Fail
  <2> QED BY <1>0, <1>16, <2>1, ControlStep DEF Fail, SessionOver
<1>17. CASE Recover
  <2>1. mem'.next = mem.next /\ sb' = mem' /\ pc = "ready" /\ pc' = pc
    BY <1>0, <1>17 DEF Recover, Block
  <2> QED BY <1>0, <1>17, <2>1, ControlStep DEF Recover, SessionOver
<1>18. CASE GcOrphans
  BY <1>18 DEF GcOrphans, StoreInv, IdsInv, SessionInv, FreshInv, ReadInv
<1>19. ASSUME NEW s \in snaps, PruneSnapshot(s) PROVE IdsInv' /\ SessionInv' /\ FreshInv' /\ ReadInv'
  BY <1>19 DEF PruneSnapshot, StoreInv, IdsInv, SessionInv, FreshInv, ReadInv
<1>20. CASE Kill \/ PowerLoss
  <2>1. /\ UNCHANGED <<sb, idxFile, begun, reused>> /\ pc' = "off" /\ mem' = sb
        /\ idx' = [c \in Chunks |-> NoPack] /\ buffer' = {} /\ session' = 0
    BY <1>20 DEF Kill, PowerLoss, ProcessGone
  <2>2. stored \ cached \subseteq stored' \ cached'
    BY <1>20 DEF Kill, PowerLoss, StoreInv, TypeOK
  <2>3. IdsInv'
    BY <1>0, <2>1 DEF StoreInv, IdsInv
  <2>4. SessionInv' /\ FreshInv'
    BY <2>1 DEF SessionInv, FreshInv, SessionOver
  <2>5. ReadInv'
    BY <2>1, <2>2 DEF StoreInv, ReadInv
  <2> QED BY <2>3, <2>4, <2>5
<1>21. CASE UNCHANGED vars
  BY <1>21 DEF vars, StoreInv, IdsInv, SessionInv, FreshInv, ReadInv
<1> QED
  BY <1>1, <1>2, <1>3, <1>4, <1>5, <1>6, <1>7, <1>8, <1>9, <1>10, <1>12, <1>14, <1>15,
     <1>16, <1>17, <1>18, <1>19, <1>20, <1>21 DEF Next

(* In an EbPack repository every entry of chunk.idx points to a record     *)
(* that is fsynced, unless its pack belongs to a reused transaction id:    *)
(* SavePersistentIndex runs after Flush, and packs are never rewritten     *)
(* otherwise.  Nothing is assumed of failing superblock commits.           *)
THEOREM IndexPointsToRecords == ASSUME Modern PROVE Spec => []IndexedReadable
<1>1. StoreInv => IndexedReadable
  BY DEF StoreInv, ReadInv, IndexedReadable
<1>2. Spec => []StoreInv
  BY InitStoreInv, NextStoreInv, PTL DEF Spec
<1> QED BY <1>1, <1>2, PTL

-----------------------------------------------------------------------------
(* What Persist does to the control alone. *)
LEMMA PersistPc ==
    ASSUME NEW m, NEW there, Persist(m, there)
    PROVE  pc' \in {there, "ready", "failed"}
  BY PersistFacts, CommitErrorPc

(* LegacyInv holds of a fresh repository. *)
LEMMA InitLegacyInv == Init => LegacyInv
  BY DEF Init, LegacyInv, SessionOver

(* Every step but a power failure keeps the chunk file complete. *)
LEMMA NextLegacyInv ==
    ASSUME ~Modern, ~PowerFails
    PROVE  TypeOK /\ LegacyInv /\ [Next]_vars => LegacyInv'
<1> SUFFICES ASSUME TypeOK, LegacyInv, [Next]_vars PROVE LegacyInv'
    OBVIOUS
<1> USE DEF storeVars, historyVars, diskVars, metaVars
<1>1. CASE Open
  BY <1>1 DEF Open, LoadIndex, LegacyInv, SessionOver
<1>2. ASSUME NEW w \in Trees, StartBackup(w) PROVE LegacyInv'
  <2>1. pc' \in {"scanning", "ready", "failed"}
    BY <1>2, PersistPc DEF StartBackup
  <2> QED BY <1>2, <2>1 DEF StartBackup, LegacyInv, SessionOver
<1>3. CASE RefuseBackup \/ RejectBackup \/ Recover \/ GcOrphans
  <2>1. pc' \in {"ready", "failed"}
        /\ UNCHANGED <<stored, buffer, idx, manifest, want, todo>>
    BY <1>3, CommitErrorPc
    DEF RefuseBackup, RejectBackup, Recover, GcOrphans, PersistAborted
  <2> QED BY <2>1 DEF LegacyInv, SessionOver
<1>5. CASE BeginChunking
  <2>1. pc' \in {"chunking", "ready", "failed"}
    BY <1>5, PersistPc DEF BeginChunking
  <2> QED BY <1>5, <2>1 DEF BeginChunking, LegacyInv, SessionOver
<1>6. ASSUME NEW c \in Chunks, PutChunk(c) PROVE LegacyInv'
  <2>1. /\ pc = "storing" /\ pc' = pc /\ todo' = todo \ {c}
        /\ UNCHANGED <<manifest, want>> /\ stored \cup buffer \subseteq stored' \cup buffer'
        /\ stored \subseteq stored'
    BY <1>6 DEF PutChunk, AppendLegacy
  <2>2. CASE Exists(c) /\ UNCHANGED <<idx, stored, cached, buffer, packFiles, packOpen>>
    BY <2>1, <2>2 DEF LegacyInv, Exists, SessionOver
  <2>3. CASE AppendLegacy(c)
    <3>1. /\ idx'[c] = 0 /\ \A d \in Chunks : d # c => idx'[d] = idx[d]
          /\ <<0, c>> \in stored' \cup buffer'
      BY <2>3 DEF AppendLegacy, TypeOK, Index
    <3> QED BY <2>1, <3>1 DEF LegacyInv, SessionOver, NoPack, TypeOK
  <2> QED BY <1>6, <2>2, <2>3 DEF PutChunk
<1>7. CASE BeginStoring
  <2>1. pc' \in {"storing", "ready", "failed"}
    BY <1>7, PersistPc DEF BeginStoring
  <2> QED BY <1>7, <2>1 DEF BeginStoring, LegacyInv, SessionOver
<1>8. CASE Flush
  <2>1. /\ pc = "storing" /\ pc' = "flushed" /\ todo = {} /\ stored' = stored \cup buffer
        /\ UNCHANGED <<idx, manifest, want, todo>>
    BY <1>8 DEF Flush, FlushLegacy
  <2>2. want \subseteq Chunks
    BY DEF TypeOK
  <2> QED BY <2>1, <2>2 DEF LegacyInv, SessionOver
<1>9. CASE BeginCommittingMeta \/ BeginAuditing
  <2>1. pc \in SessionOver /\ pc' \in {"committing", "auditing", "ready", "failed"}
    BY <1>9, PersistPc DEF BeginCommittingMeta, BeginAuditing, SessionOver
  <2> QED BY <1>9, <2>1 DEF BeginCommittingMeta, BeginAuditing, LegacyInv
<1>10. CASE PublishManifest
  BY <1>10 DEF PublishManifest, LegacyInv, SessionOver
<1>11. CASE ArchiveSnapshot \/ AppendAuditEntry \/ SaveIndex
  <2>1. /\ pc \in SessionOver /\ pc' \in SessionOver
        /\ UNCHANGED <<stored, buffer, idx, manifest, want>>
    BY <1>11 DEF ArchiveSnapshot, AppendAuditEntry, SaveIndex, SessionOver
  <2> QED BY <2>1 DEF LegacyInv, SessionOver
<1>12. CASE Complete \/ Fail
  <2>1. pc' \in {"ready", "failed"} /\ UNCHANGED <<stored, buffer, idx, manifest>>
    BY <1>12, PersistPc, CommitErrorPc DEF Complete, Fail, PersistAborted
  <2> QED BY <2>1 DEF LegacyInv, SessionOver
<1>13. ASSUME NEW s \in snaps, PruneSnapshot(s) PROVE LegacyInv'
  BY <1>13 DEF PruneSnapshot, LegacyInv
<1>14. CASE Kill
  BY <1>14 DEF Kill, ProcessGone, LegacyInv, SessionOver
<1>15. CASE PowerLoss
  BY <1>15 DEF PowerLoss
<1>16. CASE UNCHANGED vars
  BY <1>16 DEF vars, LegacyInv
<1> QED
  BY <1>1, <1>2, <1>3, <1>5, <1>6, <1>7, <1>8, <1>9, <1>10, <1>11, <1>12, <1>13, <1>14,
     <1>15, <1>16 DEF Next

(* In a legacy repository every chunk of the published manifest is in the  *)
(* chunk file, across aborted backups and kills of the process.  (A power  *)
(* failure may lose it: Flush does not always fsync.)                      *)
THEOREM LegacyPublished ==
    ASSUME ~Modern, ~PowerFails PROVE Spec => []PublishedReadable
<1>1. LegacyInv => PublishedReadable
  BY DEF LegacyInv, PublishedReadable
<1>2. Spec => [](TypeOK /\ LegacyInv)
  <2>1. Init => TypeOK /\ LegacyInv
    BY InitTypeOK, InitLegacyInv
  <2>2. TypeOK /\ LegacyInv /\ [Next]_vars => (TypeOK /\ LegacyInv)'
    BY NextTypeOK, NextLegacyInv
  <2> QED BY <2>1, <2>2, PTL DEF Spec
<1> QED BY <1>1, <1>2, PTL

-----------------------------------------------------------------------------
(* IndexInv holds of a fresh repository. *)
LEMMA InitIndexInv == Init => IndexInv
  BY DEF Init, IndexInv, SessionOver

(* Every step keeps the index complete for the published backup. *)
LEMMA NextIndexInv ==
    ASSUME Modern, ~Outlives
    PROVE  TxnInv /\ IndexInv /\ [Next]_vars => IndexInv'
<1> SUFFICES ASSUME TxnInv, IndexInv, [Next]_vars PROVE IndexInv'
    OBVIOUS
<1> USE DEF storeVars, historyVars, diskVars, metaVars
<1>0. /\ TypeOK /\ sb \in Block /\ mem \in Block /\ sb.next \in Nat
      /\ manifest.txn \in {sb.next - 1, sb.next}
  BY DEF TxnInv, TypeOK, DiskInv, Block
<1>1. CASE Open
  <2>1. ~(sb.phase \in InProgress /\ manifest.txn > sb.txn)
    BY DEF TxnInv, DiskInv, TypeOK, Block, Manifests
  <2>2. sb'.next = sb.next /\ idx' = idxFile /\ pc' = "ready" /\ UNCHANGED <<idxFile, manifest>>
    BY <1>0, <1>1, <2>1 DEF Open, SelfCheck, LoadIndex, Block
  <2> QED BY <2>2 DEF IndexInv, SessionOver
<1>2. ASSUME NEW w \in Trees, StartBackup(w) PROVE IndexInv'
  <2>1. pc' \in {"scanning", "ready", "failed"} /\ sb'.next = sb.next /\ pc = "ready"
    BY <1>2, PersistPc, PersistFacts DEF StartBackup, TxnInv, ProcInv
  <2> QED BY <1>2, <2>1 DEF StartBackup, IndexInv, SessionOver
<1>3. CASE RefuseBackup \/ GcOrphans
  BY <1>3 DEF RefuseBackup, GcOrphans, IndexInv
<1>4. CASE RejectBackup \/ Recover
  <2>1. /\ pc = "ready" /\ pc' \in {"ready", "failed"} /\ sb'.next = sb.next
        /\ UNCHANGED <<idx, idxFile, manifest>>
    BY <1>0, <1>4, CommitErrorPc
    DEF RejectBackup, Recover, PersistAborted, TxnInv, ProcInv, Block
  <2> QED BY <2>1 DEF IndexInv, SessionOver
<1>5. CASE BeginChunking
  <2>1. /\ pc' \in {"chunking", "ready", "failed"} /\ pc = "scanning" /\ sb'.next = sb.next
        /\ todo' = want' /\ UNCHANGED <<idx, idxFile, manifest>>
    BY <1>0, <1>5, PersistPc, PersistFacts DEF BeginChunking, TxnInv, ProcInv, Running, Block
  <2> QED BY <2>1 DEF IndexInv, SessionOver
<1>6. ASSUME NEW c \in Chunks, PutChunk(c) PROVE IndexInv'
  <2>1. /\ pc = "chunking" /\ pc' = pc /\ todo' = todo \ {c}
        /\ UNCHANGED <<sb, manifest, want, idxFile>>
    BY <1>6 DEF PutChunk
  <2>2. idx'[c] # NoPack /\ \A d \in Chunks : d # c => idx'[d] = idx[d]
    <3>1. CASE Exists(c) /\ UNCHANGED <<idx, stored, cached, buffer, packFiles, packOpen>>
      BY <3>1 DEF Exists
    <3>2. CASE AppendEbPack(c)
      BY <1>0, <3>2 DEF AppendEbPack, TypeOK, Index, NoPack
    <3> QED BY <1>6, <3>1, <3>2 DEF PutChunk
  <2>3. want \subseteq Chunks
    BY <1>0 DEF TypeOK
  <2> QED BY <2>1, <2>2, <2>3 DEF IndexInv, SessionOver
<1>7. CASE BeginStoring
  <2>1. /\ pc' \in {"storing", "ready", "failed"} /\ pc = "chunking" /\ sb'.next = sb.next
        /\ todo = {} /\ UNCHANGED <<idx, idxFile, manifest, want, todo>>
    BY <1>0, <1>7, PersistPc, PersistFacts DEF BeginStoring, TxnInv, ProcInv, Running, Block
  <2> QED BY <2>1 DEF IndexInv, SessionOver
<1>8. CASE Flush
  <2>1. /\ pc = "storing" /\ pc' = "flushed" /\ todo = {}
        /\ UNCHANGED <<sb, idx, idxFile, manifest, want>>
    BY <1>8 DEF Flush
  <2> QED BY <2>1 DEF IndexInv, SessionOver
<1>9. CASE BeginCommittingMeta \/ BeginAuditing
  <2>1. /\ pc \in {"flushed", "archived"}
        /\ pc' \in {"committing", "auditing", "ready", "failed"} /\ sb'.next = sb.next
        /\ UNCHANGED <<idx, idxFile, manifest, want>>
    BY <1>0, <1>9, PersistPc, PersistFacts
    DEF BeginCommittingMeta, BeginAuditing, TxnInv, ProcInv, Running, Block
  <2> QED BY <2>1 DEF IndexInv, SessionOver
<1>10. CASE PublishManifest
  <2>1. /\ pc = "committing" /\ pc' = "published" /\ manifest'.txn = sb.next
        /\ UNCHANGED <<sb, idx, idxFile, want>>
    BY <1>10 DEF PublishManifest, TxnInv, ProcInv, Running
  <2> QED BY <1>0, <2>1 DEF IndexInv, SessionOver
<1>11. CASE ArchiveSnapshot \/ AppendAuditEntry
  <2>1. /\ pc \in SessionOver \ {"finishing"} /\ pc' \in SessionOver \ {"finishing"}
        /\ UNCHANGED <<sb, idx, idxFile, manifest, want>>
    BY <1>11 DEF ArchiveSnapshot, AppendAuditEntry, SessionOver
  <2> QED BY <2>1 DEF IndexInv, SessionOver
<1>12. CASE SaveIndex
  <2>1. /\ pc = "audited" /\ pc' = "finishing" /\ idxFile' = idx
        /\ UNCHANGED <<sb, idx, manifest, want>>
    BY <1>12 DEF SaveIndex
  <2>2. manifest.chunks \subseteq Chunks
    BY <1>0 DEF TypeOK, Manifests
  <2> QED BY <2>1, <2>2 DEF IndexInv, SessionOver
<1>13. CASE Complete \/ Fail
  <2>1. /\ pc' \in {"ready", "failed"} /\ pc # "off"
        /\ sb' = sb \/ sb'.next = mem.next
        /\ UNCHANGED <<idx, idxFile, manifest>>
    BY <1>0, <1>13, PersistPc, PersistFacts, PersistAbortedFacts, CommitErrorPc
    DEF Complete, Fail
  <2>2. CASE sb'.next = sb.next
    BY <2>1, <2>2 DEF IndexInv, SessionOver
  <2>3. CASE sb'.next # sb.next
    <3>1. pc = "finishing"
      BY <1>13, <2>1, <2>3 DEF Complete, Fail, TxnInv, ProcInv, Running
    <3>2. \A c \in manifest.chunks : idxFile[c] # NoPack
      BY <3>1 DEF IndexInv, TxnInv, ProcInv, Published
    <3> QED BY <2>1, <3>2 DEF IndexInv, SessionOver
  <2> QED BY <2>2, <2>3
<1>14. ASSUME NEW s \in snaps, PruneSnapshot(s) PROVE IndexInv'
  BY <1>14 DEF PruneSnapshot, IndexInv
<1>15. CASE Kill \/ PowerLoss
  <2>1. UNCHANGED <<sb, idxFile, manifest>> /\ pc' = "off"
    BY <1>15 DEF Kill, PowerLoss, ProcessGone
  <2> QED BY <2>1 DEF IndexInv, SessionOver
<1>16. CASE UNCHANGED vars
  BY <1>16 DEF vars, IndexInv
<1> QED
  BY <1>1, <1>2, <1>3, <1>4, <1>5, <1>6, <1>7, <1>8, <1>9, <1>10, <1>11, <1>12, <1>13,
     <1>14, <1>15, <1>16 DEF Next

(* In an EbPack repository the index that the next Open loads has every    *)
(* chunk of a backup that the superblock says is complete.                 *)
THEOREM CompletedInIndex ==
    ASSUME Modern, ~Outlives PROVE Spec => []CompletedIndexed
<1>1. TxnInv /\ IndexInv => CompletedIndexed
  BY DEF TxnInv, DiskInv, IndexInv, CompletedIndexed, LoadIndex
<1>2. Spec => [](TxnInv /\ IndexInv)
  <2>1. Init => TxnInv /\ IndexInv
    BY InitTxnInv, InitIndexInv
  <2>2. TxnInv /\ IndexInv /\ [Next]_vars => (TxnInv /\ IndexInv)'
    BY NextTxnInv, NextIndexInv
  <2> QED BY <2>1, <2>2, PTL DEF Spec
<1> QED BY <1>1, <1>2, PTL
=============================================================================
