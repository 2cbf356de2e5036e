---------------------------- MODULE BackupEngine ----------------------------
(***************************************************************************)
(* BackupEngine::RunBackup over one repository: the phases of a backup,    *)
(* the order in which chunks, manifest, snapshot, audit chain, chunk index *)
(* and superblock reach the disk, and what Open finds after a crash.       *)
(*                                                                         *)
(* Modern repositories (the default of `eb init') use EbPack files, a      *)
(* persistent chunk index, snapshots, the pipeline and coalesced metadata; *)
(* the others (`--legacy-init') use one append-only chunk file that Open   *)
(* scans, and no snapshots.                                                *)
(*                                                                         *)
(* A record <<p, c>> is chunk c in pack p; pack 0 is the legacy file, pack *)
(* t > 0 the EbPack file of transaction t (one shard, no spill to a second *)
(* file).  The superblock is the atomic register that SuperBlock is shown  *)
(* to implement.  A chunk stands for its content hash.                     *)
(***************************************************************************)
EXTENDS Integers

CONSTANTS Chunks,      \* content hashes
          Trees,       \* source trees, each the set of the chunks it is cut into
          MaxTxn,      \* bound: transaction ids that may be started
          Modern,      \* default repository, or --legacy-init
          PowerFails,  \* power failures as well as process kills
          Outlives     \* the engine object is used on after a superblock commit
                       \* failed (a C API handle), or dropped (eb, the daemon)

ASSUME TreesAssumption == Trees \subseteq SUBSET Chunks
ASSUME MaxTxnAssumption == MaxTxn \in Nat
ASSUME ModesAssumption == {Modern, PowerFails, Outlives} \subseteq BOOLEAN

NoPack == -1

VARIABLES
    (* on disk *)
    sb,          \* superblock: phase, txn_id, next_txn_id
    stored,      \* records in the chunk file or the packs, as the OS sees them
    cached,      \* those of them that no fsync has covered
    packFiles,   \* transactions that have an .ebpack file
    idxFile,     \* chunk.idx: chunk -> pack (NoPack everywhere: no file)
    manifest,    \* the published manifest (txn 0: none)
    snaps,       \* the snapshot manifests and their index
    rarLast,     \* last entry of audit/rar.chain
    rarFirst,    \* the first entry of every transaction in it
    tomb,        \* chunks.tombstones
    (* in the engine process *)
    pc,          \* where RunBackup is; "off": no process, "ready": idle
    mem,         \* sb_ and phase_
    idx,         \* shard_index_: chunk -> pack
    buffer,      \* records appended and still in user space
    session,     \* transaction of the active append session, 0 if none
    packOpen,    \* the session has created its pack file
    want,        \* chunks of the source tree being backed up
    todo,        \* those not yet handled
    (* history *)
    begun,       \* transaction ids some backup has used
    reused       \* transaction ids more than one backup has used

diskVars == <<sb, stored, cached, packFiles, idxFile, manifest, snaps, rarLast, rarFirst, tomb>>
storeVars == <<stored, cached, packFiles, idxFile, idx, buffer, session, packOpen, tomb>>
metaVars == <<manifest, snaps, rarLast, rarFirst>>
historyVars == <<begun, reused>>
vars == <<diskVars, pc, mem, idx, buffer, session, packOpen, want, todo, historyVars>>

Block == [phase : {"Idle", "Scanning", "Chunking", "Storing", "CommittingMeta",
                   "Auditing", "Aborted"},
          txn : Nat, next : Nat]

InProgress == {"Scanning", "Chunking", "Storing", "CommittingMeta", "Auditing"}

(* backup_phase.h: the phase a backup event leads to, from the right phase. *)
NextPhase(phase, event) ==
    CASE event = "ScanFile" /\ phase \in {"Idle", "Aborted"}       -> "Scanning"
      [] event = "ChunkFile" /\ phase = "Scanning"                 -> "Chunking"
      [] event = "StoreChunk" /\ phase = "Chunking"                -> "Storing"
      [] event = "CommitManifest" /\ phase = "Storing"             -> "CommittingMeta"
      [] event = "AppendAudit" /\ phase = "CommittingMeta"         -> "Auditing"
      [] event = "Complete" /\ phase \in {"CommittingMeta", "Auditing"} -> "Idle"
      [] OTHER                                                     -> "Aborted"

-----------------------------------------------------------------------------
Init == /\ sb = [phase |-> "Idle", txn |-> 0, next |-> 1]
        /\ stored = {} /\ cached = {} /\ packFiles = {}
        /\ idxFile = [c \in Chunks |-> NoPack]
        /\ manifest = [txn |-> 0, chunks |-> {}]
        /\ snaps = {}
        /\ rarLast = [txn |-> 0, chunks |-> {}]
        /\ rarFirst = {}
        /\ tomb = {}
        /\ pc = "off"
        /\ mem = [phase |-> "Idle", txn |-> 0, next |-> 1]
        /\ idx = [c \in Chunks |-> NoPack]
        /\ buffer = {}
        /\ session = 0
        /\ packOpen = FALSE
        /\ want = {} /\ todo = {}
        /\ begun = {} /\ reused = {}

(* ChunkStore::LoadIndex: chunk.idx as it is, or a scan of the chunk file. *)
LoadIndex == IF Modern
                THEN idxFile
                ELSE [c \in Chunks |-> IF <<0, c>> \in stored THEN 0 ELSE NoPack]

(* Mutation: a backup found unfinished is marked complete. *)
SelfCheckCompletes ==
    IF sb.phase \in InProgress \/ (Modern /\ manifest.txn = 0 /\ packFiles # {})
       THEN [sb EXCEPT !.phase = "Complete"]
       ELSE sb

(* StartupSelfCheck: what Open makes of the superblock it loaded. *)
SelfCheck ==
    IF sb.phase \in InProgress
       THEN IF manifest.txn > sb.txn
               THEN [phase |-> "Idle", txn |-> manifest.txn, next |-> manifest.txn + 1]
               ELSE [sb EXCEPT !.phase = "Aborted"]
       ELSE IF Modern /\ sb.phase = "Idle" /\ manifest.txn = 0 /\ packFiles # {}
               THEN [sb EXCEPT !.phase = "Aborted"]
               ELSE sb

Open == /\ pc = "off"
        /\ sb' = SelfCheck
        /\ mem' = SelfCheck
        /\ idx' = LoadIndex
        /\ pc' = "ready"
        /\ UNCHANGED <<stored, cached, packFiles, idxFile, tomb, metaVars, buffer,
                       session, packOpen, want, todo, historyVars>>

AfterCommitError == IF Outlives THEN "ready" ELSE "failed"

(* Mutation: the superblock keeps the transaction id of the last backup. *)
PersistPhaseOnly(m, there) ==
    /\ mem' = m
    /\ sb' = [sb EXCEPT !.phase = m.phase]
    /\ pc' = there

(* PersistSuperBlock(m.phase): coalesced metadata keeps a phase in memory; *)
(* when Commit fails RunBackup returns at once, and the block is on disk   *)
(* all the same if it was the fsync that failed.                           *)
Persist(m, there) ==
    /\ mem' = m
    /\ \/ /\ sb' = IF Modern /\ m.phase \in InProgress THEN sb ELSE m
          /\ pc' = there
       \/ /\ ~(Modern /\ m.phase \in InProgress)
          /\ sb' \in {sb, m}
          /\ pc' = AfterCommitError

(* An error on the way: (void)PersistSuperBlock(kAborted), then return. *)
PersistAborted(m) ==
    /\ mem' = [m EXCEPT !.phase = "Aborted"]
    /\ \/ sb' = mem' /\ pc' = "ready"
       \/ sb' \in {sb, mem'} /\ pc' = AfterCommitError

-----------------------------------------------------------------------------
(* Mutation: the transaction id is used up when the backup starts. *)
StartBackupUsesUp(w) ==
    /\ pc = "ready"
    /\ mem.next <= MaxTxn
    /\ NextPhase(mem.phase, "ScanFile") = "Scanning"
    /\ Persist([phase |-> "Scanning", txn |-> mem.next, next |-> mem.next + 1], "scanning")
    /\ want' = w /\ todo' = {}
    /\ UNCHANGED <<storeVars, metaVars, historyVars>>

(* RunBackup up to the scan: the next transaction id is taken in memory,   *)
(* and used up only when the backup completes.                             *)
StartBackup(w) ==
    /\ pc = "ready"
    /\ mem.next <= MaxTxn
    /\ NextPhase(mem.phase, "ScanFile") = "Scanning"
    /\ Persist([phase |-> "Scanning", txn |-> mem.next, next |-> mem.next], "scanning")
    /\ want' = w /\ todo' = {}
    /\ begun' = begun \cup {mem.next}
    /\ reused' = reused \cup (begun \cap {mem.next})
    /\ UNCHANGED <<storeVars, metaVars>>

(* Outside the backup window, CDC settings that do not match, encryption:  *)
(* RunBackup returns with the transaction id already changed in sb_.       *)
RefuseBackup ==
    /\ pc = "ready"
    /\ mem' = [mem EXCEPT !.txn = mem.next]
    /\ UNCHANGED <<diskVars, pc, idx, buffer, session, packOpen, want, todo, historyVars>>

(* The pre-backup command or the VSS snapshot fails, or the phase does not *)
(* accept a scan.                                                          *)
RejectBackup ==
    /\ pc = "ready"
    /\ PersistAborted([mem EXCEPT !.txn = mem.next])
    /\ UNCHANGED <<storeVars, metaVars, want, todo, historyVars>>

(* The scan is over: Chunking, and BeginAppendSession, which keeps the     *)
(* session that an aborted backup of this process left active.             *)
BeginChunking ==
    /\ pc = "scanning"
    /\ Persist([mem EXCEPT !.phase = NextPhase(@, "ChunkFile")], "chunking")
    /\ IF pc' = "chunking" /\ session = 0
          THEN session' = mem.txn /\ packOpen' = FALSE
          ELSE UNCHANGED <<session, packOpen>>
    /\ todo' = want
    /\ UNCHANGED <<stored, cached, packFiles, idxFile, idx, buffer, tomb, metaVars,
                   want, historyVars>>

Exists(c) == c \notin tomb /\ idx[c] # NoPack

(* AppendRecordInternal: the record joins the write buffer, which is       *)
(* written out, without fsync, whenever it has grown past a threshold.     *)
AppendLegacy(c) ==
    /\ idx' = [idx EXCEPT ![c] = 0]
    /\ \/ /\ buffer' = buffer \cup {<<0, c>>}
          /\ UNCHANGED <<stored, cached>>
       \/ /\ buffer' = {}
          /\ cached' = cached \cup ((buffer \cup {<<0, c>>}) \ stored)
          /\ stored' = stored \cup buffer \cup {<<0, c>>}
    /\ UNCHANGED <<packFiles, packOpen>>

PackRecords(t) == {<<t, c>> : c \in Chunks}

(* AppendRecordEbPack: the first record of a session creates its pack file *)
(* with O_TRUNC, whatever file of that name there was.                     *)
AppendEbPack(c) ==
    /\ idx' = [idx EXCEPT ![c] = session]
    /\ buffer' = buffer \cup {<<session, c>>}
    /\ IF packOpen
          THEN UNCHANGED <<stored, cached>>
          ELSE /\ stored' = stored \ PackRecords(session)
               /\ cached' = cached \ PackRecords(session)
    /\ packFiles' = packFiles \cup {session}
    /\ packOpen' = TRUE

(* PutKnownHash / PutPrecompressed for one chunk of the source tree. *)
PutChunk(c) ==
    /\ pc = (IF Modern THEN "chunking" ELSE "storing")
    /\ c \in todo
    /\ todo' = todo \ {c}
    /\ IF Exists(c) THEN UNCHANGED <<idx, stored, cached, buffer, packFiles, packOpen>>
       ELSE IF Modern THEN AppendEbPack(c)
       ELSE AppendLegacy(c)
    /\ UNCHANGED <<sb, mem, pc, idxFile, session, tomb, metaVars, want, historyVars>>

BeginStoring ==
    /\ pc = "chunking"
    /\ Modern => todo = {}
    /\ Persist([mem EXCEPT !.phase = NextPhase(@, "StoreChunk")], "storing")
    /\ UNCHANGED <<storeVars, metaVars, want, todo, historyVars>>

(* Mutation: a buffer below the threshold is left for later. *)
FlushLegacyLater == UNCHANGED <<stored, cached, buffer>>

(* ChunkStore::Flush of the legacy file: WriteBufferToSession(true), which *)
(* returns before the fsync when the buffer is empty.                      *)
FlushLegacy ==
    IF buffer = {} THEN UNCHANGED <<stored, cached, buffer>>
                   ELSE /\ stored' = stored \cup buffer
                        /\ cached' = {}
                        /\ buffer' = {}

(* Mutation: the packs are written and not fsynced. *)
FlushEbPackUnsynced == /\ stored' = stored \cup buffer
                       /\ cached' = cached \cup (buffer \ stored)
                       /\ buffer' = {}

(* FlushAllOpenPacks(true) and FsyncAll: every file of this session. *)
FlushEbPack == /\ stored' = stored \cup buffer
               /\ cached' = cached \ PackRecords(session)
               /\ buffer' = {}

(* Flush and EndAppendSession. *)
Flush == /\ pc = "storing"
         /\ todo = {}
         /\ IF Modern THEN FlushEbPack ELSE FlushLegacy
         /\ session' = 0
         /\ packOpen' = FALSE
         /\ pc' = "flushed"
         /\ UNCHANGED <<sb, mem, idx, idxFile, packFiles, tomb, metaVars, want, todo,
                        historyVars>>

BeginCommittingMeta ==
    /\ pc = "flushed"
    /\ Persist([mem EXCEPT !.phase = NextPhase(@, "CommitManifest")], "committing")
    /\ UNCHANGED <<storeVars, metaVars, want, todo, historyVars>>

(* CommitManifestFile up to the rename of manifest.new. *)
PublishManifest ==
    /\ pc = "committing"
    /\ manifest' = [txn |-> mem.txn, chunks |-> want]
    /\ pc' = "published"
    /\ UNCHANGED <<sb, mem, storeVars, snaps, rarLast, rarFirst, want, todo, historyVars>>

(* Mutation: the snapshot takes its transaction id from the superblock. *)
ArchiveSnapshotStaleTxn ==
    /\ pc = "published"
    /\ snaps' = {s \in snaps : s.txn # sb.txn} \cup {[manifest EXCEPT !.txn = sb.txn]}
    /\ pc' = "archived"
    /\ UNCHANGED <<sb, mem, storeVars, manifest, rarLast, rarFirst, want, todo, historyVars>>

(* ArchiveSnapshot replaces the entry of this transaction, if there is one.*)
ArchiveSnapshot ==
    /\ pc = "published"
    /\ snaps' = IF Modern
                   THEN {s \in snaps : s.txn # manifest.txn} \cup {manifest}
                   ELSE snaps
    /\ pc' = "archived"
    /\ UNCHANGED <<sb, mem, storeVars, manifest, rarLast, rarFirst, want, todo, historyVars>>

BeginAuditing ==
    /\ pc = "archived"
    /\ Persist([mem EXCEPT !.phase = NextPhase(@, "AppendAudit")], "auditing")
    /\ UNCHANGED <<storeVars, metaVars, want, todo, historyVars>>

AppendAuditEntry ==
    /\ pc = "auditing"
    /\ rarLast' = [txn |-> mem.txn, chunks |-> want]
    /\ rarFirst' = rarFirst \cup {e \in {rarLast'} : \A f \in rarFirst : f.txn # e.txn}
    /\ pc' = "audited"
    /\ UNCHANGED <<sb, mem, storeVars, manifest, snaps, want, todo, historyVars>>

(* Mutations: the index is not saved; the transaction id is not used up. *)
SaveIndexInMemory ==
    /\ pc = "audited"
    /\ mem' = [mem EXCEPT !.phase = NextPhase(@, "Complete"), !.next = mem.txn + 1]
    /\ pc' = "finishing"
    /\ UNCHANGED <<sb, storeVars, metaVars, want, todo, historyVars>>

SaveIndexKeepsTxn ==
    /\ pc = "audited"
    /\ idxFile' = IF Modern THEN idx ELSE idxFile
    /\ mem' = [mem EXCEPT !.phase = NextPhase(@, "Complete")]
    /\ pc' = "finishing"
    /\ UNCHANGED <<sb, stored, cached, packFiles, idx, buffer, session, packOpen, tomb,
                   metaVars, want, todo, historyVars>>

(* SavePersistentIndex (temporary file, fsync, rename), SetNextTxnId. *)
SaveIndex ==
    /\ pc = "audited"
    /\ idxFile' = IF Modern THEN idx ELSE idxFile
    /\ mem' = [mem EXCEPT !.phase = NextPhase(@, "Complete"), !.next = mem.txn + 1]
    /\ pc' = "finishing"
    /\ UNCHANGED <<sb, stored, cached, packFiles, idx, buffer, session, packOpen, tomb,
                   metaVars, want, todo, historyVars>>

(* The pending_ vectors are not read again before RunBackup clears them. *)
ForgetPending == want' = {} /\ todo' = {}

(* PersistSuperBlock(kIdle): the backup is complete. *)
Complete ==
    /\ pc = "finishing"
    /\ Persist(mem, "ready")
    /\ ForgetPending
    /\ UNCHANGED <<storeVars, metaVars, historyVars>>

(* Any step that can return an error does so; the append session stays     *)
(* active if it had not ended.                                             *)
Fail ==
    /\ pc \in {"scanning", "chunking", "storing", "flushed", "committing", "published",
               "auditing", "audited", "finishing"}
    /\ PersistAborted(mem)
    /\ ForgetPending
    /\ UNCHANGED <<storeVars, metaVars, historyVars>>

-----------------------------------------------------------------------------
(* Mutation: Recover makes room for the transaction to be run again. *)
RecoverRetries == /\ pc = "ready"
                  /\ mem' = [mem EXCEPT !.phase = "Aborted", !.next = mem.txn]
                  /\ sb' = mem'
                  /\ UNCHANGED <<pc, storeVars, metaVars, want, todo, historyVars>>

(* Recover: an error of Commit leaves everything as it was. *)
Recover == /\ pc = "ready"
           /\ mem' = [mem EXCEPT !.phase = "Aborted"]
           /\ sb' = mem'
           /\ UNCHANGED <<pc, storeVars, metaVars, want, todo, historyVars>>

(* What GcOrphans must keep: the manifest and every retained snapshot. *)
Referenced == manifest.chunks \cup UNION {s.chunks : s \in snaps}

Orphans == {c \in Chunks : idx[c] # NoPack /\ c \notin Referenced}

(* Tombstones are appended one by one: an error or a kill stops the sweep  *)
(* after some of them.                                                     *)
GcOrphans == /\ pc = "ready"
             /\ mem.phase \in {"Idle", "Aborted"}
             /\ Modern \/ manifest.txn > 0
             /\ \E gone \in SUBSET Orphans : tomb' = tomb \cup gone
             /\ UNCHANGED <<sb, mem, pc, stored, cached, packFiles, idxFile, idx, buffer,
                            session, packOpen, metaVars, want, todo, historyVars>>

(* PruneSnapshots, also from another process: any snapshot but the newest. *)
PruneSnapshot(s) ==
    /\ s \in snaps
    /\ \E u \in snaps : u.txn > s.txn
    /\ snaps' = snaps \ {s}
    /\ UNCHANGED <<sb, mem, pc, storeVars, manifest, rarLast, rarFirst, want, todo, historyVars>>

ProcessGone == /\ pc # "off"
               /\ pc' = "off"
               /\ mem' = sb
               /\ idx' = [c \in Chunks |-> NoPack]
               /\ buffer' = {}
               /\ session' = 0
               /\ packOpen' = FALSE
               /\ ForgetPending
               /\ UNCHANGED <<sb, packFiles, idxFile, tomb, metaVars, historyVars>>

(* The process ends, is killed, or drops the engine: some of its buffer    *)
(* may have been written.                                                  *)
Kill == /\ ProcessGone
        /\ \E written \in SUBSET buffer :
              /\ stored' = stored \cup written
              /\ cached' = cached \cup (written \ stored)

(* The power fails: anything not fsynced may be gone. *)
PowerLoss == /\ PowerFails
             /\ ProcessGone
             /\ \E kept \in SUBSET (cached \cup buffer) :
                   stored' = (stored \ cached) \cup kept
             /\ cached' = {}

Next == \/ Open
        \/ \E w \in Trees : StartBackup(w)
        \/ RefuseBackup \/ RejectBackup
        \/ BeginChunking
        \/ \E c \in Chunks : PutChunk(c)
        \/ BeginStoring \/ Flush \/ BeginCommittingMeta
        \/ PublishManifest \/ ArchiveSnapshot
        \/ BeginAuditing \/ AppendAuditEntry \/ SaveIndex \/ Complete
        \/ Fail \/ Recover \/ GcOrphans
        \/ \E s \in snaps : PruneSnapshot(s)
        \/ Kill \/ PowerLoss

Spec == Init /\ [][Next]_vars

-----------------------------------------------------------------------------
Manifests == [txn : Nat, chunks : SUBSET Chunks]

Records == Nat \X Chunks

Index == [Chunks -> Nat \cup {NoPack}]

(* Every variable has its type; what fsync has not covered is written,     *)
(* what is still to be put belongs to the tree, a reused id was used.      *)
TypeOK == /\ sb \in Block /\ mem \in Block
          /\ stored \subseteq Records /\ cached \subseteq stored
          /\ buffer \subseteq Records
          /\ packFiles \subseteq Nat
          /\ idxFile \in Index /\ idx \in Index
          /\ manifest \in Manifests /\ rarLast \in Manifests
          /\ snaps \subseteq Manifests /\ rarFirst \subseteq Manifests
          /\ tomb \subseteq Chunks /\ want \subseteq Chunks /\ todo \subseteq want
          /\ pc \in {"off", "ready", "failed", "scanning", "chunking", "storing", "flushed",
                    "committing", "published", "archived", "auditing", "audited", "finishing"}
          /\ session \in Nat
          /\ packOpen \in BOOLEAN
          /\ begun \subseteq Nat /\ reused \subseteq begun

(* The manifest never runs ahead of the audit chain by more than the one   *)
(* transaction whose entry AppendAuditEntry has still to append, however   *)
(* many aborted backups and crashes there were.                            *)
AuditTrailsManifest ==
    manifest.txn \in {rarLast.txn, rarLast.txn + 1}

(* An Idle superblock names a backup that is complete: its transaction id  *)
(* is used up and it is audited, and as long as no later manifest has been *)
(* published the last audit entry is the manifest's.                       *)
IdleIsComplete ==
    sb.phase = "Idle" /\ sb.txn > 0 =>
        /\ sb.next = sb.txn + 1
        /\ \E e \in rarFirst : e.txn = sb.txn
        /\ manifest.txn \in {sb.txn, sb.next}
        /\ manifest.txn = sb.txn => manifest = rarLast

(* A superblock that says a backup is in progress is never behind the      *)
(* manifest: the branch of StartupSelfCheck that aligns it to a newer      *)
(* manifest, and with it the loss of the transaction in flight, is never   *)
(* taken.                                                                  *)
InProgressCoversManifest ==
    sb.phase \in InProgress => manifest.txn <= sb.txn

(* Every chunk of the published manifest can be read from the chunk file:  *)
(* Flush precedes the publication, and no crash or retry undoes it.        *)
PublishedReadable ==
    \A c \in manifest.chunks : <<0, c>> \in stored

(* Every entry of chunk.idx points to a record that is in its pack, on     *)
(* disk and fsynced, if only one backup has used the pack's transaction.   *)
IndexedReadable ==
    \A c \in Chunks :
        idxFile[c] # NoPack /\ idxFile[c] \notin reused =>
            <<idxFile[c], c>> \in stored \ cached

(* The chunks of a completed backup are all in the chunk index that the    *)
(* next Open loads.                                                        *)
CompletedIndexed ==
    sb.phase = "Idle" /\ sb.txn > 0 /\ manifest.txn = sb.txn =>
        \A c \in manifest.chunks : LoadIndex[c] # NoPack

(* A snapshot whose transaction id is used up is deleted or kept as it is, *)
(* never replaced by another backup of the same id.                        *)
SnapshotsImmutable ==
    [][\A s \in snaps, u \in snaps' :
          s.txn < sb.next /\ u.txn = s.txn => u = s]_vars

(* Neither the next transaction id nor the manifest goes back.             *)
TxnMonotone ==
    [][sb'.next >= sb.next /\ manifest'.txn >= manifest.txn]_vars

Journal == INSTANCE BackupJournal
             WITH Archiving <- Modern, completed <- sb.next - 1, head <- manifest,
                  archive <- snaps, journal <- rarLast

(* Superblock, manifest, snapshots and audit chain, written one after the  *)
(* other, implement BackupJournal: an id is used up exactly when manifest, *)
(* snapshot and audit entry of one and the same backup are there.          *)
ImplementsJournal == Journal!Spec

-----------------------------------------------------------------------------
(* "Completed backups remain fully verifiable": every chunk of a completed *)
(* backup is in the index and its record is in the pack.                   *)
CompletedReadable ==
    sb.phase = "Idle" /\ sb.txn > 0 /\ manifest.txn = sb.txn /\ pc \in {"off", "ready"} =>
        \A c \in manifest.chunks : <<LoadIndex[c], c>> \in stored

(* "A second Put of the same hash may write a new record, and the index    *)
(* replaces the old location": a backup that puts a tombstoned chunk again *)
(* can be read.                                                            *)
NoReferencedTombstone ==
    sb.phase = "Idle" /\ manifest.txn = sb.txn => manifest.chunks \cap tomb = {}
=============================================================================
